--------------------------- MODULE KeyedRelation ---------------------------
(***************************************************************************)
(* What a row table promises its clients: tuples with stable identifiers,  *)
(* their number, and a primary key index that finds each tuple by its key. *)
(* A client that inserts or writes a key that is taken, or removes or      *)
(* updates what is not there, breaks the contract; after that the promise  *)
(* covers the tuples themselves, no longer the index and the number.       *)
(***************************************************************************)
EXTENDS Integers, FiniteSets

CONSTANTS
    Tids,           \* identifiers of tuples
    Rows(_),        \* Rows(d): the tuples that a table of definition d can hold
    KeyIn(_, _),    \* KeyIn(d, r): the key of tuple r
    HasKey(_)       \* HasKey(d): the table has a primary key

VARIABLES
    definition,     \* the table's columns and key: a set of at most one
    rows,           \* identifier -> tuple
    index,          \* key -> identifier
    number,         \* the number of tuples
    broken          \* a client has broken the contract

relationVars == <<definition, rows, index, number, broken>>

RelationInit ==
    /\ definition = {}
    /\ rows = <<>> /\ index = <<>> /\ number = 0
    /\ broken = FALSE

Create ==
    /\ definition = {} /\ Cardinality(definition') = 1
    /\ UNCHANGED <<rows, index, number, broken>>

IndexOf(d, rs) ==
    [k \in {KeyIn(d, rs[t]) : t \in DOMAIN rs} |->
        CHOOSE t \in DOMAIN rs : KeyIn(d, rs[t]) = k]

Unique(d, rs) ==
    \A t, u \in DOMAIN rs : KeyIn(d, rs[t]) = KeyIn(d, rs[u]) => t = u

\* After a call, number and index are those of the tuples, if the contract holds.
Kept(d) ==
    /\ UNCHANGED definition
    /\ broken' = (broken \/ (HasKey(d) /\ ~ Unique(d, rows')))
    /\ ~ broken' => /\ number' = Cardinality(DOMAIN rows')
                    /\ HasKey(d) => index' = IndexOf(d, rows')

\* A new tuple gets an identifier that no other tuple has.
Add(d) ==
    /\ \E t \in Tids \ DOMAIN rows, r \in Rows(d) :
        rows' = [u \in DOMAIN rows \cup {t} |-> IF u = t THEN r ELSE rows[u]]
    /\ Kept(d)

Delete(d) ==
    /\ \E t \in DOMAIN rows : rows' = [u \in DOMAIN rows \ {t} |-> rows[u]]
    /\ Kept(d)

Change(d) ==
    /\ \E t \in DOMAIN rows : \E c \in DOMAIN rows[t], r \in Rows(d) :
        rows' = [rows EXCEPT ![t][c] = r[c]]
    /\ Kept(d)

\* Removing or updating a tuple that is not there.
Misuse ==
    /\ broken' = TRUE
    /\ UNCHANGED <<definition, rows>>

RelationNext == Create \/ Misuse \/ \E d \in definition : Add(d) \/ Delete(d) \/ Change(d)

RelationSpec == RelationInit /\ [][RelationNext]_relationVars
=============================================================================
