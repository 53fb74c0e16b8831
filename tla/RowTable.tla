------------------------------ MODULE RowTable ------------------------------
(***************************************************************************)
(* A table class that the schema compiler emits (generateTableHeader,      *)
(* generateInsertMethod, ... of tools/schemac/schema_compiler.cc), and the *)
(* calls of its clients.  The emitted column vectors always have the same  *)
(* length; they are modelled as one vector of tuples.  The class has no    *)
(* locks and no checks of its arguments.                                   *)
(***************************************************************************)
EXTENDS SchemaCatalog, Functions

CONSTANTS
    Data,         \* values of a column
    MaxTuples,    \* bound: length of the vectors
    MaxMisuse,    \* bound: in how many ways clients break the contract
    SizeMod       \* 2^w for a size of w bits (uint64_t)

ASSUME RowTableAssumption == MaxTuples \in Nat /\ SizeMod \in Nat /\ MaxTuples < SizeMod

VARIABLES
    table,            \* the columns and the primary key of the class
    tuples,           \* tid -> tuple, for 0 .. deleted_tuples.size() - 1
    deleted_tuples,   \* tid -> the slot is free
    first_free_pos,   \* where insert() starts to look for a free slot
    primary_key,      \* the index: key -> tid
    size,             \* TableBase::size
    misuse            \* history: the ways in which clients have broken the contract

rowVars == <<table, tuples, deleted_tuples, first_free_pos, primary_key, size, misuse>>
allVars == <<catalogVars, rowVars>>

\* Ways to call the class that its code does not meet with.
KeyTaken == "key taken"
RemovedAgain == "removed again"
DeletedUpdated == "deleted updated"

NoTable == [columns |-> <<>>, primary_key |-> <<>>]

Columns == ToSet(table.columns)
Key == table.primary_key
KeyOf(row) == [i \in DOMAIN Key |-> row[Key[i]]]

Slots == DOMAIN deleted_tuples
Count == Cardinality(Slots)
Live == {t \in Slots : ~ deleted_tuples[t]}

InitRows ==
    /\ table = NoTable
    /\ tuples = <<>> /\ deleted_tuples = <<>>
    /\ first_free_pos = 0
    /\ primary_key = <<>>
    /\ size = 0
    /\ misuse = {}

\* A program that is built with the emitted classes uses one of them.
Emit(i) ==
    /\ Compile
    /\ table' = [columns |-> tables[i].columns, primary_key |-> tables[i].primary_key]
    /\ UNCHANGED <<tuples, deleted_tuples, first_free_pos, primary_key, size, misuse>>

\* Faulty: first_free_pos itself.
FirstPosition(pos) == pos = first_free_pos

\* The loop of insert(): the first free slot from first_free_pos on, or the end.
FreePosition(pos) ==
    /\ pos \in Slots => deleted_tuples[pos]
    /\ \A p \in first_free_pos .. pos - 1 : ~ deleted_tuples[p]

\* push_back() or an overwritten slot of a vector; an entry of a map.
Put(f, x, v) == [y \in {x} \cup DOMAIN f |-> IF y = x THEN v ELSE f[y]]

InsertTuple(row) ==
    \E pos \in first_free_pos .. Count :
        /\ FreePosition(pos)
        /\ pos < MaxTuples
        /\ first_free_pos' = pos + 1
        /\ tuples' = Put(tuples, pos, row)
        /\ deleted_tuples' = Put(deleted_tuples, pos, FALSE)
        /\ primary_key' = IF Key = <<>> THEN primary_key ELSE Put(primary_key, KeyOf(row), pos)
        /\ size' = (size + 1) % SizeMod
        /\ misuse' = IF Key # <<>> /\ \E t \in Live : KeyOf(tuples[t]) = KeyOf(row)
                     THEN misuse \cup {KeyTaken} ELSE misuse
        /\ UNCHANGED table

\* Faulty: the entry stays; or the free slot is forgotten.
NotErased(key) == primary_key
NotLowered(tid) == first_free_pos

Erased(key) == Restrict(primary_key, DOMAIN primary_key \ {key})

\* A free slot below first_free_pos lowers it.
Lowered(tid) == IF tid < first_free_pos THEN tid ELSE first_free_pos

RemoveTuple(tid) ==
    /\ primary_key' = IF Key = <<>> THEN primary_key ELSE Erased(KeyOf(tuples[tid]))
    /\ deleted_tuples' = [deleted_tuples EXCEPT ![tid] = TRUE]
    /\ size' = (size - 1) % SizeMod
    /\ first_free_pos' = Lowered(tid)
    /\ misuse' = IF tid \in Live THEN misuse ELSE misuse \cup {RemovedAgain}
    /\ UNCHANGED <<table, tuples>>

\* What get_<column>(tid) returns: a value, or nothing.
GetColumn(tid, c) == IF deleted_tuples[tid] THEN {} ELSE {tuples[tid][c]}

\* Faulty: only the key's first column moves the entry.
FirstOfKey(c) == Key # <<>> /\ c = Key[1]

PartOfKey(c) == c \in ToSet(Key)

\* Overwriting a column of the key moves the tuple's index entry.
UpdateColumn(tid, c, v) ==
    LET row == [tuples[tid] EXCEPT ![c] = v]
        taken == \E t \in Live \ {tid} : KeyOf(tuples[t]) = KeyOf(row)
    IN  /\ tuples' = [tuples EXCEPT ![tid] = row]
        /\ primary_key' = IF PartOfKey(c)
                          THEN Put(Erased(KeyOf(tuples[tid])), KeyOf(row), tid)
                          ELSE primary_key
        /\ misuse' = misuse \cup (IF tid \in Live THEN {} ELSE {DeletedUpdated})
                            \cup (IF c \in ToSet(Key) /\ taken THEN {KeyTaken} ELSE {})
        /\ UNCHANGED <<table, deleted_tuples, first_free_pos, size>>

RowStep ==
    \/ \E row \in [Columns -> Data] : InsertTuple(row)
    \/ \E tid \in Slots : RemoveTuple(tid)
    \/ \E tid \in Slots, c \in Columns, v \in Data : UpdateColumn(tid, c, v)

RowNext ==
    \/ Statement /\ UNCHANGED rowVars
    \/ \E i \in DOMAIN tables : Emit(i)
    \/ /\ phase = "emitted"
       /\ RowStep
       /\ Cardinality(misuse') <= MaxMisuse
       /\ UNCHANGED catalogVars

RowInit == InitCatalog /\ InitRows

RowSpec == RowInit /\ [][RowNext]_allVars

-----------------------------------------------------------------------------
\* The shapes of the vectors and of the index.
RowTypeOK ==
    /\ ToSet(Key) \subseteq Columns
    /\ \E n \in 0 .. MaxTuples : Slots = 0 .. n - 1
    /\ DOMAIN tuples = Slots /\ Range(deleted_tuples) \subseteq BOOLEAN
    /\ Range(primary_key) \subseteq Slots
    /\ size \in 0 .. SizeMod - 1
    /\ misuse \subseteq {KeyTaken, RemovedAgain, DeletedUpdated}

\* insert() never looks below first_free_pos: no free slot is there, and the
\* position it finds is never behind the end of the vectors, where writing would
\* be out of bounds, however clients use the table.
FreeSlotsFound ==
    /\ first_free_pos <= Count
    /\ \A t \in Slots : t < first_free_pos => ~ deleted_tuples[t]

\* get_size() is the number of tuples until a client removes a tuple twice.
SizeExact == RemovedAgain \notin misuse => size = Cardinality(Live)

\* An index entry leads to a tuple of its key that is not deleted, even where
\* keys were taken twice or tuples removed twice; only updating the key of a
\* deleted tuple puts an entry back that insert() then leaves behind.
EntriesResolve ==
    DeletedUpdated \notin misuse =>
        \A k \in DOMAIN primary_key :
            primary_key[k] \in Live /\ KeyOf(tuples[primary_key[k]]) = k

\* The index finds every tuple as long as clients keep to the contract.
EveryTupleFound ==
    (misuse = {} /\ Key # <<>>) =>
        \A t \in Live : KeyOf(tuples[t]) \in DOMAIN primary_key
                        /\ primary_key[KeyOf(tuples[t])] = t

\* The vectors grow only when no slot is free: remove() always lets a later
\* insert() find its slot.
NoSlotWasted == [][Slots' # Slots => Live = Slots]_allVars

-----------------------------------------------------------------------------
\* The emitted class implements KeyedRelation.
RowsOf(d) == [ToSet(d.columns) -> Data]
KeyOfRow(d, r) == [i \in DOMAIN d.primary_key |-> r[d.primary_key[i]]]
IsKeyed(d) == d.primary_key # <<>>

\* The tuples as the get_ methods show them.
Seen ==
    [tid \in Live |-> [c \in Columns |-> CHOOSE v \in GetColumn(tid, c) : TRUE]]

Relation == INSTANCE KeyedRelation WITH
    Tids <- 0 .. MaxTuples - 1,
    Rows <- RowsOf,
    KeyIn <- KeyOfRow,
    HasKey <- IsKeyed,
    definition <- IF phase = "emitted" THEN {table} ELSE {},
    rows <- Seen,
    index <- primary_key,
    number <- size,
    broken <- misuse # {}

\* To its clients the table is a keyed relation: slots, free positions and reused
\* tids do not show, and no call touches another tuple than its own.
RelationSpec == Relation!RelationSpec
=============================================================================
