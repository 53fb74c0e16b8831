---------------------------- MODULE RecordStore ----------------------------
(***************************************************************************)
(* What a table promises its clients, without columns: insert() appends a  *)
(* record; get_range() hands out, one after the other, the records of a    *)
(* range, each as Answers allows: cut down to the fields that were asked   *)
(* for, where the columns tell its groups apart.  "Gets a range of record  *)
(* from the table. to_tid is exclusive." (schema.h)                        *)
(***************************************************************************)
EXTENDS Integers, Sequences

CONSTANTS
    AllMessages,      \* the records clients insert
    AllProjections,   \* the lists of fields they ask for
    Answers(_, _, _), \* Answers(m, F, r): r may come back for record m and fields F
    Capacity          \* bound: how many records are inserted

VARIABLES
    table,     \* the records, in the order of their insertion
    pending,   \* the record whose insert() is running: a set of at most one
    query,     \* the running get_range(): a set of at most one call
    answer     \* the records it has produced

storeVars == <<table, pending, query, answer>>

Quiet == pending = {} /\ query = {}

StoreInit ==
    /\ table = <<>>
    /\ pending = {} /\ query = {}
    /\ answer = <<>>

BeginInsert(m) ==
    /\ Quiet
    /\ Len(table) < Capacity
    /\ pending' = {m}
    /\ UNCHANGED <<table, query, answer>>

EndInsert ==
    /\ \E m \in pending : table' = Append(table, m)
    /\ pending' = {}
    /\ UNCHANGED <<query, answer>>

BeginRead(from, to, F) ==
    /\ Quiet
    /\ query' = {[from |-> from, to |-> to, fields |-> F]}
    /\ UNCHANGED <<table, pending, answer>>

Produce ==
    /\ \E q \in query :
        /\ q.from + Len(answer) < q.to
        /\ Len(answer') = Len(answer) + 1
        /\ SubSeq(answer', 1, Len(answer)) = answer
        /\ Answers(table[q.from + Len(answer) + 1], q.fields, answer'[Len(answer) + 1])
    /\ UNCHANGED <<table, pending, query>>

EndRead ==
    /\ \E q \in query : Len(answer) = q.to - q.from
    /\ query' = {}
    /\ answer' = <<>>
    /\ UNCHANGED <<table, pending>>

StoreNext ==
    \/ \E m \in AllMessages : BeginInsert(m)
    \/ EndInsert
    \/ \E from \in 0 .. Len(table), to \in 0 .. Len(table), F \in AllProjections :
          from <= to /\ BeginRead(from, to, F)
    \/ Produce
    \/ EndRead

\* A call that has begun ends.
CallsReturn == (pending # {} ~> pending = {}) /\ (query # {} ~> query = {})

StoreSpec == StoreInit /\ [][StoreNext]_storeVars /\ CallsReturn
=============================================================================
