------------------------------ MODULE Storage ------------------------------
(***************************************************************************)
(* The columns of a table (include/imlab/dremel/storage.h) and the state   *)
(* of the generated table class (tools/protobuf/gen/schema.h).             *)
(***************************************************************************)
EXTENDS ProtoMessage

CONSTANT UIntMod   \* 2^w for the width w of "unsigned", scaled down

ASSUME UIntModAssumption ==
    UIntMod \in Nat /\ \A f \in Nodes : Len(f) < UIntMod

VARIABLES
    columns,      \* columns[l]: the rows of the column of leaf l
    recordTIDs,   \* recordTIDs[l][n]: where record n starts in column l
    size          \* the number of records

storageVars == <<columns, recordTIDs, size>>

\* A row without a value stores T{} in its place.
Row == [v : Values \cup {Default}, r : Nat, d : 0 .. UIntMod - 1]

InitStorage ==
    /\ columns = [l \in Leaves |-> <<>>]
    /\ recordTIDs = [l \in Leaves |-> <<>>]
    /\ size = 0

\* Calls DremelColumn::insert(row) on every column of ls.
ColumnInsert(ls, row) ==
    columns' = [l \in Leaves |-> IF l \in ls THEN Append(columns[l], row) ELSE columns[l]]

\* TIDs count from 0.  Beyond the end a FieldReader reports a null at level 0.
RowAt(l, tid) ==
    IF tid < Len(columns[l]) THEN columns[l][tid + 1] ELSE [v |-> Default, r |-> 0, d |-> 0]

\* DremelColumn::get: a row is a null when its definition level is not the maximum
\* of its column.
GetsNull(l, tid) == RowAt(l, tid).d < GetDefinitionLevel[l]

IsNull(l, tid) == tid >= Len(columns[l]) \/ GetsNull(l, tid)
=============================================================================
