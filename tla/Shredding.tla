----------------------------- MODULE Shredding -----------------------------
(***************************************************************************)
(* Inserting a record: DocumentTable::insert, Shredder::DissectRecord and  *)
(* the FieldWriter tree (include/imlab/dremel/shredding.h and              *)
(* field_writer.h, tools/protobuf/gen/schema.cc).                          *)
(*                                                                         *)
(* DissectRecordInternal is recursive: callStack holds its activations,    *)
(* the innermost one last.  The list made by DecodeMessage is walked by    *)
(* the cursor (child, occ) of the activation: occurrence occ of the        *)
(* child-th field, where a field that is not set still has one entry.      *)
(***************************************************************************)
EXTENDS Storage, Striping

CONSTANTS
    Messages,     \* the records that clients insert
    MaxRecords    \* bound: how many records are inserted

ASSUME MessagesAssumption ==
    /\ \A m \in Messages : IsMessage(m)
    /\ MaxRecords \in Nat

VARIABLES
    callStack,    \* the activations of DissectRecordInternal
    message,      \* the record being inserted
    stored        \* history: the records inserted so far

shredVars == <<columns, recordTIDs, size, callStack, message, stored>>

Frame(a, w, rep) ==
    [msg |-> a, writer |-> w, rep |-> rep, child |-> 1, occ |-> 1, seen |-> {}]

Top == Last(callStack)

\* find_child_writer for the field under the cursor.
ChildWriter(fr) == Append(fr.writer, fr.child)

FieldAddress(fr) == Child(fr.msg, fr.child, fr.occ)

HasValue(fr) == FieldAddress(fr) \in DOMAIN message

\* Faulty: seen fields are not told apart; or they get their definition level.
LevelOfMessage(fr) == fr.rep
LevelByDefinition(fr) ==
    IF fr.child \in fr.seen THEN GetDefinitionLevel[ChildWriter(fr)] ELSE fr.rep

\* The repetition level of the entry under the cursor.
ChildRepetitionLevel(fr) ==
    IF fr.child \in fr.seen THEN GetMaxRepetitionLevel[ChildWriter(fr)] ELSE fr.rep

\* The activation after its current entry: the field is marked as seen and the
\* cursor moves to the next entry of DecodeMessage's list.
NextEntry(fr) ==
    LET more == IsRepeated(ChildWriter(fr)) /\ fr.occ < FieldSize(message, fr.msg, fr.child)
    IN  [fr EXCEPT !.seen = @ \cup {fr.child},
                   !.child = IF more THEN @ ELSE @ + 1,
                   !.occ = IF more THEN @ + 1 ELSE 1]

\* Faulty: a null does not reach the columns of nested groups.
ColumnsOfWriter(w) == {l \in Leaves : l = w \/ Front(l) = w}

\* The columns below writer w of the FieldWriter tree.
ColumnsBelow(w) == {l \in Leaves : IsPrefix(w, l)}

\* Faulty: the level of the writer itself; or that of the group around it, less one.
UnreducedLevel(w) == GetDefinitionLevel[w]
ReducedTwice(w) == (GetDefinitionLevel[Front(w)] - 1) % UIntMod

\* FieldWriter::write(repetition_level): definition levels are unsigned, so that of
\* a required field of the record type, 0, wraps around.
NullDefinitionLevel(w) == (GetDefinitionLevel[w] - 1) % UIntMod
-----------------------------------------------------------------------------
InitShredding ==
    /\ InitStorage
    /\ callStack = <<>>
    /\ message = EmptyMessage
    /\ stored = <<>>

\* DocumentTable::insert up to the call of DissectRecord.
Insert(m) ==
    /\ callStack = <<>>
    /\ size < MaxRecords
    /\ recordTIDs' = [l \in Leaves |-> Append(recordTIDs[l], Len(columns[l]))]
    /\ message' = m
    /\ callStack' = <<Frame(<<>>, Root, 0)>>
    /\ UNCHANGED <<columns, size, stored>>

\* An activation still has entries.
Working == callStack # <<>> /\ Top.child <= Arity[Top.writer]

Advance == callStack' = Append(Front(callStack), NextEntry(Top))

\* An entry without a value: a null in all columns below its writer.
WriteNull ==
    /\ Working
    /\ ~ HasValue(Top)
    /\ LET w == ChildWriter(Top)
       IN  ColumnInsert(ColumnsBelow(w), [v |-> Default,
                                          r |-> ChildRepetitionLevel(Top),
                                          d |-> NullDefinitionLevel(w)])
    /\ Advance
    /\ UNCHANGED <<recordTIDs, size, message, stored>>

\* AtomicFieldWriter::write_value.
WriteValue ==
    /\ Working
    /\ HasValue(Top)
    /\ ChildWriter(Top) \in Leaves
    /\ LET w == ChildWriter(Top)
       IN  ColumnInsert({w}, [v |-> message[FieldAddress(Top)],
                              r |-> ChildRepetitionLevel(Top),
                              d |-> GetDefinitionLevel[w]])
    /\ Advance
    /\ UNCHANGED <<recordTIDs, size, message, stored>>

\* The recursive call for a group that is present.
Descend ==
    /\ Working
    /\ HasValue(Top)
    /\ ChildWriter(Top) \in Groups
    /\ callStack' = Append(Append(Front(callStack), NextEntry(Top)),
                           Frame(FieldAddress(Top), ChildWriter(Top), ChildRepetitionLevel(Top)))
    /\ UNCHANGED <<columns, recordTIDs, size, message, stored>>

\* An activation has walked its list; the outermost one ends insert().
Return ==
    /\ callStack # <<>>
    /\ Top.child > Arity[Top.writer]
    /\ callStack' = Front(callStack)
    /\ IF Len(callStack) = 1
       THEN /\ size' = size + 1
            /\ stored' = Append(stored, message)
            /\ message' = EmptyMessage
       ELSE UNCHANGED <<size, stored, message>>
    /\ UNCHANGED <<columns, recordTIDs>>

ShredStep == WriteNull \/ WriteValue \/ Descend \/ Return

ShredNext == (\E m \in Messages : Insert(m)) \/ ShredStep

ShredSpec == InitShredding /\ [][ShredNext]_shredVars
-----------------------------------------------------------------------------
Frames == [msg : Seq(Nat \X Nat), writer : Types, rep : Nat,
           child : Nat \ {0}, occ : Nat \ {0}, seen : SUBSET Nat]

\* The shapes of the state of table and inserter.
TypeOK ==
    /\ columns \in [Leaves -> Seq(Row)]
    /\ recordTIDs \in [Leaves -> Seq(Nat)]
    /\ size \in Nat
    /\ callStack \in Seq(Frames)
    /\ message \in Messages \cup {EmptyMessage}
    /\ stored \in Seq(Messages)

\* The rows of record n in column l (so far, when n is being inserted).
Written(l, n) ==
    SubSeq(columns[l], recordTIDs[l][n] + 1,
           IF n < Len(recordTIDs[l]) THEN recordTIDs[l][n + 1] ELSE Len(columns[l]))

\* The TIDs that insert() remembers before it dissects a record are where the
\* record's rows start, in every column: every record has a row in every
\* column, and repetition level 0 occurs at those TIDs and nowhere else.
RecordBoundaries ==
    \A l \in Leaves :
        /\ \A n \in 1 .. size : recordTIDs[l][n] < Len(columns[l])
        /\ \A n \in 1 .. Len(recordTIDs[l]) - 1 : recordTIDs[l][n] < recordTIDs[l][n + 1]
        /\ \A i \in 1 .. Len(columns[l]) :
              columns[l][i].r = 0 <=> \E n \in 1 .. Len(recordTIDs[l]) : recordTIDs[l][n] = i - 1

\* DissectRecordInternal, with its seen_fields and its nulls for missing
\* subtrees, writes exactly the rows the definition asks for, in their order,
\* and at every moment of an insert a prefix of them, for each record that has
\* its required fields.
ColumnsFollowDefinition ==
    \A l \in Leaves :
        /\ \A n \in 1 .. size : IsInitialized(stored[n]) => Written(l, n) = Striped(stored[n], l)
        /\ callStack # <<>> /\ IsInitialized(message) =>
               IsPrefix(Written(l, size + 1), Striped(message, l))

\* The definition level of a row is at most that of its column, and less exactly if
\* there is no value: DremelColumn::get tells a null from a value by the level
\* alone, and would take one that has wrapped for that of a value T{}.
NullsAreTold ==
    LET Told(l, n) ==
            \A i \in 1 .. Len(Written(l, n)) :
                LET row == Written(l, n)[i]
                IN  /\ row.d <= GetDefinitionLevel[l]
                    /\ row.v = Default <=> row.d < GetDefinitionLevel[l]
    IN  \A l \in Leaves :
            /\ \A n \in 1 .. size : IsInitialized(stored[n]) => Told(l, n)
            /\ callStack # <<>> /\ IsInitialized(message) => Told(l, size + 1)

\* The deepest node above two leaves: the record type, a group, or the leaf.
SharedNode(l1, l2) == Prefix(l1, CommonLength(l1, l2))
-----------------------------------------------------------------------------
(* The strengthening that makes RecordBoundaries inductive. *)

\* insert() has remembered one TID more than there are complete records.
OpenRecord ==
    \A l \in Leaves :
        /\ Len(recordTIDs[l]) = size + IF callStack = <<>> THEN 0 ELSE 1
        /\ callStack # <<>> => recordTIDs[l][size + 1] <= Len(columns[l])

\* The activation writes the fields of its own message, in declaration order,
\* and has seen the fields before the cursor.
Consistent(fr) ==
    /\ TypeOf(fr.msg) = fr.writer
    /\ fr.child <= Arity[fr.writer] + 1
    /\ fr.occ > 1 => fr.child <= Arity[fr.writer] /\ IsRepeated(ChildWriter(fr))
    /\ fr.seen = (1 .. fr.child - 1) \cup (IF fr.occ > 1 THEN {fr.child} ELSE {})

\* The activations are nested as the groups of the schema are.
Nested ==
    /\ callStack # <<>> => message \in Messages /\ callStack[1].writer = Root
    /\ \A k \in 1 .. Len(callStack) : Consistent(callStack[k])
    /\ \A k \in 1 .. Len(callStack) - 1 :
          \E c \in callStack[k].seen : callStack[k + 1].writer = Append(callStack[k].writer, c)
    /\ \A k \in 1 .. Len(callStack) : \A j \in 1 .. k :
          IsPrefix(callStack[j].writer, callStack[k].writer)

\* The record being inserted has a row in column l.
Started(l) == recordTIDs[l][size + 1] < Len(columns[l])

\* l is a column of activation k and of no activation inside it.
Owns(k, l) ==
    /\ IsPrefix(callStack[k].writer, l)
    /\ k < Len(callStack) => ~ IsPrefix(callStack[k + 1].writer, l)

\* An activation knows in which of its columns the record has started: in all
\* of them if its repetition level is above 0, else in those of seen fields.
StartedColumns ==
    \A k \in 1 .. Len(callStack) : \A l \in Leaves :
        Owns(k, l) => (Started(l) <=> \/ callStack[k].rep > 0
                                      \/ l[Len(callStack[k].writer) + 1] \in callStack[k].seen)

\* No column has a repetition level above its own, and no activation one above
\* that of its writer.
LevelsInRange ==
    /\ \A l \in Leaves : \A i \in 1 .. Len(columns[l]) : columns[l][i].r <= GetMaxRepetitionLevel[l]
    /\ \A k \in 1 .. Len(callStack) :
          callStack[k].rep <= GetMaxRepetitionLevel[callStack[k].writer]

\* The inductive invariant of insert(): together with where each activation has
\* started its columns, the record boundaries survive every single step.
ShreddingInvariant ==
    TypeOK /\ RecordBoundaries /\ OpenRecord /\ Nested /\ StartedColumns

(* The strengthening that makes ColumnsFollowDefinition inductive. *)

\* An activation's cursor is just behind the entry it has descended into.
CursorBehind(fr, a) ==
    LET i == Last(a)[1]
        k == Last(a)[2]
    IN  IF Child(fr.msg, i, k + 1) \in DOMAIN message THEN fr.child = i /\ fr.occ = k + 1
        ELSE fr.child = i + 1 /\ fr.occ = 1

\* The activations are on the way to an address of the message, one step each, and
\* their repetition level is that of the last step behind a first occurrence.
OnTheWay ==
    /\ \A k \in 1 .. Len(callStack) :
          LET fr == callStack[k]
          IN  /\ fr.msg \in DOMAIN message /\ Len(fr.msg) = k - 1
              /\ fr.rep = GetMaxRepetitionLevel[Prefix(fr.writer, LastRepeat(fr.msg))]
              /\ fr.occ > 1 => HasValue(fr)
    /\ \A k \in 1 .. Len(callStack) : \A j \in 1 .. k - 1 :
          callStack[j].msg = Prefix(callStack[k].msg, j - 1)
    /\ \A k \in 1 .. Len(callStack) - 1 : CursorBehind(callStack[k], callStack[k + 1].msg)

\* The way to slot a of column l leaves the message of an activation at its cursor
\* or behind it.
IsAhead(fr, a, l) ==
    LET n == Len(fr.msg) + 1
    IN  /\ IsPrefix(fr.msg, a)
        /\ \/ l[n] > fr.child
           \/ l[n] = fr.child /\ (n <= Len(a) => a[n][2] >= fr.occ)

SlotsAhead(l) ==
    {a \in Slots(message, l) : \E k \in 1 .. Len(callStack) : IsAhead(callStack[k], a, l)}

\* The rows written so far are those of the slots that are not ahead.
RowsOfSlots ==
    callStack # <<>> /\ IsInitialized(message) =>
        \A l \in Leaves :
            Written(l, size + 1) =
                SubSeq(Striped(message, l), 1, Cardinality(Slots(message, l) \ SlotsAhead(l)))

StripingInvariant ==
    /\ ShreddingInvariant
    /\ Len(stored) = size
    /\ OnTheWay /\ RowsOfSlots /\ ColumnsFollowDefinition
=============================================================================
