----------------------------- MODULE Assembling -----------------------------
(***************************************************************************)
(* Reading records: DocumentTable::get_range, RecordAssembler and the      *)
(* FieldReaders (include/imlab/dremel/assembling.h and field_reader.h,     *)
(* tools/protobuf/gen/schema.cc).                                          *)
(*                                                                         *)
(* A step of AssembleNextRecord is one iteration of its loop.  A pointer    *)
(* on the message stack is the address of a message in the record; the     *)
(* depth of the stack does not count the record itself.                    *)
(***************************************************************************)
EXTENDS Storage, RecordFSM

CONSTANT
    EmptyRangeAtEnd   \* whether clients ask for the empty range after the last record

VARIABLES
    fields,       \* the projection of the running get_range, <<>> when none runs
    range,        \* its arguments from_tid and to_tid
    readers,      \* readers[f]: _current_index of the FieldReader of f
    current,      \* _currently_read_field
    lastRead,     \* _last_read_field
    msgStack,     \* _msg_stack
    record,       \* the record that is being assembled
    records,      \* the records assembled so far
    ok            \* FALSE once an assertion failed or memory was misused

readVars == <<fields, range, readers, current, lastRead, msgStack, record, records, ok>>

Idle == fields = <<>>

Depth == Len(msgStack) - 1

\* GetFullDefinitionLevel(GetCommonAncestor(f, g)).
AncestorLevel(f, g) == GetFullDefinitionLevel(GetCommonAncestor[<<f, g>>])

\* The message at a depth of the stack is of the type of the common ancestor.
AssertTop(stack, f, g) ==
    TypeOf(stack[AncestorLevel(f, g) + 1]) = GetCommonAncestor[<<f, g>>]
-----------------------------------------------------------------------------
\* MoveToLevel and ReturnToLevel change the depth of the stack first to that of
\* a common ancestor, unless that is deeper.
Unwound(depth, f, g) == Min({depth, AncestorLevel(f, g)})

\* The message type MoveToLevel(new_field) wants on top: that of a group, the one
\* around a leaf, or the record type.
Target(newField) == IF newField \in Leaves THEN GetFieldDescriptor(newField) ELSE newField

\* Faulty: MoveToLevel does not unwind further when the target is further up.
KeptToAncestor(target) == Unwound(Depth, lastRead, current)

\* How much of the stack MoveToLevel keeps: it calls ReturnToLevel when the target
\* is further up.
KeptDepth(target) ==
    LET depth == Unwound(Depth, lastRead, current)
    IN  IF GetFullDefinitionLevel(target) < depth THEN Unwound(depth, lastRead, target) ELSE depth

\* Its assertions; and climbing from the target to the top message it does not
\* go past the record type, which has no containing field.
MoveIsSound(target) ==
    LET depth == Unwound(Depth, lastRead, current)
        kept == KeptDepth(target)
    IN  /\ depth < Depth => AssertTop(msgStack, lastRead, current)
        /\ kept < depth => AssertTop(msgStack, lastRead, target)
        /\ IsPrefix(TypeOf(msgStack[kept + 1]), target)

\* The stack after MoveToLevel: what is kept, and below it the messages that
\* AddMessage or MutableMessage return on the way down to the target.
MovedStack(target) ==
    LET kept == KeptDepth(target)
        pointer[n \in 0 .. Len(target)] ==
            IF n <= kept THEN msgStack[n + 1] ELSE Slot(record, pointer[n - 1], target[n])
    IN  [n \in 1 .. Len(target) + 1 |-> pointer[n - 1]]

\* A null of definition level d: the closest field above f that is there.
PresentField(f, d) == Prefix(f, d)
-----------------------------------------------------------------------------
InitAssembling ==
    /\ fields = <<>>
    /\ range = <<0, 0>>
    /\ readers = [f \in {} |-> 0]
    /\ current = Root
    /\ lastRead = Root
    /\ msgStack = << <<>> >>
    /\ record = EmptyMessage
    /\ records = <<>>
    /\ ok = TRUE

\* Faulty: the number of the record taken for its place in the column.
StartAtNumber(f, from) == from

\* Where the reader of column f starts.
StartIndex(f, from) == recordTIDs[f][from + 1]

\* get_range(from, to, F) up to its loop.  Only to <= size is asserted: for
\* from = size, Record_TIDs is read beyond its end.
GetRange(from, to, F) ==
    /\ Idle /\ ok
    /\ from <= to /\ to <= size
    /\ from < size \/ EmptyRangeAtEnd
    /\ fields' = F
    /\ range' = <<from, to>>
    /\ IF from < size
       THEN readers' = [f \in ToSet(F) |-> StartIndex(f, from)] /\ UNCHANGED ok
       ELSE UNCHANGED readers /\ ok' = FALSE
    /\ UNCHANGED <<current, lastRead, msgStack, record, records>>

\* Faulty: to_tid taken as inclusive.
MoreRecordsInclusive == ~ Idle /\ ok /\ Len(records) <= range[2] - range[1]

\* The loop of get_range; to_tid is exclusive.
MoreRecords == ~ Idle /\ ok /\ Len(records) < range[2] - range[1]

\* AssembleNextRecord up to its loop; the rest of its state is reset as soon as
\* a record is finished, where it is lost.
StartRecord ==
    /\ MoreRecords
    /\ current = Root
    /\ current' = Head(fields)
    /\ UNCHANGED <<fields, range, readers, lastRead, msgStack, record, records, ok>>

\* The record with the messages of the stack, those that are new included.
Opened(message, stack) ==
    [a \in DOMAIN message \cup ToSet(stack) |-> IF a \in DOMAIN message THEN message[a] ELSE Group]

\* AppendToRecord: added to a repeated leaf of the message at a parent, else set.
Appended(message, parent, leaf, v) == Put(message, Slot(message, parent, Last(leaf)), v)

\* One iteration of the loop of AssembleNextRecord: read the row, MoveToLevel and
\* append the value if there is one, look up the next field by the repetition
\* level of the next row, ReturnToLevel.
ReadField ==
    LET tid == readers[current]
        null == IsNull(current, tid)
        newField == IF null THEN PresentField(current, RowAt(current, tid).d) ELSE current
        target == Target(newField)
        stack == MovedStack(target)
        opened == Opened(record, stack)
        filled == IF null THEN opened
                  ELSE Appended(opened, Last(stack), current, RowAt(current, tid).v)
        next == NextField(fields, current, RowAt(current, tid + 1).r)
        sound == /\ MoveIsSound(target)
                 /\ AncestorLevel(newField, next) <= Len(target) => AssertTop(stack, newField, next)
    IN  /\ MoreRecords
        /\ current # Root
        /\ IF sound
           THEN /\ readers' = [readers EXCEPT ![current] = @ + 1]
                /\ current' = next
                /\ IF next = Root
                   THEN /\ lastRead' = Root /\ msgStack' = << <<>> >> /\ record' = EmptyMessage
                        /\ records' = Append(records, filled)
                   ELSE /\ lastRead' = IF AncestorLevel(newField, next) <= Len(target)
                                       THEN GetCommonAncestor[<<newField, next>>] ELSE newField
                        /\ msgStack' = Prefix(stack, Unwound(Len(target), newField, next) + 1)
                        /\ record' = filled
                        /\ UNCHANGED records
                /\ UNCHANGED ok
           ELSE ok' = FALSE /\ UNCHANGED <<readers, current, lastRead, msgStack, record, records>>
        /\ UNCHANGED <<fields, range>>

\* get_range returns and the caller drops the records.
ReturnRecords ==
    /\ ~ Idle /\ ok
    /\ Len(records) = range[2] - range[1]
    /\ fields' = <<>>
    /\ range' = <<0, 0>>
    /\ readers' = [f \in {} |-> 0]
    /\ records' = <<>>
    /\ UNCHANGED <<current, lastRead, msgStack, record, ok>>

ReadStep == StartRecord \/ ReadField \/ ReturnRecords
=============================================================================
