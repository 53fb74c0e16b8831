--------------------------- MODULE DocumentTable ---------------------------
(***************************************************************************)
(* A table as its clients use it: insert() and get_range() of the          *)
(* generated class (tools/protobuf/gen/schema.cc), which shred records     *)
(* into columns and assemble them again.  The table has no locks; its      *)
(* clients run one call at a time.                                         *)
(***************************************************************************)
EXTENDS Shredding, Assembling

tableVars == <<shredVars, readVars>>

InitTable == InitShredding /\ InitAssembling

InsertRecord(m) == Idle /\ ok /\ Insert(m) /\ UNCHANGED readVars

ReadRange(from, to, F) ==
    callStack = <<>> /\ GetRange(from, to, F) /\ UNCHANGED shredVars

TableStep ==
    \/ ShredStep /\ UNCHANGED readVars
    \/ ReadStep /\ UNCHANGED shredVars

TableNext ==
    \/ \E m \in Messages : InsertRecord(m)
    \/ \E from, to \in 0 .. size, F \in Projections : ReadRange(from, to, F)
    \/ TableStep

\* A call runs on its client's thread until it returns.
TableSpec == InitTable /\ [][TableNext]_tableVars /\ WF_tableVars(TableStep)

-----------------------------------------------------------------------------
\* Record m cut down to the fields of F and the groups above them.
Projected(m, F) ==
    Restrict(m, {a \in DOMAIN m : a = <<>> \/ \E f \in ToSet(F) : IsPrefix(TypeOf(a), f)})

\* The running get_range, and the number of the record it is working on.
Turn == range[1] + Len(records) + 1

StartOf(l, n) == IF n <= size THEN recordTIDs[l][n] ELSE Len(columns[l])

\* The shapes of the state of the table and of a running get_range(): the cursor
\* is in the projection, pointers on the message stack point into the record.
TableTypeOK ==
    /\ TypeOK
    /\ Idle \/ fields \in Projections
    /\ range[1] \in 0 .. size /\ range[2] \in range[1] .. size
    /\ readers \in [ToSet(fields) -> Nat]
    /\ current \in ToSet(fields) \cup {Root}
    /\ lastRead \in Nodes
    /\ ToSet(msgStack) \subseteq DOMAIN record
    /\ Len(records) <= range[2] - range[1]

\* The assertions of MoveToLevel and ReturnToLevel hold, and no pointer into the
\* schema or the message stack is used when it is null.
AssertionsHold == ok

\* The message stack holds the messages on the path to the last read field, which is
\* above the field that is read next; between two records it is the record type.
StackOnPath ==
    /\ Len(msgStack) = Len(lastRead) + 1
    /\ \A n \in 1 .. Len(msgStack) : TypeOf(msgStack[n]) = Prefix(lastRead, n - 1)
    /\ IF current = Root THEN lastRead = Root ELSE IsStrictPrefix(lastRead, current)

\* A field is read next only while get_range has records to read; when no call
\* runs, none are left.
RecordPending ==
    /\ current # Root => MoreRecords
    /\ Idle => records = <<>>

\* What is in the record has addresses, finitely many; lists are lists.
RecordShape ==
    /\ DOMAIN record \subseteq Seq(Nat \X Nat) /\ IsFiniteSet(DOMAIN record)
    /\ msgStack \in Seq(DOMAIN record)
    /\ records \in Seq(ToSet(records))

\* A client waits until its call returns.
OneCall == Idle \/ callStack = <<>>

\* The inductive invariant of get_range(), and that of the table.
ReadingInvariant == TableTypeOK /\ StackOnPath /\ RecordPending /\ RecordShape /\ AssertionsHold
TableInvariant == ShreddingInvariant /\ LevelsInRange /\ OneCall /\ ReadingInvariant

\* The first and the last column of F below group t.
BelowGroup(F, t) == {i \in 1 .. Len(F) : IsPrefix(t, F[i])}
FirstBelow(F, t) == F[Min(BelowGroup(F, t))]
LastBelow(F, t) == F[Max(BelowGroup(F, t))]

\* A projection that the automaton keeps together.  Columns are read together as
\* far as their common ancestor; those that are, are next to one another; and when
\* another instance of a group follows, there is an edge back to the first of its
\* columns.  In the order of the schema this says that the first and the last column
\* of a repeated group share no repeated group further down.
Linked(F) ==
    /\ \A i, j, k \in 1 .. Len(F) :
          i < j /\ j < k => BackLevel(F, k, i) = Min({BackLevel(F, j, i), BackLevel(F, k, j)})
    /\ \A i \in 1 .. Len(F) : \A u \in 1 .. i - 1 :
          \A level \in BarrierLevel(F, i) + 1 .. BackLevel(F, i, u) : BackFields(F, i, level) # {}

\* Slots a and b part in the first n steps, where a has the earlier occurrence.
PartBefore(a, b, n) == Earlier(a, b) /\ SharedLength(a, b) < n

\* What has been read of the j-th column when slot s of the i-th is read next: of the
\* instances of the groups in which they are read together those before s and, if it
\* comes first in the projection, the one of s.
ReadBefore(m, F, j, i, s) ==
    {a \in Slots(m, F[j]) :
        IF j < i THEN ~ PartBefore(s, a, AncestorLevel(F[j], F[i]))
        ELSE PartBefore(a, s, IF j = i THEN Len(F[i]) ELSE AncestorLevel(F[i], F[j]))}

\* The readers of all columns move in step although each column has its own number
\* of rows per record: between two records every reader is where the next record
\* starts in its column, and when a field is read there is one slot of it in the
\* record, such that every reader has read exactly what has to be read before
\* that.  For every linked projection, and records with their required fields.
ReadersInStep ==
    (~ Idle /\ ok /\ Linked(fields) /\ \A n \in 1 .. size : IsInitialized(stored[n])) =>
        IF current = Root THEN \A f \in ToSet(fields) : readers[f] = StartOf(f, Turn)
        ELSE \E i \in 1 .. Len(fields), s \in Slots(stored[Turn], current) :
                /\ fields[i] = current
                /\ \A j \in 1 .. Len(fields) :
                      readers[fields[j]] = StartOf(fields[j], Turn)
                          + Cardinality(ReadBefore(stored[Turn], fields, j, i, s))

\* A record that is read contains only values of the record that was inserted in
\* its place, each under the field it was inserted under.
NoForeignValues ==
    \A n \in 1 .. Len(records) :
        \A a \in DOMAIN records[n] :
            TypeOf(a) \in Leaves =>
                \E b \in DOMAIN stored[range[1] + n] :
                    /\ TypeOf(b) = TypeOf(a)
                    /\ stored[range[1] + n][b] = records[n][a]

-----------------------------------------------------------------------------
\* The closest repeated node at or above f; the record type if there is none.
ClosestRepeated(f) ==
    LET reps == {k \in 1 .. Len(f) : IsRepeated(Prefix(f, k))}
    IN  IF reps = {} THEN Root ELSE Prefix(f, Max(reps))

\* The slots of column l in the group at address a, and the types of the first
\* and the last of them.
SlotsIn(m, l, a) == {s \in Slots(m, l) : IsPrefix(a, s)}
FirstSlotIn(m, l, a) == TypeOf(CHOOSE s \in SlotsIn(m, l, a) : \A b \in SlotsIn(m, l, a) : ~ Earlier(b, s))
LastSlotIn(m, l, a) == TypeOf(CHOOSE s \in SlotsIn(m, l, a) : \A b \in SlotsIn(m, l, a) : ~ Earlier(s, b))

\* What stays open when the last slot of a group has been read and the first
\* column comes next: a null on the path to that column leaves its own node open,
\* anything else closes the closest repeated node they share.
StaysOpen(end, first) ==
    IF IsStrictPrefix(end, first) THEN end ELSE Front(ClosestRepeated(SharedNode(end, first)))

\* The next occurrence of the group at a.
Sibling(a) == [a EXCEPT ![Len(a)][2] = @ + 1]

\* Reading a and then its sibling with projection F, the group is closed in
\* between: by the end of a, or by a sibling that ends above what stays open.
KeptApart(m, F, a) ==
    LET t == TypeOf(a)
        first == FirstBelow(F, t)
        open == StaysOpen(LastSlotIn(m, LastBelow(F, t), a), first)
        next == FirstSlotIn(m, first, Sibling(a))
    IN  \/ IsStrictPrefix(open, t)
        \/ Len(next) < Len(open) /\ ClosestRepeated(next) = t

\* All instances of repeated groups below which F has a column are kept apart.
Separable(m, F) ==
    \A a \in DOMAIN m :
        (/\ TypeOf(a) \in Groups
         /\ IsRepeated(TypeOf(a))
         /\ BelowGroup(F, TypeOf(a)) # {}
         /\ Sibling(a) \in DOMAIN m)
            => KeptApart(m, F, a)

\* Which records come back: get_range returns a record as it was inserted, cut
\* down to the projection, if the record is separable, and (for projections the
\* automaton links) only then.
RoundTripIffSeparable ==
    \A n \in 1 .. Len(records) :
        LET m == stored[range[1] + n]
        IN  /\ Separable(m, fields) => records[n] = Projected(m, fields)
            /\ Linked(fields) /\ records[n] = Projected(m, fields) => Separable(m, fields)

\* A record comes back as it was inserted, cut down to the projection.
RoundTrip ==
    \A n \in 1 .. Len(records) : records[n] = Projected(stored[range[1] + n], fields)

-----------------------------------------------------------------------------
\* The fields are asked for in the order of the schema.
InSchemaOrder(F) == \A i, j \in 1 .. Len(F) : i < j => ~ NotBefore(F[i], F[j])

\* What get_range returns for record m: the record cut down to F, if F is in the
\* order of the schema and m is separable; else the code promises nothing.
Returned(m, F, r) == InSchemaOrder(F) /\ Separable(m, F) => r = Projected(m, F)

\* The table implements RecordStore.
Store == INSTANCE RecordStore WITH
    AllMessages <- Messages,
    AllProjections <- Projections,
    Answers <- Returned,
    Capacity <- MaxRecords,
    table <- stored,
    pending <- IF callStack = <<>> THEN {} ELSE {message},
    query <- IF Idle THEN {} ELSE {[from |-> range[1], to |-> range[2], fields |-> fields]},
    answer <- records

\* To its clients the columnar table is a list of records: insert() appends, and
\* get_range() hands out the range it was asked for, in order and as Returned says;
\* both return: the automaton leads to the end of every record.
StoreSpec == Store!StoreSpec
=============================================================================
