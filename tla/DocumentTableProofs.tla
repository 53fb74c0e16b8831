------------------------ MODULE DocumentTableProofs ------------------------
(***************************************************************************)
(* Proofs about DocumentTable.  What ShreddingProofs shows of the inserter *)
(* holds in the table too, since get_range only reads the columns.  The    *)
(* assertions of MoveToLevel and ReturnToLevel hold because the common     *)
(* ancestor of the last read field with the next one is above both: what   *)
(* is left on the stack is always on the way to the field read next.       *)
(* The readers stay in step because each edge of the automaton leads from  *)
(* what has been read after one slot to just what has to be read before    *)
(* another: both are sets of slots, compared instance by instance of the   *)
(* repeated groups that two columns share.                                 *)
(***************************************************************************)
EXTENDS DocumentTable, StripingProofs

-----------------------------------------------------------------------------
(* The inserter in the table. *)

\* Every step of the table is a step of the inserter or leaves it alone.
LEMMA TableStepsShred ==
    ASSUME [TableNext]_tableVars
    PROVE  [ShredNext]_shredVars
<1>1. CASE \E m \in Messages : InsertRecord(m)
  BY <1>1 DEF InsertRecord, ShredNext
<1>2. CASE \E from, to \in 0 .. size, F \in Projections : ReadRange(from, to, F)
  BY <1>2 DEF ReadRange
<1>3. CASE TableStep
  BY <1>3 DEF TableStep, ShredNext
<1>4. CASE UNCHANGED tableVars
  BY <1>4 DEF tableVars
<1>. QED
  BY <1>1, <1>2, <1>3, <1>4 DEF TableNext

\* A client does not start a call before the one it has started returns.
LEMMA CallsAlternate ==
    ASSUME OneCall, [TableNext]_tableVars
    PROVE  OneCall'
<1>1. CASE UNCHANGED tableVars
  BY <1>1 DEF OneCall, Idle, tableVars, shredVars, readVars
<1>2. CASE \E m \in Messages : InsertRecord(m)
  BY <1>2 DEF InsertRecord, OneCall, Idle, readVars
<1>3. CASE ShredStep /\ UNCHANGED readVars
  <2>1. callStack # <<>> /\ fields' = fields
    BY <1>3 DEF ShredStep, WriteNull, WriteValue, Descend, Return, Working, readVars
  <2>. QED
    BY <2>1 DEF OneCall, Idle
<1>4. CASE \E from, to \in 0 .. size, F \in Projections : ReadRange(from, to, F)
  BY <1>4 DEF ReadRange, OneCall, shredVars
<1>5. CASE ReadStep /\ UNCHANGED shredVars
  <2>1. ~ Idle
    BY <1>5 DEF ReadStep, StartRecord, ReadField, ReturnRecords, MoreRecords
  <2>. QED
    BY <1>5, <2>1 DEF OneCall, shredVars
<1>. QED
  BY <1>1, <1>2, <1>3, <1>4, <1>5 DEF TableNext, TableStep

\* Inserting and reading by turns, insert() keeps the invariant of the shredder.
THEOREM TableKeepsShreddingInvariant == TableSpec => []ShreddingInvariant
<1>1. InitTable => ShreddingInvariant
  BY InitEstablishesInvariant DEF InitTable
<1>2. ShreddingInvariant /\ [TableNext]_tableVars => ShreddingInvariant'
  BY StepKeepsInvariant, TableStepsShred
<1>. QED
  BY <1>1, <1>2, PTL DEF TableSpec

\* However insert() and get_range() calls follow each other, the record TIDs
\* from which get_range() starts its readers are where the records begin in
\* every column.
THEOREM TableRecordsAreDelimited == TableSpec => []RecordBoundaries
<1>1. ShreddingInvariant => RecordBoundaries
  BY DEF ShreddingInvariant
<1>. QED
  BY <1>1, TableKeepsShreddingInvariant, PTL

\* However insert() and get_range() calls follow each other, every column holds for
\* every record with its required fields the rows that the definition asks for.
THEOREM TableColumnsAreAsDefined == TableSpec => []ColumnsFollowDefinition
<1>1. InitTable => StripingInvariant
  BY InitEstablishesStriping DEF InitTable
<1>2. StripingInvariant /\ [TableNext]_tableVars => StripingInvariant'
  BY StepKeepsStriping, TableStepsShred
<1>3. StripingInvariant => ColumnsFollowDefinition
  BY DEF StripingInvariant
<1>. QED
  BY <1>1, <1>2, <1>3, PTL DEF TableSpec

-----------------------------------------------------------------------------
(* Paths and their common ancestors. *)

\* The first steps of a path lead to a node of the schema, above its end to a type.
LEMMA NodesAbove ==
    ASSUME NEW f \in Nodes, NEW n \in Nat, n <= Len(f)
    PROVE  /\ f \in Seq(Nat) /\ Len(f) \in Nat
           /\ Prefix(f, n) \in Nodes /\ Prefix(f, n) \in Seq(Nat)
           /\ Len(Prefix(f, n)) = n
           /\ \A i \in 1 .. n : Prefix(f, n)[i] = f[i]
           /\ IsPrefix(Prefix(f, n), f)
           /\ n < Len(f) => Prefix(f, n) \in Types
<1>1. f \in Seq(Nat) /\ Len(f) \in Nat
  BY PathsAreSequences, LenProperties, EmptySeq DEF Nodes, Root
<1>2. \A i \in 1 .. n : f[i] \in Nat
  BY <1>1, ElementOfSeq
<1>3. /\ Prefix(f, n) \in Seq(Nat) /\ Len(Prefix(f, n)) = n
      /\ \A i \in 1 .. n : Prefix(f, n)[i] = f[i]
  BY <1>1, <1>2, SubSeqProperties, Z3 DEF Prefix
<1>4. IsPrefix(Prefix(f, n), f)
  BY <1>1, <1>3, PrefixElements
<1>5. n = Len(f) => Prefix(f, n) = f
  BY <1>1, SubSeqFull DEF Prefix
<1>6. n = 0 => Prefix(f, n) = Root
  BY <1>3, EmptySeq DEF Root
<1>7. ASSUME n < Len(f), n # 0 PROVE Prefix(f, n) \in Groups
  <2>1. f \in Fields
    BY <1>1, <1>7, EmptySeq DEF Nodes, Root
  <2>2. PICK t \in Types : \E i \in 1 .. Arity[t] : f = Append(t, i)
    BY <2>1, PathsAreSequences
  <2>3. PICK i \in 1 .. Arity[t] : f = Append(t, i)
    BY <2>2
  <2>4. t \in Seq(Nat) /\ Len(t) \in Nat /\ i \in Nat
    BY PathsAreSequences, LenProperties
  <2>5. Len(f) = Len(t) + 1 /\ \A k \in 1 .. Len(t) : f[k] = t[k]
    BY <2>3, <2>4, AppendProperties
  <2>6. n \in 1 .. Len(t)
    BY <1>7, <2>4, <2>5
  <2>7. t \in Groups /\ SubSeq(t, 1, n) \in Groups
    <3>1. t # Root
      BY <2>4, <2>6, EmptySeq DEF Root
    <3>. QED
      BY <2>6, <3>1, SchemaAssumption DEF Types
  <2>8. \A k \in 1 .. n : t[k] \in Nat
    BY <2>4, <2>6, ElementOfSeq
  <2>9. /\ SubSeq(t, 1, n) \in Seq(Nat) /\ Len(SubSeq(t, 1, n)) = n
        /\ \A k \in 1 .. n : SubSeq(t, 1, n)[k] = t[k]
    BY <2>8, SubSeqProperties, Z3
  <2>10. \A k \in 1 .. n : t[k] = f[k]
    BY <2>4, <2>5, <2>6
  <2>11. SubSeq(t, 1, n) = Prefix(f, n)
    BY <1>3, <2>9, <2>10, SeqEqual
  <2>. QED
    BY <2>7, <2>11
<1>. QED
  BY <1>1, <1>3, <1>4, <1>5, <1>6, <1>7, PathsAreSequences DEF Nodes, Types

\* The record type is above every path.
LEMMA RootAbove ==
    ASSUME NEW f \in Seq(Nat)
    PROVE  IsPrefix(Root, f) /\ Root \in Seq(Nat) /\ Len(Root) = 0
<1>1. Root \in Seq(Nat) /\ Len(Root) = 0 /\ Len(f) \in Nat
  BY EmptySeq, LenProperties DEF Root
<1>2. Len(Root) <= Len(f) /\ \A i \in 1 .. Len(Root) : Root[i] = f[i]
  BY <1>1
<1>. QED
  BY <1>1, <1>2, PrefixElements

\* Two paths agree on their common steps.
LEMMA CommonSteps ==
    ASSUME NEW f \in Seq(Nat), NEW g \in Seq(Nat)
    PROVE  /\ CommonLength(f, g) \in Nat
           /\ CommonLength(f, g) <= Len(f) /\ CommonLength(f, g) <= Len(g)
           /\ \A i \in 1 .. CommonLength(f, g) : f[i] = g[i]
  BY SharedSteps DEF CommonLength

\* The common ancestor of two nodes is above both or the first of them; it is never
\* the second, unless that is the record type.
LEMMA AncestorAbove ==
    ASSUME NEW f \in Nodes, NEW g \in Nodes
    PROVE  LET a == GetCommonAncestor[<<f, g>>]
           IN  /\ a \in Nodes /\ IsPrefix(a, f) /\ IsPrefix(a, g)
               /\ g # Root => a # g
               /\ IsStrictPrefix(f, g) => a = f
<1>. DEFINE c == CommonLength(f, g)
            a == GetCommonAncestor[<<f, g>>]
            reps == {k \in 1 .. c : IsRepeated(Prefix(f, k))}
<1>1. /\ f \in Seq(Nat) /\ Len(f) \in Nat /\ g \in Seq(Nat) /\ Len(g) \in Nat
  BY PathsAreSequences, LenProperties, EmptySeq DEF Nodes, Root
<1>2. c \in Nat /\ c <= Len(f) /\ c <= Len(g) /\ \A i \in 1 .. c : f[i] = g[i]
  BY <1>1, CommonSteps
<1>3. a = IF IsStrictPrefix(f, g) THEN f
          ELSE IF NotBefore(f, g) THEN AboveRepeated(f, c)
          ELSE Prefix(f, c)
  BY DEF GetCommonAncestor
<1>4. AboveRepeated(f, c) = IF reps = {} THEN Root ELSE Prefix(f, Max(reps) - 1)
  BY DEF AboveRepeated
<1>5. c # Len(g) \/ NotBefore(f, g)
  BY DEF NotBefore
<1>. HIDE DEF c, a
<1>6. ASSUME NEW n \in Nat, n <= c
      PROVE  /\ Prefix(f, n) \in Nodes /\ IsPrefix(Prefix(f, n), f) /\ IsPrefix(Prefix(f, n), g)
             /\ Len(Prefix(f, n)) = n
  <2>0. n <= Len(f)
    BY <1>1, <1>2, <1>6
  <2>1. /\ Prefix(f, n) \in Nodes /\ Prefix(f, n) \in Seq(Nat) /\ Len(Prefix(f, n)) = n
        /\ \A i \in 1 .. n : Prefix(f, n)[i] = f[i]
        /\ IsPrefix(Prefix(f, n), f)
    BY <2>0, NodesAbove
  <2>2. \A i \in 1 .. n : Prefix(f, n)[i] = g[i]
    BY <1>2, <1>6, <2>1
  <2>. QED
    BY <1>1, <1>2, <1>6, <2>1, <2>2, PrefixElements
<1>7. CASE IsStrictPrefix(f, g)
  <2>1. a = f
    BY <1>3, <1>7
  <2>2. IsPrefix(f, f)
    BY <1>1, PrefixElements
  <2>. QED
    BY <1>7, <2>1, <2>2 DEF IsStrictPrefix, a
<1>8. CASE ~ IsStrictPrefix(f, g) /\ ~ NotBefore(f, g)
  <2>1. a = Prefix(f, c) /\ c # Len(g)
    BY <1>3, <1>5, <1>8
  <2>. QED
    BY <1>2, <1>6, <1>8, <2>1 DEF a
<1>9. CASE ~ IsStrictPrefix(f, g) /\ NotBefore(f, g) /\ reps = {}
  <2>1. a = Root
    BY <1>3, <1>4, <1>9
  <2>2. IsPrefix(Root, f) /\ IsPrefix(Root, g)
    BY <1>1, RootAbove
  <2>. QED
    BY <1>9, <2>1, <2>2 DEF Nodes, a
<1>10. CASE ~ IsStrictPrefix(f, g) /\ NotBefore(f, g) /\ reps # {}
  <2>1. a = Prefix(f, Max(reps) - 1)
    BY <1>3, <1>4, <1>10
  <2>2. reps \subseteq Nat /\ \A k \in reps : 1 <= k /\ k <= c
    BY <1>2
  <2>. HIDE DEF reps
  <2>3. Max(reps) \in reps
    BY <1>2, <1>10, <2>2, MaxIsGreatest
  <2>4. Max(reps) \in Nat /\ 1 <= Max(reps) /\ Max(reps) <= c
    BY <2>2, <2>3
  <2>5. PICK n \in Nat : n = Max(reps) - 1 /\ n <= c /\ n # Len(g)
    BY <1>1, <1>2, <2>4
  <2>. QED
    BY <1>6, <1>10, <2>1, <2>5 DEF a
<1>. QED
  BY <1>7, <1>8, <1>9, <1>10

-----------------------------------------------------------------------------
(* The automaton. *)

\* No level is above the length of the path.
LEMMA LevelsWithinPath ==
    ASSUME NEW f \in Nodes
    PROVE  /\ GetMaxRepetitionLevel[f] \in Nat /\ GetMaxRepetitionLevel[f] <= Len(f)
           /\ GetDefinitionLevel[f] \in Nat /\ GetDefinitionLevel[f] <= Len(f)
           /\ Len(f) \in Nat /\ Len(f) < UIntMod /\ UIntMod \in Nat
<1>. DEFINE R == {n \in 1 .. Len(f) : IsRepeated(Prefix(f, n))}
            D == {n \in 1 .. Len(f) : Label[Prefix(f, n)] # "required"}
<1>1. f \in Seq(Nat) /\ Len(f) \in Nat
  BY PathsAreSequences, LenProperties, EmptySeq DEF Nodes, Root
<1>2. IsFiniteSet(1 .. Len(f)) /\ Cardinality(1 .. Len(f)) = Len(f)
  <2>1. /\ IsFiniteSet(1 .. Len(f))
        /\ Cardinality(1 .. Len(f)) = IF 1 > Len(f) THEN 0 ELSE Len(f) - 1 + 1
    BY <1>1, FS_Interval
  <2>. QED
    BY <1>1, <2>1
<1>3. /\ R \in SUBSET (1 .. Len(f)) /\ GetMaxRepetitionLevel[f] = Cardinality(R)
      /\ D \in SUBSET (1 .. Len(f)) /\ GetDefinitionLevel[f] = Cardinality(D)
  BY DEF GetMaxRepetitionLevel, GetDefinitionLevel
<1>. HIDE DEF R, D
<1>4. ASSUME NEW S \in SUBSET (1 .. Len(f))
      PROVE  Cardinality(S) \in Nat /\ Cardinality(S) <= Len(f)
  BY <1>2, FS_Subset, FS_CardinalityType
<1>5. Len(f) < UIntMod /\ UIntMod \in Nat
  BY UIntModAssumption
<1>. QED
  BY <1>1, <1>3, <1>4, <1>5

\* There is a greatest level.
LEMMA LevelsAreBounded ==
    ASSUME NEW f \in Nodes
    PROVE  /\ MaxLevel \in Nat /\ GetMaxRepetitionLevel[f] \in Nat
           /\ GetMaxRepetitionLevel[f] <= MaxLevel
<1>. DEFINE S == {GetMaxRepetitionLevel[g] : g \in Nodes}
<1>1. ASSUME NEW g \in Nodes
      PROVE  GetMaxRepetitionLevel[g] \in Nat /\ GetMaxRepetitionLevel[g] <= UIntMod /\ UIntMod \in Nat
  BY LevelsWithinPath
<1>2. S \subseteq Nat /\ S # {} /\ GetMaxRepetitionLevel[f] \in S /\ (\A n \in S : n <= UIntMod)
      /\ UIntMod \in Nat
  BY <1>1
<1>3. MaxLevel = Max(S)
  BY DEF MaxLevel
<1>. HIDE DEF S
<1>4. Max(S) \in S /\ \A n \in S : n <= Max(S)
  BY <1>2, MaxIsGreatest
<1>5. Max(S) \in Nat
  BY <1>2, <1>4
<1>. QED
  BY <1>2, <1>3, <1>4, <1>5

\* The automaton leads from a field to a field that is read, too, or to the end.
LEMMA NextFieldIsRead ==
    ASSUME NEW F \in Projections, NEW f \in ToSet(F),
           NEW level \in Nat, level <= GetMaxRepetitionLevel[f]
    PROVE  NextField(F, f, level) \in ToSet(F) \cup {Root}
<1>. DEFINE I == {i \in 1 .. Len(F) : F[i] = f}
<1>1. F \in Seq(Leaves) /\ Len(F) \in Nat /\ DOMAIN F = 1 .. Len(F)
  BY ProjectionsAssumption, LenProperties
<1>2. PICK k \in 1 .. Len(F) : f = F[k]
  BY <1>1 DEF ToSet
<1>3. f \in Leaves /\ f \in Nodes
  BY <1>1, <1>2, ElementOfSeq, PathsAreSequences DEF Nodes
<1>4. level \in 0 .. MaxLevel
  BY <1>3, LevelsAreBounded
<1>5. SelectInSeq(F, LAMBDA g : g = f) = Min(I)
  BY <1>2 DEF SelectInSeq
<1>6. I \subseteq Nat /\ I # {}
  BY <1>2
<1>7. Min(I) \in I
  BY <1>6, MinIsLeast
<1>8. PICK i \in 1 .. Len(F) : i = Min(I)
  BY <1>7
<1>9. NextField(F, f, level) = Transition(F, i, level)
  <2>1. FSM[F] = [il \in (1 .. Len(F)) \X (0 .. MaxLevel) |-> Transition(F, il[1], il[2])]
    BY DEF FSM
  <2>2. <<i, level>> \in (1 .. Len(F)) \X (0 .. MaxLevel)
    BY <1>4
  <2>3. FSM[F][<<i, level>>] = Transition(F, i, level)
    BY <2>1, <2>2
  <2>. QED
    BY <1>5, <1>8, <2>3 DEF NextField
<1>10. Barrier(F, i) \in ToSet(F) \cup {Root} /\ F[i] \in ToSet(F)
  <2>1. \A j \in 1 .. Len(F) : F[j] \in ToSet(F)
    BY <1>1 DEF ToSet
  <2>2. i \in 1 .. Len(F) /\ (i = Len(F) \/ i + 1 \in 1 .. Len(F))
    BY <1>1, <1>8
  <2>. QED
    BY <2>1, <2>2 DEF Barrier
<1>11. ASSUME BackFields(F, i, level) # {}
       PROVE  F[Min(BackFields(F, i, level))] \in ToSet(F)
  <2>1. BackFields(F, i, level) \subseteq 1 .. i - 1 /\ BackFields(F, i, level) \subseteq Nat
    BY DEF BackFields
  <2>2. Min(BackFields(F, i, level)) \in 1 .. i - 1
    BY <1>11, <2>1, MinIsLeast
  <2>. QED
    BY <1>1, <2>2 DEF ToSet
<1>. QED
  BY <1>9, <1>10, <1>11 DEF Transition

-----------------------------------------------------------------------------
(* The message stack. *)

\* A message that is added is of the type of its field.
LEMMA SlotIsOfField ==
    ASSUME NEW m, IsFiniteSet(DOMAIN m), NEW a \in Seq(Nat \X Nat), NEW i \in Nat
    PROVE  Slot(m, a, i) \in Seq(Nat \X Nat) /\ TypeOf(Slot(m, a, i)) = Append(TypeOf(a), i)
<1>. DEFINE S == {b \in DOMAIN m : b # <<>> /\ Front(b) = a /\ Last(b)[1] = i}
            k == IF IsRepeated(Append(TypeOf(a), i)) THEN FieldSize(m, a, i) + 1 ELSE 1
<1>1. FieldSize(m, a, i) = Cardinality(S) /\ S \in SUBSET (DOMAIN m)
  BY DEF FieldSize
<1>2. FieldSize(m, a, i) \in Nat
  BY <1>1, FS_Subset, FS_CardinalityType
<1>3. k \in Nat /\ Slot(m, a, i) = Child(a, i, k)
  BY <1>2 DEF Slot
<1>. HIDE DEF k
<1>. QED
  BY <1>3, TypeOfChild

\* The pointers that MoveToLevel puts on the stack, one after the other: those it
\* keeps, then a new one in each message before.
Pointers(target, kept) ==
    CHOOSE p : p = [n \in 0 .. Len(target) |->
                       IF n <= kept THEN msgStack[n + 1] ELSE Slot(record, p[n - 1], target[n])]

\* The definition of Pointers has a solution.
LEMMA PointersExist ==
    ASSUME NEW target \in Nodes, NEW kept \in Nat
    PROVE  Pointers(target, kept) =
               [n \in 0 .. Len(target) |->
                   IF n <= kept THEN msgStack[n + 1]
                   ELSE Slot(record, Pointers(target, kept)[n - 1], target[n])]
<1>1. Len(target) \in Nat
  BY PathsAreSequences, LenProperties, EmptySeq DEF Nodes, Root
<1>. DEFINE Upto(p, m) == p = [n \in 0 .. m |-> IF n <= kept THEN msgStack[n + 1]
                                                ELSE Slot(record, p[n - 1], target[n])]
            T == {m \in Nat : ~ \E p : Upto(p, m)}
<1>2. T = {}
  <2>1. SUFFICES ASSUME T # {} PROVE FALSE
    OBVIOUS
  <2>2. PICK m \in T : \A x \in T : m <= x
    <3>1. T \subseteq Nat
      OBVIOUS
    <3>. HIDE DEF T
    <3>. QED
      BY <2>1, <3>1, LeastNumber
  <2>3. m \in Nat /\ ~ \E p : Upto(p, m)
    BY <2>2
  <2>4. CASE m = 0
    <3>. DEFINE p == [n \in 0 .. 0 |-> msgStack[n + 1]]
    <3>1. Upto(p, 0)
      OBVIOUS
    <3>. QED
      BY <2>3, <2>4, <3>1
  <2>5. CASE m # 0
    <3>1. m - 1 \in Nat /\ m - 1 \notin T
      <4>1. m - 1 \in Nat /\ ~ (m <= m - 1)
        BY <2>3, <2>5
      <4>. HIDE DEF T
      <4>. QED
        BY <2>2, <4>1
    <3>2. \E p : Upto(p, m - 1)
      BY <3>1
    <3>3. PICK p : Upto(p, m - 1)
      BY <3>2
    <3>. DEFINE last == IF m <= kept THEN msgStack[m + 1] ELSE Slot(record, p[m - 1], target[m])
                q == [n \in 0 .. m |-> IF n = m THEN last ELSE p[n]]
    <3>4. ASSUME NEW n \in 0 .. m
          PROVE  q[n] = IF n <= kept THEN msgStack[n + 1] ELSE Slot(record, q[n - 1], target[n])
      <4>1. CASE n = m
        <5>1. m - 1 \in 0 .. m /\ m - 1 # m
          BY <2>3, <2>5
        <5>. QED
          BY <2>3, <4>1, <5>1
      <4>2. CASE n # m
        <5>1. n \in 0 .. m - 1
          BY <2>3, <4>2
        <5>2. q[n] = p[n]
          BY <4>2
        <5>3. p[n] = IF n <= kept THEN msgStack[n + 1] ELSE Slot(record, p[n - 1], target[n])
          BY <3>3, <5>1
        <5>4. ~ (n <= kept) => n - 1 \in 0 .. m /\ n - 1 # m
          BY <2>3, <5>1
        <5>5. ~ (n <= kept) => q[n - 1] = p[n - 1]
          BY <5>4
        <5>. QED
          BY <5>2, <5>3, <5>5
      <4>. QED
        BY <4>1, <4>2
    <3>5. q = [n \in 0 .. m |-> q[n]]
      OBVIOUS
    <3>. HIDE DEF q
    <3>6. Upto(q, m)
      BY <3>4, <3>5
    <3>. QED
      BY <2>3, <3>6
  <2>. QED
    BY <2>4, <2>5
<1>3. \E p : Upto(p, Len(target))
  BY <1>1, <1>2
<1>. QED
  BY <1>3 DEF Pointers

\* The stack that MoveToLevel leaves, by Pointers.
LEMMA MovedStackIs ==
    ASSUME NEW target \in Nodes
    PROVE  MovedStack(target) =
               [n \in 1 .. Len(target) + 1 |-> Pointers(target, KeptDepth(target))[n - 1]]
  BY DEF MovedStack, Pointers

\* Of two nodes above a third one, the shorter is above the longer.
LEMMA AboveOnOnePath ==
    ASSUME NEW f \in Nodes, NEW p \in Nodes, NEW q \in Nodes,
           IsPrefix(p, f), IsPrefix(q, f), Len(p) <= Len(q)
    PROVE  /\ IsPrefix(p, q) /\ Prefix(q, Len(p)) = p
           /\ \A n \in Nat : n <= Len(p) => Prefix(p, n) = Prefix(q, n)
<1>1. /\ f \in Seq(Nat) /\ p \in Seq(Nat) /\ q \in Seq(Nat)
      /\ Len(f) \in Nat /\ Len(p) \in Nat /\ Len(q) \in Nat
  BY PathsAreSequences, LenProperties, EmptySeq DEF Nodes, Root
<1>2. /\ \A i \in 1 .. Len(p) : p[i] = f[i]
      /\ \A i \in 1 .. Len(q) : q[i] = f[i]
  BY <1>1, PrefixElements
<1>3. \A i \in 1 .. Len(p) : p[i] = q[i]
  BY <1>1, <1>2
<1>4. IsPrefix(p, q)
  BY <1>1, <1>3, PrefixElements
<1>5. ASSUME NEW n \in Nat, n <= Len(p)
      PROVE  Prefix(p, n) = Prefix(q, n)
  <2>1. n <= Len(q)
    BY <1>1, <1>5
  <2>2. /\ Prefix(p, n) \in Seq(Nat) /\ Len(Prefix(p, n)) = n
        /\ \A i \in 1 .. n : Prefix(p, n)[i] = p[i]
    BY <1>5, NodesAbove
  <2>3. /\ Prefix(q, n) \in Seq(Nat) /\ Len(Prefix(q, n)) = n
        /\ \A i \in 1 .. n : Prefix(q, n)[i] = q[i]
    BY <2>1, NodesAbove
  <2>4. ASSUME NEW i \in 1 .. n PROVE Prefix(p, n)[i] = Prefix(q, n)[i]
    <3>1. i \in 1 .. Len(p)
      BY <1>1, <1>5
    <3>. QED
      BY <1>3, <2>2, <2>3, <3>1
  <2>. QED
    BY <2>2, <2>3, <2>4, SeqEqual
<1>6. Prefix(p, Len(p)) = p
  BY <1>1, SubSeqFull DEF Prefix
<1>. QED
  BY <1>1, <1>4, <1>5, <1>6

\* The first steps of the first steps of a path; and one step more.
LEMMA PrefixOfPrefix ==
    ASSUME NEW f \in Nodes, NEW k \in Nat, k <= Len(f), NEW n \in Nat, n <= k
    PROVE  Prefix(Prefix(f, k), n) = Prefix(f, n)
<1>1. n <= Len(f)
  BY NodesAbove
<1>2. /\ Prefix(f, k) \in Nodes /\ Len(Prefix(f, k)) = k
      /\ \A i \in 1 .. k : Prefix(f, k)[i] = f[i]
  BY NodesAbove
<1>3. /\ Prefix(f, n) \in Seq(Nat) /\ Len(Prefix(f, n)) = n
      /\ \A i \in 1 .. n : Prefix(f, n)[i] = f[i]
  BY <1>1, NodesAbove
<1>4. /\ Prefix(Prefix(f, k), n) \in Seq(Nat) /\ Len(Prefix(Prefix(f, k), n)) = n
      /\ \A i \in 1 .. n : Prefix(Prefix(f, k), n)[i] = Prefix(f, k)[i]
  BY <1>2, NodesAbove
<1>5. \A i \in 1 .. n : i \in 1 .. k
  OBVIOUS
<1>. QED
  BY <1>2, <1>3, <1>4, <1>5, SeqEqual

\* One more step of a path.
LEMMA PrefixGrows ==
    ASSUME NEW f \in Nodes, NEW n \in 1 .. Len(f)
    PROVE  Append(Prefix(f, n - 1), f[n]) = Prefix(f, n)
<1>1. f \in Seq(Nat) /\ Len(f) \in Nat /\ f[n] \in Nat
  BY PathsAreSequences, LenProperties, EmptySeq, ElementOfSeq DEF Nodes, Root
<1>2. n \in Nat /\ n - 1 \in Nat /\ n - 1 <= Len(f) /\ n <= Len(f)
  BY <1>1
<1>3. /\ Prefix(f, n) \in Seq(Nat) /\ Len(Prefix(f, n)) = n
      /\ \A i \in 1 .. n : Prefix(f, n)[i] = f[i]
  BY <1>2, NodesAbove
<1>4. /\ Prefix(f, n - 1) \in Seq(Nat) /\ Len(Prefix(f, n - 1)) = n - 1
      /\ \A i \in 1 .. n - 1 : Prefix(f, n - 1)[i] = f[i]
  BY <1>2, NodesAbove
<1>. DEFINE t == Append(Prefix(f, n - 1), f[n])
<1>5. /\ t \in Seq(Nat) /\ Len(t) = n /\ t[n] = f[n]
      /\ \A i \in 1 .. n - 1 : t[i] = Prefix(f, n - 1)[i]
  BY <1>1, <1>2, <1>4, AppendProperties
<1>. HIDE DEF t
<1>6. ASSUME NEW i \in 1 .. n PROVE t[i] = Prefix(f, n)[i]
  <2>1. i = n \/ i \in 1 .. n - 1
    BY <1>2
  <2>. QED
    BY <1>3, <1>4, <1>5, <2>1
<1>7. t = Prefix(f, n)
  BY <1>3, <1>5, <1>6, SeqEqual
<1>. QED
  BY <1>7 DEF t

\* The ancestor that a field has with the next one that is read is above what
\* MoveToLevel has moved to.
LEMMA AncestorAboveTarget ==
    ASSUME NEW f \in Leaves, NEW newField \in Nodes, IsPrefix(newField, f),
           NEW g \in Leaves \cup {Root}
    PROVE  /\ Target(newField) \in Nodes /\ IsPrefix(Target(newField), newField)
           /\ IsPrefix(Target(newField), f)
           /\ AncestorLevel(newField, g) \in Nat
           /\ AncestorLevel(newField, g) <= Len(Target(newField))
           /\ Prefix(Target(newField), AncestorLevel(newField, g)) = GetCommonAncestor[<<newField, g>>]
<1>. DEFINE a == GetCommonAncestor[<<newField, g>>]
            target == Target(newField)
<1>1. /\ f \in Nodes /\ g \in Nodes /\ f \in Seq(Nat) /\ newField \in Seq(Nat) /\ g \in Seq(Nat)
      /\ Len(newField) \in Nat /\ Len(f) \in Nat
  BY PathsAreSequences, LenProperties, EmptySeq DEF Nodes, Root
<1>2. /\ a \in Nodes /\ IsPrefix(a, newField) /\ IsPrefix(a, g) /\ (g # Root => a # g)
      /\ AncestorLevel(newField, g) = Len(a)
  BY <1>1, AncestorAbove DEF AncestorLevel, GetFullDefinitionLevel
<1>. HIDE DEF a
<1>3. a \in Seq(Nat) /\ Len(a) \in Nat /\ Len(a) <= Len(newField)
  BY <1>2, PathsAreSequences, LenProperties, EmptySeq DEF Nodes, Root, IsPrefix
<1>4. IsPrefix(newField, newField)
  BY <1>1, PrefixElements
<1>5. CASE newField \notin Leaves
  <2>1. target = newField
    BY <1>5 DEF Target
  <2>2. Prefix(newField, Len(a)) = a
    BY <1>2, <1>3, <1>4, AboveOnOnePath
  <2>. QED
    BY <1>2, <1>3, <1>4, <2>1, <2>2 DEF a
<1>6. CASE newField \in Leaves
  <2>1. newField = f
    BY <1>6, LeavesApart
  <2>2. newField # <<>> /\ Len(newField) # 0
    <3>1. newField \in Fields
      BY <1>6, PathsAreSequences
    <3>2. PICK t \in Types : \E i \in 1 .. Arity[t] : newField = Append(t, i)
      BY <3>1, PathsAreSequences
    <3>3. PICK i \in 1 .. Arity[t] : newField = Append(t, i)
      BY <3>2
    <3>4. t \in Seq(Nat) /\ Len(t) \in Nat /\ i \in Nat
      BY PathsAreSequences, LenProperties
    <3>. QED
      BY <3>3, <3>4, AppendProperties
  <2>3. target = Prefix(newField, Len(newField) - 1)
    BY <1>6 DEF Target, GetFieldDescriptor, Front, Prefix
  <2>4. Len(newField) - 1 \in Nat /\ Len(newField) - 1 <= Len(newField)
    BY <1>1, <2>2
  <2>5. /\ target \in Nodes /\ IsPrefix(target, newField) /\ Len(target) = Len(newField) - 1
    BY <2>3, <2>4, NodesAbove
  <2>. HIDE DEF target
  <2>6. a # newField
    <3>1. SUFFICES ASSUME a = newField PROVE FALSE
      OBVIOUS
    <3>2. g # Root
      <4>1. Len(Root) = 0
        BY EmptySeq DEF Root
      <4>. QED
        BY <1>1, <1>2, <2>2, <3>1, <4>1 DEF IsPrefix
    <3>3. g = newField
      BY <1>2, <1>6, <3>1, <3>2, LeavesApart
    <3>. QED
      BY <1>2, <3>1, <3>2, <3>3
  <2>7. Len(a) # Len(newField)
    <3>1. Len(a) = Len(newField) => \A i \in 1 .. Len(a) : a[i] = newField[i]
      BY <1>1, <1>2, <1>3, PrefixElements
    <3>. QED
      BY <1>1, <1>3, <2>6, <3>1, SeqEqual
  <2>8. Len(a) <= Len(target)
    BY <1>1, <1>3, <2>5, <2>7
  <2>9. Prefix(target, Len(a)) = a
    BY <1>1, <1>2, <2>5, <2>8, AboveOnOnePath
  <2>. QED
    BY <1>2, <1>3, <2>1, <2>5, <2>8, <2>9 DEF a, target
<1>. QED
  BY <1>5, <1>6

-----------------------------------------------------------------------------
(* A step of AssembleNextRecord. *)

\* What the step reads: a row of a column of the projection.  A null is above the
\* column, and the automaton knows where to go.
LEMMA RowIsRead ==
    ASSUME TableInvariant, current # Root
    PROVE  LET tid == readers[current]
               newField == IF IsNull(current, tid)
                           THEN PresentField(current, RowAt(current, tid).d) ELSE current
               next == NextField(fields, current, RowAt(current, tid + 1).r)
           IN  /\ fields \in Projections /\ fields # <<>>
               /\ current \in ToSet(fields) /\ current \in Leaves /\ current \in Nodes
               /\ tid \in Nat
               /\ newField \in Nodes /\ IsPrefix(newField, current)
               /\ next \in ToSet(fields) \cup {Root} /\ next \in Leaves \cup {Root}
<1>. DEFINE tid == readers[current]
            newField == IF IsNull(current, tid)
                        THEN PresentField(current, RowAt(current, tid).d) ELSE current
            next == NextField(fields, current, RowAt(current, tid + 1).r)
<1>1. /\ TypeOK /\ LevelsInRange /\ MoreRecords
      /\ current \in ToSet(fields) /\ readers \in [ToSet(fields) -> Nat]
  BY DEF TableInvariant, ReadingInvariant, TableTypeOK, RecordPending
<1>2. fields \in Projections /\ fields # <<>>
  BY <1>1 DEF TableInvariant, ReadingInvariant, TableTypeOK, MoreRecords, Idle
<1>3. fields \in Seq(Leaves) /\ ToSet(fields) \subseteq Leaves
  <2>1. fields \in Seq(Leaves) /\ DOMAIN fields = 1 .. Len(fields)
    BY <1>2, ProjectionsAssumption, LenProperties
  <2>. QED
    BY <2>1, ElementOfSeq DEF ToSet
<1>4. current \in Leaves /\ current \in Nodes
  BY <1>1, <1>3, PathsAreSequences DEF Nodes
<1>5. tid \in Nat
  BY <1>1
<1>6. /\ current \in Seq(Nat) /\ Len(current) \in Nat \ {0}
      /\ GetDefinitionLevel[current] \in Nat /\ GetDefinitionLevel[current] <= Len(current)
      /\ GetMaxRepetitionLevel[current] \in Nat
  BY <1>4, LevelsWithinPath, PathsAreSequences, EmptySeq DEF Nodes, Root
<1>7. /\ columns[current] \in Seq(Row) /\ Len(columns[current]) \in Nat
      /\ \A i \in 1 .. Len(columns[current]) :
            /\ columns[current][i] \in Row
            /\ columns[current][i].r <= GetMaxRepetitionLevel[current]
  <2>1. columns[current] \in Seq(Row) /\ Len(columns[current]) \in Nat
    BY <1>1, <1>4, LenProperties DEF TypeOK
  <2>. QED
    BY <1>1, <1>4, <2>1, ElementOfSeq DEF LevelsInRange
<1>. HIDE DEF tid
<1>8. ASSUME NEW n \in Nat
      PROVE  /\ RowAt(current, n).r \in Nat /\ RowAt(current, n).r <= GetMaxRepetitionLevel[current]
             /\ RowAt(current, n).d \in Nat
             /\ n >= Len(columns[current]) => RowAt(current, n).d = 0
  <2>1. CASE n < Len(columns[current])
    <3>1. n + 1 \in 1 .. Len(columns[current]) /\ RowAt(current, n) = columns[current][n + 1]
      BY <1>7, <2>1 DEF RowAt
    <3>2. UIntMod \in Nat
      BY UIntModAssumption
    <3>. QED
      BY <1>7, <2>1, <3>1, <3>2 DEF Row
  <2>2. CASE ~ (n < Len(columns[current]))
    BY <1>6, <2>2 DEF RowAt
  <2>. QED
    BY <2>1, <2>2
<1>9. newField \in Nodes /\ IsPrefix(newField, current)
  <2>1. CASE IsNull(current, tid)
    <3>1. RowAt(current, tid).d \in Nat /\ RowAt(current, tid).d <= Len(current)
      BY <1>5, <1>6, <1>8, <2>1 DEF IsNull, GetsNull
    <3>2. newField = Prefix(current, RowAt(current, tid).d)
      BY <2>1 DEF PresentField
    <3>. HIDE DEF newField
    <3>. QED
      BY <1>4, <3>1, <3>2, NodesAbove
  <2>2. CASE ~ IsNull(current, tid)
    BY <1>4, <1>6, <2>2, PrefixElements
  <2>. QED
    BY <2>1, <2>2
<1>10. next \in ToSet(fields) \cup {Root}
  BY <1>1, <1>2, <1>5, <1>8, NextFieldIsRead
<1>. QED
  BY <1>1, <1>2, <1>3, <1>4, <1>5, <1>9, <1>10 DEF tid

\* The assertions of MoveToLevel hold, and its loop ends: what it keeps of the
\* stack is above the target.
LEMMA MoveHolds ==
    ASSUME TableInvariant, current # Root,
           NEW target \in Nodes, IsPrefix(target, current)
    PROVE  /\ MoveIsSound(target)
           /\ KeptDepth(target) \in Nat
           /\ KeptDepth(target) <= Len(target) /\ KeptDepth(target) + 1 <= Len(msgStack)
           /\ Prefix(lastRead, KeptDepth(target)) = Prefix(target, KeptDepth(target))
           /\ KeptDepth(target) <= Len(lastRead)
<1>1. /\ lastRead \in Nodes /\ IsStrictPrefix(lastRead, current)
      /\ Len(msgStack) = Len(lastRead) + 1
      /\ \A n \in 1 .. Len(msgStack) : TypeOf(msgStack[n]) = Prefix(lastRead, n - 1)
  BY DEF TableInvariant, ReadingInvariant, TableTypeOK, StackOnPath
<1>2. current \in Nodes /\ IsPrefix(lastRead, current)
  BY <1>1, RowIsRead DEF IsStrictPrefix
<1>3. Len(lastRead) \in Nat /\ Len(target) \in Nat /\ Depth = Len(lastRead)
      /\ lastRead \in Seq(Nat) /\ target \in Seq(Nat)
  <2>1. lastRead \in Seq(Nat) /\ target \in Seq(Nat)
    BY <1>1, PathsAreSequences, EmptySeq DEF Nodes, Root
  <2>2. Len(lastRead) \in Nat /\ Len(target) \in Nat
    BY <2>1, LenProperties
  <2>3. Depth = Len(lastRead)
    BY <1>1, <2>2 DEF Depth
  <2>. QED
    BY <2>1, <2>2, <2>3
<1>4. GetCommonAncestor[<<lastRead, current>>] = lastRead
  BY <1>1, <1>2, AncestorAbove
<1>5. Unwound(Depth, lastRead, current) = Depth
  <2>1. AncestorLevel(lastRead, current) = Len(lastRead)
    BY <1>4 DEF AncestorLevel, GetFullDefinitionLevel
  <2>. QED
    BY <1>3, <2>1, MinOfTwo DEF Unwound
<1>. DEFINE b == GetCommonAncestor[<<lastRead, target>>]
            kept == KeptDepth(target)
<1>6. b \in Nodes /\ IsPrefix(b, lastRead) /\ IsPrefix(b, target)
      /\ AncestorLevel(lastRead, target) = Len(b)
  BY <1>1, AncestorAbove DEF AncestorLevel, GetFullDefinitionLevel
<1>. HIDE DEF b
<1>7. b \in Seq(Nat) /\ Len(b) \in Nat /\ Len(b) <= Len(lastRead) /\ Len(b) <= Len(target)
  BY <1>6, PathsAreSequences, LenProperties, EmptySeq DEF Nodes, Root, IsPrefix
<1>8. /\ Len(target) < Depth => kept = Len(b)
      /\ ~ (Len(target) < Depth) => kept = Depth
  <2>1. Unwound(Depth, lastRead, target) = Len(b)
    BY <1>3, <1>6, <1>7, MinOfTwo DEF Unwound
  <2>. QED
    BY <1>5, <2>1 DEF KeptDepth, GetFullDefinitionLevel
<1>. HIDE DEF kept
<1>9. IsPrefix(lastRead, lastRead) /\ IsPrefix(target, target)
  BY <1>3, PrefixElements
<1>10. ASSUME Len(target) < Depth
       PROVE  /\ kept \in Nat /\ kept <= Len(lastRead) /\ kept <= Len(target)
              /\ Prefix(lastRead, kept) = b /\ Prefix(target, kept) = b
              /\ IsPrefix(Prefix(lastRead, kept), target)
  <2>1. Prefix(lastRead, Len(b)) = b /\ Prefix(target, Len(b)) = b
    BY <1>1, <1>6, <1>7, <1>9, AboveOnOnePath
  <2>. QED
    BY <1>6, <1>7, <1>8, <1>10, <2>1
<1>11. ASSUME ~ (Len(target) < Depth)
       PROVE  /\ kept \in Nat /\ kept <= Len(lastRead) /\ kept <= Len(target)
              /\ Prefix(lastRead, kept) = lastRead /\ Prefix(target, kept) = lastRead
              /\ IsPrefix(Prefix(lastRead, kept), target)
  <2>1. kept = Len(lastRead) /\ Len(lastRead) <= Len(target)
    BY <1>3, <1>8, <1>11
  <2>2. IsPrefix(lastRead, target) /\ Prefix(target, Len(lastRead)) = lastRead
    BY <1>1, <1>2, <2>1, AboveOnOnePath
  <2>3. Prefix(lastRead, Len(lastRead)) = lastRead
    BY <1>3, SubSeqFull DEF Prefix
  <2>. QED
    BY <1>3, <2>1, <2>2, <2>3
<1>12. kept + 1 \in 1 .. Len(msgStack) /\ TypeOf(msgStack[kept + 1]) = Prefix(lastRead, kept)
  BY <1>1, <1>3, <1>10, <1>11
<1>13. Len(target) < Depth => AssertTop(msgStack, lastRead, target)
  BY <1>6, <1>8, <1>10, <1>12 DEF AssertTop, b
<1>14. MoveIsSound(target)
  <2>1. ~ (Unwound(Depth, lastRead, current) < Depth)
    BY <1>3, <1>5
  <2>2. KeptDepth(target) < Unwound(Depth, lastRead, current) => AssertTop(msgStack, lastRead, target)
    BY <1>3, <1>5, <1>8, <1>13 DEF kept
  <2>3. IsPrefix(TypeOf(msgStack[KeptDepth(target) + 1]), target)
    BY <1>10, <1>11, <1>12 DEF kept
  <2>. QED
    BY <2>1, <2>2, <2>3 DEF MoveIsSound
<1>. QED
  BY <1>1, <1>3, <1>10, <1>11, <1>14, <1>12 DEF kept

\* The stack after MoveToLevel holds the messages on the path to the target.
LEMMA MovedStackOnPath ==
    ASSUME TableInvariant, current # Root,
           NEW target \in Nodes, IsPrefix(target, current)
    PROVE  /\ MovedStack(target) \in Seq(Seq(Nat \X Nat))
           /\ Len(MovedStack(target)) = Len(target) + 1
           /\ DOMAIN MovedStack(target) = 1 .. Len(target) + 1
           /\ \A n \in 1 .. Len(target) + 1 : TypeOf(MovedStack(target)[n]) = Prefix(target, n - 1)
<1>. DEFINE kept == KeptDepth(target)
            p == Pointers(target, kept)
            Good(n) == p[n] \in Seq(Nat \X Nat) /\ TypeOf(p[n]) = Prefix(target, n)
            Bad == {n \in Nat : n <= Len(target) /\ ~ Good(n)}
<1>1. /\ kept \in Nat /\ kept <= Len(target) /\ kept + 1 <= Len(msgStack) /\ kept <= Len(lastRead)
      /\ Prefix(lastRead, kept) = Prefix(target, kept)
  BY MoveHolds
<1>2. /\ lastRead \in Nodes /\ Len(msgStack) = Len(lastRead) + 1
      /\ \A n \in 1 .. Len(msgStack) : TypeOf(msgStack[n]) = Prefix(lastRead, n - 1)
      /\ DOMAIN record \subseteq Seq(Nat \X Nat) /\ IsFiniteSet(DOMAIN record)
      /\ msgStack \in Seq(DOMAIN record)
  BY DEF TableInvariant, ReadingInvariant, TableTypeOK, StackOnPath, RecordShape
<1>3. /\ Len(lastRead) \in Nat /\ Len(target) \in Nat
      /\ target \in Seq(Nat) /\ \A n \in 1 .. Len(target) : target[n] \in Nat
      /\ lastRead \in Seq(Nat)
  BY <1>2, PathsAreSequences, LenProperties, EmptySeq, ElementOfSeq DEF Nodes, Root
<1>4. p = [n \in 0 .. Len(target) |-> IF n <= kept THEN msgStack[n + 1]
                                      ELSE Slot(record, p[n - 1], target[n])]
  BY <1>1, PointersExist
<1>. HIDE DEF p, kept
<1>5. ASSUME NEW n \in Nat, n <= kept
      PROVE  Good(n)
  <2>1. n \in 0 .. Len(target) /\ n + 1 \in 1 .. Len(msgStack) /\ n <= Len(lastRead)
    BY <1>1, <1>2, <1>3, <1>5
  <2>2. p[n] = msgStack[n + 1]
    BY <1>4, <1>5, <2>1
  <2>3. msgStack[n + 1] \in DOMAIN record
    BY <1>2, <2>1, ElementOfSeq
  <2>4. TypeOf(p[n]) = Prefix(lastRead, n)
    BY <1>2, <2>1, <2>2
  <2>5. Prefix(lastRead, n) = Prefix(target, n)
    <3>1. Prefix(Prefix(lastRead, kept), n) = Prefix(lastRead, n)
      BY <1>1, <1>2, <1>5, PrefixOfPrefix
    <3>2. Prefix(Prefix(target, kept), n) = Prefix(target, n)
      BY <1>1, <1>5, PrefixOfPrefix
    <3>. QED
      BY <1>1, <3>1, <3>2
  <2>. QED
    BY <1>2, <2>2, <2>3, <2>4, <2>5
<1>6. ASSUME NEW n \in Nat, n <= Len(target), n > kept, Good(n - 1)
      PROVE  Good(n)
  <2>1. n \in 0 .. Len(target) /\ n \in 1 .. Len(target)
    BY <1>1, <1>3, <1>6
  <2>2. p[n] = Slot(record, p[n - 1], target[n])
    <3>1. ~ (n <= kept)
      BY <1>1, <1>6
    <3>2. p[n] = IF n <= kept THEN msgStack[n + 1] ELSE Slot(record, p[n - 1], target[n])
      BY <1>4, <2>1
    <3>. QED
      BY <3>1, <3>2
  <2>3. p[n] \in Seq(Nat \X Nat) /\ TypeOf(p[n]) = Append(TypeOf(p[n - 1]), target[n])
    <3>1. p[n - 1] \in Seq(Nat \X Nat)
      BY <1>6
    <3>2. target[n] \in Nat
      BY <1>3, <2>1
    <3>3. IsFiniteSet(DOMAIN record)
      BY <1>2
    <3>. DEFINE a == p[n - 1]
                i == target[n]
    <3>4. a \in Seq(Nat \X Nat) /\ i \in Nat /\ p[n] = Slot(record, a, i)
      BY <2>2, <3>1, <3>2
    <3>. HIDE DEF a, i
    <3>5. Slot(record, a, i) \in Seq(Nat \X Nat) /\ TypeOf(Slot(record, a, i)) = Append(TypeOf(a), i)
      BY <3>3, <3>4, SlotIsOfField
    <3>. QED
      BY <3>4, <3>5 DEF a, i
  <2>4. Append(Prefix(target, n - 1), target[n]) = Prefix(target, n)
    BY <2>1, PrefixGrows
  <2>. QED
    BY <1>6, <2>3, <2>4
<1>7. Bad = {}
  <2>1. SUFFICES ASSUME Bad # {} PROVE FALSE
    OBVIOUS
  <2>2. PICK n \in Bad : \A m \in Bad : n <= m
    <3>1. Bad \subseteq Nat
      OBVIOUS
    <3>. HIDE DEF Bad
    <3>. QED
      BY <2>1, <3>1, LeastNumber
  <2>3. n \in Nat /\ n <= Len(target) /\ ~ Good(n)
    BY <2>2
  <2>. HIDE DEF Good
  <2>4. n > kept
    BY <1>1, <1>5, <2>3
  <2>5. n - 1 \in Nat /\ n - 1 <= Len(target) /\ ~ (n <= n - 1)
    BY <1>1, <1>3, <2>3, <2>4
  <2>6. n - 1 \notin Bad
    <3>. HIDE DEF Bad
    <3>. QED
      BY <2>2, <2>5
  <2>7. Good(n - 1)
    BY <2>5, <2>6
  <2>. QED
    BY <1>6, <2>3, <2>4, <2>7
<1>8. \A n \in 0 .. Len(target) : Good(n)
  <2>. HIDE DEF Good
  <2>. QED
    BY <1>3, <1>7
<1>9. MovedStack(target) = [n \in 1 .. Len(target) + 1 |-> p[n - 1]]
  BY MovedStackIs DEF p, kept
<1>10. \A n \in 1 .. Len(target) + 1 : n - 1 \in 0 .. Len(target)
  BY <1>3
<1>11. /\ MovedStack(target) \in [1 .. Len(target) + 1 -> Seq(Nat \X Nat)]
       /\ \A n \in 1 .. Len(target) + 1 : MovedStack(target)[n] = p[n - 1]
  BY <1>8, <1>9, <1>10
<1>12. /\ MovedStack(target) \in Seq(Seq(Nat \X Nat)) /\ Len(MovedStack(target)) = Len(target) + 1
       /\ DOMAIN MovedStack(target) = 1 .. Len(target) + 1
  <2>. DEFINE N == Len(target) + 1
              S == Seq(Nat \X Nat)
  <2>1. N \in Nat
    BY <1>3
  <2>2. MovedStack(target) \in [1 .. N -> S]
    BY <1>11
  <2>. HIDE DEF N, S
  <2>3. MovedStack(target) \in Seq(S)
    BY <2>1, <2>2, SeqDef
  <2>4. DOMAIN MovedStack(target) = 1 .. N
    BY <2>2
  <2>5. Len(MovedStack(target)) = N
    BY <2>1, <2>3, <2>4, LenProperties
  <2>. QED
    BY <2>3, <2>4, <2>5 DEF N, S
<1>. QED
  BY <1>8, <1>10, <1>11, <1>12

-----------------------------------------------------------------------------
(* The state between two records. *)

\* A list is a list of its own elements, which are finitely many.
LEMMA OwnElements ==
    ASSUME NEW S, NEW s \in Seq(S)
    PROVE  s \in Seq(ToSet(s)) /\ IsFiniteSet(ToSet(s)) /\ ToSet(s) \subseteq S
<1>1. Len(s) \in Nat /\ s \in [1 .. Len(s) -> S] /\ DOMAIN s = 1 .. Len(s)
  BY LenProperties
<1>2. ToSet(s) = {s[i] : i \in 1 .. Len(s)}
  BY <1>1 DEF ToSet
<1>3. s \in [1 .. Len(s) -> ToSet(s)] /\ ToSet(s) \subseteq S
  BY <1>1, <1>2
<1>4. s \in Seq(ToSet(s))
  BY <1>1, <1>3, SeqDef
<1>5. IsFiniteSet(1 .. Len(s))
  BY <1>1, FS_Interval
<1>6. IsFiniteSet(ToSet(s))
  <2>1. s \in Surjection(1 .. Len(s), ToSet(s))
    BY <1>2, <1>3 DEF Surjection
  <2>. QED
    BY <1>5, <2>1, FS_Surjection
<1>. QED
  BY <1>2, <1>3, <1>4, <1>6

\* One element more.
LEMMA AppendedElement ==
    ASSUME NEW s, s \in Seq(ToSet(s)), NEW x
    PROVE  /\ Append(s, x) \in Seq(ToSet(Append(s, x)))
           /\ Len(Append(s, x)) = Len(s) + 1 /\ Len(s) \in Nat
<1>. DEFINE S == ToSet(s) \cup {x}
<1>1. ToSet(s) \subseteq S /\ x \in S
  OBVIOUS
<1>. HIDE DEF S
<1>2. s \in Seq(S)
  BY <1>1, SeqMonotonic
<1>3. Append(s, x) \in Seq(S) /\ Len(Append(s, x)) = Len(s) + 1 /\ Len(s) \in Nat
  BY <1>1, <1>2, AppendProperties, LenProperties
<1>. QED
  BY <1>3, OwnElements

\* Between two records the stack holds the new record only.
LEMMA FreshRecord ==
    /\ DOMAIN EmptyMessage \subseteq Seq(Nat \X Nat) /\ IsFiniteSet(DOMAIN EmptyMessage)
    /\ << <<>> >> \in Seq(DOMAIN EmptyMessage) /\ ToSet(<< <<>> >>) \subseteq DOMAIN EmptyMessage
    /\ Len(<< <<>> >>) = Len(Root) + 1
    /\ \A n \in 1 .. Len(<< <<>> >>) : TypeOf(<< <<>> >>[n]) = Prefix(Root, n - 1)
    /\ Root \in Nodes
<1>1. DOMAIN EmptyMessage = {<<>>}
  BY DEF EmptyMessage
<1>2. <<>> \in Seq(Nat \X Nat) /\ Len(<<>>) = 0
  BY EmptySeq
<1>3. IsFiniteSet({<<>>})
  BY FS_Singleton
<1>. DEFINE s == << <<>> >>
<1>4. s \in Seq({<<>>}) /\ Len(s) = 1 /\ s[1] = <<>>
  OBVIOUS
<1>. HIDE DEF s
<1>5. ToSet(s) \subseteq {<<>>}
  BY <1>4, OwnElements
<1>6. Len(Root) = 0
  BY <1>2 DEF Root
<1>7. TypeOf(<<>>) = <<>>
  <2>1. TypeOf(<<>>) = [n \in 1 .. 0 |-> <<>>[n][1]]
    BY <1>2 DEF TypeOf
  <2>. DEFINE e == TypeOf(<<>>)
  <2>2. e \in [1 .. 0 -> {}]
    <3>1. \A n \in 1 .. 0 : <<>>[n][1] \in {}
      OBVIOUS
    <3>. QED
      BY <2>1, <3>1, Zenon
  <2>. HIDE DEF e
  <2>3. e \in Seq({}) /\ DOMAIN e = 1 .. 0
    BY <2>2, SeqDef
  <2>4. Len(e) = 0
    BY <2>3, LenProperties
  <2>. QED
    BY <2>3, <2>4, EmptySeq DEF e
<1>8. Prefix(Root, 0) = <<>>
  BY SubSeqEmpty DEF Prefix
<1>9. \A n \in 1 .. Len(s) : n = 1
  BY <1>4
<1>10. \A n \in 1 .. Len(s) : TypeOf(s[n]) = Prefix(Root, n - 1)
  BY <1>4, <1>7, <1>8, <1>9
<1>. QED
  BY <1>1, <1>2, <1>3, <1>4, <1>5, <1>6, <1>10 DEF s, Nodes

\* When a record is finished, what is left of it is the state between two records.
LEMMA BetweenRecords ==
    ASSUME current' = Root, lastRead' = Root, msgStack' = << <<>> >>, record' = EmptyMessage,
           (records \in Seq(ToSet(records)))', (Idle => records = <<>>)'
    PROVE  /\ StackOnPath' /\ RecordPending' /\ RecordShape'
           /\ (lastRead \in Nodes)' /\ (ToSet(msgStack) \subseteq DOMAIN record)'
<1>1. StackOnPath'
  BY FreshRecord DEF StackOnPath
<1>2. RecordShape' /\ (lastRead \in Nodes)' /\ (ToSet(msgStack) \subseteq DOMAIN record)'
  BY FreshRecord DEF RecordShape
<1>. QED
  BY <1>1, <1>2 DEF RecordPending

-----------------------------------------------------------------------------
(* The steps of get_range(). *)

\* An insert, or a step of one, does not disturb a get_range() that is not under way
\* in the table: the table only grows.
LEMMA ShredKeepsReading ==
    ASSUME TableInvariant, [ShredNext]_shredVars, UNCHANGED readVars
    PROVE  ReadingInvariant'
<1>1. TypeOK' /\ size \in Nat /\ size' \in Nat /\ size <= size'
  <2>1. ShreddingInvariant'
    BY StepKeepsInvariant DEF TableInvariant
  <2>2. TypeOK /\ TypeOK'
    BY <2>1 DEF TableInvariant, ShreddingInvariant
  <2>3. size' = size \/ size' = size + 1
    BY DEF ShredNext, ShredStep, Insert, WriteNull, WriteValue, Descend, Return, shredVars
  <2>. QED
    BY <2>2, <2>3 DEF TypeOK
<1>2. /\ fields' = fields /\ range' = range /\ readers' = readers /\ current' = current
      /\ lastRead' = lastRead /\ msgStack' = msgStack /\ record' = record
      /\ records' = records /\ ok' = ok
  BY DEF readVars
<1>3. ReadingInvariant
  BY DEF TableInvariant
<1>4. TableTypeOK'
  <2>1. range[1] \in 0 .. size' /\ range[2] \in range[1] .. size'
    <3>1. range[1] \in 0 .. size /\ range[2] \in range[1] .. size
      BY <1>3 DEF ReadingInvariant, TableTypeOK
    <3>. QED
      BY <1>1, <3>1
  <2>. QED
    BY <1>1, <1>2, <1>3, <2>1 DEF ReadingInvariant, TableTypeOK, Idle
<1>5. StackOnPath' /\ RecordPending' /\ RecordShape' /\ AssertionsHold'
  BY <1>2, <1>3 DEF ReadingInvariant, StackOnPath, RecordPending, RecordShape, AssertionsHold,
                    MoreRecords, Idle
<1>. QED
  BY <1>4, <1>5 DEF ReadingInvariant

\* get_range() starts its readers in the table.
LEMMA ReadRangeKeepsReading ==
    ASSUME TableInvariant, ~ EmptyRangeAtEnd,
           NEW from \in 0 .. size, NEW to \in 0 .. size, NEW F \in Projections,
           ReadRange(from, to, F)
    PROVE  ReadingInvariant'
<1>1. /\ callStack = <<>> /\ Idle /\ ok /\ from <= to /\ to <= size /\ from < size
      /\ fields' = F /\ range' = <<from, to>> /\ ok' = ok
      /\ readers' = [f \in ToSet(F) |-> StartIndex(f, from)]
      /\ UNCHANGED <<current, lastRead, msgStack, record, records>> /\ UNCHANGED shredVars
  BY DEF ReadRange, GetRange
<1>2. /\ ReadingInvariant /\ TypeOK /\ OpenRecord
  BY DEF TableInvariant, ShreddingInvariant
<1>3. TypeOK' /\ size' = size /\ size \in Nat
  BY <1>1, <1>2 DEF shredVars, TypeOK
<1>4. current = Root /\ records = <<>>
  BY <1>1, <1>2 DEF ReadingInvariant, RecordPending, MoreRecords
<1>5. F # <<>> /\ F \in Seq(Leaves) /\ ToSet(F) \subseteq Leaves
  BY ProjectionsAssumption, OwnElements
<1>6. ASSUME NEW f \in ToSet(F) PROVE StartIndex(f, from) \in Nat
  <2>1. f \in Leaves /\ recordTIDs[f] \in Seq(Nat)
    BY <1>2, <1>5 DEF TypeOK
  <2>2. Len(recordTIDs[f]) = size
    BY <1>1, <1>2, <1>3, <2>1 DEF OpenRecord
  <2>3. from + 1 \in 1 .. Len(recordTIDs[f])
    BY <1>1, <1>3, <2>2
  <2>. QED
    BY <2>1, <2>3, ElementOfSeq DEF StartIndex
<1>7. readers' \in [ToSet(F) -> Nat]
  BY <1>1, <1>6
<1>8. /\ range'[1] = from /\ range'[2] = to /\ from \in 0 .. size /\ to \in from .. size
      /\ to - from \in Nat
  BY <1>1, <1>3
<1>9. Len(records) = 0
  BY <1>4, EmptySeq
<1>10. TableTypeOK'
  BY <1>1, <1>2, <1>3, <1>4, <1>7, <1>8, <1>9 DEF ReadingInvariant, TableTypeOK
<1>11. StackOnPath' /\ RecordShape' /\ AssertionsHold'
  BY <1>1, <1>2 DEF ReadingInvariant, StackOnPath, RecordShape, AssertionsHold
<1>12. RecordPending'
  BY <1>1, <1>4, <1>5 DEF RecordPending, Idle
<1>. QED
  BY <1>10, <1>11, <1>12 DEF ReadingInvariant

\* A leaf is not the record type.
LEMMA LeafIsBelow ==
    ASSUME NEW leaf \in Leaves
    PROVE  leaf \in Seq(Nat) /\ leaf # <<>>
<1>1. leaf \in Fields /\ leaf \in Seq(Nat)
  BY PathsAreSequences
<1>2. PICK t \in Types : \E i \in 1 .. Arity[t] : leaf = Append(t, i)
  BY <1>1, PathsAreSequences
<1>3. PICK i \in 1 .. Arity[t] : leaf = Append(t, i)
  BY <1>2
<1>4. t \in Seq(Nat) /\ i \in Nat
  BY PathsAreSequences
<1>. QED
  BY <1>1, <1>3, <1>4, AppendProperties

\* AssembleNextRecord starts at the first field of the projection.
LEMMA StartRecordKeepsReading ==
    ASSUME TableInvariant, StartRecord, UNCHANGED shredVars
    PROVE  ReadingInvariant'
<1>1. /\ MoreRecords /\ current = Root /\ current' = Head(fields)
      /\ UNCHANGED <<fields, range, readers, lastRead, msgStack, record, records, ok>>
  BY DEF StartRecord
<1>2. ReadingInvariant /\ TypeOK /\ fields \in Projections /\ fields # <<>>
  BY <1>1 DEF TableInvariant, ReadingInvariant, TableTypeOK, MoreRecords, Idle
<1>3. fields \in Seq(Leaves) /\ fields \in Seq(ToSet(fields)) /\ ToSet(fields) \subseteq Leaves
  BY <1>2, ProjectionsAssumption, OwnElements
<1>4. Head(fields) \in ToSet(fields) /\ Head(fields) \in Leaves
  BY <1>2, <1>3, HeadTailProperties
<1>5. current' # Root /\ IsStrictPrefix(Root, current')
  <2>1. Head(fields) \in Seq(Nat) /\ Head(fields) # Root
    BY <1>4, LeafIsBelow DEF Root
  <2>2. IsPrefix(Root, Head(fields))
    BY <2>1, RootAbove
  <2>. QED
    BY <1>1, <2>1, <2>2 DEF IsStrictPrefix
<1>6. lastRead = Root
  BY <1>1, <1>2 DEF ReadingInvariant, StackOnPath
<1>7. TypeOK'
  BY <1>2 DEF shredVars, TypeOK
<1>8. size' = size
  BY DEF shredVars
<1>9. TableTypeOK'
  BY <1>1, <1>2, <1>4, <1>7, <1>8 DEF ReadingInvariant, TableTypeOK, Idle
<1>10. StackOnPath'
  BY <1>1, <1>2, <1>5, <1>6 DEF ReadingInvariant, StackOnPath
<1>11. RecordPending' /\ RecordShape' /\ AssertionsHold'
  BY <1>1, <1>2 DEF ReadingInvariant, RecordPending, RecordShape, AssertionsHold, MoreRecords, Idle
<1>. QED
  BY <1>9, <1>10, <1>11 DEF ReadingInvariant

\* get_range() returns between two records.
LEMMA ReturnKeepsReading ==
    ASSUME TableInvariant, ReturnRecords, UNCHANGED shredVars
    PROVE  ReadingInvariant'
<1>1. /\ ~ Idle /\ ok /\ Len(records) = range[2] - range[1]
      /\ fields' = <<>> /\ range' = <<0, 0>> /\ readers' = [f \in {} |-> 0] /\ records' = <<>>
      /\ UNCHANGED <<current, lastRead, msgStack, record, ok>>
  BY DEF ReturnRecords
<1>2. ReadingInvariant /\ TypeOK
  BY DEF TableInvariant, ReadingInvariant, TableTypeOK
<1>3. range[1] \in Nat /\ range[2] \in Nat
  BY <1>2 DEF ReadingInvariant, TableTypeOK, TypeOK
<1>4. current = Root
  BY <1>1, <1>2, <1>3 DEF ReadingInvariant, RecordPending, MoreRecords
<1>5. size' = size /\ size \in Nat
  BY <1>2 DEF shredVars, TypeOK
<1>6. TypeOK'
  BY <1>2 DEF shredVars, TypeOK
<1>7. ToSet(<<>>) = {} /\ Len(<<>>) = 0 /\ <<>> \in Seq(ToSet(<<>>))
  <2>. DEFINE e == <<>>
  <2>1. Len(e) = 0 /\ e \in Seq(ToSet(e))
    BY EmptySeq
  <2>. HIDE DEF e
  <2>2. DOMAIN e = 1 .. Len(e)
    BY <2>1, LenProperties
  <2>3. ToSet(e) = {} /\ Len(e) = 0 /\ e \in Seq(ToSet(e))
    BY <2>1, <2>2 DEF ToSet
  <2>. QED
    BY <2>3 DEF e
<1>8. readers' \in [ToSet(fields') -> Nat]
  BY <1>1, <1>7
<1>9. TableTypeOK'
  <2>1. range'[1] = 0 /\ range'[2] = 0 /\ Len(records') = 0
    BY <1>1, <1>7
  <2>2. 0 \in 0 .. size' /\ 0 <= 0 - 0
    BY <1>5
  <2>3. Idle'
    BY <1>1 DEF Idle
  <2>. QED
    BY <1>1, <1>2, <1>4, <1>6, <1>8, <2>1, <2>2, <2>3 DEF ReadingInvariant, TableTypeOK
<1>10. StackOnPath' /\ AssertionsHold'
  BY <1>1, <1>2 DEF ReadingInvariant, StackOnPath, AssertionsHold
<1>11. RecordPending' /\ RecordShape'
  BY <1>1, <1>2, <1>4, <1>7 DEF ReadingInvariant, RecordPending, RecordShape
<1>. QED
  BY <1>9, <1>10, <1>11 DEF ReadingInvariant

\* The stack after MoveToLevel is what it was meant to be, and the assertions of the
\* iteration hold.
LEMMA ReadingIsSound ==
    ASSUME TableInvariant, current # Root
    PROVE  LET tid == readers[current]
               newField == IF IsNull(current, tid)
                           THEN PresentField(current, RowAt(current, tid).d) ELSE current
               target == Target(newField)
               stack == MovedStack(target)
               next == NextField(fields, current, RowAt(current, tid + 1).r)
               level == AncestorLevel(newField, next)
               ancestor == GetCommonAncestor[<<newField, next>>]
           IN  /\ MoveIsSound(target)
               /\ level \in Nat /\ level <= Len(target) /\ Len(target) \in Nat
               /\ AssertTop(stack, newField, next)
               /\ Unwound(Len(target), newField, next) = level
               /\ stack \in Seq(Seq(Nat \X Nat)) /\ Len(stack) = Len(target) + 1
               /\ \A n \in 1 .. level + 1 : TypeOf(stack[n]) = Prefix(ancestor, n - 1)
               /\ ancestor \in Nodes /\ Len(ancestor) = level
               /\ next # Root => IsStrictPrefix(ancestor, next)
<1>. DEFINE tid == readers[current]
            newField == IF IsNull(current, tid)
                        THEN PresentField(current, RowAt(current, tid).d) ELSE current
            target == Target(newField)
            stack == MovedStack(target)
            next == NextField(fields, current, RowAt(current, tid + 1).r)
            level == AncestorLevel(newField, next)
            ancestor == GetCommonAncestor[<<newField, next>>]
<1>1. /\ current \in Leaves /\ newField \in Nodes /\ IsPrefix(newField, current)
      /\ next \in Leaves \cup {Root}
  BY RowIsRead
<1>. HIDE DEF newField, next
<1>2. /\ target \in Nodes /\ IsPrefix(target, current)
      /\ level \in Nat /\ level <= Len(target) /\ Prefix(target, level) = ancestor
  BY <1>1, AncestorAboveTarget
<1>3. next \in Nodes
  BY <1>1, PathsAreSequences DEF Nodes
<1>4. ancestor \in Nodes /\ IsPrefix(ancestor, next) /\ (next # Root => ancestor # next)
  BY <1>1, <1>3, AncestorAbove
<1>. HIDE DEF target
<1>5. MoveIsSound(target)
  BY <1>2, MoveHolds
<1>6. /\ stack \in Seq(Seq(Nat \X Nat)) /\ Len(stack) = Len(target) + 1
      /\ \A n \in 1 .. Len(target) + 1 : TypeOf(stack[n]) = Prefix(target, n - 1)
  BY <1>2, MovedStackOnPath
<1>. HIDE DEF stack
<1>7. Len(ancestor) = level
  BY DEF AncestorLevel, GetFullDefinitionLevel
<1>. HIDE DEF level, ancestor
<1>8. target \in Seq(Nat) /\ Len(target) \in Nat
  BY <1>2, PathsAreSequences, LenProperties, EmptySeq DEF Nodes, Root
<1>9. level + 1 \in 1 .. Len(target) + 1 /\ level + 1 - 1 = level
  BY <1>2, <1>8
<1>10. TypeOf(stack[level + 1]) = ancestor
  <2>1. ASSUME NEW k \in 1 .. Len(target) + 1, k - 1 = level
        PROVE  TypeOf(stack[k]) = ancestor
    BY <1>2, <1>6, <2>1
  <2>2. PICK k \in 1 .. Len(target) + 1 : k = level + 1 /\ k - 1 = level
    BY <1>2, <1>9
  <2>3. TypeOf(stack[k]) = ancestor
    BY <2>1, <2>2
  <2>. QED
    BY <2>2, <2>3
<1>11. AssertTop(stack, newField, next)
  BY <1>10 DEF AssertTop, level, ancestor
<1>12. Unwound(Len(target), newField, next) = level
  BY <1>2, <1>8, MinOfTwo DEF Unwound, level
<1>13. ASSUME NEW n \in 1 .. level + 1
       PROVE  TypeOf(stack[n]) = Prefix(ancestor, n - 1)
  <2>1. n \in 1 .. Len(target) + 1 /\ n - 1 \in Nat /\ n - 1 <= level
    BY <1>2, <1>8
  <2>2. Prefix(Prefix(target, level), n - 1) = Prefix(target, n - 1)
    BY <1>2, <2>1, PrefixOfPrefix
  <2>. QED
    BY <1>2, <1>6, <2>1, <2>2
<1>14. next # Root => IsStrictPrefix(ancestor, next)
  BY <1>4 DEF IsStrictPrefix
<1>. QED
  BY <1>2, <1>4, <1>5, <1>6, <1>7, <1>8, <1>11, <1>12, <1>13, <1>14
     DEF newField, target, stack, next, level, ancestor

\* What is opened and filled has addresses.
LEMMA RecordGrows ==
    ASSUME NEW m, DOMAIN m \subseteq Seq(Nat \X Nat), IsFiniteSet(DOMAIN m),
           NEW s \in Seq(Seq(Nat \X Nat)), s # <<>>, NEW leaf \in Leaves, NEW v
    PROVE  LET opened == Opened(m, s)
               filled == Appended(opened, Last(s), leaf, v)
           IN  /\ DOMAIN opened \subseteq Seq(Nat \X Nat) /\ IsFiniteSet(DOMAIN opened)
               /\ DOMAIN filled \subseteq Seq(Nat \X Nat) /\ IsFiniteSet(DOMAIN filled)
               /\ ToSet(s) \subseteq DOMAIN opened /\ ToSet(s) \subseteq DOMAIN filled
<1>. DEFINE opened == Opened(m, s)
            slot == Slot(opened, Last(s), Last(leaf))
<1>1. ToSet(s) \subseteq Seq(Nat \X Nat) /\ IsFiniteSet(ToSet(s))
  BY OwnElements
<1>2. DOMAIN opened = DOMAIN m \cup ToSet(s)
  BY DEF Opened
<1>3. DOMAIN opened \subseteq Seq(Nat \X Nat) /\ IsFiniteSet(DOMAIN opened)
  BY <1>1, <1>2, FS_Union
<1>. HIDE DEF opened
<1>4. Last(s) \in Seq(Nat \X Nat)
  BY StackTop
<1>5. Last(leaf) \in Nat
  <2>1. leaf \in Seq(Nat) /\ leaf # <<>>
    BY LeafIsBelow
  <2>. QED
    BY <2>1, StackTop
<1>6. slot \in Seq(Nat \X Nat)
  <2>. DEFINE a == Last(s)
              i == Last(leaf)
  <2>1. a \in Seq(Nat \X Nat) /\ i \in Nat
    BY <1>4, <1>5
  <2>. HIDE DEF a, i
  <2>2. Slot(opened, a, i) \in Seq(Nat \X Nat)
    BY <1>3, <2>1, SlotIsOfField
  <2>. QED
    BY <2>2 DEF a, i
<1>7. Appended(opened, Last(s), leaf, v) =
         [b \in DOMAIN opened \cup {slot} |-> IF b = slot THEN v ELSE opened[b]]
  BY DEF Appended, Put
<1>. HIDE DEF slot
<1>8. DOMAIN Appended(opened, Last(s), leaf, v) = DOMAIN opened \cup {slot}
  BY <1>7
<1>9. IsFiniteSet(DOMAIN opened \cup {slot})
  BY <1>3, FS_AddElement
<1>. QED
  BY <1>2, <1>3, <1>6, <1>8, <1>9 DEF opened

\* One iteration of AssembleNextRecord.
LEMMA ReadFieldKeepsReading ==
    ASSUME TableInvariant, ReadField, UNCHANGED shredVars
    PROVE  ReadingInvariant'
<1>. DEFINE tid == readers[current]
            null == IsNull(current, tid)
            newField == IF null THEN PresentField(current, RowAt(current, tid).d) ELSE current
            target == Target(newField)
            stack == MovedStack(target)
            opened == Opened(record, stack)
            filled == IF null THEN opened
                      ELSE Appended(opened, Last(stack), current, RowAt(current, tid).v)
            next == NextField(fields, current, RowAt(current, tid + 1).r)
            level == AncestorLevel(newField, next)
            ancestor == GetCommonAncestor[<<newField, next>>]
<1>1. MoreRecords /\ current # Root
  BY DEF ReadField
<1>2. /\ fields \in Projections /\ fields # <<>> /\ current \in Leaves /\ tid \in Nat
      /\ current \in ToSet(fields) /\ next \in ToSet(fields) \cup {Root}
  BY <1>1, RowIsRead
<1>3. /\ MoveIsSound(target)
      /\ level \in Nat /\ level <= Len(target) /\ Len(target) \in Nat
      /\ AssertTop(stack, newField, next)
      /\ Unwound(Len(target), newField, next) = level
      /\ stack \in Seq(Seq(Nat \X Nat)) /\ Len(stack) = Len(target) + 1
      /\ \A n \in 1 .. level + 1 : TypeOf(stack[n]) = Prefix(ancestor, n - 1)
      /\ ancestor \in Nodes /\ Len(ancestor) = level
      /\ next # Root => IsStrictPrefix(ancestor, next)
  BY <1>1, ReadingIsSound
<1>4. /\ UNCHANGED <<fields, range, ok>>
      /\ readers' = [readers EXCEPT ![current] = @ + 1] /\ current' = next
      /\ next = Root =>
            /\ lastRead' = Root /\ msgStack' = << <<>> >> /\ record' = EmptyMessage
            /\ records' = Append(records, filled)
      /\ next # Root =>
            /\ lastRead' = ancestor /\ msgStack' = Prefix(stack, level + 1)
            /\ record' = filled /\ records' = records
  BY <1>3 DEF ReadField
<1>5. ReadingInvariant /\ TypeOK /\ TypeOK' /\ size' = size
  BY DEF TableInvariant, ReadingInvariant, TableTypeOK, TypeOK, shredVars
<1>6. /\ DOMAIN record \subseteq Seq(Nat \X Nat) /\ IsFiniteSet(DOMAIN record)
      /\ records \in Seq(ToSet(records))
  BY <1>5 DEF ReadingInvariant, RecordShape
<1>7. /\ DOMAIN filled \subseteq Seq(Nat \X Nat) /\ IsFiniteSet(DOMAIN filled)
      /\ ToSet(stack) \subseteq DOMAIN filled
  <2>. HIDE DEF null, stack
  <2>1. stack # <<>>
    BY <1>3, EmptySeq
  <2>. DEFINE v == RowAt(current, tid).v
  <2>. HIDE DEF v
  <2>2. /\ DOMAIN opened \subseteq Seq(Nat \X Nat) /\ IsFiniteSet(DOMAIN opened)
        /\ DOMAIN Appended(opened, Last(stack), current, v) \subseteq Seq(Nat \X Nat)
        /\ IsFiniteSet(DOMAIN Appended(opened, Last(stack), current, v))
        /\ ToSet(stack) \subseteq DOMAIN opened
        /\ ToSet(stack) \subseteq DOMAIN Appended(opened, Last(stack), current, v)
    BY <1>2, <1>3, <1>6, <2>1, RecordGrows
  <2>. HIDE DEF opened
  <2>3. filled = opened \/ filled = Appended(opened, Last(stack), current, v)
    BY DEF v
  <2>. HIDE DEF filled
  <2>. QED
    BY <2>2, <2>3
<1>. HIDE DEF null, newField, target, stack, opened, filled, next, level, ancestor
<1>9. readers' \in [ToSet(fields) -> Nat]
  <2>1. readers \in [ToSet(fields) -> Nat]
    BY <1>5 DEF ReadingInvariant, TableTypeOK
  <2>. QED
    BY <1>2, <1>4, <2>1
<1>10. range[1] \in Nat /\ range[2] \in Nat /\ Len(records) \in Nat
       /\ Len(records) < range[2] - range[1]
  BY <1>1, <1>5, <1>6, AppendedElement DEF ReadingInvariant, TableTypeOK, TypeOK, MoreRecords
<1>11. ~ Idle' /\ AssertionsHold' /\ fields' = fields /\ range' = range
  BY <1>2, <1>4, <1>5 DEF Idle, AssertionsHold, ReadingInvariant
<1>12. current' \in ToSet(fields') \cup {Root}
  BY <1>2, <1>4
<1>13. CASE next = Root
  <2>1. (records \in Seq(ToSet(records)))' /\ Len(records') = Len(records) + 1
    BY <1>4, <1>6, <1>13, AppendedElement
  <2>2. /\ StackOnPath' /\ RecordPending' /\ RecordShape'
        /\ (lastRead \in Nodes)' /\ (ToSet(msgStack) \subseteq DOMAIN record)'
    BY <1>4, <1>11, <1>13, <2>1, BetweenRecords
  <2>3. Len(records') <= range'[2] - range'[1]
    BY <1>10, <1>11, <2>1
  <2>4. TableTypeOK'
    BY <1>2, <1>4, <1>5, <1>9, <1>11, <1>12, <2>2, <2>3 DEF ReadingInvariant, TableTypeOK
  <2>. QED
    BY <1>11, <2>2, <2>4 DEF ReadingInvariant
<1>14. CASE next # Root
  <2>1. /\ lastRead' = ancestor /\ msgStack' = Prefix(stack, level + 1)
        /\ record' = filled /\ records' = records /\ current' = next
    BY <1>4, <1>14
  <2>2. DOMAIN stack = 1 .. Len(stack) /\ ToSet(stack) = {stack[n] : n \in 1 .. Len(stack)}
    <3>1. DOMAIN stack = 1 .. Len(stack)
      BY <1>3, LenProperties
    <3>. QED
      BY <3>1 DEF ToSet
  <2>3. \A n \in 1 .. level + 1 : stack[n] \in ToSet(stack) /\ stack[n] \in DOMAIN filled
    <3>1. \A n \in 1 .. level + 1 : n \in 1 .. Len(stack)
      BY <1>3
    <3>. QED
      BY <1>7, <2>2, <3>1
  <2>4. /\ msgStack' \in Seq(DOMAIN filled) /\ Len(msgStack') = level + 1
        /\ \A n \in 1 .. level + 1 : msgStack'[n] = stack[n]
    <3>. DEFINE k == level + 1
                D == DOMAIN filled
    <3>1. k \in Nat
      BY <1>3
    <3>2. \A n \in 1 .. k : stack[n] \in D
      BY <2>3
    <3>3. msgStack' = Prefix(stack, k)
      BY <2>1
    <3>. HIDE DEF k, D
    <3>4. ASSUME NEW t, \A n \in 1 .. k : t[n] \in D
          PROVE  /\ Prefix(t, k) \in Seq(D) /\ Len(Prefix(t, k)) = k
                 /\ \A n \in 1 .. k : Prefix(t, k)[n] = t[n]
      BY <3>1, <3>4, SubSeqProperties, Z3 DEF Prefix
    <3>5. msgStack' \in Seq(D) /\ Len(msgStack') = k /\ \A n \in 1 .. k : msgStack'[n] = stack[n]
      BY <3>2, <3>3, <3>4
    <3>. QED
      BY <3>5 DEF k, D
  <2>5. ToSet(msgStack') \subseteq DOMAIN filled
    BY <2>4, OwnElements
  <2>6. StackOnPath'
    <3>1. Len(msgStack') = Len(lastRead') + 1
      BY <1>3, <2>1, <2>4
    <3>2. \A n \in 1 .. Len(msgStack') : TypeOf(msgStack'[n]) = Prefix(lastRead', n - 1)
      BY <1>3, <2>1, <2>4
    <3>3. IsStrictPrefix(lastRead', current') /\ current' # Root
      BY <1>3, <1>14, <2>1
    <3>. QED
      BY <3>1, <3>2, <3>3 DEF StackOnPath
  <2>7. RecordPending'
    BY <1>1, <1>4, <1>11, <2>1 DEF RecordPending, MoreRecords, Idle
  <2>8. RecordShape'
    BY <1>6, <1>7, <2>1, <2>4 DEF RecordShape
  <2>9. TableTypeOK'
    BY <1>2, <1>3, <1>5, <1>9, <1>10, <1>11, <1>12, <2>1, <2>5 DEF ReadingInvariant, TableTypeOK
  <2>. QED
    BY <1>11, <2>6, <2>7, <2>8, <2>9 DEF ReadingInvariant
<1>. QED
  BY <1>13, <1>14

-----------------------------------------------------------------------------
(* The theorems about get_range(). *)

\* A new table satisfies the invariant.
LEMMA InitTableInvariant ==
    ASSUME InitTable
    PROVE  TableInvariant
<1>1. InitShredding /\ ShreddingInvariant /\ LevelsInRange /\ TypeOK
  BY InitEstablishesInvariant, InitInRange DEF InitTable, ShreddingInvariant
<1>2. /\ fields = <<>> /\ range = <<0, 0>> /\ readers = [f \in {} |-> 0]
      /\ current = Root /\ lastRead = Root /\ msgStack = << <<>> >> /\ record = EmptyMessage
      /\ records = <<>> /\ ok = TRUE
  BY DEF InitTable, InitAssembling
<1>3. size = 0
  BY <1>1 DEF InitShredding, InitStorage
<1>. DEFINE e == <<>>
<1>4. Len(e) = 0 /\ e \in Seq(ToSet(e)) /\ fields = e /\ records = e
  BY <1>2, EmptySeq
<1>5. Idle /\ OneCall
  BY <1>2 DEF Idle, OneCall
<1>. HIDE DEF e
<1>6. ToSet(e) = {}
  <2>1. DOMAIN e = 1 .. Len(e)
    BY <1>4, LenProperties
  <2>. QED
    BY <1>4, <2>1 DEF ToSet
<1>7. readers \in [ToSet(fields) -> Nat]
  BY <1>2, <1>4, <1>6
<1>8. range[1] = 0 /\ range[2] = 0 /\ 0 \in 0 .. size /\ 0 <= 0 - 0
  BY <1>2, <1>3
<1>9. TableTypeOK
  BY <1>1, <1>2, <1>4, <1>5, <1>7, <1>8, FreshRecord DEF TableTypeOK
<1>10. StackOnPath /\ RecordShape
  BY <1>2, <1>4, FreshRecord DEF StackOnPath, RecordShape
<1>11. RecordPending /\ AssertionsHold
  BY <1>2 DEF RecordPending, AssertionsHold
<1>. QED
  BY <1>1, <1>5, <1>9, <1>10, <1>11 DEF TableInvariant, ReadingInvariant

\* Every step of the table keeps the invariant.
LEMMA TableStepKeepsInvariant ==
    ASSUME ~ EmptyRangeAtEnd, TableInvariant, [TableNext]_tableVars
    PROVE  TableInvariant'
<1>1. ShreddingInvariant' /\ LevelsInRange' /\ [ShredNext]_shredVars /\ OneCall'
  BY TableStepsShred, StepKeepsInvariant, StepKeepsLevels, CallsAlternate DEF TableInvariant
<1>2. SUFFICES ReadingInvariant'
  BY <1>1 DEF TableInvariant
<1>3. CASE UNCHANGED readVars
  BY <1>1, <1>3, ShredKeepsReading
<1>4. CASE \E from, to \in 0 .. size, F \in Projections : ReadRange(from, to, F)
  BY <1>4, ReadRangeKeepsReading
<1>5. CASE ReadStep /\ UNCHANGED shredVars
  BY <1>5, StartRecordKeepsReading, ReadFieldKeepsReading, ReturnKeepsReading DEF ReadStep
<1>. QED
  BY <1>3, <1>4, <1>5 DEF TableNext, TableStep, InsertRecord, tableVars

\* However insert() and get_range() calls follow each other, the message stack of the
\* running get_range() holds the messages on the path to the last read field, and
\* the cursors of automaton and readers point to what is there.
THEOREM TableInvariantHolds ==
    ASSUME ~ EmptyRangeAtEnd
    PROVE  TableSpec => []TableInvariant
<1>1. InitTable => TableInvariant
  BY InitTableInvariant
<1>2. TableInvariant /\ [TableNext]_tableVars => TableInvariant'
  BY TableStepKeepsInvariant
<1>. QED
  BY <1>1, <1>2, PTL DEF TableSpec

\* The state of table and get_range() keeps its shapes: every pointer on the message
\* stack points into the record that is being assembled.
THEOREM TableTypes ==
    ASSUME ~ EmptyRangeAtEnd
    PROVE  TableSpec => []TableTypeOK
<1>1. TableInvariant => TableTypeOK
  BY DEF TableInvariant, ReadingInvariant
<1>. QED
  BY <1>1, TableInvariantHolds, PTL

\* The assertions of MoveToLevel and ReturnToLevel hold for every schema, every record
\* and every projection, and no null pointer into schema or stack is used, if clients
\* do not ask for the empty range after the last record.
THEOREM AssertionsAlwaysHold ==
    ASSUME ~ EmptyRangeAtEnd
    PROVE  TableSpec => []AssertionsHold
<1>1. TableInvariant => AssertionsHold
  BY DEF TableInvariant, ReadingInvariant
<1>. QED
  BY <1>1, TableInvariantHolds, PTL

-----------------------------------------------------------------------------
(* The repeated groups on the path to a column. *)

\* A repeated field has a higher level than what is further up on its path.
LEMMA RepeatedLevels ==
    ASSUME NEW l \in Leaves, NEW p \in Nodes, IsPrefix(p, l),
           NEW n \in 1 .. Len(l), IsRepeated(Prefix(l, n))
    PROVE  /\ GetMaxRepetitionLevel[p] \in Nat /\ GetMaxRepetitionLevel[Prefix(l, n)] \in Nat
           /\ n <= Len(p) <=> GetMaxRepetitionLevel[Prefix(l, n)] <= GetMaxRepetitionLevel[p]
<1>1. l \in Seq(Nat) /\ l \in Nodes /\ Len(l) \in Nat /\ n \in Nat /\ n <= Len(l) /\ 1 <= n
  BY LeafPath
<1>2. p \in Seq(Nat) /\ Len(p) \in Nat /\ Len(p) <= Len(l) /\ Prefix(l, Len(p)) = p
  BY <1>1, PrefixChain, NodesAbove, AddressPrefixIs, PrefixElements
<1>. DEFINE q == Prefix(l, n)
            P == {k \in 1 .. Len(p) : IsRepeated(Prefix(p, k))}
            Q == {k \in 1 .. Len(q) : IsRepeated(Prefix(q, k))}
<1>3. q \in Nodes /\ q \in Seq(Nat) /\ Len(q) = n /\ IsPrefix(q, l) /\ Prefix(q, n) = q
  BY <1>1, NodesAbove, PrefixOfPrefix
<1>4. GetMaxRepetitionLevel[p] = Cardinality(P) /\ GetMaxRepetitionLevel[q] = Cardinality(Q)
  BY <1>3 DEF GetMaxRepetitionLevel
<1>5. IsFiniteSet(P) /\ IsFiniteSet(Q) /\ Cardinality(P) \in Nat /\ Cardinality(Q) \in Nat
  <2>1. IsFiniteSet(1 .. Len(p)) /\ IsFiniteSet(1 .. Len(q))
    BY <1>1, <1>2, <1>3, FS_Interval
  <2>2. P \subseteq 1 .. Len(p) /\ Q \subseteq 1 .. Len(q)
    OBVIOUS
  <2>. HIDE DEF P, Q
  <2>. QED
    BY <2>1, <2>2, FS_Subset, FS_CardinalityType
<1>6. ASSUME n <= Len(p) PROVE Cardinality(Q) <= Cardinality(P)
  <2>1. IsPrefix(q, p)
    BY <1>1, <1>2, <1>3, <1>6, AboveOnOnePath
  <2>. QED
    BY <1>3, <1>4, <2>1, LevelsGrow
<1>7. ASSUME Len(p) < n PROVE Cardinality(P) < Cardinality(Q)
  <2>1. \A k \in 1 .. Len(p) : Prefix(p, k) = Prefix(l, k) /\ Prefix(q, k) = Prefix(l, k)
    BY <1>1, <1>2, <1>7, PrefixOfPrefix
  <2>2. P \subseteq Q
    BY <1>2, <1>3, <1>7, <2>1
  <2>3. n \in Q /\ n \notin P
    BY <1>1, <1>2, <1>3, <1>7
  <2>. HIDE DEF P, Q
  <2>4. P # Q
    BY <2>3
  <2>5. Cardinality(P) <= Cardinality(Q) /\ (Cardinality(P) = Cardinality(Q) => P = Q)
    BY <1>5, <2>2, FS_Subset
  <2>. QED
    BY <1>5, <2>4, <2>5
<1>. QED
  BY <1>1, <1>2, <1>4, <1>5, <1>6, <1>7

\* How many steps lead to the last field of path l that repeats at a level up to this.
Reach(l, level) ==
    Max({0} \cup {n \in 1 .. Len(l) : /\ IsRepeated(Prefix(l, n))
                                      /\ GetMaxRepetitionLevel[Prefix(l, n)] <= level})

\* What Reach is: up to there, the repeated fields on the path are of that level or less.
LEMMA ReachIs ==
    ASSUME NEW l \in Leaves, NEW level \in Nat
    PROVE  /\ Reach(l, level) \in Nat /\ Reach(l, level) <= Len(l)
           /\ Reach(l, level) > 0 => /\ IsRepeated(Prefix(l, Reach(l, level)))
                                     /\ GetMaxRepetitionLevel[Prefix(l, Reach(l, level))] <= level
           /\ \A n \in 1 .. Len(l) :
                 IsRepeated(Prefix(l, n)) =>
                     (n <= Reach(l, level) <=> GetMaxRepetitionLevel[Prefix(l, n)] <= level)
<1>. DEFINE T == {0} \cup {n \in 1 .. Len(l) : /\ IsRepeated(Prefix(l, n))
                                               /\ GetMaxRepetitionLevel[Prefix(l, n)] <= level}
            x == Reach(l, level)
<1>1. l \in Nodes /\ Len(l) \in Nat
  BY LeafPath
<1>2. T \subseteq Nat /\ T # {} /\ \A n \in T : n <= Len(l)
  BY <1>1
<1>3. x = Max(T)
  BY DEF Reach
<1>4. x \in T /\ \A n \in T : n <= x
  <2>. HIDE DEF T, x
  <2>. QED
    BY <1>1, <1>2, <1>3, MaxIsGreatest
<1>5. x \in Nat /\ x <= Len(l)
  BY <1>2, <1>4
<1>6. x > 0 => /\ x \in 1 .. Len(l) /\ IsRepeated(Prefix(l, x))
               /\ GetMaxRepetitionLevel[Prefix(l, x)] <= level
  <2>. HIDE DEF x
  <2>. QED
    BY <1>4, <1>5
<1>7. ASSUME NEW n \in 1 .. Len(l), IsRepeated(Prefix(l, n))
      PROVE  n <= x <=> GetMaxRepetitionLevel[Prefix(l, n)] <= level
  <2>1. n \in Nat /\ 1 <= n /\ n <= Len(l)
    BY <1>1
  <2>2. ASSUME n <= x PROVE GetMaxRepetitionLevel[Prefix(l, n)] <= level
    <3>1. x > 0 /\ Prefix(l, x) \in Nodes /\ Prefix(l, n) \in Nodes /\ Prefix(Prefix(l, x), n) = Prefix(l, n)
      BY <1>1, <1>5, <2>1, <2>2, NodesAbove, PrefixOfPrefix
    <3>2. IsPrefix(Prefix(l, n), Prefix(l, x))
      BY <1>1, <1>5, <2>1, <2>2, <3>1, NodesAbove
    <3>3. /\ GetMaxRepetitionLevel[Prefix(l, n)] \in Nat /\ GetMaxRepetitionLevel[Prefix(l, x)] \in Nat
          /\ GetMaxRepetitionLevel[Prefix(l, n)] <= GetMaxRepetitionLevel[Prefix(l, x)]
      BY <3>1, <3>2, LevelsGrow
    <3>. QED
      BY <1>6, <3>1, <3>3
  <2>3. ASSUME GetMaxRepetitionLevel[Prefix(l, n)] <= level PROVE n <= x
    BY <1>4, <1>7, <2>3
  <2>. QED
    BY <2>2, <2>3
<1>. HIDE DEF x, T
<1>8. x = Reach(l, level)
  BY DEF x
<1>. QED
  BY <1>5, <1>6, <1>7, <1>8

\* Two paths go together up to a level: they share all steps to fields that repeat
\* at levels up to this.
Together(f, g, level) ==
    /\ Reach(f, level) = Reach(g, level)
    /\ \A n \in 1 .. Reach(f, level) : f[n] = g[n]

\* Two columns below a node are together at each level up to that of the node.
LEMMA TogetherAbove ==
    ASSUME NEW f \in Leaves, NEW g \in Leaves, NEW p \in Nodes, IsPrefix(p, f), IsPrefix(p, g),
           NEW level \in Nat, level <= GetMaxRepetitionLevel[p]
    PROVE  Together(f, g, level) /\ Reach(f, level) <= Len(p)
<1>1. f \in Nodes /\ g \in Nodes /\ f \in Seq(Nat) /\ g \in Seq(Nat) /\ Len(f) \in Nat /\ Len(g) \in Nat
  BY LeafPath
<1>2. /\ p \in Seq(Nat) /\ Len(p) \in Nat
      /\ Len(p) <= Len(f) /\ \A n \in 1 .. Len(p) : f[n] = p[n]
      /\ Len(p) <= Len(g) /\ \A n \in 1 .. Len(p) : g[n] = p[n]
  BY <1>1, NodesAbove, PrefixElements
<1>3. ASSUME NEW n \in Nat, n <= Len(p) PROVE Prefix(f, n) = Prefix(p, n) /\ Prefix(g, n) = Prefix(p, n)
  <2>1. Prefix(f, Len(p)) = p /\ Prefix(g, Len(p)) = p
    BY <1>1, <1>2, PrefixChain
  <2>2. /\ Prefix(Prefix(f, Len(p)), n) = Prefix(f, n)
        /\ Prefix(Prefix(g, Len(p)), n) = Prefix(g, n)
    BY <1>1, <1>2, <1>3, PrefixOfPrefix
  <2>. QED
    BY <2>1, <2>2
<1>4. ASSUME NEW x \in Leaves, IsPrefix(p, x) PROVE Reach(x, level) <= Len(p)
  <2>. DEFINE r == Reach(x, level)
  <2>1. r \in Nat /\ r <= Len(x) /\ Len(x) \in Nat
    BY ReachIs, LeafPath
  <2>2. CASE r = 0
    BY <1>2, <2>2
  <2>3. CASE r > 0
    <3>1. r \in 1 .. Len(x) /\ IsRepeated(Prefix(x, r)) /\ GetMaxRepetitionLevel[Prefix(x, r)] <= level
      BY <2>1, <2>3, ReachIs
    <3>0. r = Reach(x, level)
      OBVIOUS
    <3>. HIDE DEF r
    <3>2. /\ GetMaxRepetitionLevel[p] \in Nat /\ GetMaxRepetitionLevel[Prefix(x, r)] \in Nat
          /\ r <= Len(p) <=> GetMaxRepetitionLevel[Prefix(x, r)] <= GetMaxRepetitionLevel[p]
      BY <1>4, <3>1, RepeatedLevels
    <3>. QED
      BY <3>0, <3>1, <3>2
  <2>. QED
    BY <2>1, <2>2, <2>3
<1>5. ASSUME NEW x \in Leaves, NEW y \in Leaves, IsPrefix(p, x), IsPrefix(p, y),
             \A n \in Nat : n <= Len(p) => Prefix(x, n) = Prefix(y, n)
      PROVE  Reach(x, level) <= Reach(y, level)
  <2>. DEFINE r == Reach(x, level)
  <2>1. r \in Nat /\ r <= Len(p) /\ Len(p) <= Len(y) /\ Len(y) \in Nat
    BY <1>2, <1>4, <1>5, ReachIs, LeafPath, PrefixElements
  <2>2. CASE r = 0
    BY <2>2, ReachIs
  <2>3. CASE r > 0
    <3>1. IsRepeated(Prefix(x, r)) /\ GetMaxRepetitionLevel[Prefix(x, r)] <= level
      BY <2>3, ReachIs
    <3>2. Prefix(y, r) = Prefix(x, r) /\ r \in 1 .. Len(y)
      BY <1>2, <1>5, <2>1, <2>3
    <3>0. r = Reach(x, level)
      OBVIOUS
    <3>. HIDE DEF r
    <3>3. r <= Reach(y, level) <=> GetMaxRepetitionLevel[Prefix(y, r)] <= level
      BY <3>1, <3>2, ReachIs
    <3>. QED
      BY <3>0, <3>1, <3>2, <3>3
  <2>. QED
    BY <2>1, <2>2, <2>3
<1>6. Reach(f, level) \in Nat /\ Reach(g, level) \in Nat
  BY ReachIs
<1>7. Reach(f, level) <= Reach(g, level) /\ Reach(g, level) <= Reach(f, level)
  BY <1>3, <1>5
<1>8. Reach(f, level) <= Len(p)
  BY <1>4
<1>. QED
  BY <1>2, <1>6, <1>7, <1>8 DEF Together

-----------------------------------------------------------------------------
(* The instances of repeated groups that slots are in. *)

\* The first steps of an address, or all if there are fewer.
Cut(a, n) == Prefix(a, IF n <= Len(a) THEN n ELSE Len(a))

\* What Cut leaves of an address.
LEMMA CutIs ==
    ASSUME NEW a \in Addresses, NEW n \in Nat
    PROVE  /\ Cut(a, n) \in Addresses /\ Len(a) \in Nat
           /\ Len(Cut(a, n)) = IF n <= Len(a) THEN n ELSE Len(a)
           /\ \A i \in Nat : 1 <= i /\ i <= n /\ i <= Len(a) => Cut(a, n)[i] = a[i]
           /\ Len(a) <= n => Cut(a, n) = a
<1>1. Len(a) \in Nat
  BY LenProperties DEF Addresses
<1>2. PICK k \in Nat : k = IF n <= Len(a) THEN n ELSE Len(a)
  BY <1>1
<1>3. k <= Len(a) /\ Cut(a, n) = Prefix(a, k)
  BY <1>1, <1>2 DEF Cut
<1>4. PICK S : S = Nat \X Nat
  OBVIOUS
<1>5. /\ Prefix(a, k) \in Seq(S) /\ Len(Prefix(a, k)) = k
      /\ \A i \in 1 .. k : Prefix(a, k)[i] = a[i]
      /\ k = Len(a) => Prefix(a, k) = a
  BY <1>3, <1>4, FirstSteps DEF Addresses
<1>6. ASSUME NEW i \in Nat, 1 <= i, i <= n, i <= Len(a) PROVE Cut(a, n)[i] = a[i]
  <2>1. i \in 1 .. k
    BY <1>1, <1>2, <1>6
  <2>. QED
    BY <1>3, <1>5, <2>1
<1>7. Len(a) <= n => k = Len(a)
  BY <1>1, <1>2
<1>. QED
  BY <1>1, <1>2, <1>3, <1>4, <1>5, <1>6, <1>7 DEF Addresses

\* Two addresses are the same if they have the same steps.
LEMMA SameAddress ==
    ASSUME NEW a \in Addresses, NEW b \in Addresses, Len(a) = Len(b),
           \A i \in Nat : 1 <= i /\ i <= Len(a) => a[i] = b[i]
    PROVE  a = b
<1>1. PICK S : S = Nat \X Nat
  OBVIOUS
<1>2. a \in Seq(S) /\ b \in Seq(S) /\ Len(a) \in Nat
  BY <1>1, LenProperties DEF Addresses
<1>3. \A i \in 1 .. Len(a) : a[i] = b[i]
  BY <1>2
<1>. QED
  BY <1>2, <1>3, SeqEqual

\* What two addresses have in common in their first steps.
LEMMA CutsDiffer ==
    ASSUME NEW a \in Addresses, NEW b \in Addresses, NEW n \in Nat
    PROVE  /\ \A k : FirstDiffer(Cut(a, n), Cut(b, n), k) <=> FirstDiffer(a, b, k) /\ k <= n
           /\ Earlier(Cut(a, n), Cut(b, n)) <=> \E k \in Nat : FirstDiffer(a, b, k) /\ k <= n
           /\ Earlier(Cut(a, n), Cut(b, n)) <=> PartBefore(a, b, n)
<1>. DEFINE c == Cut(a, n)
            d == Cut(b, n)
<1>1. /\ c \in Addresses /\ d \in Addresses /\ Len(a) \in Nat /\ Len(b) \in Nat
      /\ Len(c) = IF n <= Len(a) THEN n ELSE Len(a)
      /\ Len(d) = IF n <= Len(b) THEN n ELSE Len(b)
      /\ \A i \in Nat : 1 <= i /\ i <= n /\ i <= Len(a) => c[i] = a[i]
      /\ \A i \in Nat : 1 <= i /\ i <= n /\ i <= Len(b) => d[i] = b[i]
  BY CutIs
<1>. HIDE DEF c, d
<1>2. ASSUME NEW k \in Nat, 1 <= k, k <= n, k <= Len(a), k <= Len(b)
      PROVE  FirstDiffer(c, d, k) <=> FirstDiffer(a, b, k)
  <2>1. \A i \in 1 .. k : c[i] = a[i] /\ d[i] = b[i]
    BY <1>1, <1>2
  <2>2. c[k] = a[k] /\ d[k] = b[k] /\ \A i \in 1 .. k - 1 : c[i] = a[i] /\ d[i] = b[i]
    BY <1>2, <2>1
  <2>3. k <= Len(c) /\ k <= Len(d)
    BY <1>1, <1>2
  <2>. QED
    BY <1>2, <2>2, <2>3 DEF FirstDiffer
<1>3. ASSUME NEW k PROVE FirstDiffer(c, d, k) <=> FirstDiffer(a, b, k) /\ k <= n
  <2>1. FirstDiffer(c, d, k) => k \in Nat /\ 1 <= k /\ k <= n /\ k <= Len(a) /\ k <= Len(b)
    BY <1>1 DEF FirstDiffer
  <2>2. FirstDiffer(a, b, k) => k \in Nat /\ 1 <= k /\ k <= Len(a) /\ k <= Len(b)
    BY DEF FirstDiffer
  <2>. QED
    BY <1>2, <2>1, <2>2
<1>4. Earlier(c, d) <=> \E k : FirstDiffer(c, d, k)
  BY <1>1, EarlierIs
<1>5. /\ Earlier(a, b) <=> \E k : FirstDiffer(a, b, k)
      /\ \A k : FirstDiffer(a, b, k) => SharedLength(a, b) = k - 1
  BY EarlierIs
<1>6. \A k : FirstDiffer(a, b, k) => k \in Nat
  BY DEF FirstDiffer
<1>7. Earlier(c, d) <=> \E k \in Nat : FirstDiffer(a, b, k) /\ k <= n
  BY <1>3, <1>4, <1>6
<1>8. PartBefore(a, b, n) <=> \E k \in Nat : FirstDiffer(a, b, k) /\ k <= n
  <2>1. ASSUME NEW k \in Nat, FirstDiffer(a, b, k) PROVE SharedLength(a, b) < n <=> k <= n
    BY <1>5, <2>1
  <2>. QED
    BY <1>5, <1>6, <2>1 DEF PartBefore
<1>. QED
  BY <1>3, <1>7, <1>8 DEF c, d

\* Addresses that part in some steps do so in more; those that agree in some steps
\* do so in fewer.
LEMMA CutFurther ==
    ASSUME NEW a \in Addresses, NEW b \in Addresses, NEW n \in Nat, NEW k \in Nat, k <= n
    PROVE  /\ Earlier(Cut(a, k), Cut(b, k)) => Earlier(Cut(a, n), Cut(b, n))
           /\ Earlier(Cut(a, k), Cut(b, k)) => Earlier(a, b)
           /\ Cut(a, n) = Cut(b, n) => Cut(a, k) = Cut(b, k)
<1>1. Earlier(Cut(a, k), Cut(b, k)) => Earlier(Cut(a, n), Cut(b, n))
  BY CutsDiffer
<1>2. Earlier(Cut(a, k), Cut(b, k)) => Earlier(a, b)
  BY CutsDiffer, EarlierIs
<1>3. ASSUME Cut(a, n) = Cut(b, n) PROVE Cut(a, k) = Cut(b, k)
  <2>. DEFINE c == Cut(a, k)
              d == Cut(b, k)
              x == Cut(a, n)
              y == Cut(b, n)
  <2>1. /\ c \in Addresses /\ d \in Addresses /\ Len(a) \in Nat /\ Len(b) \in Nat
        /\ Len(c) = IF k <= Len(a) THEN k ELSE Len(a)
        /\ Len(d) = IF k <= Len(b) THEN k ELSE Len(b)
        /\ Len(x) = IF n <= Len(a) THEN n ELSE Len(a)
        /\ Len(y) = IF n <= Len(b) THEN n ELSE Len(b)
    BY CutIs
  <2>2. /\ \A i \in Nat : 1 <= i /\ i <= k /\ i <= Len(a) => c[i] = a[i]
        /\ \A i \in Nat : 1 <= i /\ i <= k /\ i <= Len(b) => d[i] = b[i]
        /\ \A i \in Nat : 1 <= i /\ i <= n /\ i <= Len(a) => x[i] = a[i]
        /\ \A i \in Nat : 1 <= i /\ i <= n /\ i <= Len(b) => y[i] = b[i]
    BY CutIs
  <2>3. x = y
    BY <1>3
  <2>. HIDE DEF c, d, x, y
  <2>4. Len(c) = Len(d)
    BY <2>1, <2>3
  <2>5. ASSUME NEW i \in Nat, 1 <= i, i <= Len(c) PROVE c[i] = d[i]
    <3>1. i <= k /\ i <= n /\ i <= Len(a) /\ i <= Len(b)
      BY <2>1, <2>3, <2>5
    <3>. QED
      BY <2>2, <2>3, <2>5, <3>1
  <2>6. c = d
    BY <2>1, <2>4, <2>5, SameAddress
  <2>. QED
    BY <2>6 DEF c, d
<1>. QED
  BY <1>1, <1>2, <1>3

\* A slot does not end on the way to another column's slot, as long as the columns
\* have the same path.
LEMMA SlotsAreLong ==
    ASSUME NEW m, IsMessage(m), NEW f \in Leaves, NEW g \in Leaves,
           NEW a \in Slots(m, f), NEW b \in Slots(m, g),
           Len(a) < Len(b), \A i \in 1 .. Len(a) : a[i] = b[i],
           \A i \in 1 .. Len(a) + 1 : f[i] = g[i], Len(a) < Len(f)
    PROVE  FALSE
<1>1. /\ a \in OnPath(m, f) /\ b \in OnPath(m, g) /\ a \in DOMAIN m /\ b \in DOMAIN m
      /\ Len(a) \in Nat /\ Len(b) \in Nat /\ Len(b) <= Len(g)
  BY SlotsAreFinite
<1>. DEFINE n == Len(a) + 1
<1>2. n \in 1 .. Len(b) /\ n - 1 = Len(a) /\ n \in Nat /\ n - 1 \in Nat /\ n - 1 <= Len(b)
  BY <1>1
<1>3. /\ a \in Addresses /\ b \in Addresses
      /\ b[n][1] \in Nat /\ b[n][2] \in Nat /\ 1 <= b[n][2]
      /\ \A o \in 1 .. b[n][2] : Child(Prefix(b, n - 1), b[n][1], o) \in DOMAIN m
  BY <1>1, <1>2, PresentAddress
<1>4. Child(Prefix(b, n - 1), b[n][1], 1) \in DOMAIN m
  BY <1>3
<1>5. b[n][1] = g[n] /\ g[n] = f[n]
  BY <1>1, <1>2, OnPathIs
<1>6. Prefix(b, n - 1) = a
  <2>1. PICK S : S = Nat \X Nat
    OBVIOUS
  <2>2. b \in Seq(S)
    BY <1>3, <2>1 DEF Addresses
  <2>3. PICK c : c = Prefix(b, n - 1)
    OBVIOUS
  <2>4. c \in Seq(S) /\ Len(c) = n - 1 /\ \A i \in 1 .. n - 1 : c[i] = b[i]
    BY <1>2, <2>2, <2>3, FirstSteps
  <2>5. \A i \in Nat : 1 <= i /\ i <= Len(c) => c[i] = a[i]
    BY <1>1, <1>2, <2>4
  <2>6. c \in Addresses /\ Len(c) = Len(a)
    BY <1>2, <2>1, <2>4 DEF Addresses
  <2>7. c = a
    BY <1>3, <2>5, <2>6, SameAddress
  <2>. QED
    BY <2>3, <2>7
<1>7. Child(a, f[n], 1) \in DOMAIN m
  BY <1>4, <1>5, <1>6
<1>. QED
  BY <1>1, <1>7, SlotIs

\* Slots of two columns with the same first steps are, as far as these steps, in
\* the same instance or one comes before the other.
LEMMA InstancesAreOrdered ==
    ASSUME NEW m, IsMessage(m), NEW f \in Leaves, NEW g \in Leaves,
           NEW a \in Slots(m, f), NEW b \in Slots(m, g),
           NEW n \in Nat, n <= Len(f), n <= Len(g), \A i \in 1 .. n : f[i] = g[i]
    PROVE  Cut(a, n) = Cut(b, n) \/ Earlier(Cut(a, n), Cut(b, n)) \/ Earlier(Cut(b, n), Cut(a, n))
<1>1. /\ a \in Addresses /\ b \in Addresses /\ a \in OnPath(m, f) /\ b \in OnPath(m, g)
      /\ Len(a) \in Nat /\ Len(b) \in Nat /\ Len(a) <= Len(f) /\ Len(b) <= Len(g)
      /\ Len(f) \in Nat /\ Len(g) \in Nat
  BY SlotsAreFinite, LeafPath
<1>2. /\ \A i \in 1 .. Len(a) : a[i] = <<a[i][1], a[i][2]>> /\ a[i][2] \in Nat
      /\ \A i \in 1 .. Len(b) : b[i] = <<b[i][1], b[i][2]>> /\ b[i][2] \in Nat
  BY <1>1, TypeOfSteps
<1>3. /\ \A i \in 1 .. Len(a) : a[i][1] = f[i]
      /\ \A i \in 1 .. Len(b) : b[i][1] = g[i]
  BY <1>1, OnPathIs
<1>. DEFINE T == {i \in Nat : 1 <= i /\ i <= n /\ i <= Len(a) /\ i <= Len(b) /\ a[i] # b[i]}
<1>4. CASE T # {}
  <2>1. T \subseteq Nat
    OBVIOUS
  <2>2. PICK k \in T : \A i \in T : k <= i
    BY <1>4, <2>1, LeastNumber
  <2>3. /\ k \in Nat /\ 1 <= k /\ k <= n /\ k <= Len(a) /\ k <= Len(b) /\ a[k] # b[k]
    OBVIOUS
  <2>4. \A i \in 1 .. k - 1 : a[i] = b[i]
    <3>1. SUFFICES ASSUME NEW i \in 1 .. k - 1, a[i] # b[i] PROVE FALSE
      OBVIOUS
    <3>2. i \in Nat /\ 1 <= i /\ i < k /\ i <= n /\ i <= Len(a) /\ i <= Len(b)
      BY <1>1, <2>3
    <3>3. i \in T
      BY <3>1, <3>2
    <3>. QED
      BY <2>2, <2>3, <3>2, <3>3
  <2>5. k \in 1 .. Len(a) /\ k \in 1 .. Len(b) /\ k \in 1 .. n
    BY <1>1, <2>3
  <2>6. a[k][1] = b[k][1] /\ a[k][2] \in Nat /\ b[k][2] \in Nat
    BY <1>2, <1>3, <2>5
  <2>7. a[k][2] # b[k][2]
    BY <1>2, <2>3, <2>5, <2>6
  <2>8. FirstDiffer(a, b, k) \/ FirstDiffer(b, a, k)
    BY <2>3, <2>4, <2>6, <2>7 DEF FirstDiffer
  <2>. QED
    BY <1>1, <2>3, <2>8, CutsDiffer
<1>5. CASE T = {}
  <2>1. \A i \in Nat : 1 <= i /\ i <= n /\ i <= Len(a) /\ i <= Len(b) => a[i] = b[i]
    BY <1>5
  <2>. HIDE DEF T
  <2>2. ~ (Len(a) < n /\ Len(a) < Len(b))
    <3>1. SUFFICES ASSUME Len(a) < n, Len(a) < Len(b) PROVE FALSE
      OBVIOUS
    <3>2. /\ \A i \in 1 .. Len(a) : a[i] = b[i]
          /\ \A i \in 1 .. Len(a) + 1 : f[i] = g[i]
          /\ Len(a) < Len(f)
      BY <1>1, <2>1, <3>1
    <3>. QED
      BY <3>1, <3>2, SlotsAreLong
  <2>3. ~ (Len(b) < n /\ Len(b) < Len(a))
    <3>1. SUFFICES ASSUME Len(b) < n, Len(b) < Len(a) PROVE FALSE
      OBVIOUS
    <3>2. /\ \A i \in 1 .. Len(b) : b[i] = a[i]
          /\ \A i \in 1 .. Len(b) + 1 : g[i] = f[i]
          /\ Len(b) < Len(g)
      BY <1>1, <2>1, <3>1
    <3>. QED
      BY <3>1, <3>2, SlotsAreLong
  <2>. DEFINE c == Cut(a, n)
              d == Cut(b, n)
  <2>4. /\ c \in Addresses /\ d \in Addresses
        /\ Len(c) = IF n <= Len(a) THEN n ELSE Len(a)
        /\ Len(d) = IF n <= Len(b) THEN n ELSE Len(b)
        /\ \A i \in Nat : 1 <= i /\ i <= n /\ i <= Len(a) => c[i] = a[i]
        /\ \A i \in Nat : 1 <= i /\ i <= n /\ i <= Len(b) => d[i] = b[i]
    BY <1>1, CutIs
  <2>. HIDE DEF c, d
  <2>5. Len(c) = Len(d)
    BY <1>1, <2>2, <2>3, <2>4
  <2>6. ASSUME NEW i \in Nat, 1 <= i, i <= Len(c) PROVE c[i] = d[i]
    <3>1. i <= n /\ i <= Len(a) /\ i <= Len(b)
      BY <1>1, <2>4, <2>5, <2>6
    <3>. QED
      BY <2>1, <2>4, <2>6, <3>1
  <2>7. c = d
    BY <2>4, <2>5, <2>6, SameAddress
  <2>. QED
    BY <2>7 DEF c, d
<1>. QED
  BY <1>4, <1>5

\* In the instance of a slot there is a slot of the other column.
LEMMA SlotOfInstance ==
    ASSUME NEW m, IsMessage(m), NEW f \in Leaves, NEW g \in Leaves, NEW a \in Slots(m, f),
           NEW n \in Nat, n <= Len(f), n <= Len(g), \A i \in 1 .. n : f[i] = g[i]
    PROVE  \E t \in Slots(m, g) : Cut(t, n) = Cut(a, n)
<1>1. /\ a \in Addresses /\ a \in OnPath(m, f) /\ a \in DOMAIN m
      /\ Len(a) \in Nat /\ Len(f) \in Nat /\ Len(g) \in Nat
  BY SlotsAreFinite, LeafPath
<1>2. PICK k \in Nat : k = IF n <= Len(a) THEN n ELSE Len(a)
  BY <1>1
<1>3. k <= Len(a) /\ k <= n /\ Cut(a, n) = Prefix(a, k)
  BY <1>1, <1>2 DEF Cut
<1>4. PICK c : c = Prefix(a, k)
  OBVIOUS
<1>5. c \in DOMAIN m
  BY <1>1, <1>3, <1>4, PresentAddress
<1>6. c \in Addresses /\ Len(c) = k /\ \A i \in Nat : 1 <= i /\ i <= k => c[i] = a[i]
  <2>1. /\ Cut(a, n) \in Addresses /\ Len(Cut(a, n)) = IF n <= Len(a) THEN n ELSE Len(a)
        /\ \A i \in Nat : 1 <= i /\ i <= n /\ i <= Len(a) => Cut(a, n)[i] = a[i]
    BY <1>1, CutIs
  <2>. QED
    BY <1>1, <1>2, <1>3, <1>4, <2>1
<1>7. c \in OnPath(m, g)
  <2>1. \A i \in 1 .. Len(a) : a[i][1] = f[i]
    BY <1>1, OnPathIs
  <2>2. ASSUME NEW i \in 1 .. Len(c) PROVE c[i][1] = g[i]
    <3>1. i \in 1 .. Len(a) /\ i \in 1 .. n /\ c[i] = a[i]
      BY <1>1, <1>3, <1>6
    <3>. QED
      BY <2>1, <3>1
  <2>3. Len(c) <= Len(g)
    BY <1>1, <1>3, <1>6
  <2>. QED
    BY <1>5, <2>2, <2>3, OnPathIs
<1>8. PICK t \in Slots(m, g) : IsPrefix(c, t)
  BY <1>7, SlotBelow
<1>9. t \in Addresses /\ Len(t) \in Nat
  BY SlotsAreFinite
<1>10. k <= Len(t) /\ \A i \in Nat : 1 <= i /\ i <= k => t[i] = a[i]
  <2>1. Len(c) <= Len(t) /\ \A i \in 1 .. Len(c) : c[i] = t[i]
    BY <1>6, <1>8, <1>9, AddressPrefixIs DEF Addresses
  <2>. QED
    BY <1>6, <2>1
<1>11. ASSUME NEW i, FirstDiffer(t, a, i) \/ FirstDiffer(a, t, i), i <= n PROVE FALSE
  <2>1. i \in Nat /\ 1 <= i /\ i <= Len(a) /\ (a[i][2] < t[i][2] \/ t[i][2] < a[i][2])
    BY <1>11 DEF FirstDiffer
  <2>2. t[i] = a[i]
    BY <1>1, <1>2, <1>10, <1>11, <2>1
  <2>3. a[i][2] \in Nat
    BY <1>1, <2>1, TypeOfSteps
  <2>. QED
    BY <2>1, <2>2, <2>3
<1>12. ~ Earlier(Cut(a, n), Cut(t, n)) /\ ~ Earlier(Cut(t, n), Cut(a, n))
  BY <1>1, <1>9, <1>11, CutsDiffer
<1>13. Cut(a, n) = Cut(t, n) \/ Earlier(Cut(a, n), Cut(t, n)) \/ Earlier(Cut(t, n), Cut(a, n))
  BY InstancesAreOrdered
<1>. QED
  BY <1>12, <1>13

\* Of some slots of a column one is the first.
LEMMA FirstOfSlots ==
    ASSUME NEW m, IsMessage(m), NEW l \in Leaves, NEW T, T \subseteq Slots(m, l), T # {}
    PROVE  \E u \in T : \A t \in T : t = u \/ Earlier(u, t)
<1>1. \A t \in T : Place(m, l, t) \in Nat
  BY PlacesAreOrdered
<1>2. PICK P : P = {Place(m, l, t) : t \in T}
  OBVIOUS
<1>3. P \subseteq Nat /\ P # {}
  BY <1>1, <1>2
<1>4. PICK p \in P : \A q \in P : p <= q
  BY <1>3, LeastNumber
<1>5. PICK u \in T : p = Place(m, l, u)
  BY <1>2
<1>6. ASSUME NEW t \in T, t # u PROVE Earlier(u, t)
  <2>1. Place(m, l, u) <= Place(m, l, t)
    BY <1>2, <1>4, <1>5
  <2>2. Place(m, l, u) \in Nat /\ Place(m, l, t) \in Nat
    BY <1>1
  <2>3. t \in Slots(m, l) /\ u \in Slots(m, l)
    OBVIOUS
  <2>4. Earlier(t, u) => Place(m, l, t) < Place(m, l, u)
    BY <2>3, PlacesAreOrdered
  <2>5. Earlier(t, u) \/ Earlier(u, t)
    BY <1>6, <2>3, SlotsAreOrdered
  <2>. QED
    BY <2>1, <2>2, <2>4, <2>5
<1>7. \A t \in T : t = u \/ Earlier(u, t)
  BY <1>6
<1>. QED
  BY <1>7

\* Where slot a of column l is, as far as fields that repeat at levels up to this.
InstanceAt(l, a, level) == Cut(a, Reach(l, level))

\* Slots of two columns part on the way to a common ancestor where their instances
\* at its level do: only a repeated field has a second occurrence.
LEMMA PartAtLevel ==
    ASSUME NEW m, IsMessage(m), NEW f \in Leaves, NEW g \in Leaves,
           NEW p \in Nodes, IsPrefix(p, f), IsPrefix(p, g),
           NEW a \in Slots(m, f), NEW b \in Slots(m, g)
    PROVE  LET level == GetMaxRepetitionLevel[p]
           IN  PartBefore(a, b, Len(p)) <=> Earlier(InstanceAt(f, a, level), InstanceAt(g, b, level))
<1>1. /\ a \in Addresses /\ b \in Addresses /\ a \in DOMAIN m /\ b \in DOMAIN m
      /\ a \in OnPath(m, f) /\ b \in OnPath(m, g)
      /\ Len(a) \in Nat /\ Len(b) \in Nat /\ Len(a) <= Len(f) /\ Len(b) <= Len(g)
      /\ Len(f) \in Nat /\ Len(g) \in Nat /\ Len(p) \in Nat /\ Len(p) <= Len(g)
  BY SlotsAreFinite, LeafPath, NodesAbove, PrefixElements
<1>2. PICK level : level = GetMaxRepetitionLevel[p]
  OBVIOUS
<1>3. level \in Nat
  BY <1>2, LevelsAreBounded
<1>4. PICK r : r = Reach(g, level)
  OBVIOUS
<1>5. r = Reach(f, level) /\ r \in Nat /\ r <= Len(p)
  <2>1. level <= GetMaxRepetitionLevel[p]
    BY <1>2, <1>3
  <2>2. Together(f, g, level) /\ Reach(f, level) <= Len(p)
    BY <1>3, <2>1, TogetherAbove
  <2>3. Reach(g, level) \in Nat
    BY <1>3, ReachIs
  <2>. QED
    BY <1>4, <2>2, <2>3 DEF Together
<1>6. Earlier(InstanceAt(f, a, level), InstanceAt(g, b, level)) <=> Earlier(Cut(a, r), Cut(b, r))
  BY <1>4, <1>5 DEF InstanceAt
<1>7. ASSUME NEW k \in Nat, FirstDiffer(a, b, k), k <= Len(p) PROVE k <= r
  <2>1. /\ 1 <= k /\ k <= Len(a) /\ k <= Len(b) /\ a[k][2] < b[k][2]
    BY <1>7 DEF FirstDiffer
  <2>2. k \in 1 .. Len(a) /\ k \in 1 .. Len(b) /\ k \in 1 .. Len(g)
    BY <1>1, <2>1
  <2>3. a[k][2] \in Nat /\ 1 <= a[k][2] /\ b[k][2] \in Nat
    BY <1>1, <2>2, PresentAddress
  <2>4. b[k][2] > 1
    BY <2>1, <2>3
  <2>5. IsRepeated(Prefix(TypeOf(b), k))
    BY <1>1, <2>2, <2>4, PresentAddress
  <2>6. Prefix(TypeOf(b), k) = Prefix(g, k)
    <3>1. IsPrefix(TypeOf(b), g) /\ TypeOf(b) \in Seq(Nat) /\ Len(TypeOf(b)) = Len(b) /\ g \in Seq(Nat)
      BY <1>1, TypeOfSteps, LeafPath DEF OnPath
    <3>. QED
      BY <1>7, <2>1, <3>1, StepsOfNode
  <2>7. GetMaxRepetitionLevel[Prefix(g, k)] <= level
    BY <1>2, <1>7, <2>2, <2>5, <2>6, RepeatedLevels
  <2>. QED
    BY <1>3, <1>4, <2>2, <2>5, <2>6, <2>7, ReachIs
<1>8. Earlier(Cut(a, r), Cut(b, r)) <=> \E k \in Nat : FirstDiffer(a, b, k) /\ k <= r
  BY <1>1, <1>5, CutsDiffer
<1>9. PartBefore(a, b, Len(p)) <=> \E k \in Nat : FirstDiffer(a, b, k) /\ k <= Len(p)
  BY <1>1, CutsDiffer
<1>10. \A k \in Nat : k <= r => k <= Len(p)
  BY <1>1, <1>5
<1>11. PartBefore(a, b, Len(p)) <=> Earlier(Cut(a, r), Cut(b, r))
  BY <1>7, <1>8, <1>9, <1>10
<1>. QED
  BY <1>2, <1>6, <1>11

\* Two columns share the repeated groups up to a level.
Share(m, f, g, level) ==
    /\ IsMessage(m) /\ f \in Leaves /\ g \in Leaves /\ level \in Nat
    /\ \E p \in Nodes : IsPrefix(p, f) /\ IsPrefix(p, g) /\ level <= GetMaxRepetitionLevel[p]

\* Two columns that share instances at a level do at each level above it, and either with itself.
LEMMA ShareIs ==
    ASSUME NEW m, NEW f, NEW g, NEW level, Share(m, f, g, level)
    PROVE  /\ Share(m, g, f, level) /\ Share(m, f, f, level) /\ Share(m, g, g, level)
           /\ IsMessage(m) /\ f \in Leaves /\ g \in Leaves
           /\ level \in Nat /\ Together(f, g, level)
           /\ \A above \in Nat : above <= level => Share(m, f, g, above)
<1>1. /\ IsMessage(m) /\ f \in Leaves /\ g \in Leaves /\ level \in Nat
  BY DEF Share
<1>2. PICK p \in Nodes : IsPrefix(p, f) /\ IsPrefix(p, g) /\ level <= GetMaxRepetitionLevel[p]
  BY DEF Share
<1>3. Together(f, g, level)
  BY <1>1, <1>2, TogetherAbove
<1>4. f \in Nodes /\ g \in Nodes /\ IsPrefix(f, f) /\ IsPrefix(g, g)
  BY <1>1, LeafPath, PrefixElements
<1>5. /\ GetMaxRepetitionLevel[p] \in Nat
      /\ GetMaxRepetitionLevel[f] \in Nat /\ GetMaxRepetitionLevel[p] <= GetMaxRepetitionLevel[f]
      /\ GetMaxRepetitionLevel[g] \in Nat /\ GetMaxRepetitionLevel[p] <= GetMaxRepetitionLevel[g]
  BY <1>2, <1>4, LevelsGrow
<1>6. level <= GetMaxRepetitionLevel[f] /\ level <= GetMaxRepetitionLevel[g]
  BY <1>1, <1>2, <1>5
<1>7. \A above \in Nat : above <= level => above <= GetMaxRepetitionLevel[p]
  BY <1>1, <1>2, <1>5
<1>. QED
  BY <1>1, <1>2, <1>3, <1>4, <1>6, <1>7 DEF Share

\* The level of the innermost repeated group in which two columns are read together.
SharedLevel(F, i, j) ==
    IF i < j THEN BackLevel(F, j, i)
    ELSE IF j < i THEN BackLevel(F, i, j)
    ELSE GetMaxRepetitionLevel[F[i]]

\* Two columns of a projection share instances up to the level that SharedLevel gives.
LEMMA ReadTogether ==
    ASSUME NEW m, IsMessage(m), NEW F \in Projections, NEW i \in 1 .. Len(F), NEW j \in 1 .. Len(F)
    PROVE  /\ F[i] \in Leaves /\ F[j] \in Leaves /\ Len(F) \in Nat \ {0}
           /\ SharedLevel(F, i, j) \in Nat /\ SharedLevel(F, i, j) = SharedLevel(F, j, i)
           /\ SharedLevel(F, i, j) <= GetMaxRepetitionLevel[F[i]]
           /\ \A level \in Nat : level <= SharedLevel(F, i, j) => Share(m, F[i], F[j], level)
<1>1. F \in Seq(Leaves) /\ F # <<>> /\ Len(F) \in Nat \ {0}
  BY ProjectionsAssumption, EmptySeq, LenProperties
<1>2. F[i] \in Leaves /\ F[j] \in Leaves /\ i \in Nat /\ j \in Nat
  BY <1>1, ElementOfSeq
<1>3. F[i] \in Nodes /\ F[j] \in Nodes
  BY <1>2, LeafPath
<1>4. ASSUME NEW x \in Leaves, NEW y \in Leaves, NEW p \in Nodes, IsPrefix(p, x), IsPrefix(p, y)
      PROVE  /\ GetMaxRepetitionLevel[p] \in Nat
             /\ GetMaxRepetitionLevel[p] <= GetMaxRepetitionLevel[x]
             /\ \A level \in Nat : level <= GetMaxRepetitionLevel[p] => Share(m, x, y, level)
  BY <1>4, LeafPath, LevelsGrow DEF Share
<1>5. CASE i < j
  <2>1. PICK p : p = GetCommonAncestor[<<F[i], F[j]>>]
    OBVIOUS
  <2>2. p \in Nodes /\ IsPrefix(p, F[i]) /\ IsPrefix(p, F[j])
    BY <1>3, <2>1, AncestorAbove
  <2>3. SharedLevel(F, i, j) = GetMaxRepetitionLevel[p] /\ SharedLevel(F, j, i) = GetMaxRepetitionLevel[p]
    BY <1>2, <1>5, <2>1 DEF SharedLevel, BackLevel
  <2>. QED
    BY <1>1, <1>2, <1>4, <2>2, <2>3
<1>6. CASE j < i
  <2>1. PICK p : p = GetCommonAncestor[<<F[j], F[i]>>]
    OBVIOUS
  <2>2. p \in Nodes /\ IsPrefix(p, F[i]) /\ IsPrefix(p, F[j])
    BY <1>3, <2>1, AncestorAbove
  <2>3. SharedLevel(F, i, j) = GetMaxRepetitionLevel[p] /\ SharedLevel(F, j, i) = GetMaxRepetitionLevel[p]
    BY <1>2, <1>6, <2>1 DEF SharedLevel, BackLevel
  <2>. QED
    BY <1>1, <1>2, <1>4, <2>2, <2>3
<1>7. CASE i = j
  <2>1. /\ SharedLevel(F, i, j) = GetMaxRepetitionLevel[F[i]]
        /\ SharedLevel(F, j, i) = GetMaxRepetitionLevel[F[i]]
    BY <1>2, <1>7 DEF SharedLevel
  <2>2. IsPrefix(F[i], F[i])
    BY <1>2, LeafPath, PrefixElements
  <2>3. /\ GetMaxRepetitionLevel[F[i]] \in Nat
        /\ \A level \in Nat : level <= GetMaxRepetitionLevel[F[i]] => Share(m, F[i], F[i], level)
    BY <1>2, <1>3, <1>4, <2>2
  <2>. QED
    BY <1>1, <1>2, <1>7, <2>1, <2>3
<1>. QED
  BY <1>2, <1>5, <1>6, <1>7

\* Instances of slots at a level up to which their columns go together: they are the
\* same or one comes before the other, and this is the same at higher levels.
LEMMA InstanceOrder ==
    ASSUME NEW m, NEW f, NEW g,
           NEW a \in Slots(m, f), NEW b \in Slots(m, g),
           NEW level \in Nat, Share(m, f, g, level)
    PROVE  LET x == InstanceAt(f, a, level)
               y == InstanceAt(g, b, level)
           IN  /\ x \in Addresses /\ y \in Addresses
               /\ x = y \/ Earlier(x, y) \/ Earlier(y, x)
               /\ ~ Earlier(x, x) /\ (Earlier(x, y) => ~ Earlier(y, x))
<1>1. /\ IsMessage(m) /\ level \in Nat
      /\ f \in Leaves /\ g \in Leaves /\ Together(f, g, level)
  BY ShareIs
<1>2. PICK r : r = Reach(f, level)
  OBVIOUS
<1>3. /\ r \in Nat /\ r <= Len(f) /\ r <= Len(g) /\ r = Reach(g, level)
      /\ \A n \in 1 .. r : f[n] = g[n]
  BY <1>1, <1>2, ReachIs DEF Together
<1>4. a \in Addresses /\ b \in Addresses
  BY <1>1, SlotsAreFinite
<1>5. Cut(a, r) \in Addresses /\ Cut(b, r) \in Addresses
  BY <1>3, <1>4, CutIs
<1>6. Cut(a, r) = Cut(b, r) \/ Earlier(Cut(a, r), Cut(b, r)) \/ Earlier(Cut(b, r), Cut(a, r))
  BY <1>1, <1>3, InstancesAreOrdered
<1>7. /\ ~ Earlier(Cut(a, r), Cut(a, r))
      /\ Earlier(Cut(a, r), Cut(b, r)) => ~ Earlier(Cut(b, r), Cut(a, r))
  BY <1>5, EarlierIsOrder
<1>. QED
  BY <1>2, <1>3, <1>5, <1>6, <1>7 DEF InstanceAt

\* Instances of an outer level are in the order of those within them.
LEMMA InstancesWithin ==
    ASSUME NEW m, NEW f, NEW g,
           NEW level \in Nat, Share(m, f, g, level), NEW above \in Nat, above <= level
    PROVE  \A a \in Slots(m, f) : \A b \in Slots(m, g) :
               /\ Earlier(InstanceAt(f, a, above), InstanceAt(g, b, above))
                      => Earlier(InstanceAt(f, a, level), InstanceAt(g, b, level))
               /\ Earlier(InstanceAt(g, b, above), InstanceAt(f, a, above))
                      => Earlier(InstanceAt(g, b, level), InstanceAt(f, a, level))
               /\ InstanceAt(f, a, level) = InstanceAt(g, b, level)
                      => InstanceAt(f, a, above) = InstanceAt(g, b, above)
<1>. SUFFICES ASSUME NEW a \in Slots(m, f), NEW b \in Slots(m, g)
              PROVE  /\ Earlier(InstanceAt(f, a, above), InstanceAt(g, b, above))
                            => Earlier(InstanceAt(f, a, level), InstanceAt(g, b, level))
                     /\ Earlier(InstanceAt(g, b, above), InstanceAt(f, a, above))
                            => Earlier(InstanceAt(g, b, level), InstanceAt(f, a, level))
                     /\ InstanceAt(f, a, level) = InstanceAt(g, b, level)
                            => InstanceAt(f, a, above) = InstanceAt(g, b, above)
  OBVIOUS
<1>1. /\ IsMessage(m) /\ level \in Nat /\ f \in Leaves /\ g \in Leaves
      /\ Together(f, g, level) /\ Share(m, f, g, above)
  BY ShareIs
<1>3. Together(f, g, level) /\ Together(f, g, above)
  BY <1>1, ShareIs
<1>4. PICK r : r = Reach(f, level)
  OBVIOUS
<1>5. PICK q : q = Reach(f, above)
  OBVIOUS
<1>6. r \in Nat /\ q \in Nat /\ r = Reach(g, level) /\ q = Reach(g, above) /\ q <= Len(f)
  BY <1>1, <1>3, <1>4, <1>5, ReachIs DEF Together
<1>7. q <= r
  <2>1. CASE q = 0
    BY <1>6, <2>1
  <2>2. CASE q > 0
    <3>1. IsRepeated(Prefix(f, q)) /\ GetMaxRepetitionLevel[Prefix(f, q)] <= above
      BY <1>1, <1>5, <2>2, ReachIs
    <3>2. q \in 1 .. Len(f)
      BY <1>1, <1>6, <2>2, LeafPath
    <3>3. Prefix(f, q) \in Nodes
      BY <1>1, <1>6, LeafPath, NodesAbove
    <3>4. GetMaxRepetitionLevel[Prefix(f, q)] <= level
      BY <1>1, <3>1, <3>3, LevelsAreBounded
    <3>. QED
      BY <1>1, <1>4, <3>1, <3>2, <3>4, ReachIs
  <2>. QED
    BY <1>6, <2>1, <2>2
<1>8. a \in Addresses /\ b \in Addresses
  BY <1>1, SlotsAreFinite
<1>9. /\ Earlier(Cut(a, q), Cut(b, q)) => Earlier(Cut(a, r), Cut(b, r))
      /\ Earlier(Cut(b, q), Cut(a, q)) => Earlier(Cut(b, r), Cut(a, r))
      /\ Cut(a, r) = Cut(b, r) => Cut(a, q) = Cut(b, q)
  BY <1>6, <1>7, <1>8, CutFurther
<1>. QED
  BY <1>4, <1>5, <1>6, <1>9 DEF InstanceAt

\* In one column, slots are in the order of their instances.
LEMMA InstancesInColumn ==
    ASSUME NEW m, IsMessage(m), NEW l \in Leaves, NEW a \in Slots(m, l), NEW b \in Slots(m, l),
           NEW level \in Nat, Earlier(InstanceAt(l, a, level), InstanceAt(l, b, level))
    PROVE  Earlier(a, b)
<1>1. a \in Addresses /\ b \in Addresses /\ Reach(l, level) \in Nat
  BY SlotsAreFinite, ReachIs
<1>2. PICK r : r = Reach(l, level)
  OBVIOUS
<1>3. Earlier(Cut(a, r), Cut(b, r))
  BY <1>2 DEF InstanceAt
<1>4. r \in Nat /\ r <= r
  BY <1>1, <1>2
<1>. QED
  BY <1>1, <1>3, <1>4, CutFurther

\* All slots of its column after s are in later instances at a level.
AtEnd(m, l, s, level) ==
    \A t \in Slots(m, l) : Earlier(s, t) => Earlier(InstanceAt(l, s, level), InstanceAt(l, t, level))

\* Slot u is the first of its instance at a level.
AtStart(m, l, u, level) ==
    \A t \in Slots(m, l) : InstanceAt(l, t, level) = InstanceAt(l, u, level) => t = u \/ Earlier(u, t)

\* The instance of a slot has a slot in each column that goes together with its own,
\* and one of them is the first.
LEMMA FirstOfInstance ==
    ASSUME NEW m, NEW f, NEW g, NEW a \in Slots(m, f),
           NEW level \in Nat, Share(m, f, g, level)
    PROVE  \E u \in Slots(m, g) :
               /\ InstanceAt(g, u, level) = InstanceAt(f, a, level)
               /\ AtStart(m, g, u, level)
<1>1. /\ IsMessage(m) /\ level \in Nat
      /\ f \in Leaves /\ g \in Leaves /\ Together(f, g, level)
  BY ShareIs
<1>2. PICK r : r = Reach(f, level)
  OBVIOUS
<1>3. /\ r \in Nat /\ r <= Len(f) /\ r <= Len(g) /\ r = Reach(g, level)
      /\ \A n \in 1 .. r : f[n] = g[n]
  BY <1>1, <1>2, ReachIs DEF Together
<1>4. PICK t \in Slots(m, g) : Cut(t, r) = Cut(a, r)
  BY <1>1, <1>3, SlotOfInstance
<1>5. PICK T : T = {s \in Slots(m, g) : Cut(s, r) = Cut(a, r)}
  OBVIOUS
<1>6. T \subseteq Slots(m, g) /\ T # {}
  BY <1>4, <1>5
<1>7. PICK u \in T : \A s \in T : s = u \/ Earlier(u, s)
  BY <1>1, <1>6, FirstOfSlots
<1>8. u \in Slots(m, g) /\ Cut(u, r) = Cut(a, r)
  BY <1>5
<1>9. \A s \in Slots(m, g) : Cut(s, r) = Cut(u, r) => s = u \/ Earlier(u, s)
  BY <1>5, <1>7, <1>8
<1>10. InstanceAt(f, a, level) = Cut(a, r) /\ \A s : InstanceAt(g, s, level) = Cut(s, r)
  BY <1>2, <1>3 DEF InstanceAt
<1>. QED
  BY <1>8, <1>9, <1>10 DEF AtStart

-----------------------------------------------------------------------------
(* What has been read before a slot is read. *)

-----------------------------------------------------------------------------
(* The edges of the automaton lead where the record is read on. *)

\* What has been read before a slot, by instances.
LEMMA ReadBeforeIs ==
    ASSUME NEW m, IsMessage(m), NEW F \in Projections,
           NEW i \in 1 .. Len(F), NEW j \in 1 .. Len(F),
           NEW f, f = F[i], NEW g, g = F[j], NEW s \in Slots(m, f), NEW a \in Slots(m, g)
    PROVE  LET level == SharedLevel(F, i, j)
           IN  a \in ReadBefore(m, F, j, i, s) <=>
                   IF j < i THEN ~ Earlier(InstanceAt(f, s, level), InstanceAt(g, a, level))
                   ELSE IF j = i THEN Earlier(a, s)
                   ELSE Earlier(InstanceAt(g, a, level), InstanceAt(f, s, level))
<1>1. f \in Leaves /\ g \in Leaves /\ f = F[i] /\ g = F[j] /\ i \in Nat /\ j \in Nat
  BY ReadTogether
<1>2. f \in Nodes /\ g \in Nodes
  BY <1>1, LeafPath
<1>3. CASE j < i
  <2>1. PICK p : p = GetCommonAncestor[<<g, f>>]
    OBVIOUS
  <2>2. p \in Nodes /\ IsPrefix(p, f) /\ IsPrefix(p, g)
    BY <1>2, <2>1, AncestorAbove
  <2>3. SharedLevel(F, i, j) = GetMaxRepetitionLevel[p] /\ AncestorLevel(F[j], F[i]) = Len(p)
    BY <1>1, <1>3, <2>1 DEF SharedLevel, BackLevel, AncestorLevel, GetFullDefinitionLevel
  <2>4. PICK level : level = GetMaxRepetitionLevel[p]
    OBVIOUS
  <2>5. PartBefore(s, a, Len(p)) <=> Earlier(InstanceAt(f, s, level), InstanceAt(g, a, level))
    BY <1>1, <2>2, <2>4, PartAtLevel
  <2>6. a \in ReadBefore(m, F, j, i, s) <=> ~ PartBefore(s, a, Len(p))
    BY <1>3, <2>3 DEF ReadBefore
  <2>. QED
    BY <1>3, <2>3, <2>4, <2>5, <2>6
<1>4. CASE i < j
  <2>1. PICK p : p = GetCommonAncestor[<<f, g>>]
    OBVIOUS
  <2>2. p \in Nodes /\ IsPrefix(p, f) /\ IsPrefix(p, g)
    BY <1>2, <2>1, AncestorAbove
  <2>3. SharedLevel(F, i, j) = GetMaxRepetitionLevel[p] /\ AncestorLevel(F[i], F[j]) = Len(p)
    BY <1>1, <1>4, <2>1 DEF SharedLevel, BackLevel, AncestorLevel, GetFullDefinitionLevel
  <2>4. PICK level : level = GetMaxRepetitionLevel[p]
    OBVIOUS
  <2>5. PartBefore(a, s, Len(p)) <=> Earlier(InstanceAt(g, a, level), InstanceAt(f, s, level))
    BY <1>1, <2>2, <2>4, PartAtLevel
  <2>6. j # i /\ ~ (j < i)
    BY <1>1, <1>4
  <2>7. a \in ReadBefore(m, F, j, i, s) <=> PartBefore(a, s, Len(p))
    BY <2>6, <2>3 DEF ReadBefore
  <2>. QED
    BY <2>3, <2>4, <2>5, <2>6, <2>7
<1>5. CASE i = j
  <2>1. a \in Addresses /\ s \in Addresses /\ Len(a) <= Len(f) /\ Len(s) <= Len(f) /\ Len(f) \in Nat
    BY <1>1, <1>5, SlotsAreFinite, LeafPath
  <2>2. Cut(a, Len(f)) = a /\ Cut(s, Len(f)) = s
    BY <2>1, CutIs
  <2>3. PartBefore(a, s, Len(f)) <=> Earlier(a, s)
    BY <2>1, <2>2, CutsDiffer
  <2>4. ~ (j < i)
    BY <1>1, <1>5
  <2>5. a \in ReadBefore(m, F, j, i, s) <=> PartBefore(a, s, Len(f))
    BY <1>5, <2>4 DEF ReadBefore
  <2>. QED
    BY <1>5, <2>3, <2>4, <2>5
<1>. QED
  BY <1>1, <1>3, <1>4, <1>5

\* In which instances a slot of another column is, by those of its own column.
LEMMA InstanceBelow ==
    ASSUME NEW m, NEW f, NEW g, NEW a \in Slots(m, g),
           NEW level \in Nat, Share(m, f, g, level), NEW above \in Nat, above <= level
    PROVE  \E t \in Slots(m, f) :
               /\ InstanceAt(f, t, level) = InstanceAt(g, a, level)
               /\ InstanceAt(f, t, above) = InstanceAt(g, a, above)
<1>1. Share(m, g, f, level)
  BY ShareIs
<1>2. PICK t \in Slots(m, f) : /\ InstanceAt(f, t, level) = InstanceAt(g, a, level)
                                 /\ AtStart(m, f, t, level)
  BY <1>1, FirstOfInstance
<1>3. \A b \in Slots(m, f) : \A c \in Slots(m, g) :
         InstanceAt(f, b, level) = InstanceAt(g, c, level)
             => InstanceAt(f, b, above) = InstanceAt(g, c, above)
  BY InstancesWithin
<1>. QED
  BY <1>2, <1>3

\* When s is at the end of its instance, what is not in a later one is not later further
\* down either.
LEMMA NotLaterBelow ==
    ASSUME NEW m, NEW f, NEW g,
           NEW s \in Slots(m, f), NEW a \in Slots(m, g),
           NEW level \in Nat, Share(m, f, g, level), NEW above \in Nat, above <= level,
           AtEnd(m, f, s, above),
           ~ Earlier(InstanceAt(f, s, above), InstanceAt(g, a, above))
    PROVE  ~ Earlier(InstanceAt(f, s, level), InstanceAt(g, a, level))
<1>1. SUFFICES ASSUME Earlier(InstanceAt(f, s, level), InstanceAt(g, a, level)) PROVE FALSE
  OBVIOUS
<1>2. PICK t \in Slots(m, f) :
          /\ InstanceAt(f, t, level) = InstanceAt(g, a, level)
          /\ InstanceAt(f, t, above) = InstanceAt(g, a, above)
  BY InstanceBelow
<1>3. /\ IsMessage(m) /\ level \in Nat /\ f \in Leaves
      /\ Earlier(InstanceAt(f, s, level), InstanceAt(f, t, level))
  BY <1>1, <1>2, ShareIs
<1>4. Earlier(s, t)
  BY <1>3, InstancesInColumn
<1>. QED
  BY <1>2, <1>4 DEF AtEnd

\* When u is at the start of its instance, then what comes before it further down is in
\* an earlier one.
LEMMA EarlierAbove ==
    ASSUME NEW m, NEW f, NEW g,
           NEW u \in Slots(m, f), NEW a \in Slots(m, g),
           NEW level \in Nat, Share(m, f, g, level), NEW above \in Nat, above <= level,
           AtStart(m, f, u, above),
           Earlier(InstanceAt(g, a, level), InstanceAt(f, u, level))
    PROVE  Earlier(InstanceAt(g, a, above), InstanceAt(f, u, above))
<1>1. Share(m, f, g, above) /\ f \in Leaves /\ IsMessage(m) /\ level \in Nat
  BY ShareIs
<1>2. \/ InstanceAt(f, u, above) = InstanceAt(g, a, above)
      \/ Earlier(InstanceAt(f, u, above), InstanceAt(g, a, above))
      \/ Earlier(InstanceAt(g, a, above), InstanceAt(f, u, above))
  BY <1>1, InstanceOrder
<1>3. ~ Earlier(InstanceAt(f, u, above), InstanceAt(g, a, above))
  <2>1. Earlier(InstanceAt(f, u, above), InstanceAt(g, a, above))
            => Earlier(InstanceAt(f, u, level), InstanceAt(g, a, level))
    BY InstancesWithin
  <2>2. ~ Earlier(InstanceAt(f, u, level), InstanceAt(g, a, level))
    BY InstanceOrder
  <2>. QED
    BY <2>1, <2>2
<1>4. InstanceAt(f, u, above) # InstanceAt(g, a, above)
  <2>1. SUFFICES ASSUME InstanceAt(f, u, above) = InstanceAt(g, a, above) PROVE FALSE
    OBVIOUS
  <2>2. PICK t \in Slots(m, f) :
            /\ InstanceAt(f, t, level) = InstanceAt(g, a, level)
            /\ InstanceAt(f, t, above) = InstanceAt(g, a, above)
    BY InstanceBelow
  <2>3. Earlier(InstanceAt(f, t, level), InstanceAt(f, u, level))
    BY <2>2
  <2>4. Earlier(t, u)
    BY <1>1, <2>3, InstancesInColumn
  <2>5. t = u \/ Earlier(u, t)
    BY <2>1, <2>2 DEF AtStart
  <2>6. t \in Addresses /\ u \in Addresses
    BY <1>1, SlotsAreFinite
  <2>. QED
    BY <2>4, <2>5, <2>6, EarlierIsOrder
<1>. QED
  BY <1>2, <1>3, <1>4

\* The same in the column of u itself.
LEMMA EarlierInColumn ==
    ASSUME NEW m, NEW f,
           NEW u \in Slots(m, f), NEW a \in Slots(m, f),
           NEW above \in Nat, Share(m, f, f, above), AtStart(m, f, u, above)
    PROVE  Earlier(a, u) <=> Earlier(InstanceAt(f, a, above), InstanceAt(f, u, above))
<1>1. f \in Leaves /\ IsMessage(m) /\ above \in Nat
  BY ShareIs
<1>2. a \in Addresses /\ u \in Addresses
  BY <1>1, SlotsAreFinite
<1>3. ASSUME Earlier(InstanceAt(f, a, above), InstanceAt(f, u, above)) PROVE Earlier(a, u)
  BY <1>1, <1>3, InstancesInColumn
<1>4. ASSUME Earlier(InstanceAt(f, u, above), InstanceAt(f, a, above)) PROVE Earlier(u, a)
  BY <1>1, <1>4, InstancesInColumn
<1>5. \/ InstanceAt(f, u, above) = InstanceAt(f, a, above)
      \/ Earlier(InstanceAt(f, u, above), InstanceAt(f, a, above))
      \/ Earlier(InstanceAt(f, a, above), InstanceAt(f, u, above))
  BY InstanceOrder
<1>6. Earlier(a, u) => ~ Earlier(u, a) /\ a # u
  BY <1>2, EarlierIsOrder
<1>7. InstanceAt(f, u, above) = InstanceAt(f, a, above) => a = u \/ Earlier(u, a)
  BY DEF AtStart
<1>. QED
  BY <1>3, <1>4, <1>5, <1>6, <1>7

\* Of three columns in the order of a linked projection, the first and the last are
\* read together as far as both are with the one between them.
LEMMA LinkedLevels ==
    ASSUME NEW F \in Projections, Linked(F),
           NEW x \in 1 .. Len(F), NEW y \in 1 .. Len(F), NEW z \in 1 .. Len(F), x < y, y < z,
           SharedLevel(F, x, y) \in Nat, SharedLevel(F, y, z) \in Nat
    PROVE  SharedLevel(F, x, z) = IF SharedLevel(F, x, y) <= SharedLevel(F, y, z)
                                  THEN SharedLevel(F, x, y) ELSE SharedLevel(F, y, z)
<1>1. x \in Nat /\ y \in Nat /\ z \in Nat /\ x < z
  BY ProjectionsAssumption, LenProperties
<1>2. /\ SharedLevel(F, x, y) = BackLevel(F, y, x)
      /\ SharedLevel(F, y, z) = BackLevel(F, z, y)
      /\ SharedLevel(F, x, z) = BackLevel(F, z, x)
  BY <1>1 DEF SharedLevel
<1>3. BackLevel(F, z, x) = Min({BackLevel(F, y, x), BackLevel(F, z, y)})
  BY <1>1 DEF Linked
<1>4. Min({BackLevel(F, y, x), BackLevel(F, z, y)})
          = IF BackLevel(F, y, x) <= BackLevel(F, z, y) THEN BackLevel(F, y, x) ELSE BackLevel(F, z, y)
  BY <1>2, MinOfTwo
<1>. QED
  BY <1>2, <1>3, <1>4

\* What has been read when slot s of the i-th column has.
AfterReading(m, F, j, i, s) == ReadBefore(m, F, j, i, s) \cup {t \in {s} : i = j}

\* What has been read after a slot.
LEMMA AfterReadingIs ==
    ASSUME NEW m, IsMessage(m), NEW F \in Projections,
           NEW i \in 1 .. Len(F), NEW j \in 1 .. Len(F),
           NEW f, f = F[i], NEW g, g = F[j], NEW s \in Slots(m, f)
    PROVE  /\ ReadBefore(m, F, j, i, s) \subseteq Slots(m, g)
           /\ AfterReading(m, F, j, i, s) \subseteq Slots(m, g)
           /\ i # j => AfterReading(m, F, j, i, s) = ReadBefore(m, F, j, i, s)
           /\ i = j => AfterReading(m, F, j, i, s) = ReadBefore(m, F, j, i, s) \cup {s}
<1>1. ReadBefore(m, F, j, i, s) \subseteq Slots(m, g)
  BY DEF ReadBefore
<1>. QED
  BY <1>1 DEF AfterReading

\* When slot s has been read, all readers are where a slot of column g is read next.
ReadsOn(m, F, i, s, g) ==
    \E k \in 1 .. Len(F) :
        /\ F[k] = g
        /\ \E u \in Slots(m, g) :
              \A j \in 1 .. Len(F) : AfterReading(m, F, j, i, s) = ReadBefore(m, F, j, k, u)

\* The forward edge: when s is at the end of its instance of the groups that the i-th
\* column is read in together with the next, that one is read from the start.
LEMMA ForwardReads ==
    ASSUME NEW m, IsMessage(m), NEW F \in Projections, Linked(F),
           NEW i \in 1 .. Len(F), i < Len(F), NEW f, f = F[i],
           NEW s \in Slots(m, f), AtEnd(m, f, s, BarrierLevel(F, i))
    PROVE  ReadsOn(m, F, i, s, Barrier(F, i))
<1>1. i \in Nat /\ i + 1 \in 1 .. Len(F) /\ i < i + 1 /\ Len(F) \in Nat
  BY ProjectionsAssumption, LenProperties
<1>2. PICK k : k = i + 1
  OBVIOUS
<1>. PICK g : g = F[k]
  OBVIOUS
<1>3. k \in 1 .. Len(F) /\ k \in Nat /\ i < k /\ g = F[k] /\ F[k] = Barrier(F, i)
  BY <1>1, <1>2 DEF Barrier
<1>4. PICK S : S = SharedLevel(F, i, k)
  OBVIOUS
<1>5. BarrierLevel(F, i) = S
  <2>1. i # Len(F)
    BY <1>1
  <2>. QED
    BY <1>1, <1>2, <1>4, <2>1 DEF BarrierLevel, Barrier, SharedLevel, BackLevel
<1>6. S \in Nat /\ f \in Leaves /\ g \in Leaves /\ S = SharedLevel(F, k, i)
  BY <1>3, <1>4, ReadTogether
<1>7. Share(m, f, g, S) /\ Share(m, g, f, S) /\ Share(m, f, f, S) /\ Share(m, g, g, S)
  <2>1. Share(m, f, g, S)
    BY <1>3, <1>4, <1>6, ReadTogether
  <2>. QED
    BY <2>1, ShareIs
<1>8. PICK u \in Slots(m, g) : /\ InstanceAt(g, u, S) = InstanceAt(f, s, S)
                               /\ AtStart(m, g, u, S)
  BY <1>6, <1>7, FirstOfInstance
<1>9. AtEnd(m, f, s, S)
  BY <1>5
<1>10. ASSUME NEW j \in 1 .. Len(F), NEW h, h = F[j], NEW a \in Slots(m, h)
       PROVE  a \in AfterReading(m, F, j, i, s) <=> a \in ReadBefore(m, F, j, k, u)
  <2>1. j \in Nat /\ h \in Leaves
    BY <1>10, ReadTogether
  <2>2. CASE j < i
    <3>1. PICK L : L = SharedLevel(F, i, j)
      OBVIOUS
    <3>2. PICK M : M = SharedLevel(F, k, j)
      OBVIOUS
    <3>3. L \in Nat /\ M \in Nat /\ L = SharedLevel(F, j, i) /\ M = SharedLevel(F, j, k)
      BY <1>3, <1>10, <3>1, <3>2, ReadTogether
    <3>4. M = IF L <= S THEN L ELSE S
      BY <1>3, <1>4, <1>6, <2>2, <3>3, LinkedLevels
    <3>5. j < k /\ i # j
      BY <1>1, <1>3, <2>1, <2>2
    <3>6. a \in AfterReading(m, F, j, i, s) <=> ~ Earlier(InstanceAt(f, s, L), InstanceAt(h, a, L))
      BY <1>10, <2>2, <3>1, <3>5, AfterReadingIs, ReadBeforeIs
    <3>7. a \in ReadBefore(m, F, j, k, u) <=> ~ Earlier(InstanceAt(g, u, M), InstanceAt(h, a, M))
      BY <1>3, <1>10, <3>2, <3>5, ReadBeforeIs
    <3>8. CASE L <= S
      <4>1. M = L
        BY <3>4, <3>8
      <4>2. InstanceAt(g, u, S) = InstanceAt(f, s, S) => InstanceAt(g, u, L) = InstanceAt(f, s, L)
        BY <1>6, <1>7, <3>3, <3>8, InstancesWithin
      <4>. QED
        BY <1>8, <3>6, <3>7, <4>1, <4>2
    <3>9. CASE ~ (L <= S)
      <4>1. M = S /\ S <= L
        BY <1>6, <3>3, <3>4, <3>9
      <4>2. Share(m, f, h, L)
        BY <1>10, <3>1, <3>3, ReadTogether
      <4>3. ~ Earlier(InstanceAt(f, s, S), InstanceAt(h, a, S))
                => ~ Earlier(InstanceAt(f, s, L), InstanceAt(h, a, L))
        BY <1>6, <1>9, <3>3, <4>1, <4>2, NotLaterBelow
      <4>4. Earlier(InstanceAt(f, s, S), InstanceAt(h, a, S))
                => Earlier(InstanceAt(f, s, L), InstanceAt(h, a, L))
        BY <1>6, <3>3, <4>1, <4>2, InstancesWithin
      <4>. QED
        BY <1>8, <3>6, <3>7, <4>1, <4>3, <4>4
    <3>. QED
      BY <3>8, <3>9
  <2>3. CASE j = i
    <3>1. h = f /\ a \in Slots(m, f)
      BY <1>10, <2>3
    <3>2. a \in AfterReading(m, F, j, i, s) <=> a = s \/ Earlier(a, s)
      <4>1. a \in ReadBefore(m, F, j, i, s) <=> Earlier(a, s)
        BY <1>1, <1>10, <2>3, <3>1, ReadBeforeIs
      <4>. QED
        BY <1>10, <2>3, <4>1, AfterReadingIs
    <3>3. a \in ReadBefore(m, F, j, k, u) <=> ~ Earlier(InstanceAt(g, u, S), InstanceAt(f, a, S))
      BY <1>3, <1>6, <1>10, <2>3, <3>1, ReadBeforeIs
    <3>4. Earlier(InstanceAt(f, s, S), InstanceAt(f, a, S)) => Earlier(s, a)
      BY <1>6, <3>1, InstancesInColumn
    <3>5. Earlier(s, a) => Earlier(InstanceAt(f, s, S), InstanceAt(f, a, S))
      BY <1>9, <3>1 DEF AtEnd
    <3>6. a \in Addresses /\ s \in Addresses
      BY <1>6, <3>1, SlotsAreFinite
    <3>7. a = s \/ Earlier(a, s) <=> ~ Earlier(s, a)
      <4>1. a # s => Earlier(a, s) \/ Earlier(s, a)
        BY <1>6, <3>1, SlotsAreOrdered
      <4>2. ~ Earlier(s, s) /\ (Earlier(a, s) => ~ Earlier(s, a))
        BY <3>6, EarlierIsOrder
      <4>. QED
        BY <4>1, <4>2
    <3>. QED
      BY <1>8, <3>2, <3>3, <3>4, <3>5, <3>7
  <2>4. CASE j = k
    <3>1. h = g /\ a \in Slots(m, g) /\ i # j /\ ~ (j < i)
      BY <1>1, <1>3, <1>10, <2>4
    <3>2. a \in AfterReading(m, F, j, i, s) <=> Earlier(InstanceAt(g, a, S), InstanceAt(f, s, S))
      BY <1>4, <1>10, <2>4, <3>1, AfterReadingIs, ReadBeforeIs
    <3>3. a \in ReadBefore(m, F, j, k, u) <=> Earlier(a, u)
      BY <1>3, <1>10, <2>4, <3>1, ReadBeforeIs
    <3>4. Earlier(a, u) <=> Earlier(InstanceAt(g, a, S), InstanceAt(g, u, S))
      BY <1>6, <1>7, <1>8, <3>1, EarlierInColumn
    <3>. QED
      BY <1>8, <3>2, <3>3, <3>4
  <2>5. CASE k < j
    <3>1. PICK L : L = SharedLevel(F, i, j)
      OBVIOUS
    <3>2. PICK M : M = SharedLevel(F, k, j)
      OBVIOUS
    <3>3. L \in Nat /\ M \in Nat
      BY <1>3, <1>10, <3>1, <3>2, ReadTogether
    <3>4. L = IF S <= M THEN S ELSE M
      BY <1>3, <1>4, <1>6, <2>5, <3>1, <3>2, <3>3, LinkedLevels
    <3>5. i < j /\ i # j /\ j # k /\ ~ (j < i) /\ ~ (j < k)
      BY <1>1, <1>3, <2>1, <2>5
    <3>6. a \in AfterReading(m, F, j, i, s) <=> Earlier(InstanceAt(h, a, L), InstanceAt(f, s, L))
      BY <1>10, <3>1, <3>5, AfterReadingIs, ReadBeforeIs
    <3>7. a \in ReadBefore(m, F, j, k, u) <=> Earlier(InstanceAt(h, a, M), InstanceAt(g, u, M))
      BY <1>3, <1>10, <3>2, <3>5, ReadBeforeIs
    <3>8. CASE ~ (S <= M)
      <4>1. L = M /\ M <= S
        BY <1>6, <3>3, <3>4, <3>8
      <4>2. InstanceAt(g, u, S) = InstanceAt(f, s, S) => InstanceAt(g, u, M) = InstanceAt(f, s, M)
        BY <1>6, <1>7, <3>3, <4>1, InstancesWithin
      <4>. QED
        BY <1>8, <3>6, <3>7, <4>1, <4>2
    <3>9. CASE S <= M
      <4>1. L = S
        BY <3>4, <3>9
      <4>2. Share(m, g, h, M)
        BY <1>3, <1>10, <3>2, <3>3, ReadTogether
      <4>3. Earlier(InstanceAt(h, a, M), InstanceAt(g, u, M))
                => Earlier(InstanceAt(h, a, S), InstanceAt(g, u, S))
        BY <1>6, <1>8, <3>3, <3>9, <4>2, EarlierAbove
      <4>4. Earlier(InstanceAt(h, a, S), InstanceAt(g, u, S))
                => Earlier(InstanceAt(h, a, M), InstanceAt(g, u, M))
        BY <1>6, <3>3, <3>9, <4>2, InstancesWithin
      <4>. QED
        BY <1>8, <3>6, <3>7, <4>1, <4>3, <4>4
    <3>. QED
      BY <3>8, <3>9
  <2>. QED
    BY <1>1, <1>2, <2>1, <2>2, <2>3, <2>4, <2>5
<1>11. ASSUME NEW j \in 1 .. Len(F) PROVE AfterReading(m, F, j, i, s) = ReadBefore(m, F, j, k, u)
  <2>1. PICK h : h = F[j]
    OBVIOUS
  <2>2. AfterReading(m, F, j, i, s) \subseteq Slots(m, h)
    BY <2>1, AfterReadingIs
  <2>3. ReadBefore(m, F, j, k, u) \subseteq Slots(m, h)
    BY <1>3, <2>1, AfterReadingIs
  <2>. QED
    BY <1>10, <2>1, <2>2, <2>3
<1>. QED
  BY <1>3, <1>8, <1>11 DEF ReadsOn

\* The barrier level of a column is that of the next one, 0 behind the last.
LEMMA BarrierLevelIs ==
    ASSUME NEW F \in Projections, NEW i \in 1 .. Len(F)
    PROVE  /\ BarrierLevel(F, i) \in Nat
           /\ i < Len(F) => BarrierLevel(F, i) = SharedLevel(F, i, i + 1)
           /\ i = Len(F) => BarrierLevel(F, i) = 0
<1>1. i \in Nat /\ Len(F) \in Nat /\ i <= Len(F)
  BY ProjectionsAssumption, LenProperties
<1>2. F \in Seq(Leaves) /\ Leaves \subseteq Nodes /\ Root \in Nodes
  BY ProjectionsAssumption, LeafPath DEF Nodes
<1>3. ASSUME NEW x \in Nodes, NEW y \in Nodes
      PROVE  /\ GetMaxRepetitionLevel[GetCommonAncestor[<<x, y>>]] \in Nat
             /\ y = Root => GetMaxRepetitionLevel[GetCommonAncestor[<<x, y>>]] = 0
  <2>1. PICK a : a = GetCommonAncestor[<<x, y>>]
    OBVIOUS
  <2>2. a \in Nodes /\ IsPrefix(a, x) /\ IsPrefix(a, y)
    BY <2>1, AncestorAbove
  <2>3. GetMaxRepetitionLevel[a] \in Nat /\ GetMaxRepetitionLevel[a] <= Len(a) /\ Len(a) \in Nat
    BY <2>2, LevelsWithinPath
  <2>4. y = Root => Len(a) <= 0
    <3>1. a \in Seq(Nat) /\ y \in Seq(Nat) /\ (y = Root => Len(y) = 0)
      BY <2>2, NodesAbove, LevelsWithinPath, RootAbove
    <3>. QED
      BY <2>2, <3>1, PrefixElements
  <2>. QED
    BY <2>1, <2>3, <2>4
<1>4. F[i] \in Nodes
  BY <1>2, ElementOfSeq
<1>5. CASE i = Len(F)
  <2>1. BarrierLevel(F, i) = GetMaxRepetitionLevel[GetCommonAncestor[<<F[i], Root>>]]
    BY <1>5 DEF BarrierLevel, Barrier
  <2>. QED
    BY <1>1, <1>2, <1>3, <1>4, <1>5, <2>1
<1>6. CASE i < Len(F)
  <2>1. i + 1 \in 1 .. Len(F) /\ i # Len(F) /\ i < i + 1
    BY <1>1, <1>6
  <2>2. F[i + 1] \in Nodes
    BY <1>2, <2>1, ElementOfSeq
  <2>3. BarrierLevel(F, i) = GetMaxRepetitionLevel[GetCommonAncestor[<<F[i], F[i + 1]>>]]
    BY <2>1 DEF BarrierLevel, Barrier
  <2>4. BarrierLevel(F, i) = SharedLevel(F, i, i + 1)
    BY <2>1, <2>3 DEF SharedLevel, BackLevel
  <2>. QED
    BY <1>3, <1>4, <1>6, <2>1, <2>2, <2>3, <2>4
<1>. QED
  BY <1>1, <1>5, <1>6

\* The edge for a level above the barrier level leads back to the first column of the
\* group that repeats, or to the column itself.
LEMMA BackEdge ==
    ASSUME NEW m, IsMessage(m), NEW F \in Projections, Linked(F), NEW i \in 1 .. Len(F),
           NEW level \in Nat, BarrierLevel(F, i) < level, level <= GetMaxRepetitionLevel[F[i]]
    PROVE  \E k \in 1 .. i :
               /\ k \in 1 .. Len(F) /\ F[k] = Transition(F, i, level)
               /\ k < i => SharedLevel(F, i, k) = level
               /\ level <= SharedLevel(F, i, k)
               /\ \A u \in 1 .. Len(F) :
                     u < k => /\ SharedLevel(F, i, u) < level
                              /\ SharedLevel(F, k, u) = SharedLevel(F, i, u)
<1>1. i \in Nat /\ Len(F) \in Nat /\ 1 <= i /\ i <= Len(F) /\ BarrierLevel(F, i) \in Nat
  BY ProjectionsAssumption, LenProperties, BarrierLevelIs
<1>2. ASSUME NEW x \in 1 .. Len(F), NEW y \in 1 .. Len(F)
      PROVE  /\ SharedLevel(F, x, y) \in Nat /\ SharedLevel(F, x, y) = SharedLevel(F, y, x)
             /\ SharedLevel(F, x, y) <= GetMaxRepetitionLevel[F[x]]
             /\ y < x => SharedLevel(F, x, y) = BackLevel(F, x, y)
             /\ GetMaxRepetitionLevel[F[x]] \in Nat
  <2>1. PICK f : f = F[x]
    OBVIOUS
  <2>2. PICK g : g = F[y]
    OBVIOUS
  <2>3. /\ f \in Leaves
        /\ SharedLevel(F, x, y) \in Nat /\ SharedLevel(F, x, y) = SharedLevel(F, y, x)
        /\ SharedLevel(F, x, y) <= GetMaxRepetitionLevel[f]
    BY <2>1, <2>2, ReadTogether
  <2>4. y < x => SharedLevel(F, x, y) = BackLevel(F, x, y)
    <3>1. x \in Nat /\ y \in Nat
      BY <1>1
    <3>. QED
      BY <3>1 DEF SharedLevel
  <2>5. f \in Nodes
    BY <2>3, LeafPath
  <2>. QED
    BY <2>1, <2>3, <2>4, <2>5, LevelsAreBounded
<1>3. PICK U : U = BackFields(F, i, level)
  OBVIOUS
<1>4. ASSUME NEW u \in 1 .. i - 1
      PROVE  u \in Nat /\ u \in 1 .. Len(F) /\ u < i /\ (u \in U <=> SharedLevel(F, i, u) = level)
  <2>1. u \in Nat /\ u \in 1 .. Len(F) /\ u < i
    BY <1>1
  <2>2. /\ SharedLevel(F, i, u) = BackLevel(F, i, u) /\ SharedLevel(F, i, u) \in Nat
        /\ SharedLevel(F, i, u) <= GetMaxRepetitionLevel[F[u]] /\ GetMaxRepetitionLevel[F[u]] \in Nat
    BY <1>2, <2>1
  <2>3. SharedLevel(F, i, u) = level => GetMaxRepetitionLevel[F[u]] > BarrierLevel(F, i)
    BY <1>1, <2>2
  <2>4. u \in U <=> GetMaxRepetitionLevel[F[u]] > BarrierLevel(F, i) /\ BackLevel(F, i, u) = level
    BY <1>3 DEF BackFields
  <2>. QED
    BY <2>1, <2>2, <2>3, <2>4
<1>5. U \subseteq 1 .. i - 1
  BY <1>3 DEF BackFields
<1>6. ~ (level <= BarrierLevel(F, i))
  BY <1>1
<1>7. CASE U = {}
  <2>1. F[i] = Transition(F, i, level)
    BY <1>3, <1>6, <1>7 DEF Transition
  <2>2. ASSUME NEW u \in 1 .. Len(F), u < i PROVE SharedLevel(F, i, u) < level
    <3>1. SUFFICES ASSUME level <= SharedLevel(F, i, u) PROVE FALSE
      BY <1>2
    <3>2. u \in 1 .. i - 1
      BY <1>1, <2>2
    <3>3. SharedLevel(F, i, u) = BackLevel(F, i, u) /\ SharedLevel(F, i, u) \in Nat
      BY <1>2, <2>2
    <3>4. level \in BarrierLevel(F, i) + 1 .. BackLevel(F, i, u)
      BY <1>1, <3>1, <3>3
    <3>5. BackFields(F, i, level) # {}
      BY <3>2, <3>4 DEF Linked
    <3>. QED
      BY <1>3, <1>7, <3>5
  <2>3. SharedLevel(F, i, i) = GetMaxRepetitionLevel[F[i]]
    BY <1>1 DEF SharedLevel
  <2>4. i \in 1 .. i /\ ~ (i < i)
    BY <1>1
  <2>. QED
    BY <2>1, <2>2, <2>3, <2>4
<1>8. CASE U # {}
  <2>1. U \subseteq Nat
    BY <1>4, <1>5
  <2>2. PICK k : k = Min(U)
    OBVIOUS
  <2>3. k \in U /\ \A u \in U : k <= u
    BY <1>8, <2>1, <2>2, MinIsLeast
  <2>4. k \in 1 .. i - 1 /\ k \in Nat /\ k \in 1 .. Len(F) /\ k < i /\ SharedLevel(F, i, k) = level
    BY <1>4, <1>5, <2>3
  <2>5. F[k] = Transition(F, i, level)
    BY <1>3, <1>6, <1>8, <2>2 DEF Transition
  <2>6. ASSUME NEW u \in 1 .. Len(F), u < k
        PROVE  SharedLevel(F, i, u) < level /\ SharedLevel(F, k, u) = SharedLevel(F, i, u)
    <3>1. u \in 1 .. i - 1 /\ u \in Nat
      BY <1>1, <2>4, <2>6
    <3>2. u \notin U
      BY <2>3, <2>4, <2>6, <3>1
    <3>3. SharedLevel(F, i, u) # level
      BY <1>4, <3>1, <3>2
    <3>4. /\ SharedLevel(F, u, k) \in Nat /\ SharedLevel(F, k, i) \in Nat /\ SharedLevel(F, i, u) \in Nat
          /\ SharedLevel(F, u, k) = SharedLevel(F, k, u) /\ SharedLevel(F, k, i) = level
          /\ SharedLevel(F, u, i) = SharedLevel(F, i, u)
      BY <1>2, <2>4
    <3>5. SharedLevel(F, u, i) = IF SharedLevel(F, u, k) <= SharedLevel(F, k, i)
                                 THEN SharedLevel(F, u, k) ELSE SharedLevel(F, k, i)
      BY <2>4, <2>6, <3>4, LinkedLevels
    <3>. QED
      BY <3>3, <3>4, <3>5
  <2>7. k \in 1 .. i /\ level <= SharedLevel(F, i, k)
    BY <1>1, <2>4
  <2>. QED
    BY <2>4, <2>5, <2>6, <2>7
<1>. QED
  BY <1>7, <1>8

\* Slot s2 follows slot s in its column, in the next instance at level r.
Follows(m, l, s, s2, r) ==
    /\ \A t \in Slots(m, l) : t = s \/ Earlier(t, s) \/ t = s2 \/ Earlier(s2, t)
    /\ Earlier(InstanceAt(l, s, r), InstanceAt(l, s2, r))
    /\ AtStart(m, l, s2, r)
    /\ \A above \in Nat : above < r => InstanceAt(l, s, above) = InstanceAt(l, s2, above)

\* Slots that are in no later instance than s are in an earlier one than the slot that
\* follows it, and s is the last of its instance.
LEMMA NextInstance ==
    ASSUME NEW m, NEW f, NEW h, NEW r \in Nat, Share(m, f, h, r),
           NEW s \in Slots(m, f), NEW s2 \in Slots(m, f), Follows(m, f, s, s2, r)
    PROVE  /\ AtEnd(m, f, s, r)
           /\ \A a \in Slots(m, h) :
                 Earlier(InstanceAt(h, a, r), InstanceAt(f, s2, r))
                     <=> ~ Earlier(InstanceAt(f, s, r), InstanceAt(h, a, r))
<1>1. Share(m, f, f, r) /\ IsMessage(m) /\ f \in Leaves
  BY ShareIs
<1>2. PICK x : x = InstanceAt(f, s, r)
  OBVIOUS
<1>3. PICK y : y = InstanceAt(f, s2, r)
  OBVIOUS
<1>4. x \in Addresses /\ y \in Addresses /\ Earlier(x, y) /\ s \in Addresses /\ s2 \in Addresses
  BY <1>1, <1>2, <1>3, InstanceOrder, SlotsAreFinite DEF Follows
<1>5. ASSUME NEW t \in Slots(m, f), NEW z, z = InstanceAt(f, t, r)
      PROVE  /\ z \in Addresses /\ t \in Addresses
             /\ x = z \/ Earlier(x, z) \/ Earlier(z, x)
             /\ y = z \/ Earlier(y, z) \/ Earlier(z, y)
             /\ Earlier(x, z) => Earlier(s, t)
             /\ Earlier(z, y) => Earlier(t, s2)
             /\ t = s \/ Earlier(t, s) \/ t = s2 \/ Earlier(s2, t)
             /\ t = s => z = x
             /\ t = s2 => z = y
  <2>1. /\ z \in Addresses
        /\ x = z \/ Earlier(x, z) \/ Earlier(z, x)
        /\ y = z \/ Earlier(y, z) \/ Earlier(z, y)
    BY <1>1, <1>2, <1>3, <1>5, InstanceOrder
  <2>2. t \in Addresses
    BY <1>1, SlotsAreFinite
  <2>3. (Earlier(x, z) => Earlier(s, t)) /\ (Earlier(z, y) => Earlier(t, s2))
    BY <1>1, <1>2, <1>3, <1>5, InstancesInColumn
  <2>4. t = s \/ Earlier(t, s) \/ t = s2 \/ Earlier(s2, t)
    BY DEF Follows
  <2>. QED
    BY <1>2, <1>3, <1>5, <2>1, <2>2, <2>3, <2>4
<1>6. ASSUME NEW t \in Slots(m, f), NEW z, z = InstanceAt(f, t, r)
      PROVE  Earlier(z, y) <=> ~ Earlier(x, z)
  <2>1. /\ z \in Addresses /\ t \in Addresses
        /\ x = z \/ Earlier(x, z) \/ Earlier(z, x)
        /\ y = z \/ Earlier(y, z) \/ Earlier(z, y)
        /\ Earlier(x, z) => Earlier(s, t)
        /\ Earlier(z, y) => Earlier(t, s2)
        /\ t = s \/ Earlier(t, s) \/ t = s2 \/ Earlier(s2, t)
        /\ t = s => z = x
        /\ t = s2 => z = y
    BY <1>5, <1>6
  <2>2. ~ (Earlier(t, s) /\ Earlier(s, t)) /\ ~ (Earlier(t, s2) /\ Earlier(s2, t))
    BY <1>4, <2>1, EarlierIsOrder
  <2>3. ~ Earlier(x, x) /\ ~ Earlier(y, y)
    BY <1>4, EarlierIsOrder
  <2>4. /\ Earlier(x, y) /\ Earlier(y, z) => Earlier(x, z)
        /\ Earlier(z, x) /\ Earlier(x, y) => Earlier(z, y)
    BY <1>4, <2>1, EarlierIsOrder
  <2>. QED
    BY <1>4, <2>1, <2>2, <2>3, <2>4
<1>7. ASSUME NEW a \in Slots(m, h)
      PROVE  Earlier(InstanceAt(h, a, r), y) <=> ~ Earlier(x, InstanceAt(h, a, r))
  <2>1. PICK t \in Slots(m, f) : /\ InstanceAt(f, t, r) = InstanceAt(h, a, r)
                                 /\ InstanceAt(f, t, r) = InstanceAt(h, a, r)
    BY InstanceBelow
  <2>. QED
    BY <1>6, <2>1
<1>8. AtEnd(m, f, s, r)
  <2>1. SUFFICES ASSUME NEW t \in Slots(m, f), Earlier(s, t)
                 PROVE  Earlier(InstanceAt(f, s, r), InstanceAt(f, t, r))
    BY DEF AtEnd
  <2>2. PICK z : z = InstanceAt(f, t, r)
    OBVIOUS
  <2>3. /\ z \in Addresses /\ t \in Addresses
        /\ x = z \/ Earlier(x, z) \/ Earlier(z, x)
        /\ y = z \/ Earlier(y, z) \/ Earlier(z, y)
        /\ Earlier(x, z) => Earlier(s, t)
        /\ Earlier(z, y) => Earlier(t, s2)
        /\ t = s \/ Earlier(t, s) \/ t = s2 \/ Earlier(s2, t)
        /\ t = s => z = x
        /\ t = s2 => z = y
    BY <1>5, <2>2
  <2>4. t # s /\ ~ Earlier(t, s) /\ ~ (Earlier(t, s2) /\ Earlier(s2, t))
    BY <1>4, <2>1, <2>3, EarlierIsOrder
  <2>5. Earlier(x, y) /\ Earlier(y, z) => Earlier(x, z)
    BY <1>4, <2>3, EarlierIsOrder
  <2>. QED
    BY <1>2, <1>4, <2>2, <2>3, <2>4, <2>5
<1>. QED
  BY <1>2, <1>3, <1>7, <1>8

\* At the end of an instance, what has been read of the column itself is what is in
\* no later one.
LEMMA ReadToEnd ==
    ASSUME NEW m, IsMessage(m), NEW f \in Leaves, NEW s \in Slots(m, f), NEW a \in Slots(m, f),
           NEW level \in Nat, AtEnd(m, f, s, level)
    PROVE  a = s \/ Earlier(a, s) <=> ~ Earlier(InstanceAt(f, s, level), InstanceAt(f, a, level))
<1>1. Earlier(InstanceAt(f, s, level), InstanceAt(f, a, level)) => Earlier(s, a)
  BY InstancesInColumn
<1>2. Earlier(s, a) => Earlier(InstanceAt(f, s, level), InstanceAt(f, a, level))
  BY DEF AtEnd
<1>3. a \in Addresses /\ s \in Addresses
  BY SlotsAreFinite
<1>4. a # s => Earlier(a, s) \/ Earlier(s, a)
  BY SlotsAreOrdered
<1>5. ~ Earlier(s, s) /\ (Earlier(a, s) => ~ Earlier(s, a))
  BY <1>3, EarlierIsOrder
<1>. QED
  BY <1>1, <1>2, <1>4, <1>5

\* The backward edges: when the row behind slot s repeats at a level above the barrier
\* level, the column that is read next is at the slot of that instance.
LEMMA BackReads ==
    ASSUME NEW m, IsMessage(m), NEW F \in Projections, Linked(F),
           NEW i \in 1 .. Len(F), NEW f, f = F[i], NEW r \in Nat,
           BarrierLevel(F, i) < r, r <= GetMaxRepetitionLevel[f],
           NEW s \in Slots(m, f), NEW s2 \in Slots(m, f), Follows(m, f, s, s2, r)
    PROVE  ReadsOn(m, F, i, s, Transition(F, i, r))
<1>1. PICK k \in 1 .. i :
               /\ k \in 1 .. Len(F) /\ F[k] = Transition(F, i, r)
               /\ k < i => SharedLevel(F, i, k) = r
               /\ r <= SharedLevel(F, i, k)
               /\ \A u \in 1 .. Len(F) :
                     u < k => /\ SharedLevel(F, i, u) < r
                              /\ SharedLevel(F, k, u) = SharedLevel(F, i, u)
  BY BackEdge
<1>2. PICK g : g = F[k]
  OBVIOUS
<1>3. i \in Nat /\ k \in Nat /\ k \in 1 .. Len(F) /\ k <= i /\ Len(F) \in Nat
  BY <1>1, ProjectionsAssumption, LenProperties
<1>4. f \in Leaves /\ g \in Leaves /\ Share(m, f, g, r)
  BY <1>1, <1>2, <1>3, ReadTogether
<1>5. Share(m, g, f, r) /\ Share(m, f, f, r) /\ Share(m, g, g, r)
  BY <1>4, ShareIs
<1>6. PICK u \in Slots(m, g) : /\ InstanceAt(g, u, r) = InstanceAt(f, s2, r)
                               /\ AtStart(m, g, u, r)
  BY <1>4, FirstOfInstance
<1>7. AtEnd(m, f, s, r)
  BY <1>5, NextInstance
<1>8. ASSUME NEW above \in Nat, above < r
      PROVE  InstanceAt(g, u, above) = InstanceAt(f, s, above)
  <2>1. InstanceAt(f, s, above) = InstanceAt(f, s2, above)
    BY <1>8 DEF Follows
  <2>2. above <= r
    BY <1>8
  <2>3. InstanceAt(g, u, r) = InstanceAt(f, s2, r) => InstanceAt(g, u, above) = InstanceAt(f, s2, above)
    BY <1>5, <2>2, InstancesWithin
  <2>. QED
    BY <1>6, <2>1, <2>3
<1>9. ASSUME NEW j \in 1 .. Len(F), NEW h, h = F[j], NEW a \in Slots(m, h)
      PROVE  a \in AfterReading(m, F, j, i, s) <=> a \in ReadBefore(m, F, j, k, u)
  <2>1. j \in Nat /\ h \in Leaves
    BY <1>9, ReadTogether
  <2>2. PICK L : L = SharedLevel(F, i, j)
    OBVIOUS
  <2>3. PICK M : M = SharedLevel(F, k, j)
    OBVIOUS
  <2>4. /\ L \in Nat /\ M \in Nat /\ L = SharedLevel(F, j, i) /\ M = SharedLevel(F, j, k)
        /\ SharedLevel(F, i, k) = SharedLevel(F, k, i) /\ SharedLevel(F, i, k) \in Nat
    BY <1>3, <1>9, <2>2, <2>3, ReadTogether
  <2>5. Share(m, f, h, L) /\ Share(m, g, h, M)
    BY <1>2, <1>3, <1>9, <2>2, <2>3, <2>4, ReadTogether
  <2>6. a \in AfterReading(m, F, j, i, s) <=>
            IF j < i THEN ~ Earlier(InstanceAt(f, s, L), InstanceAt(h, a, L))
            ELSE IF j = i THEN a = s \/ Earlier(a, s)
            ELSE Earlier(InstanceAt(h, a, L), InstanceAt(f, s, L))
    <3>1. a \in ReadBefore(m, F, j, i, s) <=>
              IF j < i THEN ~ Earlier(InstanceAt(f, s, L), InstanceAt(h, a, L))
              ELSE IF j = i THEN Earlier(a, s)
              ELSE Earlier(InstanceAt(h, a, L), InstanceAt(f, s, L))
      BY <1>9, <2>2, ReadBeforeIs
    <3>2. a \in AfterReading(m, F, j, i, s) <=>
              a \in ReadBefore(m, F, j, i, s) \/ (i = j /\ a = s)
      BY DEF AfterReading
    <3>. QED
      BY <1>3, <2>1, <3>1, <3>2
  <2>7. a \in ReadBefore(m, F, j, k, u) <=>
            IF j < k THEN ~ Earlier(InstanceAt(g, u, M), InstanceAt(h, a, M))
            ELSE IF j = k THEN Earlier(a, u)
            ELSE Earlier(InstanceAt(h, a, M), InstanceAt(g, u, M))
    BY <1>2, <1>3, <1>9, <2>3, ReadBeforeIs
  <2>8. CASE j < k
    <3>1. L < r /\ M = L /\ j < i
      BY <1>1, <1>3, <2>1, <2>2, <2>3, <2>8
    <3>2. InstanceAt(g, u, L) = InstanceAt(f, s, L)
      BY <1>8, <2>4, <3>1
    <3>. QED
      BY <2>6, <2>7, <2>8, <3>1, <3>2
  <2>9. CASE ~ (j < k) /\ j <= i
    <3>1. SUFFICES       /\ a \in AfterReading(m, F, j, i, s)
                                <=> ~ Earlier(InstanceAt(f, s, r), InstanceAt(h, a, r))
                         /\ a \in ReadBefore(m, F, j, k, u)
                                <=> Earlier(InstanceAt(h, a, r), InstanceAt(g, u, r))
                         /\ Share(m, f, h, r)
      <4>1. Share(m, f, h, r) =>
                (Earlier(InstanceAt(h, a, r), InstanceAt(f, s2, r))
                     <=> ~ Earlier(InstanceAt(f, s, r), InstanceAt(h, a, r)))
        BY NextInstance
      <4>. QED
        BY <1>6, <4>1
    <3>2. r <= L /\ (j # k => r <= M)
      <4>1. CASE j = i /\ k < i
        <5>1. SharedLevel(F, i, i) = GetMaxRepetitionLevel[F[i]]
          BY <1>3 DEF SharedLevel
        <5>2. r <= L
          BY <2>2, <4>1, <5>1
        <5>3. M = r
          BY <1>1, <2>3, <2>4, <4>1
        <5>. QED
          BY <5>2, <5>3
      <4>2. CASE j = i /\ k = i
        BY <1>1, <2>2, <4>2
      <4>3. CASE j = k /\ k < i
        BY <1>1, <2>2, <4>3
      <4>4. CASE k < j /\ j < i
        <5>1. SharedLevel(F, k, i) = r
          BY <1>1, <1>3, <2>1, <2>4, <4>4
        <5>2. SharedLevel(F, k, i) = IF M <= L THEN M ELSE L
          BY <1>3, <2>2, <2>3, <2>4, <4>4, LinkedLevels
        <5>. QED
          BY <2>4, <5>1, <5>2
      <4>. QED
        BY <1>3, <2>1, <2>9, <4>1, <4>2, <4>3, <4>4
    <3>3. Share(m, f, h, r)
      BY <2>4, <2>5, <3>2, ShareIs
    <3>4. a \in AfterReading(m, F, j, i, s) <=> ~ Earlier(InstanceAt(f, s, r), InstanceAt(h, a, r))
      <4>1. CASE j = i
        <5>1. h = f /\ a \in Slots(m, f) /\ ~ (j < i)
          BY <1>3, <1>9, <4>1
        <5>2. a = s \/ Earlier(a, s) <=> ~ Earlier(InstanceAt(f, s, r), InstanceAt(f, a, r))
          BY <1>4, <1>7, <5>1, ReadToEnd
        <5>. QED
          BY <2>6, <4>1, <5>1, <5>2
      <4>2. CASE j < i
        <5>1. ~ Earlier(InstanceAt(f, s, r), InstanceAt(h, a, r))
                  => ~ Earlier(InstanceAt(f, s, L), InstanceAt(h, a, L))
          BY <1>7, <2>4, <2>5, <3>2, NotLaterBelow
        <5>2. Earlier(InstanceAt(f, s, r), InstanceAt(h, a, r))
                  => Earlier(InstanceAt(f, s, L), InstanceAt(h, a, L))
          BY <2>4, <2>5, <3>2, InstancesWithin
        <5>. QED
          BY <2>6, <4>2, <5>1, <5>2
      <4>. QED
        BY <1>3, <2>1, <2>9, <4>1, <4>2
    <3>5. a \in ReadBefore(m, F, j, k, u) <=> Earlier(InstanceAt(h, a, r), InstanceAt(g, u, r))
      <4>1. CASE j = k
        <5>1. h = g /\ a \in Slots(m, g) /\ ~ (j < k)
          BY <1>2, <1>9, <2>9, <4>1
        <5>2. Earlier(a, u) <=> Earlier(InstanceAt(g, a, r), InstanceAt(g, u, r))
          BY <1>4, <1>5, <1>6, <5>1, EarlierInColumn
        <5>. QED
          BY <2>7, <4>1, <5>1, <5>2
      <4>2. CASE j # k
        <5>1. r <= M
          BY <3>2, <4>2
        <5>2. Earlier(InstanceAt(h, a, M), InstanceAt(g, u, M))
                  => Earlier(InstanceAt(h, a, r), InstanceAt(g, u, r))
          BY <1>6, <2>4, <2>5, <5>1, EarlierAbove
        <5>3. Earlier(InstanceAt(h, a, r), InstanceAt(g, u, r))
                  => Earlier(InstanceAt(h, a, M), InstanceAt(g, u, M))
          BY <2>4, <2>5, <5>1, InstancesWithin
        <5>. QED
          BY <2>7, <2>9, <4>2, <5>2, <5>3
      <4>. QED
        BY <4>1, <4>2
    <3>. QED
      BY <3>3, <3>4, <3>5
  <2>10. CASE i < j
    <3>1. BarrierLevel(F, i) \in Nat /\ i < Len(F) /\ i + 1 \in 1 .. Len(F)
      BY <1>3, <1>9, <2>10, BarrierLevelIs
    <3>2. BarrierLevel(F, i) = SharedLevel(F, i, i + 1)
      BY <3>1, BarrierLevelIs
    <3>3. L < r
      <4>1. CASE j = i + 1
        BY <2>2, <2>4, <3>1, <3>2, <4>1
      <4>2. CASE i + 1 < j
        <5>1. PICK n : n = i + 1
          OBVIOUS
        <5>2. n \in 1 .. Len(F) /\ i < n /\ n < j /\ SharedLevel(F, i, n) \in Nat /\ SharedLevel(F, i, n) < r
          BY <1>3, <3>1, <3>2, <4>2, <5>1
        <5>3. SharedLevel(F, n, j) \in Nat
          BY <1>9, <5>2, ReadTogether
        <5>4. L = IF SharedLevel(F, i, n) <= SharedLevel(F, n, j)
                  THEN SharedLevel(F, i, n) ELSE SharedLevel(F, n, j)
          BY <1>9, <2>2, <5>2, <5>3, LinkedLevels
        <5>. QED
          BY <2>4, <5>2, <5>3, <5>4
      <4>. QED
        BY <1>3, <2>1, <2>10, <4>1, <4>2
    <3>4. M = L
      <4>1. CASE k = i
        BY <2>2, <2>3, <4>1
      <4>2. CASE k < i
        <5>1. SharedLevel(F, k, i) = r
          BY <1>1, <2>4, <4>2
        <5>2. M = IF r <= L THEN r ELSE L
          BY <1>3, <1>9, <2>2, <2>3, <2>4, <2>10, <4>2, <5>1, LinkedLevels
        <5>. QED
          BY <2>4, <3>3, <5>2
      <4>. QED
        BY <1>3, <4>1, <4>2
    <3>5. InstanceAt(g, u, L) = InstanceAt(f, s, L)
      BY <1>8, <2>4, <3>3
    <3>6. ~ (j < i) /\ j # i /\ ~ (j < k) /\ j # k
      BY <1>3, <2>1, <2>10
    <3>. QED
      BY <2>6, <2>7, <3>4, <3>5, <3>6
  <2>. QED
    BY <1>3, <2>1, <2>8, <2>9, <2>10
<1>10. ASSUME NEW j \in 1 .. Len(F) PROVE AfterReading(m, F, j, i, s) = ReadBefore(m, F, j, k, u)
  <2>1. PICK h : h = F[j]
    OBVIOUS
  <2>2. AfterReading(m, F, j, i, s) \subseteq Slots(m, h)
    BY <2>1, AfterReadingIs
  <2>3. ReadBefore(m, F, j, k, u) \subseteq Slots(m, h)
    BY <1>2, <1>3, <2>1, AfterReadingIs
  <2>. QED
    BY <1>9, <2>1, <2>2, <2>3
<1>. QED
  BY <1>1, <1>2, <1>3, <1>6, <1>10 DEF ReadsOn

\* Behind the last slot of the last column everything has been read.
LEMMA EndReads ==
    ASSUME NEW m, IsMessage(m), NEW F \in Projections,
           NEW i \in 1 .. Len(F), i = Len(F), NEW f, f = F[i],
           NEW s \in Slots(m, f), \A t \in Slots(m, f) : t = s \/ Earlier(t, s)
    PROVE  \A j \in 1 .. Len(F) : AfterReading(m, F, j, i, s) = Slots(m, F[j])
<1>1. SUFFICES ASSUME NEW j \in 1 .. Len(F), NEW h, h = F[j], NEW a \in Slots(m, h)
               PROVE  a \in AfterReading(m, F, j, i, s)
  <2>1. SUFFICES ASSUME NEW j \in 1 .. Len(F)
                 PROVE  AfterReading(m, F, j, i, s) = Slots(m, F[j])
    OBVIOUS
  <2>2. PICK h : h = F[j]
    OBVIOUS
  <2>3. AfterReading(m, F, j, i, s) \subseteq Slots(m, h)
    BY <2>2, AfterReadingIs
  <2>. QED
    BY <2>2, <2>3
<1>2. i \in Nat /\ j \in Nat /\ j <= i /\ f \in Leaves /\ h \in Leaves
  BY <1>1, ProjectionsAssumption, LenProperties, ReadTogether
<1>3. a \in AfterReading(m, F, j, i, s) <=> a \in ReadBefore(m, F, j, i, s) \/ (i = j /\ a = s)
  BY DEF AfterReading
<1>4. PICK L : L = SharedLevel(F, i, j)
  OBVIOUS
<1>5. a \in ReadBefore(m, F, j, i, s) <=>
          IF j < i THEN ~ Earlier(InstanceAt(f, s, L), InstanceAt(h, a, L))
          ELSE IF j = i THEN Earlier(a, s)
          ELSE Earlier(InstanceAt(h, a, L), InstanceAt(f, s, L))
  BY <1>1, <1>4, ReadBeforeIs
<1>6. CASE j = i
  <2>1. a \in Slots(m, f)
    BY <1>1, <1>6
  <2>. QED
    BY <1>2, <1>3, <1>5, <1>6, <2>1
<1>7. CASE j < i
  <2>1. L \in Nat /\ Share(m, f, h, L)
    BY <1>1, <1>4, ReadTogether
  <2>2. PICK t \in Slots(m, f) : /\ InstanceAt(f, t, L) = InstanceAt(h, a, L)
                                 /\ InstanceAt(f, t, L) = InstanceAt(h, a, L)
    BY <2>1, InstanceBelow
  <2>3. Earlier(InstanceAt(f, s, L), InstanceAt(f, t, L)) => Earlier(s, t)
    BY <1>2, <2>1, InstancesInColumn
  <2>4. s \in Addresses /\ t \in Addresses
    BY <1>2, SlotsAreFinite
  <2>5. ~ Earlier(s, t)
    BY <2>4, EarlierIsOrder
  <2>. QED
    BY <1>3, <1>5, <1>7, <2>2, <2>3, <2>5
<1>. QED
  BY <1>2, <1>6, <1>7

\* Before the first slot of the first column nothing has been read.
LEMMA StartReads ==
    ASSUME NEW m, IsMessage(m), NEW F \in Projections, 1 \in 1 .. Len(F), NEW f, f = F[1],
           NEW u \in Slots(m, f), \A t \in Slots(m, f) : t = u \/ Earlier(u, t)
    PROVE  \A j \in 1 .. Len(F) : ReadBefore(m, F, j, 1, u) = {}
<1>1. SUFFICES ASSUME NEW j \in 1 .. Len(F), NEW h, h = F[j], NEW a \in Slots(m, h)
               PROVE  a \notin ReadBefore(m, F, j, 1, u)
  <2>1. SUFFICES ASSUME NEW j \in 1 .. Len(F)
                 PROVE  ReadBefore(m, F, j, 1, u) = {}
    OBVIOUS
  <2>2. PICK h : h = F[j]
    OBVIOUS
  <2>3. ReadBefore(m, F, j, 1, u) \subseteq Slots(m, h)
    BY <2>2, AfterReadingIs
  <2>. QED
    BY <2>2, <2>3
<1>2. j \in Nat /\ 1 <= j /\ f \in Leaves /\ h \in Leaves
  BY <1>1, ReadTogether
<1>4. PICK L : L = SharedLevel(F, 1, j)
  OBVIOUS
<1>5. a \in ReadBefore(m, F, j, 1, u) <=>
          IF j < 1 THEN ~ Earlier(InstanceAt(f, u, L), InstanceAt(h, a, L))
          ELSE IF j = 1 THEN Earlier(a, u)
          ELSE Earlier(InstanceAt(h, a, L), InstanceAt(f, u, L))
  BY <1>1, <1>4, ReadBeforeIs
<1>6. CASE j = 1
  <2>1. a \in Slots(m, f)
    BY <1>1, <1>6
  <2>2. a \in Addresses /\ u \in Addresses
    BY <1>2, <2>1, SlotsAreFinite
  <2>3. ~ Earlier(a, u)
    BY <2>1, <2>2, EarlierIsOrder
  <2>. QED
    BY <1>5, <1>6, <2>3
<1>7. CASE 1 < j
  <2>1. L \in Nat /\ Share(m, f, h, L)
    BY <1>1, <1>4, ReadTogether
  <2>2. PICK t \in Slots(m, f) : /\ InstanceAt(f, t, L) = InstanceAt(h, a, L)
                                 /\ InstanceAt(f, t, L) = InstanceAt(h, a, L)
    BY <2>1, InstanceBelow
  <2>3. Earlier(InstanceAt(f, t, L), InstanceAt(f, u, L)) => Earlier(t, u)
    BY <1>2, <2>1, InstancesInColumn
  <2>4. u \in Addresses /\ t \in Addresses
    BY <1>2, SlotsAreFinite
  <2>5. ~ Earlier(t, u)
    BY <2>4, EarlierIsOrder
  <2>. QED
    BY <1>2, <1>5, <1>7, <2>2, <2>3, <2>5
<1>. QED
  BY <1>2, <1>6, <1>7

\* A column has a slot in every record, and one of them is the first.
LEMMA FirstSlotExists ==
    ASSUME NEW m, IsMessage(m), NEW l \in Leaves
    PROVE  \E u \in Slots(m, l) : \A t \in Slots(m, l) : t = u \/ Earlier(u, t)
<1>1. <<>> \in DOMAIN m
  BY DEF IsMessage
<1>2. <<>> \in OnPath(m, l)
  BY <1>1, LeafPath, OnPathIs
<1>3. Slots(m, l) # {}
  BY <1>2, SlotBelow
<1>. QED
  BY <1>3, FirstOfSlots

\* A slot that is not the last of its column has one right behind it.
LEMMA SlotRightBehind ==
    ASSUME NEW m, IsMessage(m), NEW l \in Leaves, NEW s \in Slots(m, l),
           ~ \A t \in Slots(m, l) : t = s \/ Earlier(t, s)
    PROVE  \E s2 \in Slots(m, l) :
               /\ Earlier(s, s2)
               /\ Place(m, l, s2) = Place(m, l, s) + 1
               /\ \A t \in Slots(m, l) : t = s \/ Earlier(t, s) \/ t = s2 \/ Earlier(s2, t)
<1>1. PICK T : T = {t \in Slots(m, l) : Earlier(s, t)}
  OBVIOUS
<1>2. T # {}
  BY <1>1, SlotsAreOrdered
<1>3. PICK s2 \in T : \A t \in T : t = s2 \/ Earlier(s2, t)
  BY <1>1, <1>2, FirstOfSlots
<1>4. s2 \in Slots(m, l) /\ Earlier(s, s2)
  BY <1>1, <1>3
<1>5. \A t \in Slots(m, l) : t = s \/ Earlier(t, s) \/ t = s2 \/ Earlier(s2, t)
  BY <1>1, <1>3, SlotsAreOrdered
<1>6. s \in SlotsBefore(m, l, s2)
  BY <1>4 DEF SlotsBefore
<1>7. PICK q \in SlotsBefore(m, l, s2) :
               /\ Place(m, l, s2) = Place(m, l, q) + 1
               /\ \A t \in SlotsBefore(m, l, s2) : t = q \/ Earlier(t, q)
  BY <1>4, <1>6, SlotRightBefore
<1>8. q \in Slots(m, l) /\ Earlier(q, s2)
  BY <1>7 DEF SlotsBefore
<1>9. q \in Addresses /\ s2 \in Addresses
  BY <1>4, <1>8, SlotsAreFinite
<1>10. q # s2 /\ ~ Earlier(s2, q)
  BY <1>8, <1>9, EarlierIsOrder
<1>11. q = s
  BY <1>1, <1>3, <1>6, <1>7, <1>8, <1>10
<1>. QED
  BY <1>4, <1>5, <1>7, <1>11

\* The last slot of a column stands in the last place.
LEMMA LastPlace ==
    ASSUME NEW m, IsMessage(m), NEW l \in Leaves, NEW s \in Slots(m, l),
           \A t \in Slots(m, l) : t = s \/ Earlier(t, s)
    PROVE  Place(m, l, s) + 1 = Cardinality(Slots(m, l))
<1>1. IsFiniteSet(Slots(m, l)) /\ Cardinality(Slots(m, l)) \in Nat /\ s \in Addresses
  BY SlotsAreFinite
<1>2. ~ Earlier(s, s)
  BY <1>1, EarlierIsOrder
<1>3. SlotsBefore(m, l, s) = Slots(m, l) \ {s}
  BY <1>2 DEF SlotsBefore
<1>4. Cardinality(Slots(m, l) \ {s}) = Cardinality(Slots(m, l)) - 1
  BY <1>1, FS_RemoveElement
<1>. QED
  BY <1>1, <1>3, <1>4 DEF Place

-----------------------------------------------------------------------------
(* The rows of a record in its columns. *)

\* The slot behind another one is in the next instance at the level of its row: this is
\* the field that has repeated.
LEMMA SlotFollows ==
    ASSUME NEW m, IsMessage(m), NEW l \in Leaves, NEW s \in Slots(m, l), NEW s2 \in Slots(m, l),
           Earlier(s, s2), \A t \in Slots(m, l) : t = s \/ Earlier(t, s) \/ t = s2 \/ Earlier(s2, t),
           NEW r, r = GetMaxRepetitionLevel[Prefix(l, LastRepeat(s2))]
    PROVE  r \in Nat /\ 1 <= r /\ r <= GetMaxRepetitionLevel[l] /\ Follows(m, l, s, s2, r)
<1>1. /\ s \in Addresses /\ s2 \in Addresses /\ s2 \in DOMAIN m /\ s2 \in OnPath(m, l)
      /\ Len(s2) \in Nat /\ Len(s2) <= Len(l) /\ Len(s) \in Nat
  BY SlotsAreFinite
<1>2. l \in Nodes /\ Len(l) \in Nat /\ l \in Seq(Nat)
  BY LeafPath
<1>3. PICK k : FirstDiffer(s, s2, k)
  BY <1>1, EarlierIs
<1>4. PICK n : n = LastRepeat(s2)
  OBVIOUS
<1>5. k \in Nat /\ 1 <= k /\ k <= n /\ n \in Nat /\ n <= Len(s2) /\ s2[n][2] > 1
  BY <1>1, <1>3, <1>4, DifferWhereRepeated, LastRepeatIs
<1>6. n \in 1 .. Len(l) /\ n \in 1 .. Len(s2)
  BY <1>1, <1>2, <1>5
<1>7. k = n
  <2>1. PICK t0 \in Slots(m, l) : FirstDiffer(t0, s2, n)
    BY <1>4, <1>5, SlotOfOccurrenceBefore
  <2>2. t0 \in Addresses
    BY <2>1, SlotsAreFinite
  <2>3. Earlier(t0, s2)
    BY <1>1, <2>1, <2>2, EarlierIs
  <2>4. ~ Earlier(s, t0)
    <3>1. t0 # s2 /\ ~ Earlier(s2, t0)
      BY <1>1, <2>2, <2>3, EarlierIsOrder
    <3>2. t0 = s \/ Earlier(t0, s)
      BY <2>1, <3>1
    <3>. QED
      BY <1>1, <2>2, <3>2, EarlierIsOrder
  <2>5. ASSUME k < n PROVE FALSE
    <3>1. \A i \in 1 .. n - 1 : t0[i] = s2[i]
      BY <2>1 DEF FirstDiffer
    <3>2. k \in 1 .. n - 1 /\ \A i \in 1 .. k - 1 : i \in 1 .. n - 1
      BY <1>5, <2>5
    <3>3. k <= Len(t0)
      BY <1>5, <2>2, <2>1, <2>5 DEF FirstDiffer
    <3>4. FirstDiffer(s, t0, k)
      BY <1>3, <3>1, <3>2, <3>3 DEF FirstDiffer
    <3>. QED
      BY <1>1, <2>2, <2>4, <3>4, EarlierIs
  <2>. QED
    BY <1>5, <2>5
<1>8. IsRepeated(Prefix(l, n))
  <2>1. \A i \in 1 .. Len(s2) : s2[i][2] > 1 => IsRepeated(Prefix(TypeOf(s2), i))
    BY <1>1, PresentAddress
  <2>2. IsRepeated(Prefix(TypeOf(s2), n))
    BY <1>5, <1>6, <2>1
  <2>3. IsPrefix(TypeOf(s2), l) /\ TypeOf(s2) \in Seq(Nat) /\ Len(TypeOf(s2)) = Len(s2)
    BY <1>1, TypeOfSteps DEF OnPath
  <2>4. Prefix(l, n) = Prefix(TypeOf(s2), n)
    BY <1>2, <1>5, <2>3, StepsOfNode
  <2>. QED
    BY <2>2, <2>4
<1>9. r = GetMaxRepetitionLevel[Prefix(l, n)]
  BY <1>4
<1>10. r \in Nat /\ r <= GetMaxRepetitionLevel[l] /\ 1 <= r
  <2>1. IsPrefix(l, l)
    BY <1>2, PrefixIs
  <2>2. GetMaxRepetitionLevel[l] \in Nat /\ r \in Nat /\ r <= GetMaxRepetitionLevel[l]
    BY <1>2, <1>6, <1>8, <1>9, <2>1, RepeatedLevels
  <2>3. Root \in Nodes /\ IsPrefix(Root, l) /\ Len(Root) = 0
    BY <1>2, RootAbove DEF Nodes
  <2>4. GetMaxRepetitionLevel[Root] \in Nat
    BY <2>3, LevelsWithinPath
  <2>5. ~ (n <= Len(Root))
    BY <1>6, <2>3
  <2>6. ~ (r <= GetMaxRepetitionLevel[Root])
    BY <1>6, <1>8, <1>9, <2>3, <2>5, RepeatedLevels
  <2>. QED
    BY <2>2, <2>4, <2>6
<1>11. ASSUME NEW level \in Nat
       PROVE  Reach(l, level) \in Nat /\ (n <= Reach(l, level) <=> r <= level)
  BY <1>6, <1>8, <1>9, ReachIs
<1>12. PICK R : R = Reach(l, r)
  OBVIOUS
<1>13. R \in Nat /\ n <= R
  BY <1>10, <1>11, <1>12
<1>14. Earlier(InstanceAt(l, s, r), InstanceAt(l, s2, r))
  <2>1. Earlier(Cut(s, R), Cut(s2, R))
    BY <1>1, <1>3, <1>5, <1>7, <1>13, CutsDiffer
  <2>. QED
    BY <1>12, <2>1 DEF InstanceAt
<1>15. AtStart(m, l, s2, r)
  <2>1. SUFFICES ASSUME NEW t \in Slots(m, l), Cut(t, R) = Cut(s2, R), Earlier(t, s2)
                 PROVE  FALSE
    BY <1>12, SlotsAreOrdered DEF AtStart, InstanceAt
  <2>2. t \in Addresses
    BY <2>1, SlotsAreFinite
  <2>3. PICK q : FirstDiffer(t, s2, q)
    BY <1>1, <2>1, <2>2, EarlierIs
  <2>4. q \in Nat /\ q <= n
    BY <1>4, <2>1, <2>3, DifferWhereRepeated
  <2>5. Earlier(Cut(t, R), Cut(s2, R))
    BY <1>1, <1>5, <1>13, <2>2, <2>3, <2>4, CutsDiffer
  <2>6. Cut(s2, R) \in Addresses
    BY <1>1, <1>13, CutIs
  <2>. QED
    BY <2>1, <2>5, <2>6, EarlierIsOrder
<1>16. ASSUME NEW above \in Nat, above < r
       PROVE  InstanceAt(l, s, above) = InstanceAt(l, s2, above)
  <2>1. PICK A : A = Reach(l, above)
    OBVIOUS
  <2>2. A \in Nat /\ A < n
    <3>1. Reach(l, above) \in Nat /\ (n <= Reach(l, above) <=> r <= above)
      BY <1>11, <1>16
    <3>. QED
      BY <1>5, <1>10, <1>16, <2>1, <3>1
  <2>. FirstDiffer(s, s2, n)
    BY <1>3, <1>7
  <2>3. n <= Len(s) /\ \A i \in 1 .. n - 1 : s[i] = s2[i]
    BY DEF FirstDiffer
  <2>4. /\ Cut(s, A) \in Addresses /\ Len(Cut(s, A)) = A
        /\ \A i \in Nat : 1 <= i /\ i <= A => Cut(s, A)[i] = s[i]
    BY <1>1, <1>5, <2>2, <2>3, CutIs
  <2>5. /\ Cut(s2, A) \in Addresses /\ Len(Cut(s2, A)) = A
        /\ \A i \in Nat : 1 <= i /\ i <= A => Cut(s2, A)[i] = s2[i]
    BY <1>1, <1>5, <2>2, CutIs
  <2>6. \A i \in Nat : 1 <= i /\ i <= A => s[i] = s2[i]
    BY <1>5, <2>2, <2>3
  <2>7. Cut(s, A) = Cut(s2, A)
    BY <2>2, <2>4, <2>5, <2>6, SameAddress
  <2>. QED
    BY <2>1, <2>7 DEF InstanceAt
<1>. QED
  BY <1>10, <1>14, <1>15, <1>16 DEF Follows

\* When the next row repeats at a level up to some level, its slot is in another
\* instance at that level, too.
LEMMA AtEndBelow ==
    ASSUME NEW m, IsMessage(m), NEW l \in Leaves, NEW s \in Slots(m, l), NEW s2 \in Slots(m, l),
           NEW r \in Nat, Follows(m, l, s, s2, r),
           NEW level \in Nat, r <= level, level <= GetMaxRepetitionLevel[l]
    PROVE  AtEnd(m, l, s, level)
<1>1. l \in Nodes /\ l \in Seq(Nat)
  BY LeafPath
<1>2. IsPrefix(l, l)
  BY <1>1, PrefixIs
<1>3. Share(m, l, l, level)
  BY <1>1, <1>2 DEF Share
<1>4. Share(m, l, l, r)
  BY <1>3, ShareIs
<1>5. AtEnd(m, l, s, r)
  BY <1>4, NextInstance
<1>6. \A t \in Slots(m, l) :
         Earlier(InstanceAt(l, s, r), InstanceAt(l, t, r))
             => Earlier(InstanceAt(l, s, level), InstanceAt(l, t, level))
  BY <1>3, InstancesWithin
<1>. QED
  BY <1>5, <1>6 DEF AtEnd

\* Where a record's rows are in a column, and what the row behind them says.
LEMMA RowsOfRecord ==
    ASSUME StripingInvariant, callStack = <<>>, NEW n \in 1 .. size, IsInitialized(stored[n]),
           NEW l \in Leaves, NEW STATE m, m = stored[n]
    PROVE  /\ IsMessage(m) /\ StartOf(l, n) \in Nat
           /\ StartOf(l, n + 1) = StartOf(l, n) + Cardinality(Slots(m, l))
           /\ \A s \in Slots(m, l) : RowAt(l, StartOf(l, n) + Place(m, l, s)) = RowOfSlot(m, l, s)
           /\ RowAt(l, StartOf(l, n + 1)).r = 0
<1>1. /\ size \in Nat /\ columns[l] \in Seq(Row) /\ recordTIDs[l] \in Seq(Nat)
      /\ stored \in Seq(Messages) /\ Len(stored) = size
  BY DEF StripingInvariant, ShreddingInvariant, TypeOK
<1>2. m \in Messages
  BY <1>1, ElementOfSeq
<1>3. IsMessage(m)
  BY <1>2, MessagesAssumption
<1>4. Len(recordTIDs[l]) = size
  BY <1>1 DEF StripingInvariant, ShreddingInvariant, OpenRecord
<1>5. PICK c : c = columns[l]
  OBVIOUS
<1>6. PICK a : a = StartOf(l, n)
  OBVIOUS
<1>7. PICK b : b = StartOf(l, n + 1)
  OBVIOUS
<1>8. n \in Nat /\ 1 <= n /\ n <= size /\ c \in Seq(Row) /\ Len(c) \in Nat
  BY <1>1, <1>5
<1>9. a = recordTIDs[l][n]
  BY <1>6, <1>8 DEF StartOf
<1>10. b = IF n < Len(recordTIDs[l]) THEN recordTIDs[l][n + 1] ELSE Len(c)
  BY <1>1, <1>4, <1>5, <1>7, <1>8 DEF StartOf
<1>11. a \in Nat
  BY <1>1, <1>4, <1>9, ElementOfSeq
<1>12. b \in Nat /\ a < b /\ b <= Len(c)
  <2>1. RecordBoundaries
    BY DEF StripingInvariant, ShreddingInvariant
  <2>2. \A k \in 1 .. size : recordTIDs[l][k] < Len(c)
    BY <1>5, <2>1 DEF RecordBoundaries
  <2>3. \A k \in 1 .. size - 1 : recordTIDs[l][k] < recordTIDs[l][k + 1]
    BY <1>4, <2>1 DEF RecordBoundaries
  <2>4. CASE n < size
    <3>1. n \in 1 .. size - 1 /\ n + 1 \in 1 .. size
      BY <1>1, <1>8, <2>4
    <3>2. recordTIDs[l][n + 1] \in Nat
      BY <1>1, <1>4, <3>1, ElementOfSeq
    <3>. QED
      BY <1>4, <1>8, <1>9, <1>10, <2>2, <2>3, <2>4, <3>1, <3>2
  <2>5. CASE n = size
    BY <1>4, <1>8, <1>9, <1>10, <2>2, <2>5
  <2>. QED
    BY <1>1, <1>8, <2>4, <2>5
<1>13. Striped(m, l) = SubSeq(c, a + 1, b)
  <2>1. Written(l, n) = Striped(m, l)
    BY DEF StripingInvariant, ColumnsFollowDefinition
  <2>2. Written(l, n) = SubSeq(c, a + 1, b)
    BY <1>5, <1>9, <1>10 DEF Written
  <2>. QED
    BY <2>1, <2>2
<1>14. /\ Len(SubSeq(c, a + 1, b)) = b - a
       /\ \A i \in 1 .. b - a : SubSeq(c, a + 1, b)[i] = c[a + i]
  <2>1. /\ Len(SubSeq(c, a + 1, b)) = IF a + 1 <= b THEN b - (a + 1) + 1 ELSE 0
        /\ \A i \in 1 .. b - (a + 1) + 1 : SubSeq(c, a + 1, b)[i] = c[(a + 1) + i - 1]
    BY <1>8, <1>11, <1>12, SubSeqProperties
  <2>2. b - (a + 1) + 1 = b - a /\ a + 1 <= b
    BY <1>11, <1>12
  <2>3. ASSUME NEW i \in 1 .. b - a PROVE c[(a + 1) + i - 1] = c[a + i]
    BY <1>11
  <2>. QED
    BY <2>1, <2>2, <2>3
<1>15. PICK card : card = Cardinality(Slots(m, l))
  OBVIOUS
<1>16. card \in Nat /\ card = b - a
  BY <1>3, <1>13, <1>14, <1>15, StripedIs, SlotsAreFinite
<1>17. ASSUME NEW s \in Slots(m, l) PROVE RowAt(l, a + Place(m, l, s)) = RowOfSlot(m, l, s)
  <2>1. PICK p : p = Place(m, l, s)
    OBVIOUS
  <2>2. p \in Nat /\ p < card /\ Striped(m, l)[p + 1] = RowOfSlot(m, l, s)
    BY <1>3, <1>15, <2>1, PlacesAreOrdered, StripedIs
  <2>3. p + 1 \in 1 .. b - a
    BY <1>11, <1>12, <1>16, <2>2
  <2>4. c[a + (p + 1)] = RowOfSlot(m, l, s)
    BY <1>13, <1>14, <2>2, <2>3
  <2>5. a + p < Len(c) /\ a + (p + 1) = (a + p) + 1
    BY <1>8, <1>11, <1>12, <1>16, <2>2
  <2>. QED
    BY <1>5, <2>1, <2>4, <2>5 DEF RowAt
<1>18. RowAt(l, b).r = 0
  <2>1. CASE b = Len(c)
    BY <1>5, <1>8, <2>1 DEF RowAt
  <2>2. CASE b < Len(c)
    <3>1. n + 1 \in 1 .. Len(recordTIDs[l]) /\ recordTIDs[l][n + 1] = b
      BY <1>1, <1>4, <1>8, <1>10, <2>2
    <3>2. b + 1 \in 1 .. Len(c) /\ recordTIDs[l][n + 1] = (b + 1) - 1
      BY <1>8, <1>12, <2>2, <3>1
    <3>3. c[b + 1].r = 0
      BY <1>5, <3>1, <3>2 DEF StripingInvariant, ShreddingInvariant, RecordBoundaries
    <3>. QED
      BY <1>5, <2>2, <3>3 DEF RowAt
  <2>. QED
    BY <1>8, <1>12, <2>1, <2>2
<1>. QED
  BY <1>3, <1>6, <1>7, <1>11, <1>12, <1>15, <1>16, <1>17, <1>18

\* How many slots have been read when a slot is read: one more of its own column.
LEMMA ReadCount ==
    ASSUME NEW m, IsMessage(m), NEW F \in Projections,
           NEW i \in 1 .. Len(F), NEW j \in 1 .. Len(F),
           NEW f, f = F[i], NEW g, g = F[j], NEW s \in Slots(m, f)
    PROVE  /\ Cardinality(ReadBefore(m, F, j, i, s)) \in Nat
           /\ Cardinality(AfterReading(m, F, j, i, s)) =
                  Cardinality(ReadBefore(m, F, j, i, s)) + IF i = j THEN 1 ELSE 0
           /\ i = j => Cardinality(ReadBefore(m, F, j, i, s)) = Place(m, f, s)
<1>1. f \in Leaves /\ g \in Leaves
  BY ReadTogether
<1>2. PICK B : B = ReadBefore(m, F, j, i, s)
  OBVIOUS
<1>3. PICK A : A = AfterReading(m, F, j, i, s)
  OBVIOUS
<1>4. B \subseteq Slots(m, g) /\ IsFiniteSet(Slots(m, g))
  BY <1>1, <1>2, AfterReadingIs, SlotsAreFinite
<1>5. IsFiniteSet(B) /\ Cardinality(B) \in Nat
  BY <1>4, FS_Subset, FS_CardinalityType
<1>6. CASE i # j
  BY <1>2, <1>3, <1>5, <1>6, AfterReadingIs
<1>7. CASE i = j
  <2>1. f = g /\ s \in Addresses
    BY <1>1, <1>7, SlotsAreFinite
  <2>2. ASSUME NEW a \in Slots(m, f) PROVE a \in B <=> Earlier(a, s)
    <3>1. i \in Nat /\ j \in Nat /\ ~ (j < i)
      BY <1>7
    <3>. QED
      BY <1>2, <1>7, <2>1, <3>1, ReadBeforeIs
  <2>3. B = SlotsBefore(m, f, s)
    BY <1>4, <2>1, <2>2 DEF SlotsBefore
  <2>4. s \notin B
    BY <2>1, <2>2, EarlierIsOrder
  <2>5. A = B \cup {s}
    BY <1>2, <1>3, <1>7, AfterReadingIs
  <2>6. Cardinality(B \cup {s}) = Cardinality(B) + 1
    BY <1>5, <2>4, FS_AddElement
  <2>. QED
    BY <1>2, <1>3, <1>5, <1>7, <2>3, <2>5, <2>6 DEF Place
<1>. QED
  BY <1>6, <1>7

\* Reading the row of a slot, the automaton leads by the repetition level of the next
\* row to a column that is just where the record has to be read on, or to the end.
LEMMA NextColumn ==
    ASSUME StripingInvariant, callStack = <<>>, NEW n \in 1 .. size, IsInitialized(stored[n]),
           NEW STATE m, m = stored[n], NEW F \in Projections, Linked(F),
           NEW i \in 1 .. Len(F), NEW f, f = F[i], NEW s \in Slots(m, f),
           NEW STATE r, r = RowAt(f, StartOf(f, n) + Place(m, f, s) + 1).r
    PROVE  /\ r \in Nat /\ r <= GetMaxRepetitionLevel[f]
           /\ \/ /\ Transition(F, i, r) = Root
                 /\ \A j \in 1 .. Len(F) : AfterReading(m, F, j, i, s) = Slots(m, F[j])
              \/ ReadsOn(m, F, i, s, Transition(F, i, r))
<1>1. f \in Leaves /\ i \in Nat /\ Len(F) \in Nat /\ i <= Len(F)
  BY ReadTogether, ProjectionsAssumption, LenProperties, RowsOfRecord
<1>2. /\ IsMessage(m) /\ StartOf(f, n) \in Nat
      /\ StartOf(f, n + 1) = StartOf(f, n) + Cardinality(Slots(m, f))
      /\ \A t \in Slots(m, f) : RowAt(f, StartOf(f, n) + Place(m, f, t)) = RowOfSlot(m, f, t)
      /\ RowAt(f, StartOf(f, n + 1)).r = 0
  BY <1>1, RowsOfRecord
<1>3. BarrierLevel(F, i) \in Nat /\ (i = Len(F) => BarrierLevel(F, i) = 0)
  BY BarrierLevelIs
<1>4. GetMaxRepetitionLevel[f] \in Nat /\ (i < Len(F) => BarrierLevel(F, i) <= GetMaxRepetitionLevel[f])
  <2>1. f \in Nodes
    BY <1>1, LeafPath
  <2>2. GetMaxRepetitionLevel[f] \in Nat
    BY <2>1, LevelsAreBounded
  <2>3. ASSUME i < Len(F) PROVE BarrierLevel(F, i) <= GetMaxRepetitionLevel[f]
    <3>1. PICK k : k = i + 1
      OBVIOUS
    <3>2. k \in 1 .. Len(F)
      BY <1>1, <2>3, <3>1
    <3>3. SharedLevel(F, i, k) <= GetMaxRepetitionLevel[f]
      BY <1>2, <3>2, ReadTogether
    <3>. QED
      BY <2>3, <3>1, <3>3, BarrierLevelIs
  <2>. QED
    BY <2>2, <2>3
<1>5. PICK p : p = Place(m, f, s)
  OBVIOUS
<1>6. p \in Nat /\ s \in Addresses
  BY <1>1, <1>2, <1>5, PlacesAreOrdered, SlotsAreFinite
<1>7. r = RowAt(f, StartOf(f, n) + p + 1).r
  BY <1>5
<1>8. ASSUME i < Len(F), r \in Nat, r <= BarrierLevel(F, i), AtEnd(m, f, s, BarrierLevel(F, i))
      PROVE  ReadsOn(m, F, i, s, Transition(F, i, r))
  <2>1. PICK M : M = m
    OBVIOUS
  <2>2. IsMessage(M) /\ s \in Slots(M, f) /\ AtEnd(M, f, s, BarrierLevel(F, i))
    BY <1>2, <1>8, <2>1
  <2>3. ReadsOn(M, F, i, s, Barrier(F, i))
    BY <1>8, <2>2, ForwardReads
  <2>4. Transition(F, i, r) = Barrier(F, i)
    BY <1>8 DEF Transition
  <2>. QED
    BY <2>1, <2>3, <2>4
<1>9. CASE \A t \in Slots(m, f) : t = s \/ Earlier(t, s)
  <2>1. p + 1 = Cardinality(Slots(m, f))
    BY <1>1, <1>2, <1>5, <1>9, LastPlace
  <2>2. StartOf(f, n) + p + 1 = StartOf(f, n + 1)
    BY <1>2, <1>6, <2>1
  <2>3. r = 0 /\ r <= BarrierLevel(F, i) /\ r \in Nat
    BY <1>2, <1>3, <1>7, <2>2
  <2>4. CASE i = Len(F)
    <3>1. Transition(F, i, r) = Root
      BY <2>3, <2>4 DEF Transition, Barrier
    <3>2. \A j \in 1 .. Len(F) : AfterReading(m, F, j, i, s) = Slots(m, F[j])
      BY <1>2, <1>9, <2>4, EndReads
    <3>. QED
      BY <1>4, <2>3, <3>1, <3>2
  <2>5. CASE i < Len(F)
    <3>1. AtEnd(m, f, s, BarrierLevel(F, i))
      <4>1. SUFFICES ASSUME NEW t \in Slots(m, f), Earlier(s, t) PROVE FALSE
        BY DEF AtEnd
      <4>2. t \in Addresses
        BY <1>1, <1>2, <4>1, SlotsAreFinite
      <4>. QED
        BY <1>6, <1>9, <4>1, <4>2, EarlierIsOrder
    <3>. QED
      BY <1>4, <1>8, <2>3, <2>5, <3>1
  <2>. QED
    BY <1>1, <2>4, <2>5
<1>10. CASE ~ \A t \in Slots(m, f) : t = s \/ Earlier(t, s)
  <2>1. PICK s2 \in Slots(m, f) :
               /\ Earlier(s, s2)
               /\ Place(m, f, s2) = Place(m, f, s) + 1
               /\ \A t \in Slots(m, f) : t = s \/ Earlier(t, s) \/ t = s2 \/ Earlier(s2, t)
    BY <1>1, <1>2, <1>10, SlotRightBehind
  <2>2. RowAt(f, StartOf(f, n) + Place(m, f, s2)) = RowOfSlot(m, f, s2)
    BY <1>2
  <2>3. StartOf(f, n) + Place(m, f, s2) = StartOf(f, n) + p + 1
    BY <1>2, <1>5, <1>6, <2>1
  <2>4. r = GetMaxRepetitionLevel[Prefix(f, LastRepeat(s2))]
    BY <1>7, <2>2, <2>3 DEF RowOfSlot
  <2>5. PICK q : q = r
    OBVIOUS
  <2>6. q \in Nat /\ 1 <= q /\ q <= GetMaxRepetitionLevel[f] /\ Follows(m, f, s, s2, q)
    <3>1. q = GetMaxRepetitionLevel[Prefix(f, LastRepeat(s2))]
      BY <2>4, <2>5
    <3>. QED
      BY <1>1, <1>2, <2>1, <3>1, SlotFollows
  <2>7. CASE q <= BarrierLevel(F, i)
    <3>1. i < Len(F)
      BY <1>1, <1>3, <2>6, <2>7
    <3>2. AtEnd(m, f, s, BarrierLevel(F, i))
      BY <1>1, <1>2, <1>3, <1>4, <2>6, <2>7, <3>1, AtEndBelow
    <3>. QED
      BY <1>8, <2>5, <2>6, <2>7, <3>1, <3>2
  <2>8. CASE ~ (q <= BarrierLevel(F, i))
    <3>1. BarrierLevel(F, i) < q
      BY <1>3, <2>6, <2>8
    <3>2. ReadsOn(m, F, i, s, Transition(F, i, q))
      BY <1>2, <2>6, <3>1, BackReads
    <3>. QED
      BY <2>5, <2>6, <3>2
  <2>. QED
    BY <2>7, <2>8
<1>. QED
  BY <1>9, <1>10

\* The table of the automaton has the transitions of the construction.
LEMMA NextFieldIs ==
    ASSUME NEW F \in Projections, NEW i \in 1 .. Len(F), NEW f, f = F[i],
           NEW level \in Nat, level <= GetMaxRepetitionLevel[f]
    PROVE  NextField(F, f, level) = Transition(F, i, level)
<1>. DEFINE I == {j \in 1 .. Len(F) : F[j] = f}
<1>1. F \in Seq(Leaves) /\ Len(F) \in Nat
  BY ProjectionsAssumption, LenProperties
<1>2. f \in Nodes
  BY <1>1, ElementOfSeq, LeafPath
<1>3. level \in 0 .. MaxLevel
  BY <1>2, LevelsAreBounded
<1>4. I = {i}
  BY ProjectionsAssumption
<1>5. SelectInSeq(F, LAMBDA g : g = f) = Min(I)
  BY <1>4 DEF SelectInSeq
<1>6. Min(I) = i
  <2>1. I \subseteq Nat /\ I # {}
    BY <1>1, <1>4
  <2>2. Min(I) \in I
    BY <2>1, MinIsLeast
  <2>. QED
    BY <1>4, <2>2
<1>7. FSM[F] = [il \in (1 .. Len(F)) \X (0 .. MaxLevel) |-> Transition(F, il[1], il[2])]
  BY DEF FSM
<1>8. <<i, level>> \in (1 .. Len(F)) \X (0 .. MaxLevel)
  BY <1>3
<1>9. FSM[F][<<i, level>>] = Transition(F, i, level)
  BY <1>7, <1>8
<1>. QED
  BY <1>5, <1>6, <1>9 DEF NextField

-----------------------------------------------------------------------------
(* The readers in step. *)

\* The record that is being read is one that has been inserted.
LEMMA TurnIs ==
    ASSUME TableInvariant, MoreRecords
    PROVE  Turn \in 1 .. size /\ Turn \in Nat /\ size \in Nat
<1>1. /\ size \in Nat /\ range[1] \in 0 .. size /\ range[2] \in range[1] .. size
      /\ records \in Seq(ToSet(records))
  BY DEF TableInvariant, ReadingInvariant, TableTypeOK, TypeOK, RecordShape
<1>2. Len(records) \in Nat
  BY <1>1, LenProperties
<1>3. Len(records) < range[2] - range[1]
  BY DEF MoreRecords
<1>4. range[1] \in Nat /\ range[2] \in Nat /\ range[2] <= size
  BY <1>1
<1>5. range[1] + Len(records) + 1 \in 1 .. size
  BY <1>1, <1>2, <1>3, <1>4
<1>. QED
  BY <1>1, <1>5 DEF Turn

\* AssembleNextRecord starts at the first slot of the first column.
LEMMA StartRecordInStep ==
    ASSUME TableInvariant, StripingInvariant, ReadersInStep,
           StartRecord, UNCHANGED shredVars
    PROVE  ReadersInStep'
<1>1. /\ MoreRecords /\ current = Root /\ current' = Head(fields)
      /\ UNCHANGED <<fields, range, readers, lastRead, msgStack, record, records, ok>>
      /\ UNCHANGED <<columns, recordTIDs, size, callStack, message, stored>>
  BY DEF StartRecord, shredVars
<1>2. ~ Idle /\ ok /\ callStack = <<>> /\ fields \in Projections
  BY <1>1 DEF MoreRecords, TableInvariant, OneCall, ReadingInvariant, TableTypeOK
<1>3. SUFFICES ASSUME Linked(fields), \A n \in 1 .. size : IsInitialized(stored[n])
               PROVE  \E i \in 1 .. Len(fields), s \in Slots(stored[Turn], Head(fields)) :
                         /\ fields[i] = Head(fields)
                         /\ \A j \in 1 .. Len(fields) :
                               readers[fields[j]] = StartOf(fields[j], Turn)
                                   + Cardinality(ReadBefore(stored[Turn], fields, j, i, s))
  <2>1. Head(fields) # Root
    <3>1. fields \in Seq(Leaves) /\ fields # <<>>
      BY <1>2, ProjectionsAssumption
    <3>2. Head(fields) \in Leaves
      BY <3>1, HeadTailProperties
    <3>. QED
      BY <3>2, LeafIsBelow DEF Root
  <2>. QED
    BY <1>1, <1>2, <2>1 DEF ReadersInStep, Idle, StartOf, Turn
<1>4. \A f \in ToSet(fields) : readers[f] = StartOf(f, Turn)
  BY <1>1, <1>2, <1>3 DEF ReadersInStep
<1>5. PICK F : F = fields
  OBVIOUS
<1>6. PICK n : n = Turn
  OBVIOUS
<1>7. PICK m : m = stored[n]
  OBVIOUS
<1>8. F \in Projections /\ n \in 1 .. size /\ IsInitialized(stored[n])
  BY <1>1, <1>2, <1>3, <1>5, <1>6, TurnIs
<1>9. F \in Seq(Leaves) /\ F # <<>> /\ Len(F) \in Nat /\ Len(F) # 0 /\ DOMAIN F = 1 .. Len(F)
  BY <1>8, ProjectionsAssumption, LenProperties, EmptySeq
<1>10. 1 \in 1 .. Len(F) /\ Head(F) = F[1]
  BY <1>9, HeadTailProperties
<1>11. PICK f : f = F[1]
  OBVIOUS
<1>12. f \in Leaves
  BY <1>9, <1>10, <1>11, ElementOfSeq
<1>13. IsMessage(m)
  BY <1>2, <1>7, <1>8, <1>12, RowsOfRecord
<1>14. PICK u \in Slots(m, f) : \A t \in Slots(m, f) : t = u \/ Earlier(u, t)
  BY <1>12, <1>13, FirstSlotExists
<1>15. \A j \in 1 .. Len(F) : ReadBefore(m, F, j, 1, u) = {}
  BY <1>8, <1>10, <1>11, <1>13, <1>14, StartReads
<1>16. ASSUME NEW j \in 1 .. Len(F)
       PROVE  readers[F[j]] = StartOf(F[j], n) + Cardinality(ReadBefore(m, F, j, 1, u))
  <2>1. PICK g : g = F[j]
    OBVIOUS
  <2>2. g \in Leaves /\ g \in ToSet(F)
    BY <1>9, <1>16, <2>1, ElementOfSeq DEF ToSet
  <2>3. StartOf(g, n) \in Nat
    BY <1>2, <1>7, <1>8, <2>2, RowsOfRecord
  <2>4. readers[g] = StartOf(g, n)
    BY <1>4, <1>5, <1>6, <2>2
  <2>5. Cardinality(ReadBefore(m, F, j, 1, u)) = 0
    BY <1>15, <1>16, FS_EmptySet
  <2>. QED
    BY <2>1, <2>3, <2>4, <2>5
<1>. QED
  BY <1>5, <1>6, <1>7, <1>10, <1>11, <1>14, <1>16

\* One iteration of AssembleNextRecord.
LEMMA ReadFieldInStep ==
    ASSUME TableInvariant, StripingInvariant, ReadersInStep,
           ReadField, UNCHANGED shredVars, AssertionsHold'
    PROVE  ReadersInStep'
<1>. DEFINE tid == readers[current]
            next == NextField(fields, current, RowAt(current, tid + 1).r)
<1>1. MoreRecords /\ current # Root
  BY DEF ReadField
<1>2. /\ UNCHANGED <<fields, range>>
      /\ readers' = [readers EXCEPT ![current] = @ + 1] /\ current' = next
      /\ next = Root => \E filled : records' = Append(records, filled)
      /\ next # Root => records' = records
  BY DEF ReadField, AssertionsHold
<1>3. UNCHANGED <<columns, recordTIDs, size, callStack, message, stored>>
  BY DEF shredVars
<1>4. /\ ~ Idle /\ ok /\ callStack = <<>> /\ fields \in Projections
      /\ readers \in [ToSet(fields) -> Nat] /\ records \in Seq(ToSet(records))
      /\ range[1] \in Nat
  <2>1. ~ Idle /\ ok
    BY <1>1 DEF MoreRecords
  <2>2. size \in Nat /\ range[1] \in 0 .. size
    BY DEF TableInvariant, ReadingInvariant, TableTypeOK, TypeOK
  <2>. QED
    BY <2>1, <2>2 DEF TableInvariant, OneCall, ReadingInvariant, TableTypeOK, RecordShape
<1>5. Turn' = IF next = Root THEN Turn + 1 ELSE Turn
  <2>1. \A x : Len(Append(records, x)) = Len(records) + 1 /\ Len(records) \in Nat
    BY <1>4, AppendedElement
  <2>. QED
    BY <1>2, <1>4, <2>1 DEF Turn
<1>. HIDE DEF next
<1>6. SUFFICES ASSUME Linked(fields), \A x \in 1 .. size : IsInitialized(stored[x])
               PROVE  IF next = Root
                      THEN \A f \in ToSet(fields) : readers'[f] = StartOf(f, Turn + 1)
                      ELSE \E i \in 1 .. Len(fields), s \in Slots(stored[Turn], next) :
                              /\ fields[i] = next
                              /\ \A j \in 1 .. Len(fields) :
                                    readers'[fields[j]] = StartOf(fields[j], Turn)
                                        + Cardinality(ReadBefore(stored[Turn], fields, j, i, s))
  BY <1>2, <1>3, <1>5 DEF ReadersInStep, StartOf
<1>7. PICK F : F = fields
  OBVIOUS
<1>8. PICK n : n = Turn
  OBVIOUS
<1>9. PICK m : m = stored[n]
  OBVIOUS
<1>10. PICK f : f = current
  OBVIOUS
<1>11. /\ F \in Projections /\ Linked(F) /\ n \in 1 .. size /\ n \in Nat /\ IsInitialized(stored[n])
       /\ readers \in [ToSet(F) -> Nat]
  BY <1>1, <1>4, <1>6, <1>7, <1>8, TurnIs
<1>12. PICK i \in 1 .. Len(F), s \in Slots(m, f) :
               /\ F[i] = f
               /\ \A j \in 1 .. Len(F) :
                     readers[F[j]] = StartOf(F[j], n) + Cardinality(ReadBefore(m, F, j, i, s))
  BY <1>1, <1>4, <1>6, <1>7, <1>8, <1>9, <1>10 DEF ReadersInStep
<1>13. F \in Seq(Leaves) /\ Len(F) \in Nat /\ DOMAIN F = 1 .. Len(F)
  BY <1>11, ProjectionsAssumption, LenProperties
<1>14. f \in Leaves /\ f \in ToSet(F)
  BY <1>12, <1>13, ElementOfSeq DEF ToSet
<1>15. IsMessage(m)
  BY <1>4, <1>9, <1>11, <1>14, RowsOfRecord
<1>16. readers[f] = StartOf(f, n) + Place(m, f, s)
  <2>1. Cardinality(ReadBefore(m, F, i, i, s)) = Place(m, f, s)
    BY <1>11, <1>12, <1>15, ReadCount
  <2>. QED
    BY <1>12, <2>1
<1>17. PICK r : r = RowAt(f, StartOf(f, n) + Place(m, f, s) + 1).r
  OBVIOUS
<1>18. /\ r \in Nat /\ r <= GetMaxRepetitionLevel[f]
       /\ \/ /\ Transition(F, i, r) = Root
             /\ \A j \in 1 .. Len(F) : AfterReading(m, F, j, i, s) = Slots(m, F[j])
          \/ ReadsOn(m, F, i, s, Transition(F, i, r))
  BY <1>4, <1>9, <1>11, <1>12, <1>17, NextColumn
<1>19. next = Transition(F, i, r)
  <2>1. NextField(F, f, r) = Transition(F, i, r)
    BY <1>11, <1>12, <1>18, NextFieldIs
  <2>. QED
    BY <1>7, <1>10, <1>16, <1>17, <2>1 DEF next
<1>20. ASSUME NEW j \in 1 .. Len(F)
       PROVE  /\ F[j] \in Leaves /\ StartOf(F[j], n) \in Nat
              /\ readers'[F[j]] = StartOf(F[j], n) + Cardinality(AfterReading(m, F, j, i, s))
  <2>1. PICK g : g = F[j]
    OBVIOUS
  <2>2. g \in Leaves /\ g \in ToSet(F)
    BY <1>13, <2>1, ElementOfSeq DEF ToSet
  <2>3. StartOf(g, n) \in Nat
    BY <1>4, <1>9, <1>11, <2>2, RowsOfRecord
  <2>4. PICK c : c = Cardinality(ReadBefore(m, F, j, i, s))
    OBVIOUS
  <2>5. /\ c \in Nat
        /\ Cardinality(AfterReading(m, F, j, i, s)) = c + IF i = j THEN 1 ELSE 0
    BY <1>11, <1>12, <1>15, <2>1, <2>4, ReadCount
  <2>6. readers[g] = StartOf(g, n) + c
    BY <1>12, <2>1, <2>4
  <2>7. i = j <=> g = f
    BY <1>11, <1>12, <2>1, ProjectionsAssumption
  <2>8. readers'[g] = readers[g] + IF g = f THEN 1 ELSE 0
    BY <1>2, <1>10, <1>11, <2>2
  <2>. QED
    BY <2>1, <2>2, <2>3, <2>5, <2>6, <2>7, <2>8
<1>21. CASE /\ Transition(F, i, r) = Root
            /\ \A j \in 1 .. Len(F) : AfterReading(m, F, j, i, s) = Slots(m, F[j])
  <2>1. ASSUME NEW g \in ToSet(F) PROVE readers'[g] = StartOf(g, n + 1)
    <3>1. PICK j \in 1 .. Len(F) : g = F[j]
      BY <1>13, <2>1 DEF ToSet
    <3>2. g \in Leaves /\ readers'[g] = StartOf(g, n) + Cardinality(Slots(m, g))
      BY <1>20, <1>21, <3>1
    <3>3. StartOf(g, n + 1) = StartOf(g, n) + Cardinality(Slots(m, g))
      BY <1>4, <1>9, <1>11, <3>2, RowsOfRecord
    <3>. QED
      BY <3>2, <3>3
  <2>. QED
    BY <1>7, <1>8, <1>19, <1>21, <2>1
<1>22. CASE ReadsOn(m, F, i, s, Transition(F, i, r))
  <2>1. PICK k \in 1 .. Len(F) :
               /\ F[k] = next
               /\ \E u \in Slots(m, next) :
                     \A j \in 1 .. Len(F) : AfterReading(m, F, j, i, s) = ReadBefore(m, F, j, k, u)
    BY <1>19, <1>22 DEF ReadsOn
  <2>2. PICK u \in Slots(m, next) :
               \A j \in 1 .. Len(F) : AfterReading(m, F, j, i, s) = ReadBefore(m, F, j, k, u)
    BY <2>1
  <2>3. next # Root
    <3>1. PICK g : g = F[k]
      OBVIOUS
    <3>2. g \in Leaves
      BY <1>20, <3>1
    <3>3. g # Root
      BY <3>2, LeafIsBelow DEF Root
    <3>. QED
      BY <2>1, <3>1, <3>3
  <2>4. \A j \in 1 .. Len(F) :
            readers'[F[j]] = StartOf(F[j], n) + Cardinality(ReadBefore(m, F, j, k, u))
    BY <1>20, <2>2
  <2>. QED
    BY <1>7, <1>8, <1>9, <2>1, <2>2, <2>3, <2>4
<1>. QED
  BY <1>18, <1>21, <1>22

\* get_range() starts its readers where the first record starts.
LEMMA ReadRangeInStep ==
    ASSUME TableInvariant, ~ EmptyRangeAtEnd,
           NEW from \in 0 .. size, NEW to \in 0 .. size, NEW F \in Projections,
           ReadRange(from, to, F)
    PROVE  ReadersInStep'
<1>1. /\ Idle /\ from < size /\ fields' = F /\ range' = <<from, to>>
      /\ readers' = [f \in ToSet(F) |-> StartIndex(f, from)]
      /\ UNCHANGED <<current, records>> /\ UNCHANGED <<columns, recordTIDs, size>>
  BY DEF ReadRange, GetRange, shredVars
<1>2. current = Root /\ records = <<>>
  BY <1>1 DEF TableInvariant, ReadingInvariant, RecordPending, MoreRecords
<1>3. size \in Nat
  BY DEF TableInvariant, ReadingInvariant, TableTypeOK, TypeOK
<1>4. Turn' = from + 1 /\ from + 1 <= size
  <2>1. Len(records) = 0
    BY <1>2, EmptySeq
  <2>. QED
    BY <1>1, <1>3, <2>1 DEF Turn
<1>5. \A f \in ToSet(F) : readers'[f] = recordTIDs[f][from + 1]
  BY <1>1 DEF StartIndex
<1>. QED
  BY <1>1, <1>2, <1>4, <1>5 DEF ReadersInStep, StartOf

\* The readers stay in step at every step of the table.
LEMMA StepKeepsReadersInStep ==
    ASSUME ~ EmptyRangeAtEnd, TableInvariant, StripingInvariant, ReadersInStep,
           [TableNext]_tableVars
    PROVE  ReadersInStep'
<1>1. CASE UNCHANGED tableVars
  <2>1. UNCHANGED <<columns, recordTIDs, size, callStack, message, stored, fields, range,
                    readers, current, lastRead, msgStack, record, records, ok>>
    BY <1>1 DEF tableVars, shredVars, readVars
  <2>. QED
    BY <2>1 DEF ReadersInStep, Idle, StartOf, Turn
<1>2. CASE \E m \in Messages : InsertRecord(m)
  <2>1. Idle /\ fields' = fields
    BY <1>2 DEF InsertRecord, readVars
  <2>. QED
    BY <2>1 DEF ReadersInStep, Idle
<1>3. CASE ShredStep /\ UNCHANGED readVars
  <2>1. callStack # <<>> /\ fields' = fields
    BY <1>3 DEF ShredStep, WriteNull, WriteValue, Descend, Return, Working, readVars
  <2>2. Idle
    BY <2>1 DEF TableInvariant, OneCall
  <2>. QED
    BY <2>1, <2>2 DEF ReadersInStep, Idle
<1>4. CASE \E from, to \in 0 .. size, F \in Projections : ReadRange(from, to, F)
  BY <1>4, ReadRangeInStep
<1>5. CASE StartRecord /\ UNCHANGED shredVars
  BY <1>5, StartRecordInStep
<1>6. CASE ReadField /\ UNCHANGED shredVars
  <2>1. AssertionsHold'
    BY <1>6, ReadFieldKeepsReading DEF ReadingInvariant
  <2>. QED
    BY <1>6, <2>1, ReadFieldInStep
<1>7. CASE ReturnRecords /\ UNCHANGED shredVars
  <2>1. Idle'
    BY <1>7 DEF ReturnRecords, Idle
  <2>. QED
    BY <2>1 DEF ReadersInStep
<1>. QED
  BY <1>1, <1>2, <1>3, <1>4, <1>5, <1>6, <1>7 DEF TableNext, TableStep, ReadStep

\* The readers of all columns move in step, for every schema, every record with its
\* required fields and every projection that the automaton links, in whatever order it
\* lists its columns: each time a field is read, every reader stands behind exactly the
\* rows that come before it in the record.
THEOREM ReadersStayInStep ==
    ASSUME ~ EmptyRangeAtEnd
    PROVE  TableSpec => []ReadersInStep
<1>. DEFINE Inv == TableInvariant /\ StripingInvariant /\ ReadersInStep
<1>1. InitTable => Inv
  <2>1. SUFFICES ASSUME InitTable PROVE Inv
    OBVIOUS
  <2>2. Idle
    BY <2>1 DEF InitTable, InitAssembling, Idle
  <2>3. StripingInvariant
    BY <2>1, InitEstablishesStriping DEF InitTable
  <2>. QED
    BY <2>1, <2>2, <2>3, InitTableInvariant DEF ReadersInStep
<1>2. Inv /\ [TableNext]_tableVars => Inv'
  BY TableStepKeepsInvariant, StepKeepsStriping, TableStepsShred, StepKeepsReadersInStep
<1>3. Inv => ReadersInStep
  OBVIOUS
<1>. QED
  BY <1>1, <1>2, <1>3, PTL DEF TableSpec
=============================================================================
