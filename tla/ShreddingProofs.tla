-------------------------- MODULE ShreddingProofs --------------------------
(***************************************************************************)
(* Proofs about Shredding, for every schema, every set of records and      *)
(* every width of the unsigned levels.                                     *)
(***************************************************************************)
EXTENDS Shredding, TLAPS, SequenceTheorems, FiniteSetTheorems

-----------------------------------------------------------------------------
(* Facts about the schema. *)

\* Paths of the schema are sequences of numbers, and the fields are what the types
\* declare.
LEMMA PathsAreSequences ==
    /\ Types \subseteq Seq(Nat)
    /\ Fields \subseteq Seq(Nat)
    /\ Leaves \subseteq Fields
    /\ Groups \subseteq Fields
    /\ \A t \in Types : Arity[t] \in Nat
    /\ \A f \in Fields : \E t \in Types : \E i \in 1 .. Arity[t] : f = Append(t, i)
    /\ \A t \in Types : \A i \in 1 .. Arity[t] : Append(t, i) \in Fields
<1>1. Types \subseteq Seq(Nat)
  <2>1. Seq(Nat \ {0}) \subseteq Seq(Nat)
    BY SeqMonotonic
  <2>2. Root \in Seq(Nat)
    BY EmptySeq DEF Root
  <2>. QED
    BY <2>1, <2>2, SchemaAssumption DEF Types
<1>2. \A t \in Types : Arity[t] \in Nat
  BY SchemaAssumption
<1>3. \A f \in Fields : \E t \in Types : \E i \in 1 .. Arity[t] : f = Append(t, i)
  BY DEF Fields
<1>4. \A t \in Types : \A i \in 1 .. Arity[t] : Append(t, i) \in Fields
  BY DEF Fields
<1>5. Fields \subseteq Seq(Nat)
  <2>. SUFFICES ASSUME NEW f \in Fields PROVE f \in Seq(Nat)
    OBVIOUS
  <2>1. PICK t \in Types : \E i \in 1 .. Arity[t] : f = Append(t, i)
    BY <1>3
  <2>2. PICK i \in 1 .. Arity[t] : f = Append(t, i)
    BY <2>1
  <2>3. i \in Nat /\ t \in Seq(Nat)
    BY <1>1, <1>2
  <2>. QED
    BY <2>2, <2>3, AppendProperties
<1>. QED
  BY <1>1, <1>2, <1>3, <1>4, <1>5, SchemaAssumption DEF Leaves

\* IsPrefix, element by element.
LEMMA PrefixElements ==
    ASSUME NEW w \in Seq(Nat), NEW l \in Seq(Nat)
    PROVE  IsPrefix(w, l) <=> Len(w) <= Len(l) /\ \A i \in 1 .. Len(w) : w[i] = l[i]
<1>. DEFINE u == SubSeq(w, 1, Len(w))
            v == SubSeq(l, 1, Len(w))
<1>0. Len(w) \in Nat /\ Len(l) \in Nat
  BY LenProperties
<1>1. ASSUME Len(w) <= Len(l)
      PROVE  u = v <=> \A i \in 1 .. Len(w) : w[i] = l[i]
  <2>1. \A i \in 1 .. Len(w) : w[i] \in Nat /\ l[i] \in Nat
    BY <1>0, <1>1, ElementOfSeq
  <2>2. /\ u \in Seq(Nat) /\ v \in Seq(Nat)
        /\ Len(u) = Len(w) /\ Len(v) = Len(w)
        /\ \A i \in 1 .. Len(w) : u[i] = w[i] /\ v[i] = l[i]
    BY <1>0, <2>1, SubSeqProperties, Z3
  <2>. HIDE DEF u, v
  <2>3. (\A i \in 1 .. Len(w) : w[i] = l[i]) => u = v
    BY <2>2, SeqEqual
  <2>. QED
    BY <2>2, <2>3
<1>. QED
  BY <1>1 DEF IsPrefix

\* A leaf below a group continues with one of the fields of the group.
LEMMA LeafBelow ==
    ASSUME NEW w \in Types, NEW l \in Leaves, IsPrefix(w, l)
    PROVE  Len(w) < Len(l) /\ l[Len(w) + 1] \in 1 .. Arity[w]
<1>1. w \in Seq(Nat) /\ l \in Seq(Nat) /\ l \in Fields /\ l \notin Groups
  BY PathsAreSequences DEF Leaves
<1>2. Len(w) \in Nat /\ Len(l) \in Nat
  BY <1>1, LenProperties
<1>3. Len(w) <= Len(l) /\ \A i \in 1 .. Len(w) : w[i] = l[i]
  BY <1>1, PrefixElements
<1>4. ASSUME NEW t \in Types, NEW i \in 1 .. Arity[t], NEW f \in Seq(Nat), f = Append(t, i),
             Len(f) = Len(w) + 1, \A j \in 1 .. Len(w) : w[j] = f[j]
      PROVE  t = w /\ f[Len(w) + 1] = i
  <2>1. t \in Seq(Nat) /\ i \in Nat /\ Len(t) \in Nat
    BY PathsAreSequences, LenProperties
  <2>2. /\ Len(f) = Len(t) + 1
        /\ f[Len(t) + 1] = i
        /\ \A j \in 1 .. Len(t) : f[j] = t[j]
    BY <1>4, <2>1, AppendProperties
  <2>3. Len(t) = Len(w) /\ \A j \in 1 .. Len(t) : t[j] = w[j]
    BY <1>2, <1>4, <2>1, <2>2
  <2>4. t = w
    BY <1>1, <2>1, <2>3, SeqEqual
  <2>. QED
    BY <2>2, <2>4
<1>5. PICK t \in Types : \E i \in 1 .. Arity[t] : l = Append(t, i)
  BY <1>1, PathsAreSequences
<1>6. PICK i \in 1 .. Arity[t] : l = Append(t, i)
  BY <1>5
<1>7. t \in Seq(Nat) /\ i \in Nat /\ Len(t) \in Nat
  BY PathsAreSequences, LenProperties
<1>8. /\ Len(l) = Len(t) + 1
      /\ \A j \in 1 .. Len(t) : l[j] = t[j]
  BY <1>6, <1>7, AppendProperties
<1>9. Len(w) # Len(l)
  <2>. SUFFICES ASSUME Len(w) = Len(l) PROVE FALSE
    OBVIOUS
  <2>1. w = l
    BY <1>1, <1>3, SeqEqual
  <2>2. w = Root
    BY <1>1, <2>1 DEF Types
  <2>. QED
    BY <1>7, <1>8, <2>1, <2>2, EmptySeq DEF Root
<1>10. CASE Len(w) + 1 = Len(l)
  <2>1. \A j \in 1 .. Len(w) : w[j] = l[j]
    BY <1>3
  <2>2. l[Len(w) + 1] = i /\ t = w
    BY <1>1, <1>4, <1>6, <1>10, <2>1
  <2>. QED
    BY <1>2, <1>10, <2>2
<1>11. CASE Len(w) + 1 < Len(l)
  <2>. DEFINE n == Len(w) + 1
              u == SubSeq(t, 1, n)
  <2>1. n \in 1 .. Len(t) /\ t \in Groups
    <3>1. t # Root
      BY <1>2, <1>7, <1>8, <1>11, EmptySeq DEF Root
    <3>. QED
      BY <1>2, <1>7, <1>8, <1>11, <3>1 DEF Types
  <2>2. u \in Groups
    BY <2>1, SchemaAssumption
  <2>3. \A j \in 1 .. n : t[j] \in Nat
    BY <1>2, <1>7, <2>1, ElementOfSeq
  <2>4. u \in Seq(Nat) /\ Len(u) = n /\ \A j \in 1 .. n : u[j] = t[j]
    BY <1>2, <2>3, SubSeqProperties, Z3
  <2>. HIDE DEF u
  <2>5. PICK s \in Types : \E k \in 1 .. Arity[s] : u = Append(s, k)
    BY <2>2, PathsAreSequences
  <2>6. PICK k \in 1 .. Arity[s] : u = Append(s, k)
    BY <2>5
  <2>7. ASSUME NEW j \in 1 .. Len(w) PROVE w[j] = u[j]
    <3>1. j \in 1 .. n /\ j \in 1 .. Len(t)
      BY <1>2, <1>7, <2>1
    <3>2. w[j] = l[j] /\ l[j] = t[j] /\ u[j] = t[j]
      BY <1>3, <1>8, <2>4, <3>1
    <3>. QED
      BY <3>2
  <2>8. s = w /\ u[Len(w) + 1] = k
    BY <1>4, <2>4, <2>6, <2>7
  <2>9. l[Len(w) + 1] = u[Len(w) + 1]
    BY <1>2, <1>8, <2>1, <2>4
  <2>. QED
    BY <1>11, <2>8, <2>9
<1>. QED
  BY <1>2, <1>3, <1>9, <1>10, <1>11

\* The levels are bounded by the length of the path, and a repeated field repeats.
LEMMA LevelBounds ==
    ASSUME NEW f \in Nodes
    PROVE  /\ GetMaxRepetitionLevel[f] \in Nat
           /\ GetDefinitionLevel[f] \in Nat
           /\ GetDefinitionLevel[f] < UIntMod
           /\ UIntMod \in Nat \ {0}
           /\ f \in Fields /\ IsRepeated(f) => GetMaxRepetitionLevel[f] > 0
<1>1. f \in Seq(Nat) /\ Len(f) \in Nat
  BY PathsAreSequences, LenProperties, EmptySeq DEF Nodes, Root
<1>2. UIntMod \in Nat /\ Len(f) < UIntMod
  BY UIntModAssumption
<1>. DEFINE R == {n \in 1 .. Len(f) : IsRepeated(Prefix(f, n))}
            D == {n \in 1 .. Len(f) : Label[Prefix(f, n)] # "required"}
<1>3. GetMaxRepetitionLevel[f] = Cardinality(R) /\ GetDefinitionLevel[f] = Cardinality(D)
  BY DEF GetMaxRepetitionLevel, GetDefinitionLevel
<1>4. IsFiniteSet(1 .. Len(f)) /\ Cardinality(1 .. Len(f)) = Len(f)
  <2>1. /\ IsFiniteSet(1 .. Len(f))
        /\ Cardinality(1 .. Len(f)) = IF 1 > Len(f) THEN 0 ELSE Len(f) - 1 + 1
    BY <1>1, FS_Interval
  <2>. QED
    BY <1>1, <2>1
<1>5. /\ IsFiniteSet(R) /\ Cardinality(R) \in Nat
      /\ IsFiniteSet(D) /\ Cardinality(D) \in Nat /\ Cardinality(D) <= Len(f)
  <2>1. R \in SUBSET (1 .. Len(f)) /\ D \in SUBSET (1 .. Len(f))
    OBVIOUS
  <2>. QED
    BY <1>4, <2>1, FS_Subset, FS_CardinalityType
<1>6. ASSUME f \in Fields, IsRepeated(f) PROVE Cardinality(R) > 0
  <2>1. Len(f) \in 1 .. Len(f)
    <3>1. PICK t \in Types : \E i \in 1 .. Arity[t] : f = Append(t, i)
      BY <1>6, PathsAreSequences
    <3>2. PICK i \in 1 .. Arity[t] : f = Append(t, i)
      BY <3>1
    <3>3. t \in Seq(Nat) /\ i \in Nat /\ Len(t) \in Nat
      BY PathsAreSequences, LenProperties
    <3>. QED
      BY <3>2, <3>3, AppendProperties
  <2>2. Prefix(f, Len(f)) = f
    BY <1>1, SubSeqFull DEF Prefix
  <2>3. R # {}
    BY <1>6, <2>1, <2>2
  <2>. HIDE DEF R, D
  <2>4. Cardinality(R) = 0 <=> R = {}
    BY <1>5, FS_EmptySet
  <2>. QED
    BY <1>5, <2>3, <2>4
<1>. QED
  BY <1>1, <1>2, <1>3, <1>5, <1>6

\* A child of an address is of the type of the child field.
LEMMA TypeOfChild ==
    ASSUME NEW a \in Seq(Nat \X Nat), NEW i \in Nat, NEW k \in Nat
    PROVE  /\ Child(a, i, k) \in Seq(Nat \X Nat)
           /\ TypeOf(a) \in Seq(Nat)
           /\ TypeOf(Child(a, i, k)) = Append(TypeOf(a), i)
           /\ Child(a, i, k) # <<>>
<1>. DEFINE b == Child(a, i, k)
<1>1. Len(a) \in Nat /\ <<i, k>> \in Nat \X Nat
  BY LenProperties
<1>2. /\ b \in Seq(Nat \X Nat)
      /\ Len(b) = Len(a) + 1
      /\ b[Len(a) + 1] = <<i, k>>
      /\ \A n \in 1 .. Len(a) : b[n] = a[n]
  BY <1>1, AppendProperties DEF Child
<1>. HIDE DEF b
<1>3. ASSUME NEW c \in Seq(Nat \X Nat)
      PROVE  /\ TypeOf(c) \in Seq(Nat)
             /\ Len(TypeOf(c)) = Len(c)
             /\ \A n \in 1 .. Len(c) : TypeOf(c)[n] = c[n][1]
  <2>1. Len(c) \in Nat /\ \A n \in 1 .. Len(c) : c[n] \in Nat \X Nat
    BY LenProperties, ElementOfSeq
  <2>2. \A n \in 1 .. Len(c) : c[n][1] \in Nat
    BY <2>1
  <2>3. TypeOf(c) \in [1 .. Len(c) -> Nat]
    BY <2>2 DEF TypeOf
  <2>. QED
    BY <2>1, <2>3 DEF TypeOf
<1>4. /\ TypeOf(a) \in Seq(Nat) /\ Len(TypeOf(a)) = Len(a)
      /\ TypeOf(b) \in Seq(Nat) /\ Len(TypeOf(b)) = Len(a) + 1
  BY <1>2, <1>3
<1>5. /\ Append(TypeOf(a), i) \in Seq(Nat)
      /\ Len(Append(TypeOf(a), i)) = Len(a) + 1
      /\ Append(TypeOf(a), i)[Len(a) + 1] = i
      /\ \A n \in 1 .. Len(a) : Append(TypeOf(a), i)[n] = TypeOf(a)[n]
  BY <1>4, AppendProperties
<1>6. ASSUME NEW n \in 1 .. Len(a) + 1
      PROVE  TypeOf(b)[n] = Append(TypeOf(a), i)[n]
  <2>1. n \in 1 .. Len(b) /\ TypeOf(b)[n] = b[n][1]
    BY <1>2, <1>3
  <2>2. CASE n = Len(a) + 1
    BY <1>2, <1>5, <2>1, <2>2
  <2>3. CASE n # Len(a) + 1
    <3>1. n \in 1 .. Len(a)
      BY <1>1, <2>3
    <3>. QED
      BY <1>2, <1>3, <1>5, <2>1, <3>1
  <2>. QED
    BY <2>2, <2>3
<1>7. TypeOf(b) = Append(TypeOf(a), i)
  BY <1>4, <1>5, <1>6, SeqEqual
<1>8. b # <<>>
  BY <1>1, <1>2, EmptySeq
<1>. QED
  BY <1>2, <1>4, <1>7, <1>8 DEF b

\* No leaf lies below another leaf.
LEMMA LeavesApart ==
    ASSUME NEW w \in Leaves, NEW l \in Leaves, IsPrefix(w, l)
    PROVE  w = l
<1>1. w \in Seq(Nat) /\ l \in Seq(Nat) /\ w \in Fields /\ l \in Fields /\ w \notin Groups
  BY PathsAreSequences DEF Leaves
<1>2. Len(w) \in Nat /\ Len(l) \in Nat
  BY <1>1, LenProperties
<1>3. Len(w) <= Len(l) /\ \A i \in 1 .. Len(w) : w[i] = l[i]
  BY <1>1, PrefixElements
<1>4. Len(w) >= 1
  <2>1. PICK s \in Types : \E k \in 1 .. Arity[s] : w = Append(s, k)
    BY <1>1, PathsAreSequences
  <2>2. PICK k \in 1 .. Arity[s] : w = Append(s, k)
    BY <2>1
  <2>3. s \in Seq(Nat) /\ k \in Nat /\ Len(s) \in Nat
    BY PathsAreSequences, LenProperties
  <2>. QED
    BY <2>2, <2>3, AppendProperties
<1>5. CASE Len(w) = Len(l)
  BY <1>1, <1>3, <1>5, SeqEqual
<1>6. CASE Len(w) < Len(l)
  <2>1. PICK t \in Types : \E k \in 1 .. Arity[t] : l = Append(t, k)
    BY <1>1, PathsAreSequences
  <2>2. PICK k \in 1 .. Arity[t] : l = Append(t, k)
    BY <2>1
  <2>3. t \in Seq(Nat) /\ k \in Nat /\ Len(t) \in Nat
    BY PathsAreSequences, LenProperties
  <2>4. Len(l) = Len(t) + 1 /\ \A j \in 1 .. Len(t) : l[j] = t[j]
    BY <2>2, <2>3, AppendProperties
  <2>5. t # Root
    BY <1>2, <1>4, <1>6, <2>3, <2>4, EmptySeq DEF Root
  <2>6. Len(w) \in 1 .. Len(t) /\ t \in Groups
    BY <1>2, <1>4, <1>6, <2>3, <2>4, <2>5 DEF Types
  <2>. DEFINE u == SubSeq(t, 1, Len(w))
  <2>7. u \in Groups
    BY <2>6, SchemaAssumption
  <2>8. \A j \in 1 .. Len(w) : t[j] \in Nat
    BY <1>2, <2>3, <2>6, ElementOfSeq
  <2>9. u \in Seq(Nat) /\ Len(u) = Len(w) /\ \A j \in 1 .. Len(w) : u[j] = t[j]
    BY <1>2, <1>4, <2>8, SubSeqProperties, Z3
  <2>. HIDE DEF u
  <2>10. ASSUME NEW j \in 1 .. Len(w) PROVE w[j] = u[j]
    <3>1. j \in 1 .. Len(t)
      BY <1>2, <2>3, <2>6
    <3>. QED
      BY <1>3, <2>4, <2>9, <3>1
  <2>11. w = u
    BY <1>1, <2>9, <2>10, SeqEqual
  <2>. QED
    BY <1>1, <2>7, <2>11
<1>. QED
  BY <1>2, <1>3, <1>5, <1>6

\* What lies below field c of w lies below w, and continues with c.
LEMMA PrefixAppend ==
    ASSUME NEW w \in Seq(Nat), NEW c \in Nat, NEW l \in Seq(Nat)
    PROVE  IsPrefix(Append(w, c), l) <=> /\ IsPrefix(w, l)
                                         /\ Len(w) < Len(l)
                                         /\ l[Len(w) + 1] = c
<1>. DEFINE v == Append(w, c)
<1>1. /\ v \in Seq(Nat) /\ Len(v) = Len(w) + 1
      /\ \A i \in 1 .. Len(w) : v[i] = w[i]
      /\ v[Len(w) + 1] = c
  BY AppendProperties
<1>2. Len(w) \in Nat /\ Len(l) \in Nat
  BY LenProperties
<1>. HIDE DEF v
<1>3. (\A i \in 1 .. Len(v) : v[i] = l[i])
        <=> (\A i \in 1 .. Len(w) : w[i] = l[i]) /\ l[Len(w) + 1] = c
  <2>1. \A i \in 1 .. Len(v) : i = Len(w) + 1 \/ i \in 1 .. Len(w)
    BY <1>1, <1>2
  <2>2. Len(w) + 1 \in 1 .. Len(v) /\ \A i \in 1 .. Len(w) : i \in 1 .. Len(v)
    BY <1>1, <1>2
  <2>. QED
    BY <1>1, <2>1, <2>2
<1>4. IsPrefix(v, l) <=> Len(v) <= Len(l) /\ \A i \in 1 .. Len(v) : v[i] = l[i]
  BY <1>1, PrefixElements
<1>5. IsPrefix(w, l) <=> Len(w) <= Len(l) /\ \A i \in 1 .. Len(w) : w[i] = l[i]
  BY PrefixElements
<1>6. IsPrefix(v, l) <=> IsPrefix(w, l) /\ Len(w) < Len(l) /\ l[Len(w) + 1] = c
  <2>1. Len(v) <= Len(l) <=> Len(w) < Len(l)
    BY <1>1, <1>2
  <2>2. Len(w) < Len(l) => Len(w) <= Len(l)
    BY <1>2
  <2>. QED
    BY <1>3, <1>4, <1>5, <2>1, <2>2
<1>. QED
  BY <1>6 DEF v

\* What is above w is above every field of w.
LEMMA PrefixOfAppend ==
    ASSUME NEW w \in Seq(Nat), NEW c \in Nat
    PROVE  IsPrefix(w, Append(w, c))
<1>1. Append(w, c) \in Seq(Nat) /\ Len(Append(w, c)) \in Nat
  BY AppendProperties, LenProperties
<1>2. IsPrefix(Append(w, c), Append(w, c))
  BY <1>1 DEF IsPrefix
<1>. QED
  BY <1>1, <1>2, PrefixAppend

\* "Above in the schema" is transitive.
LEMMA PrefixTransitive ==
    ASSUME NEW u \in Seq(Nat), NEW v \in Seq(Nat), NEW w \in Seq(Nat),
           IsPrefix(u, v), IsPrefix(v, w)
    PROVE  IsPrefix(u, w)
<1>1. Len(u) \in Nat /\ Len(v) \in Nat /\ Len(w) \in Nat
  BY LenProperties
<1>2. /\ Len(u) <= Len(v) /\ \A i \in 1 .. Len(u) : u[i] = v[i]
      /\ Len(v) <= Len(w) /\ \A i \in 1 .. Len(v) : v[i] = w[i]
  BY PrefixElements
<1>3. \A i \in 1 .. Len(u) : i \in 1 .. Len(v)
  BY <1>1, <1>2
<1>4. Len(u) <= Len(w) /\ \A i \in 1 .. Len(u) : u[i] = w[i]
  BY <1>1, <1>2, <1>3
<1>. QED
  BY <1>4, PrefixElements

-----------------------------------------------------------------------------
(* Facts about the stack. *)

\* A stack that is not empty has a top, and a front with everything below the top.
LEMMA StackTop ==
    ASSUME NEW S, NEW s \in Seq(S), s # <<>>
    PROVE  /\ Len(s) \in Nat \ {0}
           /\ Last(s) = s[Len(s)] /\ Last(s) \in S
           /\ Front(s) \in Seq(S)
           /\ Len(Front(s)) = Len(s) - 1
           /\ \A k \in 1 .. Len(s) - 1 : Front(s)[k] = s[k]
<1>1. Len(s) \in Nat \ {0}
  BY EmptySeq
<1>2. Last(s) = s[Len(s)] /\ Last(s) \in S
  BY <1>1, ElementOfSeq DEF Last
<1>3. \A k \in 1 .. Len(s) - 1 : s[k] \in S
  BY <1>1, ElementOfSeq
<1>4. /\ Front(s) \in Seq(S)
      /\ Len(Front(s)) = IF 1 <= Len(s) - 1 THEN Len(s) - 1 - 1 + 1 ELSE 0
      /\ \A k \in 1 .. Len(s) - 1 - 1 + 1 : Front(s)[k] = s[1 + k - 1]
  BY <1>1, <1>3, SubSeqProperties, Z3 DEF Front
<1>5. Len(Front(s)) = Len(s) - 1
  <2>1. ASSUME NEW n \in Nat \ {0}, NEW x, x = IF 1 <= n - 1 THEN n - 1 - 1 + 1 ELSE 0
        PROVE  x = n - 1
    BY <2>1
  <2>. QED
    BY <1>1, <1>4, <2>1
<1>6. ASSUME NEW k \in 1 .. Len(s) - 1 PROVE Front(s)[k] = s[k]
  <2>1. k \in 1 .. Len(s) - 1 - 1 + 1 /\ 1 + k - 1 = k
    BY <1>1
  <2>2. Front(s)[k] = s[1 + k - 1]
    BY <1>4, <2>1
  <2>. QED
    BY <2>1, <2>2
<1>. QED
  BY <1>1, <1>2, <1>4, <1>5, <1>6

\* Replacing the top of a stack changes nothing below it.
LEMMA StackReplace ==
    ASSUME NEW S, NEW s \in Seq(S), s # <<>>, NEW x \in S
    PROVE  LET t == Append(Front(s), x)
           IN  /\ t \in Seq(S) /\ t # <<>>
               /\ Len(t) = Len(s)
               /\ t[Len(s)] = x /\ Last(t) = x
               /\ \A k \in 1 .. Len(s) - 1 : t[k] = s[k]
<1>1. Front(s) \in Seq(S) /\ Len(Front(s)) = Len(s) - 1 /\ Len(s) \in Nat \ {0}
  BY StackTop
<1>2. \A k \in 1 .. Len(s) - 1 : Front(s)[k] = s[k]
  BY StackTop
<1>. QED
  BY <1>1, <1>2, AppendProperties DEF Last

\* Calling replaces the top and puts one activation more on the stack.
LEMMA StackPush ==
    ASSUME NEW S, NEW s \in Seq(S), s # <<>>, NEW x \in S, NEW y \in S
    PROVE  LET t == Append(Append(Front(s), x), y)
           IN  /\ t \in Seq(S) /\ t # <<>>
               /\ Len(t) = Len(s) + 1
               /\ t[Len(s)] = x /\ t[Len(s) + 1] = y
               /\ \A k \in 1 .. Len(s) - 1 : t[k] = s[k]
<1>. DEFINE r == Append(Front(s), x)
<1>1. /\ r \in Seq(S) /\ Len(r) = Len(s)
      /\ r[Len(s)] = x /\ \A k \in 1 .. Len(s) - 1 : r[k] = s[k]
  BY StackReplace
<1>2. Len(s) \in Nat \ {0}
  BY StackTop
<1>. HIDE DEF r
<1>3. /\ Append(r, y) \in Seq(S) /\ Append(r, y) # <<>>
      /\ Len(Append(r, y)) = Len(s) + 1
      /\ Append(r, y)[Len(s) + 1] = y
      /\ \A k \in 1 .. Len(s) : Append(r, y)[k] = r[k]
  BY <1>1, AppendProperties
<1>4. /\ Append(r, y)[Len(s)] = x
      /\ \A k \in 1 .. Len(s) - 1 : Append(r, y)[k] = s[k]
  BY <1>1, <1>2, <1>3
<1>. QED
  BY <1>3, <1>4 DEF r

-----------------------------------------------------------------------------
(* Facts about the activation that works. *)

\* What the cursor stands at, and the activation after that entry.
LEMMA CursorFacts ==
    ASSUME TypeOK, Nested, Working
    PROVE  /\ callStack \in Seq(Frames) /\ callStack # <<>>
           /\ Top = callStack[Len(callStack)] /\ Top \in Frames
           /\ Consistent(Top)
           /\ message \in Messages
           /\ Top.child \in 1 .. Arity[Top.writer]
           /\ ChildWriter(Top) \in Fields
           /\ FieldAddress(Top) \in Seq(Nat \X Nat)
           /\ FieldAddress(Top) # <<>>
           /\ TypeOf(FieldAddress(Top)) = ChildWriter(Top)
<1>1. callStack \in Seq(Frames) /\ callStack # <<>>
  BY DEF TypeOK, Working
<1>2. /\ Len(callStack) \in Nat \ {0}
      /\ Last(callStack) = callStack[Len(callStack)] /\ Last(callStack) \in Frames
  BY <1>1, StackTop
<1>3. Top = callStack[Len(callStack)] /\ Top \in Frames
  BY <1>2 DEF Top
<1>4. Consistent(Top) /\ message \in Messages
  BY <1>1, <1>2, <1>3 DEF Nested
<1>5. /\ Top.msg \in Seq(Nat \X Nat) /\ Top.writer \in Types
      /\ Top.child \in Nat \ {0} /\ Top.occ \in Nat \ {0}
  BY <1>3 DEF Frames
<1>6. Top.child \in 1 .. Arity[Top.writer]
  BY <1>5, PathsAreSequences DEF Working
<1>7. ChildWriter(Top) \in Fields
  BY <1>5, <1>6, PathsAreSequences DEF ChildWriter
<1>8. /\ FieldAddress(Top) \in Seq(Nat \X Nat) /\ FieldAddress(Top) # <<>>
      /\ TypeOf(FieldAddress(Top)) = Append(TypeOf(Top.msg), Top.child)
  BY <1>5, TypeOfChild DEF FieldAddress
<1>9. TypeOf(FieldAddress(Top)) = ChildWriter(Top)
  BY <1>4, <1>8 DEF Consistent, ChildWriter
<1>. QED
  BY <1>1, <1>3, <1>4, <1>6, <1>7, <1>8, <1>9

\* NextEntry only marks the field as seen and moves the cursor.
LEMMA NextEntryFacts ==
    ASSUME TypeOK, Nested, Working
    PROVE  /\ NextEntry(Top) \in Frames
           /\ Consistent(NextEntry(Top))
           /\ NextEntry(Top).writer = Top.writer
           /\ NextEntry(Top).rep = Top.rep
           /\ NextEntry(Top).seen = Top.seen \cup {Top.child}
<1>. DEFINE more == IsRepeated(ChildWriter(Top))
                      /\ Top.occ < FieldSize(message, Top.msg, Top.child)
            next == NextEntry(Top)
<1>1. /\ Top \in Frames /\ Top.child \in 1 .. Arity[Top.writer]
      /\ Top.writer \in Types /\ Top.seen \in SUBSET Nat
      /\ Top.occ \in Nat \ {0} /\ Top.child \in Nat \ {0}
  BY CursorFacts DEF Frames
<1>2. Consistent(Top) /\ Arity[Top.writer] \in Nat
  BY <1>1, CursorFacts, PathsAreSequences
<1>3. next = [Top EXCEPT !.seen = @ \cup {Top.child},
                         !.child = IF more THEN @ ELSE @ + 1,
                         !.occ = IF more THEN @ + 1 ELSE 1]
  BY DEF NextEntry
<1>. HIDE DEF more, next
<1>4. /\ next.msg = Top.msg /\ next.writer = Top.writer /\ next.rep = Top.rep
      /\ next.seen = Top.seen \cup {Top.child}
      /\ next.child = IF more THEN Top.child ELSE Top.child + 1
      /\ next.occ = IF more THEN Top.occ + 1 ELSE 1
  BY <1>1, <1>3 DEF Frames
<1>5. next \in Frames
  <2>. DEFINE s == Top.seen \cup {Top.child}
              c == IF more THEN Top.child ELSE Top.child + 1
              o == IF more THEN Top.occ + 1 ELSE 1
  <2>1. s \in SUBSET Nat /\ c \in Nat \ {0} /\ o \in Nat \ {0}
    BY <1>1
  <2>2. next = [Top EXCEPT !.seen = s, !.child = c, !.occ = o]
    BY <1>3
  <2>. HIDE DEF s, c, o
  <2>. QED
    BY <1>1, <2>1, <2>2 DEF Frames
<1>6. Consistent(next)
  <2>1. TypeOf(next.msg) = next.writer
    BY <1>2, <1>4 DEF Consistent
  <2>2. next.child <= Arity[next.writer] + 1
    BY <1>1, <1>2, <1>4
  <2>3. next.occ > 1 => next.child <= Arity[next.writer] /\ IsRepeated(ChildWriter(next))
    BY <1>1, <1>2, <1>4 DEF more, ChildWriter
  <2>4. next.seen = (1 .. next.child - 1) \cup (IF next.occ > 1 THEN {next.child} ELSE {})
    <3>1. next.seen = 1 .. Top.child
      BY <1>1, <1>2, <1>4 DEF Consistent
    <3>2. CASE more
      BY <1>1, <1>4, <3>1, <3>2
    <3>3. CASE ~ more
      BY <1>1, <1>4, <3>1, <3>3
    <3>. QED
      BY <3>2, <3>3
  <2>. QED
    BY <2>1, <2>2, <2>3, <2>4 DEF Consistent
<1>. QED
  BY <1>4, <1>5, <1>6 DEF next

\* An entry gets repetition level 0 only as the first of its field, and only if
\* the whole message has level 0.
LEMMA LevelFacts ==
    ASSUME TypeOK, Nested, Working
    PROVE  /\ ChildRepetitionLevel(Top) \in Nat
           /\ ChildRepetitionLevel(Top) > 0 <=> Top.rep > 0 \/ Top.child \in Top.seen
           /\ NullDefinitionLevel(ChildWriter(Top)) \in 0 .. UIntMod - 1
           /\ GetDefinitionLevel[ChildWriter(Top)] \in 0 .. UIntMod - 1
<1>1. Top \in Frames /\ ChildWriter(Top) \in Fields /\ ChildWriter(Top) \in Nodes
  BY CursorFacts DEF Nodes
<1>2. Top.rep \in Nat /\ Top.child \in Nat \ {0} /\ Top.occ \in Nat \ {0}
  BY <1>1 DEF Frames
<1>3. Consistent(Top)
  BY CursorFacts
<1>4. /\ GetMaxRepetitionLevel[ChildWriter(Top)] \in Nat
      /\ GetDefinitionLevel[ChildWriter(Top)] \in Nat
      /\ GetDefinitionLevel[ChildWriter(Top)] < UIntMod
      /\ UIntMod \in Nat \ {0}
      /\ IsRepeated(ChildWriter(Top)) => GetMaxRepetitionLevel[ChildWriter(Top)] > 0
  BY <1>1, LevelBounds
<1>5. Top.child \in Top.seen => IsRepeated(ChildWriter(Top))
  <2>1. Top.child \notin 1 .. Top.child - 1
    BY <1>2
  <2>. QED
    BY <1>3, <2>1 DEF Consistent
<1>6. NullDefinitionLevel(ChildWriter(Top)) \in 0 .. UIntMod - 1
  BY <1>4 DEF NullDefinitionLevel
<1>. QED
  BY <1>2, <1>4, <1>5, <1>6 DEF ChildRepetitionLevel

\* The writers of the activations are those of types, so they are paths.
LEMMA WritersAreTypes ==
    ASSUME TypeOK
    PROVE  \A k \in 1 .. Len(callStack) :
               /\ callStack[k] \in Frames
               /\ callStack[k].writer \in Types
               /\ callStack[k].writer \in Seq(Nat)
<1>1. \A k \in 1 .. Len(callStack) : callStack[k] \in Frames
  BY ElementOfSeq DEF TypeOK
<1>. QED
  BY <1>1, PathsAreSequences DEF Frames

\* The types of one column and of its record TIDs, one more than there are records
\* while an insert() runs.
LEMMA ColumnFacts ==
    ASSUME TypeOK, OpenRecord, NEW l \in Leaves
    PROVE  /\ columns[l] \in Seq(Row) /\ Len(columns[l]) \in Nat
           /\ recordTIDs[l] \in Seq(Nat) /\ Len(recordTIDs[l]) \in Nat
           /\ size \in Nat
           /\ \A n \in 1 .. Len(recordTIDs[l]) : recordTIDs[l][n] \in Nat
           /\ callStack # <<>> => Len(recordTIDs[l]) = size + 1
<1>1. columns[l] \in Seq(Row) /\ recordTIDs[l] \in Seq(Nat) /\ size \in Nat
  BY DEF TypeOK
<1>2. \A n \in 1 .. Len(recordTIDs[l]) : recordTIDs[l][n] \in Nat
  BY <1>1, ElementOfSeq
<1>. QED
  BY <1>1, <1>2, LenProperties DEF OpenRecord

\* The columns below the field under the cursor: the record has started there
\* exactly when the entry's repetition level is above 0.
LEMMA StartedAtCursor ==
    ASSUME ShreddingInvariant, Working,
           NEW l \in Leaves, IsPrefix(ChildWriter(Top), l)
    PROVE  /\ IsPrefix(Top.writer, l)
           /\ l[Len(Top.writer) + 1] = Top.child
           /\ Started(l) <=> ChildRepetitionLevel(Top) > 0
<1>. DEFINE n == Len(callStack)
<1>1. /\ TypeOK /\ Nested /\ StartedColumns
  BY DEF ShreddingInvariant
<1>2. Top = callStack[n] /\ Top \in Frames /\ n \in 1 .. n
  BY <1>1, CursorFacts, StackTop
<1>3. Top.writer \in Seq(Nat) /\ Top.child \in Nat /\ l \in Seq(Nat)
  BY <1>2, PathsAreSequences DEF Frames
<1>4. IsPrefix(Top.writer, l) /\ l[Len(Top.writer) + 1] = Top.child
  BY <1>3, PrefixAppend DEF ChildWriter
<1>5. Owns(n, l)
  BY <1>2, <1>4 DEF Owns
<1>6. Started(l) <=> Top.rep > 0 \/ Top.child \in Top.seen
  BY <1>1, <1>2, <1>4, <1>5 DEF StartedColumns
<1>. QED
  BY <1>1, <1>4, <1>6, LevelFacts

\* What lies below the working activation belongs to no other.
LEMMA OnlyTopOwns ==
    ASSUME TypeOK, Nested, callStack # <<>>, NEW l \in Leaves,
           IsPrefix(callStack[Len(callStack)].writer, l),
           NEW k \in 1 .. Len(callStack), Owns(k, l)
    PROVE  k = Len(callStack)
<1>. SUFFICES ASSUME k # Len(callStack) PROVE FALSE
  OBVIOUS
<1>. DEFINE n == Len(callStack)
<1>1. n \in Nat
  BY LenProperties DEF TypeOK
<1>2. k < n /\ k + 1 \in 1 .. n /\ n \in 1 .. n
  BY <1>1
<1>3. IsPrefix(callStack[k + 1].writer, callStack[n].writer)
  BY <1>2 DEF Nested
<1>4. IsPrefix(callStack[k + 1].writer, l)
  BY <1>2, <1>3, WritersAreTypes, PathsAreSequences, PrefixTransitive
<1>. QED
  BY <1>2, <1>4 DEF Owns

-----------------------------------------------------------------------------
(* Writing a row to the columns below the field under the cursor. *)

\* Advance replaces the top of the stack by its next entry, nothing else.
LEMMA AdvancedStack ==
    ASSUME TypeOK, Nested, Working, Advance
    PROVE  /\ callStack' \in Seq(Frames) /\ callStack' # <<>>
           /\ Len(callStack') = Len(callStack)
           /\ callStack'[Len(callStack)] = NextEntry(Top)
           /\ \A k \in 1 .. Len(callStack) - 1 : callStack'[k] = callStack[k]
           /\ \A k \in 1 .. Len(callStack) :
                 /\ callStack'[k].writer = callStack[k].writer
                 /\ callStack'[k].rep = callStack[k].rep
                 /\ callStack[k].seen \subseteq callStack'[k].seen
<1>1. callStack \in Seq(Frames) /\ callStack # <<>> /\ Top = callStack[Len(callStack)]
  BY CursorFacts
<1>2. Len(callStack) \in Nat \ {0}
  BY <1>1, StackTop
<1>3. /\ NextEntry(Top) \in Frames
      /\ NextEntry(Top).writer = Top.writer
      /\ NextEntry(Top).rep = Top.rep
      /\ NextEntry(Top).seen = Top.seen \cup {Top.child}
  BY NextEntryFacts
<1>4. /\ callStack' \in Seq(Frames) /\ callStack' # <<>>
      /\ Len(callStack') = Len(callStack)
      /\ callStack'[Len(callStack)] = NextEntry(Top)
      /\ \A k \in 1 .. Len(callStack) - 1 : callStack'[k] = callStack[k]
  BY <1>1, <1>3, StackReplace DEF Advance
<1>5. ASSUME NEW k \in 1 .. Len(callStack)
      PROVE  /\ callStack'[k].writer = callStack[k].writer
             /\ callStack'[k].rep = callStack[k].rep
             /\ callStack[k].seen \subseteq callStack'[k].seen
  <2>1. CASE k = Len(callStack)
    BY <1>1, <1>3, <1>4, <2>1
  <2>2. CASE k # Len(callStack)
    <3>1. k \in 1 .. Len(callStack) - 1
      BY <1>2, <2>2
    <3>. QED
      BY <1>4, <3>1
  <2>. QED
    BY <2>1, <2>2
<1>. QED
  BY <1>4, <1>5

\* Moving the cursor keeps the activations nested as the groups are.
LEMMA AdvanceKeepsNested ==
    ASSUME TypeOK, Nested, Working, Advance, UNCHANGED message
    PROVE  Nested'
<1>. DEFINE n == Len(callStack)
<1>1. /\ Len(callStack') = n /\ n \in Nat \ {0}
      /\ callStack'[n] = NextEntry(Top)
      /\ \A k \in 1 .. n - 1 : callStack'[k] = callStack[k]
  BY AdvancedStack, CursorFacts, StackTop
<1>2. \A k \in 1 .. n : /\ callStack'[k].writer = callStack[k].writer
                        /\ callStack[k].seen \subseteq callStack'[k].seen
  BY AdvancedStack
<1>. HIDE DEF n
<1>3. message' \in Messages /\ callStack'[1].writer = Root
  <2>1. 1 \in 1 .. n
    BY <1>1
  <2>. QED
    BY <1>2, <2>1, CursorFacts DEF Nested
<1>4. ASSUME NEW k \in 1 .. Len(callStack')
      PROVE  Consistent(callStack'[k])
  <2>1. CASE k = n
    BY <1>1, <2>1, NextEntryFacts
  <2>2. CASE k # n
    <3>1. k \in 1 .. n - 1 /\ k \in 1 .. n
      BY <1>1, <2>2
    <3>. QED
      BY <1>1, <3>1 DEF Nested, n
  <2>. QED
    BY <2>1, <2>2
<1>5. ASSUME NEW k \in 1 .. Len(callStack') - 1
      PROVE  \E c \in callStack'[k].seen : callStack'[k + 1].writer = Append(callStack'[k].writer, c)
  <2>1. k \in 1 .. n - 1 /\ k \in 1 .. n /\ k + 1 \in 1 .. n
    BY <1>1
  <2>2. PICK c \in callStack[k].seen : callStack[k + 1].writer = Append(callStack[k].writer, c)
    BY <2>1 DEF Nested, n
  <2>. QED
    BY <1>2, <2>1, <2>2
<1>6. ASSUME NEW k \in 1 .. Len(callStack'), NEW j \in 1 .. k
      PROVE  IsPrefix(callStack'[j].writer, callStack'[k].writer)
  <2>1. k \in 1 .. n /\ j \in 1 .. n
    BY <1>1
  <2>2. IsPrefix(callStack[j].writer, callStack[k].writer)
    BY <2>1 DEF Nested, n
  <2>. QED
    BY <1>2, <2>1, <2>2
<1>. QED
  BY <1>3, <1>4, <1>5, <1>6 DEF Nested

\* Writing one row, of the entry's repetition level, to every column below the
\* field under the cursor keeps the invariant (WriteField of field_writer.h).
LEMMA WriteKeepsInvariant ==
    ASSUME ShreddingInvariant, Working, Advance,
           NEW STATE row, row \in Row, row.r = ChildRepetitionLevel(Top),
           ColumnInsert(ColumnsBelow(ChildWriter(Top)), row),
           UNCHANGED <<recordTIDs, size, message, stored>>
    PROVE  ShreddingInvariant'
<1>. DEFINE ls == ColumnsBelow(ChildWriter(Top))
            n == Len(callStack)
<1>1. TypeOK /\ RecordBoundaries /\ OpenRecord /\ Nested /\ StartedColumns
  BY DEF ShreddingInvariant
<1>2. callStack # <<>> /\ n \in Nat \ {0} /\ Top = callStack[n]
  BY <1>1, CursorFacts, StackTop
<1>3. callStack' \in Seq(Frames) /\ callStack' # <<>> /\ Len(callStack') = n
  BY <1>1, AdvancedStack
<1>4. ASSUME NEW l \in Leaves
      PROVE  /\ l \in ls => columns'[l] = Append(columns[l], row)
             /\ l \notin ls => columns'[l] = columns[l]
             /\ columns'[l] \in Seq(Row)
             /\ Len(columns'[l]) = IF l \in ls THEN Len(columns[l]) + 1 ELSE Len(columns[l])
             /\ \A i \in 1 .. Len(columns[l]) : columns'[l][i] = columns[l][i]
             /\ l \in ls => columns'[l][Len(columns[l]) + 1].r = row.r
  <2>1. columns'[l] = IF l \in ls THEN Append(columns[l], row) ELSE columns[l]
    BY DEF ColumnInsert
  <2>2. columns[l] \in Seq(Row)
    BY <1>1, ColumnFacts
  <2>3. /\ Append(columns[l], row) \in Seq(Row)
        /\ Len(Append(columns[l], row)) = Len(columns[l]) + 1
        /\ \A i \in 1 .. Len(columns[l]) : Append(columns[l], row)[i] = columns[l][i]
        /\ Append(columns[l], row)[Len(columns[l]) + 1] = row
    BY <2>2, AppendProperties
  <2>. QED
    BY <2>1, <2>2, <2>3
<1>. HIDE DEF ls, n
<1>5. TypeOK'
  <2>1. columns' = [l \in Leaves |-> columns'[l]]
    BY DEF ColumnInsert
  <2>2. columns' \in [Leaves -> Seq(Row)]
    BY <1>4, <2>1
  <2>. QED
    BY <1>1, <1>3, <2>2 DEF TypeOK
<1>6. Nested'
  BY <1>1, AdvanceKeepsNested
<1>7. OpenRecord'
  <2>. SUFFICES ASSUME NEW l \in Leaves
                PROVE  /\ Len(recordTIDs'[l]) = size' + IF callStack' = <<>> THEN 0 ELSE 1
                       /\ callStack' # <<>> => recordTIDs'[l][size' + 1] <= Len(columns'[l])
    BY DEF OpenRecord
  <2>1. /\ Len(recordTIDs[l]) = size + 1 /\ size \in Nat
        /\ recordTIDs[l][size + 1] \in Nat /\ Len(columns[l]) \in Nat
    BY <1>1, <1>2, ColumnFacts
  <2>2. recordTIDs[l][size + 1] <= Len(columns[l])
    BY <1>1, <1>2 DEF OpenRecord
  <2>. QED
    BY <1>3, <1>4, <2>1, <2>2
<1>8. RecordBoundaries'
  <2>. SUFFICES ASSUME NEW l \in Leaves
                PROVE  /\ \A m \in 1 .. size : recordTIDs[l][m] < Len(columns'[l])
                       /\ \A m \in 1 .. Len(recordTIDs[l]) - 1 : recordTIDs[l][m] < recordTIDs[l][m + 1]
                       /\ \A i \in 1 .. Len(columns'[l]) :
                             columns'[l][i].r = 0
                               <=> \E m \in 1 .. Len(recordTIDs[l]) : recordTIDs[l][m] = i - 1
    BY DEF RecordBoundaries
  <2>1. /\ Len(recordTIDs[l]) = size + 1 /\ size \in Nat /\ Len(columns[l]) \in Nat
        /\ \A m \in 1 .. size + 1 : recordTIDs[l][m] \in Nat
    BY <1>1, <1>2, ColumnFacts
  <2>2. /\ \A m \in 1 .. size : recordTIDs[l][m] < Len(columns[l])
        /\ \A m \in 1 .. Len(recordTIDs[l]) - 1 : recordTIDs[l][m] < recordTIDs[l][m + 1]
        /\ \A i \in 1 .. Len(columns[l]) :
              columns[l][i].r = 0 <=> \E m \in 1 .. Len(recordTIDs[l]) : recordTIDs[l][m] = i - 1
    BY <1>1 DEF RecordBoundaries
  <2>3. \A m \in 1 .. size : recordTIDs[l][m] < Len(columns'[l])
    <3>1. Len(columns'[l]) = Len(columns[l]) \/ Len(columns'[l]) = Len(columns[l]) + 1
      BY <1>4
    <3>2. \A m \in 1 .. size : m \in 1 .. size + 1
      BY <2>1
    <3>. QED
      BY <2>1, <2>2, <3>1, <3>2
  <2>4. ASSUME l \in ls
        PROVE  row.r = 0 <=> \E m \in 1 .. Len(recordTIDs[l]) : recordTIDs[l][m] = Len(columns[l])
    <3>1. Started(l) <=> ChildRepetitionLevel(Top) > 0
      BY <2>4, StartedAtCursor DEF ls, ColumnsBelow
    <3>2. recordTIDs[l][size + 1] <= Len(columns[l])
      BY <1>1, <1>2 DEF OpenRecord
    <3>3. size + 1 \in 1 .. size + 1 /\ \A m \in 1 .. size + 1 : m = size + 1 \/ m \in 1 .. size
      BY <2>1
    <3>4. Started(l) <=> recordTIDs[l][size + 1] # Len(columns[l])
      BY <2>1, <3>2, <3>3 DEF Started
    <3>5. (\E m \in 1 .. Len(recordTIDs[l]) : recordTIDs[l][m] = Len(columns[l]))
            <=> recordTIDs[l][size + 1] = Len(columns[l])
      BY <2>1, <2>2, <3>3
    <3>6. ChildRepetitionLevel(Top) \in Nat
      BY <1>1, LevelFacts
    <3>. QED
      BY <3>1, <3>4, <3>5, <3>6
  <2>5. ASSUME NEW i \in 1 .. Len(columns'[l])
        PROVE  columns'[l][i].r = 0
                 <=> \E m \in 1 .. Len(recordTIDs[l]) : recordTIDs[l][m] = i - 1
    <3>1. CASE i \in 1 .. Len(columns[l])
      BY <1>4, <2>2, <3>1
    <3>2. CASE i \notin 1 .. Len(columns[l])
      <4>1. l \in ls /\ i = Len(columns[l]) + 1 /\ i - 1 = Len(columns[l])
        BY <1>4, <2>1, <3>2
      <4>2. columns'[l][i].r = row.r
        BY <1>4, <4>1
      <4>. QED
        BY <2>4, <4>1, <4>2
    <3>. QED
      BY <3>1, <3>2
  <2>. QED
    BY <2>2, <2>3, <2>5
<1>9. StartedColumns'
  <2>. SUFFICES ASSUME NEW k \in 1 .. n, NEW l \in Leaves, Owns(k, l)'
                PROVE  Started(l)' <=> \/ callStack'[k].rep > 0
                                       \/ l[Len(callStack'[k].writer) + 1] \in callStack'[k].seen
    BY <1>3 DEF StartedColumns
  <2>1. /\ callStack'[k].writer = callStack[k].writer
        /\ callStack'[k].rep = callStack[k].rep
    BY <1>1, AdvancedStack DEF n
  <2>2. Owns(k, l)
    <3>1. CASE k < n
      <4>1. k + 1 \in 1 .. n
        BY <1>2, <3>1
      <4>2. callStack'[k + 1].writer = callStack[k + 1].writer
        BY <1>1, <4>1, AdvancedStack DEF n
      <4>. QED
        BY <1>3, <2>1, <4>2 DEF Owns, n
    <3>2. CASE ~ k < n
      BY <1>3, <2>1, <3>2 DEF Owns, n
    <3>. QED
      BY <3>1, <3>2
  <2>3. Started(l) <=> \/ callStack[k].rep > 0
                       \/ l[Len(callStack[k].writer) + 1] \in callStack[k].seen
    BY <1>1, <2>2 DEF StartedColumns, n
  <2>4. /\ Len(columns[l]) \in Nat /\ recordTIDs[l][size + 1] \in Nat
        /\ recordTIDs[l][size + 1] <= Len(columns[l])
    <3>1. size + 1 \in 1 .. Len(recordTIDs[l])
      BY <1>1, <1>2, ColumnFacts
    <3>. QED
      BY <1>1, <1>2, <3>1, ColumnFacts DEF OpenRecord
  <2>5. Started(l)' <=> recordTIDs[l][size + 1] < Len(columns'[l])
    BY DEF Started
  <2>6. callStack'[n] = NextEntry(Top) /\ NextEntry(Top).seen = Top.seen \cup {Top.child}
    BY <1>1, AdvancedStack, NextEntryFacts DEF n
  <2>7. CASE l \in ls
    <3>1. IsPrefix(Top.writer, l) /\ l[Len(Top.writer) + 1] = Top.child
      BY <2>7, StartedAtCursor DEF ls, ColumnsBelow
    <3>2. k = n
      BY <1>1, <1>2, <2>2, <3>1, OnlyTopOwns DEF n
    <3>3. Started(l)'
      BY <1>4, <2>4, <2>5, <2>7
    <3>. QED
      BY <1>2, <2>1, <2>6, <3>1, <3>2, <3>3
  <2>8. CASE l \notin ls
    <3>1. Started(l)' <=> Started(l)
      BY <1>4, <2>5, <2>8 DEF Started
    <3>2. CASE k = n
      <4>1. /\ Top.writer \in Types /\ Top.writer \in Seq(Nat) /\ Top.child \in Nat
            /\ l \in Seq(Nat)
        BY <1>1, CursorFacts, PathsAreSequences DEF Frames
      <4>2. IsPrefix(Top.writer, l)
        BY <1>2, <2>2, <3>2 DEF Owns
      <4>3. Len(Top.writer) < Len(l)
        BY <4>1, <4>2, LeafBelow
      <4>4. ~ IsPrefix(ChildWriter(Top), l)
        BY <2>8 DEF ls, ColumnsBelow
      <4>5. l[Len(Top.writer) + 1] # Top.child
        BY <4>1, <4>2, <4>3, <4>4, PrefixAppend DEF ChildWriter
      <4>. QED
        BY <1>2, <2>1, <2>3, <2>6, <3>1, <3>2, <4>5
    <3>3. CASE k # n
      <4>1. k \in 1 .. n - 1
        BY <1>2, <3>3
      <4>2. callStack'[k] = callStack[k]
        BY <1>1, <4>1, AdvancedStack DEF n
      <4>. QED
        BY <2>3, <3>1, <4>2
    <3>. QED
      BY <3>2, <3>3
  <2>. QED
    BY <2>7, <2>8
<1>. QED
  BY <1>5, <1>6, <1>7, <1>8, <1>9 DEF ShreddingInvariant

\* FieldWriter::write of a missing field keeps the invariant.
LEMMA WriteNullKeepsInvariant ==
    ASSUME ShreddingInvariant, WriteNull
    PROVE  ShreddingInvariant'
<1>. DEFINE row == [v |-> Default, r |-> ChildRepetitionLevel(Top),
                    d |-> NullDefinitionLevel(ChildWriter(Top))]
<1>1. TypeOK /\ Nested /\ Working /\ Advance
  BY DEF ShreddingInvariant, WriteNull
<1>2. row \in Row /\ row.r = ChildRepetitionLevel(Top)
  BY <1>1, LevelFacts DEF Row
<1>3. /\ ColumnInsert(ColumnsBelow(ChildWriter(Top)), row)
      /\ UNCHANGED <<recordTIDs, size, message, stored>>
  BY DEF WriteNull
<1>. HIDE DEF row
<1>. QED
  BY <1>1, <1>2, <1>3, WriteKeepsInvariant

\* AtomicFieldWriter::write_value keeps the invariant: the only column below the
\* field is its own.
LEMMA WriteValueKeepsInvariant ==
    ASSUME ShreddingInvariant, WriteValue
    PROVE  ShreddingInvariant'
<1>. DEFINE a == FieldAddress(Top)
            w == ChildWriter(Top)
            row == [v |-> message[a], r |-> ChildRepetitionLevel(Top), d |-> GetDefinitionLevel[w]]
<1>1. TypeOK /\ Nested /\ Working /\ Advance
  BY DEF ShreddingInvariant, WriteValue
<1>2. w \in Leaves /\ a \in DOMAIN message
  BY DEF WriteValue, HasValue
<1>3. message[a] \in Values
  <2>1. IsMessage(message) /\ a # <<>> /\ TypeOf(a) = w
    BY <1>1, CursorFacts, MessagesAssumption
  <2>. HIDE DEF a, w
  <2>. QED
    BY <1>2, <2>1 DEF IsMessage
<1>4. row \in Row /\ row.r = ChildRepetitionLevel(Top)
  BY <1>1, <1>3, LevelFacts DEF Row
<1>5. ColumnsBelow(w) = {w}
  <2>1. IsPrefix(w, w)
    BY <1>2, PathsAreSequences, LenProperties DEF IsPrefix
  <2>. QED
    BY <1>2, <2>1, LeavesApart DEF ColumnsBelow
<1>6. ColumnInsert(ColumnsBelow(w), row) /\ UNCHANGED <<recordTIDs, size, message, stored>>
  BY <1>5 DEF WriteValue
<1>. HIDE DEF row
<1>. QED
  BY <1>1, <1>4, <1>6, WriteKeepsInvariant

-----------------------------------------------------------------------------
(* Calling and leaving an activation. *)

\* An empty table satisfies the invariant.
LEMMA InitEstablishesInvariant ==
    ASSUME InitShredding
    PROVE  ShreddingInvariant
<1>1. /\ columns = [l \in Leaves |-> <<>>] /\ recordTIDs = [l \in Leaves |-> <<>>]
      /\ size = 0 /\ callStack = <<>> /\ message = EmptyMessage /\ stored = <<>>
  BY DEF InitShredding, InitStorage
<1>2. Len(<<>>) = 0 /\ \A S : <<>> \in Seq(S)
  BY EmptySeq
<1>3. TypeOK
  BY <1>1, <1>2 DEF TypeOK
<1>4. RecordBoundaries /\ OpenRecord /\ Nested /\ StartedColumns
  BY <1>1, <1>2 DEF RecordBoundaries, OpenRecord, Nested, StartedColumns
<1>. QED
  BY <1>3, <1>4 DEF ShreddingInvariant

\* insert() remembers the ends of all columns as the record's start, where
\* nothing has started yet.
LEMMA InsertKeepsInvariant ==
    ASSUME ShreddingInvariant, NEW m \in Messages, Insert(m)
    PROVE  ShreddingInvariant'
<1>. DEFINE fr == Frame(<<>>, Root, 0)
<1>1. TypeOK /\ RecordBoundaries /\ OpenRecord
  BY DEF ShreddingInvariant
<1>2. /\ callStack = <<>> /\ message' = m /\ callStack' = <<fr>>
      /\ recordTIDs' = [l \in Leaves |-> Append(recordTIDs[l], Len(columns[l]))]
      /\ columns' = columns /\ size' = size /\ stored' = stored
  BY DEF Insert
<1>3. fr \in Frames
  BY EmptySeq DEF fr, Frame, Frames, Types
<1>4. Consistent(fr) /\ fr.writer = Root /\ fr.rep = 0 /\ fr.seen = {}
  <2>1. Arity[Root] \in Nat /\ Len(<<>>) = 0
    BY PathsAreSequences, EmptySeq DEF Types
  <2>2. TypeOf(<<>>) = Root
    BY <2>1, EmptySeq, SeqEqual, IsASeq DEF TypeOf, Root
  <2>. QED
    BY <2>1, <2>2 DEF fr, Frame, Consistent
<1>. HIDE DEF fr
<1>5. callStack' \in Seq(Frames) /\ callStack' # <<>> /\ Len(callStack') = 1 /\ callStack'[1] = fr
  BY <1>2, <1>3
<1>6. ASSUME NEW l \in Leaves
      PROVE  /\ recordTIDs'[l] \in Seq(Nat)
             /\ Len(recordTIDs[l]) = size /\ Len(recordTIDs'[l]) = size + 1
             /\ size \in Nat /\ Len(columns[l]) \in Nat
             /\ \A n \in 1 .. size : recordTIDs'[l][n] = recordTIDs[l][n] /\ recordTIDs[l][n] \in Nat
             /\ recordTIDs'[l][size + 1] = Len(columns[l])
  <2>1. /\ recordTIDs[l] \in Seq(Nat) /\ Len(recordTIDs[l]) = size
        /\ size \in Nat /\ Len(columns[l]) \in Nat
        /\ \A n \in 1 .. size : recordTIDs[l][n] \in Nat
    BY <1>1, <1>2, ColumnFacts DEF OpenRecord
  <2>. QED
    BY <1>2, <2>1, AppendProperties
<1>7. TypeOK'
  <2>1. recordTIDs' \in [Leaves -> Seq(Nat)]
    BY <1>2, <1>6
  <2>. QED
    BY <1>1, <1>2, <1>5, <2>1 DEF TypeOK
<1>8. OpenRecord'
  BY <1>2, <1>5, <1>6 DEF OpenRecord
<1>9. RecordBoundaries'
  <2>. SUFFICES ASSUME NEW l \in Leaves
                PROVE  /\ \A n \in 1 .. size : recordTIDs'[l][n] < Len(columns[l])
                       /\ \A n \in 1 .. Len(recordTIDs'[l]) - 1 : recordTIDs'[l][n] < recordTIDs'[l][n + 1]
                       /\ \A i \in 1 .. Len(columns[l]) :
                             columns[l][i].r = 0
                               <=> \E n \in 1 .. Len(recordTIDs'[l]) : recordTIDs'[l][n] = i - 1
    BY <1>2 DEF RecordBoundaries
  <2>1. /\ \A n \in 1 .. size : recordTIDs[l][n] < Len(columns[l])
        /\ \A n \in 1 .. size - 1 : recordTIDs[l][n] < recordTIDs[l][n + 1]
        /\ \A i \in 1 .. Len(columns[l]) :
              columns[l][i].r = 0 <=> \E n \in 1 .. size : recordTIDs[l][n] = i - 1
    BY <1>1, <1>6 DEF RecordBoundaries
  <2>2. \A n \in 1 .. size : recordTIDs'[l][n] < Len(columns[l])
    BY <1>6, <2>1
  <2>3. ASSUME NEW n \in 1 .. Len(recordTIDs'[l]) - 1
        PROVE  recordTIDs'[l][n] < recordTIDs'[l][n + 1]
    <3>1. n \in 1 .. size /\ size \in Nat
      BY <1>6
    <3>2. CASE n = size
      BY <1>6, <2>2, <3>1, <3>2
    <3>3. CASE n # size
      <4>1. n \in 1 .. size - 1 /\ n + 1 \in 1 .. size
        BY <3>1, <3>3
      <4>. QED
        BY <1>6, <2>1, <3>1, <4>1
    <3>. QED
      BY <3>2, <3>3
  <2>4. ASSUME NEW i \in 1 .. Len(columns[l])
        PROVE  columns[l][i].r = 0 <=> \E n \in 1 .. Len(recordTIDs'[l]) : recordTIDs'[l][n] = i - 1
    <3>1. i - 1 # Len(columns[l])
      BY <1>6
    <3>2. \A n \in 1 .. size + 1 : n = size + 1 \/ n \in 1 .. size
      BY <1>6
    <3>3. \A n \in 1 .. size : n \in 1 .. size + 1
      BY <1>6
    <3>. QED
      BY <1>6, <2>1, <3>1, <3>2, <3>3
  <2>. QED
    BY <2>2, <2>3, <2>4
<1>10. Nested'
  <2>1. \A k \in 1 .. Len(callStack') : k = 1 /\ \A j \in 1 .. k : j = 1
    BY <1>5
  <2>2. \A k \in 1 .. Len(callStack') - 1 : FALSE
    BY <1>5
  <2>3. IsPrefix(Root, Root)
    BY EmptySeq DEF IsPrefix, Root
  <2>. QED
    BY <1>2, <1>4, <1>5, <2>1, <2>2, <2>3 DEF Nested
<1>11. StartedColumns'
  <2>. SUFFICES ASSUME NEW k \in 1 .. Len(callStack'), NEW l \in Leaves
                PROVE  Started(l)' <=> \/ callStack'[k].rep > 0
                                       \/ l[Len(callStack'[k].writer) + 1] \in callStack'[k].seen
    BY DEF StartedColumns
  <2>1. callStack'[k].rep = 0 /\ callStack'[k].seen = {}
    BY <1>4, <1>5
  <2>2. ~ Started(l)'
    BY <1>2, <1>6 DEF Started
  <2>. QED
    BY <2>1, <2>2
<1>. QED
  BY <1>7, <1>8, <1>9, <1>10, <1>11 DEF ShreddingInvariant

\* The working activation calls one for the group under the cursor, in whose
\* columns the record has started exactly if the entry repeats something.
LEMMA DescendKeepsInvariant ==
    ASSUME ShreddingInvariant, Descend
    PROVE  ShreddingInvariant'
<1>. DEFINE n == Len(callStack)
            cw == ChildWriter(Top)
            fr == Frame(FieldAddress(Top), cw, ChildRepetitionLevel(Top))
            nx == NextEntry(Top)
<1>1. TypeOK /\ RecordBoundaries /\ OpenRecord /\ Nested /\ StartedColumns /\ Working
  BY DEF ShreddingInvariant, Descend
<1>2. /\ cw \in Groups /\ callStack' = Append(Append(Front(callStack), nx), fr)
      /\ columns' = columns /\ recordTIDs' = recordTIDs /\ size' = size
      /\ message' = message /\ stored' = stored
  BY DEF Descend
<1>3. /\ callStack \in Seq(Frames) /\ callStack # <<>> /\ n \in Nat \ {0}
      /\ Top = callStack[n] /\ message \in Messages
      /\ Top.writer \in Types /\ Top.writer \in Seq(Nat) /\ Top.child \in Nat
      /\ cw \in Seq(Nat) /\ cw = Append(Top.writer, Top.child)
  BY <1>1, CursorFacts, StackTop, PathsAreSequences DEF Frames, ChildWriter
<1>4. /\ fr.writer = cw /\ fr.rep = ChildRepetitionLevel(Top) /\ fr.seen = {}
      /\ fr \in Frames /\ Consistent(fr)
  <2>1. fr = [msg |-> FieldAddress(Top), writer |-> cw, rep |-> ChildRepetitionLevel(Top),
              child |-> 1, occ |-> 1, seen |-> {}]
    BY DEF Frame
  <2>2. /\ FieldAddress(Top) \in Seq(Nat \X Nat) /\ TypeOf(FieldAddress(Top)) = cw
        /\ ChildRepetitionLevel(Top) \in Nat /\ cw \in Types /\ Arity[cw] \in Nat
    BY <1>1, <1>2, CursorFacts, LevelFacts, PathsAreSequences DEF Types
  <2>. HIDE DEF fr, cw
  <2>. QED
    BY <2>1, <2>2 DEF Frames, Consistent
<1>5. /\ nx \in Frames /\ Consistent(nx) /\ nx.writer = Top.writer /\ nx.rep = Top.rep
      /\ nx.seen = Top.seen \cup {Top.child}
  BY <1>1, NextEntryFacts
<1>. HIDE DEF n, cw, fr, nx
<1>6. /\ callStack' \in Seq(Frames) /\ callStack' # <<>> /\ Len(callStack') = n + 1
      /\ callStack'[n] = nx /\ callStack'[n + 1] = fr
      /\ \A k \in 1 .. n - 1 : callStack'[k] = callStack[k]
  <2>. DEFINE t == Append(Append(Front(callStack), nx), fr)
  <2>1. /\ t \in Seq(Frames) /\ t # <<>> /\ Len(t) = Len(callStack) + 1
        /\ t[Len(callStack)] = nx /\ t[Len(callStack) + 1] = fr
        /\ \A k \in 1 .. Len(callStack) - 1 : t[k] = callStack[k]
    <3>1. callStack \in Seq(Frames) /\ callStack # <<>> /\ nx \in Frames /\ fr \in Frames
      BY <1>3, <1>4, <1>5
    <3>. QED
      BY <3>1, StackPush
  <2>2. callStack' = t
    BY <1>2
  <2>. HIDE DEF t
  <2>. QED
    BY <2>1, <2>2 DEF n
<1>7. ASSUME NEW k \in 1 .. n
      PROVE  /\ callStack'[k].writer = callStack[k].writer
             /\ callStack'[k].rep = callStack[k].rep
             /\ callStack[k].seen \subseteq callStack'[k].seen
             /\ callStack[k].writer \in Seq(Nat)
  <2>1. callStack[k].writer \in Seq(Nat)
    BY <1>1, WritersAreTypes DEF n
  <2>2. k = n \/ k \in 1 .. n - 1
    BY <1>3
  <2>. QED
    BY <1>3, <1>5, <1>6, <2>1, <2>2
<1>8. TypeOK'
  BY <1>1, <1>2, <1>6 DEF TypeOK
<1>9. OpenRecord' /\ RecordBoundaries'
  BY <1>1, <1>2, <1>3, <1>6 DEF OpenRecord, RecordBoundaries
<1>10. Nested'
  <2>1. message' \in Messages /\ callStack'[1].writer = Root
    <3>1. 1 \in 1 .. n
      BY <1>3
    <3>. QED
      BY <1>1, <1>2, <1>3, <1>7, <3>1 DEF Nested
  <2>2. ASSUME NEW k \in 1 .. Len(callStack')
        PROVE  Consistent(callStack'[k])
    <3>1. k = n + 1 \/ k = n \/ (k \in 1 .. n - 1 /\ k \in 1 .. n)
      BY <1>3, <1>6
    <3>2. \A j \in 1 .. n : Consistent(callStack[j])
      BY <1>1 DEF Nested, n
    <3>. QED
      BY <1>4, <1>5, <1>6, <3>1, <3>2
  <2>3. ASSUME NEW k \in 1 .. Len(callStack') - 1
        PROVE  \E c \in callStack'[k].seen : callStack'[k + 1].writer = Append(callStack'[k].writer, c)
    <3>1. CASE k = n
      BY <1>3, <1>4, <1>5, <1>6, <3>1
    <3>2. CASE k # n
      <4>1. k \in 1 .. n - 1 /\ k \in 1 .. n /\ k + 1 \in 1 .. n
        BY <1>3, <1>6, <3>2
      <4>2. PICK c \in callStack[k].seen : callStack[k + 1].writer = Append(callStack[k].writer, c)
        BY <1>1, <4>1 DEF Nested, n
      <4>. QED
        BY <1>7, <4>1, <4>2
    <3>. QED
      BY <3>1, <3>2
  <2>4. ASSUME NEW k \in 1 .. Len(callStack'), NEW j \in 1 .. k
        PROVE  IsPrefix(callStack'[j].writer, callStack'[k].writer)
    <3>1. \A i \in 1 .. n : IsPrefix(callStack[i].writer, cw)
      <4>. SUFFICES ASSUME NEW i \in 1 .. n PROVE IsPrefix(callStack[i].writer, cw)
        OBVIOUS
      <4>1. n \in 1 .. n
        BY <1>3
      <4>2. IsPrefix(callStack[i].writer, Top.writer)
        BY <1>1, <1>3, <4>1 DEF Nested, n
      <4>3. IsPrefix(Top.writer, Append(Top.writer, Top.child))
        BY <1>3, PrefixOfAppend
      <4>4. IsPrefix(Top.writer, cw)
        BY <1>3, <4>3
      <4>5. callStack[i].writer \in Seq(Nat) /\ Top.writer \in Seq(Nat) /\ cw \in Seq(Nat)
        BY <1>3, <1>7
      <4>. QED
        BY <4>2, <4>4, <4>5, PrefixTransitive
    <3>2. CASE k = n + 1
      <4>1. j = n + 1 \/ j \in 1 .. n
        BY <1>3, <3>2
      <4>2. IsPrefix(cw, cw)
        BY <1>3, LenProperties DEF IsPrefix
      <4>. QED
        BY <1>4, <1>6, <1>7, <3>1, <3>2, <4>1, <4>2
    <3>3. CASE k # n + 1
      <4>1. k \in 1 .. n /\ j \in 1 .. n
        BY <1>3, <1>6, <3>3
      <4>2. IsPrefix(callStack[j].writer, callStack[k].writer)
        BY <1>1, <4>1 DEF Nested, n
      <4>. QED
        BY <1>7, <4>1, <4>2
    <3>. QED
      BY <3>2, <3>3
  <2>. QED
    BY <2>1, <2>2, <2>3, <2>4 DEF Nested
<1>11. StartedColumns'
  <2>. SUFFICES ASSUME NEW k \in 1 .. Len(callStack'), NEW l \in Leaves, Owns(k, l)'
                PROVE  Started(l)' <=> \/ callStack'[k].rep > 0
                                       \/ l[Len(callStack'[k].writer) + 1] \in callStack'[k].seen
    BY DEF StartedColumns
  <2>1. Started(l)' <=> Started(l)
    BY <1>2 DEF Started
  <2>2. CASE k = n + 1
    <3>1. IsPrefix(cw, l)
      BY <1>4, <1>6, <2>2 DEF Owns
    <3>2. Started(l) <=> ChildRepetitionLevel(Top) > 0
      BY <1>1, <3>1, StartedAtCursor DEF cw, ShreddingInvariant
    <3>. QED
      BY <1>4, <1>6, <2>1, <2>2, <3>2
  <2>3. CASE k = n
    <3>1. n \in 1 .. n /\ n < n + 1
      BY <1>3
    <3>2. IsPrefix(Top.writer, l) /\ ~ IsPrefix(cw, l)
      BY <1>3, <1>4, <1>6, <1>7, <2>3, <3>1 DEF Owns
    <3>3. Started(l) <=> Top.rep > 0 \/ l[Len(Top.writer) + 1] \in Top.seen
      <4>1. Owns(n, l)
        BY <1>3, <3>2 DEF Owns, n
      <4>. QED
        BY <1>1, <1>3, <3>1, <4>1 DEF StartedColumns, n
    <3>4. l[Len(Top.writer) + 1] # Top.child
      BY <1>3, <3>2, PathsAreSequences, LeafBelow, PrefixAppend
    <3>. QED
      BY <1>5, <1>6, <2>1, <2>3, <3>3, <3>4
  <2>4. CASE k # n /\ k # n + 1
    <3>1. k \in 1 .. n - 1 /\ k \in 1 .. n /\ k + 1 \in 1 .. n /\ k < n /\ k < n + 1
      BY <1>3, <1>6, <2>4
    <3>2. Owns(k, l)
      BY <1>6, <1>7, <3>1 DEF Owns
    <3>. QED
      BY <1>1, <1>6, <2>1, <3>1, <3>2 DEF StartedColumns, n
  <2>. QED
    BY <2>2, <2>3, <2>4
<1>. QED
  BY <1>8, <1>9, <1>10, <1>11 DEF ShreddingInvariant

\* An activation that has walked its list has started the record in all of its
\* columns.
LEMMA ReturnIsComplete ==
    ASSUME ShreddingInvariant, callStack # <<>>, Top.child > Arity[Top.writer],
           NEW l \in Leaves, IsPrefix(Top.writer, l)
    PROVE  Started(l)
<1>. DEFINE n == Len(callStack)
<1>1. TypeOK /\ Nested /\ StartedColumns /\ callStack \in Seq(Frames)
  BY DEF ShreddingInvariant, TypeOK
<1>2. n \in 1 .. n /\ Top = callStack[n] /\ Top \in Frames
  BY <1>1, StackTop DEF Top
<1>3. /\ Consistent(Top) /\ Top.writer \in Types
      /\ Top.child \in Nat \ {0} /\ Top.occ \in Nat \ {0}
  BY <1>1, <1>2 DEF Nested, Frames
<1>4. Arity[Top.writer] \in Nat
  BY <1>3, PathsAreSequences
<1>5. Top.seen = 1 .. Arity[Top.writer]
  <2>1. Top.child = Arity[Top.writer] + 1 /\ ~ Top.occ > 1
    BY <1>3, <1>4 DEF Consistent
  <2>2. Top.seen = 1 .. Top.child - 1
    BY <1>3, <2>1 DEF Consistent
  <2>. QED
    BY <1>4, <2>1, <2>2
<1>6. l[Len(Top.writer) + 1] \in Top.seen
  BY <1>3, <1>5, LeafBelow
<1>7. Owns(n, l)
  BY <1>2 DEF Owns
<1>. QED
  BY <1>1, <1>2, <1>6, <1>7 DEF StartedColumns

\* Leaving an activation keeps the invariant; leaving the outermost one ends a
\* record that has started in every column.
LEMMA ReturnKeepsInvariant ==
    ASSUME ShreddingInvariant, Return
    PROVE  ShreddingInvariant'
<1>. DEFINE n == Len(callStack)
<1>1. TypeOK /\ RecordBoundaries /\ OpenRecord /\ Nested /\ StartedColumns
  BY DEF ShreddingInvariant
<1>2. /\ callStack # <<>> /\ callStack' = Front(callStack)
      /\ columns' = columns /\ recordTIDs' = recordTIDs
      /\ Top.child > Arity[Top.writer]
  BY DEF Return
<1>3. /\ callStack \in Seq(Frames) /\ n \in Nat \ {0} /\ Top = callStack[n]
      /\ callStack' \in Seq(Frames) /\ Len(callStack') = n - 1
      /\ \A k \in 1 .. n - 1 : callStack'[k] = callStack[k]
  BY <1>1, <1>2, StackTop DEF TypeOK, Top
<1>4. message \in Messages /\ callStack[1].writer = Root
  BY <1>1, <1>2 DEF Nested
<1>5. \A l \in Leaves : IsPrefix(Top.writer, l) => Started(l)
  BY <1>2, ReturnIsComplete
<1>. HIDE DEF n
<1>6. CASE n = 1
  <2>1. size' = size + 1 /\ stored' = Append(stored, message) /\ message' = EmptyMessage
    BY <1>6 DEF Return, n
  <2>2. callStack' = <<>>
    BY <1>3, <1>6, EmptySeq
  <2>3. Len(callStack') = 0 /\ size \in Nat
    BY <1>1, <1>3, <1>6 DEF TypeOK
  <2>4. ASSUME NEW l \in Leaves PROVE Started(l)
    <3>1. IsPrefix(Root, l)
      <4>1. Root \in Seq(Nat) /\ l \in Seq(Nat) /\ Len(Root) = 0 /\ Len(l) \in Nat
        BY PathsAreSequences, EmptySeq, LenProperties DEF Root
      <4>2. 1 .. Len(Root) = {} /\ Len(Root) <= Len(l)
        BY <4>1
      <4>. QED
        BY <4>1, <4>2, PrefixElements
    <3>. QED
      BY <1>3, <1>4, <1>5, <1>6, <3>1
  <2>5. TypeOK'
    BY <1>1, <1>2, <1>3, <1>4, <2>1, <2>3, AppendProperties DEF TypeOK
  <2>6. OpenRecord'
    <3>1. \A l \in Leaves : Len(recordTIDs[l]) = size + 1
      BY <1>1, <1>2, ColumnFacts
    <3>. QED
      BY <1>2, <2>1, <2>2, <2>3, <3>1 DEF OpenRecord
  <2>7. RecordBoundaries'
    <3>1. ASSUME NEW l \in Leaves, NEW m \in 1 .. size'
          PROVE  recordTIDs[l][m] < Len(columns[l])
      <4>1. m = size + 1 \/ m \in 1 .. size
        BY <2>1, <2>3
      <4>. QED
        BY <1>1, <2>4, <4>1 DEF Started, RecordBoundaries
    <3>. QED
      BY <1>1, <1>2, <3>1 DEF RecordBoundaries
  <2>8. Nested' /\ StartedColumns'
    <3>1. 1 .. Len(callStack') = {} /\ 1 .. Len(callStack') - 1 = {}
      BY <2>3
    <3>. QED
      BY <2>2, <3>1 DEF Nested, StartedColumns
  <2>. QED
    BY <2>5, <2>6, <2>7, <2>8 DEF ShreddingInvariant
<1>7. CASE n # 1
  <2>1. size' = size /\ stored' = stored /\ message' = message
    BY <1>7 DEF Return, n
  <2>2. callStack' # <<>> /\ n - 1 \in 1 .. n /\ 1 \in 1 .. n - 1 /\ n - 1 + 1 = n
    BY <1>3, <1>7, EmptySeq
  <2>3. TypeOK'
    BY <1>1, <1>2, <1>3, <2>1 DEF TypeOK
  <2>4. OpenRecord' /\ RecordBoundaries'
    BY <1>1, <1>2, <2>1, <2>2 DEF OpenRecord, RecordBoundaries
  <2>5. Nested'
    <3>1. message' \in Messages /\ callStack'[1].writer = Root
      BY <1>3, <1>4, <2>1, <2>2
    <3>2. \A k \in 1 .. Len(callStack') : k \in 1 .. n /\ callStack'[k] = callStack[k]
      BY <1>3
    <3>3. \A k \in 1 .. Len(callStack') : Consistent(callStack'[k])
      BY <1>1, <3>2 DEF Nested, n
    <3>4. ASSUME NEW k \in 1 .. Len(callStack') - 1
          PROVE  \E c \in callStack'[k].seen :
                    callStack'[k + 1].writer = Append(callStack'[k].writer, c)
      <4>1. k \in 1 .. n - 1 /\ k \in 1 .. Len(callStack') /\ k + 1 \in 1 .. Len(callStack')
        BY <1>3
      <4>. QED
        BY <1>1, <3>2, <4>1 DEF Nested, n
    <3>5. ASSUME NEW k \in 1 .. Len(callStack'), NEW j \in 1 .. k
          PROVE  IsPrefix(callStack'[j].writer, callStack'[k].writer)
      <4>1. j \in 1 .. Len(callStack')
        BY <1>3
      <4>. QED
        BY <1>1, <3>2, <4>1 DEF Nested, n
    <3>. QED
      BY <3>1, <3>3, <3>4, <3>5 DEF Nested
  <2>6. StartedColumns'
    <3>. SUFFICES ASSUME NEW k \in 1 .. n - 1, NEW l \in Leaves, Owns(k, l)'
                  PROVE  Started(l)' <=> \/ callStack'[k].rep > 0
                                         \/ l[Len(callStack'[k].writer) + 1] \in callStack'[k].seen
      BY <1>3 DEF StartedColumns
    <3>1. /\ callStack'[k] = callStack[k] /\ k \in 1 .. n
          /\ IsPrefix(callStack[k].writer, l)
      BY <1>3 DEF Owns
    <3>2. Started(l)' <=> Started(l)
      BY <1>2, <2>1 DEF Started
    <3>3. CASE Owns(k, l)
      BY <1>1, <3>1, <3>2, <3>3 DEF StartedColumns, n
    <3>4. CASE ~ Owns(k, l)
      <4>1. IsPrefix(callStack[k + 1].writer, l)
        BY <3>1, <3>4 DEF Owns
      <4>2. k = n - 1
        <5>. SUFFICES ASSUME k # n - 1 PROVE FALSE
          OBVIOUS
        <5>1. k + 1 \in 1 .. n - 1 /\ k < n - 1
          BY <1>3
        <5>. QED
          BY <1>3, <4>1, <5>1 DEF Owns
      <4>3. Started(l)
        BY <1>3, <1>5, <2>2, <4>1, <4>2
      <4>4. PICK c \in callStack[k].seen : callStack[n].writer = Append(callStack[k].writer, c)
        BY <1>1, <2>2, <4>2 DEF Nested, n
      <4>5. l[Len(callStack[k].writer) + 1] = c
        <5>1. callStack[k].writer \in Seq(Nat) /\ callStack[k].seen \in SUBSET Nat
          BY <1>1, <3>1, WritersAreTypes DEF n, Frames
        <5>2. IsPrefix(Append(callStack[k].writer, c), l)
          BY <2>2, <4>1, <4>2, <4>4
        <5>3. l \in Seq(Nat) /\ c \in Nat
          BY <4>4, <5>1, PathsAreSequences
        <5>. QED
          BY <5>1, <5>2, <5>3, PrefixAppend
      <4>. QED
        BY <3>1, <3>2, <4>3, <4>4, <4>5
    <3>. QED
      BY <3>3, <3>4
  <2>. QED
    BY <2>3, <2>4, <2>5, <2>6 DEF ShreddingInvariant
<1>. QED
  BY <1>6, <1>7

-----------------------------------------------------------------------------
(* The theorems. *)

\* Every step of the inserter, and every step that leaves its state alone,
\* keeps the invariant.
LEMMA StepKeepsInvariant ==
    ShreddingInvariant /\ [ShredNext]_shredVars => ShreddingInvariant'
<1>. SUFFICES ASSUME ShreddingInvariant, [ShredNext]_shredVars
              PROVE  ShreddingInvariant'
  OBVIOUS
<1>1. CASE \E m \in Messages : Insert(m)
  BY <1>1, InsertKeepsInvariant
<1>2. CASE WriteNull
  BY <1>2, WriteNullKeepsInvariant
<1>3. CASE WriteValue
  BY <1>3, WriteValueKeepsInvariant
<1>4. CASE Descend
  BY <1>4, DescendKeepsInvariant
<1>5. CASE Return
  BY <1>5, ReturnKeepsInvariant
<1>6. CASE UNCHANGED shredVars
  BY <1>6 DEF shredVars, ShreddingInvariant, TypeOK, RecordBoundaries, OpenRecord, Nested,
              StartedColumns, Owns, Started
<1>. QED
  BY <1>1, <1>2, <1>3, <1>4, <1>5, <1>6 DEF ShredNext, ShredStep

\* The invariant of the inserter (DocumentTable::insert and the activations of
\* DissectRecordInternal) holds for every schema and every set of records.
THEOREM ShreddingInvariantHolds == ShredSpec => []ShreddingInvariant
<1>1. InitShredding => ShreddingInvariant
  BY InitEstablishesInvariant
<1>2. ShreddingInvariant /\ [ShredNext]_shredVars => ShreddingInvariant'
  BY StepKeepsInvariant
<1>. QED
  BY <1>1, <1>2, PTL DEF ShredSpec

\* insert() keeps columns, TIDs, activations and records in their types.
THEOREM ShreddingTypes == ShredSpec => []TypeOK
<1>1. ShreddingInvariant => TypeOK
  BY DEF ShreddingInvariant
<1>. QED
  BY <1>1, ShreddingInvariantHolds, PTL

\* The record TIDs that insert() stores delimit the records in every column,
\* and the shredder's repetition level 0 marks exactly those places.
THEOREM RecordsAreDelimited == ShredSpec => []RecordBoundaries
<1>1. ShreddingInvariant => RecordBoundaries
  BY DEF ShreddingInvariant
<1>. QED
  BY <1>1, ShreddingInvariantHolds, PTL

\* While insert() runs, every activation's repetition level and set of seen
\* fields tell in which of its columns the record has started.
THEOREM StartedColumnsHolds == ShredSpec => []StartedColumns
<1>1. ShreddingInvariant => StartedColumns
  BY DEF ShreddingInvariant
<1>. QED
  BY <1>1, ShreddingInvariantHolds, PTL
-----------------------------------------------------------------------------
(* The levels of a column. *)

\* A field repeats at least as deep as the fields above it.
LEMMA LevelsGrow ==
    ASSUME NEW w \in Nodes, NEW l \in Nodes, IsPrefix(w, l)
    PROVE  /\ GetMaxRepetitionLevel[w] \in Nat /\ GetMaxRepetitionLevel[l] \in Nat
           /\ GetMaxRepetitionLevel[w] <= GetMaxRepetitionLevel[l]
<1>1. w \in Seq(Nat) /\ l \in Seq(Nat) /\ Len(w) \in Nat /\ Len(l) \in Nat
  BY PathsAreSequences, LenProperties, EmptySeq DEF Nodes, Root
<1>2. Len(w) <= Len(l) /\ \A i \in 1 .. Len(w) : w[i] = l[i]
  BY <1>1, PrefixElements
<1>. DEFINE R(f) == {n \in 1 .. Len(f) : IsRepeated(Prefix(f, n))}
<1>3. GetMaxRepetitionLevel[w] = Cardinality(R(w)) /\ GetMaxRepetitionLevel[l] = Cardinality(R(l))
  BY DEF GetMaxRepetitionLevel
<1>4. ASSUME NEW n \in 1 .. Len(w) PROVE Prefix(w, n) = Prefix(l, n)
  <2>1. n \in Nat /\ n <= Len(w) /\ n <= Len(l)
    BY <1>1, <1>2
  <2>2. /\ \A i \in 1 .. n : w[i] \in Nat
        /\ \A i \in 1 .. n : l[i] \in Nat
        /\ \A i \in 1 .. n : w[i] = l[i]
    BY <1>1, <1>2, <2>1, ElementOfSeq
  <2>3. /\ Prefix(w, n) \in Seq(Nat) /\ Len(Prefix(w, n)) = n
        /\ \A i \in 1 .. n : Prefix(w, n)[i] = w[i]
    BY <2>1, <2>2, SubSeqProperties, Z3 DEF Prefix
  <2>4. /\ Prefix(l, n) \in Seq(Nat) /\ Len(Prefix(l, n)) = n
        /\ \A i \in 1 .. n : Prefix(l, n)[i] = l[i]
    BY <2>1, <2>2, SubSeqProperties, Z3 DEF Prefix
  <2>. QED
    BY <2>2, <2>3, <2>4, SeqEqual
<1>5. R(w) \in SUBSET R(l)
  BY <1>1, <1>2, <1>4
<1>6. IsFiniteSet(R(l))
  <2>1. IsFiniteSet(1 .. Len(l))
    BY <1>1, FS_Interval
  <2>2. R(l) \in SUBSET (1 .. Len(l))
    OBVIOUS
  <2>. QED
    BY <2>1, <2>2, FS_Subset
<1>. HIDE DEF R
<1>. QED
  BY <1>3, <1>5, <1>6, FS_Subset, FS_CardinalityType

\* A new row is not above the level of its column.
LEMMA RowsInRange ==
    ASSUME ShreddingInvariant, LevelsInRange, Working
    PROVE  /\ ChildRepetitionLevel(Top) \in Nat
           /\ ChildRepetitionLevel(Top) <= GetMaxRepetitionLevel[ChildWriter(Top)]
           /\ \A l \in ColumnsBelow(ChildWriter(Top)) :
                  ChildRepetitionLevel(Top) <= GetMaxRepetitionLevel[l]
<1>1. TypeOK /\ Nested
  BY DEF ShreddingInvariant
<1>2. /\ callStack \in Seq(Frames) /\ callStack # <<>>
      /\ Top = callStack[Len(callStack)] /\ Top \in Frames
      /\ ChildWriter(Top) \in Fields /\ ChildRepetitionLevel(Top) \in Nat
  BY <1>1, CursorFacts, LevelFacts
<1>3. Len(callStack) \in 1 .. Len(callStack)
  BY <1>2, StackTop
<1>4. /\ Top.writer \in Types /\ Top.writer \in Seq(Nat) /\ Top.child \in Nat /\ Top.rep \in Nat
      /\ Top.rep <= GetMaxRepetitionLevel[Top.writer]
  BY <1>2, <1>3, PathsAreSequences DEF LevelsInRange, Frames
<1>5. Top.writer \in Nodes /\ ChildWriter(Top) \in Nodes /\ IsPrefix(Top.writer, ChildWriter(Top))
  BY <1>2, <1>4, PrefixOfAppend, PathsAreSequences DEF Nodes, Types, ChildWriter
<1>6. ChildRepetitionLevel(Top) <= GetMaxRepetitionLevel[ChildWriter(Top)]
  BY <1>4, <1>5, LevelsGrow DEF ChildRepetitionLevel
<1>7. ASSUME NEW l \in ColumnsBelow(ChildWriter(Top))
      PROVE  ChildRepetitionLevel(Top) <= GetMaxRepetitionLevel[l]
  <2>1. l \in Nodes /\ IsPrefix(ChildWriter(Top), l)
    BY PathsAreSequences DEF ColumnsBelow, Nodes
  <2>. QED
    BY <1>2, <1>5, <1>6, <2>1, LevelsGrow
<1>. QED
  BY <1>2, <1>6, <1>7

\* Writing keeps the levels in range.
LEMMA WriteKeepsLevels ==
    ASSUME ShreddingInvariant, LevelsInRange, Working, Advance,
           NEW STATE row, row.r = ChildRepetitionLevel(Top),
           NEW STATE ls, ls \subseteq ColumnsBelow(ChildWriter(Top)), ColumnInsert(ls, row)
    PROVE  LevelsInRange'
<1>1. TypeOK /\ Nested
  BY DEF ShreddingInvariant
<1>2. ASSUME NEW l \in Leaves, NEW i \in 1 .. Len(columns'[l])
      PROVE  columns'[l][i].r <= GetMaxRepetitionLevel[l]
  <2>1. /\ columns[l] \in Seq(Row) /\ Len(columns[l]) \in Nat
        /\ columns'[l] = IF l \in ls THEN Append(columns[l], row) ELSE columns[l]
    BY <1>1, LenProperties DEF ColumnInsert, TypeOK
  <2>2. CASE l \in ls
    <3>1. /\ columns'[l] = Append(columns[l], row)
          /\ row.r <= GetMaxRepetitionLevel[l]
      BY <2>1, <2>2, RowsInRange
    <3>2. /\ Len(columns'[l]) = Len(columns[l]) + 1
          /\ columns'[l][Len(columns[l]) + 1] = row
          /\ \A j \in 1 .. Len(columns[l]) : columns'[l][j] = columns[l][j]
      BY <2>1, <3>1
    <3>3. CASE i = Len(columns[l]) + 1
      BY <3>1, <3>2, <3>3
    <3>4. CASE i # Len(columns[l]) + 1
      <4>1. i \in 1 .. Len(columns[l])
        BY <2>1, <3>2, <3>4
      <4>. QED
        BY <3>2, <4>1 DEF LevelsInRange
    <3>. QED
      BY <3>3, <3>4
  <2>3. CASE l \notin ls
    BY <2>1, <2>3 DEF LevelsInRange
  <2>. QED
    BY <2>2, <2>3
<1>3. ASSUME NEW k \in 1 .. Len(callStack')
      PROVE  callStack'[k].rep <= GetMaxRepetitionLevel[callStack'[k].writer]
  <2>1. /\ k \in 1 .. Len(callStack)
        /\ callStack'[k].writer = callStack[k].writer /\ callStack'[k].rep = callStack[k].rep
    BY <1>1, AdvancedStack
  <2>. QED
    BY <2>1 DEF LevelsInRange
<1>. QED
  BY <1>2, <1>3 DEF LevelsInRange

\* The activation of a group that is present.
LEMMA DescendFrame ==
    ASSUME TypeOK, Nested, Descend
    PROVE  Frame(FieldAddress(Top), ChildWriter(Top), ChildRepetitionLevel(Top)) \in Frames
<1>1. Working /\ ChildWriter(Top) \in Types
  BY DEF Descend, Types
<1>2. FieldAddress(Top) \in Seq(Nat \X Nat) /\ ChildRepetitionLevel(Top) \in Nat
  BY <1>1, CursorFacts, LevelFacts
<1>. QED
  BY <1>1, <1>2 DEF Frame, Frames

\* Every step keeps the levels in range.
LEMMA StepKeepsLevels ==
    ASSUME ShreddingInvariant, LevelsInRange, [ShredNext]_shredVars
    PROVE  LevelsInRange'
<1>1. TypeOK /\ Nested /\ callStack \in Seq(Frames)
  BY DEF ShreddingInvariant, TypeOK
<1>2. CASE WriteNull
  <2>. DEFINE row == [v |-> Default, r |-> ChildRepetitionLevel(Top),
                      d |-> NullDefinitionLevel(ChildWriter(Top))]
              ls == ColumnsBelow(ChildWriter(Top))
  <2>1. Working /\ Advance /\ row.r = ChildRepetitionLevel(Top) /\ ColumnInsert(ls, row)
        /\ ls \subseteq ColumnsBelow(ChildWriter(Top))
    BY <1>2 DEF WriteNull
  <2>. HIDE DEF row, ls
  <2>. QED
    BY <2>1, WriteKeepsLevels
<1>3. CASE WriteValue
  <2>. DEFINE row == [v |-> message[FieldAddress(Top)], r |-> ChildRepetitionLevel(Top),
                      d |-> GetDefinitionLevel[ChildWriter(Top)]]
              ls == {ChildWriter(Top)}
  <2>1. Working /\ Advance /\ row.r = ChildRepetitionLevel(Top) /\ ColumnInsert(ls, row)
        /\ ChildWriter(Top) \in Leaves
    BY <1>3 DEF WriteValue
  <2>2. ls \subseteq ColumnsBelow(ChildWriter(Top))
    BY <2>1, PathsAreSequences, LenProperties DEF IsPrefix, ColumnsBelow
  <2>. HIDE DEF row, ls
  <2>. QED
    BY <2>1, <2>2, WriteKeepsLevels
<1>4. CASE Descend
  <2>. DEFINE fr == Frame(FieldAddress(Top), ChildWriter(Top), ChildRepetitionLevel(Top))
              n == Len(callStack)
  <2>1. /\ Working /\ columns' = columns
        /\ callStack' = Append(Append(Front(callStack), NextEntry(Top)), fr)
    BY <1>4 DEF Descend
  <2>2. fr.writer = ChildWriter(Top) /\ fr.rep = ChildRepetitionLevel(Top)
    BY DEF Frame
  <2>3. /\ callStack # <<>> /\ n \in Nat \ {0} /\ Top = callStack[n]
        /\ NextEntry(Top).writer = Top.writer /\ NextEntry(Top).rep = Top.rep
        /\ fr.rep <= GetMaxRepetitionLevel[fr.writer]
    BY <1>1, <2>1, <2>2, CursorFacts, NextEntryFacts, RowsInRange, StackTop
  <2>. HIDE DEF fr
  <2>4. NextEntry(Top) \in Frames /\ fr \in Frames
    BY <1>1, <1>4, <2>1, NextEntryFacts, DescendFrame DEF fr
  <2>5. /\ Len(callStack') = n + 1
        /\ callStack'[n] = NextEntry(Top) /\ callStack'[n + 1] = fr
        /\ \A k \in 1 .. n - 1 : callStack'[k] = callStack[k]
    <3>. DEFINE t == Append(Append(Front(callStack), NextEntry(Top)), fr)
    <3>1. callStack' = t
      BY <2>1
    <3>2. /\ Len(t) = Len(callStack) + 1
          /\ t[Len(callStack)] = NextEntry(Top) /\ t[Len(callStack) + 1] = fr
          /\ \A k \in 1 .. Len(callStack) - 1 : t[k] = callStack[k]
      BY <1>1, <2>3, <2>4, StackPush
    <3>. HIDE DEF t
    <3>. QED
      BY <3>1, <3>2
  <2>6. ASSUME NEW k \in 1 .. Len(callStack')
        PROVE  callStack'[k].rep <= GetMaxRepetitionLevel[callStack'[k].writer]
    <3>1. k \in 1 .. n - 1 \/ k = n \/ k = n + 1
      BY <2>3, <2>5
    <3>2. \A j \in 1 .. n : callStack[j].rep <= GetMaxRepetitionLevel[callStack[j].writer]
      BY DEF LevelsInRange
    <3>. QED
      BY <2>3, <2>5, <3>1, <3>2
  <2>. QED
    BY <2>1, <2>6 DEF LevelsInRange
<1>5. CASE Return
  <2>1. /\ columns' = columns /\ callStack # <<>> /\ callStack' = Front(callStack)
    BY <1>5 DEF Return
  <2>2. /\ Len(callStack) \in Nat /\ Len(callStack') = Len(callStack) - 1
        /\ \A k \in 1 .. Len(callStack) - 1 : callStack'[k] = callStack[k]
    BY <1>1, <2>1, StackTop
  <2>. QED
    BY <2>1, <2>2 DEF LevelsInRange
<1>6. CASE \E m \in Messages : Insert(m)
  <2>1. columns' = columns /\ callStack' = <<Frame(<<>>, Root, 0)>>
    BY <1>6 DEF Insert
  <2>2. Frame(<<>>, Root, 0).rep = 0 /\ Frame(<<>>, Root, 0).writer = Root
    BY DEF Frame
  <2>3. GetMaxRepetitionLevel[Root] \in Nat
    BY LevelBounds DEF Nodes
  <2>. QED
    BY <2>1, <2>2, <2>3 DEF LevelsInRange
<1>7. CASE UNCHANGED shredVars
  BY <1>7 DEF shredVars, LevelsInRange
<1>. QED
  BY <1>2, <1>3, <1>4, <1>5, <1>6, <1>7 DEF ShredNext, ShredStep

\* A new table has no rows.
LEMMA InitInRange ==
    ASSUME InitShredding
    PROVE  LevelsInRange
  BY EmptySeq DEF InitShredding, InitStorage, LevelsInRange

\* Every row of a column has a repetition level up to that of the column, so that
\* the automaton has a transition for it.
THEOREM LevelsAreInRange == ShredSpec => []LevelsInRange
<1>1. InitShredding => LevelsInRange
  BY InitInRange
<1>2. ShreddingInvariant /\ LevelsInRange /\ [ShredNext]_shredVars => LevelsInRange'
  BY StepKeepsLevels
<1>. QED
  BY <1>1, <1>2, ShreddingInvariantHolds, PTL DEF ShredSpec
=============================================================================
