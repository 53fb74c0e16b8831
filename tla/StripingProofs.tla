--------------------------- MODULE StripingProofs ---------------------------
(***************************************************************************)
(* DissectRecordInternal computes what the definition of repetition and    *)
(* definition levels asks for, for every schema and every message: first   *)
(* facts about addresses and slots of a message, then the order in which   *)
(* the activations reach the slots.                                        *)
(***************************************************************************)
EXTENDS ShreddingProofs, Numbers

Addresses == Seq(Nat \X Nat)

-----------------------------------------------------------------------------
(* Addresses. *)

\* IsPrefix, element by element, for sequences of any set.
LEMMA PrefixIs ==
    ASSUME NEW S, NEW a \in Seq(S), NEW b \in Seq(S)
    PROVE  IsPrefix(a, b) <=> Len(a) <= Len(b) /\ \A i \in 1 .. Len(a) : a[i] = b[i]
<1>. DEFINE u == SubSeq(a, 1, Len(a))
            v == SubSeq(b, 1, Len(a))
<1>0. Len(a) \in Nat /\ Len(b) \in Nat
  BY LenProperties
<1>1. ASSUME Len(a) <= Len(b)
      PROVE  u = v <=> \A i \in 1 .. Len(a) : a[i] = b[i]
  <2>1. \A i \in 1 .. Len(a) : a[i] \in S /\ b[i] \in S
    BY <1>0, <1>1, ElementOfSeq
  <2>2. /\ u \in Seq(S) /\ v \in Seq(S)
        /\ Len(u) = Len(a) /\ Len(v) = Len(a)
        /\ \A i \in 1 .. Len(a) : u[i] = a[i] /\ v[i] = b[i]
    BY <1>0, <2>1, SubSeqProperties, Z3
  <2>. HIDE DEF u, v
  <2>3. (\A i \in 1 .. Len(a) : a[i] = b[i]) => u = v
    BY <2>2, SeqEqual
  <2>. QED
    BY <2>2, <2>3
<1>. QED
  BY <1>1 DEF IsPrefix

\* The same for addresses.
LEMMA AddressPrefixIs ==
    \A a, b \in Seq(Nat \X Nat) :
        IsPrefix(a, b) <=> Len(a) <= Len(b) /\ \A i \in 1 .. Len(a) : a[i] = b[i]
<1>1. PICK S : S = Nat \X Nat
  OBVIOUS
<1>2. ASSUME NEW a \in Seq(S), NEW b \in Seq(S)
      PROVE  IsPrefix(a, b) <=> Len(a) <= Len(b) /\ \A i \in 1 .. Len(a) : a[i] = b[i]
  BY PrefixIs
<1>. QED
  BY <1>1, <1>2

\* The first n steps of a sequence.
LEMMA FirstSteps ==
    ASSUME NEW S, NEW a \in Seq(S), NEW n \in Nat, n <= Len(a)
    PROVE  /\ Prefix(a, n) \in Seq(S) /\ Len(Prefix(a, n)) = n
           /\ \A i \in 1 .. n : Prefix(a, n)[i] = a[i]
           /\ IsPrefix(Prefix(a, n), a)
           /\ n = Len(a) => Prefix(a, n) = a
<1>1. Len(a) \in Nat
  BY LenProperties
<1>2. \A i \in 1 .. n : a[i] \in S
  BY <1>1, ElementOfSeq
<1>3. /\ Prefix(a, n) \in Seq(S) /\ Len(Prefix(a, n)) = n
      /\ \A i \in 1 .. n : Prefix(a, n)[i] = a[i]
  BY <1>2, SubSeqProperties, Z3 DEF Prefix
<1>4. IsPrefix(Prefix(a, n), a)
  <2>1. Len(Prefix(a, n)) <= Len(a) /\ \A i \in 1 .. Len(Prefix(a, n)) : Prefix(a, n)[i] = a[i]
    BY <1>3
  <2>. QED
    BY <1>3, <2>1, PrefixIs
<1>5. n = Len(a) => Prefix(a, n) = a
  BY SubSeqFull DEF Prefix
<1>. QED
  BY <1>3, <1>4, <1>5

\* A sequence is its front and its last step.
LEMMA LastStep ==
    ASSUME NEW S, NEW a \in Seq(S), a # <<>>
    PROVE  /\ Len(a) \in Nat \ {0} /\ Last(a) = a[Len(a)] /\ Last(a) \in S
           /\ Front(a) = Prefix(a, Len(a) - 1)
           /\ a = Append(Front(a), Last(a))
<1>1. /\ Len(a) \in Nat \ {0} /\ Last(a) = a[Len(a)] /\ Last(a) \in S
      /\ Front(a) \in Seq(S) /\ Len(Front(a)) = Len(a) - 1
      /\ \A k \in 1 .. Len(a) - 1 : Front(a)[k] = a[k]
  BY StackTop
<1>2. /\ Append(Front(a), Last(a)) \in Seq(S)
      /\ Len(Append(Front(a), Last(a))) = Len(a)
      /\ \A k \in 1 .. Len(a) - 1 : Append(Front(a), Last(a))[k] = a[k]
      /\ Append(Front(a), Last(a))[Len(a)] = a[Len(a)]
  BY <1>1, AppendProperties
<1>3. \A k \in 1 .. Len(a) : k = Len(a) \/ k \in 1 .. Len(a) - 1
  BY <1>1
<1>4. \A k \in 1 .. Len(a) : a[k] = Append(Front(a), Last(a))[k]
  BY <1>2, <1>3
<1>5. a = Append(Front(a), Last(a))
  BY <1>2, <1>4, SeqEqual
<1>. QED
  BY <1>1, <1>5 DEF Front, Prefix

\* One step more.
LEMMA OneMoreStep ==
    ASSUME NEW S, NEW a \in Seq(S), NEW n \in 1 .. Len(a)
    PROVE  Prefix(a, n) = Append(Prefix(a, n - 1), a[n])
<1>1. Len(a) \in Nat /\ n \in Nat /\ n - 1 \in Nat /\ n <= Len(a) /\ a[n] \in S
  BY LenProperties, ElementOfSeq
<1>2. /\ Prefix(a, n) \in Seq(S) /\ Len(Prefix(a, n)) = n
      /\ \A i \in 1 .. n : Prefix(a, n)[i] = a[i]
  BY <1>1, FirstSteps
<1>3. /\ Prefix(a, n - 1) \in Seq(S) /\ Len(Prefix(a, n - 1)) = n - 1
      /\ \A i \in 1 .. n - 1 : Prefix(a, n - 1)[i] = a[i]
  <2>1. n - 1 <= Len(a)
    BY <1>1
  <2>. QED
    BY <1>1, <2>1, FirstSteps
<1>. DEFINE b == Append(Prefix(a, n - 1), a[n])
<1>4. /\ b \in Seq(S) /\ Len(b) = n - 1 + 1
      /\ \A i \in 1 .. n - 1 : b[i] = Prefix(a, n - 1)[i]
      /\ b[n - 1 + 1] = a[n]
  BY <1>1, <1>3, AppendProperties
<1>5. Len(b) = n /\ \A i \in 1 .. n : i \in 1 .. n - 1 \/ i = n - 1 + 1
  BY <1>1, <1>4
<1>. HIDE DEF b
<1>6. \A i \in 1 .. n : Prefix(a, n)[i] = b[i]
  BY <1>1, <1>2, <1>3, <1>4, <1>5
<1>7. Prefix(a, n) = b
  BY <1>2, <1>4, <1>5, <1>6, SeqEqual
<1>. QED
  BY <1>7 DEF b

\* The type of an address, step by step.
LEMMA TypeOfSteps ==
    ASSUME NEW a \in Addresses
    PROVE  /\ Len(a) \in Nat
           /\ \A n \in 1 .. Len(a) :
                 /\ a[n] \in Nat \X Nat /\ a[n][1] \in Nat /\ a[n][2] \in Nat
                 /\ a[n] = <<a[n][1], a[n][2]>>
           /\ TypeOf(a) \in Seq(Nat) /\ Len(TypeOf(a)) = Len(a)
           /\ \A n \in 1 .. Len(a) : TypeOf(a)[n] = a[n][1]
<1>1. Len(a) \in Nat /\ \A n \in 1 .. Len(a) : a[n] \in Nat \X Nat
  BY LenProperties, ElementOfSeq DEF Addresses
<1>2. \A n \in 1 .. Len(a) : a[n][1] \in Nat /\ a[n][2] \in Nat /\ a[n] = <<a[n][1], a[n][2]>>
  BY <1>1
<1>3. TypeOf(a) \in [1 .. Len(a) -> Nat]
  BY <1>2 DEF TypeOf
<1>. QED
  BY <1>1, <1>2, <1>3 DEF TypeOf

\* The type of the first steps of an address are the first steps of its type.
LEMMA TypeOfPrefix ==
    ASSUME NEW a \in Addresses, NEW n \in Nat, n <= Len(a)
    PROVE  /\ Prefix(a, n) \in Addresses
           /\ TypeOf(Prefix(a, n)) = Prefix(TypeOf(a), n)
<1>1. /\ Prefix(a, n) \in Seq(Nat \X Nat) /\ Len(Prefix(a, n)) = n
      /\ \A i \in 1 .. n : Prefix(a, n)[i] = a[i]
  BY FirstSteps DEF Addresses
<1>2. /\ TypeOf(Prefix(a, n)) \in Seq(Nat) /\ Len(TypeOf(Prefix(a, n))) = n
      /\ \A i \in 1 .. n : TypeOf(Prefix(a, n))[i] = Prefix(a, n)[i][1]
  BY <1>1, TypeOfSteps DEF Addresses
<1>3. /\ Len(a) \in Nat /\ TypeOf(a) \in Seq(Nat) /\ Len(TypeOf(a)) = Len(a)
      /\ \A i \in 1 .. Len(a) : TypeOf(a)[i] = a[i][1]
  BY TypeOfSteps
<1>4. /\ Prefix(TypeOf(a), n) \in Seq(Nat) /\ Len(Prefix(TypeOf(a), n)) = n
      /\ \A i \in 1 .. n : Prefix(TypeOf(a), n)[i] = TypeOf(a)[i]
  BY <1>3, FirstSteps
<1>5. ASSUME NEW i \in 1 .. n PROVE TypeOf(Prefix(a, n))[i] = Prefix(TypeOf(a), n)[i]
  <2>1. i \in 1 .. Len(a)
    BY <1>3
  <2>. QED
    BY <1>1, <1>2, <1>3, <1>4, <2>1
<1>6. TypeOf(Prefix(a, n)) = Prefix(TypeOf(a), n)
  BY <1>2, <1>4, <1>5, SeqEqual
<1>. QED
  BY <1>1, <1>6 DEF Addresses

\* Two sequences agree on the steps they share, and share all they agree on.
LEMMA SharedSteps ==
    ASSUME NEW S, NEW f \in Seq(S), NEW g \in Seq(S)
    PROVE  LET c == Len(LongestCommonPrefix({f, g}))
           IN  /\ c \in Nat /\ c <= Len(f) /\ c <= Len(g)
               /\ \A i \in 1 .. c : f[i] = g[i]
               /\ \A n \in Nat : n <= Len(f) /\ n <= Len(g) /\ (\A i \in 1 .. n : f[i] = g[i])
                     => n <= c
<1>. DEFINE P == UNION {Prefixes(s) : s \in {f, g}}
            C == {p \in P : \A t \in {f, g} : IsPrefix(p, t)}
            longest == CHOOSE p \in C : \A other \in C : Len(other) <= Len(p)
<1>1. LongestCommonPrefix({f, g}) = longest
  BY DEF LongestCommonPrefix, CommonPrefixes
<1>2. Len(f) \in Nat /\ Len(g) \in Nat
  BY LenProperties
<1>3. ASSUME NEW p \in P PROVE p \in Seq(S) /\ Len(p) \in Nat
  <2>1. PICK s \in {f, g} : \E n \in 0 .. Len(s) : p = SubSeq(s, 1, n)
    BY DEF Prefixes
  <2>2. PICK n \in 0 .. Len(s) : p = SubSeq(s, 1, n)
    BY <2>1
  <2>3. n \in Nat /\ n <= Len(s) /\ p = Prefix(s, n)
    BY <1>2, <2>2 DEF Prefix
  <2>. QED
    BY <2>3, FirstSteps, LenProperties
<1>4. ASSUME NEW n \in Nat, n <= Len(f), n <= Len(g), \A i \in 1 .. n : f[i] = g[i]
      PROVE  Prefix(f, n) \in C /\ Len(Prefix(f, n)) = n
  <2>1. /\ Prefix(f, n) \in Seq(S) /\ Len(Prefix(f, n)) = n
        /\ \A i \in 1 .. n : Prefix(f, n)[i] = f[i]
        /\ IsPrefix(Prefix(f, n), f)
    BY <1>4, FirstSteps
  <2>2. \A i \in 1 .. n : Prefix(f, n)[i] = g[i]
    BY <1>4, <2>1
  <2>3. IsPrefix(Prefix(f, n), g)
    BY <1>4, <2>1, <2>2, PrefixIs
  <2>4. n \in 0 .. Len(f)
    BY <1>2, <1>4
  <2>5. Prefix(f, n) \in Prefixes(f)
    BY <2>4 DEF Prefixes, Prefix
  <2>. QED
    BY <2>1, <2>3, <2>5
<1>5. \A p \in C : p \in Seq(S) /\ Len(p) \in Nat /\ Len(p) <= Len(f) /\ Len(p) <= Len(g)
  BY <1>3 DEF IsPrefix
<1>. HIDE DEF P
<1>. DEFINE L == {Len(p) : p \in C}
<1>6. longest \in C /\ \A other \in C : Len(other) <= Len(longest)
  <2>0. Prefix(f, 0) \in C
    BY <1>2, <1>4
  <2>1. L \subseteq Nat /\ L # {} /\ \A n \in L : n <= Len(f)
    BY <1>5, <2>0
  <2>. HIDE DEF L
  <2>2. PICK n \in L : \A m \in L : m <= n
    BY <1>2, <2>1, GreatestNumber
  <2>3. \E p \in C : n = Len(p)
    BY <2>2 DEF L
  <2>4. PICK p \in C : n = Len(p)
    BY <2>3
  <2>5. \A other \in C : Len(other) <= Len(p)
    BY <2>2, <2>4 DEF L
  <2>. QED
    BY <2>5
<1>7. IsPrefix(longest, f) /\ IsPrefix(longest, g)
  BY <1>6
<1>8. longest \in Seq(S) /\ Len(longest) \in Nat /\ Len(longest) <= Len(f) /\ Len(longest) <= Len(g)
  BY <1>5, <1>6
<1>. HIDE DEF longest, C
<1>9. \A i \in 1 .. Len(longest) : f[i] = g[i]
  <2>1. \A i \in 1 .. Len(longest) : longest[i] = f[i] /\ longest[i] = g[i]
    BY <1>7, <1>8, PrefixIs
  <2>. QED
    BY <2>1
<1>10. ASSUME NEW n \in Nat, n <= Len(f), n <= Len(g), \A i \in 1 .. n : f[i] = g[i]
       PROVE  n <= Len(longest)
  BY <1>4, <1>6, <1>10
<1>. QED
  BY <1>1, <1>8, <1>9, <1>10

\* a and b agree up to step n, where a has a smaller occurrence.
FirstDiffer(a, b, n) ==
    /\ n \in Nat /\ 1 <= n /\ n <= Len(a) /\ n <= Len(b)
    /\ \A i \in 1 .. n - 1 : a[i] = b[i]
    /\ a[n][2] < b[n][2]

\* The order of slots is decided at the first step where they differ.
LEMMA EarlierIs ==
    ASSUME NEW a \in Addresses, NEW b \in Addresses
    PROVE  /\ Earlier(a, b) <=> \E n : FirstDiffer(a, b, n)
           /\ \A n : FirstDiffer(a, b, n) => SharedLength(a, b) = n - 1
<1>. DEFINE c == SharedLength(a, b)
<1>1. /\ c \in Nat /\ c <= Len(a) /\ c <= Len(b)
      /\ \A i \in 1 .. c : a[i] = b[i]
      /\ \A n \in Nat : n <= Len(a) /\ n <= Len(b) /\ (\A i \in 1 .. n : a[i] = b[i]) => n <= c
  BY SharedSteps DEF Addresses, SharedLength
<1>2. /\ Len(a) \in Nat /\ Len(b) \in Nat
      /\ \A n \in 1 .. Len(b) : b[n][2] \in Nat
  BY TypeOfSteps
<1>3. Earlier(a, b) <=> c < Len(a) /\ c < Len(b) /\ a[c + 1][2] < b[c + 1][2]
  BY DEF Earlier
<1>. HIDE DEF c
<1>4. ASSUME NEW n, FirstDiffer(a, b, n) PROVE c = n - 1
  <2>1. /\ n \in Nat /\ 1 <= n /\ n <= Len(a) /\ n <= Len(b)
        /\ \A i \in 1 .. n - 1 : a[i] = b[i]
        /\ a[n][2] < b[n][2] /\ b[n][2] \in Nat
    BY <1>2, <1>4 DEF FirstDiffer
  <2>2. n - 1 <= c
    <3>1. n - 1 \in Nat /\ n - 1 <= Len(a) /\ n - 1 <= Len(b)
      BY <1>2, <2>1
    <3>. QED
      BY <1>1, <2>1, <3>1
  <2>3. c < n
    <3>1. SUFFICES ASSUME n <= c PROVE FALSE
      BY <1>1, <2>1
    <3>2. n \in 1 .. c
      BY <1>1, <2>1, <3>1
    <3>3. a[n] = b[n]
      BY <1>1, <3>2
    <3>. QED
      BY <2>1, <3>3
  <2>. QED
    BY <1>1, <2>1, <2>2, <2>3
<1>5. ASSUME Earlier(a, b) PROVE FirstDiffer(a, b, c + 1)
  BY <1>1, <1>2, <1>3, <1>5 DEF FirstDiffer
<1>6. ASSUME NEW n, FirstDiffer(a, b, n) PROVE Earlier(a, b)
  <2>1. c = n - 1
    BY <1>4, <1>6
  <2>2. c + 1 = n
    BY <1>6, <2>1 DEF FirstDiffer
  <2>. QED
    BY <1>1, <1>2, <1>3, <1>6, <2>1, <2>2 DEF FirstDiffer
<1>. QED
  BY <1>4, <1>5, <1>6 DEF c

\* Nothing comes before itself, and what comes before is transitive.
LEMMA EarlierIsOrder ==
    ASSUME NEW a \in Addresses, NEW b \in Addresses, NEW c \in Addresses
    PROVE  /\ ~ Earlier(a, a)
           /\ Earlier(a, b) => ~ Earlier(b, a)
           /\ Earlier(a, b) /\ Earlier(b, c) => Earlier(a, c)
<1>1. \A d \in Addresses : Len(d) \in Nat /\ \A n \in 1 .. Len(d) : d[n][2] \in Nat
  BY TypeOfSteps
<1>2. ASSUME NEW d \in Addresses, Earlier(d, d) PROVE FALSE
  <2>1. PICK n : FirstDiffer(d, d, n)
    BY <1>2, EarlierIs
  <2>. QED
    BY <1>1, <2>1 DEF FirstDiffer
<1>3. ASSUME NEW d \in Addresses, NEW e \in Addresses, NEW f \in Addresses,
             Earlier(d, e), Earlier(e, f)
      PROVE  Earlier(d, f)
  <2>1. PICK n : FirstDiffer(d, e, n)
    BY <1>3, EarlierIs
  <2>2. PICK k : FirstDiffer(e, f, k)
    BY <1>3, EarlierIs
  <2>3. /\ n \in Nat /\ 1 <= n /\ n <= Len(d) /\ n <= Len(e) /\ d[n][2] < e[n][2]
        /\ \A i \in 1 .. n - 1 : d[i] = e[i]
        /\ d[n][2] \in Nat /\ e[n][2] \in Nat
    <3>1. n \in Nat /\ 1 <= n /\ n <= Len(d) /\ n <= Len(e)
      BY <2>1 DEF FirstDiffer
    <3>2. n \in 1 .. Len(d) /\ n \in 1 .. Len(e)
      BY <1>1, <3>1
    <3>. QED
      BY <1>1, <2>1, <3>1, <3>2 DEF FirstDiffer
  <2>4. /\ k \in Nat /\ 1 <= k /\ k <= Len(e) /\ k <= Len(f) /\ e[k][2] < f[k][2]
        /\ \A i \in 1 .. k - 1 : e[i] = f[i]
        /\ e[k][2] \in Nat /\ f[k][2] \in Nat
    <3>1. k \in Nat /\ 1 <= k /\ k <= Len(e) /\ k <= Len(f)
      BY <2>2 DEF FirstDiffer
    <3>2. k \in 1 .. Len(e) /\ k \in 1 .. Len(f)
      BY <1>1, <3>1
    <3>. QED
      BY <1>1, <2>2, <3>1, <3>2 DEF FirstDiffer
  <2>5. Len(d) \in Nat /\ Len(e) \in Nat /\ Len(f) \in Nat
    BY <1>1
  <2>6. CASE n = k
    <3>1. d[n][2] < f[n][2]
      BY <2>3, <2>4, <2>6
    <3>2. \A i \in 1 .. n - 1 : d[i] = f[i]
      BY <2>3, <2>4, <2>6
    <3>3. FirstDiffer(d, f, n)
      BY <2>3, <2>4, <2>6, <3>1, <3>2 DEF FirstDiffer
    <3>. QED
      BY <3>3, EarlierIs
  <2>7. CASE n < k
    <3>1. n \in 1 .. k - 1 /\ \A i \in 1 .. n - 1 : i \in 1 .. k - 1
      BY <2>3, <2>4, <2>7
    <3>2. e[n] = f[n] /\ \A i \in 1 .. n - 1 : d[i] = f[i]
      BY <2>3, <2>4, <3>1
    <3>3. n <= Len(f) /\ d[n][2] < f[n][2]
      BY <2>3, <2>4, <2>5, <2>7, <3>2
    <3>4. FirstDiffer(d, f, n)
      BY <2>3, <3>2, <3>3 DEF FirstDiffer
    <3>. QED
      BY <3>4, EarlierIs
  <2>8. CASE k < n
    <3>1. k \in 1 .. n - 1 /\ \A i \in 1 .. k - 1 : i \in 1 .. n - 1
      BY <2>3, <2>4, <2>8
    <3>2. d[k] = e[k] /\ \A i \in 1 .. k - 1 : d[i] = f[i]
      BY <2>3, <2>4, <3>1
    <3>3. k <= Len(d) /\ d[k][2] < f[k][2]
      BY <2>3, <2>4, <2>5, <2>8, <3>2
    <3>4. FirstDiffer(d, f, k)
      BY <2>4, <3>2, <3>3 DEF FirstDiffer
    <3>. QED
      BY <3>4, EarlierIs
  <2>. QED
    BY <2>3, <2>4, <2>6, <2>7, <2>8
<1>. QED
  BY <1>2, <1>3

-----------------------------------------------------------------------------
(* Messages. *)

\* Front and Last undo Append.
LEMMA FrontOfAppend ==
    ASSUME NEW S, NEW s \in Seq(S), NEW e \in S
    PROVE  Front(Append(s, e)) = s /\ Last(Append(s, e)) = e
<1>. DEFINE t == Append(s, e)
<1>1. t \in Seq(S) /\ t # <<>>
  BY AppendProperties
<1>2. t = Append(Front(t), Last(t)) /\ Front(t) \in Seq(S) /\ Last(t) \in S
  BY <1>1, LastStep, StackTop
<1>. HIDE DEF t
<1>3. Append(s, e) = Append(Front(t), Last(t))
  BY <1>2 DEF t
<1>4. s = Front(t) /\ e = Last(t)
  BY <1>2, <1>3, AppendInjective
<1>. QED
  BY <1>4 DEF t

\* A child has its parent's address, its field and its occurrence.
LEMMA ChildIs ==
    ASSUME NEW p \in Addresses, NEW i \in Nat, NEW k \in Nat
    PROVE  /\ Child(p, i, k) \in Addresses /\ Child(p, i, k) # <<>>
           /\ Front(Child(p, i, k)) = p /\ Last(Child(p, i, k)) = <<i, k>>
           /\ Len(Child(p, i, k)) = Len(p) + 1 /\ Len(p) \in Nat
           /\ Child(p, i, k)[Len(p) + 1] = <<i, k>>
           /\ \A n \in 1 .. Len(p) : Child(p, i, k)[n] = p[n]
           /\ TypeOf(Child(p, i, k)) = Append(TypeOf(p), i)
<1>1. <<i, k>> \in Nat \X Nat /\ p \in Seq(Nat \X Nat) /\ Len(p) \in Nat
  BY LenProperties DEF Addresses
<1>2. /\ Front(Child(p, i, k)) = p /\ Last(Child(p, i, k)) = <<i, k>>
  BY <1>1, FrontOfAppend DEF Child
<1>3. /\ Len(Child(p, i, k)) = Len(p) + 1
      /\ Child(p, i, k)[Len(p) + 1] = <<i, k>>
      /\ \A n \in 1 .. Len(p) : Child(p, i, k)[n] = p[n]
  BY <1>1, AppendProperties DEF Child
<1>4. /\ Child(p, i, k) \in Addresses /\ Child(p, i, k) # <<>>
      /\ TypeOf(Child(p, i, k)) = Append(TypeOf(p), i)
  BY <1>1, TypeOfChild DEF Addresses
<1>. QED
  BY <1>1, <1>2, <1>3, <1>4

\* An address that is not empty is a child of the address in front of it.
LEMMA AddressIsChild ==
    ASSUME NEW a \in Addresses, NEW n \in 1 .. Len(a)
    PROVE  /\ Prefix(a, n) = Child(Prefix(a, n - 1), a[n][1], a[n][2])
           /\ Prefix(a, n - 1) \in Addresses /\ a[n][1] \in Nat /\ a[n][2] \in Nat
<1>1. a \in Seq(Nat \X Nat) /\ Len(a) \in Nat /\ n - 1 \in Nat /\ n - 1 <= Len(a)
  BY LenProperties DEF Addresses
<1>2. a[n] = <<a[n][1], a[n][2]>> /\ a[n][1] \in Nat /\ a[n][2] \in Nat
  BY TypeOfSteps
<1>3. Prefix(a, n) = Append(Prefix(a, n - 1), a[n])
  BY <1>1, OneMoreStep
<1>4. Prefix(a, n - 1) \in Addresses
  BY <1>1, FirstSteps DEF Addresses
<1>. QED
  BY <1>2, <1>3, <1>4 DEF Child

\* What is present has its message around it, and all occurrences before it.
LEMMA ChildPresent ==
    ASSUME NEW m, IsMessage(m), NEW p \in Addresses, NEW i \in Nat, NEW k \in Nat,
           Child(p, i, k) \in DOMAIN m
    PROVE  /\ p \in DOMAIN m /\ 1 <= k
           /\ Append(TypeOf(p), i) \in Fields
           /\ k > 1 => IsRepeated(Append(TypeOf(p), i))
           /\ \A o \in 1 .. k : Child(p, i, o) \in DOMAIN m
<1>1. ASSUME NEW o \in Nat, Child(p, i, o) \in DOMAIN m
      PROVE  /\ p \in DOMAIN m /\ o \in Nat \ {0}
             /\ Append(TypeOf(p), i) \in Fields
             /\ o > 1 => IsRepeated(Append(TypeOf(p), i)) /\ Child(p, i, o - 1) \in DOMAIN m
  <2>. DEFINE b == Child(p, i, o)
  <2>1. b # <<>> /\ Front(b) = p /\ Last(b) = <<i, o>> /\ TypeOf(b) = Append(TypeOf(p), i)
    BY ChildIs
  <2>2. b \in DOMAIN m
    BY <1>1
  <2>. HIDE DEF b
  <2>3. /\ TypeOf(b) \in Fields /\ Front(b) \in DOMAIN m /\ Last(b)[2] \in Nat \ {0}
        /\ Last(b)[2] > 1 => IsRepeated(TypeOf(b)) /\ Child(Front(b), Last(b)[1], Last(b)[2] - 1) \in DOMAIN m
    BY <2>1, <2>2 DEF IsMessage
  <2>4. Last(b)[1] = i /\ Last(b)[2] = o
    BY <2>1
  <2>. QED
    BY <2>1, <2>3, <2>4
<1>. DEFINE missing == {o \in 1 .. k : Child(p, i, o) \notin DOMAIN m}
<1>2. missing = {}
  <2>1. SUFFICES ASSUME missing # {} PROVE FALSE
    OBVIOUS
  <2>2. missing \subseteq Nat /\ \A o \in missing : o <= k
    OBVIOUS
  <2>3. PICK o \in missing : \A x \in missing : x <= o
    BY <2>1, <2>2, GreatestNumber
  <2>4. o \in Nat /\ 1 <= o /\ o <= k /\ Child(p, i, o) \notin DOMAIN m
    BY <2>3
  <2>5. o # k
    BY <2>4
  <2>6. o + 1 \in 1 .. k /\ o + 1 \notin missing
    BY <2>2, <2>3, <2>4, <2>5
  <2>7. Child(p, i, o + 1) \in DOMAIN m
    BY <2>6
  <2>8. o + 1 > 1 /\ o + 1 - 1 = o /\ o + 1 \in Nat
    BY <2>4
  <2>9. Child(p, i, o) \in DOMAIN m
    BY <1>1, <2>7, <2>8
  <2>. QED
    BY <2>4, <2>9
<1>. QED
  BY <1>1, <1>2

\* A present address: all that is on the way to it is present, and so are the
\* occurrences before it.
LEMMA PresentAddress ==
    ASSUME NEW m, IsMessage(m), NEW a \in DOMAIN m
    PROVE  /\ a \in Addresses /\ Len(a) \in Nat
           /\ \A n \in 0 .. Len(a) : Prefix(a, n) \in DOMAIN m
           /\ \A n \in 1 .. Len(a) :
                 /\ a[n][1] \in Nat /\ a[n][2] \in Nat /\ 1 <= a[n][2]
                 /\ Prefix(TypeOf(a), n) \in Fields
                 /\ a[n][2] > 1 => IsRepeated(Prefix(TypeOf(a), n))
                 /\ \A o \in 1 .. a[n][2] : Child(Prefix(a, n - 1), a[n][1], o) \in DOMAIN m
           /\ TypeOf(a) \in Nodes
<1>1. a \in Addresses /\ Len(a) \in Nat
  BY TypeOfSteps DEF IsMessage, Addresses
<1>2. ASSUME NEW n \in 1 .. Len(a), Prefix(a, n) \in DOMAIN m
      PROVE  /\ Prefix(a, n - 1) \in DOMAIN m
             /\ a[n][1] \in Nat /\ a[n][2] \in Nat /\ 1 <= a[n][2]
             /\ Prefix(TypeOf(a), n) \in Fields
             /\ a[n][2] > 1 => IsRepeated(Prefix(TypeOf(a), n))
             /\ \A o \in 1 .. a[n][2] : Child(Prefix(a, n - 1), a[n][1], o) \in DOMAIN m
  <2>1. /\ Prefix(a, n) = Child(Prefix(a, n - 1), a[n][1], a[n][2])
        /\ Prefix(a, n - 1) \in Addresses /\ a[n][1] \in Nat /\ a[n][2] \in Nat
    BY <1>1, AddressIsChild
  <2>2. /\ Prefix(a, n - 1) \in DOMAIN m /\ 1 <= a[n][2]
        /\ Append(TypeOf(Prefix(a, n - 1)), a[n][1]) \in Fields
        /\ a[n][2] > 1 => IsRepeated(Append(TypeOf(Prefix(a, n - 1)), a[n][1]))
        /\ \A o \in 1 .. a[n][2] : Child(Prefix(a, n - 1), a[n][1], o) \in DOMAIN m
    BY <1>2, <2>1, ChildPresent
  <2>3. Append(TypeOf(Prefix(a, n - 1)), a[n][1]) = Prefix(TypeOf(a), n)
    <3>1. TypeOf(Prefix(a, n)) = Append(TypeOf(Prefix(a, n - 1)), a[n][1])
      <4>1. ASSUME NEW p \in Addresses, NEW i \in Nat, NEW k \in Nat
            PROVE  TypeOf(Child(p, i, k)) = Append(TypeOf(p), i)
        BY ChildIs
      <4>. QED
        BY <2>1, <4>1, Zenon
    <3>2. TypeOf(Prefix(a, n)) = Prefix(TypeOf(a), n)
      <4>1. n \in Nat /\ n <= Len(a)
        BY <1>1
      <4>. QED
        BY <1>1, <4>1, TypeOfPrefix
    <3>. QED
      BY <3>1, <3>2
  <2>. QED
    BY <2>1, <2>2, <2>3
<1>. DEFINE missing == {n \in 0 .. Len(a) : Prefix(a, n) \notin DOMAIN m}
<1>3. missing = {}
  <2>1. SUFFICES ASSUME missing # {} PROVE FALSE
    OBVIOUS
  <2>2. missing \subseteq Nat /\ \A n \in missing : n <= Len(a)
    BY <1>1
  <2>3. PICK n \in missing : \A x \in missing : x <= n
    BY <1>1, <2>1, <2>2, GreatestNumber
  <2>4. n \in Nat /\ n <= Len(a) /\ Prefix(a, n) \notin DOMAIN m
    BY <1>1, <2>3
  <2>5. n # Len(a)
    BY <1>1, <2>4, FirstSteps DEF Addresses
  <2>6. n + 1 \in 0 .. Len(a) /\ n + 1 \notin missing /\ n + 1 \in 1 .. Len(a) /\ n + 1 - 1 = n
    BY <1>1, <2>2, <2>3, <2>4, <2>5
  <2>7. Prefix(a, n) \in DOMAIN m
    BY <1>2, <2>6
  <2>. QED
    BY <2>4, <2>7
<1>4. \A n \in 0 .. Len(a) : Prefix(a, n) \in DOMAIN m
  BY <1>3
<1>5. \A n \in 1 .. Len(a) : Prefix(a, n) \in DOMAIN m
  BY <1>1, <1>4
<1>6. TypeOf(a) \in Nodes
  <2>1. CASE a = <<>>
    <3>1. TypeOf(a) \in Seq(Nat) /\ Len(TypeOf(a)) = 0
      BY <1>1, <2>1, TypeOfSteps, EmptySeq
    <3>. QED
      BY <3>1, EmptySeq DEF Nodes, Root
  <2>2. CASE a # <<>>
    BY <2>2 DEF IsMessage, Nodes
  <2>. QED
    BY <2>1, <2>2
<1>. QED
  BY <1>1, <1>2, <1>4, <1>5, <1>6

\* FieldSize counts the occurrences, which have no gaps.
LEMMA FieldSizeIs ==
    ASSUME NEW m, IsMessage(m), NEW p \in Addresses, NEW i \in Nat
    PROVE  /\ FieldSize(m, p, i) \in Nat
           /\ \A o \in Nat : Child(p, i, o) \in DOMAIN m <=> 1 <= o /\ o <= FieldSize(m, p, i)
<1>. DEFINE B == {b \in DOMAIN m : b # <<>> /\ Last(b)[1] = i /\ Front(b) = p}
            O == {o \in Nat : Child(p, i, o) \in DOMAIN m}
            occurrence == [b \in B |-> Last(b)[2]]
<1>1. IsFiniteSet(B)
  <2>1. IsFiniteSet(DOMAIN m) /\ B \in SUBSET DOMAIN m
    BY DEF IsMessage
  <2>. HIDE DEF B
  <2>. QED
    BY <2>1, FS_Subset
<1>2. ASSUME NEW b \in B
      PROVE  /\ Last(b)[2] \in O /\ b = Child(p, i, Last(b)[2])
  <2>1. b \in Addresses /\ b # <<>> /\ b \in DOMAIN m
    BY DEF IsMessage, Addresses
  <2>2. b = Append(Front(b), Last(b)) /\ Last(b) \in Nat \X Nat
    BY <2>1, LastStep DEF Addresses
  <2>3. Last(b) = <<i, Last(b)[2]>> /\ Last(b)[2] \in Nat
    BY <2>2
  <2>4. b = Child(p, i, Last(b)[2])
    BY <2>2, <2>3 DEF Child
  <2>. QED
    BY <2>1, <2>3, <2>4
<1>3. ASSUME NEW o \in O
      PROVE  Child(p, i, o) \in B /\ Last(Child(p, i, o))[2] = o
  <2>1. /\ Child(p, i, o) # <<>> /\ Front(Child(p, i, o)) = p /\ Last(Child(p, i, o)) = <<i, o>>
    BY ChildIs
  <2>. QED
    BY <2>1
<1>4. occurrence \in Bijection(B, O)
  <2>1. occurrence \in [B -> O]
    BY <1>2
  <2>2. \A b, c \in B : occurrence[b] = occurrence[c] => b = c
    BY <1>2
  <2>3. \A o \in O : \E b \in B : occurrence[b] = o
    BY <1>3
  <2>. HIDE DEF occurrence, B, O
  <2>. QED
    BY <2>1, <2>2, <2>3 DEF Bijection, Injection, Surjection, IsInjective
<1>5. IsFiniteSet(O) /\ Cardinality(O) = Cardinality(B) /\ Cardinality(O) \in Nat
  <2>. HIDE DEF occurrence, B, O
  <2>1. ExistsBijection(B, O)
    BY <1>4 DEF ExistsBijection
  <2>. QED
    BY <1>1, <2>1, FS_Bijection, FS_CardinalityType
<1>6. ASSUME NEW o \in O
      PROVE  1 <= o /\ 1 .. o \subseteq O /\ o <= Cardinality(O)
  <2>1. o \in Nat /\ 1 <= o /\ \A x \in 1 .. o : Child(p, i, x) \in DOMAIN m
    BY ChildPresent
  <2>2. 1 .. o \in SUBSET O
    BY <2>1
  <2>. HIDE DEF O
  <2>3. Cardinality(1 .. o) = o
    <3>1. Cardinality(1 .. o) = IF 1 > o THEN 0 ELSE o - 1 + 1
      BY <2>1, FS_Interval
    <3>. QED
      BY <2>1, <3>1
  <2>4. Cardinality(1 .. o) <= Cardinality(O)
    BY <1>5, <2>2, FS_Subset
  <2>. QED
    BY <2>1, <2>2, <2>3, <2>4
<1>7. FieldSize(m, p, i) = Cardinality(O)
  BY <1>5 DEF FieldSize
<1>8. O \subseteq Nat
  OBVIOUS
<1>9. \A o \in Nat : o \in O <=> 1 <= o /\ o <= Cardinality(O)
  <2>1. CASE O = {}
    <3>1. Cardinality(O) = 0
      BY <2>1, FS_EmptySet
    <3>. QED
      BY <2>1, <3>1
  <2>2. CASE O # {}
    <3>. HIDE DEF O
    <3>1. PICK x \in O : \A y \in O : y <= x
      BY <1>5, <1>6, <1>8, <2>2, GreatestNumber
    <3>2. O = 1 .. x /\ x \in Nat /\ 1 <= x
      <4>1. x \in Nat /\ 1 <= x /\ 1 .. x \subseteq O
        BY <1>6, <1>8
      <4>2. ASSUME NEW y \in O PROVE y \in 1 .. x
        <5>1. y \in Nat /\ 1 <= y /\ y <= x
          BY <1>6, <1>8, <3>1
        <5>. QED
          BY <4>1, <5>1
      <4>. QED
        BY <4>1, <4>2
    <3>3. Cardinality(1 .. x) = IF 1 > x THEN 0 ELSE x - 1 + 1
      BY <3>2, FS_Interval
    <3>4. Cardinality(O) = x
      BY <3>2, <3>3
    <3>. QED
      BY <3>2, <3>4
  <2>. QED
    BY <2>1, <2>2
<1>. QED
  BY <1>5, <1>7, <1>9

-----------------------------------------------------------------------------
(* Slots and their order. *)

\* Prefixes of prefixes, and what strictly extends a sequence is longer.
LEMMA PrefixChain ==
    ASSUME NEW S, NEW a \in Seq(S), NEW b \in Seq(S), IsPrefix(a, b)
    PROVE  /\ \A c \in Seq(S) : IsPrefix(b, c) => IsPrefix(a, c)
           /\ a # b => Len(a) < Len(b)
           /\ Prefix(b, Len(a)) = a
<1>1. Len(a) \in Nat /\ Len(b) \in Nat /\ Len(a) <= Len(b) /\ \A i \in 1 .. Len(a) : a[i] = b[i]
  BY LenProperties, PrefixIs
<1>2. ASSUME NEW c \in Seq(S), IsPrefix(b, c) PROVE IsPrefix(a, c)
  <2>1. Len(c) \in Nat /\ Len(b) <= Len(c) /\ \A i \in 1 .. Len(b) : b[i] = c[i]
    BY <1>2, LenProperties, PrefixIs
  <2>2. \A i \in 1 .. Len(a) : i \in 1 .. Len(b)
    BY <1>1
  <2>3. Len(a) <= Len(c) /\ \A i \in 1 .. Len(a) : a[i] = c[i]
    BY <1>1, <2>1, <2>2
  <2>. QED
    BY <2>3, PrefixIs
<1>3. Len(a) = Len(b) => a = b
  BY <1>1, SeqEqual
<1>4. Prefix(b, Len(a)) = a
  <2>1. /\ Prefix(b, Len(a)) \in Seq(S) /\ Len(Prefix(b, Len(a))) = Len(a)
        /\ \A i \in 1 .. Len(a) : Prefix(b, Len(a))[i] = b[i]
    BY <1>1, FirstSteps
  <2>2. \A i \in 1 .. Len(a) : Prefix(b, Len(a))[i] = a[i]
    BY <1>1, <2>1
  <2>. QED
    BY <2>1, <2>2, SeqEqual
<1>. QED
  BY <1>1, <1>2, <1>3, <1>4

\* The path to a leaf.
LEMMA LeafPath ==
    ASSUME NEW l \in Leaves
    PROVE  /\ l \in Seq(Nat) /\ l \in Fields /\ l \in Nodes /\ Len(l) \in Nat
           /\ \A n \in 1 .. Len(l) : l[n] \in Nat
<1>1. l \in Seq(Nat) /\ l \in Fields
  BY PathsAreSequences
<1>. QED
  BY <1>1, LenProperties, ElementOfSeq DEF Nodes

\* What is on the path to a leaf, step by step.
LEMMA OnPathIs ==
    ASSUME NEW m, IsMessage(m), NEW l \in Leaves, NEW a
    PROVE  a \in OnPath(m, l) <=> /\ a \in DOMAIN m /\ Len(a) <= Len(l)
                                  /\ \A n \in 1 .. Len(a) : a[n][1] = l[n]
<1>1. ASSUME a \in DOMAIN m
      PROVE  IsPrefix(TypeOf(a), l) <=> Len(a) <= Len(l) /\ \A n \in 1 .. Len(a) : a[n][1] = l[n]
  <2>1. /\ TypeOf(a) \in Seq(Nat) /\ Len(TypeOf(a)) = Len(a)
        /\ \A n \in 1 .. Len(a) : TypeOf(a)[n] = a[n][1]
    BY <1>1, PresentAddress, TypeOfSteps
  <2>2. l \in Seq(Nat)
    BY LeafPath
  <2>. QED
    BY <2>1, <2>2, PrefixIs
<1>. QED
  BY <1>1 DEF OnPath

\* A slot is on the path and has nothing on the path below it.
LEMMA SlotIs ==
    ASSUME NEW m, IsMessage(m), NEW l \in Leaves, NEW a \in OnPath(m, l)
    PROVE  /\ a \in Addresses /\ Len(a) \in Nat /\ Len(a) <= Len(l)
           /\ a \in Slots(m, l) <=> (Len(a) < Len(l) => Child(a, l[Len(a) + 1], 1) \notin DOMAIN m)
<1>1. /\ a \in DOMAIN m /\ Len(a) <= Len(l) /\ \A n \in 1 .. Len(a) : a[n][1] = l[n]
      /\ a \in Addresses /\ Len(a) \in Nat /\ Len(l) \in Nat /\ \A n \in 1 .. Len(l) : l[n] \in Nat
  BY OnPathIs, PresentAddress, LeafPath
<1>2. ASSUME Len(a) < Len(l), Child(a, l[Len(a) + 1], 1) \in DOMAIN m
      PROVE  a \notin Slots(m, l)
  <2>1. PICK i \in Nat : i = l[Len(a) + 1]
    BY <1>1, <1>2
  <2>. DEFINE b == Child(a, i, 1)
  <2>2. /\ b \in Addresses /\ Len(b) = Len(a) + 1 /\ b[Len(a) + 1] = <<i, 1>>
        /\ \A n \in 1 .. Len(a) : b[n] = a[n]
    <3>1. a \in Addresses /\ i \in Nat /\ 1 \in Nat
      BY <1>1
    <3>. QED
      BY <3>1, ChildIs
  <2>3. b \in DOMAIN m
    BY <1>2, <2>1
  <2>. HIDE DEF b
  <2>4. \A n \in 1 .. Len(b) : b[n][1] = l[n]
    <3>1. b[Len(a) + 1][1] = l[Len(a) + 1]
      BY <2>1, <2>2
    <3>2. \A n \in 1 .. Len(b) : n = Len(a) + 1 \/ n \in 1 .. Len(a)
      BY <1>1, <2>2
    <3>. QED
      BY <1>1, <2>2, <3>1, <3>2
  <2>5. b \in OnPath(m, l)
    BY <1>1, <1>2, <2>2, <2>3, <2>4, OnPathIs
  <2>6. Len(a) <= Len(b) /\ \A n \in 1 .. Len(a) : a[n] = b[n]
    BY <1>1, <2>2
  <2>7. IsPrefix(a, b)
    BY <1>1, <2>2, <2>6, PrefixIs DEF Addresses
  <2>8. a # b
    BY <1>1, <2>2
  <2>. QED
    BY <2>5, <2>7, <2>8 DEF Slots, IsStrictPrefix
<1>3. ASSUME NEW b \in OnPath(m, l), IsStrictPrefix(a, b)
      PROVE  Len(a) < Len(l) /\ Child(a, l[Len(a) + 1], 1) \in DOMAIN m
  <2>1. /\ b \in DOMAIN m /\ Len(b) <= Len(l) /\ \A n \in 1 .. Len(b) : b[n][1] = l[n]
        /\ b \in Addresses /\ Len(b) \in Nat
    BY OnPathIs, PresentAddress
  <2>2. Len(a) < Len(b) /\ Prefix(b, Len(a)) = a
    BY <1>1, <1>3, <2>1, PrefixChain DEF IsStrictPrefix, Addresses
  <2>3. PICK n \in 1 .. Len(b) : n = Len(a) + 1
    BY <1>1, <2>1, <2>2
  <2>4. n - 1 = Len(a) /\ b[n][1] = l[n]
    BY <1>1, <2>1, <2>3
  <2>5. 1 <= b[n][2] /\ b[n][2] \in Nat /\ \A o \in 1 .. b[n][2] : Child(Prefix(b, n - 1), b[n][1], o) \in DOMAIN m
    BY <2>1, PresentAddress
  <2>6. Child(Prefix(b, n - 1), b[n][1], 1) \in DOMAIN m
    BY <2>5
  <2>7. Child(a, l[Len(a) + 1], 1) \in DOMAIN m
    BY <2>2, <2>3, <2>4, <2>6
  <2>. QED
    BY <1>1, <2>1, <2>2, <2>7
<1>. QED
  BY <1>1, <1>2, <1>3 DEF Slots

\* A slot is the whole of what is on its path.
LEMMA NothingBelowSlot ==
    ASSUME NEW m, NEW l, NEW s \in Slots(m, l), NEW b \in OnPath(m, l), IsPrefix(s, b)
    PROVE  s = b
  BY DEF Slots, IsStrictPrefix

\* Everything on the path ends in some slot.
LEMMA SlotBelow ==
    ASSUME NEW m, IsMessage(m), NEW l \in Leaves, NEW b \in OnPath(m, l)
    PROVE  \E t \in Slots(m, l) : IsPrefix(b, t)
<1>. DEFINE C == {c \in OnPath(m, l) : IsPrefix(b, c)}
            L == {Len(c) : c \in C}
<1>1. \A c \in OnPath(m, l) : c \in Addresses /\ Len(c) \in Nat /\ Len(c) <= Len(l)
  BY SlotIs
<1>2. Len(l) \in Nat
  BY LeafPath
<1>3. b \in C
  <2>1. b \in Seq(Nat \X Nat) /\ Len(b) \in Nat
    BY <1>1 DEF Addresses
  <2>2. IsPrefix(b, b)
    BY <2>1, PrefixIs
  <2>. QED
    BY <2>2
<1>4. L \subseteq Nat /\ L # {} /\ \A n \in L : n <= Len(l)
  BY <1>1, <1>3
<1>. HIDE DEF L
<1>5. PICK n \in L : \A x \in L : x <= n
  BY <1>2, <1>4, GreatestNumber
<1>6. PICK c \in C : n = Len(c)
  BY <1>5 DEF L
<1>7. ASSUME NEW d \in OnPath(m, l), IsStrictPrefix(c, d) PROVE FALSE
  <2>1. b \in Seq(Nat \X Nat) /\ c \in Seq(Nat \X Nat) /\ d \in Seq(Nat \X Nat)
    BY <1>1 DEF Addresses
  <2>2. Len(c) < Len(d) /\ IsPrefix(b, d)
    BY <1>6, <1>7, <2>1, PrefixChain DEF IsStrictPrefix
  <2>3. Len(d) \in L
    BY <2>2 DEF L
  <2>4. Len(d) <= Len(c) /\ Len(c) \in Nat /\ Len(d) \in Nat
    BY <1>1, <1>5, <1>6, <2>3
  <2>. QED
    BY <2>2, <2>4
<1>8. c \in Slots(m, l) /\ IsPrefix(b, c)
  BY <1>6, <1>7 DEF Slots
<1>. QED
  BY <1>8

\* Of two slots of a column one comes before the other.
LEMMA SlotsAreOrdered ==
    ASSUME NEW m, IsMessage(m), NEW l \in Leaves, NEW s \in Slots(m, l), NEW t \in Slots(m, l), s # t
    PROVE  Earlier(s, t) \/ Earlier(t, s)
<1>1. ASSUME NEW a \in Slots(m, l)
      PROVE  /\ a \in OnPath(m, l) /\ a \in Addresses /\ Len(a) \in Nat
             /\ \A n \in 1 .. Len(a) : a[n][1] = l[n]
             /\ \A n \in 1 .. Len(a) : a[n][2] \in Nat /\ a[n] = <<a[n][1], a[n][2]>>
  <2>1. a \in OnPath(m, l)
    BY DEF Slots
  <2>2. a \in DOMAIN m /\ \A n \in 1 .. Len(a) : a[n][1] = l[n]
    BY <2>1, OnPathIs
  <2>. QED
    BY <2>1, <2>2, PresentAddress, TypeOfSteps
<1>. DEFINE D == {n \in 1 .. Len(s) : n <= Len(t) /\ s[n] # t[n]}
<1>2. D # {}
  <2>1. SUFFICES ASSUME D = {} PROVE FALSE
    OBVIOUS
  <2>4. Len(s) \in Nat /\ Len(t) \in Nat
    BY <1>1
  <2>5. \A n \in 1 .. Len(s) : n <= Len(t) => s[n] = t[n]
    BY <2>1
  <2>2. CASE Len(s) <= Len(t)
    <3>1. \A n \in 1 .. Len(s) : s[n] = t[n]
      BY <2>4, <2>5, <2>2
    <3>2. IsPrefix(s, t)
      BY <1>1, <2>2, <3>1, PrefixIs DEF Addresses
    <3>. QED
      BY <1>1, <3>2, NothingBelowSlot
  <2>3. CASE Len(t) <= Len(s)
    <3>1. \A n \in 1 .. Len(t) : t[n] = s[n]
      BY <2>4, <2>5, <2>3
    <3>2. IsPrefix(t, s)
      BY <1>1, <2>3, <3>1, PrefixIs DEF Addresses
    <3>. QED
      BY <1>1, <3>2, NothingBelowSlot
  <2>. QED
    BY <1>1, <2>2, <2>3
<1>3. D \subseteq Nat
  OBVIOUS
<1>4. PICK n \in D : \A x \in D : n <= x
  BY <1>2, <1>3, LeastNumber
<1>5. n \in Nat /\ 1 <= n /\ n <= Len(s) /\ n <= Len(t) /\ s[n] # t[n]
  BY <1>1, <1>4
<1>6. n \in 1 .. Len(s) /\ n \in 1 .. Len(t)
  BY <1>1, <1>5
<1>7. \A i \in 1 .. n - 1 : s[i] = t[i]
  <2>1. SUFFICES ASSUME NEW i \in 1 .. n - 1, s[i] # t[i] PROVE FALSE
    OBVIOUS
  <2>2. i \in D
    BY <1>1, <1>5, <2>1
  <2>3. n <= i
    BY <1>4, <2>2
  <2>. QED
    BY <1>5, <2>3
<1>8. s[n][2] # t[n][2]
  <2>1. s[n] = <<s[n][1], s[n][2]>> /\ s[n][1] = l[n]
    BY <1>1, <1>6
  <2>2. t[n] = <<t[n][1], t[n][2]>> /\ t[n][1] = l[n]
    BY <1>1, <1>6
  <2>3. s[n][2] = t[n][2] => s[n] = t[n]
    BY <2>1, <2>2, Zenon
  <2>. QED
    BY <1>5, <2>3
<1>9. s[n][2] \in Nat /\ t[n][2] \in Nat
  BY <1>1, <1>6
<1>10. CASE s[n][2] < t[n][2]
  <2>1. FirstDiffer(s, t, n)
    BY <1>5, <1>7, <1>10 DEF FirstDiffer
  <2>. QED
    BY <1>1, <2>1, EarlierIs
<1>11. CASE t[n][2] < s[n][2]
  <2>1. FirstDiffer(t, s, n)
    BY <1>5, <1>7, <1>11 DEF FirstDiffer
  <2>. QED
    BY <1>1, <2>1, EarlierIs
<1>. QED
  BY <1>8, <1>9, <1>10, <1>11

\* How many slots come before slot s.
Place(m, l, s) == Cardinality(SlotsBefore(m, l, s))

\* A record has finitely many slots in a column.
LEMMA SlotsAreFinite ==
    ASSUME NEW m, IsMessage(m), NEW l \in Leaves
    PROVE  /\ IsFiniteSet(Slots(m, l)) /\ Cardinality(Slots(m, l)) \in Nat
           /\ Slots(m, l) \subseteq OnPath(m, l) /\ Slots(m, l) \subseteq DOMAIN m
           /\ Slots(m, l) \subseteq Addresses
           /\ \A s \in Slots(m, l) : Len(s) \in Nat /\ Len(s) <= Len(l)
<1>1. Slots(m, l) \subseteq OnPath(m, l) /\ OnPath(m, l) \subseteq DOMAIN m
  BY DEF Slots, OnPath
<1>2. Slots(m, l) \in SUBSET DOMAIN m /\ IsFiniteSet(DOMAIN m)
  BY <1>1 DEF IsMessage
<1>3. IsFiniteSet(Slots(m, l)) /\ Cardinality(Slots(m, l)) \in Nat
  BY <1>2, FS_Subset, FS_CardinalityType
<1>. QED
  BY <1>1, <1>3, SlotIs

\* The places of the slots agree with their order.
LEMMA PlacesAreOrdered ==
    ASSUME NEW m, IsMessage(m), NEW l \in Leaves, NEW s \in Slots(m, l)
    PROVE  /\ IsFiniteSet(SlotsBefore(m, l, s))
           /\ Place(m, l, s) \in Nat /\ Place(m, l, s) < Cardinality(Slots(m, l))
           /\ \A t \in Slots(m, l) : Earlier(s, t) => Place(m, l, s) < Place(m, l, t)
           /\ \A t \in Slots(m, l) : Place(m, l, s) = Place(m, l, t) => s = t
<1>1. /\ IsFiniteSet(Slots(m, l)) /\ Cardinality(Slots(m, l)) \in Nat
      /\ Slots(m, l) \subseteq Addresses
  BY SlotsAreFinite
<1>2. ASSUME NEW t \in Slots(m, l)
      PROVE  /\ IsFiniteSet(SlotsBefore(m, l, t)) /\ Place(m, l, t) \in Nat
             /\ SlotsBefore(m, l, t) \subseteq Slots(m, l)
             /\ t \notin SlotsBefore(m, l, t)
  <2>1. SlotsBefore(m, l, t) \in SUBSET Slots(m, l)
    BY DEF SlotsBefore
  <2>2. t \notin SlotsBefore(m, l, t)
    BY <1>1, EarlierIsOrder DEF SlotsBefore
  <2>. QED
    BY <1>1, <2>1, <2>2, FS_Subset, FS_CardinalityType DEF Place
<1>3. ASSUME NEW B, IsFiniteSet(B), NEW A \in SUBSET B, NEW x \in B, x \notin A
      PROVE  Cardinality(A) < Cardinality(B)
  <2>1. Cardinality(A) <= Cardinality(B) /\ (Cardinality(B) = Cardinality(A) => B = A) /\ IsFiniteSet(A)
    BY <1>3, FS_Subset
  <2>2. Cardinality(A) \in Nat /\ Cardinality(B) \in Nat
    BY <1>3, <2>1, FS_CardinalityType
  <2>. QED
    BY <1>3, <2>1, <2>2
<1>4. Place(m, l, s) < Cardinality(Slots(m, l))
  BY <1>1, <1>2, <1>3 DEF Place
<1>5. ASSUME NEW u \in Slots(m, l), NEW t \in Slots(m, l), Earlier(u, t)
      PROVE  Place(m, l, u) < Place(m, l, t)
  <2>1. u \in SlotsBefore(m, l, t)
    BY <1>5 DEF SlotsBefore
  <2>2. SlotsBefore(m, l, u) \in SUBSET SlotsBefore(m, l, t)
    <3>1. ASSUME NEW v \in Slots(m, l), Earlier(v, u) PROVE Earlier(v, t)
      <4>1. v \in Addresses /\ u \in Addresses /\ t \in Addresses
        BY <1>1
      <4>. QED
        BY <1>5, <3>1, <4>1, EarlierIsOrder
    <3>. QED
      BY <3>1 DEF SlotsBefore
  <2>. QED
    BY <1>2, <1>3, <2>1, <2>2 DEF Place
<1>6. ASSUME NEW t \in Slots(m, l), Place(m, l, s) = Place(m, l, t) PROVE s = t
  <2>1. SUFFICES ASSUME s # t PROVE FALSE
    OBVIOUS
  <2>2. Earlier(s, t) \/ Earlier(t, s)
    BY <2>1, SlotsAreOrdered
  <2>3. Place(m, l, s) < Place(m, l, t) \/ Place(m, l, t) < Place(m, l, s)
    BY <1>5, <2>2
  <2>. QED
    BY <1>2, <1>6, <2>3
<1>. QED
  BY <1>2, <1>4, <1>5, <1>6

\* A function on 1 .. n is a sequence of length n.
LEMMA TableIsSequence ==
    ASSUME NEW n \in Nat, NEW T, NEW f \in [1 .. n -> T]
    PROVE  f \in Seq(T) /\ Len(f) = n
<1>1. f \in Seq(T)
  BY SeqDef
<1>2. DOMAIN f = 1 .. Len(f) /\ DOMAIN f = 1 .. n /\ Len(f) \in Nat
  BY <1>1, LenProperties
<1>. QED
  BY <1>1, <1>2

\* A slot stands at its place.
LEMMA OrderedSlotsIs ==
    ASSUME NEW m, IsMessage(m), NEW l \in Leaves
    PROVE  /\ Len(OrderedSlots(m, l)) = Cardinality(Slots(m, l))
           /\ \A s \in Slots(m, l) : OrderedSlots(m, l)[Place(m, l, s) + 1] = s
<1>. DEFINE before == [a \in Slots(m, l) |-> Cardinality(SlotsBefore(m, l, a))]
            at(n) == CHOOSE a \in DOMAIN before : before[a] = n - 1
            N == Cardinality(DOMAIN before)
            order == [n \in 1 .. N |-> at(n)]
            T == {at(n) : n \in 1 .. N}
<1>1. DOMAIN before = Slots(m, l) /\ \A a \in Slots(m, l) : before[a] = Place(m, l, a)
  BY DEF Place
<1>2. OrderedSlots(m, l) = order
  BY DEF OrderedSlots
<1>3. N = Cardinality(Slots(m, l)) /\ N \in Nat
  BY <1>1, SlotsAreFinite
<1>. HIDE DEF before
<1>4. order \in [1 .. N -> T]
  OBVIOUS
<1>5. Len(order) = N
  <2>. HIDE DEF order, N, T
  <2>. QED
    BY <1>3, <1>4, TableIsSequence
<1>6. ASSUME NEW s \in Slots(m, l) PROVE order[Place(m, l, s) + 1] = s
  <2>1. Place(m, l, s) \in Nat /\ Place(m, l, s) < Cardinality(Slots(m, l))
    BY PlacesAreOrdered
  <2>2. PICK n \in 1 .. N : n = Place(m, l, s) + 1 /\ n - 1 = Place(m, l, s)
    BY <1>3, <2>1
  <2>3. \A a \in DOMAIN before : before[a] = n - 1 => a = s
    BY <1>1, <2>2, PlacesAreOrdered
  <2>4. s \in DOMAIN before /\ before[s] = n - 1
    BY <1>1, <2>2
  <2>5. at(n) = s
    BY <2>3, <2>4
  <2>6. order[n] = at(n)
    OBVIOUS
  <2>. QED
    BY <2>2, <2>5, <2>6
<1>. QED
  BY <1>2, <1>3, <1>5, <1>6

\* A slot that is not the first has one right before it.
LEMMA SlotRightBefore ==
    ASSUME NEW m, IsMessage(m), NEW l \in Leaves, NEW s \in Slots(m, l), SlotsBefore(m, l, s) # {}
    PROVE  \E q \in SlotsBefore(m, l, s) :
               /\ Place(m, l, s) = Place(m, l, q) + 1
               /\ \A t \in SlotsBefore(m, l, s) : t = q \/ Earlier(t, q)
<1>. DEFINE B == SlotsBefore(m, l, s)
            P == {Place(m, l, t) : t \in B}
<1>1. \A t \in B : t \in Slots(m, l) /\ Earlier(t, s)
  BY DEF SlotsBefore
<1>2. /\ Slots(m, l) \subseteq Addresses
      /\ \A t \in Slots(m, l) : Place(m, l, t) \in Nat
  BY SlotsAreFinite, PlacesAreOrdered
<1>3. \A t \in B : Place(m, l, t) <= Place(m, l, s) /\ Place(m, l, t) \in Nat
  BY <1>1, <1>2, PlacesAreOrdered
<1>. HIDE DEF B
<1>4. P \subseteq Nat /\ P # {} /\ \A n \in P : n <= Place(m, l, s)
  BY <1>3 DEF B
<1>. HIDE DEF P
<1>5. PICK n \in P : \A x \in P : x <= n
  BY <1>2, <1>4, GreatestNumber
<1>6. PICK q \in B : n = Place(m, l, q)
  BY <1>5 DEF P
<1>7. ASSUME NEW t \in B, t # q PROVE Earlier(t, q)
  <2>1. t \in Slots(m, l) /\ q \in Slots(m, l)
    BY <1>1
  <2>2. Earlier(t, q) \/ Earlier(q, t)
    BY <1>7, <2>1, SlotsAreOrdered
  <2>3. Earlier(q, t) => Place(m, l, q) < Place(m, l, t)
    BY <2>1, PlacesAreOrdered
  <2>4. Place(m, l, t) \in P
    BY DEF P
  <2>5. Place(m, l, t) <= Place(m, l, q) /\ Place(m, l, t) \in Nat /\ Place(m, l, q) \in Nat
    BY <1>3, <1>5, <1>6, <2>4
  <2>. QED
    BY <2>2, <2>3, <2>5
<1>8. B = SlotsBefore(m, l, q) \cup {q} /\ q \notin SlotsBefore(m, l, q)
  <2>1. q \in Slots(m, l) /\ Earlier(q, s)
    BY <1>1
  <2>2. ASSUME NEW t \in SlotsBefore(m, l, q) PROVE t \in B
    <3>1. t \in Slots(m, l) /\ Earlier(t, q)
      BY DEF SlotsBefore
    <3>2. Earlier(t, s)
      BY <1>2, <2>1, <3>1, EarlierIsOrder
    <3>. QED
      BY <3>1, <3>2 DEF B, SlotsBefore
  <2>3. \A t \in B : t = q \/ t \in SlotsBefore(m, l, q)
    BY <1>1, <1>7 DEF SlotsBefore
  <2>4. q \notin SlotsBefore(m, l, q)
    BY <1>2, <2>1, EarlierIsOrder DEF SlotsBefore
  <2>. QED
    BY <2>2, <2>3, <2>4
<1>9. Place(m, l, s) = Place(m, l, q) + 1
  <2>1. IsFiniteSet(SlotsBefore(m, l, q))
    BY <1>1, PlacesAreOrdered
  <2>2. Cardinality(SlotsBefore(m, l, q) \cup {q}) = Cardinality(SlotsBefore(m, l, q)) + 1
    BY <1>8, <2>1, FS_AddElement
  <2>. QED
    BY <1>8, <2>2 DEF Place, B
<1>. QED
  BY <1>7, <1>9 DEF B

\* The last step of an address behind a first occurrence.
LEMMA LastRepeatIs ==
    ASSUME NEW a \in Addresses
    PROVE  /\ LastRepeat(a) \in Nat /\ LastRepeat(a) <= Len(a)
           /\ LastRepeat(a) > 0 => a[LastRepeat(a)][2] > 1
           /\ \A n \in 1 .. Len(a) : a[n][2] > 1 => n <= LastRepeat(a)
<1>. DEFINE T == {0} \cup {n \in 1 .. Len(a) : a[n][2] > 1}
<1>1. Len(a) \in Nat
  BY TypeOfSteps
<1>2. T \subseteq Nat /\ T # {} /\ \A n \in T : n <= Len(a)
  BY <1>1
<1>3. LastRepeat(a) = Max(T)
  BY DEF LastRepeat
<1>4. \A n \in T : n > 0 => a[n][2] > 1
  OBVIOUS
<1>5. \A n \in 1 .. Len(a) : a[n][2] > 1 => n \in T
  OBVIOUS
<1>. HIDE DEF T
<1>6. Max(T) \in T /\ \A n \in T : n <= Max(T)
  BY <1>1, <1>2, MaxIsGreatest
<1>. QED
  BY <1>2, <1>3, <1>4, <1>5, <1>6

\* What comes before a slot has a smaller occurrence where the slot has repeated.
LEMMA DifferWhereRepeated ==
    ASSUME NEW m, IsMessage(m), NEW l \in Leaves, NEW s \in Slots(m, l),
           NEW t \in Slots(m, l), NEW k, FirstDiffer(t, s, k)
    PROVE  k \in Nat /\ 1 <= k /\ k <= LastRepeat(s)
<1>1. s \in DOMAIN m /\ t \in DOMAIN m /\ s \in Addresses
  BY SlotsAreFinite
<1>2. k \in Nat /\ 1 <= k /\ k <= Len(t) /\ k <= Len(s) /\ t[k][2] < s[k][2]
  BY DEF FirstDiffer
<1>3. Len(s) \in Nat /\ Len(t) \in Nat
  BY <1>1, PresentAddress
<1>4. k \in 1 .. Len(s) /\ k \in 1 .. Len(t)
  BY <1>2, <1>3
<1>5. 1 <= t[k][2] /\ t[k][2] \in Nat /\ s[k][2] \in Nat
  BY <1>1, <1>4, PresentAddress
<1>6. s[k][2] > 1
  BY <1>2, <1>5
<1>. QED
  BY <1>1, <1>2, <1>4, <1>6, LastRepeatIs

\* A slot that has repeated comes after one that shares all steps before that.
LEMMA SlotOfOccurrenceBefore ==
    ASSUME NEW m, IsMessage(m), NEW l \in Leaves, NEW s \in Slots(m, l), LastRepeat(s) > 0
    PROVE  \E t \in Slots(m, l) : FirstDiffer(t, s, LastRepeat(s))
<1>1. s \in DOMAIN m /\ s \in Addresses /\ s \in OnPath(m, l) /\ s \in Seq(Nat \X Nat)
  BY SlotsAreFinite DEF Addresses
<1>2. PICK p \in Nat : p = LastRepeat(s)
  BY <1>1, LastRepeatIs
<1>3. 1 <= p /\ p <= Len(s) /\ s[p][2] > 1 /\ Len(s) \in Nat /\ p - 1 \in Nat /\ p - 1 <= Len(s)
  <2>1. Len(s) \in Nat
    BY <1>1, PresentAddress
  <2>2. LastRepeat(s) <= Len(s) /\ s[LastRepeat(s)][2] > 1
    BY <1>1, LastRepeatIs
  <2>3. p > 0 /\ p <= Len(s) /\ s[p][2] > 1
    BY <1>2, <2>2
  <2>. QED
    BY <1>2, <2>1, <2>3
<1>4. p \in 1 .. Len(s)
  BY <1>3
<1>5. s[p][1] \in Nat /\ s[p][2] \in Nat
      /\ \A o \in 1 .. s[p][2] : Child(Prefix(s, p - 1), s[p][1], o) \in DOMAIN m
  BY <1>1, <1>4, PresentAddress
<1>6. PICK i \in Nat, o \in Nat : i = s[p][1] /\ o = s[p][2] - 1 /\ o \in 1 .. s[p][2]
  <2>1. PICK i \in Nat : i = s[p][1]
    BY <1>5
  <2>2. PICK q \in Nat : q = s[p][2]
    BY <1>5
  <2>3. q > 1
    BY <1>3, <2>2
  <2>4. q - 1 \in Nat /\ q - 1 \in 1 .. q
    BY <2>2, <2>3
  <2>. QED
    BY <2>1, <2>2, <2>4
<1>7. /\ Prefix(s, p - 1) \in Addresses /\ Len(Prefix(s, p - 1)) = p - 1
      /\ \A n \in 1 .. p - 1 : Prefix(s, p - 1)[n] = s[n]
  BY <1>1, <1>3, FirstSteps DEF Addresses
<1>. DEFINE b == Child(Prefix(s, p - 1), i, o)
<1>8. b \in DOMAIN m
  BY <1>5, <1>6
<1>9. /\ b \in Addresses /\ Len(b) = p - 1 + 1 /\ b[p - 1 + 1] = <<i, o>>
      /\ \A n \in 1 .. p - 1 : b[n] = Prefix(s, p - 1)[n]
  <2>1. /\ b \in Addresses /\ Len(b) = Len(Prefix(s, p - 1)) + 1
        /\ b[Len(Prefix(s, p - 1)) + 1] = <<i, o>>
        /\ \A n \in 1 .. Len(Prefix(s, p - 1)) : b[n] = Prefix(s, p - 1)[n]
    BY <1>7, ChildIs
  <2>. QED
    BY <1>7, <2>1
<1>. HIDE DEF b
<1>10. Len(b) = p /\ b[p] = <<i, o>> /\ \A n \in 1 .. p - 1 : b[n] = s[n]
  <2>1. p - 1 + 1 = p
    BY <1>2
  <2>. QED
    BY <1>7, <1>9, <2>1
<1>11. b \in OnPath(m, l)
  <2>1. Len(s) <= Len(l) /\ \A n \in 1 .. Len(s) : s[n][1] = l[n]
    BY <1>1, OnPathIs
  <2>2. Len(b) <= Len(l)
    <3>1. Len(l) \in Nat
      BY LeafPath
    <3>. QED
      BY <1>3, <1>10, <2>1, <3>1
  <2>3. ASSUME NEW n \in 1 .. Len(b) PROVE b[n][1] = l[n]
    <3>1. n \in 1 .. Len(s)
      BY <1>3, <1>10
    <3>2. CASE n = p
      BY <1>6, <1>10, <2>1, <3>1, <3>2
    <3>3. CASE n # p
      <4>1. n \in 1 .. p - 1
        BY <1>10, <3>3
      <4>. QED
        BY <1>10, <2>1, <3>1, <4>1
    <3>. QED
      BY <3>2, <3>3
  <2>. QED
    BY <1>8, <2>2, <2>3, OnPathIs
<1>12. PICK t \in Slots(m, l) : IsPrefix(b, t)
  BY <1>11, SlotBelow
<1>13. p <= Len(t) /\ \A n \in 1 .. p : b[n] = t[n]
  <2>1. t \in Seq(Nat \X Nat) /\ b \in Seq(Nat \X Nat)
    BY <1>9, SlotsAreFinite DEF Addresses
  <2>2. Len(b) <= Len(t) /\ \A n \in 1 .. Len(b) : b[n] = t[n]
    BY <1>12, <2>1, PrefixIs
  <2>. QED
    BY <1>10, <2>2
<1>14. \A n \in 1 .. p - 1 : t[n] = s[n]
  <2>1. \A n \in 1 .. p - 1 : n \in 1 .. p
    BY <1>2
  <2>. QED
    BY <1>10, <1>13, <2>1
<1>15. t[p][2] < s[p][2]
  <2>1. t[p] = <<i, o>>
    BY <1>3, <1>10, <1>13
  <2>. QED
    BY <1>5, <1>6, <2>1
<1>16. FirstDiffer(t, s, p)
  BY <1>3, <1>13, <1>14, <1>15 DEF FirstDiffer
<1>. QED
  BY <1>2, <1>16

\* The row of a slot, without looking at the slot before it: the repetition level
\* is that of the last step behind a first occurrence.
RowOfSlot(m, l, s) ==
    [v |-> IF TypeOf(s) = l THEN m[s] ELSE Default,
     r |-> GetMaxRepetitionLevel[Prefix(l, LastRepeat(s))],
     d |-> GetDefinitionLevel[TypeOf(s)]]

\* The definition's row at a slot's place is the row of that slot.
LEMMA StripedIs ==
    ASSUME NEW m, IsMessage(m), NEW l \in Leaves
    PROVE  /\ Striped(m, l) \in Seq({Striped(m, l)[n] : n \in 1 .. Cardinality(Slots(m, l))})
           /\ Len(Striped(m, l)) = Cardinality(Slots(m, l))
           /\ \A s \in Slots(m, l) : Striped(m, l)[Place(m, l, s) + 1] = RowOfSlot(m, l, s)
<1>. DEFINE order == OrderedSlots(m, l)
            N == Cardinality(Slots(m, l))
            level(n) == IF n = 1 THEN 0
                        ELSE GetMaxRepetitionLevel[Prefix(l, SharedLength(order[n - 1], order[n]) + 1)]
            row(n) == [v |-> IF TypeOf(order[n]) = l THEN m[order[n]] ELSE Default,
                       r |-> level(n),
                       d |-> GetDefinitionLevel[TypeOf(order[n])]]
<1>1. Len(order) = N /\ N \in Nat
  BY OrderedSlotsIs, SlotsAreFinite
<1>2. Striped(m, l) = [n \in 1 .. N |-> row(n)]
  BY <1>1 DEF Striped
<1>3. DOMAIN Striped(m, l) = 1 .. N /\ \A n \in 1 .. N : Striped(m, l)[n] = row(n)
  BY <1>2
<1>. HIDE DEF row
<1>4. Striped(m, l) \in [1 .. N -> {Striped(m, l)[n] : n \in 1 .. N}]
  BY <1>2
<1>5. Striped(m, l) \in Seq({Striped(m, l)[n] : n \in 1 .. N}) /\ Len(Striped(m, l)) = N
  <2>. HIDE DEF N
  <2>. QED
    BY <1>1, <1>4, TableIsSequence
<1>. HIDE DEF level
<1>6. ASSUME NEW s \in Slots(m, l)
      PROVE  level(Place(m, l, s) + 1) = GetMaxRepetitionLevel[Prefix(l, LastRepeat(s))]
  <2>1. s \in Addresses /\ LastRepeat(s) \in Nat /\ l \in Seq(Nat)
    BY SlotsAreFinite, LastRepeatIs, LeafPath
  <2>2. CASE LastRepeat(s) = 0
    <3>1. SlotsBefore(m, l, s) = {}
      <4>1. ASSUME NEW t \in Slots(m, l), Earlier(t, s) PROVE FALSE
        <5>1. PICK k : FirstDiffer(t, s, k)
          BY <2>1, <4>1, EarlierIs, SlotsAreFinite
        <5>. QED
          BY <2>2, <5>1, DifferWhereRepeated
      <4>. QED
        BY <4>1 DEF SlotsBefore
    <3>2. Place(m, l, s) = 0
      BY <3>1, FS_EmptySet DEF Place
    <3>3. level(Place(m, l, s) + 1) = 0
      BY <3>2 DEF level
    <3>4. Prefix(l, 0) = Root
      BY SubSeqEmpty DEF Prefix, Root
    <3>5. GetMaxRepetitionLevel[Root] = 0
      <4>1. Root \in Nodes /\ Len(Root) = 0
        BY EmptySeq DEF Nodes, Root
      <4>2. {n \in 1 .. Len(Root) : IsRepeated(Prefix(Root, n))} = {}
        BY <4>1
      <4>. QED
        BY <4>1, <4>2, FS_EmptySet DEF GetMaxRepetitionLevel
    <3>. QED
      BY <2>2, <3>3, <3>4, <3>5
  <2>3. CASE LastRepeat(s) # 0
    <3>1. PICK p \in Nat : p = LastRepeat(s) /\ p > 0
      BY <2>1, <2>3
    <3>2. PICK t \in Slots(m, l) : FirstDiffer(t, s, p)
      BY <3>1, SlotOfOccurrenceBefore
    <3>3. t \in Addresses
      BY SlotsAreFinite
    <3>4. t \in SlotsBefore(m, l, s)
      BY <2>1, <3>2, <3>3, EarlierIs DEF SlotsBefore
    <3>5. PICK q \in SlotsBefore(m, l, s) :
              /\ Place(m, l, s) = Place(m, l, q) + 1
              /\ \A u \in SlotsBefore(m, l, s) : u = q \/ Earlier(u, q)
      BY <3>4, SlotRightBefore
    <3>6. q \in Slots(m, l) /\ Earlier(q, s) /\ q \in Addresses
      BY SlotsAreFinite DEF SlotsBefore
    <3>7. PICK k : FirstDiffer(q, s, k)
      BY <2>1, <3>6, EarlierIs
    <3>8. k \in Nat /\ 1 <= k /\ k <= p
      BY <3>1, <3>6, <3>7, DifferWhereRepeated
    <3>9. k = p
      <4>1. SUFFICES ASSUME k < p PROVE FALSE
        BY <3>8
      <4>2. /\ p \in Nat /\ p <= Len(t) /\ \A i \in 1 .. p - 1 : t[i] = s[i]
            /\ Len(t) \in Nat
        BY <3>2, <3>3, TypeOfSteps DEF FirstDiffer
      <4>3. /\ k <= Len(q) /\ \A i \in 1 .. k - 1 : q[i] = s[i]
            /\ q[k][2] < s[k][2]
        BY <3>7 DEF FirstDiffer
      <4>4. k \in 1 .. p - 1 /\ k <= Len(t) /\ \A i \in 1 .. k - 1 : i \in 1 .. p - 1
        BY <3>8, <4>1, <4>2
      <4>5. t[k] = s[k] /\ \A i \in 1 .. k - 1 : q[i] = t[i]
        BY <4>2, <4>3, <4>4
      <4>6. FirstDiffer(q, t, k)
        BY <3>8, <4>3, <4>4, <4>5 DEF FirstDiffer
      <4>7. Earlier(q, t)
        BY <3>3, <3>6, <4>6, EarlierIs
      <4>8. t = q \/ Earlier(t, q)
        BY <3>4, <3>5
      <4>. QED
        BY <3>3, <3>6, <4>7, <4>8, EarlierIsOrder
    <3>10. SharedLength(q, s) = p - 1
      BY <2>1, <3>6, <3>7, <3>9, EarlierIs
    <3>11. order[Place(m, l, q) + 1] = q /\ order[Place(m, l, s) + 1] = s
      BY <3>6, OrderedSlotsIs
    <3>12. Place(m, l, q) \in Nat
      BY <3>6, PlacesAreOrdered
    <3>13. PICK n \in Nat : n = Place(m, l, s) + 1 /\ n # 1 /\ n - 1 = Place(m, l, q) + 1
      BY <3>5, <3>12
    <3>14. level(n) = GetMaxRepetitionLevel[Prefix(l, SharedLength(q, s) + 1)]
      BY <3>11, <3>13 DEF level
    <3>15. SharedLength(q, s) + 1 = p
      BY <3>8, <3>9, <3>10
    <3>. QED
      BY <3>1, <3>13, <3>14, <3>15
  <2>. QED
    BY <2>2, <2>3
<1>7. ASSUME NEW s \in Slots(m, l)
      PROVE  Striped(m, l)[Place(m, l, s) + 1] = RowOfSlot(m, l, s)
  <2>1. Place(m, l, s) \in Nat /\ Place(m, l, s) < Cardinality(Slots(m, l))
    BY PlacesAreOrdered
  <2>2. PICK n \in 1 .. N : n = Place(m, l, s) + 1
    BY <1>1, <2>1
  <2>3. order[n] = s /\ level(n) = GetMaxRepetitionLevel[Prefix(l, LastRepeat(s))]
    BY <1>6, <2>2, OrderedSlotsIs
  <2>. HIDE DEF order, N
  <2>4. row(n) = RowOfSlot(m, l, s)
    BY <2>3 DEF row, RowOfSlot
  <2>. QED
    BY <1>3, <2>2, <2>4
<1>. QED
  BY <1>1, <1>5, <1>7

-----------------------------------------------------------------------------
(* The activations and the slots that are ahead of them. *)

\* The activations are on the way to the address of the innermost one.
LEMMA WayFacts ==
    ASSUME ShreddingInvariant, OnTheWay, callStack # <<>>
    PROVE  /\ message \in Messages /\ IsMessage(message)
           /\ Len(callStack) \in Nat \ {0} /\ Top = callStack[Len(callStack)]
           /\ \A k \in 1 .. Len(callStack) :
                 LET fr == callStack[k]
                 IN  /\ fr \in Frames /\ fr.msg \in DOMAIN message /\ fr.msg \in Addresses
                     /\ Len(fr.msg) = k - 1
                     /\ fr.writer \in Types /\ fr.writer \in Seq(Nat) /\ TypeOf(fr.msg) = fr.writer
                     /\ Len(fr.writer) = k - 1
                     /\ fr.child \in Nat /\ 1 <= fr.child /\ fr.occ \in Nat /\ 1 <= fr.occ
                     /\ fr.msg = Prefix(Top.msg, k - 1)
<1>1. TypeOK /\ Nested
  BY DEF ShreddingInvariant
<1>2. message \in Messages /\ IsMessage(message)
  BY <1>1, MessagesAssumption DEF Nested
<1>3. Len(callStack) \in Nat \ {0} /\ Top = callStack[Len(callStack)] /\ callStack \in Seq(Frames)
  BY <1>1, StackTop DEF TypeOK, Top
<1>4. Len(callStack) \in 1 .. Len(callStack)
  BY <1>3
<1>5. ASSUME NEW k \in 1 .. Len(callStack)
      PROVE  LET fr == callStack[k]
             IN  /\ fr \in Frames /\ fr.msg \in DOMAIN message /\ fr.msg \in Addresses
                 /\ Len(fr.msg) = k - 1
                 /\ fr.writer \in Types /\ fr.writer \in Seq(Nat) /\ TypeOf(fr.msg) = fr.writer
                 /\ Len(fr.writer) = k - 1
                 /\ fr.child \in Nat /\ 1 <= fr.child /\ fr.occ \in Nat /\ 1 <= fr.occ
  <2>. DEFINE fr == callStack[k]
  <2>1. fr \in Frames /\ fr.writer \in Types /\ fr.writer \in Seq(Nat)
    BY <1>1, WritersAreTypes
  <2>2. fr.msg \in DOMAIN message /\ Len(fr.msg) = k - 1
    BY DEF OnTheWay
  <2>3. TypeOf(fr.msg) = fr.writer
    BY <1>1 DEF Nested, Consistent
  <2>. HIDE DEF fr
  <2>4. fr.msg \in Addresses
    BY <1>2, <2>2, PresentAddress
  <2>5. Len(fr.writer) = k - 1
    BY <2>2, <2>3, <2>4, TypeOfSteps
  <2>6. fr.child \in Nat \ {0} /\ fr.occ \in Nat \ {0}
    BY <2>1 DEF Frames
  <2>. QED
    BY <2>1, <2>2, <2>3, <2>4, <2>5, <2>6 DEF fr
<1>6. ASSUME NEW k \in 1 .. Len(callStack) PROVE callStack[k].msg = Prefix(Top.msg, k - 1)
  <2>1. CASE k = Len(callStack)
    <3>1. Top.msg \in Seq(Nat \X Nat) /\ Len(Top.msg) = k - 1 /\ k - 1 \in Nat
      BY <1>3, <1>5, <2>1 DEF Addresses
    <3>2. Prefix(Top.msg, k - 1) = Top.msg
      BY <3>1, SubSeqFull DEF Prefix
    <3>. QED
      BY <1>3, <2>1, <3>2
  <2>2. CASE k # Len(callStack)
    <3>1. k \in 1 .. Len(callStack) - 1
      BY <1>3, <2>2
    <3>. QED
      BY <1>3, <1>4, <3>1 DEF OnTheWay
  <2>. QED
    BY <2>1, <2>2
<1>. QED
  BY <1>2, <1>3, <1>5, <1>6

\* An outer activation's cursor is behind the step to the innermost one.
LEMMA CursorOfOuter ==
    ASSUME ShreddingInvariant, OnTheWay, callStack # <<>>, NEW k \in 1 .. Len(callStack) - 1
    PROVE  LET fr == callStack[k]
               i == Top.msg[k][1]
               o == Top.msg[k][2]
           IN  /\ k \in 1 .. Len(Top.msg) /\ i \in Nat /\ o \in Nat /\ 1 <= o
               /\ IF Child(fr.msg, i, o + 1) \in DOMAIN message THEN fr.child = i /\ fr.occ = o + 1
                  ELSE fr.child = i + 1 /\ fr.occ = 1
<1>. DEFINE a == callStack[k + 1].msg
<1>1. Len(callStack) \in Nat \ {0} /\ k \in Nat /\ k \in 1 .. Len(callStack) /\ k + 1 \in 1 .. Len(callStack)
  BY WayFacts
<1>2. Top = callStack[Len(callStack)] /\ Len(callStack) \in 1 .. Len(callStack) /\ IsMessage(message)
  BY <1>1, WayFacts
<1>3. /\ Top.msg \in DOMAIN message /\ Top.msg \in Addresses /\ Len(Top.msg) = Len(callStack) - 1
  BY <1>2, WayFacts
<1>4. a \in Addresses /\ Len(a) = k /\ a = Prefix(Top.msg, k)
  <2>1. a \in Addresses /\ Len(a) = k + 1 - 1 /\ a = Prefix(Top.msg, k + 1 - 1)
    BY <1>1, WayFacts
  <2>2. k + 1 - 1 = k
    BY <1>1
  <2>. QED
    BY <2>1, <2>2
<1>5. k \in 1 .. Len(Top.msg)
  BY <1>1, <1>3
<1>6. Top.msg[k][1] \in Nat /\ Top.msg[k][2] \in Nat /\ 1 <= Top.msg[k][2]
  BY <1>2, <1>3, <1>5, PresentAddress
<1>7. Last(a) = Top.msg[k]
  <2>1. \A n \in 1 .. k : Prefix(Top.msg, k)[n] = Top.msg[n]
    <3>1. Top.msg \in Seq(Nat \X Nat) /\ k <= Len(Top.msg)
      BY <1>3, <1>5 DEF Addresses
    <3>. QED
      BY <1>1, <3>1, FirstSteps
  <2>2. a[k] = Top.msg[k]
    BY <1>1, <1>4, <2>1
  <2>3. Last(a) = a[Len(a)]
    BY DEF Last
  <2>. HIDE DEF a
  <2>. QED
    BY <1>4, <2>2, <2>3
<1>8. CursorBehind(callStack[k], a)
  BY DEF OnTheWay
<1>. HIDE DEF a
<1>. QED
  BY <1>5, <1>6, <1>7, <1>8 DEF CursorBehind

\* What is on the way to the innermost activation is on the path to the leaves
\* below its writer.
LEMMA OuterOnPath ==
    ASSUME ShreddingInvariant, OnTheWay, callStack # <<>>, NEW l \in Leaves, IsPrefix(Top.writer, l)
    PROVE  /\ Top.msg \in OnPath(message, l)
           /\ \A k \in 1 .. Len(callStack) - 1 : l[k] = Top.msg[k][1]
           /\ Len(Top.msg) = Len(callStack) - 1 /\ Len(Top.writer) = Len(callStack) - 1
           /\ Len(callStack) <= Len(l)
           /\ l[Len(callStack)] \in 1 .. Arity[Top.writer]
<1>1. /\ IsMessage(message) /\ Len(callStack) \in Nat \ {0} /\ Top = callStack[Len(callStack)]
      /\ Len(callStack) \in 1 .. Len(callStack)
  BY WayFacts
<1>2. /\ Top.msg \in DOMAIN message /\ Len(Top.msg) = Len(callStack) - 1
      /\ TypeOf(Top.msg) = Top.writer /\ Top.writer \in Types /\ Len(Top.writer) = Len(callStack) - 1
  BY <1>1, WayFacts
<1>3. Top.msg \in OnPath(message, l)
  BY <1>2 DEF OnPath
<1>4. Len(Top.writer) < Len(l) /\ l[Len(Top.writer) + 1] \in 1 .. Arity[Top.writer]
  BY <1>2, LeafBelow
<1>5. \A n \in 1 .. Len(Top.msg) : Top.msg[n][1] = l[n]
  BY <1>1, <1>3, OnPathIs
<1>6. Len(l) \in Nat /\ Len(Top.writer) + 1 = Len(callStack)
  BY <1>1, <1>2, LeafPath
<1>7. \A k \in 1 .. Len(callStack) - 1 : l[k] = Top.msg[k][1]
  BY <1>2, <1>5
<1>8. Len(callStack) <= Len(l) /\ l[Len(callStack)] \in 1 .. Arity[Top.writer]
  <2>0. Len(Top.writer) \in Nat
    BY <1>2, PathsAreSequences, LenProperties
  <2>1. PICK d \in Nat : d = Len(Top.writer) /\ d + 1 = Len(callStack)
    BY <1>6, <2>0
  <2>2. d + 1 <= Len(l)
    BY <1>4, <1>6, <2>1
  <2>. QED
    BY <1>4, <2>1, <2>2
<1>. QED
  BY <1>2, <1>3, <1>7, <1>8

\* In the columns of the innermost activation, what is ahead of an outer one is
\* what differs from the way at that step by a later occurrence.
LEMMA AheadOfOuter ==
    ASSUME ShreddingInvariant, OnTheWay, callStack # <<>>,
           NEW l \in Leaves, IsPrefix(Top.writer, l),
           NEW t \in Slots(message, l), NEW k \in 1 .. Len(callStack) - 1
    PROVE  IsAhead(callStack[k], t, l) <=> FirstDiffer(Top.msg, t, k)
<1>. DEFINE i == Top.msg[k][1]
            o == Top.msg[k][2]
            p == callStack[k].msg
            child == callStack[k].child
            occ == callStack[k].occ
<1>1. /\ IsMessage(message) /\ Len(callStack) \in Nat \ {0}
      /\ k \in Nat /\ k \in 1 .. Len(callStack) /\ 1 <= k /\ k - 1 \in Nat
  BY WayFacts
<1>2. p \in Addresses /\ Len(p) = k - 1 /\ p = Prefix(Top.msg, k - 1)
  BY <1>1, WayFacts
<1>3. /\ Top.msg \in OnPath(message, l) /\ l[k] = i
      /\ Len(Top.msg) = Len(callStack) - 1
  BY OuterOnPath
<1>4. Top.msg \in Addresses /\ Top.msg \in DOMAIN message
  BY <1>1, <1>3, SlotIs, OnPathIs
<1>5. /\ k \in 1 .. Len(Top.msg) /\ i \in Nat /\ o \in Nat /\ 1 <= o
      /\ IF Child(p, i, o + 1) \in DOMAIN message THEN child = i /\ occ = o + 1
         ELSE child = i + 1 /\ occ = 1
  BY CursorOfOuter
<1>6. /\ t \in Addresses /\ t \in DOMAIN message /\ Len(t) \in Nat
      /\ \A n \in 1 .. Len(t) : t[n][1] = l[n]
  BY <1>1, SlotsAreFinite, OnPathIs
<1>. HIDE DEF p
<1>7. \A n \in 1 .. k - 1 : p[n] = Top.msg[n]
  <2>1. Top.msg \in Seq(Nat \X Nat) /\ k - 1 <= Len(Top.msg)
    BY <1>1, <1>3, <1>4 DEF Addresses
  <2>2. \A n \in 1 .. k - 1 : Prefix(Top.msg, k - 1)[n] = Top.msg[n]
    BY <1>1, <2>1, FirstSteps
  <2>. QED
    BY <1>2, <2>2
<1>8. IsPrefix(p, t) <=> k - 1 <= Len(t) /\ \A n \in 1 .. k - 1 : Top.msg[n] = t[n]
  <2>1. p \in Seq(Nat \X Nat) /\ t \in Seq(Nat \X Nat)
    BY <1>2, <1>6 DEF Addresses
  <2>2. IsPrefix(p, t) <=> k - 1 <= Len(t) /\ \A n \in 1 .. k - 1 : p[n] = t[n]
    BY <1>2, <2>1, PrefixIs
  <2>. QED
    BY <1>7, <2>2
<1>9. IsAhead(callStack[k], t, l) <=>
          /\ IsPrefix(p, t)
          /\ i > child \/ (i = child /\ (k <= Len(t) => t[k][2] >= occ))
  <2>1. Len(p) + 1 = k
    BY <1>1, <1>2
  <2>. QED
    BY <1>3, <2>1 DEF IsAhead, p
<1>. HIDE DEF i, o, child, occ
<1>10. ASSUME IsAhead(callStack[k], t, l) PROVE FirstDiffer(Top.msg, t, k)
  <2>1. child = i /\ occ = o + 1 /\ IsPrefix(p, t) /\ (k <= Len(t) => t[k][2] >= occ)
    BY <1>5, <1>9, <1>10
  <2>2. k <= Len(t)
    <3>1. SUFFICES ASSUME ~ (k <= Len(t)) PROVE FALSE
      OBVIOUS
    <3>2. Len(t) = k - 1 /\ \A n \in 1 .. Len(t) : t[n] = Top.msg[n]
      BY <1>1, <1>6, <1>8, <2>1, <3>1
    <3>3. Len(t) < Len(Top.msg)
      BY <1>1, <1>3, <1>5, <3>2
    <3>4. t \in Seq(Nat \X Nat) /\ Top.msg \in Seq(Nat \X Nat) /\ Len(t) <= Len(Top.msg)
      BY <1>1, <1>3, <1>4, <1>6, <3>3 DEF Addresses
    <3>5. IsPrefix(t, Top.msg)
      BY <3>2, <3>4, PrefixIs
    <3>6. t = Top.msg
      BY <1>3, <3>5, NothingBelowSlot
    <3>. QED
      BY <1>6, <3>3, <3>6
  <2>3. k \in 1 .. Len(t)
    BY <1>1, <2>2
  <2>4. t[k][2] \in Nat
    BY <1>6, <2>3, TypeOfSteps
  <2>5. Top.msg[k][2] < t[k][2]
    <3>1. t[k][2] >= o + 1
      BY <2>1, <2>2
    <3>2. o < t[k][2]
      BY <1>5, <2>4, <3>1
    <3>. QED
      BY <3>2 DEF o
  <2>6. k <= Len(Top.msg) /\ \A n \in 1 .. k - 1 : Top.msg[n] = t[n]
    BY <1>5, <1>8, <2>1
  <2>. QED
    BY <1>1, <2>2, <2>5, <2>6 DEF FirstDiffer
<1>11. ASSUME FirstDiffer(Top.msg, t, k) PROVE IsAhead(callStack[k], t, l)
  <2>1. k <= Len(t) /\ o < t[k][2] /\ \A n \in 1 .. k - 1 : Top.msg[n] = t[n]
    BY <1>11 DEF FirstDiffer, o
  <2>2. k \in 1 .. Len(t) /\ k - 1 <= Len(t)
    BY <1>1, <1>6, <2>1
  <2>3. t[k][2] \in Nat /\ t[k][1] = i
    BY <1>3, <1>6, <2>2, TypeOfSteps
  <2>4. IsPrefix(p, t)
    BY <1>8, <2>1, <2>2
  <2>5. Prefix(t, k - 1) = p
    <3>1. p \in Seq(Nat \X Nat) /\ t \in Seq(Nat \X Nat)
      BY <1>2, <1>6 DEF Addresses
    <3>2. Prefix(t, Len(p)) = p
      BY <2>4, <3>1, PrefixChain
    <3>. QED
      BY <1>2, <3>2
  <2>6. \A x \in 1 .. t[k][2] : Child(Prefix(t, k - 1), t[k][1], x) \in DOMAIN message
    BY <1>1, <1>6, <2>2, PresentAddress
  <2>7. o + 1 \in 1 .. t[k][2]
    BY <1>5, <2>1, <2>3
  <2>8. Child(p, i, o + 1) \in DOMAIN message
    BY <2>3, <2>5, <2>6, <2>7
  <2>9. child = i /\ occ = o + 1
    BY <1>5, <2>8
  <2>10. t[k][2] >= occ
    BY <1>5, <2>1, <2>3, <2>9
  <2>. QED
    BY <1>9, <2>4, <2>9, <2>10
<1>. QED
  BY <1>10, <1>11

\* Nothing is ahead of the innermost activation in columns it does not write.
LEMMA AheadOfTop ==
    ASSUME ShreddingInvariant, OnTheWay, callStack # <<>>,
           NEW l \in Leaves, NEW t \in Slots(message, l), IsPrefix(Top.msg, t)
    PROVE  IsPrefix(Top.writer, l)
<1>1. /\ IsMessage(message) /\ Len(callStack) \in Nat \ {0} /\ Top = callStack[Len(callStack)]
      /\ Len(callStack) \in 1 .. Len(callStack)
  BY WayFacts
<1>2. /\ Top.msg \in Addresses /\ TypeOf(Top.msg) = Top.writer /\ Top.writer \in Seq(Nat)
  BY <1>1, WayFacts
<1>3. t \in Addresses /\ Len(t) \in Nat /\ Len(t) <= Len(l) /\ \A n \in 1 .. Len(t) : t[n][1] = l[n]
  BY <1>1, SlotsAreFinite, OnPathIs
<1>4. Len(Top.msg) <= Len(t) /\ \A n \in 1 .. Len(Top.msg) : Top.msg[n] = t[n]
  <2>1. PICK a \in Addresses : a = Top.msg
    BY <1>2
  <2>2. IsPrefix(a, t) /\ a \in Seq(Nat \X Nat) /\ t \in Seq(Nat \X Nat)
    BY <1>3, <2>1 DEF Addresses
  <2>3. Len(a) <= Len(t) /\ \A n \in 1 .. Len(a) : a[n] = t[n]
    BY <2>2, PrefixIs
  <2>. QED
    BY <2>1, <2>3
<1>5. /\ Len(Top.writer) = Len(Top.msg) /\ Len(Top.msg) \in Nat
      /\ \A n \in 1 .. Len(Top.msg) : Top.writer[n] = Top.msg[n][1]
  BY <1>2, TypeOfSteps
<1>6. l \in Seq(Nat) /\ Len(l) \in Nat
  BY LeafPath
<1>7. \A n \in 1 .. Len(Top.writer) : Top.writer[n] = l[n]
  <2>1. \A n \in 1 .. Len(Top.msg) : n \in 1 .. Len(t)
    BY <1>3, <1>4, <1>5
  <2>. QED
    BY <1>3, <1>4, <1>5, <2>1
<1>8. Len(Top.writer) <= Len(l)
  BY <1>3, <1>4, <1>5, <1>6
<1>. QED
  BY <1>2, <1>6, <1>7, <1>8, PrefixIs

\* The slots ahead of the cursor, step by step: those below the message of the
\* innermost activation, in later fields or later occurrences of the current one.
LEMMA AheadOfCursor ==
    ASSUME ShreddingInvariant, OnTheWay, Working,
           NEW l \in Leaves, NEW t \in Slots(message, l), IsPrefix(Top.msg, t)
    PROVE  LET n == Len(callStack)
               c == Top.child
               o == Top.occ
               present == \E x \in Nat : Child(Top.msg, c, x) \in DOMAIN message
           IN  /\ n \in Nat \ {0} /\ Len(Top.msg) = n - 1 /\ Top.msg \in Addresses
               /\ l[n] \in Nat /\ c \in Nat /\ o \in Nat /\ 1 <= o /\ 1 <= l[n] /\ n <= Len(l)
               /\ IsPrefix(Top.writer, l)
               /\ IsPrefix(ChildWriter(Top), l) <=> l[n] = c
               /\ \A fr : fr.msg = Top.msg =>
                      (IsAhead(fr, t, l) <=>
                          l[n] > fr.child \/ (l[n] = fr.child /\ (n <= Len(t) => t[n][2] >= fr.occ)))
               /\ t \in Addresses /\ Len(t) \in Nat
               /\ n <= Len(t) => /\ t[n][2] \in Nat /\ 1 <= t[n][2]
                                 /\ Child(Top.msg, l[n], t[n][2]) \in DOMAIN message
                                 /\ t[n] = <<l[n], t[n][2]>>
               /\ l[n] = c => (n <= Len(t) <=> HasValue(Top))
               /\ HasValue(Top) <=> present
               /\ HasValue(Top) <=> o <= FieldSize(message, Top.msg, c)
               /\ FieldSize(message, Top.msg, c) \in Nat
               /\ ~ HasValue(Top) => o = 1
<1>. DEFINE n == Len(callStack)
            c == Top.child
            o == Top.occ
            present == \E x \in Nat : Child(Top.msg, c, x) \in DOMAIN message
<1>1. /\ callStack # <<>> /\ IsMessage(message) /\ n \in Nat \ {0} /\ Top = callStack[n]
      /\ n \in 1 .. n
  BY WayFacts DEF Working
<1>2. /\ Len(Top.msg) = n - 1 /\ Top.msg \in Addresses /\ Top.msg \in DOMAIN message
      /\ c \in Nat /\ o \in Nat /\ 1 <= o /\ 1 <= c
      /\ Top.writer \in Types /\ Top.writer \in Seq(Nat) /\ TypeOf(Top.msg) = Top.writer
      /\ Len(Top.writer) = n - 1
  BY <1>1, WayFacts
<1>3. IsPrefix(Top.writer, l)
  BY <1>1, AheadOfTop
<1>4. Len(callStack) <= Len(l) /\ l[n] \in 1 .. Arity[Top.writer]
  BY <1>1, <1>3, OuterOnPath
<1>5. Arity[Top.writer] \in Nat
  BY <1>2, PathsAreSequences
<1>6. l[n] \in Nat /\ 1 <= l[n] /\ l \in Seq(Nat) /\ Len(l) \in Nat
  BY <1>4, <1>5, LeafPath
<1>7. Len(Top.msg) + 1 = n /\ Len(Top.writer) + 1 = n /\ Len(Top.msg) \in Nat
  BY <1>1, <1>2
<1>8. IsPrefix(ChildWriter(Top), l) <=> l[n] = c
  <2>1. Len(Top.writer) < Len(l)
    BY <1>2, <1>3, LeafBelow
  <2>2. IsPrefix(Append(Top.writer, c), l) <=> /\ IsPrefix(Top.writer, l)
                                               /\ Len(Top.writer) < Len(l)
                                               /\ l[Len(Top.writer) + 1] = c
    BY <1>2, <1>6, PrefixAppend
  <2>. QED
    BY <1>3, <1>7, <2>1, <2>2 DEF ChildWriter
<1>9. ASSUME NEW fr, fr.msg = Top.msg
      PROVE  IsAhead(fr, t, l) <=>
                 l[n] > fr.child \/ (l[n] = fr.child /\ (n <= Len(t) => t[n][2] >= fr.occ))
  BY <1>7, <1>9 DEF IsAhead
<1>10. /\ t \in OnPath(message, l) /\ t \in DOMAIN message
       /\ t \in Addresses /\ Len(t) \in Nat
  BY <1>1, SlotsAreFinite
<1>11. ASSUME n <= Len(t)
       PROVE  /\ t[n][2] \in Nat /\ 1 <= t[n][2]
              /\ Child(Top.msg, l[n], t[n][2]) \in DOMAIN message
              /\ t[n] = <<l[n], t[n][2]>>
  <2>1. n \in 1 .. Len(t)
    BY <1>1, <1>10, <1>11
  <2>2. /\ t[n][2] \in Nat /\ 1 <= t[n][2]
        /\ \A x \in 1 .. t[n][2] : Child(Prefix(t, n - 1), t[n][1], x) \in DOMAIN message
    BY <1>1, <1>10, <2>1, PresentAddress
  <2>3. t[n][1] = l[n] /\ t[n] = <<t[n][1], t[n][2]>>
    <3>1. t[n][1] = l[n]
      BY <1>1, <1>10, <2>1, OnPathIs
    <3>2. t[n] = <<t[n][1], t[n][2]>>
      BY <1>10, <2>1, TypeOfSteps
    <3>. QED
      BY <3>1, <3>2
  <2>4. Prefix(t, n - 1) = Top.msg
    <3>1. t \in Seq(Nat \X Nat) /\ Top.msg \in Seq(Nat \X Nat)
      BY <1>2, <1>10 DEF Addresses
    <3>2. Prefix(t, Len(Top.msg)) = Top.msg
      BY <3>1, PrefixChain
    <3>. QED
      BY <1>2, <3>2
  <2>5. t[n][2] \in 1 .. t[n][2]
    BY <2>2
  <2>6. Child(Prefix(t, n - 1), t[n][1], t[n][2]) \in DOMAIN message
    BY <2>2, <2>5
  <2>. QED
    BY <2>2, <2>3, <2>4, <2>6
<1>12. /\ FieldSize(message, Top.msg, c) \in Nat
       /\ \A x \in Nat : Child(Top.msg, c, x) \in DOMAIN message
                             <=> 1 <= x /\ x <= FieldSize(message, Top.msg, c)
  BY <1>1, <1>2, FieldSizeIs
<1>13. HasValue(Top) <=> o <= FieldSize(message, Top.msg, c)
  BY <1>2, <1>12 DEF HasValue, FieldAddress
<1>14. o > 1 => HasValue(Top)
  BY <1>1 DEF OnTheWay
<1>15. HasValue(Top) <=> present
  <2>1. ASSUME HasValue(Top) PROVE present
    BY <1>2, <2>1 DEF HasValue, FieldAddress
  <2>2. ASSUME ~ HasValue(Top), NEW x \in Nat, Child(Top.msg, c, x) \in DOMAIN message PROVE FALSE
    <3>1. 1 <= x /\ x <= FieldSize(message, Top.msg, c)
      BY <1>12, <2>2
    <3>2. o = 1
      BY <1>2, <1>14, <2>2
    <3>. QED
      BY <1>12, <1>13, <2>2, <3>1, <3>2
  <2>. QED
    BY <2>1, <2>2
<1>16. ASSUME l[n] = c PROVE n <= Len(t) <=> HasValue(Top)
  <2>1. ASSUME n <= Len(t) PROVE HasValue(Top)
    BY <1>11, <1>15, <1>16, <2>1
  <2>2. ASSUME HasValue(Top), ~ (n <= Len(t)) PROVE FALSE
    <3>0. Top.msg \in Seq(Nat \X Nat) /\ t \in Seq(Nat \X Nat)
      BY <1>2, <1>10 DEF Addresses
    <3>1. Len(Top.msg) <= Len(t) /\ \A i \in 1 .. Len(Top.msg) : Top.msg[i] = t[i]
      <4>1. PICK a \in Seq(Nat \X Nat) : a = Top.msg
        BY <3>0
      <4>2. IsPrefix(a, t) /\ a \in Seq(Nat \X Nat) /\ t \in Seq(Nat \X Nat)
        BY <3>0, <4>1
      <4>3. Len(a) <= Len(t) /\ \A i \in 1 .. Len(a) : a[i] = t[i]
        BY <4>2, PrefixIs
      <4>. QED
        BY <4>1, <4>3
    <3>2. Len(t) = Len(Top.msg)
      BY <1>7, <1>10, <2>2, <3>1
    <3>3. t = Top.msg
      BY <1>2, <1>10, <3>1, <3>2, SeqEqual DEF Addresses
    <3>4. Child(Top.msg, c, 1) \in DOMAIN message
      BY <1>2, <1>12, <1>13, <2>2
    <3>5. Len(t) < Len(l) /\ l[Len(t) + 1] = c
      BY <1>4, <1>6, <1>7, <1>16, <3>2
    <3>. QED
      BY <1>1, <1>10, <3>3, <3>4, <3>5, SlotIs
  <2>. QED
    BY <2>1, <2>2
<1>17. ~ HasValue(Top) => o = 1
  BY <1>2, <1>14
<1>. HIDE DEF present
<1>. QED
  BY <1>1, <1>2, <1>3, <1>4, <1>6, <1>8, <1>9, <1>10, <1>11, <1>12, <1>13, <1>15, <1>16, <1>17
     DEF present

\* What the entry under the cursor leads to: the value, or the message without it.
EntryAddress == IF HasValue(Top) THEN FieldAddress(Top) ELSE Top.msg

\* The entry under the cursor lies on the way to slot t of column l.
AtCursor(t, l) == IsPrefix(ChildWriter(Top), l) /\ IsPrefix(EntryAddress, t)

\* An address is below a child, if it is below the parent and takes that step.
LEMMA BelowChild ==
    ASSUME NEW p \in Addresses, NEW i \in Nat, NEW k \in Nat, NEW t \in Addresses
    PROVE  /\ IsPrefix(Child(p, i, k), t) <=> /\ IsPrefix(p, t) /\ Len(p) + 1 <= Len(t)
                                              /\ t[Len(p) + 1] = <<i, k>>
           /\ IsPrefix(p, Child(p, i, k))
<1>. DEFINE q == Child(p, i, k)
            n == Len(p) + 1
<1>1. /\ q \in Addresses /\ Len(q) = n /\ Len(p) \in Nat /\ q[n] = <<i, k>>
      /\ \A j \in 1 .. Len(p) : q[j] = p[j]
  BY ChildIs
<1>. HIDE DEF q
<1>2. q \in Seq(Nat \X Nat) /\ p \in Seq(Nat \X Nat) /\ t \in Seq(Nat \X Nat) /\ Len(t) \in Nat
  BY <1>1, LenProperties DEF Addresses
<1>3. IsPrefix(q, t) <=> Len(q) <= Len(t) /\ \A j \in 1 .. Len(q) : q[j] = t[j]
  <2>1. q \in Seq(Nat \X Nat) /\ t \in Seq(Nat \X Nat)
    BY <1>2
  <2>. QED
    BY <2>1, AddressPrefixIs
<1>4. IsPrefix(p, t) <=> Len(p) <= Len(t) /\ \A j \in 1 .. Len(p) : p[j] = t[j]
  <2>1. p \in Seq(Nat \X Nat) /\ t \in Seq(Nat \X Nat)
    BY <1>2
  <2>. QED
    BY <2>1, AddressPrefixIs
<1>5. \A j \in 1 .. n : j \in 1 .. Len(p) \/ j = n
  BY <1>1
<1>6. IsPrefix(p, q)
  <2>1. Len(p) <= Len(q) /\ \A j \in 1 .. Len(p) : p[j] = q[j]
    BY <1>1
  <2>. QED
    BY <1>2, <2>1, PrefixIs
<1>7. ASSUME IsPrefix(q, t) PROVE IsPrefix(p, t) /\ n <= Len(t) /\ t[n] = <<i, k>>
  <2>1. Len(q) <= Len(t) /\ \A j \in 1 .. Len(q) : q[j] = t[j]
    BY <1>3, <1>7
  <2>2. n \in 1 .. Len(q) /\ \A j \in 1 .. Len(p) : j \in 1 .. Len(q)
    BY <1>1
  <2>3. \A j \in 1 .. Len(p) : p[j] = t[j]
    BY <1>1, <2>1, <2>2
  <2>4. Len(p) <= Len(t)
    BY <1>1, <1>2, <2>1
  <2>. QED
    BY <1>1, <1>4, <2>1, <2>2, <2>3, <2>4
<1>8. ASSUME IsPrefix(p, t), n <= Len(t), t[n] = <<i, k>> PROVE IsPrefix(q, t)
  <2>1. \A j \in 1 .. Len(q) : q[j] = t[j]
    BY <1>1, <1>4, <1>5, <1>8
  <2>. QED
    BY <1>1, <1>3, <1>8, <2>1
<1>. QED
  BY <1>6, <1>7, <1>8 DEF q

\* When the cursor moves on, what the entry under it leads to is no longer ahead of
\* the activation, and everything else that was ahead still is.
LEMMA CursorMoves ==
    ASSUME ShreddingInvariant, OnTheWay, Working, NEW l \in Leaves, NEW t \in Slots(message, l)
    PROVE  /\ IsAhead(NextEntry(Top), t, l) <=> IsAhead(Top, t, l) /\ ~ AtCursor(t, l)
           /\ AtCursor(t, l) => IsAhead(Top, t, l)
<1>. DEFINE n == Len(callStack)
            c == Top.child
            o == Top.occ
            size0 == FieldSize(message, Top.msg, c)
            next == NextEntry(Top)
<1>1. /\ callStack # <<>> /\ IsMessage(message) /\ n \in Nat \ {0} /\ Top = callStack[n]
      /\ n \in 1 .. n
  BY WayFacts DEF Working
<1>2. /\ Len(Top.msg) = n - 1 /\ Top.msg \in Addresses
      /\ c \in Nat /\ o \in Nat /\ 1 <= o /\ 1 <= c /\ Top \in Frames
      /\ Top.writer \in Types /\ TypeOf(Top.msg) = Top.writer
  BY <1>1, WayFacts
<1>3. t \in Addresses
  BY <1>1, SlotsAreFinite
<1>4. FieldAddress(Top) = Child(Top.msg, c, o)
  BY DEF FieldAddress
<1>5. IsPrefix(FieldAddress(Top), t) <=> IsPrefix(Top.msg, t) /\ n <= Len(t) /\ t[n] = <<c, o>>
  <2>1. Len(Top.msg) + 1 = n
    BY <1>1, <1>2
  <2>2. PICK p \in Addresses : p = Top.msg
    BY <1>2
  <2>3. c \in Nat /\ o \in Nat
    BY <1>2
  <2>. HIDE DEF c, o
  <2>4. IsPrefix(Child(p, c, o), t) <=> /\ IsPrefix(p, t) /\ Len(p) + 1 <= Len(t)
                                        /\ t[Len(p) + 1] = <<c, o>>
    BY <1>3, <2>2, <2>3, BelowChild
  <2>. QED
    BY <1>4, <2>1, <2>2, <2>4 DEF c, o
<1>6. /\ next.msg = Top.msg
      /\ IF IsRepeated(ChildWriter(Top)) /\ o < size0 THEN next.child = c /\ next.occ = o + 1
         ELSE next.child = c + 1 /\ next.occ = 1
  BY <1>2 DEF NextEntry, Frames
<1>. HIDE DEF next
<1>7. CASE ~ IsPrefix(Top.msg, t)
  <2>1. ~ IsAhead(Top, t, l) /\ ~ IsAhead(next, t, l)
    BY <1>6, <1>7 DEF IsAhead
  <2>2. ~ AtCursor(t, l)
    BY <1>5, <1>7 DEF AtCursor, EntryAddress
  <2>. QED
    BY <2>1, <2>2 DEF next
<1>8. CASE IsPrefix(Top.msg, t)
  <2>. DEFINE p == t[n][2]
              q == l[n]
              deep == n <= Len(t)
  <2>1. /\ q \in Nat /\ 1 <= q
        /\ IsPrefix(ChildWriter(Top), l) <=> q = c
        /\ \A fr : fr.msg = Top.msg =>
               (IsAhead(fr, t, l) <=> q > fr.child \/ (q = fr.child /\ (deep => p >= fr.occ)))
        /\ deep => /\ p \in Nat /\ 1 <= p /\ Child(Top.msg, q, p) \in DOMAIN message
                   /\ t[n] = <<q, p>>
        /\ q = c => (deep <=> HasValue(Top))
        /\ HasValue(Top) <=> o <= size0
        /\ size0 \in Nat
        /\ ~ HasValue(Top) => o = 1
    BY <1>8, AheadOfCursor
  <2>2. IsAhead(Top, t, l) <=> q > c \/ (q = c /\ (deep => p >= o))
    BY <2>1
  <2>3. IsAhead(next, t, l) <=> q > next.child \/ (q = next.child /\ (deep => p >= next.occ))
    BY <1>6, <2>1
  <2>4. AtCursor(t, l) <=> q = c /\ (deep => p = o)
    <3>1. CASE HasValue(Top)
      <4>1. AtCursor(t, l) <=> q = c /\ deep /\ t[n] = <<c, o>>
        BY <1>5, <1>8, <2>1, <3>1 DEF AtCursor, EntryAddress
      <4>. QED
        BY <2>1, <3>1, <4>1
    <3>2. CASE ~ HasValue(Top)
      <4>1. AtCursor(t, l) <=> q = c
        BY <1>8, <2>1, <3>2 DEF AtCursor, EntryAddress
      <4>. QED
        BY <2>1, <3>2, <4>1
    <3>. QED
      BY <3>1, <3>2
  <2>5. ASSUME q = c, deep
        PROVE  p <= size0 /\ (p > 1 => IsRepeated(ChildWriter(Top)))
    <3>1. Child(Top.msg, c, p) \in DOMAIN message /\ p \in Nat
      BY <2>1, <2>5
    <3>2. \A x \in Nat : Child(Top.msg, c, x) \in DOMAIN message <=> 1 <= x /\ x <= size0
      BY <1>1, <1>2, FieldSizeIs
    <3>3. p > 1 => IsRepeated(Append(TypeOf(Top.msg), c))
      BY <1>1, <1>2, <3>1, ChildPresent
    <3>. QED
      BY <1>2, <3>1, <3>2, <3>3 DEF ChildWriter
  <2>. HIDE DEF p, q, deep, size0, n, c, o
  <2>6. CASE IsRepeated(ChildWriter(Top)) /\ o < size0
    <3>1. next.child = c /\ next.occ = o + 1
      BY <1>6, <2>6
    <3>. QED
      BY <1>2, <2>1, <2>2, <2>3, <2>4, <2>6, <3>1 DEF next
  <2>7. CASE ~ (IsRepeated(ChildWriter(Top)) /\ o < size0)
    <3>1. next.child = c + 1 /\ next.occ = 1
      BY <1>6, <2>7
    <3>2. IsAhead(next, t, l) <=> q > c
      BY <1>2, <2>1, <2>3, <3>1
    <3>3. q = c /\ deep /\ p >= o => p = o
      <4>1. ASSUME q = c, deep, p >= o PROVE p = o
        BY <1>2, <2>1, <2>5, <2>7, <4>1
      <4>. QED
        BY <4>1
    <3>. QED
      BY <1>2, <2>1, <2>2, <2>4, <3>2, <3>3 DEF next
  <2>. QED
    BY <2>6, <2>7
<1>. QED
  BY <1>7, <1>8

\* The last repeated step of a child.
LEMMA LastRepeatOfChild ==
    ASSUME NEW p \in Addresses, NEW i \in Nat, NEW k \in Nat
    PROVE  LastRepeat(Child(p, i, k)) = IF k > 1 THEN Len(p) + 1 ELSE LastRepeat(p)
<1>. DEFINE q == Child(p, i, k)
            x == LastRepeat(p)
            y == LastRepeat(q)
            n == Len(p) + 1
<1>1. /\ q \in Addresses /\ Len(q) = n /\ Len(p) \in Nat /\ q[n] = <<i, k>>
      /\ \A j \in 1 .. Len(p) : q[j] = p[j]
  BY ChildIs
<1>. HIDE DEF q
<1>2. /\ x \in Nat /\ x <= Len(p) /\ (x > 0 => p[x][2] > 1)
      /\ \A j \in 1 .. Len(p) : p[j][2] > 1 => j <= x
  BY LastRepeatIs
<1>3. /\ y \in Nat /\ y <= n /\ (y > 0 => q[y][2] > 1)
      /\ \A j \in 1 .. n : q[j][2] > 1 => j <= y
  BY <1>1, LastRepeatIs
<1>. HIDE DEF x, y
<1>4. q[n][2] = k /\ n \in 1 .. n
  BY <1>1
<1>5. k > 1 => y = n
  BY <1>1, <1>3, <1>4
<1>6. ASSUME ~ (k > 1) PROVE y = x
  <2>1. y # n
    BY <1>1, <1>3, <1>4, <1>6
  <2>2. y > 0 => y \in 1 .. Len(p)
    BY <1>1, <1>3, <2>1
  <2>3. y > 0 => p[y][2] > 1
    BY <1>1, <1>3, <2>2
  <2>4. y <= x
    BY <1>2, <1>3, <2>2, <2>3
  <2>5. x > 0 => x \in 1 .. Len(p) /\ x \in 1 .. n
    BY <1>1, <1>2
  <2>6. x > 0 => q[x][2] > 1
    BY <1>1, <1>2, <2>5
  <2>7. x <= y
    BY <1>2, <1>3, <2>5, <2>6
  <2>. QED
    BY <1>2, <1>3, <2>4, <2>7
<1>. QED
  BY <1>5, <1>6 DEF q, x, y

\* The first steps of a path below a node are those of the node.
LEMMA StepsOfNode ==
    ASSUME NEW w \in Seq(Nat), NEW l \in Seq(Nat), IsPrefix(w, l), NEW j \in Nat, j <= Len(w)
    PROVE  Prefix(l, j) = Prefix(w, j)
<1>1. Len(w) \in Nat /\ Len(l) \in Nat /\ Len(w) <= Len(l) /\ \A i \in 1 .. Len(w) : w[i] = l[i]
  BY LenProperties, PrefixIs
<1>2. /\ Prefix(w, j) \in Seq(Nat) /\ Len(Prefix(w, j)) = j
      /\ \A i \in 1 .. j : Prefix(w, j)[i] = w[i]
  BY FirstSteps
<1>3. /\ Prefix(l, j) \in Seq(Nat) /\ Len(Prefix(l, j)) = j
      /\ \A i \in 1 .. j : Prefix(l, j)[i] = l[i]
  <2>1. j <= Len(l)
    BY <1>1
  <2>. QED
    BY <2>1, FirstSteps
<1>4. \A i \in 1 .. j : i \in 1 .. Len(w)
  BY <1>1
<1>5. \A i \in 1 .. j : Prefix(l, j)[i] = Prefix(w, j)[i]
  BY <1>1, <1>2, <1>3, <1>4
<1>. QED
  BY <1>2, <1>3, <1>5, SeqEqual

\* The repetition level of the entry under the cursor is that of the last repeated
\* step of its address.
LEMMA LevelOfEntry ==
    ASSUME ShreddingInvariant, OnTheWay, Working
    PROVE  LET w == ChildWriter(Top)
           IN  /\ ChildRepetitionLevel(Top) = GetMaxRepetitionLevel[Prefix(w, LastRepeat(FieldAddress(Top)))]
               /\ LastRepeat(FieldAddress(Top)) \in Nat /\ LastRepeat(FieldAddress(Top)) <= Len(w)
               /\ Top.occ = 1 => /\ LastRepeat(FieldAddress(Top)) = LastRepeat(Top.msg)
                                 /\ LastRepeat(Top.msg) <= Len(Top.writer)
               /\ w \in Seq(Nat) /\ Len(w) = Len(Top.writer) + 1 /\ Len(Top.writer) \in Nat
               /\ IsPrefix(Top.writer, w)
<1>. DEFINE n == Len(callStack)
            c == Top.child
            o == Top.occ
            w == ChildWriter(Top)
            a == FieldAddress(Top)
<1>1. /\ callStack # <<>> /\ n \in Nat \ {0} /\ Top = callStack[n] /\ n \in 1 .. n
  BY WayFacts DEF Working
<1>2. /\ Len(Top.msg) = n - 1 /\ Top.msg \in Addresses
      /\ c \in Nat /\ o \in Nat /\ 1 <= o /\ Top \in Frames
      /\ Top.writer \in Types /\ Top.writer \in Seq(Nat) /\ Len(Top.writer) = n - 1
  BY <1>1, WayFacts
<1>3. Consistent(Top)
  BY CursorFacts DEF ShreddingInvariant
<1>4. c \in Top.seen <=> o > 1
  BY <1>2, <1>3 DEF Consistent
<1>5. Top.rep = GetMaxRepetitionLevel[Prefix(Top.writer, LastRepeat(Top.msg))]
  BY <1>1 DEF OnTheWay
<1>6. LastRepeat(a) = IF o > 1 THEN n ELSE LastRepeat(Top.msg)
  <2>1. PICK p \in Addresses : p = Top.msg
    BY <1>2
  <2>2. LastRepeat(Child(p, c, o)) = IF o > 1 THEN Len(p) + 1 ELSE LastRepeat(p)
    BY <1>2, LastRepeatOfChild
  <2>3. Len(p) + 1 = n
    BY <1>1, <1>2, <2>1
  <2>. QED
    BY <2>1, <2>2, <2>3 DEF FieldAddress
<1>7. LastRepeat(Top.msg) \in Nat /\ LastRepeat(Top.msg) <= Len(Top.writer)
  BY <1>2, LastRepeatIs
<1>8. /\ w \in Seq(Nat) /\ Len(w) = Len(Top.writer) + 1 /\ Len(w) = n
      /\ IsPrefix(Top.writer, w)
  <2>1. Len(w) = Len(Top.writer) + 1 /\ w \in Seq(Nat)
    BY <1>2, AppendProperties DEF ChildWriter
  <2>2. IsPrefix(Top.writer, w)
    BY <1>2, PrefixOfAppend DEF ChildWriter
  <2>. QED
    BY <1>1, <1>2, <2>1, <2>2
<1>. HIDE DEF w, a, n, c, o
<1>9. CASE o > 1
  <2>1. Prefix(w, n) = w
    BY <1>1, <1>8, FirstSteps
  <2>2. ChildRepetitionLevel(Top) = GetMaxRepetitionLevel[w]
    BY <1>4, <1>9 DEF ChildRepetitionLevel, c, w
  <2>. QED
    BY <1>1, <1>2, <1>6, <1>8, <1>9, <2>1, <2>2 DEF a, w, o
<1>10. CASE ~ (o > 1)
  <2>1. Prefix(w, LastRepeat(Top.msg)) = Prefix(Top.writer, LastRepeat(Top.msg))
    BY <1>2, <1>7, <1>8, StepsOfNode
  <2>2. ChildRepetitionLevel(Top) = Top.rep
    BY <1>4, <1>10 DEF ChildRepetitionLevel, c
  <2>3. LastRepeat(a) = LastRepeat(Top.msg)
    BY <1>6, <1>10
  <2>4. LastRepeat(a) <= Len(w)
    BY <1>1, <1>2, <1>7, <1>8, <2>3
  <2>. QED
    BY <1>1, <1>2, <1>5, <1>7, <1>8, <2>1, <2>2, <2>3, <2>4 DEF a, w, o
<1>. QED
  BY <1>9, <1>10

\* A field that could be missing has one definition level more than its type.
LEMMA LevelOfOptional ==
    ASSUME NEW w \in Types, NEW c \in Nat, Append(w, c) \in Fields,
           Label[Append(w, c)] # "required"
    PROVE  GetDefinitionLevel[Append(w, c)] = GetDefinitionLevel[w] + 1
<1>. DEFINE f == Append(w, c)
            D(g) == {n \in 1 .. Len(g) : Label[Prefix(g, n)] # "required"}
<1>1. /\ w \in Seq(Nat) /\ f \in Seq(Nat) /\ Len(w) \in Nat /\ Len(f) = Len(w) + 1
      /\ IsPrefix(w, f)
  BY PathsAreSequences, LenProperties, AppendProperties, PrefixOfAppend
<1>2. w \in Nodes /\ f \in Nodes
  <2>1. Groups \subseteq Fields
    BY SchemaAssumption
  <2>. QED
    BY <2>1 DEF Types, Nodes
<1>3. GetDefinitionLevel[w] = Cardinality(D(w)) /\ GetDefinitionLevel[f] = Cardinality(D(f))
  BY <1>2 DEF GetDefinitionLevel
<1>. HIDE DEF f
<1>4. Prefix(f, Len(f)) = f
  <2>1. Len(f) \in Nat /\ Len(f) <= Len(f)
    BY <1>1
  <2>. QED
    BY <1>1, <2>1, FirstSteps
<1>5. ASSUME NEW n \in 1 .. Len(w) PROVE Prefix(f, n) = Prefix(w, n)
  <2>1. n \in Nat /\ n <= Len(w)
    BY <1>1
  <2>. QED
    BY <1>1, <2>1, StepsOfNode
<1>6. D(f) = D(w) \cup {Len(f)}
  <2>1. \A n \in 1 .. Len(f) : n \in 1 .. Len(w) \/ n = Len(f)
    BY <1>1
  <2>2. (\A n \in 1 .. Len(w) : n \in 1 .. Len(f)) /\ Len(f) \in 1 .. Len(f)
    BY <1>1
  <2>3. Label[Prefix(f, Len(f))] # "required"
    BY <1>4 DEF f
  <2>. QED
    BY <1>5, <2>1, <2>2, <2>3
<1>7. Len(f) \notin D(w)
  BY <1>1
<1>8. IsFiniteSet(D(w))
  <2>1. IsFiniteSet(1 .. Len(w)) /\ D(w) \in SUBSET (1 .. Len(w))
    BY <1>1, FS_Interval
  <2>. QED
    BY <2>1, FS_Subset
<1>. HIDE DEF D
<1>9. Cardinality(D(f)) = Cardinality(D(w)) + 1
  BY <1>6, <1>7, <1>8, FS_AddElement
<1>. QED
  BY <1>3, <1>9 DEF f

\* The slot that a write fills: it is the first of those that are ahead in its column.
LEMMA WrittenSlot ==
    ASSUME ShreddingInvariant, OnTheWay, Working,
           NEW l \in Leaves, IsPrefix(ChildWriter(Top), l), HasValue(Top) => l = ChildWriter(Top)
    PROVE  /\ EntryAddress \in Slots(message, l)
           /\ \A t \in Slots(message, l) : AtCursor(t, l) <=> t = EntryAddress
           /\ \A t \in Slots(message, l) :
                 t \in SlotsAhead(l) <=> t = EntryAddress \/ Earlier(EntryAddress, t)
           /\ \A k \in 1 .. Len(callStack) - 1 : ~ IsAhead(callStack[k], EntryAddress, l)
<1>. DEFINE n == Len(callStack)
            c == Top.child
            o == Top.occ
<1>0. PICK s : s = EntryAddress
  OBVIOUS
<1>1. /\ callStack # <<>> /\ IsMessage(message) /\ n \in Nat \ {0} /\ Top = callStack[n]
      /\ n \in 1 .. n
  BY WayFacts DEF Working
<1>2. /\ Len(Top.msg) = n - 1 /\ Top.msg \in Addresses /\ Top.msg \in DOMAIN message
      /\ c \in Nat /\ o \in Nat /\ 1 <= o
      /\ Top.writer \in Types /\ Top.writer \in Seq(Nat) /\ Len(Top.writer) = n - 1
      /\ TypeOf(Top.msg) = Top.writer
  BY <1>1, WayFacts
<1>3. IsPrefix(Top.writer, l) /\ n <= Len(l) /\ l[n] = c
  <2>1. l \in Seq(Nat) /\ Len(Top.writer) + 1 = n
    BY <1>1, <1>2, LeafPath
  <2>2. IsPrefix(Append(Top.writer, c), l)
    BY DEF ChildWriter
  <2>3. IsPrefix(Top.writer, l) /\ l[Len(Top.writer) + 1] = c
    BY <1>2, <2>1, <2>2, PrefixAppend
  <2>4. n <= Len(l)
    BY <1>1, <2>3, OuterOnPath
  <2>. QED
    BY <2>1, <2>3, <2>4
<1>4. Top.msg \in OnPath(message, l)
  BY <1>1, <1>3, OuterOnPath
<1>5. PICK p \in Addresses : p = Top.msg
  BY <1>2
<1>6. /\ Child(p, c, o) \in Addresses /\ Len(Child(p, c, o)) = n
      /\ Child(p, c, o)[n] = <<c, o>>
      /\ \A j \in 1 .. n - 1 : Child(p, c, o)[j] = p[j]
      /\ TypeOf(Child(p, c, o)) = Append(TypeOf(p), c)
  <2>0. c \in Nat /\ o \in Nat
    BY <1>2
  <2>. HIDE DEF c, o
  <2>1. /\ Child(p, c, o) \in Addresses /\ Len(Child(p, c, o)) = Len(p) + 1
        /\ Child(p, c, o)[Len(p) + 1] = <<c, o>>
        /\ \A j \in 1 .. Len(p) : Child(p, c, o)[j] = p[j]
        /\ TypeOf(Child(p, c, o)) = Append(TypeOf(p), c)
    BY <2>0, ChildIs
  <2>2. Len(p) = n - 1 /\ Len(p) + 1 = n
    BY <1>1, <1>2, <1>5
  <2>. QED
    BY <2>1, <2>2
<1>. HIDE DEF n, c, o
<1>7. s \in Slots(message, l) /\ s \in Addresses /\ n - 1 <= Len(s) /\ (\A j \in 1 .. n - 1 : s[j] = p[j])
  <2>1. CASE HasValue(Top)
    <3>1. s = Child(p, c, o) /\ s \in DOMAIN message /\ TypeOf(s) = l
      BY <1>0, <1>2, <1>5, <1>6, <2>1 DEF EntryAddress, FieldAddress, HasValue, ChildWriter, c, o
    <3>2. IsPrefix(l, l)
      <4>1. l \in Seq(Nat) /\ Len(l) <= Len(l)
        BY LeafPath
      <4>2. \A j \in 1 .. Len(l) : l[j] = l[j]
        OBVIOUS
      <4>. QED
        BY <4>1, <4>2, PrefixIs
    <3>3. s \in OnPath(message, l)
      BY <3>1, <3>2 DEF OnPath
    <3>4. Len(s) = Len(l)
      BY <1>6, <3>1, TypeOfSteps
    <3>5. s \in Slots(message, l)
      BY <1>1, <3>3, <3>4, LeafPath, SlotIs
    <3>6. n - 1 <= Len(s)
      <4>1. Len(s) = n
        BY <1>6, <3>1
      <4>. QED
        BY <1>1, <4>1
    <3>. QED
      BY <1>6, <3>1, <3>5, <3>6
  <2>2. CASE ~ HasValue(Top)
    <3>1. s = p
      BY <1>0, <1>5, <2>2 DEF EntryAddress
    <3>2. o = 1
      BY <1>1, <1>2, <2>2 DEF OnTheWay, o, n
    <3>3. Child(p, l[Len(p) + 1], 1) \notin DOMAIN message
      <4>1. Len(p) + 1 = n
        BY <1>1, <1>2, <1>5
      <4>. QED
        BY <1>3, <1>5, <2>2, <3>2, <4>1 DEF HasValue, FieldAddress, c, o
    <3>4. s \in Slots(message, l)
      BY <1>1, <1>4, <1>5, <3>1, <3>3, SlotIs
    <3>5. n - 1 <= Len(s)
      BY <1>1, <1>2, <1>5, <3>1
    <3>. QED
      BY <3>1, <3>4, <3>5
  <2>. QED
    BY <2>1, <2>2
<1>8. ASSUME NEW t \in Slots(message, l) PROVE AtCursor(t, l) <=> t = s
  <2>1. t \in OnPath(message, l) /\ t \in Addresses
    BY <1>1, SlotsAreFinite
  <2>2. IsPrefix(s, t) => s = t
    BY <1>7, <2>1, NothingBelowSlot
  <2>3. IsPrefix(s, s)
    <3>1. s \in Seq(Nat \X Nat) /\ Len(s) <= Len(s)
      BY <1>7, TypeOfSteps DEF Addresses
    <3>2. \A j \in 1 .. Len(s) : s[j] = s[j]
      OBVIOUS
    <3>. QED
      BY <3>1, <3>2, PrefixIs
  <2>. QED
    BY <1>0, <2>2, <2>3 DEF AtCursor
<1>9. ASSUME NEW t \in Slots(message, l), NEW k \in 1 .. n - 1
      PROVE  IsAhead(callStack[k], t, l) <=> FirstDiffer(s, t, k)
  <2>1. IsAhead(callStack[k], t, l) <=> FirstDiffer(Top.msg, t, k)
    BY <1>1, <1>3, AheadOfOuter DEF n
  <2>2. k \in Nat /\ 1 <= k /\ k <= n - 1 /\ Len(p) = n - 1 /\ k <= Len(s) /\ k <= Len(p)
    <3>1. k \in Nat /\ 1 <= k /\ k <= n - 1 /\ Len(p) = n - 1 /\ Len(s) \in Nat
      BY <1>1, <1>2, <1>5, <1>7, TypeOfSteps
    <3>. QED
      BY <1>1, <1>7, <3>1
  <2>3. s[k] = p[k] /\ \A j \in 1 .. k - 1 : s[j] = p[j]
    BY <1>1, <1>7, <2>2
  <2>4. FirstDiffer(p, t, k) <=> FirstDiffer(s, t, k)
    BY <2>2, <2>3 DEF FirstDiffer
  <2>. QED
    BY <1>5, <2>1, <2>4
<1>10. ASSUME NEW k \in 1 .. n - 1 PROVE ~ IsAhead(callStack[k], s, l)
  <2>1. ~ FirstDiffer(s, s, k)
    <3>1. ~ Earlier(s, s)
      BY <1>7, EarlierIsOrder
    <3>. QED
      BY <1>7, <3>1, EarlierIs
  <2>. QED
    BY <1>7, <1>9, <2>1
<1>11. ASSUME NEW t \in Slots(message, l)
       PROVE  IsAhead(Top, t, l) <=> t = s \/ FirstDiffer(s, t, n)
  <2>0. t \in Addresses
    BY <1>1, SlotsAreFinite
  <2>1. AtCursor(t, l) => IsAhead(Top, t, l)
    BY CursorMoves
  <2>2. IsPrefix(Top.msg, t) =>
          /\ IsAhead(Top, t, l) <=> l[n] > c \/ (l[n] = c /\ (n <= Len(t) => t[n][2] >= o))
          /\ Len(t) \in Nat
          /\ n <= Len(t) => t[n][2] \in Nat /\ t[n] = <<l[n], t[n][2]>>
          /\ l[n] = c => (n <= Len(t) <=> HasValue(Top))
    BY AheadOfCursor DEF n, c, o
  <2>3. ASSUME IsAhead(Top, t, l), t # s PROVE FirstDiffer(s, t, n)
    <3>1. IsPrefix(Top.msg, t)
      BY <2>3 DEF IsAhead
    <3>2. ~ AtCursor(t, l)
      BY <1>8, <2>3
    <3>3. HasValue(Top)
      BY <1>0, <3>1, <3>2 DEF AtCursor, EntryAddress
    <3>4. n <= Len(t) /\ t[n][2] >= o /\ t[n][2] \in Nat /\ t[n] = <<c, t[n][2]>>
      BY <1>2, <1>3, <2>2, <2>3, <3>1, <3>3 DEF c, o
    <3>5. s = Child(p, c, o)
      BY <1>0, <1>5, <3>3 DEF EntryAddress, FieldAddress, c, o
    <3>6. IsPrefix(p, t) /\ Len(p) + 1 = n
      BY <1>1, <1>2, <1>5, <3>1
    <3>7. IsPrefix(Child(p, c, o), t) <=> IsPrefix(p, t) /\ Len(p) + 1 <= Len(t) /\ t[Len(p) + 1] = <<c, o>>
      <4>1. c \in Nat /\ o \in Nat
        BY <1>2 DEF c, o
      <4>. QED
        BY <2>0, <4>1, BelowChild
    <3>8. ~ IsPrefix(s, t)
      BY <1>0, <3>2 DEF AtCursor
    <3>9. t[n][2] # o
      BY <3>4, <3>5, <3>6, <3>7, <3>8
    <3>10. o < t[n][2]
      BY <1>2, <3>4, <3>9 DEF o
    <3>11. \A j \in 1 .. n - 1 : p[j] = t[j]
      <4>1. p \in Seq(Nat \X Nat) /\ t \in Seq(Nat \X Nat) /\ IsPrefix(p, t)
        BY <2>0, <3>6 DEF Addresses
      <4>2. \A j \in 1 .. Len(p) : p[j] = t[j]
        BY <4>1, PrefixIs
      <4>. QED
        BY <1>2, <1>5, <4>2
    <3>12. n \in Nat /\ 1 <= n /\ n <= Len(s) /\ s[n][2] = o
      <4>1. n \in Nat /\ 1 <= n /\ n <= n
        BY <1>1
      <4>. QED
        BY <1>6, <3>5, <4>1
    <3>13. \A j \in 1 .. n - 1 : s[j] = t[j]
      BY <1>7, <3>11
    <3>. QED
      BY <3>4, <3>10, <3>12, <3>13 DEF FirstDiffer
  <2>4. ASSUME FirstDiffer(s, t, n) PROVE IsAhead(Top, t, l)
    <3>1. n <= Len(s) /\ n <= Len(t) /\ s[n][2] < t[n][2] /\ \A j \in 1 .. n - 1 : s[j] = t[j]
      BY <2>4 DEF FirstDiffer
    <3>2. HasValue(Top)
      <4>1. ~ HasValue(Top) => Len(s) = n - 1
        BY <1>0, <1>2 DEF EntryAddress
      <4>. QED
        BY <1>1, <3>1, <4>1
    <3>3. s = Child(p, c, o) /\ s[n][2] = o
      BY <1>0, <1>5, <1>6, <3>2 DEF EntryAddress, FieldAddress, c, o
    <3>4. IsPrefix(Top.msg, t)
      <4>1. p \in Seq(Nat \X Nat) /\ t \in Seq(Nat \X Nat) /\ Len(t) \in Nat
        BY <2>0, TypeOfSteps DEF Addresses
      <4>2. Len(p) <= Len(t) /\ \A j \in 1 .. Len(p) : p[j] = t[j]
        <5>1. Len(p) = n - 1
          BY <1>2, <1>5
        <5>2. n - 1 <= Len(t)
          BY <1>1, <3>1, <4>1
        <5>. QED
          BY <1>7, <3>1, <5>1, <5>2
      <4>3. IsPrefix(p, t)
        BY <4>1, <4>2, PrefixIs
      <4>. QED
        BY <1>5, <4>3
    <3>5. t[n][2] >= o
      BY <1>2, <2>2, <3>1, <3>3, <3>4 DEF o
    <3>. QED
      BY <1>3, <2>2, <3>4, <3>5
  <2>5. t = s => IsAhead(Top, t, l)
    BY <1>8, <2>1
  <2>. QED
    BY <2>3, <2>4, <2>5
<1>12. ASSUME NEW t \in Slots(message, l)
       PROVE  t \in SlotsAhead(l) <=> t = s \/ Earlier(s, t)
  <2>1. t \in Addresses
    BY <1>1, SlotsAreFinite
  <2>2. t \in SlotsAhead(l) <=> \E k \in 1 .. n : IsAhead(callStack[k], t, l)
    BY DEF SlotsAhead, n
  <2>3. Earlier(s, t) <=> \E k : FirstDiffer(s, t, k)
    BY <1>7, <2>1, EarlierIs
  <2>4. \A k \in 1 .. n : k \in 1 .. n - 1 \/ k = n
    BY <1>1
  <2>5. ASSUME t \in SlotsAhead(l) PROVE t = s \/ Earlier(s, t)
    BY <1>1, <1>9, <1>11, <2>2, <2>3, <2>4, <2>5
  <2>6. ASSUME t = s PROVE t \in SlotsAhead(l)
    BY <1>1, <1>11, <2>2, <2>6
  <2>7. ASSUME NEW k, FirstDiffer(s, t, k) PROVE t \in SlotsAhead(l)
    <3>1. k \in Nat /\ 1 <= k /\ k <= Len(s)
      BY <2>7 DEF FirstDiffer
    <3>2. Len(s) <= n
      <4>1. Len(s) = n \/ Len(s) = n - 1
        BY <1>0, <1>2, <1>5, <1>6 DEF EntryAddress, FieldAddress, c, o
      <4>. QED
        BY <1>1, <4>1
    <3>3. k \in 1 .. n
      BY <1>1, <1>7, <3>1, <3>2, TypeOfSteps
    <3>4. CASE k = n
      BY <1>1, <1>11, <2>2, <2>7, <3>3, <3>4
    <3>5. CASE k # n
      <4>1. k \in 1 .. n - 1
        BY <2>4, <3>3, <3>5
      <4>. QED
        BY <1>9, <2>2, <2>7, <3>3, <4>1
    <3>. QED
      BY <3>4, <3>5
  <2>. QED
    BY <2>3, <2>5, <2>6, <2>7
<1>. QED
  BY <1>0, <1>7, <1>8, <1>10, <1>12 DEF n

\* The row that a write stores is the one that the definition asks for.
LEMMA WrittenRow ==
    ASSUME ShreddingInvariant, OnTheWay, Working,
           NEW l \in Leaves, IsPrefix(ChildWriter(Top), l), HasValue(Top) => l = ChildWriter(Top)
    PROVE  LET w == ChildWriter(Top)
           IN  /\ HasValue(Top) =>
                      RowOfSlot(message, l, EntryAddress) =
                          [v |-> message[FieldAddress(Top)], r |-> ChildRepetitionLevel(Top),
                           d |-> GetDefinitionLevel[w]]
               /\ ~ HasValue(Top) /\ IsInitialized(message) =>
                      RowOfSlot(message, l, EntryAddress) =
                          [v |-> Default, r |-> ChildRepetitionLevel(Top),
                           d |-> NullDefinitionLevel(w)]
<1>. DEFINE w == ChildWriter(Top)
            n == Len(callStack)
<1>1. /\ callStack # <<>> /\ IsMessage(message) /\ Top = callStack[n] /\ n \in 1 .. n
  BY WayFacts DEF Working
<1>2. /\ Top.msg \in Addresses /\ Top.msg \in DOMAIN message /\ Top.occ \in Nat /\ 1 <= Top.occ
      /\ Top.writer \in Types /\ Top.writer \in Seq(Nat) /\ TypeOf(Top.msg) = Top.writer
  BY <1>1, WayFacts
<1>3. /\ Top.child \in 1 .. Arity[Top.writer] /\ w \in Fields
      /\ TypeOf(FieldAddress(Top)) = w
  BY CursorFacts DEF ShreddingInvariant
<1>4. /\ ChildRepetitionLevel(Top) = GetMaxRepetitionLevel[Prefix(w, LastRepeat(FieldAddress(Top)))]
      /\ LastRepeat(FieldAddress(Top)) \in Nat /\ LastRepeat(FieldAddress(Top)) <= Len(w)
      /\ Top.occ = 1 => LastRepeat(FieldAddress(Top)) = LastRepeat(Top.msg)
      /\ w \in Seq(Nat) /\ Len(w) = Len(Top.writer) + 1 /\ Len(Top.writer) \in Nat
  BY LevelOfEntry
<1>5. l \in Seq(Nat) /\ Len(l) \in Nat
  BY LeafPath
<1>6. Prefix(l, LastRepeat(FieldAddress(Top))) = Prefix(w, LastRepeat(FieldAddress(Top)))
  <2>1. PICK j \in Nat : j = LastRepeat(FieldAddress(Top)) /\ j <= Len(w)
    BY <1>4
  <2>2. IsPrefix(w, l) /\ w \in Seq(Nat)
    BY <1>4
  <2>. HIDE DEF w
  <2>3. Prefix(l, j) = Prefix(w, j)
    BY <1>5, <2>1, <2>2, StepsOfNode
  <2>. QED
    BY <2>1, <2>3
<1>7. ~ HasValue(Top) => Top.occ = 1
  <2>1. Top.occ > 1 => HasValue(Top)
    BY <1>1 DEF OnTheWay
  <2>. QED
    BY <1>2, <2>1
<1>. HIDE DEF w, n
<1>8. CASE HasValue(Top)
  <2>1. EntryAddress = FieldAddress(Top)
    BY <1>8 DEF EntryAddress
  <2>2. TypeOf(EntryAddress) = l /\ l = w
    BY <1>3, <1>8, <2>1 DEF w
  <2>. QED
    BY <1>4, <1>6, <1>8, <2>1, <2>2 DEF RowOfSlot, w
<1>9. CASE ~ HasValue(Top) /\ IsInitialized(message)
  <2>1. EntryAddress = Top.msg /\ Top.occ = 1
    BY <1>7, <1>9 DEF EntryAddress
  <2>2. TypeOf(EntryAddress) = Top.writer /\ Top.writer # l
    <3>1. Len(w) <= Len(l)
      BY <1>4, <1>5, PrefixIs DEF w
    <3>. QED
      BY <1>2, <1>4, <1>5, <2>1, <3>1
  <2>3. Label[w] # "required"
    <3>1. Label[Append(TypeOf(Top.msg), Top.child)] = "required" =>
              Child(Top.msg, Top.child, 1) \in DOMAIN message
      BY <1>2, <1>3, <1>9 DEF IsInitialized
    <3>. QED
      BY <1>2, <1>9, <2>1, <3>1 DEF w, ChildWriter, HasValue, FieldAddress
  <2>4. GetDefinitionLevel[w] = GetDefinitionLevel[Top.writer] + 1
    <3>1. Arity[Top.writer] \in Nat
      BY <1>2, PathsAreSequences
    <3>2. Top.child \in Nat
      BY <1>3, <3>1
    <3>. QED
      BY <1>2, <1>3, <2>3, <3>2, LevelOfOptional DEF w, ChildWriter
  <2>5. GetDefinitionLevel[w] - 1 = GetDefinitionLevel[Top.writer] /\ GetDefinitionLevel[Top.writer] \in 0 .. UIntMod - 1
        /\ UIntMod \in Nat \ {0}
    <3>1. Top.writer \in Nodes
      <4>1. Groups \subseteq Fields
        BY SchemaAssumption
      <4>. QED
        BY <1>2, <4>1 DEF Types, Nodes
    <3>2. /\ GetDefinitionLevel[Top.writer] \in Nat /\ GetDefinitionLevel[Top.writer] < UIntMod
          /\ UIntMod \in Nat \ {0}
      BY <3>1, LevelBounds
    <3>. QED
      BY <2>4, <3>2
  <2>6. NullDefinitionLevel(w) = GetDefinitionLevel[Top.writer]
    BY <2>5 DEF NullDefinitionLevel
  <2>7. ChildRepetitionLevel(Top) = GetMaxRepetitionLevel[Prefix(l, LastRepeat(EntryAddress))]
    BY <1>4, <1>6, <2>1
  <2>. QED
    BY <1>9, <2>2, <2>6, <2>7 DEF RowOfSlot, w
<1>. QED
  BY <1>8, <1>9

-----------------------------------------------------------------------------
(* Columns. *)

TailGrowsBy(c, x, i) ==
    SubSeq(Append(c, x), i + 1, Len(Append(c, x))) = Append(SubSeq(c, i + 1, Len(c)), x)

PartKept(c, x, i, k) == SubSeq(Append(c, x), i + 1, k) = SubSeq(c, i + 1, k)

\* A column that grows by a row keeps the rows it has, and its last part grows too.
LEMMA TailGrows ==
    ASSUME NEW S, NEW c \in Seq(S), NEW x \in S, NEW i \in Nat, i <= Len(c)
    PROVE  TailGrowsBy(c, x, i) /\ \A k \in Nat : k <= Len(c) => PartKept(c, x, i, k)
<1>. DEFINE d == Append(c, x)
            u(k) == SubSeq(c, i + 1, k)
            v(k) == SubSeq(d, i + 1, k)
<1>1. /\ Len(c) \in Nat /\ d \in Seq(S) /\ Len(d) = Len(c) + 1
      /\ d[Len(c) + 1] = x /\ \A j \in 1 .. Len(c) : d[j] = c[j]
  BY LenProperties, AppendProperties
<1>2. (\A j \in 1 .. Len(c) : c[j] \in S) /\ \A j \in 1 .. Len(d) : d[j] \in S
  BY <1>1, ElementOfSeq
<1>. HIDE DEF d
<1>3. ASSUME NEW k \in Nat, k <= Len(c)
      PROVE  /\ u(k) \in Seq(S) /\ Len(u(k)) = (IF i + 1 <= k THEN k - i ELSE 0)
             /\ \A j \in 1 .. Len(u(k)) : u(k)[j] = c[i + j]
  <2>1. \A j \in i + 1 .. k : c[j] \in S
    BY <1>1, <1>2, <1>3
  <2>2. i + 1 \in Int /\ k \in Int
    BY <1>3
  <2>3. /\ u(k) \in Seq(S) /\ Len(u(k)) = (IF i + 1 <= k THEN k - (i + 1) + 1 ELSE 0)
        /\ \A j \in 1 .. k - (i + 1) + 1 : u(k)[j] = c[(i + 1) + j - 1]
    BY <2>1, <2>2, SubSeqProperties, Z3
  <2>. HIDE DEF u
  <2>4. \A j \in 1 .. Len(u(k)) : j \in 1 .. k - (i + 1) + 1 /\ (i + 1) + j - 1 = i + j
    BY <1>3, <2>3
  <2>5. Len(u(k)) = (IF i + 1 <= k THEN k - i ELSE 0)
    BY <1>3, <2>3
  <2>. QED
    BY <2>3, <2>4, <2>5 DEF u
<1>4. ASSUME NEW k \in Nat, k <= Len(d)
      PROVE  /\ v(k) \in Seq(S) /\ Len(v(k)) = (IF i + 1 <= k THEN k - i ELSE 0)
             /\ \A j \in 1 .. Len(v(k)) : v(k)[j] = d[i + j]
  <2>1. \A j \in i + 1 .. k : d[j] \in S
    BY <1>1, <1>2, <1>4
  <2>2. i + 1 \in Int /\ k \in Int
    BY <1>4
  <2>3. /\ v(k) \in Seq(S) /\ Len(v(k)) = (IF i + 1 <= k THEN k - (i + 1) + 1 ELSE 0)
        /\ \A j \in 1 .. k - (i + 1) + 1 : v(k)[j] = d[(i + 1) + j - 1]
    BY <2>1, <2>2, SubSeqProperties, Z3
  <2>. HIDE DEF v
  <2>4. \A j \in 1 .. Len(v(k)) : j \in 1 .. k - (i + 1) + 1 /\ (i + 1) + j - 1 = i + j
    BY <1>4, <2>3
  <2>5. Len(v(k)) = (IF i + 1 <= k THEN k - i ELSE 0)
    BY <1>4, <2>3
  <2>. QED
    BY <2>3, <2>4, <2>5 DEF v
<1>. HIDE DEF u, v
<1>5. ASSUME NEW k \in Nat, k <= Len(c) PROVE v(k) = u(k)
  <2>1. k <= Len(d)
    BY <1>1, <1>5
  <2>2. /\ u(k) \in Seq(S) /\ Len(u(k)) = (IF i + 1 <= k THEN k - i ELSE 0)
        /\ \A j \in 1 .. Len(u(k)) : u(k)[j] = c[i + j]
    BY <1>3, <1>5
  <2>3. /\ v(k) \in Seq(S) /\ Len(v(k)) = (IF i + 1 <= k THEN k - i ELSE 0)
        /\ \A j \in 1 .. Len(v(k)) : v(k)[j] = d[i + j]
    BY <1>4, <2>1
  <2>4. \A j \in 1 .. Len(u(k)) : i + j \in 1 .. Len(c)
    BY <1>1, <1>5, <2>2
  <2>5. \A j \in 1 .. Len(u(k)) : v(k)[j] = u(k)[j]
    BY <1>1, <2>2, <2>3, <2>4
  <2>. QED
    BY <2>2, <2>3, <2>5, SeqEqual
<1>6. v(Len(d)) = Append(u(Len(c)), x)
  <2>. DEFINE a == Append(u(Len(c)), x)
              b == v(Len(d))
              q == u(Len(c))
  <2>0. Len(c) <= Len(c) /\ Len(d) <= Len(d) /\ Len(c) \in Nat /\ Len(d) \in Nat
    BY <1>1
  <2>1. /\ q \in Seq(S) /\ Len(q) = (IF i + 1 <= Len(c) THEN Len(c) - i ELSE 0)
        /\ \A j \in 1 .. Len(q) : q[j] = c[i + j]
    BY <1>3, <2>0
  <2>2. /\ b \in Seq(S) /\ Len(b) = (IF i + 1 <= Len(d) THEN Len(d) - i ELSE 0)
        /\ \A j \in 1 .. Len(b) : b[j] = d[i + j]
    BY <1>4, <2>0
  <2>3. /\ a \in Seq(S) /\ Len(a) = Len(q) + 1 /\ a[Len(q) + 1] = x
        /\ \A j \in 1 .. Len(q) : a[j] = q[j]
    BY <2>1, AppendProperties
  <2>. HIDE DEF a, b, q
  <2>4. Len(q) = Len(c) - i /\ Len(b) = Len(q) + 1 /\ Len(q) \in Nat
    BY <1>1, <2>1, <2>2
  <2>5. \A j \in 1 .. Len(b) : j \in 1 .. Len(q) \/ (j = Len(q) + 1 /\ i + j = Len(c) + 1)
    BY <1>1, <2>4
  <2>6. \A j \in 1 .. Len(q) : i + j \in 1 .. Len(c)
    BY <1>1, <2>4
  <2>7. ASSUME NEW j \in 1 .. Len(b) PROVE b[j] = a[j]
    <3>1. CASE j \in 1 .. Len(q)
      BY <1>1, <2>1, <2>2, <2>3, <2>6, <3>1
    <3>2. CASE j = Len(q) + 1 /\ i + j = Len(c) + 1
      BY <1>1, <2>2, <2>3, <3>2
    <3>. QED
      BY <2>5, <3>1, <3>2
  <2>8. a = b
    BY <2>2, <2>3, <2>4, <2>7, SeqEqual
  <2>. QED
    BY <2>8 DEF a, b
<1>. QED
  BY <1>5, <1>6 DEF u, v, d, TailGrowsBy, PartKept

\* The rows of the records that are complete are not touched when a column grows, and
\* those of the record being inserted grow by that row.
LEMMA GrowingColumn ==
    ASSUME ShreddingInvariant, callStack # <<>>, NEW l \in Leaves, NEW STATE row, row \in Row,
           columns'[l] = Append(columns[l], row), recordTIDs' = recordTIDs, size' = size
    PROVE  /\ Written(l, size + 1)' = Append(Written(l, size + 1), row)
           /\ \A n \in 1 .. size : Written(l, n)' = Written(l, n)
<1>1. /\ columns[l] \in Seq(Row) /\ Len(columns[l]) \in Nat
      /\ Len(recordTIDs[l]) = size + 1 /\ size \in Nat
      /\ \A n \in 1 .. Len(recordTIDs[l]) : recordTIDs[l][n] \in Nat
  BY ColumnFacts DEF ShreddingInvariant
<1>2. recordTIDs[l][size + 1] <= Len(columns[l])
  BY DEF ShreddingInvariant, OpenRecord
<1>3. \A n \in 1 .. size : recordTIDs[l][n] < Len(columns[l])
  BY DEF ShreddingInvariant, RecordBoundaries
<1>4. PICK c, ts : c = columns[l] /\ ts = recordTIDs[l]
  OBVIOUS
<1>5. ASSUME NEW i \in Nat, i <= Len(c)
      PROVE  TailGrowsBy(c, row, i) /\ \A k \in Nat : k <= Len(c) => PartKept(c, row, i, k)
  <2>1. c \in Seq(Row)
    BY <1>1, <1>4
  <2>. QED
    BY <1>5, <2>1, TailGrows
<1>6. /\ Written(l, size + 1) = SubSeq(c, ts[size + 1] + 1, Len(c))
      /\ Written(l, size + 1)' = SubSeq(Append(c, row), ts[size + 1] + 1, Len(Append(c, row)))
  <2>1. ~ (size + 1 < Len(ts))
    BY <1>1, <1>4
  <2>. QED
    BY <1>4, <2>1 DEF Written
<1>7. Written(l, size + 1)' = Append(Written(l, size + 1), row)
  <2>1. size + 1 \in 1 .. Len(ts)
    BY <1>1, <1>4
  <2>2. ts[size + 1] \in Nat /\ ts[size + 1] <= Len(c)
    BY <1>1, <1>2, <1>4, <2>1
  <2>. QED
    BY <1>5, <1>6, <2>2 DEF TailGrowsBy
<1>8. ASSUME NEW n \in 1 .. size PROVE Written(l, n)' = Written(l, n)
  <2>1. n \in 1 .. Len(ts) /\ n + 1 \in 1 .. Len(ts) /\ n < Len(ts) /\ n + 1 \in Nat
    BY <1>1, <1>4
  <2>2. ts[n] \in Nat /\ ts[n + 1] \in Nat /\ ts[n] <= Len(c)
    BY <1>1, <1>3, <1>4, <2>1
  <2>3. ts[n + 1] <= Len(c)
    <3>1. CASE n + 1 \in 1 .. size
      BY <1>1, <1>3, <1>4, <2>2, <3>1
    <3>2. CASE n + 1 = size + 1
      BY <1>2, <1>4, <3>2
    <3>. QED
      BY <1>1, <3>1, <3>2
  <2>4. /\ Written(l, n) = SubSeq(c, ts[n] + 1, ts[n + 1])
        /\ Written(l, n)' = SubSeq(Append(c, row), ts[n] + 1, ts[n + 1])
    BY <1>4, <2>1 DEF Written
  <2>. QED
    BY <1>5, <2>2, <2>3, <2>4 DEF PartKept
<1>. QED
  BY <1>7, <1>8

\* What has been written of a record are the first rows of its definition.
LEMMA FirstRows ==
    ASSUME NEW m, IsMessage(m), NEW l \in Leaves, NEW A
    PROVE  LET k == Cardinality(Slots(m, l) \ A)
           IN  /\ k \in Nat /\ k <= Len(Striped(m, l))
               /\ IsPrefix(SubSeq(Striped(m, l), 1, k), Striped(m, l))
<1>. DEFINE k == Cardinality(Slots(m, l) \ A)
<1>1. /\ IsFiniteSet(Slots(m, l)) /\ Cardinality(Slots(m, l)) \in Nat
  BY SlotsAreFinite
<1>2. (Slots(m, l) \ A) \in SUBSET Slots(m, l)
  OBVIOUS
<1>3. k \in Nat /\ k <= Cardinality(Slots(m, l))
  BY <1>1, <1>2, FS_Subset, FS_CardinalityType
<1>4. Len(Striped(m, l)) = Cardinality(Slots(m, l))
  BY StripedIs
<1>5. PICK S : Striped(m, l) \in Seq(S)
  BY StripedIs
<1>. HIDE DEF k
<1>6. k <= Len(Striped(m, l))
  BY <1>3, <1>4
<1>7. IsPrefix(Prefix(Striped(m, l), k), Striped(m, l))
  BY <1>3, <1>5, <1>6, FirstSteps
<1>. QED
  BY <1>3, <1>6, <1>7 DEF k, Prefix

\* How many slots are behind the cursor before and after a write.
LEMMA SlotsBehind ==
    ASSUME ShreddingInvariant, OnTheWay, Working,
           NEW l \in Leaves, IsPrefix(ChildWriter(Top), l), HasValue(Top) => l = ChildWriter(Top)
    PROVE  LET s == EntryAddress
               place == Place(message, l, s)
           IN  /\ Cardinality(Slots(message, l) \ SlotsAhead(l)) = place
               /\ Cardinality(Slots(message, l) \ (SlotsAhead(l) \ {s})) = place + 1
               /\ place + 1 \in 1 .. Len(Striped(message, l))
<1>0. PICK s : s = EntryAddress
  OBVIOUS
<1>1. IsMessage(message)
  BY WayFacts DEF Working
<1>2. /\ s \in Slots(message, l)
      /\ \A t \in Slots(message, l) : t \in SlotsAhead(l) <=> t = s \/ Earlier(s, t)
  BY <1>0, WrittenSlot
<1>3. Slots(message, l) \subseteq Addresses
  BY <1>1, SlotsAreFinite
<1>4. Slots(message, l) \ SlotsAhead(l) = SlotsBefore(message, l, s)
  <2>1. ASSUME NEW t \in Slots(message, l)
        PROVE  t \notin SlotsAhead(l) <=> Earlier(t, s)
    <3>1. t # s => Earlier(t, s) \/ Earlier(s, t)
      BY <1>1, <1>2, SlotsAreOrdered
    <3>2. s \in Addresses /\ t \in Addresses
      BY <1>2, <1>3
    <3>3. ~ Earlier(s, s) /\ (Earlier(t, s) => ~ Earlier(s, t))
      BY <3>2, EarlierIsOrder
    <3>. QED
      BY <1>2, <3>1, <3>3
  <2>. QED
    BY <2>1 DEF SlotsBefore
<1>5. Slots(message, l) \ (SlotsAhead(l) \ {s}) = SlotsBefore(message, l, s) \cup {s}
  BY <1>2, <1>4
<1>6. s \notin SlotsBefore(message, l, s)
  <2>1. ~ Earlier(s, s)
    BY <1>2, <1>3, EarlierIsOrder
  <2>. QED
    BY <2>1 DEF SlotsBefore
<1>7. /\ IsFiniteSet(SlotsBefore(message, l, s))
      /\ Place(message, l, s) \in Nat /\ Place(message, l, s) < Cardinality(Slots(message, l))
  BY <1>1, <1>2, PlacesAreOrdered
<1>8. Cardinality(SlotsBefore(message, l, s) \cup {s}) = Cardinality(SlotsBefore(message, l, s)) + 1
  BY <1>6, <1>7, FS_AddElement
<1>9. Len(Striped(message, l)) = Cardinality(Slots(message, l)) /\ Cardinality(Slots(message, l)) \in Nat
  BY <1>1, StripedIs, SlotsAreFinite
<1>10. Place(message, l, s) + 1 \in 1 .. Len(Striped(message, l))
  BY <1>7, <1>9
<1>. QED
  BY <1>0, <1>4, <1>5, <1>8, <1>10 DEF Place

-----------------------------------------------------------------------------
(* The steps. *)

\* The cursor's next entry, if it is a later occurrence, is there; and it is just
\* behind the entry it has left.
LEMMA NextEntryIs ==
    ASSUME ShreddingInvariant, OnTheWay, Working
    PROVE  LET c == Top.child
               o == Top.occ
               next == NextEntry(Top)
           IN  /\ next.msg = Top.msg /\ next.writer = Top.writer /\ next.rep = Top.rep
               /\ next.occ > 1 => HasValue(next)
               /\ HasValue(Top) =>
                      IF Child(Top.msg, c, o + 1) \in DOMAIN message
                      THEN next.child = c /\ next.occ = o + 1
                      ELSE next.child = c + 1 /\ next.occ = 1
<1>. DEFINE n == Len(callStack)
            c == Top.child
            o == Top.occ
            f == FieldSize(message, Top.msg, c)
            next == NextEntry(Top)
<1>1. /\ callStack # <<>> /\ IsMessage(message) /\ Top = callStack[n] /\ n \in 1 .. n
  BY WayFacts DEF Working
<1>2. /\ Top.msg \in Addresses /\ Top.msg \in DOMAIN message
      /\ c \in Nat /\ o \in Nat /\ 1 <= o /\ Top \in Frames /\ TypeOf(Top.msg) = Top.writer
  BY <1>1, WayFacts
<1>3. /\ next.msg = Top.msg /\ next.writer = Top.writer /\ next.rep = Top.rep
      /\ IF IsRepeated(ChildWriter(Top)) /\ o < f THEN next.child = c /\ next.occ = o + 1
         ELSE next.child = c + 1 /\ next.occ = 1
  BY <1>2 DEF NextEntry, Frames
<1>. HIDE DEF next
<1>4. /\ f \in Nat /\ \A x \in Nat : Child(Top.msg, c, x) \in DOMAIN message <=> 1 <= x /\ x <= f
  BY <1>1, <1>2, FieldSizeIs
<1>5. o + 1 \in Nat /\ 1 <= o + 1
  BY <1>2
<1>6. Child(Top.msg, c, o + 1) \in DOMAIN message <=> o < f
  BY <1>2, <1>4, <1>5
<1>7. Child(Top.msg, c, o + 1) \in DOMAIN message => IsRepeated(ChildWriter(Top))
  <2>1. PICK p \in Addresses : p = Top.msg
    BY <1>2
  <2>2. PICK x \in Nat : x = o + 1 /\ x > 1
    BY <1>2
  <2>3. c \in Nat
    BY <1>2
  <2>. HIDE DEF c, o
  <2>4. Child(p, c, x) \in DOMAIN message => (x > 1 => IsRepeated(Append(TypeOf(p), c)))
    BY <1>1, <2>3, ChildPresent
  <2>. QED
    BY <1>2, <2>1, <2>2, <2>4 DEF ChildWriter, c
<1>8. next.occ > 1 => HasValue(next)
  <2>1. ASSUME next.occ > 1 PROVE next.child = c /\ next.occ = o + 1 /\ o < f
    BY <1>3, <2>1
  <2>. HIDE DEF c, o, f
  <2>2. ASSUME next.occ > 1 PROVE Child(next.msg, next.child, next.occ) \in DOMAIN message
    BY <1>3, <1>6, <2>1, <2>2
  <2>. QED
    BY <2>2 DEF HasValue, FieldAddress
<1>. QED
  BY <1>3, <1>6, <1>7, <1>8 DEF next

\* The activations stay on the way when the cursor moves on.
LEMMA AdvanceKeepsWay ==
    ASSUME ShreddingInvariant, OnTheWay, Working, Advance, message' = message
    PROVE  OnTheWay'
<1>. DEFINE n == Len(callStack)
<1>1. /\ n \in Nat \ {0} /\ Top = callStack[n] /\ callStack # <<>>
  BY WayFacts DEF Working
<1>2. /\ Len(callStack') = n /\ callStack'[n] = NextEntry(Top)
      /\ \A k \in 1 .. n - 1 : callStack'[k] = callStack[k]
  BY AdvancedStack DEF ShreddingInvariant
<1>3. /\ NextEntry(Top).msg = Top.msg /\ NextEntry(Top).writer = Top.writer
      /\ NextEntry(Top).rep = Top.rep /\ (NextEntry(Top).occ > 1 => HasValue(NextEntry(Top)))
  BY NextEntryIs
<1>4. \A k \in 1 .. n : k \in 1 .. n - 1 \/ k = n
  BY <1>1
<1>. HIDE DEF n
<1>5. \A k \in 1 .. n : callStack'[k].msg = callStack[k].msg /\ callStack'[k].writer = callStack[k].writer
                        /\ callStack'[k].rep = callStack[k].rep
  BY <1>1, <1>2, <1>3, <1>4
<1>6. ASSUME NEW k \in 1 .. n
      PROVE  /\ callStack'[k].msg \in DOMAIN message /\ Len(callStack'[k].msg) = k - 1
             /\ callStack'[k].rep =
                    GetMaxRepetitionLevel[Prefix(callStack'[k].writer, LastRepeat(callStack'[k].msg))]
  BY <1>5 DEF OnTheWay, n
<1>7. ASSUME NEW k \in 1 .. n, callStack'[k].occ > 1
      PROVE  Child(callStack'[k].msg, callStack'[k].child, callStack'[k].occ) \in DOMAIN message
  <2>1. CASE k = n
    BY <1>2, <1>3, <1>7, <2>1 DEF HasValue, FieldAddress
  <2>2. CASE k \in 1 .. n - 1
    BY <1>2, <1>7, <2>2 DEF OnTheWay, n, HasValue, FieldAddress
  <2>. QED
    BY <1>4, <2>1, <2>2
<1>8. ASSUME NEW k \in 1 .. n, NEW j \in 1 .. k - 1
      PROVE  callStack'[j].msg = Prefix(callStack'[k].msg, j - 1)
  <2>1. j \in 1 .. n
    BY <1>1
  <2>. QED
    BY <1>5, <2>1 DEF OnTheWay, n
<1>9. ASSUME NEW k \in 1 .. n - 1
      PROVE  CursorBehind(callStack[k], callStack[k + 1].msg)' 
  <2>1. k \in 1 .. n /\ k + 1 \in 1 .. n
    BY <1>1
  <2>2. callStack'[k] = callStack[k] /\ callStack'[k + 1].msg = callStack[k + 1].msg
    BY <1>2, <1>5, <2>1
  <2>3. CursorBehind(callStack[k], callStack[k + 1].msg)
    BY DEF OnTheWay, n
  <2>. QED
    BY <2>2, <2>3 DEF CursorBehind
<1>. QED
  BY <1>2, <1>6, <1>7, <1>8, <1>9 DEF OnTheWay, HasValue, FieldAddress

\* The slots ahead when the cursor moves on.
LEMMA AdvanceKeepsSlots ==
    ASSUME ShreddingInvariant, OnTheWay, Working, Advance, message' = message, NEW l \in Leaves
    PROVE  /\ ~ IsPrefix(ChildWriter(Top), l) => SlotsAhead(l)' = SlotsAhead(l)
           /\ IsPrefix(ChildWriter(Top), l) /\ (HasValue(Top) => l = ChildWriter(Top)) =>
                  SlotsAhead(l)' = SlotsAhead(l) \ {EntryAddress}
<1>. DEFINE n == Len(callStack)
            Outer(t) == \E k \in 1 .. n - 1 : IsAhead(callStack[k], t, l)
<1>1. /\ n \in Nat \ {0} /\ Top = callStack[n] /\ callStack # <<>>
  BY WayFacts DEF Working
<1>2. /\ Len(callStack') = n /\ callStack'[n] = NextEntry(Top)
      /\ \A k \in 1 .. n - 1 : callStack'[k] = callStack[k]
  BY AdvancedStack DEF ShreddingInvariant
<1>3. (\A k \in 1 .. n : k \in 1 .. n - 1 \/ k = n) /\ n \in 1 .. n /\ \A k \in 1 .. n - 1 : k \in 1 .. n
  BY <1>1
<1>. HIDE DEF n
<1>4. SlotsAhead(l) = {t \in Slots(message, l) : Outer(t) \/ IsAhead(Top, t, l)}
  BY <1>1, <1>3 DEF SlotsAhead, n
<1>5. SlotsAhead(l)' = {t \in Slots(message, l) : Outer(t) \/ IsAhead(NextEntry(Top), t, l)}
  <2>1. SlotsAhead(l)' =
            {t \in Slots(message, l) : \E k \in 1 .. n : IsAhead(callStack'[k], t, l)}
    BY <1>2 DEF SlotsAhead
  <2>2. ASSUME NEW t
        PROVE  (\E k \in 1 .. n : IsAhead(callStack'[k], t, l)) <=>
                   Outer(t) \/ IsAhead(NextEntry(Top), t, l)
    BY <1>2, <1>3
  <2>. QED
    BY <2>1, <2>2
<1>6. \A t \in Slots(message, l) :
          /\ IsAhead(NextEntry(Top), t, l) <=> IsAhead(Top, t, l) /\ ~ AtCursor(t, l)
          /\ AtCursor(t, l) => IsAhead(Top, t, l)
  BY CursorMoves
<1>7. ASSUME ~ IsPrefix(ChildWriter(Top), l) PROVE SlotsAhead(l)' = SlotsAhead(l)
  <2>1. \A t : ~ AtCursor(t, l)
    BY <1>7 DEF AtCursor
  <2>. HIDE DEF Outer
  <2>. QED
    BY <1>4, <1>5, <1>6, <2>1
<1>8. ASSUME IsPrefix(ChildWriter(Top), l), HasValue(Top) => l = ChildWriter(Top)
      PROVE  SlotsAhead(l)' = SlotsAhead(l) \ {EntryAddress}
  <2>1. /\ \A t \in Slots(message, l) : AtCursor(t, l) <=> t = EntryAddress
        /\ ~ Outer(EntryAddress)
    BY <1>8, WrittenSlot DEF n
  <2>. HIDE DEF Outer
  <2>. QED
    BY <1>4, <1>5, <1>6, <2>1
<1>. QED
  BY <1>7, <1>8

\* What is written of a record, and the records before it, are as defined.
LEMMA ColumnsFromRows ==
    ASSUME NEW STATE m, m = message', callStack' # <<>> => IsMessage(m), RowsOfSlots',
           \A l \in Leaves : \A n \in 1 .. size' :
               IsInitialized(stored'[n]) => Written(l, n)' = Striped(stored'[n], l)
    PROVE  ColumnsFollowDefinition'
<1>1. ASSUME NEW l \in Leaves, callStack' # <<>>, IsInitialized(m)
      PROVE  IsPrefix(Written(l, size + 1)', Striped(m, l))
  <2>1. PICK A : A = SlotsAhead(l)'
    OBVIOUS
  <2>2. Written(l, size + 1)' = SubSeq(Striped(m, l), 1, Cardinality(Slots(m, l) \ A))
    BY <1>1, <2>1 DEF RowsOfSlots
  <2>3. IsPrefix(SubSeq(Striped(m, l), 1, Cardinality(Slots(m, l) \ A)), Striped(m, l))
    BY <1>1, FirstRows
  <2>. QED
    BY <2>2, <2>3
<1>. QED
  BY <1>1 DEF ColumnsFollowDefinition

\* A write: a row in all columns below the field under the cursor.
LEMMA WriteKeepsStriping ==
    ASSUME StripingInvariant, Working, Advance,
           NEW STATE row, row \in Row, ColumnInsert(ColumnsBelow(ChildWriter(Top)), row),
           UNCHANGED <<recordTIDs, size, message, stored>>,
           HasValue(Top) => ChildWriter(Top) \in Leaves,
           \A l \in ColumnsBelow(ChildWriter(Top)) :
               IsInitialized(message) => row = RowOfSlot(message, l, EntryAddress)
    PROVE  OnTheWay' /\ RowsOfSlots' /\ ColumnsFollowDefinition' /\ Len(stored') = size'
<1>1. ShreddingInvariant /\ OnTheWay /\ callStack # <<>>
  BY DEF StripingInvariant, Working
<1>2. IsMessage(message)
  BY <1>1, WayFacts
<1>3. /\ recordTIDs' = recordTIDs /\ size' = size /\ message' = message /\ stored' = stored
  OBVIOUS
<1>4. OnTheWay'
  BY <1>1, <1>3, AdvanceKeepsWay
<1>5. ASSUME NEW l \in Leaves, IsPrefix(ChildWriter(Top), l)
      PROVE  HasValue(Top) => l = ChildWriter(Top)
  BY <1>5, LeavesApart
<1>6. ASSUME NEW l \in Leaves, IsPrefix(ChildWriter(Top), l)
      PROVE  /\ Written(l, size + 1)' = Append(Written(l, size + 1), row)
             /\ \A n \in 1 .. size : Written(l, n)' = Written(l, n)
  <2>1. columns'[l] = Append(columns[l], row)
    BY <1>6 DEF ColumnInsert, ColumnsBelow
  <2>. QED
    BY <1>1, <1>3, <2>1, GrowingColumn
<1>7. ASSUME NEW l \in Leaves, ~ IsPrefix(ChildWriter(Top), l), NEW n
      PROVE  Written(l, n)' = Written(l, n)
  <2>1. columns'[l] = columns[l]
    BY <1>7 DEF ColumnInsert, ColumnsBelow
  <2>. QED
    BY <1>3, <2>1 DEF Written
<1>8. ASSUME NEW l \in Leaves, IsInitialized(message)
      PROVE  Written(l, size + 1)' =
                 SubSeq(Striped(message, l), 1, Cardinality(Slots(message, l) \ SlotsAhead(l)'))
  <2>1. Written(l, size + 1) =
            SubSeq(Striped(message, l), 1, Cardinality(Slots(message, l) \ SlotsAhead(l)))
    BY <1>1, <1>8 DEF StripingInvariant, RowsOfSlots
  <2>2. CASE ~ IsPrefix(ChildWriter(Top), l)
    <3>1. SlotsAhead(l)' = SlotsAhead(l)
      BY <1>1, <1>3, <2>2, AdvanceKeepsSlots
    <3>2. Written(l, size + 1)' = Written(l, size + 1)
      <4>1. PICK n : n = size + 1
        OBVIOUS
      <4>2. Written(l, n)' = Written(l, n)
        BY <1>7, <2>2
      <4>. QED
        BY <1>3, <4>1, <4>2 DEF Written
    <3>. QED
      BY <2>1, <3>1, <3>2
  <2>3. CASE IsPrefix(ChildWriter(Top), l)
    <3>1. HasValue(Top) => l = ChildWriter(Top)
      BY <1>5, <2>3
    <3>2. SlotsAhead(l)' = SlotsAhead(l) \ {EntryAddress}
      BY <1>1, <1>3, <2>3, <3>1, AdvanceKeepsSlots
    <3>3. PICK s, place : s = EntryAddress /\ place = Place(message, l, s)
      OBVIOUS
    <3>4. /\ Cardinality(Slots(message, l) \ SlotsAhead(l)) = place
          /\ Cardinality(Slots(message, l) \ (SlotsAhead(l) \ {s})) = place + 1
          /\ place + 1 \in 1 .. Len(Striped(message, l))
      BY <1>1, <2>3, <3>1, <3>3, SlotsBehind
    <3>5. s \in Slots(message, l)
      BY <1>1, <2>3, <3>1, <3>3, WrittenSlot
    <3>6. Striped(message, l)[place + 1] = RowOfSlot(message, l, s)
      BY <1>2, <3>3, <3>5, StripedIs
    <3>7. row = Striped(message, l)[place + 1]
      BY <1>8, <2>3, <3>3, <3>6 DEF ColumnsBelow
    <3>8. place \in Nat
      <4>1. Place(message, l, s) \in Nat
        BY <1>2, <3>5, PlacesAreOrdered
      <4>. QED
        BY <3>3, <4>1
    <3>9. PICK S : Striped(message, l) \in Seq(S)
      BY <1>2, StripedIs
    <3>10. PICK rows \in Seq(S) : rows = Striped(message, l)
      BY <3>9
    <3>11. Prefix(rows, place + 1) = Append(Prefix(rows, place), rows[place + 1])
      <4>1. PICK n \in 1 .. Len(rows) : n = place + 1
        BY <3>4, <3>10
      <4>2. Prefix(rows, n) = Append(Prefix(rows, n - 1), rows[n])
        BY OneMoreStep
      <4>3. n - 1 = place
        BY <3>8, <4>1
      <4>. QED
        BY <4>1, <4>2, <4>3
    <3>12. Written(l, size + 1)' = Append(Written(l, size + 1), row)
      BY <1>6, <2>3
    <3>13. Written(l, size + 1) = Prefix(rows, place)
      BY <2>1, <3>4, <3>10 DEF Prefix
    <3>. QED
      BY <3>2, <3>3, <3>4, <3>7, <3>10, <3>11, <3>12, <3>13 DEF Prefix
  <2>. QED
    BY <2>2, <2>3
<1>9. RowsOfSlots'
  BY <1>3, <1>8 DEF RowsOfSlots
<1>10. ColumnsFollowDefinition'
  <2>1. ASSUME NEW l \in Leaves, NEW n \in 1 .. size, IsInitialized(stored[n])
        PROVE  Written(l, n)' = Striped(stored[n], l)
    <3>1. Written(l, n) = Striped(stored[n], l)
      BY <2>1 DEF StripingInvariant, ColumnsFollowDefinition
    <3>2. Written(l, n)' = Written(l, n)
      BY <1>6, <1>7
    <3>. QED
      BY <3>1, <3>2
  <2>. QED
    BY <1>2, <1>3, <1>9, <2>1, ColumnsFromRows
<1>11. Len(stored') = size'
  BY <1>3 DEF StripingInvariant
<1>. QED
  BY <1>4, <1>9, <1>10, <1>11

\* FieldWriter::write writes the nulls that the definition asks for.
LEMMA NullKeepsStriping ==
    ASSUME StripingInvariant, WriteNull
    PROVE  OnTheWay' /\ RowsOfSlots' /\ ColumnsFollowDefinition' /\ Len(stored') = size'
<1>. DEFINE row == [v |-> Default, r |-> ChildRepetitionLevel(Top),
                    d |-> NullDefinitionLevel(ChildWriter(Top))]
<1>1. ShreddingInvariant /\ OnTheWay /\ Working /\ Advance /\ ~ HasValue(Top)
  BY DEF StripingInvariant, WriteNull
<1>2. row \in Row
  BY <1>1, LevelFacts DEF Row, ShreddingInvariant
<1>3. /\ ColumnInsert(ColumnsBelow(ChildWriter(Top)), row)
      /\ UNCHANGED <<recordTIDs, size, message, stored>>
  BY DEF WriteNull
<1>4. ASSUME NEW l \in ColumnsBelow(ChildWriter(Top)), IsInitialized(message)
      PROVE  row = RowOfSlot(message, l, EntryAddress)
  <2>1. l \in Leaves /\ IsPrefix(ChildWriter(Top), l)
    BY DEF ColumnsBelow
  <2>. QED
    BY <1>1, <1>4, <2>1, WrittenRow
<1>. HIDE DEF row
<1>. QED
  BY <1>1, <1>2, <1>3, <1>4, WriteKeepsStriping

\* AtomicFieldWriter::write_value writes the row that the definition asks for.
LEMMA ValueKeepsStriping ==
    ASSUME StripingInvariant, WriteValue
    PROVE  OnTheWay' /\ RowsOfSlots' /\ ColumnsFollowDefinition' /\ Len(stored') = size'
<1>. DEFINE a == FieldAddress(Top)
            w == ChildWriter(Top)
            row == [v |-> message[a], r |-> ChildRepetitionLevel(Top), d |-> GetDefinitionLevel[w]]
<1>1. ShreddingInvariant /\ OnTheWay /\ Working /\ Advance /\ HasValue(Top) /\ TypeOK /\ Nested
  BY DEF StripingInvariant, WriteValue, ShreddingInvariant
<1>2. w \in Leaves /\ a \in DOMAIN message
  BY DEF WriteValue, HasValue
<1>3. message[a] \in Values
  <2>1. IsMessage(message) /\ a # <<>> /\ TypeOf(a) = w
    BY <1>1, CursorFacts, MessagesAssumption
  <2>. HIDE DEF a, w
  <2>. QED
    BY <1>2, <2>1 DEF IsMessage
<1>4. row \in Row
  BY <1>1, <1>3, LevelFacts DEF Row
<1>5. ColumnsBelow(w) = {w} /\ IsPrefix(w, w)
  <2>1. IsPrefix(w, w)
    BY <1>2, PathsAreSequences, LenProperties DEF IsPrefix
  <2>. QED
    BY <1>2, <2>1, LeavesApart DEF ColumnsBelow
<1>6. ColumnInsert(ColumnsBelow(w), row) /\ UNCHANGED <<recordTIDs, size, message, stored>>
  BY <1>5 DEF WriteValue
<1>7. row = RowOfSlot(message, w, EntryAddress)
  BY <1>1, <1>2, <1>5, WrittenRow
<1>8. \A l \in ColumnsBelow(w) : IsInitialized(message) => row = RowOfSlot(message, l, EntryAddress)
  BY <1>5, <1>7
<1>. HIDE DEF row
<1>. QED
  BY <1>1, <1>2, <1>4, <1>6, <1>8, WriteKeepsStriping

\* When neither the columns nor the set of slots ahead changes, nor do the rows.
LEMMA SameColumns ==
    ASSUME StripingInvariant, callStack # <<>>, callStack' # <<>>, UNCHANGED <<columns, recordTIDs, size, message, stored>>,
           OnTheWay', \A l \in Leaves : SlotsAhead(l)' = SlotsAhead(l)
    PROVE  OnTheWay' /\ RowsOfSlots' /\ ColumnsFollowDefinition' /\ Len(stored') = size'
<1>1. /\ columns' = columns /\ recordTIDs' = recordTIDs /\ size' = size
      /\ message' = message /\ stored' = stored
  OBVIOUS
<1>2. ASSUME NEW l, NEW n PROVE Written(l, n)' = Written(l, n)
  BY <1>1 DEF Written
<1>3. IsMessage(message)
  BY WayFacts DEF StripingInvariant
<1>4. RowsOfSlots'
  <2>1. ASSUME NEW l \in Leaves, IsInitialized(message)
        PROVE  Written(l, size + 1)' =
                   SubSeq(Striped(message, l), 1, Cardinality(Slots(message, l) \ SlotsAhead(l)'))
    <3>1. Written(l, size + 1) =
              SubSeq(Striped(message, l), 1, Cardinality(Slots(message, l) \ SlotsAhead(l)))
      BY <2>1 DEF StripingInvariant, RowsOfSlots
    <3>2. Written(l, size + 1)' = Written(l, size + 1)
      BY <1>1 DEF Written
    <3>. QED
      BY <3>1, <3>2
  <2>. QED
    BY <1>1, <2>1 DEF RowsOfSlots
<1>5. ASSUME NEW l \in Leaves, NEW n \in 1 .. size, IsInitialized(stored[n])
      PROVE  Written(l, n)' = Striped(stored[n], l)
  BY <1>2, <1>5 DEF StripingInvariant, ColumnsFollowDefinition
<1>6. ColumnsFollowDefinition'
  BY <1>1, <1>3, <1>4, <1>5, ColumnsFromRows
<1>. QED
  BY <1>1, <1>4, <1>6 DEF StripingInvariant

\* The activation for a group that is present: its slots are ahead of it instead of
\* the cursor's entry.
LEMMA DescendKeepsStriping ==
    ASSUME StripingInvariant, Descend
    PROVE  OnTheWay' /\ RowsOfSlots' /\ ColumnsFollowDefinition' /\ Len(stored') = size'
<1>. DEFINE n == Len(callStack)
            next == NextEntry(Top)
            a == FieldAddress(Top)
            w == ChildWriter(Top)
            inner == Frame(a, w, ChildRepetitionLevel(Top))
            c == Top.child
            o == Top.occ
<1>1. /\ ShreddingInvariant /\ OnTheWay /\ Working /\ HasValue(Top) /\ w \in Groups
      /\ callStack' = Append(Append(Front(callStack), next), inner)
      /\ UNCHANGED <<columns, recordTIDs, size, message, stored>>
      /\ TypeOK /\ Nested /\ callStack # <<>>
  BY DEF StripingInvariant, Descend, ShreddingInvariant, Working
<1>2. /\ IsMessage(message) /\ n \in Nat \ {0} /\ Top = callStack[n] /\ n \in 1 .. n
  BY <1>1, WayFacts
<1>3. /\ Top.msg \in Addresses /\ Len(Top.msg) = n - 1
      /\ c \in Nat /\ o \in Nat /\ 1 <= o
  BY <1>1, <1>2, WayFacts
<1>4. next \in Frames /\ inner \in Frames /\ callStack \in Seq(Frames)
  BY <1>1, NextEntryFacts, DescendFrame DEF TypeOK
<1>5. /\ next.msg = Top.msg /\ next.writer = Top.writer /\ next.rep = Top.rep
      /\ next.occ > 1 => HasValue(next)
      /\ IF Child(Top.msg, c, o + 1) \in DOMAIN message
         THEN next.child = c /\ next.occ = o + 1
         ELSE next.child = c + 1 /\ next.occ = 1
  BY <1>1, NextEntryIs
<1>6. inner.msg = a /\ inner.writer = w /\ inner.rep = ChildRepetitionLevel(Top)
      /\ inner.child = 1 /\ inner.occ = 1
  BY DEF Frame
<1>. HIDE DEF next, inner
<1>7. /\ Len(callStack') = n + 1 /\ callStack' # <<>>
      /\ callStack'[n] = next /\ callStack'[n + 1] = inner
      /\ \A k \in 1 .. n - 1 : callStack'[k] = callStack[k]
  BY <1>1, <1>4, StackPush
<1>8. \A k \in 1 .. n + 1 : k \in 1 .. n - 1 \/ k = n \/ k = n + 1
  BY <1>2
<1>9. a \in DOMAIN message /\ a = Child(Top.msg, c, o)
  BY <1>1 DEF HasValue, FieldAddress
<1>10. /\ a \in Addresses /\ Len(a) = n /\ Last(a) = <<c, o>> /\ Prefix(a, n - 1) = Top.msg
       /\ \A j \in 1 .. n : Prefix(a, j - 1) = Prefix(Top.msg, j - 1)
  <2>1. PICK p \in Addresses : p = Top.msg
    BY <1>3
  <2>2. c \in Nat /\ o \in Nat /\ Len(p) = n - 1 /\ a = Child(p, c, o)
    BY <1>3, <1>9, <2>1
  <2>. HIDE DEF c, o, a
  <2>3. /\ Child(p, c, o) \in Addresses /\ Last(Child(p, c, o)) = <<c, o>>
        /\ Len(Child(p, c, o)) = Len(p) + 1
        /\ \A j \in 1 .. Len(p) : Child(p, c, o)[j] = p[j]
    BY <2>2, ChildIs
  <2>4. IsPrefix(p, Child(p, c, o))
    BY <2>2, BelowChild
  <2>5. Prefix(Child(p, c, o), Len(p)) = p
    <3>1. p \in Seq(Nat \X Nat) /\ Child(p, c, o) \in Seq(Nat \X Nat)
      BY <2>3 DEF Addresses
    <3>. QED
      BY <2>4, <3>1, PrefixChain
  <2>6. Len(a) = n
    BY <1>2, <2>2, <2>3
  <2>7. ASSUME NEW j \in 1 .. n PROVE Prefix(a, j - 1) = Prefix(p, j - 1)
    <3>1. PICK i \in Nat : i = j - 1 /\ i <= Len(p) /\ i <= Len(a)
      BY <1>2, <2>2, <2>6
    <3>2. p \in Seq(Nat \X Nat) /\ a \in Seq(Nat \X Nat)
      BY <2>2, <2>3 DEF Addresses
    <3>3. /\ Prefix(p, i) \in Seq(Nat \X Nat) /\ Len(Prefix(p, i)) = i
          /\ \A x \in 1 .. i : Prefix(p, i)[x] = p[x]
      BY <3>1, <3>2, FirstSteps
    <3>4. /\ Prefix(a, i) \in Seq(Nat \X Nat) /\ Len(Prefix(a, i)) = i
          /\ \A x \in 1 .. i : Prefix(a, i)[x] = a[x]
      BY <3>1, <3>2, FirstSteps
    <3>5. \A x \in 1 .. i : x \in 1 .. Len(p)
      BY <2>2, <3>1
    <3>6. \A x \in 1 .. i : Prefix(a, i)[x] = Prefix(p, i)[x]
      BY <2>2, <2>3, <3>3, <3>4, <3>5
    <3>7. Prefix(a, i) = Prefix(p, i)
      BY <3>3, <3>4, <3>6, SeqEqual
    <3>. QED
      BY <3>1, <3>7
  <2>. QED
    BY <2>1, <2>2, <2>3, <2>5, <2>6, <2>7
<1>11. ChildRepetitionLevel(Top) = GetMaxRepetitionLevel[Prefix(w, LastRepeat(a))]
  BY <1>1, LevelOfEntry
<1>. HIDE DEF n, c, o, a, w
<1>12. OnTheWay'
  <2>1. ASSUME NEW k \in 1 .. n + 1
        PROVE  /\ callStack'[k].msg \in DOMAIN message /\ Len(callStack'[k].msg) = k - 1
               /\ callStack'[k].rep =
                      GetMaxRepetitionLevel[Prefix(callStack'[k].writer, LastRepeat(callStack'[k].msg))]
               /\ callStack'[k].occ > 1 =>
                      Child(callStack'[k].msg, callStack'[k].child, callStack'[k].occ) \in DOMAIN message
    <3>1. CASE k \in 1 .. n - 1
      <4>1. k \in 1 .. n
        BY <1>2, <3>1
      <4>. QED
        BY <1>1, <1>7, <3>1, <4>1 DEF OnTheWay, n, HasValue, FieldAddress
    <3>2. CASE k = n
      <4>1. /\ Top.msg \in DOMAIN message
            /\ Top.rep = GetMaxRepetitionLevel[Prefix(Top.writer, LastRepeat(Top.msg))]
        BY <1>1, <1>2 DEF OnTheWay, n
      <4>. QED
        BY <1>3, <1>5, <1>7, <3>2, <4>1 DEF HasValue, FieldAddress
    <3>3. CASE k = n + 1
      <4>1. Len(inner.msg) = k - 1
        BY <1>2, <1>6, <1>10, <3>3
      <4>. QED
        BY <1>6, <1>7, <1>9, <1>11, <3>3, <4>1
    <3>. QED
      BY <1>8, <3>1, <3>2, <3>3
  <2>2. \A k \in 1 .. n : callStack'[k].msg = callStack[k].msg
    <3>1. \A k \in 1 .. n : k \in 1 .. n - 1 \/ k = n
      BY <1>2
    <3>. QED
      BY <1>2, <1>5, <1>7, <3>1
  <2>3. ASSUME NEW k \in 1 .. n + 1, NEW j \in 1 .. k - 1
        PROVE  callStack'[j].msg = Prefix(callStack'[k].msg, j - 1)
    <3>1. CASE k \in 1 .. n
      <4>1. j \in 1 .. n
        BY <1>2, <3>1
      <4>. QED
        BY <1>1, <2>2, <3>1, <4>1 DEF OnTheWay, n
    <3>2. CASE k = n + 1
      <4>1. j \in 1 .. n
        BY <1>2, <3>2
      <4>2. callStack[j].msg = Prefix(Top.msg, j - 1)
        BY <1>1, <4>1, WayFacts DEF n
      <4>. QED
        BY <1>6, <1>7, <1>10, <2>2, <3>2, <4>1, <4>2
    <3>. QED
      BY <1>2, <3>1, <3>2
  <2>4. ASSUME NEW k \in 1 .. n
        PROVE  CursorBehind(callStack[k], callStack[k + 1].msg)'
    <3>1. CASE k \in 1 .. n - 1
      <4>1. k + 1 \in 1 .. n
        BY <1>2, <3>1
      <4>2. callStack'[k] = callStack[k] /\ callStack'[k + 1].msg = callStack[k + 1].msg
        BY <1>7, <2>2, <3>1, <4>1
      <4>3. CursorBehind(callStack[k], callStack[k + 1].msg)
        BY <1>1, <3>1 DEF OnTheWay, n
      <4>. QED
        BY <1>1, <4>2, <4>3 DEF CursorBehind
    <3>2. CASE k = n
      <4>1. callStack'[k] = next /\ callStack'[k + 1].msg = a
        BY <1>6, <1>7, <3>2
      <4>2. Last(a)[1] = c /\ Last(a)[2] = o
        BY <1>10
      <4>. QED
        BY <1>1, <1>5, <4>1, <4>2 DEF CursorBehind
    <3>. QED
      BY <1>2, <3>1, <3>2
  <2>5. Len(callStack') - 1 = n /\ message' = message
    BY <1>1, <1>2, <1>7
  <2>. QED
    BY <1>7, <2>1, <2>3, <2>4, <2>5 DEF OnTheWay, HasValue, FieldAddress
<1>13. ASSUME NEW l \in Leaves PROVE SlotsAhead(l)' = SlotsAhead(l)
  <2>1. ASSUME NEW t \in Slots(message, l)
        PROVE  IsAhead(inner, t, l) <=> IsPrefix(w, l) /\ IsPrefix(a, t)
    <3>1. ASSUME IsPrefix(a, t)
          PROVE  /\ IsPrefix(w, l) /\ l[n + 1] \in Nat /\ 1 <= l[n + 1]
                 /\ n + 1 <= Len(t) => t[n + 1][2] >= 1
      <4>1. t \in Addresses /\ t \in DOMAIN message /\ t \in OnPath(message, l) /\ Len(t) \in Nat
        BY <1>2, SlotsAreFinite
      <4>2. w \in Seq(Nat) /\ Len(w) = n /\ TypeOf(a) = w /\ w \in Types
        <5>1. TypeOf(a) = w
          BY <1>1, CursorFacts DEF a, w
        <5>. QED
          BY <1>1, <1>10, <5>1, TypeOfSteps DEF Types
      <4>3. IsPrefix(w, l)
        <5>1. a \in OnPath(message, l)
          <6>1. Len(a) <= Len(t) /\ \A j \in 1 .. Len(a) : a[j] = t[j]
            <7>1. a \in Seq(Nat \X Nat) /\ t \in Seq(Nat \X Nat)
              BY <1>10, <4>1 DEF Addresses
            <7>. QED
              BY <3>1, <7>1, PrefixIs
          <6>2. Len(t) <= Len(l) /\ \A j \in 1 .. Len(t) : t[j][1] = l[j]
            BY <1>2, <4>1, OnPathIs
          <6>3. Len(a) <= Len(l) /\ \A j \in 1 .. Len(a) : j \in 1 .. Len(t)
            BY <1>2, <1>10, <4>1, <6>1, <6>2, LeafPath
          <6>4. \A j \in 1 .. Len(a) : a[j][1] = l[j]
            BY <6>1, <6>2, <6>3
          <6>. QED
            BY <1>2, <1>9, <6>3, <6>4, OnPathIs
        <5>. QED
          BY <4>2, <5>1 DEF OnPath
      <4>4. l[n + 1] \in 1 .. Arity[w] /\ Arity[w] \in Nat
        BY <4>2, <4>3, LeafBelow, PathsAreSequences
      <4>5. ASSUME n + 1 <= Len(t) PROVE t[n + 1][2] >= 1
        <5>1. n + 1 \in 1 .. Len(t)
          BY <1>2, <4>1, <4>5
        <5>2. t[n + 1][2] \in Nat /\ 1 <= t[n + 1][2]
          BY <1>2, <4>1, <5>1, PresentAddress
        <5>. QED
          BY <5>2
      <4>. QED
        BY <4>3, <4>4, <4>5
    <3>2. IsAhead(inner, t, l) <=>
              /\ IsPrefix(a, t)
              /\ l[n + 1] > 1 \/ (l[n + 1] = 1 /\ (n + 1 <= Len(t) => t[n + 1][2] >= 1))
      BY <1>6, <1>10 DEF IsAhead
    <3>. QED
      BY <3>1, <3>2
  <2>2. ASSUME NEW t \in Slots(message, l)
        PROVE  /\ IsAhead(next, t, l) <=> IsAhead(Top, t, l) /\ ~ AtCursor(t, l)
               /\ AtCursor(t, l) => IsAhead(Top, t, l)
               /\ AtCursor(t, l) <=> IsPrefix(w, l) /\ IsPrefix(a, t)
    BY <1>1, CursorMoves DEF next, AtCursor, EntryAddress, a, w
  <2>3. SlotsAhead(l)' = {t \in Slots(message, l) : \E k \in 1 .. n + 1 : IsAhead(callStack'[k], t, l)}
    BY <1>1, <1>7 DEF SlotsAhead
  <2>4. SlotsAhead(l) = {t \in Slots(message, l) : \E k \in 1 .. n : IsAhead(callStack[k], t, l)}
    BY DEF SlotsAhead, n
  <2>5. ASSUME NEW t \in Slots(message, l)
        PROVE  (\E k \in 1 .. n + 1 : IsAhead(callStack'[k], t, l)) <=>
                   \E k \in 1 .. n : IsAhead(callStack[k], t, l)
    <3>1. IsAhead(next, t, l) \/ IsAhead(inner, t, l) <=> IsAhead(Top, t, l)
      BY <2>1, <2>2
    <3>2. /\ n \in 1 .. n + 1 /\ n + 1 \in 1 .. n + 1 /\ n \in 1 .. n
          /\ \A k \in 1 .. n : k \in 1 .. n - 1 \/ k = n
          /\ \A k \in 1 .. n - 1 : k \in 1 .. n + 1 /\ k \in 1 .. n
      BY <1>2
    <3>. QED
      BY <1>2, <1>7, <1>8, <3>1, <3>2
  <2>. QED
    BY <2>3, <2>4, <2>5
<1>. QED
  BY <1>1, <1>7, <1>12, <1>13, SameColumns

\* An activation that has walked its list has no slots ahead.
LEMMA NothingAheadAtReturn ==
    ASSUME ShreddingInvariant, OnTheWay, callStack # <<>>, Top.child > Arity[Top.writer],
           NEW l \in Leaves, NEW t \in Slots(message, l)
    PROVE  ~ IsAhead(Top, t, l)
<1>. DEFINE n == Len(callStack)
<1>1. SUFFICES ASSUME IsAhead(Top, t, l) PROVE FALSE
  OBVIOUS
<1>2. /\ n \in Nat \ {0} /\ Top = callStack[n] /\ n \in 1 .. n
  BY WayFacts
<1>3. /\ Len(Top.msg) = n - 1 /\ Top.child \in Nat /\ Top.writer \in Types
  BY <1>2, WayFacts
<1>4. Arity[Top.writer] \in Nat
  BY <1>3, PathsAreSequences
<1>5. IsPrefix(Top.msg, t)
  BY <1>1 DEF IsAhead
<1>6. IsPrefix(Top.writer, l)
  BY <1>5, AheadOfTop
<1>7. l[n] \in 1 .. Arity[Top.writer]
  BY <1>6, OuterOnPath
<1>8. l[n] > Top.child \/ l[n] = Top.child
  <2>1. Len(Top.msg) + 1 = n
    BY <1>2, <1>3
  <2>. QED
    BY <1>1, <2>1 DEF IsAhead
<1>. HIDE DEF n
<1>. QED
  BY <1>3, <1>4, <1>7, <1>8

\* An activation ends when none of its slots are ahead; the outermost one when the
\* record's rows are complete.
LEMMA ReturnKeepsStriping ==
    ASSUME StripingInvariant, Return
    PROVE  OnTheWay' /\ RowsOfSlots' /\ ColumnsFollowDefinition' /\ Len(stored') = size'
<1>. DEFINE n == Len(callStack)
<1>1. /\ ShreddingInvariant /\ OnTheWay /\ callStack # <<>> /\ Top.child > Arity[Top.writer]
      /\ callStack' = Front(callStack) /\ columns' = columns /\ recordTIDs' = recordTIDs
      /\ callStack \in Seq(Frames) /\ stored \in Seq(Messages) /\ size \in Nat
  BY DEF StripingInvariant, ShreddingInvariant, TypeOK, Return
<1>2. /\ IsMessage(message) /\ message \in Messages /\ n \in Nat \ {0} /\ Top = callStack[n]
  BY <1>1, WayFacts
<1>3. /\ callStack' \in Seq(Frames) /\ Len(callStack') = n - 1
      /\ \A k \in 1 .. n - 1 : callStack'[k] = callStack[k]
  BY <1>1, StackTop
<1>4. ASSUME NEW l \in Leaves, NEW t \in Slots(message, l)
      PROVE  ~ IsAhead(callStack[n], t, l)
  BY <1>1, <1>2, NothingAheadAtReturn
<1>5. (\A k \in 1 .. n : k \in 1 .. n - 1 \/ k = n) /\ \A k \in 1 .. n - 1 : k \in 1 .. n
  BY <1>2
<1>. HIDE DEF n
<1>6. ASSUME NEW l \in Leaves
      PROVE  SlotsAhead(l) =
                 {t \in Slots(message, l) : \E k \in 1 .. n - 1 : IsAhead(callStack[k], t, l)}
  BY <1>4, <1>5 DEF SlotsAhead, n
<1>7. CASE n # 1
  <2>1. UNCHANGED <<columns, recordTIDs, size, message, stored>>
    BY <1>1, <1>7 DEF Return, n
  <2>2. callStack' # <<>>
    BY <1>2, <1>3, <1>7, EmptySeq
  <2>3. OnTheWay'
    <3>1. ASSUME NEW k \in 1 .. n - 1
          PROVE  /\ callStack'[k].msg \in DOMAIN message /\ Len(callStack'[k].msg) = k - 1
                 /\ callStack'[k].rep =
                        GetMaxRepetitionLevel[Prefix(callStack'[k].writer, LastRepeat(callStack'[k].msg))]
                 /\ callStack'[k].occ > 1 =>
                        Child(callStack'[k].msg, callStack'[k].child, callStack'[k].occ) \in DOMAIN message
      <4>1. k \in 1 .. Len(callStack) /\ callStack'[k] = callStack[k]
        BY <1>3, <1>5 DEF n
      <4>. QED
        BY <1>1, <4>1 DEF OnTheWay, HasValue, FieldAddress
    <3>2. ASSUME NEW k \in 1 .. n - 1, NEW j \in 1 .. k - 1
          PROVE  callStack'[j].msg = Prefix(callStack'[k].msg, j - 1)
      <4>1. j \in 1 .. n - 1 /\ k \in 1 .. n
        BY <1>2
      <4>. QED
        BY <1>1, <1>3, <4>1 DEF OnTheWay, n
    <3>3. ASSUME NEW k \in 1 .. (n - 1) - 1
          PROVE  CursorBehind(callStack[k], callStack[k + 1].msg)'
      <4>1. k \in 1 .. n - 1 /\ k + 1 \in 1 .. n - 1
        BY <1>2
      <4>2. callStack'[k] = callStack[k] /\ callStack'[k + 1] = callStack[k + 1]
        BY <1>3, <4>1
      <4>3. CursorBehind(callStack[k], callStack[k + 1].msg)
        BY <1>1, <4>1 DEF OnTheWay, n
      <4>. QED
        BY <2>1, <4>2, <4>3 DEF CursorBehind
    <3>. QED
      BY <1>3, <2>1, <3>1, <3>2, <3>3 DEF OnTheWay, HasValue, FieldAddress
  <2>4. ASSUME NEW l \in Leaves PROVE SlotsAhead(l)' = SlotsAhead(l)
    <3>1. SlotsAhead(l)' = {t \in Slots(message, l) : \E k \in 1 .. n - 1 : IsAhead(callStack'[k], t, l)}
      BY <1>3, <2>1 DEF SlotsAhead
    <3>. QED
      BY <1>3, <1>6, <3>1
  <2>. QED
    BY <1>1, <2>1, <2>2, <2>3, <2>4, SameColumns
<1>8. CASE n = 1
  <2>1. size' = size + 1 /\ stored' = Append(stored, message)
    BY <1>1, <1>8 DEF Return, n
  <2>2. callStack' = <<>> /\ Len(callStack') = 0
    BY <1>3, <1>8, EmptySeq
  <2>3. Len(stored) = size
    BY DEF StripingInvariant
  <2>4. /\ Len(stored') = size' /\ stored'[size + 1] = message
        /\ \A k \in 1 .. size : stored'[k] = stored[k]
    BY <1>1, <1>2, <2>1, <2>3, AppendProperties
  <2>5. OnTheWay' /\ RowsOfSlots'
    BY <2>2 DEF OnTheWay, RowsOfSlots
  <2>6. ASSUME NEW l \in Leaves, NEW k PROVE Written(l, k)' = Written(l, k)
    BY <1>1 DEF Written
  <2>7. ASSUME NEW l \in Leaves, IsInitialized(message)
        PROVE  Written(l, size + 1) = Striped(message, l)
    <3>1. Written(l, size + 1) =
              SubSeq(Striped(message, l), 1, Cardinality(Slots(message, l) \ SlotsAhead(l)))
      BY <1>1, <2>7 DEF StripingInvariant, RowsOfSlots
    <3>2. SlotsAhead(l) = {}
      <4>1. 1 .. n - 1 = {}
        BY <1>8
      <4>. QED
        BY <1>6, <4>1
    <3>3. Slots(message, l) \ SlotsAhead(l) = Slots(message, l)
      BY <3>2
    <3>4. Cardinality(Slots(message, l)) = Len(Striped(message, l))
      BY <1>2, StripedIs
    <3>5. PICK S : Striped(message, l) \in Seq(S)
      BY <1>2, StripedIs
    <3>6. SubSeq(Striped(message, l), 1, Len(Striped(message, l))) = Striped(message, l)
      <4>1. PICK rows \in Seq(S) : rows = Striped(message, l)
        BY <3>5
      <4>2. Prefix(rows, Len(rows)) = rows
        <5>1. Len(rows) \in Nat /\ Len(rows) <= Len(rows)
          BY LenProperties
        <5>. QED
          BY <5>1, FirstSteps
      <4>. QED
        BY <4>1, <4>2 DEF Prefix
    <3>. QED
      BY <3>1, <3>3, <3>4, <3>6
  <2>8. ASSUME NEW l \in Leaves, NEW k \in 1 .. size + 1, IsInitialized(stored'[k])
        PROVE  Written(l, k)' = Striped(stored'[k], l)
    <3>1. CASE k \in 1 .. size
      <4>1. stored'[k] = stored[k]
        BY <2>4, <3>1
      <4>2. Written(l, k) = Striped(stored[k], l)
        BY <2>8, <3>1, <4>1 DEF StripingInvariant, ColumnsFollowDefinition
      <4>. QED
        BY <2>6, <4>1, <4>2
    <3>2. CASE k = size + 1
      BY <2>4, <2>6, <2>7, <2>8, <3>2
    <3>. QED
      BY <1>1, <3>1, <3>2
  <2>9. ColumnsFollowDefinition'
    BY <2>1, <2>2, <2>8 DEF ColumnsFollowDefinition
  <2>. QED
    BY <2>4, <2>5, <2>9
<1>. QED
  BY <1>7, <1>8

\* insert() starts a record with all its slots ahead and no rows.
LEMMA InsertKeepsStriping ==
    ASSUME StripingInvariant, NEW m \in Messages, Insert(m)
    PROVE  OnTheWay' /\ RowsOfSlots' /\ ColumnsFollowDefinition' /\ Len(stored') = size'
<1>. DEFINE fr == Frame(<<>>, Root, 0)
<1>1. /\ callStack = <<>> /\ message' = m /\ callStack' = <<fr>>
      /\ recordTIDs' = [l \in Leaves |-> Append(recordTIDs[l], Len(columns[l]))]
      /\ columns' = columns /\ size' = size /\ stored' = stored
      /\ TypeOK /\ OpenRecord /\ RecordBoundaries /\ IsMessage(m)
  BY MessagesAssumption DEF Insert, StripingInvariant, ShreddingInvariant
<1>2. fr.msg = <<>> /\ fr.writer = Root /\ fr.rep = 0 /\ fr.child = 1 /\ fr.occ = 1
  BY DEF Frame
<1>. HIDE DEF fr
<1>3. Len(callStack') = 1 /\ callStack' # <<>> /\ callStack'[1] = fr
  BY <1>1
<1>4. <<>> \in Addresses /\ Len(<<>>) = 0 /\ Root \in Seq(Nat) /\ Root = <<>>
  BY EmptySeq DEF Addresses, Root
<1>5. OnTheWay'
  <2>1. LastRepeat(<<>>) = 0
    <3>1. LastRepeat(<<>>) \in Nat /\ LastRepeat(<<>>) <= Len(<<>>)
      BY <1>4, LastRepeatIs
    <3>. QED
      BY <1>4, <3>1
  <2>2. Prefix(Root, 0) = Root
    <3>1. 0 \in Nat /\ 0 <= Len(Root) /\ 0 = Len(Root)
      BY <1>4
    <3>. QED
      BY <1>4, <3>1, FirstSteps
  <2>3. GetMaxRepetitionLevel[Root] = 0
    <3>1. {i \in 1 .. Len(Root) : IsRepeated(Prefix(Root, i))} = {}
      BY <1>4
    <3>2. GetMaxRepetitionLevel[Root] = Cardinality({})
      BY <3>1 DEF GetMaxRepetitionLevel, Nodes
    <3>. QED
      BY <3>2, FS_EmptySet
  <2>4. <<>> \in DOMAIN m
    BY <1>1 DEF IsMessage
  <2>5. ASSUME NEW k \in 1 .. 1
        PROVE  /\ callStack'[k].msg \in DOMAIN m /\ Len(callStack'[k].msg) = k - 1
               /\ callStack'[k].rep =
                      GetMaxRepetitionLevel[Prefix(callStack'[k].writer, LastRepeat(callStack'[k].msg))]
               /\ ~ (callStack'[k].occ > 1)
    <3>1. k = 1
      OBVIOUS
    <3>. QED
      BY <1>2, <1>3, <1>4, <2>1, <2>2, <2>3, <2>4, <3>1
  <2>6. /\ \A k \in 1 .. 1 : 1 .. k - 1 = {}
        /\ 1 .. 1 - 1 = {}
    OBVIOUS
  <2>. QED
    BY <1>1, <1>3, <2>5, <2>6 DEF OnTheWay
<1>6. ASSUME NEW l \in Leaves
      PROVE  /\ columns[l] \in Seq(Row) /\ Len(columns[l]) \in Nat /\ size \in Nat
             /\ recordTIDs[l] \in Seq(Nat) /\ Len(recordTIDs[l]) = size
             /\ recordTIDs'[l] \in Seq(Nat) /\ Len(recordTIDs'[l]) = size + 1
             /\ \A k \in 1 .. size : recordTIDs'[l][k] = recordTIDs[l][k]
             /\ recordTIDs'[l][size + 1] = Len(columns[l])
  <2>1. /\ columns[l] \in Seq(Row) /\ Len(columns[l]) \in Nat /\ size \in Nat
        /\ recordTIDs[l] \in Seq(Nat) /\ Len(recordTIDs[l]) = size
    BY <1>1, ColumnFacts DEF OpenRecord
  <2>. QED
    BY <1>1, <2>1, AppendProperties
<1>7. ASSUME NEW l \in Leaves, NEW k \in 1 .. size PROVE Written(l, k)' = Written(l, k)
  <2>1. size \in Nat /\ Len(recordTIDs[l]) = size /\ Len(recordTIDs'[l]) = size + 1
    BY <1>6
  <2>2. recordTIDs'[l][k] = recordTIDs[l][k] /\ k < Len(recordTIDs'[l])
    BY <1>6, <2>1
  <2>3. CASE k < size
    <3>1. k + 1 \in 1 .. size
      BY <2>1, <2>3
    <3>2. recordTIDs'[l][k + 1] = recordTIDs[l][k + 1]
      BY <1>6, <3>1
    <3>. QED
      BY <1>1, <2>1, <2>2, <2>3, <3>2 DEF Written
  <2>4. CASE k = size
    <3>1. recordTIDs'[l][k + 1] = Len(columns[l]) /\ ~ (k < Len(recordTIDs[l]))
      BY <1>6, <2>1, <2>4
    <3>. QED
      BY <1>1, <2>1, <2>2, <3>1 DEF Written
  <2>. QED
    BY <2>1, <2>3, <2>4
<1>8. ASSUME NEW l \in Leaves, NEW t \in Slots(m, l) PROVE IsAhead(fr, t, l)
  <2>1. t \in Addresses /\ t \in DOMAIN m /\ Len(t) \in Nat
    BY <1>1, SlotsAreFinite
  <2>2. IsPrefix(<<>>, t)
    <3>1. t \in Seq(Nat \X Nat) /\ <<>> \in Seq(Nat \X Nat) /\ Len(<<>>) <= Len(t)
      BY <1>4, <2>1 DEF Addresses
    <3>2. \A j \in 1 .. Len(<<>>) : <<>>[j] = t[j]
      BY <1>4
    <3>. QED
      BY <3>1, <3>2, PrefixIs
  <2>3. l[1] \in Nat /\ 1 <= l[1]
    <3>1. IsPrefix(Root, l)
      <4>1. l \in Seq(Nat) /\ Len(Root) <= Len(l)
        BY <1>4, LeafPath
      <4>2. \A j \in 1 .. Len(Root) : Root[j] = l[j]
        BY <1>4
      <4>. QED
        BY <1>4, <4>1, <4>2, PrefixIs
    <3>2. Root \in Types
      BY DEF Types
    <3>3. l[Len(Root) + 1] \in 1 .. Arity[Root] /\ Arity[Root] \in Nat
      BY <3>1, <3>2, LeafBelow, PathsAreSequences
    <3>. QED
      BY <1>4, <3>3
  <2>4. ASSUME 1 <= Len(t) PROVE t[1][2] >= 1
    <3>1. 1 \in 1 .. Len(t)
      BY <2>1, <2>4
    <3>2. t[1][2] \in Nat /\ 1 <= t[1][2]
      BY <1>1, <2>1, <3>1, PresentAddress
    <3>. QED
      BY <3>2
  <2>5. Len(fr.msg) + 1 = 1
    BY <1>2, <1>4
  <2>. QED
    BY <1>2, <2>2, <2>3, <2>4, <2>5 DEF IsAhead
<1>9. RowsOfSlots'
  <2>1. ASSUME NEW l \in Leaves
        PROVE  Written(l, size + 1)' =
                   SubSeq(Striped(m, l), 1, Cardinality(Slots(m, l) \ SlotsAhead(l)'))
    <3>1. SlotsAhead(l)' = {t \in Slots(m, l) : \E k \in 1 .. 1 : IsAhead(callStack'[k], t, l)}
      BY <1>1, <1>3 DEF SlotsAhead
    <3>2. Slots(m, l) \ SlotsAhead(l)' = {}
      BY <1>3, <1>8, <3>1
    <3>3. Cardinality(Slots(m, l) \ SlotsAhead(l)') = 0
      BY <3>2, FS_EmptySet
    <3>4. PICK S : Striped(m, l) \in Seq(S)
      BY <1>1, StripedIs
    <3>5. SubSeq(Striped(m, l), 1, 0) = <<>>
      <4>1. PICK rows \in Seq(S) : rows = Striped(m, l)
        BY <3>4
      <4>2. Prefix(rows, 0) \in Seq(S) /\ Len(Prefix(rows, 0)) = 0
        BY LenProperties, FirstSteps
      <4>3. Prefix(rows, 0) = <<>>
        BY <4>2, EmptySeq
      <4>. QED
        BY <4>1, <4>3 DEF Prefix
    <3>6. Written(l, size + 1)' = SubSeq(columns[l], Len(columns[l]) + 1, Len(columns[l]))
      <4>1. size \in Nat /\ ~ (size + 1 < Len(recordTIDs'[l])) /\ recordTIDs'[l][size + 1] = Len(columns[l])
        BY <1>6
      <4>. QED
        BY <1>1, <4>1 DEF Written
    <3>7. SubSeq(columns[l], Len(columns[l]) + 1, Len(columns[l])) = <<>>
      <4>1. PICK i \in Nat : i = Len(columns[l])
        BY <1>6
      <4>2. \A j \in i + 1 .. i : columns[l][j] \in Row
        OBVIOUS
      <4>3. i + 1 \in Int /\ i \in Int /\ ~ (i + 1 <= i)
        OBVIOUS
      <4>4. SubSeq(columns[l], i + 1, i) \in Seq(Row) /\ Len(SubSeq(columns[l], i + 1, i)) = 0
        BY <4>2, <4>3, SubSeqProperties, Z3
      <4>. QED
        BY <4>1, <4>4, EmptySeq
    <3>. QED
      BY <3>3, <3>5, <3>6, <3>7
  <2>. QED
    BY <1>1, <2>1 DEF RowsOfSlots
<1>10. ColumnsFollowDefinition'
  <2>1. ASSUME NEW l \in Leaves, NEW k \in 1 .. size, IsInitialized(stored[k])
        PROVE  Written(l, k)' = Striped(stored[k], l)
    <3>1. Written(l, k) = Striped(stored[k], l)
      BY <2>1 DEF StripingInvariant, ColumnsFollowDefinition
    <3>. QED
      BY <1>7, <3>1
  <2>. QED
    BY <1>1, <1>9, <2>1, ColumnsFromRows
<1>11. Len(stored') = size'
  BY <1>1 DEF StripingInvariant
<1>. QED
  BY <1>5, <1>9, <1>10, <1>11

\* The invariant of striping is inductive.
LEMMA StepKeepsStriping ==
    StripingInvariant /\ [ShredNext]_shredVars => StripingInvariant'
<1>. SUFFICES ASSUME StripingInvariant, [ShredNext]_shredVars
              PROVE  StripingInvariant'
  OBVIOUS
<1>1. ShreddingInvariant'
  BY StepKeepsInvariant DEF StripingInvariant
<1>. DEFINE Rest == Len(stored) = size /\ OnTheWay /\ RowsOfSlots /\ ColumnsFollowDefinition
<1>. SUFFICES Rest'
  BY <1>1 DEF StripingInvariant
<1>2. CASE \E m \in Messages : Insert(m)
  BY <1>2, InsertKeepsStriping
<1>3. CASE WriteNull
  BY <1>3, NullKeepsStriping
<1>4. CASE WriteValue
  BY <1>4, ValueKeepsStriping
<1>5. CASE Descend
  BY <1>5, DescendKeepsStriping
<1>6. CASE Return
  BY <1>6, ReturnKeepsStriping
<1>7. CASE UNCHANGED shredVars
  <2>1. /\ columns' = columns /\ recordTIDs' = recordTIDs /\ size' = size
        /\ message' = message /\ stored' = stored /\ callStack' = callStack
    BY <1>7 DEF shredVars
  <2>2. OnTheWay'
    BY <2>1 DEF StripingInvariant, OnTheWay, HasValue, FieldAddress, CursorBehind
  <2>3. RowsOfSlots'
    BY <2>1 DEF StripingInvariant, RowsOfSlots, Written, SlotsAhead
  <2>4. ColumnsFollowDefinition'
    BY <2>1 DEF StripingInvariant, ColumnsFollowDefinition, Written
  <2>. QED
    BY <2>1, <2>2, <2>3, <2>4 DEF StripingInvariant
<1>. QED
  BY <1>2, <1>3, <1>4, <1>5, <1>6, <1>7 DEF ShredNext, ShredStep

\* The invariant holds before the first insert.
LEMMA InitEstablishesStriping ==
    ASSUME InitShredding
    PROVE  StripingInvariant
<1>1. ShreddingInvariant
  BY InitEstablishesInvariant
<1>2. size = 0 /\ callStack = <<>> /\ stored = <<>> /\ Len(<<>>) = 0
  BY EmptySeq DEF InitShredding, InitStorage
<1>3. OnTheWay /\ RowsOfSlots /\ ColumnsFollowDefinition
  BY <1>2 DEF OnTheWay, RowsOfSlots, ColumnsFollowDefinition
<1>. QED
  BY <1>1, <1>2, <1>3 DEF StripingInvariant

\* At every step of DissectRecordInternal, the rows written are those of the slots
\* that the activations have passed, for every schema and every set of records.
THEOREM StripingInvariantHolds == ShredSpec => []StripingInvariant
<1>1. InitShredding => StripingInvariant
  BY InitEstablishesStriping
<1>2. StripingInvariant /\ [ShredNext]_shredVars => StripingInvariant'
  BY StepKeepsStriping
<1>. QED
  BY <1>1, <1>2, PTL DEF ShredSpec

\* DissectRecordInternal, with its seen_fields and its nulls for missing subtrees,
\* writes for every record that has its required fields exactly the rows that the
\* definition of repetition and definition levels asks for, in their order.
THEOREM ColumnsAreAsDefined == ShredSpec => []ColumnsFollowDefinition
<1>1. StripingInvariant => ColumnsFollowDefinition
  BY DEF StripingInvariant
<1>. QED
  BY <1>1, StripingInvariantHolds, PTL

-----------------------------------------------------------------------------
(* What the levels of the rows tell about nulls. *)

\* The row of a place is the row of some slot.
LEMMA EveryPlace ==
    ASSUME NEW m, IsMessage(m), NEW l \in Leaves, NEW n \in 1 .. Cardinality(Slots(m, l))
    PROVE  \E s \in Slots(m, l) : Place(m, l, s) + 1 = n
<1>. DEFINE S == Slots(m, l)
            N == Cardinality(S)
            T == 0 .. N - 1
            f == [s \in S |-> Place(m, l, s)]
<1>1. N \in Nat /\ IsFiniteSet(S)
  BY SlotsAreFinite
<1>2. \A s \in S : /\ Place(m, l, s) \in Nat /\ Place(m, l, s) < N
                   /\ \A t \in S : Place(m, l, s) = Place(m, l, t) => s = t
  BY PlacesAreOrdered
<1>3. IsFiniteSet(T) /\ Cardinality(T) = N
  <2>1. ASSUME NEW k \in Nat PROVE IsFiniteSet(0 .. k - 1) /\ Cardinality(0 .. k - 1) = k
    <3>1. 0 \in Int /\ k - 1 \in Int
      OBVIOUS
    <3>2. IsFiniteSet(0 .. k - 1) /\ Cardinality(0 .. k - 1) = IF 0 > k - 1 THEN 0 ELSE k - 1 - 0 + 1
      BY <3>1, FS_Interval
    <3>. QED
      BY <3>2
  <2>. QED
    BY <1>1, <2>1
<1>4. f \in [S -> T]
  BY <1>1, <1>2
<1>5. \A s \in S : f[s] = Place(m, l, s)
  OBVIOUS
<1>. HIDE DEF S, T, f
<1>6. f \in Injection(S, T)
  BY <1>2, <1>4, <1>5 DEF Injection, IsInjective
<1>7. f \in Surjection(S, T)
  BY <1>3, <1>6, FS_Injection
<1>8. n - 1 \in T
  BY <1>1 DEF T, S
<1>9. PICK s \in S : f[s] = n - 1
  BY <1>7, <1>8 DEF Surjection
<1>10. Place(m, l, s) + 1 = n
  BY <1>1, <1>5, <1>9
<1>. QED
  BY <1>10 DEF S

\* Definition levels grow on the way down.
LEMMA DefinitionGrows ==
    ASSUME NEW w \in Nodes, NEW l \in Nodes, IsPrefix(w, l)
    PROVE  /\ GetDefinitionLevel[w] \in Nat /\ GetDefinitionLevel[l] \in Nat
           /\ GetDefinitionLevel[w] <= GetDefinitionLevel[l]
<1>. DEFINE D(f) == {n \in 1 .. Len(f) : Label[Prefix(f, n)] # "required"}
<1>1. w \in Seq(Nat) /\ l \in Seq(Nat) /\ Len(w) \in Nat /\ Len(l) \in Nat
  BY PathsAreSequences, LenProperties, EmptySeq DEF Nodes, Root
<1>2. Len(w) <= Len(l)
  BY <1>1, PrefixIs
<1>3. GetDefinitionLevel[w] = Cardinality(D(w)) /\ GetDefinitionLevel[l] = Cardinality(D(l))
  BY DEF GetDefinitionLevel
<1>4. ASSUME NEW n \in 1 .. Len(w) PROVE Prefix(l, n) = Prefix(w, n)
  <2>1. n \in Nat /\ n <= Len(w)
    BY <1>1
  <2>. QED
    BY <1>1, <2>1, StepsOfNode
<1>5. D(w) \in SUBSET D(l)
  BY <1>1, <1>2, <1>4
<1>6. IsFiniteSet(D(l))
  <2>1. IsFiniteSet(1 .. Len(l)) /\ D(l) \in SUBSET (1 .. Len(l))
    BY <1>1, FS_Interval
  <2>. QED
    BY <2>1, FS_Subset
<1>. HIDE DEF D
<1>. QED
  BY <1>3, <1>5, <1>6, FS_Subset, FS_CardinalityType

\* A row tells by its level whether it has a value.
Tells(row, l) ==
    /\ row.d <= GetDefinitionLevel[l]
    /\ row.v = Default <=> row.d < GetDefinitionLevel[l]

\* The row of a slot does: if the path ends above the leaf, the field that is missing
\* is not a required one, and has the definition level that the slot has not.
LEMMA SlotTells ==
    ASSUME NEW m, IsMessage(m), IsInitialized(m), NEW l \in Leaves, NEW s \in Slots(m, l)
    PROVE  Tells(RowOfSlot(m, l, s), l)
<1>. DEFINE w == TypeOf(s)
<1>1. /\ s \in OnPath(m, l) /\ s \in DOMAIN m /\ s \in Addresses /\ IsPrefix(w, l)
      /\ Len(s) \in Nat /\ Len(s) <= Len(l) /\ Len(l) \in Nat
      /\ w \in Seq(Nat) /\ Len(w) = Len(s) /\ l \in Seq(Nat) /\ l \in Nodes
  BY SlotsAreFinite, TypeOfSteps, LeafPath DEF OnPath
<1>2. RowOfSlot(m, l, s).v = (IF w = l THEN m[s] ELSE Default)
      /\ RowOfSlot(m, l, s).d = GetDefinitionLevel[w]
  BY DEF RowOfSlot
<1>3. GetDefinitionLevel[l] \in Nat
  BY <1>1, LevelBounds
<1>4. CASE w = l
  <2>1. PICK t \in Types, c \in Nat : l = Append(t, c) /\ t \in Seq(Nat)
    <3>1. l \in Fields
      BY LeafPath
    <3>2. PICK t \in Types : \E c \in 1 .. Arity[t] : l = Append(t, c)
      BY <3>1, PathsAreSequences
    <3>3. t \in Seq(Nat) /\ \A c \in 1 .. Arity[t] : c \in Nat
      BY PathsAreSequences
    <3>. QED
      BY <3>2, <3>3
  <2>2. Len(s) > 0
    BY <1>1, <1>4, <2>1, AppendProperties, LenProperties
  <2>3. s # <<>>
    BY <2>2, EmptySeq
  <2>4. m[s] \in Values
    BY <1>1, <1>4, <2>3 DEF IsMessage
  <2>. QED
    BY <1>2, <1>3, <1>4, <2>4, DefaultAssumption DEF Tells
<1>5. CASE w # l
  <2>1. w \in Types
    <3>1. w \in Nodes
      BY <1>1, PresentAddress
    <3>2. w \notin Leaves
      BY <1>1, <1>5, LeavesApart
    <3>. QED
      BY <3>1, <3>2 DEF Nodes, Types, Leaves
  <2>2. Len(s) < Len(l) /\ l[Len(s) + 1] \in 1 .. Arity[w]
    BY <1>1, <2>1, LeafBelow
  <2>3. PICK c \in 1 .. Arity[w] : c = l[Len(s) + 1]
    BY <2>2
  <2>4. c \in Nat /\ Append(w, c) \in Fields /\ Append(w, c) \in Nodes
    BY <2>1, PathsAreSequences DEF Nodes
  <2>5. Child(s, c, 1) \notin DOMAIN m
    BY <1>1, <2>2, <2>3, SlotIs
  <2>6. Label[Append(w, c)] # "required"
    BY <1>1, <2>1, <2>5 DEF IsInitialized
  <2>7. GetDefinitionLevel[Append(w, c)] = GetDefinitionLevel[w] + 1
    BY <2>1, <2>4, <2>6, LevelOfOptional
  <2>8. IsPrefix(Append(w, c), l)
    BY <1>1, <2>2, <2>3, <2>4, PrefixAppend
  <2>9. /\ GetDefinitionLevel[w] \in Nat
        /\ GetDefinitionLevel[Append(w, c)] <= GetDefinitionLevel[l]
    BY <1>1, <2>1, <2>4, <2>8, DefinitionGrows, LevelBounds, PresentAddress
  <2>. QED
    BY <1>2, <1>3, <1>5, <2>7, <2>9 DEF Tells
<1>. QED
  BY <1>4, <1>5

\* So do the rows that the definition asks for.
LEMMA DefinitionTells ==
    ASSUME NEW m, IsMessage(m), IsInitialized(m), NEW l \in Leaves,
           NEW n \in 1 .. Len(Striped(m, l))
    PROVE  Tells(Striped(m, l)[n], l)
<1>1. n \in 1 .. Cardinality(Slots(m, l))
  BY StripedIs
<1>2. PICK s \in Slots(m, l) : Place(m, l, s) + 1 = n
  BY <1>1, EveryPlace
<1>3. Striped(m, l)[n] = RowOfSlot(m, l, s)
  BY <1>2, StripedIs
<1>. QED
  BY <1>3, SlotTells

\* The rows written for a record follow the definition, at every moment of an insert.
LEMMA RowsTell ==
    ASSUME StripingInvariant
    PROVE  NullsAreTold
<1>. DEFINE Told(l, n) == \A i \in 1 .. Len(Written(l, n)) : Tells(Written(l, n)[i], l)
<1>1. /\ callStack # <<>> => IsMessage(message)
      /\ \A n \in 1 .. size : IsMessage(stored[n])
  <2>1. callStack # <<>> => message \in Messages
    BY DEF StripingInvariant, ShreddingInvariant, Nested
  <2>2. stored \in Seq(Messages) /\ Len(stored) = size
    BY DEF StripingInvariant, ShreddingInvariant, TypeOK
  <2>3. \A n \in 1 .. size : stored[n] \in Messages
    BY <2>2, ElementOfSeq
  <2>. QED
    BY <2>1, <2>3, MessagesAssumption
<1>2. ASSUME NEW l \in Leaves, NEW n \in 1 .. size, IsInitialized(stored[n])
      PROVE  Told(l, n)
  <2>1. Written(l, n) = Striped(stored[n], l)
    BY <1>2 DEF StripingInvariant, ColumnsFollowDefinition
  <2>. QED
    BY <1>1, <1>2, <2>1, DefinitionTells
<1>3. ASSUME NEW l \in Leaves, callStack # <<>>, IsInitialized(message)
      PROVE  Told(l, size + 1)
  <2>. DEFINE k == Cardinality(Slots(message, l) \ SlotsAhead(l))
  <2>1. Written(l, size + 1) = Prefix(Striped(message, l), k)
    BY <1>3 DEF StripingInvariant, RowsOfSlots, Prefix
  <2>2. k \in Nat /\ k <= Len(Striped(message, l))
    BY <1>1, <1>3, FirstRows
  <2>3. PICK S : Striped(message, l) \in Seq(S)
    BY <1>1, <1>3, StripedIs
  <2>. HIDE DEF k
  <2>4. /\ Len(Written(l, size + 1)) = k
        /\ \A i \in 1 .. k : Written(l, size + 1)[i] = Striped(message, l)[i]
    BY <2>1, <2>2, <2>3, FirstSteps
  <2>5. \A i \in 1 .. k : i \in 1 .. Len(Striped(message, l))
    BY <2>2, <2>3, LenProperties
  <2>. QED
    BY <1>1, <1>3, <2>4, <2>5, DefinitionTells
<1>. QED
  BY <1>2, <1>3 DEF NullsAreTold, Tells

\* A null is told from a value by its definition level alone, in every column of every
\* schema: no level of a record with its required fields wraps around or exceeds that
\* of its column, and the maximum is kept for values.
THEOREM NullsAreAlwaysTold == ShredSpec => []NullsAreTold
<1>1. StripingInvariant => NullsAreTold
  BY RowsTell
<1>. QED
  BY <1>1, StripingInvariantHolds, PTL
=============================================================================
