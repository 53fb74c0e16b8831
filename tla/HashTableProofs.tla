-------------------------- MODULE HashTableProofs --------------------------
(***************************************************************************)
(* Proofs about HashTable: for any number of threads and entries, the      *)
(* compare-and-swap loop of finalize() loses no entry of a list.           *)
(***************************************************************************)
EXTENDS HashTable, TLAPS, FiniteSetTheorems, SequenceTheorems

\* What an entry is, and that a null pointer is none.
LEMMA EntryFacts ==
    ASSUME locals \in [Threads -> Seq(Keys)], NEW e \in Entries
    PROVE  /\ e \in Threads \X Nat /\ e[1] \in Threads
           /\ e # nullptr
           /\ KeyOf(e) \in Keys
<1>1. PICK t \in Threads : \E i \in 1 .. Len(locals[t]) : e = <<t, i>>
  BY DEF Entries
<1>2. PICK i \in 1 .. Len(locals[t]) : e = <<t, i>>
  BY <1>1
<1>3. locals[t] \in Seq(Keys)
  OBVIOUS
<1>4. i \in Nat /\ locals[t][i] \in Keys
  BY <1>2, <1>3
<1>5. e[1] = t /\ e[2] = i /\ e # <<>>
  BY <1>2
<1>. QED
  BY <1>2, <1>4, <1>5 DEF KeyOf, nullptr

\* The size of the table is a number below the modulus of the size type.
LEMMA SizeOfTable ==
    ASSUME IsFiniteSet(Entries)
    PROVE  NextPow2(TotalEntryCount) \in 0 .. SizeMod - 1
<1>. DEFINE v == TotalEntryCount
            below == (v - 1) % SizeMod
            S == {n \in 0 .. below : 2 ^ n <= below}
<1>1. v \in Nat
  BY FS_CardinalityType DEF TotalEntryCount
<1>2. below \in Nat
  BY <1>1, HashTableAssumption
<1>. HIDE DEF below, v
<1>3. IsFiniteSet(S)
  <2>1. IsFiniteSet(0 .. below)
    BY <1>2, FS_Interval
  <2>. QED
    BY <2>1, FS_Subset
<1>4. Cardinality(S) \in Nat
  BY <1>3, FS_CardinalityType
<1>5. 2 ^ Cardinality(S) \in Int
  <2>. HIDE DEF S
  <2>. QED
    BY <1>4
<1>6. 2 ^ Cardinality(S) % SizeMod \in 0 .. SizeMod - 1
  <2>. HIDE DEF S
  <2>. QED
    BY <1>5, HashTableAssumption
<1>. QED
  BY <1>6 DEF NextPow2, v, below, S

\* The bucket of an entry is a position of the table.
LEMMA BucketInTable ==
    ASSUME NEW n \in 1 .. SizeMod - 1, DOMAIN buckets = 0 .. n - 1, NEW k \in Keys
    PROVE  Bucket(k) \in DOMAIN buckets
<1>1. n \in Nat /\ n > 0 /\ SizeMod \in Nat
  BY HashTableAssumption
<1>2. Cardinality(DOMAIN buckets) = n
  BY <1>1, FS_Interval
<1>3. Hash[k] \in Nat
  BY HashTableAssumption
<1>. QED
  BY <1>1, <1>2, <1>3 DEF Bucket

\* The vectors hold finitely many entries.
LEMMA EntriesFinite ==
    ASSUME locals \in [Threads -> Seq(Keys)]
    PROVE  IsFiniteSet(Entries)
<1>. DEFINE own == [t \in Threads |-> {<<t, i>> : i \in 1 .. Len(locals[t])}]
            S == {own[t] : t \in Threads}
<1>1. ASSUME NEW t \in Threads
      PROVE  IsFiniteSet(own[t])
  <2>. DEFINE I == 1 .. Len(locals[t])
              g == [i \in I |-> <<t, i>>]
  <2>1. IsFiniteSet(I)
    <3>1. Len(locals[t]) \in Nat
      BY LenProperties
    <3>. QED
      BY <3>1, FS_Interval
  <2>2. g \in Surjection(I, own[t])
    BY DEF Surjection
  <2>. QED
    BY <2>1, <2>2, FS_Surjection
<1>2. Entries = UNION S
  BY DEF Entries
<1>3. DOMAIN own = Threads /\ own = [t \in Threads |-> own[t]]
  OBVIOUS
<1>. HIDE DEF own
<1>4. IsFiniteSet(S)
  <2>1. own \in Surjection(Threads, S)
    BY <1>3 DEF Surjection
  <2>. QED
    BY <2>1, FS_Surjection, HashTableAssumption
<1>5. \A T \in S : IsFiniteSet(T)
  BY <1>1
<1>. HIDE DEF S
<1>. QED
  BY <1>2, <1>4, <1>5, FS_UNION

\* Steps that leave the vectors alone leave the entries and their keys alone, and
\* the buckets of the keys unless the table changes its size.
LEMMA SameEntries ==
    ASSUME UNCHANGED locals
    PROVE  /\ Entries' = Entries
           /\ \A e : KeyOf(e)' = KeyOf(e)
           /\ DOMAIN buckets' = DOMAIN buckets => \A k : Bucket(k)' = Bucket(k)
  BY DEF Entries, KeyOf, Bucket

-----------------------------------------------------------------------------
\* An empty map satisfies the invariant.
LEMMA InitEstablishesListInvariant ==
    ASSUME InitHashTable
    PROVE  ListInvariant
<1>1. Entries = {}
  BY DEF InitHashTable, Entries
<1>2. HashTypeOK
  BY <1>1 DEF InitHashTable, HashTypeOK
<1>. QED
  BY <1>2 DEF InitHashTable, ListInvariant, ListsIntact, BucketsMade, LinkedOnce, nullptr

\* An insertion adds an entry and leaves the keys of the others alone.
LEMMA InsertedEntries ==
    ASSUME locals \in [Threads -> Seq(Keys)], NEW t \in Threads, NEW k \in Keys,
           locals' = [locals EXCEPT ![t] = Append(@, k)],
           NEW new, new = <<t, Len(locals[t]) + 1>>
    PROVE  /\ Entries' = Entries \cup {new} /\ new \notin Entries
           /\ \A e \in Entries : KeyOf(e)' = KeyOf(e)
           /\ locals'[new[1]][new[2]] = k
<1>1. /\ \A u \in Threads : Len(locals'[u]) = IF u = t THEN Len(locals[t]) + 1 ELSE Len(locals[u])
      /\ \A u \in Threads : Len(locals[u]) \in Nat /\ locals[u] \in Seq(Keys)
      /\ \A u \in Threads : u # t => locals'[u] = locals[u]
      /\ \A i \in 1 .. Len(locals[t]) : locals'[t][i] = locals[t][i]
      /\ locals'[t][Len(locals[t]) + 1] = k
  BY AppendProperties, LenProperties
<1>2. Entries' = Entries \cup {new}
  <2>1. ASSUME NEW u \in Threads, NEW i \in 1 .. Len(locals'[u])
        PROVE  <<u, i>> \in Entries \cup {new}
    <3>1. (u = t /\ i = Len(locals[t]) + 1) \/ i \in 1 .. Len(locals[u])
      BY <1>1
    <3>. QED
      BY <3>1 DEF Entries
  <2>2. ASSUME NEW u \in Threads, NEW i \in 1 .. Len(locals[u])
        PROVE  i \in 1 .. Len(locals'[u])
    BY <1>1
  <2>3. Len(locals[t]) + 1 \in 1 .. Len(locals'[t])
    BY <1>1
  <2>4. \A e : e \in Entries' <=> \E u \in Threads : \E i \in 1 .. Len(locals'[u]) : e = <<u, i>>
    BY DEF Entries
  <2>5. \A e : e \in Entries <=> \E u \in Threads : \E i \in 1 .. Len(locals[u]) : e = <<u, i>>
    BY DEF Entries
  <2>6. \A e : e \in Entries' => e \in Entries \cup {new}
    BY <2>1, <2>4
  <2>7. \A e : e \in Entries \cup {new} => e \in Entries'
    BY <2>2, <2>3, <2>4, <2>5
  <2>. QED
    BY <2>6, <2>7
<1>3. new \notin Entries
  BY <1>1 DEF Entries
<1>4. ASSUME NEW u \in Threads, NEW i \in 1 .. Len(locals[u])
      PROVE  KeyOf(<<u, i>>)' = KeyOf(<<u, i>>)
  <2>1. locals'[u][i] = locals[u][i]
    BY <1>1
  <2>. QED
    BY <2>1 DEF KeyOf
<1>5. \A e \in Entries : KeyOf(e)' = KeyOf(e)
  BY <1>4 DEF Entries
<1>6. locals'[new[1]][new[2]] = k
  BY <1>1
<1>. QED
  BY <1>2, <1>3, <1>5, <1>6

\* insert() adds an entry while nothing is linked.
LEMMA InsertKeepsListInvariant ==
    ASSUME ListInvariant, NEW t \in Threads, NEW k \in Keys, Insert(t, k)
    PROVE  ListInvariant'
<1>0. PICK new : new = <<t, Len(locals[t]) + 1>>
  OBVIOUS
<1>1. HashTypeOK /\ ListsIntact /\ BucketsMade /\ LinkedOnce /\ phase = "gather"
  BY DEF ListInvariant, Insert
<1>2. /\ locals \in [Threads -> Seq(Keys)] /\ locals' \in [Threads -> Seq(Keys)]
      /\ Len(locals[t]) \in Nat
      /\ \A u \in Threads : Len(locals'[u]) = IF u = t THEN Len(locals[t]) + 1 ELSE Len(locals[u])
      /\ \A u \in Threads : Len(locals[u]) \in Nat
  BY <1>1, AppendProperties, LenProperties DEF HashTypeOK, Insert
<1>3. Entries' = Entries \cup {new}
  BY <1>2, <1>0, InsertedEntries DEF Insert
<1>4. /\ DOMAIN buckets = {} /\ rest = {} /\ todo = {} /\ \A u \in Threads : taken[u] = nullptr
      /\ UNCHANGED <<phase, buckets, rest, todo, taken, lookup, chains>>
      /\ DOMAIN chains = {}
  BY <1>1 DEF BucketsMade, Insert, HashTypeOK
<1>5. HashTypeOK'
  <2>1. next' \in [Entries' -> Entries' \cup {nullptr}]
    <3>1. DOMAIN next = Entries
      BY <1>1 DEF HashTypeOK
    <3>. QED
      BY <1>0, <1>3, <3>1 DEF Insert
  <2>2. buckets' \in [DOMAIN buckets' -> Entries' \cup {nullptr}]
    BY <1>1, <1>3, <1>4 DEF HashTypeOK
  <2>3. taken' \in [Threads -> Entries' \cup {nullptr}]
    BY <1>1, <1>3, <1>4 DEF HashTypeOK
  <2>. QED
    BY <1>1, <1>2, <1>4, <2>1, <2>2, <2>3 DEF HashTypeOK
<1>6. ListsIntact' /\ LinkedOnce'
  BY <1>4 DEF ListsIntact, LinkedOnce
<1>7. BucketsMade'
  BY <1>1, <1>4 DEF BucketsMade
<1>. QED
  BY <1>5, <1>6, <1>7 DEF ListInvariant

\* finalize() makes a table of empty lists, or fails.
LEMMA FinalizeKeepsListInvariant ==
    ASSUME ListInvariant, Finalize
    PROVE  ListInvariant'
<1>. DEFINE n == NextPow2(TotalEntryCount)
<1>1. HashTypeOK /\ ListsIntact /\ BucketsMade /\ LinkedOnce /\ phase = "gather"
  BY DEF ListInvariant, Finalize
<1>2. n \in 0 .. SizeMod - 1
  BY <1>1, EntriesFinite, SizeOfTable DEF HashTypeOK
<1>3. Entries' = Entries /\ UNCHANGED <<locals, next, todo, taken, lookup>>
  BY SameEntries DEF Finalize
<1>4. /\ DOMAIN buckets = {} /\ rest = {} /\ todo = {} /\ \A u \in Threads : taken[u] = nullptr
      /\ DOMAIN chains = {}
  BY <1>1 DEF BucketsMade, HashTypeOK
<1>5. CASE n > 0
  <2>1. /\ phase' = "build" /\ rest' = Threads
        /\ buckets' = [b \in 0 .. n - 1 |-> nullptr]
        /\ chains' = [b \in 0 .. n - 1 |-> <<>>]
    BY <1>5 DEF Finalize
  <2>2. HashTypeOK'
    <3>1. <<>> \in Seq(Threads \X Nat)
      BY EmptySeq
    <3>. QED
      BY <1>1, <1>3, <2>1, <3>1 DEF HashTypeOK
  <2>3. ListsIntact' /\ LinkedOnce'
    BY <1>3, <1>4, <2>1 DEF ListsIntact, LinkedOnce
  <2>4. BucketsMade'
    BY <1>2, <1>5, <2>1, HashTableAssumption DEF BucketsMade
  <2>. QED
    BY <2>2, <2>3, <2>4 DEF ListInvariant
<1>6. CASE ~ n > 0
  <2>1. phase' = "failed" /\ UNCHANGED <<buckets, chains, rest>>
    BY <1>6 DEF Finalize
  <2>2. HashTypeOK'
    BY <1>1, <1>3, <2>1 DEF HashTypeOK
  <2>3. ListsIntact' /\ LinkedOnce' /\ BucketsMade'
    BY <1>3, <1>4, <2>1 DEF ListsIntact, LinkedOnce, BucketsMade
  <2>. QED
    BY <2>2, <2>3 DEF ListInvariant
<1>. QED
  BY <1>5, <1>6

-----------------------------------------------------------------------------
\* finalize() goes on to another vector, none of whose entries is linked.
LEMMA BeginRangeKeepsListInvariant ==
    ASSUME ListInvariant, NEW t \in Threads, BeginRange(t)
    PROVE  ListInvariant'
<1>1. /\ HashTypeOK /\ ListsIntact /\ BucketsMade /\ LinkedOnce /\ phase = "build"
      /\ t \in rest /\ rest' = rest \ {t} /\ todo' = {e \in Entries : e[1] = t}
      /\ todo = {} /\ \A u \in Threads : taken[u] = nullptr
      /\ UNCHANGED <<phase, locals, next, buckets, taken, lookup, chains>>
  BY DEF ListInvariant, BeginRange, RangeDone
<1>2. /\ Entries' = Entries
      /\ \A e : KeyOf(e)' = KeyOf(e)
      /\ \A k : Bucket(k)' = Bucket(k)
  BY <1>1, SameEntries
<1>3. HashTypeOK'
  BY <1>1, <1>2 DEF HashTypeOK
<1>4. ListsIntact'
  BY <1>1, <1>2 DEF ListsIntact
<1>5. BucketsMade'
  BY <1>1 DEF BucketsMade
<1>6. LinkedOnce'
  <2>1. \A e : Waiting(e)' => Waiting(e)
    BY <1>1 DEF Waiting
  <2>. QED
    BY <1>1, <1>2, <2>1 DEF LinkedOnce
<1>. QED
  BY <1>3, <1>4, <1>5, <1>6 DEF ListInvariant

\* A worker takes an entry that is in no list and writes its next pointer.
LEMMA LoadHeadKeepsListInvariant ==
    ASSUME ListInvariant, NEW t \in Threads, NEW e \in Entries, LoadHead(t, e)
    PROVE  ListInvariant'
<1>. DEFINE b == Bucket(KeyOf(e))
<1>1. /\ HashTypeOK /\ ListsIntact /\ BucketsMade /\ LinkedOnce
      /\ taken[t] = nullptr /\ e \in todo
      /\ todo' = todo \ {e}
      /\ taken' = [taken EXCEPT ![t] = e]
      /\ next' = [next EXCEPT ![e] = buckets[b]]
      /\ UNCHANGED <<phase, locals, buckets, rest, lookup, chains>>
  BY DEF ListInvariant, LoadHead, Remaining
<1>2. /\ Entries' = Entries
      /\ \A x : KeyOf(x)' = KeyOf(x)
      /\ \A k : Bucket(k)' = Bucket(k)
  BY <1>1, SameEntries
<1>3. KeyOf(e) \in Keys /\ e # nullptr
  BY <1>1, EntryFacts DEF HashTypeOK
<1>4. buckets[b] \in Entries \cup {nullptr}
  <2>1. PICK n \in 1 .. SizeMod - 1 : DOMAIN buckets = 0 .. n - 1
    BY <1>1 DEF BucketsMade
  <2>2. b \in DOMAIN buckets
    BY <1>3, <2>1, BucketInTable
  <2>. HIDE DEF b
  <2>. QED
    BY <1>1, <2>2 DEF HashTypeOK
<1>. HIDE DEF b
<1>5. HashTypeOK'
  <2>1. next' \in [Entries -> Entries \cup {nullptr}]
    BY <1>1, <1>4 DEF HashTypeOK
  <2>2. taken' \in [Threads -> Entries \cup {nullptr}]
    BY <1>1 DEF HashTypeOK
  <2>3. \A u, w \in Threads : taken'[u] # nullptr =>
            taken'[u] \notin todo' /\ (taken'[u] = taken'[w] => u = w)
    <3>1. \A u \in Threads : taken'[u] = IF u = t THEN e ELSE taken[u]
      BY <1>1 DEF HashTypeOK
    <3>2. \A u, w \in Threads : taken[u] # nullptr =>
              taken[u] \notin todo /\ (taken[u] = taken[w] => u = w)
      BY <1>1 DEF HashTypeOK
    <3>. QED
      BY <1>1, <3>1, <3>2
  <2>. QED
    BY <1>1, <1>2, <2>1, <2>2, <2>3 DEF HashTypeOK
<1>6. ListsIntact'
  <2>1. \A c \in DOMAIN chains : \A i \in 1 .. Len(chains[c]) :
            chains[c][i] # e /\ next'[chains[c][i]] = next[chains[c][i]]
    BY <1>1 DEF LinkedOnce, Waiting, HashTypeOK
  <2>. QED
    BY <1>1, <1>2, <2>1 DEF ListsIntact
<1>7. BucketsMade'
  BY <1>1 DEF BucketsMade
<1>8. LinkedOnce'
  <2>1. \A x : Waiting(x)' => Waiting(x)
    BY <1>1 DEF Waiting, HashTypeOK
  <2>2. \A u \in Threads : taken'[u] # nullptr => taken'[u][1] \notin rest'
    BY <1>1 DEF LinkedOnce, HashTypeOK
  <2>. QED
    BY <1>1, <1>2, <2>1, <2>2 DEF LinkedOnce
<1>. QED
  BY <1>5, <1>6, <1>7, <1>8 DEF ListInvariant

\* A failed compare-and-swap writes the next pointer of an entry in no list.
LEMMA RetrySwapKeepsListInvariant ==
    ASSUME ListInvariant, NEW t \in Threads, RetrySwap(t)
    PROVE  ListInvariant'
<1>. DEFINE e == taken[t]
            b == Bucket(KeyOf(e))
<1>1. /\ HashTypeOK /\ ListsIntact /\ BucketsMade /\ LinkedOnce
      /\ e # nullptr
      /\ next' = [next EXCEPT ![e] = buckets[b]]
      /\ UNCHANGED <<phase, locals, buckets, rest, todo, taken, lookup, chains>>
  BY DEF ListInvariant, RetrySwap, ReloadedHead
<1>2. /\ Entries' = Entries
      /\ \A x : KeyOf(x)' = KeyOf(x)
      /\ \A k : Bucket(k)' = Bucket(k)
  BY <1>1, SameEntries
<1>3. e \in Entries /\ KeyOf(e) \in Keys
  BY <1>1, EntryFacts DEF HashTypeOK
<1>4. buckets[b] \in Entries \cup {nullptr}
  <2>1. PICK n \in 1 .. SizeMod - 1 : DOMAIN buckets = 0 .. n - 1
    BY <1>1 DEF BucketsMade
  <2>2. b \in DOMAIN buckets
    BY <1>3, <2>1, BucketInTable
  <2>. HIDE DEF b
  <2>. QED
    BY <1>1, <2>2 DEF HashTypeOK
<1>. HIDE DEF b
<1>5. HashTypeOK'
  BY <1>1, <1>2, <1>3, <1>4 DEF HashTypeOK
<1>6. ListsIntact'
  <2>1. \A c \in DOMAIN chains : \A i \in 1 .. Len(chains[c]) :
            chains[c][i] # e /\ next'[chains[c][i]] = next[chains[c][i]]
    BY <1>1 DEF LinkedOnce, Waiting, HashTypeOK
  <2>. QED
    BY <1>1, <1>2, <2>1 DEF ListsIntact
<1>7. BucketsMade' /\ LinkedOnce'
  BY <1>1, <1>2 DEF BucketsMade, LinkedOnce, Waiting
<1>. QED
  BY <1>5, <1>6, <1>7 DEF ListInvariant

\* A successful compare-and-swap puts the entry before the list it points to.
LEMMA SwapHeadKeepsListInvariant ==
    ASSUME ListInvariant, NEW t \in Threads, SwapHead(t)
    PROVE  ListInvariant'
<1>. DEFINE e == taken[t]
            b == Bucket(KeyOf(e))
<1>1. /\ HashTypeOK /\ ListsIntact /\ BucketsMade /\ LinkedOnce
      /\ e # nullptr /\ buckets[b] = next[e]
      /\ buckets' = [buckets EXCEPT ![b] = e]
      /\ chains' = [chains EXCEPT ![b] = Append(@, e)]
      /\ taken' = [taken EXCEPT ![t] = nullptr]
      /\ UNCHANGED <<phase, locals, next, rest, todo, lookup>>
  BY DEF ListInvariant, SwapHead, HeadUnchanged
<1>2. /\ Entries' = Entries
      /\ \A x : KeyOf(x)' = KeyOf(x)
      /\ \A k : Bucket(k)' = Bucket(k)
      /\ DOMAIN buckets' = DOMAIN buckets
  BY <1>1, SameEntries
<1>3. e \in Entries /\ KeyOf(e) \in Keys /\ e \in Threads \X Nat
  BY <1>1, EntryFacts DEF HashTypeOK
<1>4. b \in DOMAIN buckets
  <2>1. PICK n \in 1 .. SizeMod - 1 : DOMAIN buckets = 0 .. n - 1
    BY <1>1 DEF BucketsMade
  <2>. QED
    BY <1>3, <2>1, BucketInTable
<1>5. b = Bucket(KeyOf(e))
  OBVIOUS
<1>6. /\ e \notin todo /\ e[1] \notin rest
      /\ \A u \in Threads : taken[u] = e => u = t
  BY <1>1 DEF HashTypeOK, LinkedOnce
<1>7. Waiting(e)
  BY DEF Waiting
<1>. HIDE DEF b
<1>8. /\ chains[b] \in Seq(Threads \X Nat) /\ Len(chains[b]) \in Nat
      /\ chains'[b] = Append(chains[b], e) /\ chains'[b] \in Seq(Threads \X Nat)
      /\ Len(chains'[b]) = Len(chains[b]) + 1
      /\ \A i \in 1 .. Len(chains[b]) : chains'[b][i] = chains[b][i]
      /\ chains'[b][Len(chains[b]) + 1] = e
  <2>1. chains[b] \in Seq(Threads \X Nat) /\ chains'[b] = Append(chains[b], e)
    BY <1>1, <1>4 DEF HashTypeOK
  <2>. QED
    BY <1>3, <2>1, AppendProperties, LenProperties
<1>9. /\ DOMAIN chains' = DOMAIN chains /\ DOMAIN chains = DOMAIN buckets
      /\ \A c \in DOMAIN chains : c # b => chains'[c] = chains[c] /\ buckets'[c] = buckets[c]
      /\ buckets'[b] = e
  BY <1>1, <1>4 DEF HashTypeOK
<1>10. HashTypeOK'
  <2>1. chains' \in [DOMAIN buckets' -> Seq(Threads \X Nat)]
    BY <1>1, <1>2, <1>8, <1>9 DEF HashTypeOK
  <2>2. buckets' \in [DOMAIN buckets' -> Entries \cup {nullptr}]
    BY <1>1, <1>2, <1>3 DEF HashTypeOK
  <2>3. taken' \in [Threads -> Entries \cup {nullptr}]
    BY <1>1 DEF HashTypeOK
  <2>4. \A u, w \in Threads : taken'[u] # nullptr =>
            taken'[u] \notin todo /\ (taken'[u] = taken'[w] => u = w)
    BY <1>1 DEF HashTypeOK
  <2>. QED
    BY <1>1, <1>2, <2>1, <2>2, <2>3, <2>4 DEF HashTypeOK
<1>11. LinkedOnce'
  <2>1. \A x \in Entries : Waiting(x)' => Waiting(x) /\ x # e
    <3>1. \A u \in Threads : taken'[u] = IF u = t THEN nullptr ELSE taken[u]
      BY <1>1 DEF HashTypeOK
    <3>2. \A x \in Entries : x # nullptr
      BY <1>1, EntryFacts DEF HashTypeOK
    <3>3. todo' = todo /\ rest' = rest
      BY <1>1
    <3>4. ASSUME NEW x \in Entries, Waiting(x)'
          PROVE  Waiting(x) /\ x # e
      <4>1. CASE x[1] \in rest \/ x \in todo
        BY <1>6, <4>1 DEF Waiting
      <4>2. CASE \E u \in Threads : taken'[u] = x
        BY <1>6, <3>1, <3>2, <4>2 DEF Waiting
      <4>. QED
        BY <3>3, <3>4, <4>1, <4>2 DEF Waiting
    <3>. QED
      BY <3>4
  <2>2. ASSUME NEW c \in DOMAIN chains', NEW i \in 1 .. Len(chains'[c])
        PROVE  (chains[c][i] \in Entries)' /\ ~ Waiting(chains[c][i])'
    <3>1. CASE c = b /\ i = Len(chains[b]) + 1
      <4>1. PICK x \in Entries : x = e
        BY <1>3
      <4>2. ~ Waiting(x)'
        BY <2>1, <4>1
      <4>3. x = chains'[c][i]
        BY <1>8, <3>1, <4>1
      <4>. QED
        BY <1>2, <4>2, <4>3 DEF Waiting
    <3>2. CASE ~ (c = b /\ i = Len(chains[b]) + 1)
      <4>1. c \in DOMAIN chains /\ i \in 1 .. Len(chains[c]) /\ chains'[c][i] = chains[c][i]
        BY <1>8, <1>9, <3>2
      <4>2. PICK x \in Entries : x = chains[c][i] /\ ~ Waiting(x)
        BY <1>1, <4>1 DEF LinkedOnce
      <4>3. ~ Waiting(x)'
        BY <2>1, <4>2
      <4>4. x = chains'[c][i]
        BY <4>1, <4>2
      <4>. QED
        BY <1>2, <4>2, <4>3, <4>4 DEF Waiting
    <3>. QED
      BY <3>1, <3>2
  <2>3. \A u \in Threads : taken'[u] # nullptr => taken'[u][1] \notin rest
    BY <1>1 DEF LinkedOnce, HashTypeOK
  <2>4. /\ todo' = todo /\ rest' = rest
        /\ \A x \in todo : x[1] \notin rest
    BY <1>1 DEF LinkedOnce
  <2>. QED
    BY <2>2, <2>3, <2>4 DEF LinkedOnce
<1>12. ListsIntact'
  <2>. SUFFICES ASSUME NEW c \in DOMAIN chains'
                PROVE  /\ buckets'[c] = IF chains'[c] = <<>> THEN nullptr ELSE chains'[c][Len(chains'[c])]
                       /\ \A i \in 1 .. Len(chains'[c]) :
                             /\ Bucket(KeyOf(chains'[c][i])) = c
                             /\ next[chains'[c][i]] = IF i = 1 THEN nullptr ELSE chains'[c][i - 1]
                             /\ \A j \in 1 .. Len(chains'[c]) : chains'[c][i] = chains'[c][j] => i = j
    BY <1>1, <1>2 DEF ListsIntact
  <2>1. /\ buckets[c] = IF chains[c] = <<>> THEN nullptr ELSE chains[c][Len(chains[c])]
        /\ \A i \in 1 .. Len(chains[c]) :
              /\ Bucket(KeyOf(chains[c][i])) = c
              /\ next[chains[c][i]] = IF i = 1 THEN nullptr ELSE chains[c][i - 1]
              /\ \A j \in 1 .. Len(chains[c]) : chains[c][i] = chains[c][j] => i = j
    BY <1>1, <1>9 DEF ListsIntact
  <2>2. CASE c # b
    BY <1>9, <2>1, <2>2
  <2>3. CASE c = b
    <3>. DEFINE n == Len(chains[b])
    <3>1. \A i \in 1 .. n : chains[b][i] # e
      BY <1>1, <1>7, <2>3, <1>9 DEF LinkedOnce
    <3>2. next[e] = IF n = 0 THEN nullptr ELSE chains[b][n]
      BY <1>1, <1>8, <2>1, <2>3, EmptySeq
    <3>. HIDE DEF n
    <3>3. /\ n \in Nat /\ Len(chains'[b]) = n + 1
          /\ \A i \in 1 .. n : chains'[b][i] = chains[b][i]
          /\ chains'[b][n + 1] = e
      BY <1>8 DEF n
    <3>4. buckets'[b] = chains'[b][Len(chains'[b])] /\ chains'[b] # <<>>
      <4>1. n + 1 # 0
        BY <3>3
      <4>2. chains'[b] # <<>>
        BY <3>3, <4>1, EmptySeq
      <4>. QED
        BY <1>9, <3>3, <4>2
    <3>5. ASSUME NEW i \in 1 .. n + 1
          PROVE  /\ Bucket(KeyOf(chains'[b][i])) = b
                 /\ next[chains'[b][i]] = IF i = 1 THEN nullptr ELSE chains'[b][i - 1]
                 /\ \A j \in 1 .. n + 1 : chains'[b][i] = chains'[b][j] => i = j
      <4>1. CASE i = n + 1
        <5>1. chains'[b][i] = e
          BY <3>3, <4>1
        <5>2. next[e] = IF i = 1 THEN nullptr ELSE chains'[b][i - 1]
          BY <3>2, <3>3, <4>1
        <5>3. \A j \in 1 .. n + 1 : e = chains'[b][j] => i = j
          BY <3>1, <3>3, <4>1
        <5>. QED
          BY <1>5, <5>1, <5>2, <5>3
      <4>2. CASE i # n + 1
        <5>1. i \in 1 .. n /\ (i # 1 => i - 1 \in 1 .. n)
          BY <3>3, <4>2
        <5>2. chains'[b][i] = chains[b][i] /\ (i # 1 => chains'[b][i - 1] = chains[b][i - 1])
          BY <3>3, <5>1
        <5>3. \A j \in 1 .. n : chains[b][i] = chains[b][j] => i = j
          BY <2>1, <2>3, <5>1 DEF n
        <5>4. \A j \in 1 .. n + 1 : chains[b][i] = chains'[b][j] => i = j
          <6>. SUFFICES ASSUME NEW j \in 1 .. n + 1, chains[b][i] = chains'[b][j]
                        PROVE  i = j
            OBVIOUS
          <6>1. chains[b][i] # e
            BY <3>1, <5>1
          <6>2. j # n + 1
            BY <3>3, <6>1
          <6>3. j \in 1 .. n
            BY <3>3, <6>2
          <6>. QED
            BY <3>3, <5>3, <6>3
        <5>. QED
          BY <2>1, <2>3, <5>1, <5>2, <5>4 DEF n
      <4>. QED
        BY <4>1, <4>2
    <3>. QED
      BY <2>3, <3>3, <3>4, <3>5
  <2>. QED
    BY <2>2, <2>3
<1>13. BucketsMade'
  <2>1. phase \in {"build", "probe"}
    BY <1>1, <1>4 DEF BucketsMade
  <2>. QED
    BY <1>1, <1>2, <2>1 DEF BucketsMade
<1>. QED
  BY <1>10, <1>11, <1>12, <1>13 DEF ListInvariant

-----------------------------------------------------------------------------
\* The end of finalize(), and lookups, leave lists and workers alone.
LEMMA OtherStepsKeepListInvariant ==
    ASSUME ListInvariant,
           \/ EndFinalize
           \/ UNCHANGED <<phase, locals, next, buckets, rest, todo, taken, chains>>
    PROVE  ListInvariant'
<1>1. HashTypeOK /\ ListsIntact /\ BucketsMade /\ LinkedOnce
  BY DEF ListInvariant
<1>2. UNCHANGED <<locals, next, buckets, rest, todo, taken, chains>>
  BY DEF EndFinalize
<1>3. phase' = phase \/ (phase = "build" /\ phase' = "probe")
  BY DEF EndFinalize
<1>4. /\ Entries' = Entries
      /\ \A x : KeyOf(x)' = KeyOf(x)
      /\ \A k : Bucket(k)' = Bucket(k)
  BY <1>2, SameEntries
<1>5. HashTypeOK'
  BY <1>1, <1>2, <1>3, <1>4 DEF HashTypeOK
<1>6. ListsIntact'
  BY <1>1, <1>2, <1>4 DEF ListsIntact
<1>7. BucketsMade'
  BY <1>1, <1>2, <1>3 DEF BucketsMade
<1>8. LinkedOnce'
  BY <1>1, <1>2, <1>4 DEF LinkedOnce, Waiting
<1>. QED
  BY <1>5, <1>6, <1>7, <1>8 DEF ListInvariant

\* What is linked is out of the hands of the workers, whatever step is taken.
LEMMA StepKeepsListInvariant ==
    ASSUME ListInvariant, [HashNext]_hashVars
    PROVE  ListInvariant'
<1>1. ASSUME NEW t \in Threads, NEW k \in Keys, Insert(t, k)
      PROVE  ListInvariant'
  BY <1>1, InsertKeepsListInvariant
<1>2. ASSUME NEW t \in Threads, LinkStep(t)
      PROVE  ListInvariant'
  BY <1>2, LoadHeadKeepsListInvariant, SwapHeadKeepsListInvariant,
     RetrySwapKeepsListInvariant DEF LinkStep
<1>3. CASE Finalize
  BY <1>3, FinalizeKeepsListInvariant
<1>4. ASSUME NEW k \in Keys, EqualRange(k)
      PROVE  ListInvariant'
  BY <1>4, OtherStepsKeepListInvariant DEF EqualRange
<1>5. CASE CallerStep
  <2>1. ASSUME NEW t \in Threads, BeginRange(t)
        PROVE  ListInvariant'
    BY <2>1, BeginRangeKeepsListInvariant
  <2>2. CASE EndFinalize
    BY <2>2, OtherStepsKeepListInvariant
  <2>3. CASE Visit \/ EndLookup
    BY <2>3, OtherStepsKeepListInvariant DEF Visit, EndLookup
  <2>. QED
    BY <1>5, <2>1, <2>2, <2>3 DEF CallerStep
<1>6. CASE UNCHANGED hashVars
  BY <1>6, OtherStepsKeepListInvariant DEF hashVars
<1>. QED
  BY <1>1, <1>2, <1>3, <1>4, <1>5, <1>6 DEF HashNext

-----------------------------------------------------------------------------
(* Every entry is linked in the end, and lookups pass them all. *)

\* What appending to a list adds to its elements.
LEMMA SetOfAppend ==
    ASSUME NEW S, NEW s \in Seq(S), NEW x
    PROVE  ToSet(Append(s, x)) = ToSet(s) \cup {x}
<1>1. /\ Len(s) \in Nat /\ DOMAIN s = 1 .. Len(s) /\ DOMAIN Append(s, x) = 1 .. Len(s) + 1
      /\ \A i \in 1 .. Len(s) : Append(s, x)[i] = s[i]
      /\ Append(s, x)[Len(s) + 1] = x
  OBVIOUS
<1>2. \A i : i \in 1 .. Len(s) + 1 <=> i \in 1 .. Len(s) \/ i = Len(s) + 1
  BY <1>1
<1>. QED
  BY <1>1, <1>2 DEF ToSet

\* The list of a key is that of a bucket of the table.
LEMMA ListOfKey ==
    ASSUME ListInvariant, phase \in {"build", "probe"}, NEW k \in Keys
    PROVE  Bucket(k) \in DOMAIN chains /\ DOMAIN chains = DOMAIN buckets
<1>1. PICK n \in 1 .. SizeMod - 1 : DOMAIN buckets = 0 .. n - 1
  BY DEF ListInvariant, BucketsMade
<1>. QED
  BY <1>1, BucketInTable DEF ListInvariant, HashTypeOK

\* A worker that has or takes an entry is in a finalize() that has not ended.
LEMMA WorkersBuild ==
    ASSUME ListInvariant, EntriesPlaced, NEW t \in Threads, LinkStep(t)
    PROVE  phase = "build" /\ phase' = "build" /\ UNCHANGED <<locals, rest, lookup>>
           /\ DOMAIN buckets' = DOMAIN buckets
<1>1. todo # {} \/ taken[t] # nullptr
  BY DEF LinkStep, LoadHead, SwapHead, RetrySwap
<1>2. phase = "build"
  BY <1>1 DEF ListInvariant, BucketsMade, EntriesPlaced, RangeDone
<1>. QED
  BY <1>2 DEF LinkStep, LoadHead, SwapHead, RetrySwap

\* From waiting for its vector an entry goes to the range, to a worker and to its
\* list, and nowhere else.
LEMMA StepKeepsPlaced ==
    ASSUME ListInvariant, EntriesPlaced, [HashNext]_hashVars
    PROVE  EntriesPlaced'
<1>. USE DEF ListInvariant
<1>1. ASSUME NEW t \in Threads, NEW k \in Keys, Insert(t, k)
      PROVE  EntriesPlaced'
  BY <1>1 DEF Insert, EntriesPlaced
<1>2. CASE Finalize
  <2>1. UNCHANGED locals /\ phase' # "probe" /\ (phase' = "build" => rest' = Threads)
    BY <1>2 DEF Finalize
  <2>2. \A e \in Entries' : e[1] \in Threads
    BY <2>1, EntryFacts, SameEntries DEF HashTypeOK
  <2>. QED
    BY <2>1, <2>2 DEF EntriesPlaced, Waiting
<1>3. ASSUME NEW t \in Threads, BeginRange(t)
      PROVE  EntriesPlaced'
  <2>1. /\ phase = "build" /\ phase' = "build"
        /\ UNCHANGED <<locals, buckets, taken, chains>> /\ todo = {}
        /\ rest' = rest \ {t} /\ todo' = {e \in Entries : e[1] = t}
    BY <1>3 DEF BeginRange, RangeDone
  <2>2. Entries' = Entries /\ \A e : KeyOf(e)' = KeyOf(e) /\ Bucket(KeyOf(e))' = Bucket(KeyOf(e))
    BY <2>1, SameEntries
  <2>3. ASSUME NEW e \in Entries, Waiting(e) PROVE Waiting(e)'
    BY <2>1, <2>3 DEF Waiting
  <2>. QED
    BY <2>1, <2>2, <2>3 DEF EntriesPlaced
<1>4. ASSUME NEW t \in Threads, LinkStep(t)
      PROVE  EntriesPlaced'
  <2>1. /\ phase = "build" /\ phase' = "build" /\ UNCHANGED <<locals, rest>>
        /\ DOMAIN buckets' = DOMAIN buckets
    BY <1>4, WorkersBuild
  <2>2. /\ Entries' = Entries /\ \A e : KeyOf(e)' = KeyOf(e)
        /\ \A k : Bucket(k)' = Bucket(k)
    BY <2>1, SameEntries
  <2>. SUFFICES ASSUME NEW e \in Entries
                PROVE  Waiting(e)' \/ e \in ToSet(chains'[Bucket(KeyOf(e))])
    BY <2>1, <2>2 DEF EntriesPlaced
  <2>3. Waiting(e) \/ e \in ToSet(chains[Bucket(KeyOf(e))])
    BY <2>1 DEF EntriesPlaced
  <2>4. ASSUME NEW x \in Entries, LoadHead(t, x)
        PROVE  Waiting(e)' \/ e \in ToSet(chains'[Bucket(KeyOf(e))])
    <3>1. /\ todo' = todo \ {x} /\ taken' = [taken EXCEPT ![t] = x]
          /\ UNCHANGED <<rest, chains>> /\ taken[t] = nullptr
      BY <2>4 DEF LoadHead, Remaining
    <3>2. taken'[t] = x /\ \A u \in Threads \ {t} : taken'[u] = taken[u]
      BY <3>1 DEF HashTypeOK
    <3>3. ASSUME Waiting(e) PROVE Waiting(e)'
      <4>1. taken[t] # e
        BY <3>1, EntryFacts DEF HashTypeOK
      <4>. QED
        BY <3>1, <3>2, <3>3, <4>1 DEF Waiting
    <3>. QED
      BY <2>3, <3>1, <3>3
  <2>5. ASSUME SwapHead(t)
        PROVE  Waiting(e)' \/ e \in ToSet(chains'[Bucket(KeyOf(e))])
    <3>. DEFINE x == taken[t]
                b == Bucket(KeyOf(x))
    <3>1. /\ x # nullptr /\ chains' = [chains EXCEPT ![b] = Append(@, x)]
          /\ taken' = [taken EXCEPT ![t] = nullptr] /\ UNCHANGED <<rest, todo>>
      BY <2>5 DEF SwapHead
    <3>2. x \in Entries /\ KeyOf(x) \in Keys /\ x \in Threads \X Nat
      BY <3>1, EntryFacts DEF HashTypeOK
    <3>3. b \in DOMAIN chains
      BY <2>1, <3>2, ListOfKey
    <3>4. /\ chains[b] \in Seq(Threads \X Nat) /\ chains'[b] = Append(chains[b], x)
          /\ \A c \in DOMAIN chains : c # b => chains'[c] = chains[c]
      BY <3>1, <3>3 DEF HashTypeOK
    <3>. HIDE DEF b, x
    <3>5. /\ \A c \in DOMAIN chains : ToSet(chains[c]) \subseteq ToSet(chains'[c])
          /\ x \in ToSet(chains'[b])
      <4>1. /\ DOMAIN chains[b] \subseteq DOMAIN chains'[b]
            /\ \A i \in DOMAIN chains[b] : chains'[b][i] = chains[b][i]
            /\ Len(chains[b]) + 1 \in DOMAIN chains'[b] /\ chains'[b][Len(chains[b]) + 1] = x
        BY <3>2, <3>4
      <4>2. ToSet(chains[b]) \subseteq ToSet(chains'[b]) /\ x \in ToSet(chains'[b])
        BY <4>1 DEF ToSet
      <4>. QED
        BY <3>4, <4>2
    <3>6. CASE e = x
      BY <3>5, <3>6 DEF b
    <3>7. CASE e # x /\ Waiting(e)
      <4>1. \A u \in Threads : taken[u] = e => taken'[u] = e
        BY <3>1, <3>7 DEF HashTypeOK, x
      <4>. QED
        BY <3>1, <3>7, <4>1 DEF Waiting
    <3>8. CASE e \in ToSet(chains[Bucket(KeyOf(e))])
      <4>1. Bucket(KeyOf(e)) \in DOMAIN chains
        BY <2>1, EntryFacts, ListOfKey DEF HashTypeOK
      <4>. QED
        BY <3>5, <3>8, <4>1
    <3>. QED
      BY <2>3, <3>6, <3>7, <3>8
  <2>6. ASSUME RetrySwap(t)
        PROVE  Waiting(e)' \/ e \in ToSet(chains'[Bucket(KeyOf(e))])
    BY <2>3, <2>6 DEF RetrySwap, Waiting
  <2>. QED
    BY <1>4, <2>4, <2>5, <2>6 DEF LinkStep
<1>5. CASE UNCHANGED <<locals, buckets, rest, todo, taken, chains>> /\ (UNCHANGED phase \/ EndFinalize)
  <2>1. Entries' = Entries /\ \A e : KeyOf(e)' = KeyOf(e) /\ Bucket(KeyOf(e))' = Bucket(KeyOf(e))
    BY <1>5, SameEntries
  <2>2. \A e \in Entries : Waiting(e)' <=> Waiting(e)
    BY <1>5 DEF Waiting
  <2>3. RangeDone' <=> RangeDone
    BY <1>5 DEF RangeDone
  <2>4. phase' = phase \/ (phase = "build" /\ rest = {} /\ RangeDone)
    BY <1>5 DEF EndFinalize
  <2>. QED
    BY <1>5, <2>1, <2>2, <2>3, <2>4 DEF EntriesPlaced, EndFinalize
<1>. QED
  BY <1>1, <1>2, <1>3, <1>4, <1>5 DEF HashNext, CallerStep, EndFinalize, EqualRange, Visit, EndLookup, hashVars

\* Where a lookup is, and what its next entry is.
LEMMA LookupFacts ==
    ASSUME ListInvariant, LookupOnItsWay, NEW l \in lookup
    PROVE  /\ phase = "probe" /\ lookup = {l}
           /\ l \in [key : Keys, ptr : Entries \cup {nullptr}, found : Seq(Entries)]
           /\ chains[Bucket(l.key)] \in Seq(Threads \X Nat)
           /\ \E n \in 0 .. Len(chains[Bucket(l.key)]) :
                 /\ l.ptr = IF n = 0 THEN nullptr ELSE chains[Bucket(l.key)][n]
                 /\ ToSet(l.found) = FoundBehind(l.key, n)
                 /\ n = 0 <=> l.ptr = nullptr
<1>1. phase = "probe" /\ lookup = {l}
      /\ l \in [key : Keys, ptr : Entries \cup {nullptr}, found : Seq(Entries)]
      /\ \E n \in 0 .. Len(chains[Bucket(l.key)]) :
            /\ l.ptr = IF n = 0 THEN nullptr ELSE chains[Bucket(l.key)][n]
            /\ ToSet(l.found) = FoundBehind(l.key, n)
  <2>1. PICK x \in lookup :
          /\ phase = "probe" /\ lookup = {x}
          /\ x \in [key : Keys, ptr : Entries \cup {nullptr}, found : Seq(Entries)]
          /\ \E n \in 0 .. Len(chains[Bucket(x.key)]) :
                /\ x.ptr = IF n = 0 THEN nullptr ELSE chains[Bucket(x.key)][n]
                /\ ToSet(x.found) = FoundBehind(x.key, n)
    BY DEF LookupOnItsWay
  <2>2. x = l
    BY <2>1
  <2>. QED
    BY <2>1, <2>2
<1>2. PICK n \in 0 .. Len(chains[Bucket(l.key)]) :
        /\ l.ptr = IF n = 0 THEN nullptr ELSE chains[Bucket(l.key)][n]
        /\ ToSet(l.found) = FoundBehind(l.key, n)
  BY <1>1
<1>3. Bucket(l.key) \in DOMAIN chains /\ chains[Bucket(l.key)] \in Seq(Threads \X Nat)
  BY <1>1, ListOfKey DEF ListInvariant, HashTypeOK
<1>4. n # 0 => chains[Bucket(l.key)][n] \in Entries
  BY <1>3 DEF ListInvariant, LinkedOnce
<1>5. n = 0 <=> l.ptr = nullptr
  BY <1>2, <1>4, EntryFacts DEF ListInvariant, HashTypeOK
<1>. QED
  BY <1>1, <1>2, <1>3, <1>5

\* The iterator goes to the entry that was linked before, and passes one entry,
\* which it has not found yet.
LEMMA VisitFacts ==
    ASSUME ListInvariant, LookupOnItsWay, NEW l \in lookup, l.ptr # nullptr
    PROVE  \E n \in 1 .. Len(chains[Bucket(l.key)]) :
              /\ l.ptr = chains[Bucket(l.key)][n] /\ l.ptr \in Entries
              /\ next[l.ptr] = IF n - 1 = 0 THEN nullptr ELSE chains[Bucket(l.key)][n - 1]
              /\ next[l.ptr] \in Entries \cup {nullptr}
              /\ ToSet(l.found) = FoundBehind(l.key, n)
              /\ l.ptr \notin ToSet(l.found)
              /\ FoundBehind(l.key, n - 1) = FoundBehind(l.key, n) \cup
                     (IF KeyOf(l.ptr) = l.key THEN {l.ptr} ELSE {})
<1>. DEFINE b == Bucket(l.key)
            c == chains[b]
<1>1. /\ c \in Seq(Threads \X Nat) /\ phase = "probe"
      /\ l \in [key : Keys, ptr : Entries \cup {nullptr}, found : Seq(Entries)]
  BY LookupFacts
<1>2. PICK n \in 0 .. Len(c) :
        /\ l.ptr = IF n = 0 THEN nullptr ELSE c[n]
        /\ ToSet(l.found) = FoundBehind(l.key, n)
        /\ n = 0 <=> l.ptr = nullptr
  BY LookupFacts
<1>3. n \in 1 .. Len(c) /\ n \in Nat /\ Len(c) \in Nat /\ n <= Len(c) /\ n > 0
  BY <1>1, <1>2
<1>4. b \in DOMAIN chains
  BY <1>1, ListOfKey
<1>5. /\ next[c[n]] = IF n = 1 THEN nullptr ELSE c[n - 1]
      /\ \A j \in 1 .. Len(c) : c[n] = c[j] => n = j
  BY <1>3, <1>4 DEF ListInvariant, ListsIntact
<1>6. l.ptr \in Entries /\ next[l.ptr] \in Entries \cup {nullptr} /\ l.ptr = c[n]
  BY <1>1, <1>2, <1>3 DEF ListInvariant, HashTypeOK
<1>. HIDE DEF c, b
<1>7. FoundBehind(l.key, n) = {c[i] : i \in {i \in n + 1 .. Len(c) : KeyOf(c[i]) = l.key}}
      /\ FoundBehind(l.key, n - 1) = {c[i] : i \in {i \in n - 1 + 1 .. Len(c) : KeyOf(c[i]) = l.key}}
  BY DEF FoundBehind, c, b
<1>8. c[n] \notin FoundBehind(l.key, n)
  BY <1>3, <1>5, <1>7
<1>9. FoundBehind(l.key, n - 1) = FoundBehind(l.key, n) \cup (IF KeyOf(c[n]) = l.key THEN {c[n]} ELSE {})
  <2>1. \A i : i \in n - 1 + 1 .. Len(c) <=> i = n \/ i \in n + 1 .. Len(c)
    BY <1>3
  <2>2. ASSUME NEW x \in FoundBehind(l.key, n - 1)
        PROVE  x \in FoundBehind(l.key, n) \/ (x = c[n] /\ KeyOf(c[n]) = l.key)
    BY <1>7, <2>1
  <2>3. ASSUME NEW x \in FoundBehind(l.key, n) PROVE x \in FoundBehind(l.key, n - 1)
    BY <1>7, <2>1
  <2>4. KeyOf(c[n]) = l.key => c[n] \in FoundBehind(l.key, n - 1)
    BY <1>7, <2>1
  <2>. QED
    BY <2>2, <2>3, <2>4
<1>10. next[l.ptr] = IF n - 1 = 0 THEN nullptr ELSE c[n - 1]
  BY <1>3, <1>5, <1>6
<1>. QED
  BY <1>2, <1>3, <1>6, <1>8, <1>9, <1>10 DEF c, b

\* A lookup is on its way when it is at an entry of the list of its key and has
\* found what is behind it, in lists that nobody changes.
LEMMA LookupArrives ==
    ASSUME UNCHANGED <<phase, locals, buckets, chains>>, phase = "probe",
           NEW m \in [key : Keys, ptr : Entries \cup {nullptr}, found : Seq(Entries)],
           lookup' = {m},
           NEW n \in 0 .. Len(chains[Bucket(m.key)]),
           m.ptr = IF n = 0 THEN nullptr ELSE chains[Bucket(m.key)][n],
           ToSet(m.found) = FoundBehind(m.key, n)
    PROVE  LookupOnItsWay'
<1>1. Entries' = Entries /\ \A e : KeyOf(e)' = KeyOf(e) /\ Bucket(e)' = Bucket(e)
  BY SameEntries
<1>2. \A k, i : FoundBehind(k, i)' = FoundBehind(k, i)
  BY <1>1 DEF FoundBehind
<1>3. FoundBehind(m.key, n)' = FoundBehind(m.key, n) /\ Bucket(m.key)' = Bucket(m.key)
  BY <1>1, <1>2
<1>4. /\ m \in [key : Keys, ptr : Entries' \cup {nullptr}, found : Seq(Entries')]
      /\ n \in 0 .. Len(chains'[Bucket(m.key)'])
      /\ m.ptr = IF n = 0 THEN nullptr ELSE chains'[Bucket(m.key)'][n]
      /\ ToSet(m.found) = FoundBehind(m.key, n)'
  BY <1>1, <1>3
<1>. QED
  BY <1>4 DEF LookupOnItsWay

\* Lookups begin at the head, go on along the next pointers and end behind the
\* entry that was linked first.
LEMMA StepKeepsLookup ==
    ASSUME ListInvariant, ListInvariant', EntriesPlaced, LookupOnItsWay, [HashNext]_hashVars
    PROVE  LookupOnItsWay'
<1>1. CASE lookup' = {}
  BY <1>1 DEF LookupOnItsWay
<1>2. CASE lookup' # {} /\ UNCHANGED lookup
  <2>1. UNCHANGED <<phase, locals, buckets, chains>>
    <3>1. phase = "probe"
      BY <1>2 DEF LookupOnItsWay
    <3>2. ASSUME NEW t \in Threads PROVE ~ LinkStep(t)
      BY <3>1, WorkersBuild
    <3>. QED
      BY <3>1, <3>2 DEF HashNext, Insert, Finalize, CallerStep, BeginRange, EndFinalize, EqualRange,
                        Visit, EndLookup, hashVars
  <2>2. PICK l \in lookup : TRUE
    BY <1>2
  <2>3. /\ phase = "probe" /\ lookup' = {l}
        /\ l \in [key : Keys, ptr : Entries \cup {nullptr}, found : Seq(Entries)]
        /\ \E n \in 0 .. Len(chains[Bucket(l.key)]) :
              /\ l.ptr = IF n = 0 THEN nullptr ELSE chains[Bucket(l.key)][n]
              /\ ToSet(l.found) = FoundBehind(l.key, n)
    BY <1>2, <2>2, LookupFacts
  <2>. QED
    BY <2>1, <2>3, LookupArrives
<1>3. ASSUME NEW k \in Keys, EqualRange(k) PROVE LookupOnItsWay'
  <2>1. PICK m : m = [key |-> k, ptr |-> buckets[Bucket(k)], found |-> <<>>]
    OBVIOUS
  <2>2. /\ phase = "probe" /\ lookup' = {m}
        /\ UNCHANGED <<phase, locals, next, buckets, chains>>
    BY <1>3, <2>1 DEF EqualRange
  <2>3. /\ Bucket(k) \in DOMAIN chains /\ Bucket(k) \in DOMAIN buckets
        /\ chains[Bucket(k)] \in Seq(Threads \X Nat)
    BY <2>2, ListOfKey DEF ListInvariant, HashTypeOK
  <2>4. buckets[Bucket(k)] = IF chains[Bucket(k)] = <<>> THEN nullptr
                             ELSE chains[Bucket(k)][Len(chains[Bucket(k)])]
    BY <2>3 DEF ListInvariant, ListsIntact
  <2>5. m \in [key : Keys, ptr : Entries \cup {nullptr}, found : Seq(Entries)]
    BY <2>1, <2>3 DEF ListInvariant, HashTypeOK
  <2>6. PICK n : n = Len(chains[Bucket(k)])
    OBVIOUS
  <2>7. /\ n \in 0 .. Len(chains[Bucket(k)])
        /\ m.ptr = IF n = 0 THEN nullptr ELSE chains[Bucket(k)][n]
        /\ m.key = k
    BY <2>1, <2>3, <2>4, <2>6
  <2>8. ToSet(m.found) = {}
    BY <2>1 DEF ToSet
  <2>9. FoundBehind(k, n) = {}
    <3>1. \A i : i \notin n + 1 .. Len(chains[Bucket(k)])
      BY <2>3, <2>6
    <3>. QED
      BY <3>1 DEF FoundBehind
  <2>. QED
    BY <2>2, <2>5, <2>7, <2>8, <2>9, LookupArrives
<1>4. CASE Visit
  <2>1. PICK l \in lookup :
          /\ l.ptr # nullptr
          /\ lookup' = {[key |-> l.key, ptr |-> next[l.ptr],
                         found |-> IF KeyOf(l.ptr) = l.key THEN Append(l.found, l.ptr) ELSE l.found]}
    BY <1>4 DEF Visit, Step
  <2>2. PICK m : m = [key |-> l.key, ptr |-> next[l.ptr],
                      found |-> IF KeyOf(l.ptr) = l.key THEN Append(l.found, l.ptr) ELSE l.found]
    OBVIOUS
  <2>3. UNCHANGED <<phase, locals, next, buckets, chains>>
    BY <1>4 DEF Visit
  <2>4. /\ phase = "probe" /\ chains[Bucket(l.key)] \in Seq(Threads \X Nat)
        /\ l \in [key : Keys, ptr : Entries \cup {nullptr}, found : Seq(Entries)]
    BY LookupFacts
  <2>5. PICK n \in 1 .. Len(chains[Bucket(l.key)]) :
          /\ l.ptr = chains[Bucket(l.key)][n] /\ l.ptr \in Entries
          /\ next[l.ptr] = IF n - 1 = 0 THEN nullptr ELSE chains[Bucket(l.key)][n - 1]
          /\ next[l.ptr] \in Entries \cup {nullptr}
          /\ ToSet(l.found) = FoundBehind(l.key, n)
          /\ FoundBehind(l.key, n - 1) = FoundBehind(l.key, n) \cup
                 (IF KeyOf(l.ptr) = l.key THEN {l.ptr} ELSE {})
    BY <2>1, VisitFacts
  <2>6. n - 1 \in 0 .. Len(chains[Bucket(l.key)])
    BY <2>4, <2>5
  <2>7. m \in [key : Keys, ptr : Entries \cup {nullptr}, found : Seq(Entries)]
    BY <2>2, <2>4, <2>5
  <2>8. ToSet(m.found) = ToSet(l.found) \cup (IF KeyOf(l.ptr) = l.key THEN {l.ptr} ELSE {})
    <3>1. ToSet(Append(l.found, l.ptr)) = ToSet(l.found) \cup {l.ptr}
      BY <2>4, <2>5, SetOfAppend
    <3>. QED
      BY <2>2, <3>1
  <2>9. m.key = l.key /\ m.ptr = next[l.ptr] /\ lookup' = {m}
    BY <2>1, <2>2
  <2>10. ToSet(m.found) = FoundBehind(m.key, n - 1)
    BY <2>5, <2>8, <2>9
  <2>11. PICK i : i = n - 1
    OBVIOUS
  <2>12. /\ i \in 0 .. Len(chains[Bucket(m.key)])
         /\ m.ptr = IF i = 0 THEN nullptr ELSE chains[Bucket(m.key)][i]
         /\ ToSet(m.found) = FoundBehind(m.key, i)
    BY <2>5, <2>6, <2>9, <2>10, <2>11
  <2>. QED
    BY <2>3, <2>4, <2>7, <2>9, <2>12, LookupArrives
<1>5. CASE EndLookup
  BY <1>1, <1>5 DEF EndLookup
<1>. QED
  BY <1>1, <1>2, <1>3, <1>4, <1>5 DEF HashNext, Insert, Finalize, CallerStep, BeginRange, EndFinalize,
                        LinkStep, LoadHead, SwapHead, RetrySwap, hashVars

\* The invariant of the hash table: for any number of threads, keys and entries,
\* what is linked is out of the hands of the workers of finalize(), nothing stays
\* unlinked, and lookups are on their way along whole lists.
THEOREM HashInvariantHolds == HashSpec => []HashInvariant
<1>1. InitHashTable => HashInvariant
  BY InitEstablishesListInvariant DEF InitHashTable, HashInvariant, EntriesPlaced, LookupOnItsWay
<1>2. HashInvariant /\ [HashNext]_hashVars => HashInvariant'
  BY StepKeepsListInvariant, StepKeepsPlaced, StepKeepsLookup DEF HashInvariant
<1>. QED
  BY <1>1, <1>2, PTL DEF HashSpec

\* The vectors, pointers, ranges and workers keep their shapes, and no two workers
\* have the same entry.
THEOREM HashTypes == HashSpec => []HashTypeOK
<1>1. HashInvariant => HashTypeOK
  BY DEF HashInvariant, ListInvariant
<1>. QED
  BY <1>1, HashInvariantHolds, PTL

\* However many threads prepend to the lists at once, the compare-and-swap loop of
\* finalize() keeps every list whole: no entry is lost, doubled or misplaced.
THEOREM NoEntryIsLost == HashSpec => []ListsIntact
<1>1. HashInvariant => ListsIntact
  BY DEF HashInvariant, ListInvariant
<1>. QED
  BY <1>1, HashInvariantHolds, PTL

\* The vectors stay within the bound on the entries.
LEMMA VectorFits ==
    ASSUME HashTypeOK, NEW t \in Threads
    PROVE  Len(locals[t]) \in Nat /\ Len(locals[t]) <= TotalEntryCount /\ TotalEntryCount \in Nat
<1>. DEFINE I == 1 .. Len(locals[t])
            g == [i \in I |-> <<t, i>>]
<1>1. IsFiniteSet(Entries) /\ TotalEntryCount \in Nat
  BY EntriesFinite, FS_CardinalityType DEF HashTypeOK, TotalEntryCount
<1>2. Len(locals[t]) \in Nat
  BY DEF HashTypeOK
<1>3. g \in Injection(I, Entries)
  <2>1. g \in [I -> Entries]
    BY DEF Entries
  <2>2. IsInjective(g)
    BY DEF IsInjective
  <2>. QED
    BY <2>1, <2>2 DEF Injection
<1>4. Cardinality(I) = Len(locals[t])
  BY <1>2, FS_Interval
<1>. QED
  BY <1>1, <1>2, <1>3, <1>4, FS_Injection DEF TotalEntryCount

\* What the multimap sees of a lookup.
LEMMA GivenFacts ==
    ASSUME NEW l
    PROVE  lookup = {l} => (IF lookup = {} THEN <<>> ELSE (CHOOSE x \in lookup : TRUE).found) = l.found
<1>1. SUFFICES ASSUME lookup = {l} PROVE (CHOOSE x \in lookup : TRUE) = l
  OBVIOUS
<1>. QED
  BY <1>1

\* An insertion adds an entry to the multimap.
LEMMA InsertAdds ==
    ASSUME HashTypeOK, NEW t \in Threads, NEW k \in Keys, Insert(t, k)
    PROVE  \E id \in Threads \X (1 .. MaxEntries) : Map!Add(id, k)
<1>1. PICK id : id = <<t, Len(locals[t]) + 1>>
  OBVIOUS
<1>2. /\ phase = "gather" /\ phase' = "gather" /\ UNCHANGED lookup
      /\ TotalEntryCount < MaxEntries
  BY DEF Insert
<1>3. id \in Threads \X (1 .. MaxEntries)
  BY <1>1, <1>2, VectorFits, HashTableAssumption
<1>4. /\ Entries' = Entries \cup {id} /\ id \notin Entries
      /\ \A e \in Entries : KeyOf(e)' = KeyOf(e)
      /\ KeyOf(id)' = k
  BY <1>1, InsertedEntries DEF HashTypeOK, Insert, KeyOf
<1>5. [e \in Entries |-> KeyOf(e)]' = [i \in Entries \cup {id} |->
          IF i = id THEN k ELSE [e \in Entries |-> KeyOf(e)][i]]
  BY <1>4
<1>6. Map!Add(id, k)
  BY <1>2, <1>4, <1>5 DEF Map!Add
<1>. QED
  BY <1>3, <1>6

\* A step that leaves vectors and lookups alone and stays on one side of sealing is
\* not seen by the multimap.
LEMMA UnseenSteps ==
    ASSUME UNCHANGED <<locals, lookup>>,
           phase' = phase \/ (phase = "gather" /\ phase' = "failed")
    PROVE  UNCHANGED Map!mapVars
<1>1. [e \in Entries |-> KeyOf(e)]' = [e \in Entries |-> KeyOf(e)]
  BY SameEntries
<1>. QED
  BY <1>1 DEF Map!mapVars

\* A step of finalize() begins to seal the multimap, or is not seen by it.
LEMMA FinalizeSeals ==
    ASSUME Finalize
    PROVE  [Map!MapNext]_(Map!mapVars)
<1>1. /\ phase = "gather" /\ phase' \in {"build", "failed"} /\ UNCHANGED <<locals, lookup>>
  BY DEF Finalize
<1>2. CASE phase' = "build"
  <2>1. [e \in Entries |-> KeyOf(e)]' = [e \in Entries |-> KeyOf(e)]
    BY <1>1, SameEntries
  <2>2. Map!BeginSeal
    BY <1>1, <1>2, <2>1 DEF Map!BeginSeal
  <2>. QED
    BY <2>2 DEF Map!MapNext
<1>. QED
  BY <1>1, <1>2, UnseenSteps

\* The steps of a lookup are those of an iteration over the entries of its key.
LEMMA LookupIterates ==
    ASSUME HashInvariant, (\E k \in Keys : EqualRange(k)) \/ Visit \/ EndLookup
    PROVE  [Map!MapNext]_(Map!mapVars)
<1>1. UNCHANGED <<phase, locals>>
  BY DEF EqualRange, Visit, EndLookup
<1>2. [e \in Entries |-> KeyOf(e)]' = [e \in Entries |-> KeyOf(e)]
  BY <1>1, SameEntries
<1>3. ASSUME NEW k \in Keys, EqualRange(k)
      PROVE  [Map!MapNext]_(Map!mapVars)
  <2>1. PICK m : m = [key |-> k, ptr |-> buckets[Bucket(k)], found |-> <<>>]
    OBVIOUS
  <2>2. phase = "probe" /\ lookup = {} /\ lookup' = {m} /\ m.key = k /\ m.found = <<>>
    BY <1>3, <2>1 DEF EqualRange
  <2>3. (CHOOSE x \in lookup' : TRUE) = m
    BY <2>2
  <2>4. {l.key : l \in lookup'} = {k} /\ {l.key : l \in lookup} = {}
    BY <2>2
  <2>5. Map!Ask(k)
    BY <1>1, <1>2, <2>2, <2>3, <2>4 DEF Map!Ask
  <2>. QED
    BY <2>5 DEF Map!MapNext
<1>4. CASE Visit
  <2>1. PICK l \in lookup :
          /\ l.ptr # nullptr
          /\ lookup' = {[key |-> l.key, ptr |-> next[l.ptr],
                         found |-> IF KeyOf(l.ptr) = l.key THEN Append(l.found, l.ptr) ELSE l.found]}
    BY <1>4 DEF Visit, Step
  <2>2. PICK m : m = [key |-> l.key, ptr |-> next[l.ptr],
                      found |-> IF KeyOf(l.ptr) = l.key THEN Append(l.found, l.ptr) ELSE l.found]
    OBVIOUS
  <2>3. lookup = {l} /\ lookup' = {m} /\ m.key = l.key
    BY <2>1, <2>2, LookupFacts DEF HashInvariant
  <2>4. l.ptr \in Entries /\ l.ptr \notin ToSet(l.found)
    BY <2>1, VisitFacts DEF HashInvariant
  <2>5. (CHOOSE x \in lookup : TRUE) = l /\ (CHOOSE x \in lookup' : TRUE) = m
    BY <2>3
  <2>6. {x.key : x \in lookup'} = {l.key} /\ {x.key : x \in lookup} = {l.key}
    BY <2>3
  <2>7. CASE KeyOf(l.ptr) = l.key
    <3>1. m.found = Append(l.found, l.ptr)
      BY <2>2, <2>7
    <3>2. l.ptr \in Map!Entries(l.key)
      BY <2>4, <2>7 DEF Map!Entries
    <3>3. Map!ToSet(l.found) = ToSet(l.found)
      BY DEF Map!ToSet, ToSet
    <3>4. Map!Give
      BY <1>1, <1>2, <2>3, <2>4, <2>5, <2>6, <3>1, <3>2, <3>3 DEF Map!Give
    <3>. QED
      BY <3>4 DEF Map!MapNext
  <2>8. CASE KeyOf(l.ptr) # l.key
    <3>1. m.found = l.found
      BY <2>2, <2>8
    <3>. QED
      BY <1>1, <1>2, <2>3, <2>5, <2>6, <3>1 DEF Map!mapVars
  <2>. QED
    BY <2>7, <2>8
<1>5. CASE EndLookup
  <2>1. PICK l \in lookup : l.ptr = nullptr
    BY <1>5 DEF EndLookup
  <2>2. lookup' = {}
    BY <1>5 DEF EndLookup
  <2>3. /\ lookup = {l} /\ phase = "probe" /\ l.key \in Keys
        /\ chains[Bucket(l.key)] \in Seq(Threads \X Nat)
    BY <2>1, LookupFacts DEF HashInvariant
  <2>4. ToSet(l.found) = FoundBehind(l.key, 0)
    BY <2>1, LookupFacts DEF HashInvariant
  <2>5. FoundBehind(l.key, 0) = {e \in Entries : KeyOf(e) = l.key}
    <3>1. PICK c : c = chains[Bucket(l.key)]
      OBVIOUS
    <3>2. c \in Seq(Threads \X Nat) /\ DOMAIN c = 0 + 1 .. Len(c)
      BY <2>3, <3>1
    <3>3. FoundBehind(l.key, 0) = {c[i] : i \in {i \in DOMAIN c : KeyOf(c[i]) = l.key}}
      BY <3>1, <3>2 DEF FoundBehind
    <3>4. \A i \in DOMAIN c : c[i] \in Entries
      <4>1. Bucket(l.key) \in DOMAIN chains
        BY <2>3, ListOfKey DEF HashInvariant
      <4>. QED
        BY <3>1, <3>2, <4>1 DEF HashInvariant, ListInvariant, LinkedOnce
    <3>5. ASSUME NEW e \in Entries, KeyOf(e) = l.key
          PROVE  \E i \in DOMAIN c : c[i] = e
      <4>1. rest = {} /\ todo = {} /\ \A t \in Threads : taken[t] = nullptr
        BY <2>3 DEF HashInvariant, EntriesPlaced, RangeDone
      <4>2. e # nullptr
        BY EntryFacts DEF HashInvariant, ListInvariant, HashTypeOK
      <4>3. ~ Waiting(e)
        BY <4>1, <4>2 DEF Waiting
      <4>4. e \in ToSet(c)
        BY <2>3, <3>1, <3>5, <4>3 DEF HashInvariant, EntriesPlaced
      <4>. QED
        BY <4>4 DEF ToSet
    <3>. QED
      BY <3>3, <3>4, <3>5
  <2>6. Map!ToSet(l.found) = ToSet(l.found)
    BY DEF Map!ToSet, ToSet
  <2>7. Map!Entries(l.key) = {e \in Entries : KeyOf(e) = l.key}
    BY DEF Map!Entries
  <2>8. (CHOOSE x \in lookup : TRUE) = l /\ {x.key : x \in lookup} = {l.key} /\ {x.key : x \in lookup'} = {}
    BY <2>2, <2>3
  <2>9. Map!Done
    BY <1>1, <1>2, <2>2, <2>3, <2>4, <2>5, <2>6, <2>7, <2>8 DEF Map!Done
  <2>. QED
    BY <2>9 DEF Map!MapNext
<1>. QED
  BY <1>3, <1>4, <1>5

\* Every step of the hash table is a step of the multimap or is not seen by it.
LEMMA StepOfMap ==
    ASSUME HashInvariant, [HashNext]_hashVars
    PROVE  [Map!MapNext]_(Map!mapVars)
<1>1. ASSUME NEW t \in Threads, NEW k \in Keys, Insert(t, k)
      PROVE  [Map!MapNext]_(Map!mapVars)
  BY <1>1, InsertAdds DEF HashInvariant, ListInvariant, Map!MapNext
<1>2. ASSUME NEW t \in Threads, LinkStep(t)
      PROVE  [Map!MapNext]_(Map!mapVars)
  BY <1>2, WorkersBuild, UnseenSteps DEF HashInvariant
<1>3. CASE Finalize
  BY <1>3, FinalizeSeals
<1>4. CASE (\E k \in Keys : EqualRange(k)) \/ Visit \/ EndLookup
  BY <1>4, LookupIterates
<1>5. CASE EndFinalize
  <2>1. phase = "build" /\ phase' = "probe" /\ UNCHANGED <<locals, lookup>>
    BY <1>5 DEF EndFinalize
  <2>2. [e \in Entries |-> KeyOf(e)]' = [e \in Entries |-> KeyOf(e)]
    BY <2>1, SameEntries
  <2>3. Map!EndSeal
    BY <2>1, <2>2 DEF Map!EndSeal
  <2>. QED
    BY <2>3 DEF Map!MapNext
<1>6. ASSUME NEW t \in Threads, BeginRange(t)
      PROVE  [Map!MapNext]_(Map!mapVars)
  BY <1>6, UnseenSteps DEF BeginRange
<1>7. CASE UNCHANGED hashVars
  BY <1>7, UnseenSteps DEF hashVars
<1>. QED
  BY <1>1, <1>2, <1>3, <1>4, <1>5, <1>6, <1>7 DEF HashNext, CallerStep

\* Whatever the threads do, and however many there are, the lists do what a
\* multimap may do: after finalize() an equal_range() hands out the entries of its
\* key, none twice, and reaches end() only when it has handed out all of them.
\* (That it does reach end() is left to the model checker.)
THEOREM ListsAreAMap == HashSpec => Map!MapInit /\ [][Map!MapNext]_(Map!mapVars)
<1>1. InitHashTable => Map!MapInit
  <2>1. InitHashTable => Entries = {}
    BY DEF InitHashTable, Entries
  <2>. QED
    BY <2>1 DEF InitHashTable, Map!MapInit
<1>2. HashInvariant /\ [HashNext]_hashVars => [Map!MapNext]_(Map!mapVars)
  BY StepOfMap
<1>. QED
  BY <1>1, <1>2, HashInvariantHolds, PTL DEF HashSpec
=============================================================================
