----------------------------- MODULE HashTable -----------------------------
(***************************************************************************)
(* LazyMultiMap (include/imlab/infra/hash_table.h), the hash table of the  *)
(* generated joins: threads gather entries in vectors of their own,        *)
(* finalize() links them to the collision lists of the buckets, several    *)
(* threads at once and without locks, and equal_range() walks a list.      *)
(*                                                                         *)
(* An Entry* is the pair of a thread and an index into its vector.  The    *)
(* value of an entry is left out: its pointer tells it apart.              *)
(***************************************************************************)
EXTENDS Integers, Sequences, FiniteSets, SequencesExt

CONSTANTS
    Threads,      \* the worker threads of tbb
    Keys,
    Hash,         \* Hash[k]: Key::Hash
    SizeMod,      \* 2^w for the width w of size_t, scaled down
    MaxEntries    \* bound: how many entries are inserted

ASSUME HashTableAssumption ==
    /\ IsFiniteSet(Threads)
    /\ Hash \in [Keys -> Nat]
    /\ SizeMod \in Nat \ {0}
    /\ MaxEntries \in Nat

VARIABLES
    phase,       \* "gather", "build", "probe"; "failed" after an assertion
    locals,      \* entries_: the keys in each thread's vector
    next,        \* next[e]: the next pointer of entry e
    buckets,     \* hash_table_, its positions counted from 0
    rest,        \* the vectors whose parallel_for has not begun
    todo,        \* the entries of the running parallel_for nobody has taken
    taken,       \* taken[t]: the entry thread t is linking
    lookup,      \* the equal_range that is walked: a set of at most one
    chains       \* history: the entries linked to each bucket, in turn

hashVars == <<phase, locals, next, buckets, rest, todo, taken, lookup, chains>>

nullptr == <<>>

Entries == UNION {{<<t, i>> : i \in 1 .. Len(locals[t])} : t \in Threads}

KeyOf(e) == locals[e[1]][e[2]]

TotalEntryCount == Cardinality(Entries)

\* NextPow2_64: v - 1 with all bits below its highest set, plus one.
NextPow2(v) ==
    LET below == (v - 1) % SizeMod
        bits == Cardinality({n \in 0 .. below : 2 ^ n <= below})
    IN  2 ^ bits % SizeMod

\* hash_table_mask_ keeps the lower bits.
Bucket(k) == Hash[k] % Cardinality(DOMAIN buckets)
-----------------------------------------------------------------------------
InitHashTable ==
    /\ phase = "gather"
    /\ locals = [t \in Threads |-> <<>>]
    /\ next = [e \in {} |-> nullptr]
    /\ buckets = [b \in {} |-> nullptr]
    /\ rest = {}
    /\ todo = {}
    /\ taken = [t \in Threads |-> nullptr]
    /\ lookup = {}
    /\ chains = [b \in {} |-> <<>>]

\* insert(), on the calling thread's vector.
Insert(t, k) ==
    /\ phase = "gather"
    /\ TotalEntryCount < MaxEntries
    /\ locals' = [locals EXCEPT ![t] = Append(@, k)]
    /\ next' = [e \in DOMAIN next \cup {<<t, Len(locals[t]) + 1>>} |-> nullptr]
    /\ UNCHANGED <<phase, buckets, rest, todo, taken, lookup, chains>>

\* finalize() up to its loop over the vectors.
Finalize ==
    /\ phase = "gather"
    /\ LET size == NextPow2(TotalEntryCount)
       IN  IF size > 0
           THEN /\ phase' = "build"
                /\ buckets' = [b \in 0 .. size - 1 |-> nullptr]
                /\ chains' = [b \in 0 .. size - 1 |-> <<>>]
                /\ rest' = Threads
           ELSE phase' = "failed" /\ UNCHANGED <<buckets, chains, rest>>
    /\ UNCHANGED <<locals, next, todo, taken, lookup>>

\* The parallel_for over one vector has ended.
RangeDone == todo = {} /\ \A t \in Threads : taken[t] = nullptr

\* The loop over the vectors goes on to the vector of thread t.
BeginRange(t) ==
    /\ phase = "build"
    /\ RangeDone
    /\ t \in rest
    /\ rest' = rest \ {t}
    /\ todo' = {e \in Entries : e[1] = t}
    /\ UNCHANGED <<phase, locals, next, buckets, taken, lookup, chains>>

\* Faulty: the ranges of two workers overlap.
Overlapping(e) == todo

\* What is left of the range when a worker turns to e.
Remaining(e) == todo \ {e}

\* Worker t turns to an entry of the vector, whichever parallel_for gives it, and
\* loads the head of its bucket.
LoadHead(t, e) ==
    /\ taken[t] = nullptr
    /\ e \in todo
    /\ todo' = Remaining(e)
    /\ taken' = [taken EXCEPT ![t] = e]
    /\ next' = [next EXCEPT ![e] = buckets[Bucket(KeyOf(e))]]
    /\ UNCHANGED <<phase, locals, buckets, rest, lookup, chains>>

\* Faulty: the head is overwritten without comparing.
HeadIgnored(e) == TRUE

\* What the compare-and-swap for entry e compares.
HeadUnchanged(e) == buckets[Bucket(KeyOf(e))] = next[e]

\* The compare-and-swap succeeds.  (If it fails without a reason, as the weak form
\* may, nothing changes.)
SwapHead(t) ==
    LET e == taken[t]
        b == Bucket(KeyOf(e))
    IN  /\ e # nullptr
        /\ HeadUnchanged(e)
        /\ buckets' = [buckets EXCEPT ![b] = e]
        /\ chains' = [chains EXCEPT ![b] = Append(@, e)]
        /\ taken' = [taken EXCEPT ![t] = nullptr]
        /\ UNCHANGED <<phase, locals, next, rest, todo, lookup>>

\* Faulty: a retry compares with the old head.
KeptHead(e) == next[e]

\* What a failed compare-and-swap leaves in entry->next.
ReloadedHead(e) == buckets[Bucket(KeyOf(e))]

\* Another worker was faster.
RetrySwap(t) ==
    LET e == taken[t]
    IN  /\ e # nullptr
        /\ ~ HeadUnchanged(e)
        /\ next' = [next EXCEPT ![e] = ReloadedHead(e)]
        /\ UNCHANGED <<phase, locals, buckets, rest, todo, taken, lookup, chains>>

EndFinalize ==
    /\ phase = "build"
    /\ RangeDone
    /\ rest = {}
    /\ phase' = "probe"
    /\ UNCHANGED <<locals, next, buckets, rest, todo, taken, lookup, chains>>
-----------------------------------------------------------------------------
\* equal_range(k).  Lookups only read, so one at a time stands for all.
EqualRange(k) ==
    /\ phase = "probe"
    /\ lookup = {}
    /\ lookup' = {[key |-> k, ptr |-> buckets[Bucket(k)], found |-> <<>>]}
    /\ UNCHANGED <<phase, locals, next, buckets, rest, todo, taken, chains>>

\* Faulty: the iteration ends at an entry of another key.
StepWhileEqual(l) == IF KeyOf(l.ptr) = l.key THEN next[l.ptr] ELSE nullptr

\* The iterator goes on along the list, to a matching entry or not.
Step(l) == next[l.ptr]

\* An entry of the list is looked at, by equal_range's loop or by the iterator.
Visit ==
    /\ \E l \in lookup :
        /\ l.ptr # nullptr
        /\ lookup' = {[key |-> l.key, ptr |-> Step(l),
                       found |-> IF KeyOf(l.ptr) = l.key THEN Append(l.found, l.ptr) ELSE l.found]}
    /\ UNCHANGED <<phase, locals, next, buckets, rest, todo, taken, chains>>

\* The iterator has reached end().
EndLookup ==
    /\ \E l \in lookup : l.ptr = nullptr
    /\ lookup' = {}
    /\ UNCHANGED <<phase, locals, next, buckets, rest, todo, taken, chains>>

LinkStep(t) == (\E e \in Entries : LoadHead(t, e)) \/ SwapHead(t) \/ RetrySwap(t)

CallerStep == (\E t \in Threads : BeginRange(t)) \/ EndFinalize \/ Visit \/ EndLookup

HashNext ==
    \/ \E t \in Threads : (\E k \in Keys : Insert(t, k)) \/ LinkStep(t)
    \/ Finalize
    \/ \E k \in Keys : EqualRange(k)
    \/ CallerStep

\* A worker that has an entry goes on with it, and so does the thread that called
\* finalize() or walks a list.
HashSpec ==
    /\ InitHashTable
    /\ [][HashNext]_hashVars
    /\ \A t \in Threads : WF_hashVars(LinkStep(t))
    /\ WF_hashVars(CallerStep)
-----------------------------------------------------------------------------
\* The shapes of the state of the hash table; no two workers have the same entry.
HashTypeOK ==
    /\ phase \in {"gather", "build", "probe", "failed"}
    /\ locals \in [Threads -> Seq(Keys)]
    /\ next \in [Entries -> Entries \cup {nullptr}]
    /\ buckets \in [DOMAIN buckets -> Entries \cup {nullptr}]
    /\ rest \subseteq Threads
    /\ todo \subseteq Entries
    /\ taken \in [Threads -> Entries \cup {nullptr}]
    /\ \A t, u \in Threads : taken[t] # nullptr => taken[t] \notin todo /\ (taken[t] = taken[u] => t = u)
    /\ chains \in [DOMAIN buckets -> Seq(Threads \X Nat)]

\* At every moment of finalize(), the heads and next pointers form, for each
\* bucket, one list of the entries whose compare-and-swap has succeeded, latest
\* first, each once and in the bucket of its key.  No list is lost when two
\* threads prepend to it at once.
ListsIntact ==
    \A b \in DOMAIN chains :
        LET c == chains[b]
        IN  /\ buckets[b] = IF c = <<>> THEN nullptr ELSE c[Len(c)]
            /\ \A i \in 1 .. Len(c) :
                  /\ Bucket(KeyOf(c[i])) = b
                  /\ next[c[i]] = IF i = 1 THEN nullptr ELSE c[i - 1]
                  /\ \A j \in 1 .. Len(c) : c[i] = c[j] => i = j

\* The positions of the table exist from finalize() on, and only then is there
\* anything to link.
BucketsMade ==
    \/ /\ phase \in {"gather", "failed"}
       /\ DOMAIN buckets = {} /\ rest = {} /\ todo = {}
       /\ \A t \in Threads : taken[t] = nullptr
    \/ /\ phase \in {"build", "probe"}
       /\ \E n \in 1 .. SizeMod - 1 : DOMAIN buckets = 0 .. n - 1

\* An entry that finalize() still has to link.
Waiting(e) == e[1] \in rest \/ e \in todo \/ \E t \in Threads : taken[t] = e

\* What is linked waits no longer; what a range or a worker has is not in a vector
\* whose turn comes later.
LinkedOnce ==
    /\ \A b \in DOMAIN chains : \A i \in 1 .. Len(chains[b]) :
          chains[b][i] \in Entries /\ ~ Waiting(chains[b][i])
    /\ \A e \in todo : e[1] \notin rest
    /\ \A t \in Threads : taken[t] # nullptr => taken[t][1] \notin rest

\* What finalize() relies on: no entry is linked while a worker may still change
\* its next pointer.
ListInvariant == HashTypeOK /\ ListsIntact /\ BucketsMade /\ LinkedOnce

\* From the beginning of finalize() on, every entry waits or is in the list of its
\* key, and when finalize() has ended none waits.
EntriesPlaced ==
    /\ phase \in {"build", "probe"} =>
          \A e \in Entries : Waiting(e) \/ e \in ToSet(chains[Bucket(KeyOf(e))])
    /\ phase = "probe" => rest = {} /\ RangeDone

\* The entries of key k in its list behind the first n.
FoundBehind(k, n) ==
    LET c == chains[Bucket(k)] IN {c[i] : i \in {i \in n + 1 .. Len(c) : KeyOf(c[i]) = k}}

\* A lookup is on its way along the list of its key, latest entry first, and has
\* found the entries of its key that it has passed.
LookupOnItsWay ==
    lookup # {} =>
        /\ phase = "probe"
        /\ \E l \in lookup :
            /\ lookup = {l}
            /\ l \in [key : Keys, ptr : Entries \cup {nullptr}, found : Seq(Entries)]
            /\ \E n \in 0 .. Len(chains[Bucket(l.key)]) :
                  /\ l.ptr = IF n = 0 THEN nullptr ELSE chains[Bucket(l.key)][n]
                  /\ ToSet(l.found) = FoundBehind(l.key, n)

\* The inductive invariant of the hash table.
HashInvariant == ListInvariant /\ EntriesPlaced /\ LookupOnItsWay

\* finalize() passes its assertion that there is a bucket (hash_table.h:108).
TableHasBuckets == phase # "failed"

\* finalize() ends: one of the threads that prepend to a list always succeeds.
FinalizeTerminates == phase = "build" ~> phase = "probe"

-----------------------------------------------------------------------------
Map == INSTANCE MultiMap WITH
    Ids <- Threads \X (1 .. MaxEntries),
    AllKeys <- Keys,
    content <- [e \in Entries |-> KeyOf(e)],
    state <- CASE phase = "build" -> "sealing" [] phase = "probe" -> "sealed" [] OTHER -> "open",
    asked <- {l.key : l \in lookup},
    given <- IF lookup = {} THEN <<>> ELSE (CHOOSE l \in lookup : TRUE).found

\* The lock-free lists implement a multimap: after finalize() an equal_range()
\* hands out every entry that any thread has inserted under its key, exactly once,
\* and comes to an end.
MapSpec == Map!MapSpec
=============================================================================
