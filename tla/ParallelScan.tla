---------------------------- MODULE ParallelScan ----------------------------
(***************************************************************************)
(* The code a query runs (TableScan::Produce, Selection::Consume and       *)
(* Print::Consume emit it): tbb::parallel_for over the records, whose      *)
(* threads read record after record with get() and print it.               *)
(*                                                                         *)
(* get() only reads the table, but every lookup of a common ancestor goes  *)
(* through a map that all threads share and nothing guards                 *)
(* (GetCommonAncestor in include/imlab/dremel/schema_helper.h).  Two       *)
(* overlapping accesses to it, one of them an emplace, are a data race:    *)
(* from then on a lookup may find its key or not, an emplace may be lost,  *)
(* and the process may crash.                                              *)
(***************************************************************************)
EXTENDS Integers, Sequences

CONSTANTS
    Workers,         \* the threads of tbb
    Size,            \* DocumentTable.size(); no record is inserted meanwhile
    Lists,           \* the lists of fields that scans ask for
    Pairs,           \* the keys of the map: pairs of fields
    Lookups(_, _)    \* Lookups(i, F): the keys that get(i, F) looks up, in order

ASSUME ScanAssumption ==
    /\ Size \in Nat
    /\ <<>> \notin Lists
    /\ \A i \in 0 .. Size - 1, F \in Lists : Lookups(i, F) \in Seq(Pairs)

VARIABLES
    scanned,   \* required_fields_ of the running scan, <<>> when none runs
    ranges,    \* the ranges <<begin, end>> that no thread has taken yet
    worker,    \* worker[w]: what thread w is doing, and its loop variables
    mutex,     \* cout_lock: the threads that hold it
    out,       \* what std::cout got from the last scan
    cache,     \* the keys of _common_ancestor_cache
    raced,     \* two accesses to it have overlapped, one of them an emplace
    crashed,   \* the process is gone
    warm       \* it held all the last scan needs when the scan began

scanVars == <<scanned, ranges, worker, mutex, out, cache, raced, crashed, warm>>

IdleWorker == [at |-> "idle", i |-> 0, end |-> 0, lookup |-> 1]

InitScan ==
    /\ scanned = <<>>
    /\ ranges = {}
    /\ worker = [w \in Workers |-> IdleWorker]
    /\ mutex = {}
    /\ out = <<>>
    /\ cache = {}
    /\ raced = FALSE /\ crashed = FALSE /\ warm = FALSE

Resting == scanned = <<>>

\* All that the records of a scan look up.
Needed(F) == UNION {{Lookups(i, F)[k] : k \in DOMAIN Lookups(i, F)} : i \in 0 .. Size - 1}

\* Run() is called: parallel_for(blocked_range(0, size), ...).
BeginScan(F) ==
    /\ Resting /\ ~ crashed
    /\ F \in Lists
    /\ scanned' = F
    /\ ranges' = {<<0, Size>>} \ {<<0, 0>>}
    /\ out' = <<>>
    /\ warm' = (Needed(F) \subseteq cache)
    /\ UNCHANGED <<worker, mutex, cache, raced, crashed>>

\* tbb cuts a range in two.
Split(r) ==
    LET middle == (r[1] + r[2]) \div 2
    IN  /\ r[1] + 1 < r[2]
        /\ ranges' = (ranges \ {r}) \cup {<<r[1], middle>>, <<middle, r[2]>>}
        /\ UNCHANGED <<scanned, worker, mutex, out, cache, raced, crashed, warm>>

\* A thread runs the loop body on a range.
Take(w, r) ==
    /\ worker[w].at = "idle"
    /\ ranges' = ranges \ {r}
    /\ worker' = [worker EXCEPT ![w] = [at |-> "get", i |-> r[1], end |-> r[2], lookup |-> 1]]
    /\ UNCHANGED <<scanned, mutex, out, cache, raced, crashed, warm>>
-----------------------------------------------------------------------------
Key(w) == Lookups(worker[w].i, scanned)[worker[w].lookup]

MoreLookups(w) == worker[w].lookup <= Len(Lookups(worker[w].i, scanned))

Move(w, at) == worker' = [worker EXCEPT ![w].at = at]

\* The other threads that are inside find() or emplace() of the map.
Others(w, phases) == \E v \in Workers \ {w} : worker[v].at \in phases

\* Call find().
Find(w) ==
    /\ worker[w].at = "get" /\ MoreLookups(w)
    /\ Move(w, "finding")
    /\ raced' = (raced \/ Others(w, {"storing"}))
    /\ UNCHANGED <<scanned, ranges, mutex, out, cache, crashed, warm>>

\* Faulty: what is in the map is not found.
NeverFound(w) == FALSE

IsFound(w) == Key(w) \in cache

\* find() returns: with the entry, and the lookup is over ...
Found(w) ==
    /\ worker[w].at = "finding"
    /\ IsFound(w) \/ raced
    /\ worker' = [worker EXCEPT ![w].at = "get", ![w].lookup = @ + 1]
    /\ UNCHANGED <<scanned, ranges, mutex, out, cache, raced, crashed, warm>>

\* ... or without, and the ancestor is computed.
Missed(w) ==
    /\ worker[w].at = "finding"
    /\ ~ IsFound(w) \/ raced
    /\ Move(w, "computing")
    /\ UNCHANGED <<scanned, ranges, mutex, out, cache, raced, crashed, warm>>

\* Call emplace().
Emplace(w) ==
    /\ worker[w].at = "computing"
    /\ Move(w, "storing")
    /\ raced' = (raced \/ Others(w, {"finding", "storing"}))
    /\ UNCHANGED <<scanned, ranges, mutex, out, cache, crashed, warm>>

\* emplace() returns.
Emplaced(w) ==
    /\ worker[w].at = "storing"
    /\ worker' = [worker EXCEPT ![w].at = "get", ![w].lookup = @ + 1]
    /\ \/ cache' = cache \cup {Key(w)}
       \/ raced /\ cache' = cache
    /\ UNCHANGED <<scanned, ranges, mutex, out, raced, crashed, warm>>

\* What a data race may come to.
Crash ==
    /\ raced /\ ~ crashed
    /\ crashed' = TRUE
    /\ UNCHANGED <<scanned, ranges, worker, mutex, out, cache, raced, warm>>
-----------------------------------------------------------------------------
\* Faulty: the lock is taken whether it is free or not.
AlwaysFree == TRUE

LockFree == mutex = {}

\* cout_lock.lock(), when the record is assembled.
Lock(w) ==
    /\ worker[w].at = "get" /\ ~ MoreLookups(w)
    /\ LockFree
    /\ mutex' = mutex \cup {w}
    /\ Move(w, "text")
    /\ UNCHANGED <<scanned, ranges, out, cache, raced, crashed, warm>>

\* std::cout << record.DebugString() << std::endl;
Text(w) ==
    /\ worker[w].at = "text"
    /\ out' = Append(out, <<"text", worker[w].i>>)
    /\ Move(w, "newline")
    /\ UNCHANGED <<scanned, ranges, mutex, cache, raced, crashed, warm>>

Newline(w) ==
    /\ worker[w].at = "newline"
    /\ out' = Append(out, <<"newline", worker[w].i>>)
    /\ Move(w, "unlock")
    /\ UNCHANGED <<scanned, ranges, mutex, cache, raced, crashed, warm>>

\* Faulty: the thread goes back for another range after one record.
OneOfRange(w) == IdleWorker

\* The next turn of the loop over the range, or its end.
NextTurn(w) ==
    IF worker[w].i + 1 = worker[w].end THEN IdleWorker
    ELSE [at |-> "get", i |-> worker[w].i + 1, end |-> worker[w].end, lookup |-> 1]

\* Faulty: the lock is kept until the range is done.
ReleasedAtEnd(w) == IF worker[w].i + 1 = worker[w].end THEN mutex \ {w} ELSE mutex

Released(w) == mutex \ {w}

\* cout_lock.unlock(); ++i
Unlock(w) ==
    /\ worker[w].at = "unlock"
    /\ mutex' = Released(w)
    /\ worker' = [worker EXCEPT ![w] = NextTurn(w)]
    /\ UNCHANGED <<scanned, ranges, out, cache, raced, crashed, warm>>

\* parallel_for and Run() return.
EndScan ==
    /\ ranges = {}
    /\ worker = [w \in Workers |-> IdleWorker]
    /\ scanned' = <<>>
    /\ UNCHANGED <<ranges, worker, mutex, out, cache, raced, crashed, warm>>

WorkerStep(w) ==
    \/ Find(w) \/ Found(w) \/ Missed(w) \/ Emplace(w) \/ Emplaced(w)
    \/ Lock(w) \/ Text(w) \/ Newline(w) \/ Unlock(w)

ScanStep ==
    /\ ~ Resting /\ ~ crashed
    /\ \/ \E r \in ranges : Split(r)
       \/ \E w \in Workers, r \in ranges : Take(w, r)
       \/ \E w \in Workers : WorkerStep(w)
       \/ Crash
       \/ EndScan

ScanNext == (\E F \in Lists : BeginScan(F)) \/ ScanStep

\* Some thread always runs: nothing is assumed about which.
ScanSpec == InitScan /\ [][ScanNext]_scanVars /\ WF_scanVars(ScanStep)

-----------------------------------------------------------------------------
\* The shapes of the state; a range that is left or taken is not empty, and a
\* thread has the lock exactly while it prints.
ScanTypeOK ==
    /\ scanned \in Lists \cup {<<>>}
    /\ \A r \in ranges : r \in (0 .. Size) \X (0 .. Size) /\ r[1] < r[2]
    /\ \A w \in Workers :
        \/ worker[w] = IdleWorker
        \/ /\ worker[w].i \in 0 .. worker[w].end - 1 /\ worker[w].end \in 1 .. Size
           /\ worker[w].lookup \in 1 .. Len(Lookups(worker[w].i, scanned)) + 1
           /\ ~ MoreLookups(w) => worker[w].at \in {"get", "text", "newline", "unlock"}
    /\ mutex = {w \in Workers : worker[w].at \in {"text", "newline", "unlock"}}
    /\ cache \subseteq Pairs
    /\ {raced, crashed, warm} \subseteq BOOLEAN

\* The map is raced for only in a scan that began before all its keys were there:
\* once they are, the threads only read it.
RacesOnlyWhenCold == [][raced' => raced \/ ~ warm]_scanVars

\* The lines of different records do not mix: each record's text is followed by
\* its own newline.
LinesWhole ==
    \A k \in 1 .. Len(out) :
        IF k % 2 = 1 THEN out[k][1] = "text"
        ELSE out[k] = <<"newline", out[k - 1][2]>>

\* Where record i is while a scan runs: in a range, with a thread, or printed.
Places(i) ==
    {<<"range", r>> : r \in {r \in ranges : i \in r[1] .. r[2] - 1}}
    \cup {<<"thread", w>> : w \in {w \in Workers :
              /\ i \in worker[w].i .. worker[w].end - 1
              /\ worker[w].at \in {"newline", "unlock"} => i # worker[w].i}}
    \cup {<<"line", k>> : k \in {k \in 1 .. Len(out) : out[k] = <<"text", i>>}}

\* Every record of the table is printed once: however tbb cuts the ranges, it is
\* in one place all the time, and at the end that is a line.
EachRecordOnce ==
    ~ Resting \/ out # <<>> =>
        \A i \in 0 .. Size - 1 : \E p \in Places(i) : Places(i) = {p}

\* A scan ends, unless the process crashes.
ScanEnds == ~ Resting ~> Resting \/ crashed
=============================================================================
