---------------------------- MODULE QueryProofs ----------------------------
(***************************************************************************)
(* The scans of a query, first as ParallelScan has them: for any number of *)
(* threads and records, any lists of fields and whatever get() looks up,   *)
(* each record is printed once, in lines of its own, and the map of common *)
(* ancestors is raced for only in scans that begin before it is filled.    *)
(* Then the session: whatever clients build, prepare and run, the scans of *)
(* the code do nothing but steps of that module, so that what is proved of *)
(* them holds in a session.  Last the code itself: the recursive           *)
(* definitions of Operators are solved for every plan; the code that a     *)
(* plan emits uses the hash tables of its joins in order, each of its      *)
(* scans reads the fields that are asked for there, and no code uses a     *)
(* field that has not been read where it does.                             *)
(***************************************************************************)
EXTENDS Query, Numbers, SequenceTheorems, FiniteSetTheorems, TLAPS

InMap == {"finding", "computing", "storing"}
InPrint == {"text", "newline", "unlock"}
Phases == {"idle", "get"} \cup InMap \cup InPrint

\* The threads and their ranges; threads are idle when no scan runs.
ThreadsOK ==
    /\ scanned \in Lists \cup {<<>>}
    /\ ranges \subseteq {r \in (0 .. Size) \X (0 .. Size) : r[1] < r[2]}
    /\ worker \in [Workers -> [at : Phases, i : 0 .. Size, end : 0 .. Size, lookup : Nat]]
    /\ \A w \in Workers :
        IF worker[w].at = "idle" THEN worker[w] = IdleWorker
        ELSE /\ worker[w].i < worker[w].end
             /\ worker[w].lookup \in 1 .. Len(Lookups(worker[w].i, scanned)) + 1
             /\ worker[w].at \in InMap => MoreLookups(w)
             /\ worker[w].at \in InPrint => ~ MoreLookups(w)
    /\ Resting => ranges = {} /\ \A w \in Workers : worker[w].at = "idle"
    /\ cache \subseteq Pairs
    /\ {raced, crashed, warm} \subseteq BOOLEAN

\* One thread prints at a time, and it has the lock; it is between text and
\* newline exactly when the last line of the output is not complete.
PrintsInTurn ==
    /\ mutex = {w \in Workers : worker[w].at \in InPrint}
    /\ \A v, w \in mutex : v = w
    /\ out \in Seq({"text", "newline"} \X (0 .. Size))
    /\ LinesWhole
    /\ Len(out) % 2 = 0 => \A w \in Workers : worker[w].at # "newline"
    /\ Len(out) % 2 = 1 => \E w \in Workers :
            worker[w].at = "newline" /\ out[Len(out)] = <<"text", worker[w].i>>

\* In a warm scan that has not raced, the map has all the keys and stays as it is.
MapOnlyRead ==
    warm /\ ~ raced /\ ~ Resting =>
        /\ Needed(scanned) \subseteq cache
        /\ \A w \in Workers : worker[w].at \notin {"computing", "storing"}

-----------------------------------------------------------------------------
\* The parts of the invariant on threads, output and map hold before the first scan.
LEMMA InitThreads == ASSUME InitScan PROVE ThreadsOK /\ PrintsInTurn /\ MapOnlyRead
<1>1. /\ scanned = <<>> /\ ranges = {} /\ mutex = {} /\ out = <<>> /\ cache = {}
      /\ raced = FALSE /\ crashed = FALSE /\ warm = FALSE
      /\ worker \in [Workers -> [at : Phases, i : 0 .. Size, end : 0 .. Size, lookup : Nat]]
      /\ \A w \in Workers : worker[w] = IdleWorker /\ worker[w].at = "idle"
  BY ScanAssumption DEF InitScan, IdleWorker, Phases
<1>2. ThreadsOK
  BY <1>1 DEF ThreadsOK, Resting
<1>3. MapOnlyRead
  BY <1>1 DEF MapOnlyRead
<1>4. Len(out) = 0 /\ out \in Seq({"text", "newline"} \X (0 .. Size))
  BY <1>1
<1>5. PrintsInTurn
  BY <1>1, <1>4 DEF PrintsInTurn, LinesWhole, InPrint
<1> QED
  BY <1>2, <1>3, <1>5

\* What a thread looks up is among what the scan needs.
LEMMA KeyNeeded ==
    ASSUME ThreadsOK, NEW w \in Workers, worker[w].at # "idle", MoreLookups(w)
    PROVE  /\ Key(w) \in Needed(scanned)
           /\ Key(w) \in Pairs
<1> DEFINE F == scanned
           j == worker[w].i
<1>1. /\ worker[w] \in [at : Phases, i : 0 .. Size, end : 0 .. Size, lookup : Nat]
      /\ j < worker[w].end
      /\ worker[w].lookup \in 1 .. Len(Lookups(j, F)) + 1
  BY DEF ThreadsOK
<1>2. F \in Lists
  BY DEF ThreadsOK, Resting
<1>3. j \in 0 .. Size - 1
  BY <1>1, ScanAssumption
<1>4. Lookups(j, F) \in Seq(Pairs)
  BY <1>2, <1>3, ScanAssumption
<1>5. worker[w].lookup \in 1 .. Len(Lookups(j, F))
  BY <1>1, <1>4 DEF MoreLookups
<1>6. Lookups(j, F)[worker[w].lookup] \in Pairs /\ worker[w].lookup \in DOMAIN Lookups(j, F)
  BY <1>4, <1>5
<1> QED
  BY <1>3, <1>6 DEF Key, Needed

\* No step of a scan breaks the ranges and loop variables of its threads.
LEMMA ThreadsStep ==
    ASSUME ThreadsOK, [ScanNext]_scanVars
    PROVE  ThreadsOK'
<1> USE ScanAssumption DEF ThreadsOK, Resting, InMap, InPrint, Phases
<1>1. ASSUME NEW F \in Lists, BeginScan(F) PROVE ThreadsOK'
  BY <1>1 DEF BeginScan, MoreLookups
<1>2. ASSUME NEW r \in ranges, Split(r) PROVE ThreadsOK'
  <2>1. r \in (0 .. Size) \X (0 .. Size) /\ r[1] + 1 < r[2]
    BY <1>2 DEF Split
  <2>2. LET m == (r[1] + r[2]) \div 2 IN m \in 0 .. Size /\ r[1] < m /\ m < r[2]
    BY <2>1, SMT
  <2> QED
    BY <1>2, <2>1, <2>2 DEF Split, MoreLookups
<1>3. ASSUME ~ Resting, NEW w \in Workers, NEW r \in ranges, Take(w, r) PROVE ThreadsOK'
  <2>1. /\ r \in (0 .. Size) \X (0 .. Size) /\ r[1] < r[2] /\ r[1] \in 0 .. Size - 1
        /\ scanned \in Lists
    OBVIOUS
  <2>2. Lookups(r[1], scanned) \in Seq(Pairs)
    BY <2>1
  <2>3. Len(Lookups(r[1], scanned)) \in Nat
    BY <2>2
  <2> QED
    BY <1>3, <2>1, <2>3 DEF Take, MoreLookups
<1>4. ASSUME ~ Resting, NEW w \in Workers, WorkerStep(w) PROVE ThreadsOK'
  <2>1. CASE Find(w) BY <2>1, <1>4 DEF Find, Move, MoreLookups
  <2>2. CASE Found(w) BY <2>2, <1>4 DEF Found, MoreLookups
  <2>3. CASE Missed(w) BY <2>3, <1>4 DEF Missed, Move, MoreLookups
  <2>4. CASE Emplace(w) BY <2>4, <1>4 DEF Emplace, Move, MoreLookups
  <2>5. CASE Emplaced(w) BY <2>5, <1>4, KeyNeeded DEF Emplaced, MoreLookups
  <2>6. CASE Lock(w) BY <2>6, <1>4 DEF Lock, Move, MoreLookups
  <2>7. CASE Text(w) BY <2>7, <1>4 DEF Text, Move, MoreLookups
  <2>8. CASE Newline(w) BY <2>8, <1>4 DEF Newline, Move, MoreLookups
  <2>9. CASE Unlock(w) BY <2>9, <1>4 DEF Unlock, NextTurn, IdleWorker, MoreLookups
  <2> QED
    BY <1>4, <2>1, <2>2, <2>3, <2>4, <2>5, <2>6, <2>7, <2>8, <2>9 DEF WorkerStep
<1>5. CASE Crash BY <1>5 DEF Crash, MoreLookups
<1>6. CASE EndScan BY <1>6 DEF EndScan, MoreLookups, IdleWorker
<1>7. CASE UNCHANGED scanVars BY <1>7 DEF scanVars, MoreLookups
<1> QED
  BY <1>1, <1>2, <1>3, <1>4, <1>5, <1>6, <1>7 DEF ScanNext, ScanStep

\* A warm scan that finds the map complete only reads it.
LEMMA MapStep ==
    ASSUME ThreadsOK, MapOnlyRead, [ScanNext]_scanVars
    PROVE  /\ MapOnlyRead'
           /\ raced' => raced \/ ~ warm
<1> USE DEF MapOnlyRead
<1>1. ASSUME NEW F \in Lists, BeginScan(F) PROVE MapOnlyRead' /\ (raced' => raced)
  BY <1>1 DEF BeginScan, Resting, ThreadsOK
<1>2. ASSUME NEW r \in ranges, Split(r) PROVE MapOnlyRead' /\ (raced' => raced)
  BY <1>2 DEF Split, Resting
<1>3. ASSUME NEW w \in Workers, NEW r \in ranges, Take(w, r) PROVE MapOnlyRead' /\ (raced' => raced)
  BY <1>3 DEF Take, Resting, ThreadsOK
<1>4. ASSUME ~ Resting, NEW w \in Workers, WorkerStep(w)
      PROVE MapOnlyRead' /\ (raced' => raced \/ ~ warm)
  <2> USE <1>4 DEF Resting
  <2> worker \in [Workers -> [at : Phases, i : 0 .. Size, end : 0 .. Size, lookup : Nat]]
    BY DEF ThreadsOK
  <2>1. CASE Find(w) BY <2>1 DEF Find, Move, Others
  <2>2. CASE Found(w) BY <2>2 DEF Found
  <2>3. CASE Missed(w)
    <3>1. MoreLookups(w)
      BY <2>3 DEF Missed, ThreadsOK, InMap
    <3> QED
      BY <2>3, <3>1, KeyNeeded DEF Missed, Move, IsFound
  <2>4. CASE Emplace(w) BY <2>4 DEF Emplace, Move, Others
  <2>5. CASE Emplaced(w) BY <2>5 DEF Emplaced
  <2>6. CASE Lock(w) BY <2>6 DEF Lock, Move
  <2>7. CASE Text(w) BY <2>7 DEF Text, Move
  <2>8. CASE Newline(w) BY <2>8 DEF Newline, Move
  <2>9. CASE Unlock(w) BY <2>9 DEF Unlock, NextTurn, IdleWorker
  <2> QED
    BY <2>1, <2>2, <2>3, <2>4, <2>5, <2>6, <2>7, <2>8, <2>9 DEF WorkerStep
<1>5. CASE Crash BY <1>5 DEF Crash, Resting
<1>6. CASE EndScan BY <1>6 DEF EndScan, Resting
<1>7. CASE UNCHANGED scanVars BY <1>7 DEF scanVars, Resting
<1> QED
  BY <1>1, <1>2, <1>3, <1>4, <1>5, <1>6, <1>7 DEF ScanNext, ScanStep

-----------------------------------------------------------------------------
\* Counting on changes the parity.
LEMMA Parity ==
    ASSUME NEW n \in Nat
    PROVE  /\ n % 2 = 0 \/ n % 2 = 1
           /\ n % 2 = 0 => (n + 1) % 2 = 1
           /\ n % 2 = 1 => (n + 1) % 2 = 0
           /\ n = 1 => n % 2 = 1
OBVIOUS

Whole(lines) ==
    \A k \in 1 .. Len(lines) :
        IF k % 2 = 1 THEN lines[k][1] = "text"
        ELSE lines[k] = <<"newline", lines[k - 1][2]>>

\* A text after complete lines, or the newline after the text it belongs to.
LEMMA WholeAppend ==
    ASSUME NEW lines \in Seq({"text", "newline"} \X (0 .. Size)), Whole(lines),
           NEW what \in {"text", "newline"}, NEW i \in 0 .. Size,
           \/ what = "text" /\ Len(lines) % 2 = 0
           \/ what = "newline" /\ Len(lines) % 2 = 1 /\ lines[Len(lines)] = <<"text", i>>
    PROVE  /\ Append(lines, <<what, i>>) \in Seq({"text", "newline"} \X (0 .. Size))
           /\ Whole(Append(lines, <<what, i>>))
           /\ Len(Append(lines, <<what, i>>)) % 2 = IF what = "text" THEN 1 ELSE 0
           /\ Append(lines, <<what, i>>)[Len(Append(lines, <<what, i>>))] = <<what, i>>
<1> DEFINE more == Append(lines, <<what, i>>)
           n == Len(lines)
<1>1. /\ n \in Nat /\ Len(more) = n + 1
      /\ more \in Seq({"text", "newline"} \X (0 .. Size))
      /\ \A k \in 1 .. n : more[k] = lines[k]
      /\ more[n + 1] = <<what, i>>
  OBVIOUS
<1>2. Len(more) % 2 = IF what = "text" THEN 1 ELSE 0
  BY <1>1, Parity
<1>3. ASSUME NEW k \in 1 .. Len(more)
      PROVE  IF k % 2 = 1 THEN more[k][1] = "text" ELSE more[k] = <<"newline", more[k - 1][2]>>
  <2>1. CASE k \in 1 .. n
    <3>1. IF k % 2 = 1 THEN lines[k][1] = "text" ELSE lines[k] = <<"newline", lines[k - 1][2]>>
      BY <2>1 DEF Whole
    <3>2. k % 2 # 1 => k # 1
      BY Parity
    <3>3. k # 1 => k - 1 \in 1 .. n
      BY <1>1, <2>1
    <3> QED
      BY <1>1, <2>1, <3>1, <3>2, <3>3
  <2>2. CASE k = n + 1 /\ what = "text"
    BY <1>1, <1>2, <2>2
  <2>3. CASE k = n + 1 /\ what = "newline"
    <3>1. n \in 1 .. n /\ more[n] = <<"text", i>> /\ k - 1 = n
      BY <1>1, <2>3
    <3>2. k % 2 = 0
      BY <1>1, <1>2, <2>3
    <3> QED
      BY <1>1, <2>3, <3>1, <3>2
  <2>4. k \in 1 .. n \/ k = n + 1
    BY <1>1
  <2> HIDE DEF more, n
  <2> QED
    BY <2>1, <2>2, <2>3, <2>4
<1> QED
  BY <1>1, <1>2, <1>3 DEF Whole

\* No step breaks the turns of printing.
LEMMA PrintsStep ==
    ASSUME ThreadsOK, PrintsInTurn, [ScanNext]_scanVars
    PROVE  PrintsInTurn'
<1> USE DEF PrintsInTurn, LinesWhole, InPrint
<1>0. worker \in [Workers -> [at : Phases, i : 0 .. Size, end : 0 .. Size, lookup : Nat]]
  BY DEF ThreadsOK
<1>1. ASSUME NEW F \in Lists, BeginScan(F) PROVE PrintsInTurn'
  <2>1. /\ \A w \in Workers : worker[w].at = "idle" /\ worker' = worker
        /\ mutex' = mutex /\ out' = <<>>
    BY <1>1 DEF BeginScan, ThreadsOK, Resting
  <2>2. Len(out') = 0 /\ out' \in Seq({"text", "newline"} \X (0 .. Size))
    BY <2>1
  <2> QED
    BY <2>1, <2>2
<1>2. ASSUME NEW r \in ranges, Split(r) PROVE PrintsInTurn'
  BY <1>2 DEF Split
<1>3. ASSUME NEW w \in Workers, NEW r \in ranges, Take(w, r) PROVE PrintsInTurn'
  BY <1>0, <1>3 DEF Take
<1>4. ASSUME NEW w \in Workers, WorkerStep(w) PROVE PrintsInTurn'
  <2> USE <1>0
  <2>1. CASE Find(w) BY <2>1 DEF Find, Move
  <2>2. CASE Found(w) BY <2>2 DEF Found
  <2>3. CASE Missed(w) BY <2>3 DEF Missed, Move
  <2>4. CASE Emplace(w) BY <2>4 DEF Emplace, Move
  <2>5. CASE Emplaced(w) BY <2>5 DEF Emplaced
  <2>6. CASE Lock(w) BY <2>6 DEF Lock, LockFree, Move
  <2>7. CASE Text(w)
    <3>1. /\ worker[w].at = "text" /\ worker[w].i \in 0 .. Size
          /\ worker' = [worker EXCEPT ![w].at = "newline"]
          /\ mutex' = mutex
          /\ out' = Append(out, <<"text", worker[w].i>>)
      BY <2>7 DEF Text, Move
    <3>2. \A v \in Workers : worker[v].at \in InPrint => v = w
      BY <3>1
    <3>3. Len(out) % 2 = 0
      <4>1. Len(out) % 2 # 1
        BY <3>1, <3>2
      <4> QED
        BY <4>1, Parity
    <3>4. /\ out' \in Seq({"text", "newline"} \X (0 .. Size))
          /\ Whole(out')
          /\ Len(out') % 2 = 1
          /\ out'[Len(out')] = <<"text", worker[w].i>>
      <4>1. Whole(out)
        BY DEF Whole
      <4> QED
        BY <3>1, <3>3, <4>1, WholeAppend
    <3>6. worker'[w].at = "newline" /\ worker'[w].i = worker[w].i
      BY <3>1
    <3>7. mutex' = {v \in Workers : worker'[v].at \in InPrint}
      BY <3>1
    <3>5. LinesWhole'
      BY <3>4 DEF Whole
    <3>8. Len(out') % 2 # 0
      BY <3>4
    <3> HIDE DEF LinesWhole
    <3> QED
      BY <3>1, <3>4, <3>5, <3>6, <3>7, <3>8
  <2>8. CASE Newline(w)
    <3>1. /\ worker[w].at = "newline" /\ worker[w].i \in 0 .. Size
          /\ worker' = [worker EXCEPT ![w].at = "unlock"]
          /\ mutex' = mutex
          /\ out' = Append(out, <<"newline", worker[w].i>>)
      BY <2>8 DEF Newline, Move
    <3>2. \A v \in Workers : worker[v].at \in InPrint => v = w
      BY <3>1
    <3>3. Len(out) % 2 = 1 /\ out[Len(out)] = <<"text", worker[w].i>>
      <4>1. Len(out) % 2 # 0
        BY <3>1
      <4>2. Len(out) % 2 = 1
        BY <4>1, Parity
      <4> QED
        BY <3>2, <4>2
    <3>4. /\ out' \in Seq({"text", "newline"} \X (0 .. Size))
          /\ Whole(out')
          /\ Len(out') % 2 = 0
      <4>1. Whole(out)
        BY DEF Whole
      <4> QED
        BY <3>1, <3>3, <4>1, WholeAppend
    <3>6. \A v \in Workers : worker'[v].at # "newline"
      BY <3>1, <3>2
    <3>7. mutex' = {v \in Workers : worker'[v].at \in InPrint}
      BY <3>1
    <3>5. LinesWhole'
      BY <3>4 DEF Whole
    <3>8. Len(out') % 2 # 1
      BY <3>4
    <3> HIDE DEF LinesWhole
    <3> QED
      BY <3>1, <3>4, <3>5, <3>6, <3>7, <3>8
  <2>9. CASE Unlock(w)
    <3>1. /\ worker[w].at = "unlock" /\ mutex' = mutex \ {w} /\ out' = out
          /\ \A v \in Workers : worker'[v].at = IF v = w THEN worker'[w].at ELSE worker[v].at
          /\ worker'[w].at \in {"idle", "get"}
      BY <2>9 DEF Unlock, Released, NextTurn, IdleWorker
    <3>2. \A v \in Workers : worker[v].at \in InPrint => v = w
      BY <3>1
    <3>3. mutex' = {v \in Workers : worker'[v].at \in InPrint}
      BY <3>1
    <3>4. Len(out) \in Nat /\ Len(out) % 2 = 0
      BY <3>1, <3>2
    <3> QED
      BY <3>1, <3>2, <3>3, <3>4
  <2> QED
    BY <1>4, <2>1, <2>2, <2>3, <2>4, <2>5, <2>6, <2>7, <2>8, <2>9 DEF WorkerStep
<1>5. CASE Crash BY <1>5 DEF Crash
<1>6. CASE EndScan BY <1>6 DEF EndScan
<1>7. CASE UNCHANGED scanVars BY <1>7 DEF scanVars
<1> QED
  BY <1>1, <1>2, <1>3, <1>4, <1>5, <1>6, <1>7 DEF ScanNext, ScanStep

-----------------------------------------------------------------------------
In(r, i) == i \in r[1] .. r[2] - 1
Holds(w, i) ==
    /\ i \in worker[w].i .. worker[w].end - 1
    /\ worker[w].at \in {"newline", "unlock"} => i # worker[w].i
Line(k, i) == out[k] = <<"text", i>>

\* Record i is in one range, with one thread or in one line, and nowhere else.
InOneRange(i) ==
    /\ \E r \in ranges : In(r, i) /\ \A s \in ranges : In(s, i) => s = r
    /\ \A w \in Workers : ~ Holds(w, i)
    /\ \A k \in 1 .. Len(out) : ~ Line(k, i)
WithOneThread(i) ==
    /\ \A r \in ranges : ~ In(r, i)
    /\ \E w \in Workers : Holds(w, i) /\ \A v \in Workers : Holds(v, i) => v = w
    /\ \A k \in 1 .. Len(out) : ~ Line(k, i)
InOneLine(i) ==
    /\ \A r \in ranges : ~ In(r, i)
    /\ \A w \in Workers : ~ Holds(w, i)
    /\ \E k \in 1 .. Len(out) : Line(k, i) /\ \A m \in 1 .. Len(out) : Line(m, i) => m = k

InOnePlace(i) == InOneRange(i) \/ WithOneThread(i) \/ InOneLine(i)
RecordsPlaced == ~ Resting \/ out # <<>> => \A i \in 0 .. Size - 1 : InOnePlace(i)

\* Being in one place says that there is just one place.
LEMMA PlacedOnce ==
    ASSUME RecordsPlaced
    PROVE  EachRecordOnce
<1> SUFFICES ASSUME NEW i \in 0 .. Size - 1, InOnePlace(i)
             PROVE  \E p : Places(i) = {p}
  BY DEF RecordsPlaced, EachRecordOnce
<1>1. Places(i) = {<<"range", r>> : r \in {r \in ranges : In(r, i)}}
                  \cup {<<"thread", w>> : w \in {w \in Workers : Holds(w, i)}}
                  \cup {<<"line", k>> : k \in {k \in 1 .. Len(out) : Line(k, i)}}
  BY DEF Places, In, Holds, Line
<1>2. CASE InOneRange(i)
  <2>1. PICK r \in ranges : In(r, i) /\ \A s \in ranges : In(s, i) => s = r
    BY <1>2 DEF InOneRange
  <2>2. Places(i) = {<<"range", r>>}
    BY <1>1, <1>2, <2>1 DEF InOneRange
  <2> QED
    BY <2>2
<1>3. CASE WithOneThread(i)
  <2>1. PICK w \in Workers : Holds(w, i) /\ \A v \in Workers : Holds(v, i) => v = w
    BY <1>3 DEF WithOneThread
  <2>2. Places(i) = {<<"thread", w>>}
    BY <1>1, <1>3, <2>1 DEF WithOneThread
  <2> QED
    BY <2>2
<1>4. CASE InOneLine(i)
  <2>1. PICK k \in 1 .. Len(out) : Line(k, i) /\ \A m \in 1 .. Len(out) : Line(m, i) => m = k
    BY <1>4 DEF InOneLine
  <2>2. Places(i) = {<<"line", k>>}
    BY <1>1, <1>4, <2>1 DEF InOneLine
  <2> QED
    BY <2>2
<1> QED
  BY <1>2, <1>3, <1>4 DEF InOnePlace

\* A step that moves no record leaves every record where it is.
LEMMA NothingMoves ==
    ASSUME RecordsPlaced, ranges' = ranges, out' = out, ~ Resting \/ (Resting' <=> Resting),
           \A w \in Workers, i \in 0 .. Size - 1 : Holds(w, i)' <=> Holds(w, i)
    PROVE  RecordsPlaced'
BY DEF RecordsPlaced, InOnePlace, InOneRange, WithOneThread, InOneLine, In, Line

\* What printing appends to the output.
LEMMA OutAppend ==
    ASSUME PrintsInTurn, NEW what \in {"text", "newline"}, NEW j \in 0 .. Size,
           out' = Append(out, <<what, j>>)
    PROVE  /\ Len(out) \in Nat
           /\ Len(out') = Len(out) + 1
           /\ \A k \in 1 .. Len(out) : out'[k] = out[k]
           /\ out'[Len(out) + 1] = <<what, j>>
BY DEF PrintsInTurn

\* Each step leaves every record in one place.
LEMMA PlacesStep ==
    ASSUME ThreadsOK, PrintsInTurn, RecordsPlaced, [ScanNext]_scanVars
    PROVE  RecordsPlaced'
<1> USE ScanAssumption
<1>0. /\ worker \in [Workers -> [at : Phases, i : 0 .. Size, end : 0 .. Size, lookup : Nat]]
      /\ \A r \in ranges : r \in (0 .. Size) \X (0 .. Size) /\ r[1] < r[2]
      /\ \A w \in Workers : worker[w].at = "idle" => worker[w].i = 0 /\ worker[w].end = 0
  BY DEF ThreadsOK, IdleWorker
<1>1. ASSUME NEW F \in Lists, BeginScan(F) PROVE RecordsPlaced'
  <2> SUFFICES ASSUME NEW i \in 0 .. Size - 1 PROVE InOneRange(i)'
    BY DEF RecordsPlaced, InOnePlace
  <2>1. ranges' = {<<0, Size>>} /\ In(<<0, Size>>, i)
    BY <1>1 DEF BeginScan, In
  <2>2. \A w \in Workers : ~ Holds(w, i)'
    BY <1>0, <1>1 DEF BeginScan, ThreadsOK, Resting, Holds
  <2>3. Len(out') = 0
    BY <1>1 DEF BeginScan
  <2> QED
    BY <2>1, <2>2, <2>3 DEF InOneRange, In
<1>2. ASSUME ~ Resting, NEW r \in ranges, Split(r) PROVE RecordsPlaced'
  <2> DEFINE m == (r[1] + r[2]) \div 2
  <2>1. /\ ranges' = (ranges \ {r}) \cup {<<r[1], m>>, <<m, r[2]>>}
        /\ out' = out /\ worker' = worker
        /\ r[1] + 1 < r[2]
    BY <1>2 DEF Split
  <2>2. m \in 0 .. Size /\ r[1] < m /\ m < r[2]
    BY <1>0, <2>1, SMT
  <2> HIDE DEF m
  <2> SUFFICES ASSUME NEW i \in 0 .. Size - 1, InOnePlace(i) PROVE InOnePlace(i)'
    BY <1>2 DEF RecordsPlaced
  <2>3. /\ In(r, i) => \/ In(<<r[1], m>>, i) /\ ~ In(<<m, r[2]>>, i)
                       \/ In(<<m, r[2]>>, i) /\ ~ In(<<r[1], m>>, i)
        /\ ~ In(r, i) => ~ In(<<r[1], m>>, i) /\ ~ In(<<m, r[2]>>, i)
    BY <1>0, <2>2 DEF In
  <2>4. (\A w \in Workers : Holds(w, i)' <=> Holds(w, i)) /\ \A k : Line(k, i)' <=> Line(k, i)
    BY <2>1 DEF Holds, Line
  <2>5. CASE In(r, i)
    <3>1. InOneRange(i) /\ \A s \in ranges : In(s, i) => s = r
      BY <2>5 DEF InOnePlace, InOneRange, WithOneThread, InOneLine
    <3>2. CASE In(<<r[1], m>>, i) /\ ~ In(<<m, r[2]>>, i)
      <4>1. \A s \in ranges' : In(s, i) => s = <<r[1], m>>
        BY <2>1, <3>1, <3>2
      <4> QED
        BY <2>1, <2>4, <3>1, <3>2, <4>1 DEF InOnePlace, InOneRange, In, Line
    <3>3. CASE In(<<m, r[2]>>, i) /\ ~ In(<<r[1], m>>, i)
      <4>1. \A s \in ranges' : In(s, i) => s = <<m, r[2]>>
        BY <2>1, <3>1, <3>3
      <4> QED
        BY <2>1, <2>4, <3>1, <3>3, <4>1 DEF InOnePlace, InOneRange, In, Line
    <3> QED
      BY <2>3, <2>5, <3>2, <3>3
  <2>6. CASE ~ In(r, i)
    <3>1. \A s : s \in ranges' /\ In(s, i) <=> s \in ranges /\ In(s, i)
      BY <2>1, <2>3, <2>6
    <3> QED
      BY <2>1, <2>4, <3>1 DEF InOnePlace, InOneRange, WithOneThread, InOneLine, In, Line
  <2> QED
    BY <2>5, <2>6
<1>3. ASSUME ~ Resting, NEW w \in Workers, NEW r \in ranges, Take(w, r) PROVE RecordsPlaced'
  <2> SUFFICES ASSUME NEW i \in 0 .. Size - 1, InOnePlace(i) PROVE InOnePlace(i)'
    BY <1>3 DEF RecordsPlaced
  <2>1. /\ ranges' = ranges \ {r} /\ out' = out
        /\ \A v \in Workers \ {w} : worker'[v] = worker[v]
        /\ worker'[w] = [at |-> "get", i |-> r[1], end |-> r[2], lookup |-> 1]
    BY <1>0, <1>3 DEF Take
  <2>2. /\ Holds(w, i)' <=> In(r, i)
        /\ ~ Holds(w, i)
        /\ \A v \in Workers \ {w} : Holds(v, i)' <=> Holds(v, i)
    BY <1>0, <1>3, <2>1 DEF Holds, In, Take
  <2>3. \A k : Line(k, i)' <=> Line(k, i)
    BY <2>1 DEF Line
  <2>4. CASE In(r, i)
    <3>1. InOneRange(i) /\ \A s \in ranges : In(s, i) => s = r
      BY <2>4 DEF InOnePlace, InOneRange, WithOneThread, InOneLine
    <3>2. \A s \in ranges' : ~ In(s, i)
      BY <2>1, <3>1
    <3>3. \A v \in Workers : Holds(v, i)' <=> v = w
      BY <2>2, <2>4, <3>1 DEF InOneRange
    <3>4. \A k \in 1 .. Len(out') : ~ Line(k, i)'
      BY <2>1, <2>3, <3>1 DEF InOneRange
    <3>5. WithOneThread(i)'
      BY <3>2, <3>3, <3>4 DEF WithOneThread, In
    <3> QED
      BY <3>5 DEF InOnePlace
  <2>5. CASE ~ In(r, i)
    <3>1. \A s : s \in ranges' /\ In(s, i) <=> s \in ranges /\ In(s, i)
      BY <2>1, <2>5
    <3>2. \A v \in Workers : Holds(v, i)' <=> Holds(v, i)
      BY <2>2, <2>5
    <3> QED
      BY <2>1, <2>3, <3>1, <3>2 DEF InOnePlace, InOneRange, WithOneThread, InOneLine, In, Line
  <2> QED
    BY <2>4, <2>5
<1>4. ASSUME ~ Resting, NEW w \in Workers, WorkerStep(w) PROVE RecordsPlaced'
  <2> USE <1>0 DEF Holds, Resting
  <2>1. CASE Find(w) BY <1>4, <2>1, NothingMoves DEF Find, Move
  <2>2. CASE Found(w) BY <1>4, <2>2, NothingMoves DEF Found
  <2>3. CASE Missed(w) BY <1>4, <2>3, NothingMoves DEF Missed, Move
  <2>4. CASE Emplace(w) BY <1>4, <2>4, NothingMoves DEF Emplace, Move
  <2>5. CASE Emplaced(w) BY <1>4, <2>5, NothingMoves DEF Emplaced
  <2>6. CASE Lock(w) BY <1>4, <2>6, NothingMoves DEF Lock, Move
  <2>7. CASE Text(w)
    <3> SUFFICES ASSUME NEW i \in 0 .. Size - 1, InOnePlace(i) PROVE InOnePlace(i)'
      BY <1>4 DEF RecordsPlaced
    <3>1. /\ ranges' = ranges
          /\ out' = Append(out, <<"text", worker[w].i>>)
          /\ \A v \in Workers \ {w} : worker'[v] = worker[v]
          /\ worker'[w].i = worker[w].i /\ worker'[w].end = worker[w].end
          /\ worker[w].at = "text" /\ worker'[w].at = "newline"
          /\ worker[w].i < worker[w].end /\ worker[w].i \in 0 .. Size
      BY <2>7 DEF Text, Move, ThreadsOK
    <3>2. /\ Len(out) \in Nat /\ Len(out') = Len(out) + 1
          /\ \A k \in 1 .. Len(out) : out'[k] = out[k]
          /\ out'[Len(out) + 1] = <<"text", worker[w].i>>
      BY <3>1, OutAppend
    <3>3. CASE i = worker[w].i
      <4>1. Holds(w, i) /\ ~ Holds(w, i)'
        BY <3>1, <3>3
      <4>2. WithOneThread(i) /\ \A v \in Workers : Holds(v, i) => v = w
        BY <4>1 DEF InOnePlace, InOneRange, WithOneThread, InOneLine
      <4>3. \A v \in Workers : ~ Holds(v, i)'
        BY <3>1, <4>1, <4>2
      <4>4. \A s \in ranges' : ~ In(s, i)
        BY <3>1, <4>2 DEF WithOneThread
      <4> HIDE DEF Holds
      <4>5. \A k \in 1 .. Len(out) : out[k] # <<"text", i>>
        BY <4>2 DEF WithOneThread, Line
      <4>6. \A k \in 1 .. Len(out') : out'[k] = <<"text", i>> <=> k = Len(out) + 1
        BY <3>2, <3>3, <4>5
      <4>7. \E k \in 1 .. Len(out') : /\ out'[k] = <<"text", i>>
                                     /\ \A m \in 1 .. Len(out') : out'[m] = <<"text", i>> => m = k
        <5>1. Len(out) + 1 \in 1 .. Len(out')
          BY <3>2
        <5> QED
          BY <4>6, <5>1
      <4>8. InOneLine(i)'
        BY <4>3, <4>4, <4>7 DEF InOneLine, In, Line
      <4> QED
        BY <4>8 DEF InOnePlace
    <3>4. CASE i # worker[w].i
      <4>1. \A v \in Workers : Holds(v, i)' <=> Holds(v, i)
        BY <3>1, <3>4
      <4>2. \A k : k \in 1 .. Len(out') /\ Line(k, i)' <=> k \in 1 .. Len(out) /\ Line(k, i)
        BY <3>2, <3>4 DEF Line
      <4> HIDE DEF Holds
      <4> QED
        BY <3>1, <4>1, <4>2 DEF InOnePlace, InOneRange, WithOneThread, InOneLine, In
    <3> QED
      BY <3>3, <3>4
  <2>8. CASE Newline(w)
    <3> SUFFICES ASSUME NEW i \in 0 .. Size - 1, InOnePlace(i) PROVE InOnePlace(i)'
      BY <1>4 DEF RecordsPlaced
    <3>1. /\ ranges' = ranges
          /\ out' = Append(out, <<"newline", worker[w].i>>)
          /\ \A v \in Workers \ {w} : worker'[v] = worker[v]
          /\ worker'[w].i = worker[w].i /\ worker'[w].end = worker[w].end
          /\ worker[w].at = "newline" /\ worker'[w].at = "unlock"
          /\ worker[w].i \in 0 .. Size
      BY <2>8 DEF Newline, Move
    <3>2. /\ Len(out) \in Nat /\ Len(out') = Len(out) + 1
          /\ \A k \in 1 .. Len(out) : out'[k] = out[k]
          /\ out'[Len(out) + 1] = <<"newline", worker[w].i>>
      BY <3>1, OutAppend
    <3>3. \A v \in Workers : Holds(v, i)' <=> Holds(v, i)
      BY <3>1
    <3>4. \A k : k \in 1 .. Len(out') /\ Line(k, i)' <=> k \in 1 .. Len(out) /\ Line(k, i)
      BY <3>2 DEF Line
    <3> HIDE DEF Holds
    <3> QED
      BY <3>1, <3>3, <3>4 DEF InOnePlace, InOneRange, WithOneThread, InOneLine, In
  <2>9. CASE Unlock(w)
    <3>1. /\ ranges' = ranges /\ out' = out /\ scanned' = scanned
          /\ \A v \in Workers \ {w} : worker'[v] = worker[v]
          /\ worker[w].at = "unlock" /\ worker[w].i < worker[w].end
          /\ worker'[w] = NextTurn(w)
      BY <2>9 DEF Unlock, ThreadsOK
    <3>2. \A i \in 0 .. Size - 1 : Holds(w, i)' <=> Holds(w, i)
      BY <3>1 DEF NextTurn, IdleWorker
    <3>3. \A v \in Workers \ {w}, i \in 0 .. Size - 1 : Holds(v, i)' <=> Holds(v, i)
      BY <3>1
    <3> HIDE DEF Holds
    <3> QED
      BY <1>4, <3>1, <3>2, <3>3, NothingMoves
  <2> QED
    BY <1>4, <2>1, <2>2, <2>3, <2>4, <2>5, <2>6, <2>7, <2>8, <2>9 DEF WorkerStep
<1>5. CASE Crash BY <1>5, NothingMoves DEF Crash, Holds, Resting
<1>6. CASE EndScan /\ ~ Resting BY <1>6, NothingMoves DEF EndScan, Holds
<1>7. CASE UNCHANGED scanVars BY <1>7, NothingMoves DEF scanVars, Holds, Resting
<1> QED
  BY <1>1, <1>2, <1>3, <1>4, <1>5, <1>6, <1>7 DEF ScanNext, ScanStep

-----------------------------------------------------------------------------
ScanInvariant == ThreadsOK /\ PrintsInTurn /\ MapOnlyRead /\ RecordsPlaced

\* The types follow from the parts on threads and printing.
LEMMA TypesFollow == ASSUME ThreadsOK, PrintsInTurn PROVE ScanTypeOK
<1>1. ASSUME NEW w \in Workers
      PROVE  \/ worker[w] = IdleWorker
             \/ /\ worker[w].i \in 0 .. worker[w].end - 1 /\ worker[w].end \in 1 .. Size
                /\ worker[w].lookup \in 1 .. Len(Lookups(worker[w].i, scanned)) + 1
                /\ ~ MoreLookups(w) => worker[w].at \in {"get", "text", "newline", "unlock"}
  <2>1. worker[w] \in [at : Phases, i : 0 .. Size, end : 0 .. Size, lookup : Nat]
    BY DEF ThreadsOK
  <2> QED
    BY <2>1, ScanAssumption DEF ThreadsOK, Phases, InMap, InPrint
<1> QED
  BY <1>1 DEF ScanTypeOK, ThreadsOK, PrintsInTurn, InPrint

-----------------------------------------------------------------------------
\* A step of a session is one of the scan, or leaves the scan alone.
LEMMA QueryStepScans ==
    ASSUME QueryNext \/ UNCHANGED queryVars
    PROVE  [ScanNext]_scanVars
<1>1. ASSUME NEW o, Make(o) PROVE UNCHANGED scanVars
  BY <1>1 DEF Make
<1>2. CASE MakeScan \/ MakeSelection \/ MakeJoin \/ MakePrint
  BY <1>1, <1>2 DEF MakeScan, MakeSelection, MakeJoin, MakePrint
<1>3. ASSUME NEW columns \in Requested, PreparePlan(columns) PROVE UNCHANGED scanVars
  BY <1>3 DEF PreparePlan
<1>4. ASSUME NEW select, NEW relations, Sql(select, relations) PROVE UNCHANGED scanVars
  BY <1>4 DEF Sql
<1>5. CASE RunQuery
  <2>1. (\E F : BeginScan(F)) \/ UNCHANGED scanVars
    BY <1>5 DEF RunQuery
  <2>2. ASSUME NEW F, BeginScan(F) PROVE F \in Lists
    BY <2>2 DEF BeginScan
  <2> QED
    BY <2>1, <2>2 DEF ScanNext
<1>6. CASE ScanStep
  BY <1>6 DEF ScanNext
<1>7. CASE UNCHANGED queryVars
  BY <1>7 DEF queryVars
<1> QED
  BY <1>2, <1>3, <1>4, <1>5, <1>6, <1>7 DEF QueryNext

\* A session's scans run as ParallelScan says, and keep its invariant.
THEOREM SessionsScan == QuerySpec => [][ScanNext]_scanVars /\ []ScanInvariant
<1>1. InitQuery => ScanInvariant
  BY InitThreads DEF InitQuery, ScanInvariant, RecordsPlaced, InitScan, Resting
<1>2. [QueryNext]_queryVars => [ScanNext]_scanVars
  BY QueryStepScans
<1>3. ScanInvariant /\ [ScanNext]_scanVars => ScanInvariant'
  BY ThreadsStep, PrintsStep, MapStep, PlacesStep DEF ScanInvariant
<1> QED
  BY <1>1, <1>2, <1>3, PTL DEF QuerySpec

\* In a session the shapes of the threads, the lock and the map are kept, and one
\* thread at a time prints.
THEOREM ScanTypes == QuerySpec => []ScanTypeOK
<1>1. ScanInvariant => ScanTypeOK
  BY TypesFollow DEF ScanInvariant
<1> QED
  BY <1>1, SessionsScan, PTL

\* The output of a query is whole lines, whatever its threads do.
THEOREM LinesAreWhole == QuerySpec => []LinesWhole
<1>1. ScanInvariant => LinesWhole
  BY DEF ScanInvariant, PrintsInTurn
<1> QED
  BY <1>1, SessionsScan, PTL

\* A query prints each record of the table once, however tbb cuts the ranges.
THEOREM RecordsPrintedOnce == QuerySpec => []EachRecordOnce
<1>1. ScanInvariant => EachRecordOnce
  BY PlacedOnce DEF ScanInvariant
<1> QED
  BY <1>1, SessionsScan, PTL

\* Only a query that begins before the map of common ancestors holds all it needs
\* can race for it.
THEOREM WarmQueriesDoNotRace == QuerySpec => RacesOnlyWhenCold
<1>1. ScanInvariant /\ [ScanNext]_scanVars => [raced' => raced \/ ~ warm]_scanVars
  BY MapStep DEF ScanInvariant
<1> QED
  BY <1>1, SessionsScan, PTL DEF RacesOnlyWhenCold
-----------------------------------------------------------------------------
\* The value that E makes of a function at place n depends only on its values at
\* places of a lower rank.
LooksBelow(D, V, rank, E) ==
    \A f, g \in [D -> V], n \in D :
        (\A m \in D : rank[m] < rank[n] => f[m] = g[m]) => E[f][n] = E[g][n]

HasFixpoint(D, V, E) == \E f \in [D -> V] : f = E[f]

\* What a recursive definition makes of a function is one of its values, if
\* its value at n only depends on those at places of a lower rank.
LEMMA RecursiveFunction ==
    ASSUME NEW N \in Nat, NEW D, NEW V, V # {}, NEW rank \in [D -> 0 .. N],
           NEW E \in [[D -> V] -> [D -> V]],
           LooksBelow(D, V, rank, E)
    PROVE  HasFixpoint(D, V, E)
<1>. DEFINE Upto(k) == \E f \in [D -> V] : \A n \in D : rank[n] < k => f[n] = E[f][n]
            T == {k \in Nat : ~ Upto(k)}
<1>1. ASSUME T # {} PROVE FALSE
  <2>1. PICK k \in T : \A j \in T : k <= j
    BY <1>1, LeastNumber
  <2>2. k # 0
    <3>1. PICK v \in V : TRUE
      OBVIOUS
    <3>2. [n \in D |-> v] \in [D -> V] /\ \A n \in D : ~ (rank[n] < 0)
      OBVIOUS
    <3>3. Upto(0)
      BY <3>2
    <3>. QED
      BY <2>1, <3>3
  <2>3. k - 1 \in Nat /\ k - 1 \notin T /\ k \in Nat
    <3>1. k \in Nat
      BY <2>1
    <3>2. k - 1 \in Nat
      BY <2>2, <3>1
    <3>3. ~ (k <= k - 1)
      BY <3>1
    <3>. QED
      BY <2>1, <3>1, <3>2, <3>3
  <2>4. PICK f \in [D -> V] : \A n \in D : rank[n] < k - 1 => f[n] = E[f][n]
    BY <2>3
  <2>. DEFINE g == E[f]
  <2>5. g \in [D -> V]
    OBVIOUS
  <2>6. ASSUME NEW n \in D, rank[n] < k PROVE g[n] = E[g][n]
    <3>1. ASSUME NEW m \in D, rank[m] < rank[n] PROVE f[m] = g[m]
      <4>1. rank[m] < k - 1
        BY <2>3, <2>6, <3>1
      <4>. QED
        BY <2>4, <4>1
    <3>. QED
      BY <2>5, <3>1 DEF LooksBelow
  <2>7. Upto(k)
    BY <2>5, <2>6
  <2>. QED
    BY <2>1, <2>7
<1>2. PICK f \in [D -> V] : \A n \in D : rank[n] < N + 1 => f[n] = E[f][n]
  <2>1. N + 1 \in Nat
    OBVIOUS
  <2>2. T = {}
    BY <1>1
  <2>3. Upto(N + 1)
    <3>. HIDE DEF Upto
    <3>. QED
      BY <2>1, <2>2
  <2>. QED
    BY <2>3
<1>3. \A n \in D : rank[n] < N + 1
  OBVIOUS
<1>4. E[f] \in [D -> V] /\ \A n \in D : f[n] = E[f][n]
  BY <1>2, <1>3
<1>. QED
  BY <1>4 DEF HasFixpoint

-----------------------------------------------------------------------------
Kids(n) == ToSet(plan[n].children)

\* What clients can make.
PlanOperators == 
    {ScanOp(t) : t \in Tables}
    \cup {SelectionOp(c, ps) : c \in Nat, ps \in Predicates}
    \cup {JoinOp(l, r, ps) : l \in Nat, r \in Nat, ps \in JoinPredicates}
    \cup {PrintOp(c) : c \in Nat}

\* A plan is a forest in which children come before their parents; a Print ends it
\* and is above everything else.
PlanIsForest ==
    /\ plan \in Seq(PlanOperators)
    /\ \A n \in 1 .. Len(plan) :
        /\ Kids(n) \subseteq 1 .. n - 1
        /\ plan[n].op = "join" => plan[n].children[1] # plan[n].children[2]
        /\ plan[n].op = "print" =>
              n = Len(plan) /\ \A c \in 1 .. n - 1 : \E p \in 1 .. n : c \in Kids(p)
        /\ \A p \in 1 .. Len(plan) : Kids(n) \cap Kids(p) # {} => n = p
PlanInvariant ==
    /\ PlanIsForest
    /\ Prepared => plan # <<>> /\ plan[Len(plan)].op = "print"

\* The recursive definition of Below has a solution: what is below an operator is the
\* operator and what is below its children, all made before it.
LEMMA BelowIs ==
    ASSUME PlanIsForest, NEW n \in 1 .. Len(plan)
    PROVE  /\ Below(n) \subseteq 1 .. n
           /\ Below(n) = {n} \cup UNION {Below(c) : c \in Kids(n)}
<1>. DEFINE N == Len(plan)
            V == SUBSET (1 .. N)
            E == [f \in [1 .. N -> V] |-> [m \in 1 .. N |-> {m} \cup UNION {f[c] : c \in Kids(m)}]]
            rank == [m \in 1 .. N |-> m]
<1>1. N \in Nat /\ \A m \in 1 .. N : Kids(m) \subseteq 1 .. m - 1 /\ Kids(m) \subseteq 1 .. N
  BY DEF PlanIsForest
<1>2. HasFixpoint(1 .. N, V, E)
  <2>1. E \in [[1 .. N -> V] -> [1 .. N -> V]]
    BY <1>1
  <2>2. rank \in [1 .. N -> 0 .. N] /\ V # {}
    BY <1>1
  <2>3. ASSUME NEW f \in [1 .. N -> V], NEW g \in [1 .. N -> V], NEW m \in 1 .. N,
               \A c \in 1 .. N : rank[c] < rank[m] => f[c] = g[c]
        PROVE  E[f][m] = E[g][m]
    <3>1. \A c \in Kids(m) : f[c] = g[c]
      BY <1>1, <2>3
    <3>2. {f[c] : c \in Kids(m)} = {g[c] : c \in Kids(m)}
      BY <3>1
    <3>. QED
      BY <3>2
  <2>. HIDE DEF E, rank, V, N
  <2>. QED
    <3>1. LooksBelow(1 .. N, V, rank, E)
      BY <2>3 DEF LooksBelow
    <3>2. N \in Nat
      BY <1>1
    <3>. QED
      BY <2>1, <2>2, <3>1, <3>2, RecursiveFunction
<1>3. PICK f \in [1 .. N -> V] : f = E[f]
  BY <1>2 DEF HasFixpoint
<1>. DEFINE B == CHOOSE b :
                    b = [m \in 1 .. Len(plan) |->
                            {m} \cup UNION {b[c] : c \in ToSet(plan[m].children)}]
<1>4. f = [m \in 1 .. Len(plan) |-> {m} \cup UNION {f[c] : c \in ToSet(plan[m].children)}]
  <2>1. E[f] = [m \in 1 .. Len(plan) |-> {m} \cup UNION {f[c] : c \in ToSet(plan[m].children)}]
    BY DEF Kids
  <2>. QED
    BY <1>3, <2>1
<1>5. B = [m \in 1 .. Len(plan) |-> {m} \cup UNION {B[c] : c \in ToSet(plan[m].children)}]
  BY <1>4
<1>6. \A m : Below(m) = B[m]
  BY DEF Below
<1>. HIDE DEF B
<1>7. \A m \in 1 .. N : Below(m) = {m} \cup UNION {Below(c) : c \in Kids(m)}
  BY <1>5, <1>6 DEF Kids
<1>8. ASSUME NEW k \in 1 .. N, ~ (Below(k) \subseteq 1 .. k) PROVE FALSE
  <2>. DEFINE T == {m \in 1 .. N : ~ (Below(m) \subseteq 1 .. m)}
  <2>1. T \subseteq Nat /\ T # {}
    BY <1>8
  <2>2. PICK m \in T : \A j \in T : m <= j
    BY <2>1, LeastNumber
  <2>3. \A c \in Kids(m) : Below(c) \subseteq 1 .. c /\ c \in 1 .. m - 1
    BY <1>1, <2>2
  <2>4. Below(m) \subseteq 1 .. m
    BY <1>7, <2>2, <2>3
  <2>. QED
    BY <2>2, <2>4
<1>. QED
  BY <1>7, <1>8

\* What the children of each kind of operator are.
LEMMA PlanIs ==
    ASSUME PlanIsForest
    PROVE  /\ Len(plan) \in Nat
           /\ \A n \in 1 .. Len(plan) : Kids(n) \subseteq 1 .. n - 1 /\ Kids(n) \subseteq 1 .. Len(plan)
           /\ \A n \in 1 .. Len(plan) : \E k \in {0, 1, 2} :
                 DOMAIN plan[n].children = 1 .. k /\ \A i \in 1 .. k : plan[n].children[i] \in Kids(n)
           /\ \A n \in 1 .. Len(plan) :
                 /\ plan[n].op \in {"scan", "selection", "join", "print"}
                 /\ plan[n].op = "scan" => Kids(n) = {}
                 /\ plan[n].op \in {"selection", "print"} => Kids(n) = {plan[n].children[1]}
                 /\ plan[n].op = "join" => Kids(n) = {plan[n].children[1], plan[n].children[2]}
<1>1. plan \in Seq(PlanOperators) /\ Len(plan) \in Nat
  BY DEF PlanIsForest
<1>2. ASSUME NEW n \in 1 .. Len(plan)
      PROVE  /\ \E k \in {0, 1, 2} :
                    DOMAIN plan[n].children = 1 .. k /\ \A i \in 1 .. k : plan[n].children[i] \in Kids(n)
             /\ plan[n].op \in {"scan", "selection", "join", "print"}
             /\ plan[n].op = "scan" => Kids(n) = {}
             /\ plan[n].op \in {"selection", "print"} => Kids(n) = {plan[n].children[1]}
             /\ plan[n].op = "join" => Kids(n) = {plan[n].children[1], plan[n].children[2]}
  <2>1. plan[n] \in PlanOperators
    BY <1>1, <1>2, ElementOfSeq
  <2>2. CASE \E t \in Tables : plan[n] = ScanOp(t)
    <3>1. plan[n].op = "scan" /\ plan[n].children = <<>>
      BY <2>2 DEF ScanOp
    <3>2. DOMAIN plan[n].children = 1 .. 0 /\ Kids(n) = {}
      BY <3>1 DEF Kids, ToSet
    <3>. QED
      BY <3>1, <3>2
  <2>3. CASE \E c \in Nat, ps \in Predicates : plan[n] = SelectionOp(c, ps)
    <3>. PICK c \in Nat, ps \in Predicates : plan[n] = SelectionOp(c, ps)
      BY <2>3
    <3>0. SelectionOp(c, ps).op = "selection" /\ SelectionOp(c, ps).children = <<c>>
      BY DEF SelectionOp
    <3>1. plan[n].op = "selection" /\ plan[n].children = <<c>>
      BY <3>0
    <3>2. DOMAIN plan[n].children = 1 .. 1 /\ plan[n].children[1] = c /\ Kids(n) = {c}
      BY <3>1 DEF Kids, ToSet
    <3>. QED
      BY <3>1, <3>2
  <2>4. CASE \E l \in Nat, r \in Nat, ps \in JoinPredicates : plan[n] = JoinOp(l, r, ps)
    <3>. PICK l \in Nat, r \in Nat, ps \in JoinPredicates : plan[n] = JoinOp(l, r, ps)
      BY <2>4
    <3>0. JoinOp(l, r, ps).op = "join" /\ JoinOp(l, r, ps).children = <<l, r>>
      BY DEF JoinOp
    <3>1. plan[n].op = "join" /\ plan[n].children = <<l, r>>
      BY <3>0
    <3>2. DOMAIN plan[n].children = 1 .. 2 /\ plan[n].children[1] = l /\ plan[n].children[2] = r
      BY <3>1
    <3>3. Kids(n) = {l, r}
      BY <3>2 DEF Kids, ToSet
    <3>. QED
      BY <3>1, <3>2, <3>3
  <2>5. CASE \E c \in Nat : plan[n] = PrintOp(c)
    <3>. PICK c \in Nat : plan[n] = PrintOp(c)
      BY <2>5
    <3>0. PrintOp(c).op = "print" /\ PrintOp(c).children = <<c>>
      BY DEF PrintOp
    <3>1. plan[n].op = "print" /\ plan[n].children = <<c>>
      BY <3>0
    <3>2. DOMAIN plan[n].children = 1 .. 1 /\ plan[n].children[1] = c /\ Kids(n) = {c}
      BY <3>1 DEF Kids, ToSet
    <3>. QED
      BY <3>1, <3>2
  <2>. QED
    BY <2>1, <2>2, <2>3, <2>4, <2>5 DEF PlanOperators
<1>3. \A n \in 1 .. Len(plan) : Kids(n) \subseteq 1 .. n - 1 /\ Kids(n) \subseteq 1 .. Len(plan)
  BY <1>1 DEF PlanIsForest
<1>. QED
  BY <1>1, <1>2, <1>3

\* An operator has one parent, which comes after it.
LEMMA ParentIs ==
    ASSUME PlanIsForest, NEW p \in 1 .. Len(plan), NEW n \in Kids(p)
    PROVE  Parent(plan, n) = p /\ n < p /\ n \in 1 .. Len(plan)
<1>1. n < p /\ n \in 1 .. Len(plan)
  BY PlanIs
<1>2. ASSUME NEW q \in 1 .. Len(plan), n \in ToSet(plan[q].children) PROVE q = p
  BY <1>2 DEF PlanIsForest, Kids
<1>3. n \in ToSet(plan[p].children)
  BY DEF Kids
<1>4. Parent(plan, n) = p
  BY <1>2, <1>3 DEF Parent
<1>. QED
  BY <1>1, <1>4

\* What is below an operator, but not the operator itself, has its parent there.
LEMMA BelowHasParent ==
    ASSUME PlanIsForest, NEW n \in 1 .. Len(plan), NEW s \in Below(n), s # n
    PROVE  \E p \in Below(n) : s \in Kids(p)
<1>. DEFINE T == {m \in 1 .. Len(plan) : \E t \in Below(m) : t # m /\ \A p \in Below(m) : t \notin Kids(p)}
<1>1. SUFFICES ASSUME n \in T PROVE FALSE
  OBVIOUS
<1>2. T \subseteq Nat /\ T # {}
  BY <1>1
<1>3. PICK m \in T : \A j \in T : m <= j
  BY <1>2, LeastNumber
<1>4. PICK t \in Below(m) : t # m /\ \A p \in Below(m) : t \notin Kids(p)
  BY <1>3
<1>5. Below(m) = {m} \cup UNION {Below(c) : c \in Kids(m)}
  BY <1>3, BelowIs
<1>6. PICK c \in Kids(m) : t \in Below(c)
  BY <1>4, <1>5
<1>7. c \in 1 .. m - 1 /\ c \in 1 .. Len(plan) /\ m \in Below(m) /\ Below(c) \subseteq Below(m)
  BY <1>3, <1>5, <1>6, PlanIs
<1>8. t # c
  BY <1>4, <1>6, <1>7
<1>9. c \in T
  BY <1>4, <1>6, <1>7, <1>8
<1>. QED
  BY <1>3, <1>7, <1>9

\* What is below something below an operator is below the operator.
LEMMA BelowIsTransitive ==
    ASSUME PlanIsForest, NEW n \in 1 .. Len(plan), NEW m \in Below(n)
    PROVE  m \in 1 .. Len(plan) /\ Below(m) \subseteq Below(n) /\ Kids(m) \subseteq Below(n)
<1>. DEFINE T == {k \in 1 .. Len(plan) : \E t \in Below(k) : ~ (Below(t) \subseteq Below(k))}
<1>1. ASSUME T # {} PROVE FALSE
  <2>1. PICK k \in T : \A j \in T : k <= j
    <3>1. T \subseteq Nat
      OBVIOUS
    <3>. HIDE DEF T
    <3>. QED
      BY <1>1, <3>1, LeastNumber
  <2>2. PICK t \in Below(k) : ~ (Below(t) \subseteq Below(k))
    BY <2>1
  <2>3. Below(k) = {k} \cup UNION {Below(c) : c \in Kids(k)}
    BY <2>1, BelowIs
  <2>4. PICK c \in Kids(k) : t \in Below(c)
    BY <2>2, <2>3
  <2>5. c \in 1 .. k - 1 /\ c \in 1 .. Len(plan) /\ Below(c) \subseteq Below(k)
    BY <2>1, <2>3, <2>4, PlanIs
  <2>6. c \in T
    BY <2>2, <2>4, <2>5
  <2>. QED
    BY <2>1, <2>5, <2>6
<1>2. Below(m) \subseteq Below(n)
  BY <1>1
<1>3. m \in 1 .. Len(plan)
  BY BelowIs, PlanIs
<1>4. \A c \in Kids(m) : c \in 1 .. Len(plan) /\ c \in Below(c) /\ Below(c) \subseteq Below(m)
  BY <1>3, BelowIs, PlanIs
<1>. QED
  BY <1>2, <1>3, <1>4

\* Nothing is below both children of a join.
LEMMA BelowApart ==
    ASSUME PlanIsForest, NEW n \in 1 .. Len(plan), NEW a \in Kids(n), NEW b \in Kids(n), a # b
    PROVE  Below(a) \cap Below(b) = {}
<1>1. a \in 1 .. n - 1 /\ b \in 1 .. n - 1 /\ a \in 1 .. Len(plan) /\ b \in 1 .. Len(plan)
  BY PlanIs
<1>2. ASSUME NEW c \in Kids(n), NEW d \in Kids(n), c # d, c \in Below(d) PROVE FALSE
  <2>1. d \in 1 .. n - 1 /\ d \in 1 .. Len(plan)
    BY PlanIs
  <2>2. PICK p \in Below(d) : c \in Kids(p)
    BY <1>2, <2>1, BelowHasParent
  <2>3. p \in 1 .. d /\ p \in 1 .. Len(plan)
    BY <2>1, <2>2, BelowIs, BelowIsTransitive
  <2>4. p = n
    BY <2>2, <2>3, ParentIs
  <2>. QED
    BY <2>1, <2>3, <2>4
<1>. DEFINE T == Below(a) \cap Below(b)
<1>3. SUFFICES ASSUME T # {} PROVE FALSE
  OBVIOUS
<1>4. T \subseteq 1 .. Len(plan) /\ Len(plan) \in Nat
  BY <1>1, BelowIsTransitive, PlanIs
<1>5. PICK s \in T : \A t \in T : t <= s
  <2>1. T \subseteq Nat /\ \A t \in T : t <= Len(plan)
    BY <1>4
  <2>. QED
    BY <1>3, <1>4, <2>1, GreatestNumber
<1>6. s # a /\ s # b
  BY <1>2, <1>5
<1>7. PICK p \in Below(a) : s \in Kids(p)
  BY <1>1, <1>5, <1>6, BelowHasParent
<1>8. PICK q \in Below(b) : s \in Kids(q)
  BY <1>1, <1>5, <1>6, BelowHasParent
<1>9. p = q /\ p \in 1 .. Len(plan) /\ s < p
  <2>1. p \in 1 .. Len(plan) /\ q \in 1 .. Len(plan)
    BY <1>1, <1>7, <1>8, BelowIsTransitive
  <2>. QED
    BY <1>7, <1>8, <2>1, ParentIs
<1>10. s \in Nat /\ p \in Nat /\ p \in T
  BY <1>4, <1>5, <1>7, <1>8, <1>9
<1>. QED
  BY <1>5, <1>9, <1>10

\* Everything is below the Print.
LEMMA AllBelowPrint ==
    ASSUME PlanInvariant, Prepared, NEW n \in 1 .. Len(plan)
    PROVE  /\ Len(plan) \in 1 .. Len(plan) /\ n \in Below(Len(plan))
           /\ n # Len(plan) => plan[n].op # "print"
<1>1. PlanIsForest /\ Len(plan) \in Nat /\ Len(plan) \in 1 .. Len(plan) /\ plan[Len(plan)].op = "print"
  BY PlanIs DEF PlanInvariant
<1>2. \A c \in 1 .. Len(plan) - 1 : \E p \in 1 .. Len(plan) : c \in Kids(p)
  BY <1>1 DEF PlanIsForest
<1>3. n # Len(plan) => plan[n].op # "print"
  BY <1>1 DEF PlanIsForest
<1>. DEFINE T == {c \in 1 .. Len(plan) : c \notin Below(Len(plan))}
<1>4. ASSUME T # {} PROVE FALSE
  <2>1. T \subseteq Nat /\ \A t \in T : t <= Len(plan)
    BY <1>1
  <2>2. PICK c \in T : \A t \in T : t <= c
    BY <1>1, <1>4, <2>1, GreatestNumber
  <2>3. Len(plan) \in Below(Len(plan))
    BY <1>1, BelowIs
  <2>4. c \in 1 .. Len(plan) - 1
    BY <1>1, <2>2, <2>3
  <2>5. PICK p \in 1 .. Len(plan) : c \in Kids(p)
    BY <1>2, <2>4
  <2>6. c < p /\ p \in Nat /\ c \in Nat
    BY <1>1, <2>2, <2>5, ParentIs
  <2>7. p \in Below(Len(plan))
    BY <2>2, <2>5, <2>6
  <2>8. c \in Below(Len(plan))
    BY <1>1, <2>5, <2>7, BelowIsTransitive
  <2>. QED
    BY <2>2, <2>8
<1>. QED
  BY <1>1, <1>3, <1>4

-----------------------------------------------------------------------------
\* A client that makes an operator out of loose ones keeps the plan a forest.
LEMMA MakeKeepsForest ==
    ASSUME PlanInvariant, NEW o \in PlanOperators, Make(o),
           o.op = "join" => o.children[1] # o.children[2],
           o.op = "print" => Loose(plan) \subseteq ToSet(o.children)
    PROVE  PlanInvariant'
<1>. PICK N : N = Len(plan)
  OBVIOUS
<1>1. PlanIsForest /\ plan \in Seq(PlanOperators) /\ N \in Nat
  BY PlanIs DEF PlanInvariant, PlanIsForest
<1>2. plan' = Append(plan, o) /\ ~ Prepared' /\ Made("print") = 0 /\ ToSet(o.children) \subseteq Loose(plan)
  BY DEF Make, Prepared
<1>3. /\ plan' \in Seq(PlanOperators) /\ Len(plan') = N + 1 /\ plan'[N + 1] = o
      /\ \A n \in 1 .. N : plan'[n] = plan[n]
  BY <1>1, <1>2
<1>4. \A n \in 1 .. N : plan[n].op # "print"
  <2>. DEFINE P == {n \in 1 .. N : plan[n].op = "print"}
  <2>1. IsFiniteSet(P)
    <3>1. IsFiniteSet(1 .. N) /\ P \in SUBSET (1 .. N)
      BY <1>1, FS_Interval
    <3>. QED
      BY <3>1, FS_Subset
  <2>2. P = {}
    BY <1>2, <2>1, FS_EmptySet DEF Made
  <2>. QED
    BY <2>2
<1>5. /\ \A n \in 1 .. N : Kids(n)' = Kids(n)
      /\ Kids(N + 1)' = ToSet(o.children)
  BY <1>3 DEF Kids
<1>6. \A c : c \in Loose(plan) <=> c \in 1 .. N /\ \A p \in 1 .. N : c \notin Kids(p)
  BY DEF Loose, Kids
<1>7. ASSUME NEW n \in 1 .. N + 1 PROVE Kids(n)' \subseteq 1 .. n - 1
  <2>1. CASE n = N + 1
    BY <1>1, <1>2, <1>5, <1>6, <2>1
  <2>2. CASE n \in 1 .. N
    BY <1>1, <1>5, <2>2, PlanIs
  <2>. QED
    BY <1>1, <2>1, <2>2
<1>8. ASSUME NEW n \in 1 .. N + 1 PROVE plan'[n].op = "join" => plan'[n].children[1] # plan'[n].children[2]
  BY <1>1, <1>3 DEF PlanIsForest
<1>9. ASSUME NEW n \in 1 .. N + 1, plan'[n].op = "print"
      PROVE  n = N + 1 /\ \A c \in 1 .. n - 1 : \E p \in 1 .. n : c \in Kids(p)'
  <2>1. n = N + 1 /\ o.op = "print"
    BY <1>1, <1>3, <1>4, <1>9
  <2>2. ASSUME NEW c \in 1 .. N PROVE \E p \in 1 .. N + 1 : c \in Kids(p)'
    <3>1. CASE c \in Loose(plan)
      <4>1. c \in Kids(N + 1)' /\ N + 1 \in 1 .. N + 1
        BY <1>1, <1>5, <2>1, <3>1
      <4>. QED
        BY <4>1
    <3>2. CASE c \notin Loose(plan)
      <4>1. PICK p \in 1 .. N : c \in Kids(p)
        BY <1>6, <3>2
      <4>2. p \in 1 .. N + 1 /\ c \in Kids(p)'
        BY <1>1, <1>5, <4>1
      <4>. QED
        BY <4>2
    <3>. QED
      BY <3>1, <3>2
  <2>. QED
    BY <1>1, <2>1, <2>2
<1>10. ASSUME NEW n \in 1 .. N + 1, NEW p \in 1 .. N + 1, NEW c, c \in Kids(n)', c \in Kids(p)'
       PROVE  n = p
  <2>1. CASE n \in 1 .. N /\ p \in 1 .. N
    <3>1. c \in Kids(n) \cap Kids(p)
      BY <1>5, <1>10, <2>1
    <3>. QED
      BY <1>1, <2>1, <3>1 DEF PlanIsForest
  <2>2. CASE n = N + 1 /\ p \in 1 .. N
    BY <1>2, <1>5, <1>6, <1>10, <2>2
  <2>3. CASE p = N + 1 /\ n \in 1 .. N
    BY <1>2, <1>5, <1>6, <1>10, <2>3
  <2>. QED
    BY <1>1, <2>1, <2>2, <2>3
<1>11. PlanIsForest'
  <2>1. \A n, p \in 1 .. N + 1 : Kids(n)' \cap Kids(p)' # {} => n = p
    BY <1>10
  <2>. QED
    BY <1>3, <1>7, <1>8, <1>9, <2>1 DEF PlanIsForest
<1>. QED
  BY <1>2, <1>11 DEF PlanInvariant

\* A session begins with no plan.
LEMMA InitPlan == ASSUME InitQuery PROVE PlanInvariant
<1>1. plan = <<>> /\ required = <<>> /\ Len(plan) = 0
  BY DEF InitQuery
<1>2. plan \in Seq(PlanOperators)
  BY <1>1
<1>. QED
  BY <1>1, <1>2 DEF PlanInvariant, PlanIsForest, Prepared

\* Every step of a session keeps the plan a forest with a Print on top.
LEMMA PlanStep ==
    ASSUME PlanInvariant, QueryNext \/ UNCHANGED queryVars
    PROVE  PlanInvariant'
<1>1. ASSUME plan' = plan, required' = required PROVE PlanInvariant'
  BY <1>1 DEF PlanInvariant, PlanIsForest, Kids, Prepared
<1>2. CASE MakeScan
  <2>1. PICK t \in Tables : Make(ScanOp(t))
    BY <1>2 DEF MakeScan
  <2>2. ScanOp(t) \in PlanOperators /\ ScanOp(t).op = "scan"
    BY DEF PlanOperators, ScanOp
  <2>. QED
    BY <2>1, <2>2, MakeKeepsForest
<1>3. CASE MakeSelection
  <2>1. PICK c \in Loose(plan), ps \in Predicates : Make(SelectionOp(c, ps))
    BY <1>3 DEF MakeSelection
  <2>2. c \in Nat
    BY DEF Loose
  <2>3. SelectionOp(c, ps) \in PlanOperators
    BY <2>2 DEF PlanOperators
  <2>4. SelectionOp(c, ps).op = "selection"
    BY DEF SelectionOp
  <2>. QED
    BY <2>1, <2>3, <2>4, MakeKeepsForest
<1>4. CASE MakeJoin
  <2>1. PICK l, r \in Loose(plan), ps \in JoinPredicates : l # r /\ Make(JoinOp(l, r, ps))
    BY <1>4 DEF MakeJoin
  <2>2. l \in Nat /\ r \in Nat
    BY DEF Loose
  <2>3. JoinOp(l, r, ps) \in PlanOperators
    BY <2>2 DEF PlanOperators
  <2>4. JoinOp(l, r, ps).op = "join" /\ JoinOp(l, r, ps).children[1] = l /\ JoinOp(l, r, ps).children[2] = r
    BY DEF JoinOp
  <2>. QED
    BY <2>1, <2>3, <2>4, MakeKeepsForest
<1>5. CASE MakePrint
  <2>1. PICK c \in Loose(plan) : Loose(plan) = {c} /\ Make(PrintOp(c))
    BY <1>5 DEF MakePrint
  <2>2. c \in Nat
    BY DEF Loose
  <2>3. PrintOp(c) \in PlanOperators
    BY <2>2 DEF PlanOperators
  <2>4. PrintOp(c).op = "print" /\ PrintOp(c).children = <<c>>
    BY DEF PrintOp
  <2>5. ToSet(PrintOp(c).children) = {c}
    BY <2>4 DEF ToSet
  <2>. QED
    BY <2>1, <2>3, <2>4, <2>5, MakeKeepsForest
<1>6. CASE \E columns \in Requested : PreparePlan(columns)
  <2>1. plan' = plan /\ plan # <<>> /\ plan[Len(plan)].op = "print"
    BY <1>6 DEF PreparePlan
  <2>2. PlanIsForest'
    BY <2>1 DEF PlanInvariant, PlanIsForest, Kids
  <2>. QED
    BY <2>1, <2>2 DEF PlanInvariant
<1>7. CASE \E select \in Requested \cup {<<>>}, relations \in {<<>>} \cup {<<t>> : t \in Tables} :
              Sql(select, relations)
  BY <1>1, <1>7 DEF Sql
<1>8. CASE RunQuery
  BY <1>1, <1>8 DEF RunQuery, planVars
<1>9. CASE ScanStep /\ UNCHANGED planVars
  BY <1>1, <1>9 DEF planVars
<1>10. CASE UNCHANGED queryVars
  BY <1>1, <1>10 DEF queryVars, planVars
<1>. QED
  BY <1>2, <1>3, <1>4, <1>5, <1>6, <1>7, <1>8, <1>9, <1>10 DEF QueryNext

-----------------------------------------------------------------------------
\* The statements of the plan.  Only a join uses fields.
UsedFields ==
    UNION {ToSet(required[n]) \cup ToSet(SideOf(plan[n].predicates, 1))
           \cup ToSet(SideOf(plan[n].predicates, 2)) \cup TupleFields(plan, required, n) :
              n \in 1 .. Len(plan)}
Statements ==
    {s \in [what : {"scan", "if", "probe", "end", "lock", "print", "unlock", "insert", "map", "finalize", "mutex"},
            by : 1 .. Len(plan), uses : SUBSET UsedFields,
            declares : SUBSET UsedFields, reads : SUBSET UsedFields] :
        s.what \notin {"insert", "probe"} => s.uses = {}}

\* The statements of a block.
LEMMA Sandwich ==
    ASSUME NEW S, NEW a \in S, NEW b \in S, NEW mid \in Seq(S), NEW c, c = <<a>> \o mid \o <<b>>
    PROVE  /\ c \in Seq(S) /\ Len(c) = Len(mid) + 2 /\ c[1] = a /\ c[Len(mid) + 2] = b
           /\ \A k \in 1 .. Len(mid) : c[1 + k] = mid[k]
<1>. PICK d : d = <<a>> \o mid
  OBVIOUS
<1>1. <<a>> \in Seq(S) /\ <<b>> \in Seq(S) /\ Len(<<a>>) = 1 /\ Len(<<b>>) = 1 /\ Len(mid) \in Nat
  OBVIOUS
<1>2. /\ d \in Seq(S) /\ Len(d) = 1 + Len(mid)
      /\ \A k \in 1 .. 1 + Len(mid) : d[k] = IF k <= 1 THEN <<a>>[k] ELSE mid[k - 1]
  BY <1>1, ConcatProperties
<1>3. /\ c \in Seq(S) /\ Len(c) = Len(d) + 1
      /\ \A k \in 1 .. Len(d) + 1 : c[k] = IF k <= Len(d) THEN d[k] ELSE <<b>>[k - Len(d)]
  BY <1>1, <1>2, ConcatProperties
<1>4. c[1] = a
  BY <1>1, <1>2, <1>3
<1>5. c[Len(mid) + 2] = b
  BY <1>1, <1>2, <1>3
<1>6. ASSUME NEW k \in 1 .. Len(mid) PROVE c[1 + k] = mid[k]
  <2>1. c[1 + k] = d[1 + k]
    BY <1>1, <1>2, <1>3
  <2>2. d[1 + k] = mid[k]
    BY <1>1, <1>2
  <2>. QED
    BY <2>1, <2>2
<1>. QED
  BY <1>1, <1>2, <1>3, <1>4, <1>5, <1>6

\* Most statements use no field and read none.
LEMMA PlainStatement ==
    ASSUME NEW p \in 1 .. Len(plan),
           NEW w \in {"if", "end", "lock", "print", "unlock", "map", "finalize", "mutex"}
    PROVE  /\ Stmt(w, p, {}, {}, {}) \in Statements
           /\ Stmt(w, p, {}, {}, {}).what = w /\ Stmt(w, p, {}, {}, {}).by = p
BY DEF Stmt, Statements

\* The fields of all statements are fields that the plan is about.
LEMMA FieldsAreUsed ==
    ASSUME NEW n \in 1 .. Len(plan)
    PROVE  /\ ToSet(required[n]) \in SUBSET UsedFields /\ {} \in SUBSET UsedFields
           /\ ToSet(SideOf(plan[n].predicates, 1)) \in SUBSET UsedFields
           /\ ToSet(SideOf(plan[n].predicates, 2)) \in SUBSET UsedFields
           /\ TupleFields(plan, required, n) \in SUBSET UsedFields
BY DEF UsedFields

\* A block of operator p, which a statement opens, around a part.
Encloses(c, what, p, part) ==
    /\ c \in Seq(Statements) /\ Len(c) = Len(part) + 2
    /\ c[1].what = what /\ c[1].by = p /\ c[Len(part) + 2].what = "end"
    /\ \A k \in 1 .. Len(part) : c[1 + k] = part[k]

\* What operators emit around what is emitted above them.
LEMMA SelectionEmits ==
    ASSUME NEW p \in 1 .. Len(plan), NEW above \in Seq(Statements), NEW c, c = SelectionConsumes(p, above)
    PROVE  Encloses(c, "if", p, above)
<1>. PICK a : a = Stmt("if", p, {}, {}, {})
  OBVIOUS
<1>. PICK b : b = Stmt("end", p, {}, {}, {})
  OBVIOUS
<1>1. a \in Statements /\ b \in Statements /\ a.what = "if" /\ a.by = p /\ b.what = "end"
  BY PlainStatement
<1>2. c = <<a>> \o above \o <<b>>
  BY DEF SelectionConsumes, End
<1>. QED
  BY <1>1, <1>2, Sandwich DEF Encloses

\* A join inserts the tuples of its left child.
LEMMA JoinEmitsLeft ==
    ASSUME NEW p \in 1 .. Len(plan), NEW c,
           c = JoinConsumesLeft(p, plan[p].predicates, TupleFields(plan, required, p))
    PROVE  /\ c \in Seq(Statements) /\ Len(c) = 1 /\ c[1].what = "insert" /\ c[1].by = p
           /\ c[1].uses = ToSet(SideOf(plan[p].predicates, 1)) \cup TupleFields(plan, required, p)
<1>. PICK u : u = ToSet(SideOf(plan[p].predicates, 1)) \cup TupleFields(plan, required, p)
  OBVIOUS
<1>. PICK a : a = Stmt("insert", p, u, {}, {})
  OBVIOUS
<1>1. a \in Statements /\ a.what = "insert" /\ a.by = p /\ a.uses = u
  <2>1. u \in SUBSET UsedFields /\ {} \in SUBSET UsedFields
    BY FieldsAreUsed
  <2>. QED
    BY <2>1 DEF Stmt, Statements
<1>2. c = <<a>>
  BY DEF JoinConsumesLeft
<1>3. c \in Seq(Statements) /\ Len(c) = 1 /\ c[1] = a
  BY <1>1, <1>2
<1>. QED
  BY <1>1, <1>3

\* It looks up those of its right child, around what is emitted above it.
LEMMA JoinEmitsRight ==
    ASSUME NEW p \in 1 .. Len(plan), NEW above \in Seq(Statements), NEW c,
           c = JoinConsumesRight(p, plan[p].predicates, TupleFields(plan, required, p), above)
    PROVE  /\ Encloses(c, "probe", p, above)
           /\ c[1].uses = ToSet(SideOf(plan[p].predicates, 2)) /\ AtHand(c[1]) = TupleFields(plan, required, p)
<1>. PICK u : u = ToSet(SideOf(plan[p].predicates, 2))
  OBVIOUS
<1>. PICK v : v = TupleFields(plan, required, p)
  OBVIOUS
<1>. PICK a : a = Stmt("probe", p, u, v, {})
  OBVIOUS
<1>. PICK b : b = Stmt("end", p, {}, {}, {})
  OBVIOUS
<1>1. /\ a \in Statements /\ b \in Statements /\ a.what = "probe" /\ a.by = p /\ b.what = "end"
      /\ a.uses = u /\ AtHand(a) = v
  <2>1. u \in SUBSET UsedFields /\ v \in SUBSET UsedFields /\ {} \in SUBSET UsedFields
    BY FieldsAreUsed
  <2>2. /\ a \in Statements /\ a.what = "probe" /\ a.by = p /\ a.uses = u
        /\ a.declares = v /\ a.reads = {}
    BY <2>1 DEF Stmt, Statements
  <2>. QED
    BY <2>2, PlainStatement DEF AtHand
<1>2. c = <<a>> \o above \o <<b>>
  BY DEF JoinConsumesRight, End
<1>. QED
  BY <1>1, <1>2, Sandwich DEF Encloses

\* A Print prints them.
LEMMA PrintEmits ==
    ASSUME NEW p \in 1 .. Len(plan), NEW c, c = PrintConsumes(p)
    PROVE  /\ c \in Seq(Statements) /\ Len(c) = 3
           /\ \A k \in 1 .. 3 : c[k].what \in {"lock", "print", "unlock"}
<1>. PICK a : a = Stmt("lock", p, {}, {}, {})
  OBVIOUS
<1>. PICK b : b = Stmt("print", p, {}, {}, {})
  OBVIOUS
<1>. PICK d : d = Stmt("unlock", p, {}, {}, {})
  OBVIOUS
<1>1. /\ a \in Statements /\ b \in Statements /\ d \in Statements
      /\ a.what = "lock" /\ b.what = "print" /\ d.what = "unlock"
  BY PlainStatement
<1>2. c = <<a, b, d>>
  BY DEF PrintConsumes
<1>. QED
  BY <1>1, <1>2

\* A scan is a loop around what its parents emit.
LEMMA ScanEmits ==
    ASSUME NEW p \in 1 .. Len(plan), NEW mid \in Seq(Statements), NEW c, c = ScanCode(p, required[p], mid)
    PROVE  Encloses(c, "scan", p, mid) /\ AtHand(c[1]) = ToSet(required[p])
<1>. PICK v : v = ToSet(required[p])
  OBVIOUS
<1>. PICK a : a = Stmt("scan", p, {}, {}, v)
  OBVIOUS
<1>. PICK b : b = Stmt("end", p, {}, {}, {})
  OBVIOUS
<1>1. /\ a \in Statements /\ b \in Statements /\ a.what = "scan" /\ a.by = p /\ b.what = "end"
      /\ AtHand(a) = v
  <2>1. v \in SUBSET UsedFields /\ {} \in SUBSET UsedFields
    BY FieldsAreUsed
  <2>2. a \in Statements /\ a.what = "scan" /\ a.by = p /\ a.declares = {} /\ a.reads = v
    BY <2>1 DEF Stmt, Statements
  <2>. QED
    BY <2>2, PlainStatement DEF AtHand
<1>2. c = <<a>> \o mid \o <<b>>
  BY DEF ScanCode, End
<1>. QED
  BY <1>1, <1>2, Sandwich DEF Encloses

\* The code of join p around that of its children.
Joins(c, p, left, right) ==
    /\ c \in Seq(Statements) /\ Len(c) = Len(left) + 2 + Len(right)
    /\ c[1].what = "map"
    /\ \A k \in 1 .. Len(left) : c[1 + k] = left[k]
    /\ c[Len(left) + 2].what = "finalize" /\ c[Len(left) + 2].by = p
    /\ \A k \in 1 .. Len(right) : c[Len(left) + 2 + k] = right[k]

\* JoinCode emits the code of both children, each as it is.
LEMMA JoinEmits ==
    ASSUME NEW p \in 1 .. Len(plan), NEW left \in Seq(Statements), NEW right \in Seq(Statements),
           NEW c, c = JoinCode(p, left, right)
    PROVE  Joins(c, p, left, right)
<1>. PICK a : a = Stmt("map", p, {}, {}, {})
  OBVIOUS
<1>. PICK b : b = Stmt("finalize", p, {}, {}, {})
  OBVIOUS
<1>. PICK d : d = <<a>> \o left \o <<b>>
  OBVIOUS
<1>1. a \in Statements /\ b \in Statements /\ a.what = "map" /\ b.what = "finalize" /\ b.by = p
  BY PlainStatement
<1>2. /\ d \in Seq(Statements) /\ Len(d) = Len(left) + 2 /\ d[1] = a /\ d[Len(left) + 2] = b
      /\ \A k \in 1 .. Len(left) : d[1 + k] = left[k]
  BY <1>1, Sandwich
<1>3. c = d \o right
  BY DEF JoinCode
<1>4. /\ c \in Seq(Statements) /\ Len(c) = Len(d) + Len(right)
      /\ \A k \in 1 .. Len(d) + Len(right) : c[k] = IF k <= Len(d) THEN d[k] ELSE right[k - Len(d)]
  BY <1>2, <1>3, ConcatProperties
<1>5. Len(left) \in Nat /\ Len(right) \in Nat
  OBVIOUS
<1>6. c[1] = a /\ c[Len(left) + 2] = b
  BY <1>2, <1>4, <1>5
<1>7. ASSUME NEW k \in 1 .. Len(left) PROVE c[1 + k] = left[k]
  <2>1. 1 + k \in 1 .. Len(d) + Len(right) /\ 1 + k <= Len(d)
    BY <1>2, <1>5
  <2>. QED
    BY <1>2, <1>4, <2>1
<1>8. ASSUME NEW k \in 1 .. Len(right) PROVE c[Len(left) + 2 + k] = right[k]
  <2>1. Len(d) + k \in 1 .. Len(d) + Len(right) /\ ~ (Len(d) + k <= Len(d)) /\ (Len(d) + k) - Len(d) = k
    BY <1>2, <1>5
  <2>2. c[Len(d) + k] = right[k]
    BY <1>4, <2>1
  <2>. QED
    BY <1>2, <2>2
<1>. QED
  BY <1>1, <1>2, <1>4, <1>6, <1>7, <1>8 DEF Joins

\* A Print declares its lock first.
LEMMA PrintCodeIs ==
    ASSUME NEW p \in 1 .. Len(plan), NEW child \in Seq(Statements), NEW c, c = PrintCode(p, child)
    PROVE  /\ c \in Seq(Statements) /\ Len(c) = 1 + Len(child) /\ c[1].what = "mutex"
           /\ \A k \in 1 .. Len(child) : c[1 + k] = child[k]
<1>. PICK a : a = Stmt("mutex", p, {}, {}, {})
  OBVIOUS
<1>1. a \in Statements /\ a.what = "mutex"
  BY PlainStatement
<1>2. c = <<a>> \o child
  BY DEF PrintCode
<1>3. <<a>> \in Seq(Statements) /\ Len(<<a>>) = 1 /\ <<a>>[1] = a /\ Len(child) \in Nat
  BY <1>1
<1>4. /\ c \in Seq(Statements) /\ Len(c) = 1 + Len(child)
      /\ \A k \in 1 .. 1 + Len(child) : c[k] = IF k <= 1 THEN <<a>>[k] ELSE child[k - 1]
  BY <1>2, <1>3, ConcatProperties
<1>5. ASSUME NEW k \in 1 .. Len(child) PROVE c[1 + k] = child[k]
  <2>1. 1 + k \in 1 .. 1 + Len(child) /\ ~ (1 + k <= 1) /\ (1 + k) - 1 = k
    BY <1>3
  <2>. QED
    BY <1>4, <2>1
<1>6. c[1] = a
  BY <1>3, <1>4
<1>. QED
  BY <1>1, <1>4, <1>5, <1>6

-----------------------------------------------------------------------------
\* What a statement adds to the number of open blocks.
Depth(s) == IF s.what \in {"scan", "if", "probe"} THEN 1 ELSE IF s.what = "end" THEN -1 ELSE 0

\* A statement changes the number of open blocks by its depth.
LEMMA LevelIs ==
    ASSUME NEW S, NEW code \in Seq(S)
    PROVE  /\ Level(code, 1) = 0
           /\ \A k \in 1 .. Len(code) + 1 : Level(code, k) \in Int
           /\ \A k \in 1 .. Len(code) : Level(code, k + 1) = Level(code, k) + Depth(code[k])
<1>. DEFINE open(k) == {j \in 1 .. k - 1 : code[j].what \in {"scan", "if", "probe"}}
            close(k) == {j \in 1 .. k - 1 : code[j].what = "end"}
<1>1. Len(code) \in Nat
  OBVIOUS
<1>2. ASSUME NEW k \in Nat
      PROVE  IsFiniteSet(open(k)) /\ IsFiniteSet(close(k))
  <2>1. IsFiniteSet(1 .. k - 1) /\ open(k) \in SUBSET (1 .. k - 1) /\ close(k) \in SUBSET (1 .. k - 1)
    BY FS_Interval
  <2>. QED
    BY <2>1, FS_Subset
<1>3. \A k : Level(code, k) = Cardinality(open(k)) - Cardinality(close(k))
  BY DEF Level
<1>4. Level(code, 1) = 0
  <2>1. open(1) = {} /\ close(1) = {}
    OBVIOUS
  <2>2. Cardinality(open(1)) = 0 /\ Cardinality(close(1)) = 0
    BY <2>1, FS_EmptySet
  <2>. QED
    BY <1>3, <2>2
<1>5. ASSUME NEW k \in 1 .. Len(code) + 1 PROVE Level(code, k) \in Int
  <2>1. Cardinality(open(k)) \in Nat /\ Cardinality(close(k)) \in Nat
    <3>1. k \in Nat
      BY <1>1
    <3>. QED
      BY <1>2, <3>1, FS_CardinalityType
  <2>. HIDE DEF open, close
  <2>. QED
    BY <1>3, <2>1
<1>6. ASSUME NEW k \in 1 .. Len(code) PROVE Level(code, k + 1) = Level(code, k) + Depth(code[k])
  <2>1. k \in Nat /\ k + 1 \in Nat /\ k \notin open(k) /\ k \notin close(k)
    BY <1>1
  <2>2. /\ open(k + 1) = IF code[k].what \in {"scan", "if", "probe"} THEN open(k) \cup {k} ELSE open(k)
        /\ close(k + 1) = IF code[k].what = "end" THEN close(k) \cup {k} ELSE close(k)
    BY <2>1
  <2>3. IsFiniteSet(open(k)) /\ IsFiniteSet(close(k))
    BY <1>2, <2>1
  <2>4. Cardinality(open(k)) \in Nat /\ Cardinality(close(k)) \in Nat
    BY <2>3, FS_CardinalityType
  <2>5. /\ Cardinality(open(k) \cup {k}) = Cardinality(open(k)) + 1
        /\ Cardinality(close(k) \cup {k}) = Cardinality(close(k)) + 1
    BY <2>1, <2>3, FS_AddElement
  <2>6. /\ Level(code, k) = Cardinality(open(k)) - Cardinality(close(k))
        /\ Level(code, k + 1) = Cardinality(open(k + 1)) - Cardinality(close(k + 1))
    BY <1>3
  <2>. HIDE DEF open, close
  <2>7. CASE code[k].what \in {"scan", "if", "probe"}
    <3>1. code[k].what # "end" /\ Depth(code[k]) = 1
      BY <2>7 DEF Depth
    <3>2. open(k + 1) = open(k) \cup {k} /\ close(k + 1) = close(k)
      BY <2>2, <2>7, <3>1
    <3>3. /\ Cardinality(open(k + 1)) = Cardinality(open(k)) + 1
          /\ Cardinality(close(k + 1)) = Cardinality(close(k))
      BY <2>5, <3>2, Zenon
    <3>. QED
      BY <2>4, <2>6, <3>1, <3>3
  <2>8. CASE code[k].what = "end"
    <3>1. Depth(code[k]) = -1 /\ code[k].what \notin {"scan", "if", "probe"}
      BY <2>8 DEF Depth
    <3>2. close(k + 1) = close(k) \cup {k} /\ open(k + 1) = open(k)
      BY <2>2, <2>8, <3>1
    <3>3. /\ Cardinality(close(k + 1)) = Cardinality(close(k)) + 1
          /\ Cardinality(open(k + 1)) = Cardinality(open(k))
      BY <2>5, <3>2, Zenon
    <3>. QED
      BY <2>4, <2>6, <3>1, <3>3
  <2>9. CASE code[k].what \notin {"scan", "if", "probe"} /\ code[k].what # "end"
    <3>1. Depth(code[k]) = 0
      BY <2>9 DEF Depth
    <3>. QED
      BY <2>2, <2>4, <2>6, <2>9, <3>1
  <2>. QED
    BY <2>7, <2>8, <2>9
<1>. QED
  BY <1>4, <1>5, <1>6

\* A part of the code, from statement d on.
PartAt(code, d, part) ==
    d + Len(part) <= Len(code) /\ \A k \in 1 .. Len(part) : code[d + k] = part[k]

\* In a part the level is that at its beginning and that in the part.
LEMMA LevelInPart ==
    ASSUME NEW S, NEW code \in Seq(S), NEW part \in Seq(S), NEW d \in Nat, PartAt(code, d, part)
    PROVE  \A k \in 1 .. Len(part) + 1 : Level(code, d + k) = Level(code, d + 1) + Level(part, k)
<1>1. Len(part) \in Nat /\ Len(code) \in Nat /\ d + Len(part) <= Len(code)
  BY DEF PartAt
<1>. DEFINE T == {k \in 1 .. Len(part) + 1 : Level(code, d + k) # Level(code, d + 1) + Level(part, k)}
<1>2. ASSUME T # {} PROVE FALSE
  <2>1. PICK k \in T : \A j \in T : k <= j
    <3>1. T \subseteq Nat
      BY <1>1
    <3>. HIDE DEF T
    <3>. QED
      BY <1>2, <3>1, LeastNumber
  <2>2. k \in Nat /\ 1 <= k /\ k <= Len(part) + 1
    BY <1>1, <2>1
  <2>3. k # 1
    <3>1. Level(part, 1) = 0 /\ Level(code, d + 1) \in Int
      BY <1>1, LevelIs
    <3>2. Level(code, d + k) # Level(code, d + 1) + Level(part, k)
      BY <2>1
    <3>. QED
      BY <3>1, <3>2
  <2>4. PICK j : j = k - 1
    OBVIOUS
  <2>5. j \in 1 .. Len(part) /\ j \in Nat /\ k = j + 1 /\ j < k /\ d + k = (d + j) + 1
    BY <1>1, <2>2, <2>3, <2>4
  <2>6. j \notin T /\ j \in 1 .. Len(part) + 1
    BY <1>1, <2>1, <2>2, <2>5
  <2>7. Level(code, d + j) = Level(code, d + 1) + Level(part, j)
    BY <2>6
  <2>8. d + j \in 1 .. Len(code) /\ code[d + j] = part[j]
    BY <1>1, <2>5 DEF PartAt
  <2>9. Level(code, (d + j) + 1) = Level(code, d + j) + Depth(part[j])
    BY <2>8, LevelIs
  <2>10. Level(part, j + 1) = Level(part, j) + Depth(part[j])
    BY <2>5, LevelIs
  <2>11. /\ Level(code, d + 1) \in Int /\ Level(part, j) \in Int /\ Depth(part[j]) \in Int
    <3>1. d + 1 \in 1 .. Len(code) + 1
      BY <1>1
    <3>2. Level(code, d + 1) \in Int
      BY <3>1, LevelIs
    <3>3. Level(part, j) \in Int
      BY <2>6, LevelIs
    <3>4. Depth(part[j]) \in Int
      BY DEF Depth
    <3>. QED
      BY <3>2, <3>3, <3>4
  <2>12. Level(code, d + k) = Level(code, d + 1) + Level(part, k)
    BY <2>5, <2>7, <2>9, <2>10, <2>11
  <2>. QED
    BY <2>1, <2>12
<1>. QED
  BY <1>2

\* Code whose blocks are closed at its end.
Balanced(code) == Level(code, Len(code) + 1) = 0

\* Balanced code does not change the level.
LEMMA LevelAfterPart ==
    ASSUME NEW S, NEW code \in Seq(S), NEW part \in Seq(S), Balanced(part), NEW d \in Nat,
           PartAt(code, d, part), NEW e, e = d + Len(part) + 1
    PROVE  Level(code, e) = Level(code, d + 1)
<1>1. Len(part) \in Nat
  OBVIOUS
<1>. PICK m : m = Len(part) + 1
  OBVIOUS
<1>2. m \in 1 .. Len(part) + 1 /\ e = d + m
  BY <1>1
<1>3. Level(code, d + m) = Level(code, d + 1) + Level(part, m)
  BY <1>2, LevelInPart
<1>4. Level(part, m) = 0
  BY DEF Balanced
<1>5. Level(code, d + 1) \in Int
  <2>1. d + 1 \in 1 .. Len(code) + 1
    BY <1>1 DEF PartAt
  <2>. QED
    BY <2>1, LevelIs
<1>. QED
  BY <1>2, <1>3, <1>4, <1>5

\* A block around balanced code is balanced.
LEMMA BlockIsBalanced ==
    ASSUME NEW code, NEW p, NEW mid \in Seq(Statements), Balanced(mid),
           NEW w \in {"scan", "if", "probe"}, Encloses(code, w, p, mid)
    PROVE  Balanced(code)
<1>0. /\ code \in Seq(Statements) /\ Len(code) = Len(mid) + 2
      /\ \A k \in 1 .. Len(mid) : code[1 + k] = mid[k]
      /\ code[1].what \in {"scan", "if", "probe"} /\ code[Len(mid) + 2].what = "end"
  BY DEF Encloses
<1>1. Len(mid) \in Nat /\ Len(code) \in Nat
  BY <1>0
<1>2. PartAt(code, 1, mid)
  BY <1>0, <1>1 DEF PartAt
<1>3. Level(code, 1) = 0 /\ Level(code, 1 + 1) = Level(code, 1) + Depth(code[1]) /\ Depth(code[1]) = 1
  BY <1>0, <1>1, LevelIs DEF Depth
<1>4. Level(code, 1 + (Len(mid) + 1)) = Level(code, 1 + 1) + Level(mid, Len(mid) + 1)
  BY <1>0, <1>1, <1>2, LevelInPart
<1>5. Level(mid, Len(mid) + 1) = 0
  BY DEF Balanced
<1>6. Level(code, (Len(mid) + 2) + 1) = Level(code, Len(mid) + 2) + Depth(code[Len(mid) + 2])
  BY <1>0, <1>1, LevelIs
<1>7. Depth(code[Len(mid) + 2]) = -1
  BY <1>0 DEF Depth
<1>8. 1 + (Len(mid) + 1) = Len(mid) + 2 /\ Len(code) + 1 = (Len(mid) + 2) + 1
  BY <1>0, <1>1
<1>9. Level(code, Len(code) + 1) = 0
  BY <1>3, <1>4, <1>5, <1>6, <1>7, <1>8
<1>. QED
  BY <1>9 DEF Balanced

\* So is code without blocks.
LEMMA FlatIsBalanced ==
    ASSUME NEW S, NEW code \in Seq(S),
           \A k \in 1 .. Len(code) : code[k].what \notin {"scan", "if", "probe", "end"}
    PROVE  Balanced(code)
<1>. DEFINE T == {k \in 1 .. Len(code) + 1 : Level(code, k) # 0}
<1>1. ASSUME T # {} PROVE FALSE
  <2>1. PICK k \in T : \A j \in T : k <= j
    <3>1. T \subseteq Nat
      OBVIOUS
    <3>. HIDE DEF T
    <3>. QED
      BY <1>1, <3>1, LeastNumber
  <2>2. k \in Nat /\ 1 <= k /\ k <= Len(code) + 1 /\ k # 1 /\ Len(code) \in Nat
    BY <2>1, LevelIs
  <2>3. PICK j : j = k - 1
    OBVIOUS
  <2>4. j \in 1 .. Len(code) /\ k = j + 1 /\ j \in 1 .. Len(code) + 1 /\ ~ (k <= j)
    BY <2>2, <2>3
  <2>5. Level(code, j) = 0
    BY <2>1, <2>4
  <2>6. Level(code, j + 1) = Level(code, j) + Depth(code[j]) /\ Depth(code[j]) = 0
    BY <2>4, LevelIs DEF Depth
  <2>. QED
    BY <2>1, <2>4, <2>5, <2>6
<1>2. Len(code) + 1 \in 1 .. Len(code) + 1
  OBVIOUS
<1>. QED
  BY <1>1, <1>2 DEF Balanced

-----------------------------------------------------------------------------
\* What Consume of p, the parent of n, emits, when f tells what is emitted above p.
EmittedFor(f, n, p) ==
    LET o == plan[p]
    IN  CASE o.op = "selection" -> SelectionConsumes(p, f[p])
          [] o.op = "print" -> PrintConsumes(p)
          [] o.op = "join" /\ n = o.children[1] ->
               JoinConsumesLeft(p, o.predicates, TupleFields(plan, required, p))
          [] o.op = "join" /\ n # o.children[1] ->
               JoinConsumesRight(p, o.predicates, TupleFields(plan, required, p), f[p])

\* EmittedFor by the kind of the parent.
LEMMA EmittedForIs ==
    ASSUME PlanInvariant, Prepared, NEW p \in 1 .. Len(plan), NEW n \in Kids(p), NEW f
    PROVE  /\ plan[p].op \in {"selection", "print", "join"}
           /\ plan[p].op = "selection" => EmittedFor(f, n, p) = SelectionConsumes(p, f[p])
           /\ plan[p].op = "print" => EmittedFor(f, n, p) = PrintConsumes(p)
           /\ plan[p].op = "join" /\ n = plan[p].children[1] =>
                 EmittedFor(f, n, p) =
                     JoinConsumesLeft(p, plan[p].predicates, TupleFields(plan, required, p))
           /\ plan[p].op = "join" /\ n # plan[p].children[1] =>
                 EmittedFor(f, n, p) =
                     JoinConsumesRight(p, plan[p].predicates, TupleFields(plan, required, p), f[p])
<1>1. plan[p].op \in {"selection", "print", "join"}
  BY PlanIs DEF PlanInvariant
<1>2. CASE plan[p].op = "selection"
  BY <1>2 DEF EmittedFor
<1>3. CASE plan[p].op = "print"
  BY <1>3 DEF EmittedFor
<1>4. CASE plan[p].op = "join" /\ n = plan[p].children[1]
  BY <1>4 DEF EmittedFor
<1>5. CASE plan[p].op = "join" /\ n # plan[p].children[1]
  BY <1>5 DEF EmittedFor
<1>. QED
  BY <1>1, <1>2, <1>3, <1>4, <1>5

\* What a parent emits is a list of statements if what is emitted above it is one.
LEMMA EmittedForTyped ==
    ASSUME PlanInvariant, Prepared, NEW p \in 1 .. Len(plan), NEW n \in Kids(p), NEW f,
           f[p] \in Seq(Statements)
    PROVE  EmittedFor(f, n, p) \in Seq(Statements)
<1>1. CASE plan[p].op = "selection"
  BY <1>1, EmittedForIs, SelectionEmits DEF Encloses
<1>2. CASE plan[p].op = "print"
  BY <1>2, EmittedForIs, PrintEmits
<1>3. CASE plan[p].op = "join" /\ n = plan[p].children[1]
  <2>1. EmittedFor(f, n, p) = JoinConsumesLeft(p, plan[p].predicates, TupleFields(plan, required, p))
    BY <1>3, EmittedForIs
  <2>. QED
    BY <2>1, JoinEmitsLeft
<1>4. CASE plan[p].op = "join" /\ n # plan[p].children[1]
  <2>1. EmittedFor(f, n, p) = JoinConsumesRight(p, plan[p].predicates, TupleFields(plan, required, p), f[p])
    BY <1>4, EmittedForIs
  <2>. QED
    BY <2>1, JoinEmitsRight DEF Encloses
<1>. QED
  BY <1>1, <1>2, <1>3, <1>4, EmittedForIs

\* In a prepared plan every operator but the Print has a parent.
LEMMA HasParent ==
    ASSUME PlanInvariant, Prepared, NEW n \in 1 .. Len(plan), n # Len(plan)
    PROVE  /\ Parent(plan, n) \in 1 .. Len(plan) /\ n \in Kids(Parent(plan, n)) /\ n < Parent(plan, n)
<1>1. PlanIsForest /\ Len(plan) \in Nat /\ Len(plan) \in 1 .. Len(plan) /\ plan[Len(plan)].op = "print"
  BY AllBelowPrint, PlanIs DEF PlanInvariant
<1>2. PICK p \in 1 .. Len(plan) : n \in Kids(p)
  BY <1>1 DEF PlanIsForest
<1>. QED
  BY <1>1, <1>2, ParentIs

\* The code that an operator's parents emit for each of its tuples.
LEMMA ConsumedIs ==
    ASSUME PlanInvariant, Prepared
    PROVE  /\ Consumed(plan, required) \in [1 .. Len(plan) -> Seq(Statements)]
           /\ \A p \in 1 .. Len(plan) : \A n \in Kids(p) :
                 Consumed(plan, required)[n] = EmittedFor(Consumed(plan, required), n, p)
<1>1. PlanIsForest /\ Len(plan) \in Nat
  BY PlanIs DEF PlanInvariant
<1>. DEFINE N == Len(plan)
            V == Seq(Statements)
            E == [f \in [1 .. N -> V] |->
                     [n \in 1 .. N |-> IF n = N THEN <<>> ELSE EmittedFor(f, n, Parent(plan, n))]]
            rank == [n \in 1 .. N |-> N - n]
<1>2. ASSUME NEW f \in [1 .. N -> V], NEW n \in 1 .. N
      PROVE  (IF n = N THEN <<>> ELSE EmittedFor(f, n, Parent(plan, n))) \in V
  <2>1. CASE n = N
    BY <2>1
  <2>2. CASE n # N
    <3>1. PICK p : p = Parent(plan, n)
      OBVIOUS
    <3>2. p \in 1 .. Len(plan) /\ n \in Kids(p) /\ f[p] \in Seq(Statements)
      BY <2>2, <3>1, HasParent
    <3>3. EmittedFor(f, n, p) \in Seq(Statements)
      BY <3>2, EmittedForTyped
    <3>. QED
      BY <2>2, <3>1, <3>3
  <2>. QED
    BY <2>1, <2>2
<1>3. HasFixpoint(1 .. N, V, E)
  <2>1. E \in [[1 .. N -> V] -> [1 .. N -> V]]
    BY <1>2
  <2>2. rank \in [1 .. N -> 0 .. N] /\ V # {} /\ N \in Nat
    <3>1. <<>> \in V
      OBVIOUS
    <3>2. \A n \in 1 .. N : N - n \in 0 .. N
      BY <1>1
    <3>3. rank \in [1 .. N -> 0 .. N]
      BY <3>2
    <3>. QED
      BY <1>1, <3>1, <3>3
  <2>3. ASSUME NEW f \in [1 .. N -> V], NEW g \in [1 .. N -> V], NEW n \in 1 .. N,
               \A m \in 1 .. N : rank[m] < rank[n] => f[m] = g[m]
        PROVE  E[f][n] = E[g][n]
    <3>1. CASE n = N
      BY <3>1
    <3>2. CASE n # N
      <4>1. PICK p : p = Parent(plan, n)
        OBVIOUS
      <4>2. p \in 1 .. N /\ n \in Kids(p) /\ n < p
        BY <3>2, <4>1, HasParent
      <4>3. f[p] = g[p]
        BY <1>1, <2>3, <4>2
      <4>4. EmittedFor(f, n, p) = EmittedFor(g, n, p)
        BY <4>3 DEF EmittedFor
      <4>. QED
        BY <3>2, <4>1, <4>4
    <3>. QED
      BY <3>1, <3>2
  <2>. HIDE DEF E, rank, V, N
  <2>4. LooksBelow(1 .. N, V, rank, E)
    BY <2>3 DEF LooksBelow
  <2>. QED
    BY <2>1, <2>2, <2>4, RecursiveFunction
<1>4. PICK f \in [1 .. N -> V] : f = E[f]
  BY <1>3 DEF HasFixpoint
<1>. DEFINE B == CHOOSE b :
                    b = [n \in 1 .. Len(plan) |->
                            IF n = Len(plan) THEN <<>> ELSE EmittedFor(b, n, Parent(plan, n))]
<1>5. f = [n \in 1 .. Len(plan) |-> IF n = Len(plan) THEN <<>> ELSE EmittedFor(f, n, Parent(plan, n))]
  <2>1. E[f] = [n \in 1 .. Len(plan) |-> IF n = Len(plan) THEN <<>> ELSE EmittedFor(f, n, Parent(plan, n))]
    OBVIOUS
  <2>. QED
    BY <1>4, <2>1
<1>6. B = [n \in 1 .. Len(plan) |-> IF n = Len(plan) THEN <<>> ELSE EmittedFor(B, n, Parent(plan, n))]
  BY <1>5
<1>7. Consumed(plan, required) = B
  BY DEF Consumed, EmittedFor
<1>. HIDE DEF B
<1>8. ASSUME NEW p \in 1 .. N, NEW n \in Kids(p) PROVE B[n] = EmittedFor(B, n, p)
  <2>1. n \in 1 .. N /\ n # N /\ Parent(plan, n) = p
    BY <1>1, <1>8, ParentIs
  <2>. QED
    BY <1>6, <2>1
<1>9. B[N] = <<>>
  <2>1. N \in 1 .. N
    BY <1>1 DEF PlanInvariant
  <2>. QED
    BY <1>6, <2>1
<1>. DEFINE T == {n \in 1 .. N : B[n] \notin V}
<1>10. ASSUME T # {} PROVE FALSE
  <2>1. PICK n \in T : \A m \in T : m <= n
    <3>1. T \subseteq Nat /\ \A m \in T : m <= N
      BY <1>1
    <3>. HIDE DEF T
    <3>. QED
      BY <1>1, <1>10, <3>1, GreatestNumber
  <2>2. n # N
    <3>1. <<>> \in V
      OBVIOUS
    <3>. QED
      BY <1>9, <2>1, <3>1
  <2>3. PICK p \in 1 .. N : n \in Kids(p) /\ n < p
    BY <2>1, <2>2, HasParent
  <2>4. p \notin T
    BY <1>1, <2>1, <2>3
  <2>5. B[p] \in Seq(Statements)
    BY <2>3, <2>4
  <2>6. B[n] \in V
    BY <1>8, <2>3, <2>5, EmittedForTyped
  <2>. QED
    BY <2>1, <2>6
<1>11. B \in [1 .. N -> V]
  BY <1>6, <1>10
<1>. QED
  BY <1>7, <1>8, <1>11

-----------------------------------------------------------------------------
\* What Produce of n emits, when f tells what its children emit.
CodeFor(f, n) ==
    LET o == plan[n]
    IN  CASE o.op = "selection" -> f[o.children[1]]
          [] o.op = "scan" -> ScanCode(n, required[n], Consumed(plan, required)[n])
          [] o.op = "join" -> JoinCode(n, f[o.children[1]], f[o.children[2]])
          [] o.op = "print" -> PrintCode(n, f[o.children[1]])

\* CodeFor by the kind of the operator.
LEMMA CodeForIs ==
    ASSUME PlanIsForest, NEW n \in 1 .. Len(plan), NEW f
    PROVE  /\ plan[n].op \in {"scan", "selection", "join", "print"}
           /\ plan[n].op = "scan" => CodeFor(f, n) = ScanCode(n, required[n], Consumed(plan, required)[n])
           /\ plan[n].op = "selection" => CodeFor(f, n) = f[plan[n].children[1]]
           /\ plan[n].op = "join" => CodeFor(f, n) = JoinCode(n, f[plan[n].children[1]], f[plan[n].children[2]])
           /\ plan[n].op = "print" => CodeFor(f, n) = PrintCode(n, f[plan[n].children[1]])
<1>1. plan[n].op \in {"scan", "selection", "join", "print"}
  BY PlanIs
<1>2. CASE plan[n].op = "scan"
  BY <1>2 DEF CodeFor
<1>3. CASE plan[n].op = "selection"
  BY <1>3 DEF CodeFor
<1>4. CASE plan[n].op = "join"
  BY <1>4 DEF CodeFor
<1>5. CASE plan[n].op = "print"
  BY <1>5 DEF CodeFor
<1>. QED
  BY <1>1, <1>2, <1>3, <1>4, <1>5

\* The children of an operator, by their places.
LEMMA ChildrenAre ==
    ASSUME PlanIsForest, NEW n \in 1 .. Len(plan)
    PROVE  /\ plan[n].op \in {"selection", "join", "print"} =>
                 /\ plan[n].children[1] \in Kids(n) /\ plan[n].children[1] \in 1 .. Len(plan)
                 /\ plan[n].children[1] < n
           /\ plan[n].op = "join" =>
                 /\ plan[n].children[2] \in Kids(n) /\ plan[n].children[2] \in 1 .. Len(plan)
                 /\ plan[n].children[2] < n /\ plan[n].children[1] # plan[n].children[2]
<1>1. Len(plan) \in Nat /\ Kids(n) \subseteq 1 .. n - 1 /\ Kids(n) \subseteq 1 .. Len(plan)
  BY PlanIs
<1>2. plan[n].op = "join" => plan[n].children[1] # plan[n].children[2]
  BY DEF PlanIsForest
<1>3. CASE plan[n].op \in {"selection", "print"}
  <2>1. Kids(n) = {plan[n].children[1]} /\ plan[n].op # "join"
    BY <1>3, PlanIs
  <2>. QED
    BY <1>1, <2>1
<1>4. CASE plan[n].op = "join"
  <2>1. Kids(n) = {plan[n].children[1], plan[n].children[2]}
    BY <1>4, PlanIs
  <2>. QED
    BY <1>1, <1>2, <2>1
<1>. QED
  BY <1>3, <1>4

\* The code of every operator.
LEMMA CodeIs ==
    ASSUME PlanInvariant, Prepared
    PROVE  \E code \in [1 .. Len(plan) -> Seq(Statements)] :
               /\ Produce(plan, required) = code[Len(plan)]
               /\ \A n \in 1 .. Len(plan) : code[n] = CodeFor(code, n)
<1>1. PlanIsForest /\ Len(plan) \in Nat
  BY PlanIs DEF PlanInvariant
<1>. DEFINE N == Len(plan)
            V == Seq(Statements)
            E == [f \in [1 .. N -> V] |-> [n \in 1 .. N |-> CodeFor(f, n)]]
            rank == [n \in 1 .. N |-> n]
<1>2. ASSUME NEW f, NEW n \in 1 .. N, \A c \in Kids(n) : f[c] \in V
      PROVE  CodeFor(f, n) \in V
  <2>1. CASE plan[n].op = "scan"
    <3>1. Consumed(plan, required)[n] \in Seq(Statements)
      BY ConsumedIs
    <3>. QED
      BY <1>1, <2>1, <3>1, CodeForIs, ScanEmits DEF Encloses
  <2>2. CASE plan[n].op = "selection"
    BY <1>1, <1>2, <2>2, CodeForIs, ChildrenAre
  <2>3. CASE plan[n].op = "join"
    <3>1. PICK left : left = f[plan[n].children[1]]
      OBVIOUS
    <3>2. PICK right : right = f[plan[n].children[2]]
      OBVIOUS
    <3>3. plan[n].children[1] \in Kids(n) /\ plan[n].children[2] \in Kids(n)
      BY <1>1, <2>3, ChildrenAre
    <3>4. left \in Seq(Statements) /\ right \in Seq(Statements)
      BY <1>2, <3>1, <3>2, <3>3
    <3>5. CodeFor(f, n) = JoinCode(n, left, right)
      BY <1>1, <2>3, <3>1, <3>2, CodeForIs
    <3>. QED
      BY <3>4, <3>5, JoinEmits DEF Joins
  <2>4. CASE plan[n].op = "print"
    <3>1. f[plan[n].children[1]] \in Seq(Statements)
      BY <1>1, <1>2, <2>4, ChildrenAre
    <3>. QED
      BY <1>1, <2>4, <3>1, CodeForIs, PrintCodeIs
  <2>. QED
    BY <1>1, <2>1, <2>2, <2>3, <2>4, CodeForIs
<1>3. HasFixpoint(1 .. N, V, E)
  <2>1. E \in [[1 .. N -> V] -> [1 .. N -> V]]
    <3>1. \A f \in [1 .. N -> V], n \in 1 .. N : CodeFor(f, n) \in V
      BY <1>1, <1>2, PlanIs
    <3>. QED
      BY <3>1
  <2>2. rank \in [1 .. N -> 0 .. N] /\ V # {} /\ N \in Nat
    <3>1. <<>> \in V
      OBVIOUS
    <3>2. rank \in [1 .. N -> 0 .. N]
      BY <1>1
    <3>. QED
      BY <1>1, <3>1, <3>2
  <2>3. ASSUME NEW f \in [1 .. N -> V], NEW g \in [1 .. N -> V], NEW n \in 1 .. N,
               \A m \in 1 .. N : rank[m] < rank[n] => f[m] = g[m]
        PROVE  E[f][n] = E[g][n]
    <3>1. \A c \in 1 .. N : c < n => f[c] = g[c]
      BY <2>3
    <3>2. CodeFor(f, n) = CodeFor(g, n)
      <4>1. CASE plan[n].op = "scan"
        BY <1>1, <4>1, CodeForIs
      <4>2. CASE plan[n].op = "selection"
        BY <1>1, <3>1, <4>2, CodeForIs, ChildrenAre
      <4>3. CASE plan[n].op = "join"
        BY <1>1, <3>1, <4>3, CodeForIs, ChildrenAre
      <4>4. CASE plan[n].op = "print"
        BY <1>1, <3>1, <4>4, CodeForIs, ChildrenAre
      <4>. QED
        BY <1>1, <4>1, <4>2, <4>3, <4>4, CodeForIs
    <3>. QED
      BY <3>2
  <2>. HIDE DEF E, rank, V, N
  <2>4. LooksBelow(1 .. N, V, rank, E)
    BY <2>3 DEF LooksBelow
  <2>. QED
    BY <2>1, <2>2, <2>4, RecursiveFunction
<1>4. PICK f \in [1 .. N -> V] : f = E[f]
  BY <1>3 DEF HasFixpoint
<1>. DEFINE B == CHOOSE b : b = [n \in 1 .. Len(plan) |-> CodeFor(b, n)]
<1>5. f = [n \in 1 .. Len(plan) |-> CodeFor(f, n)]
  <2>1. E[f] = [n \in 1 .. Len(plan) |-> CodeFor(f, n)]
    OBVIOUS
  <2>. QED
    BY <1>4, <2>1
<1>6. B = [n \in 1 .. Len(plan) |-> CodeFor(B, n)]
  BY <1>5
<1>7. Produce(plan, required) = B[Len(plan)]
  BY DEF Produce, CodeFor
<1>. HIDE DEF B
<1>8. \A n \in 1 .. N : B[n] = CodeFor(B, n)
  BY <1>6
<1>. DEFINE T == {n \in 1 .. N : B[n] \notin V}
<1>9. ASSUME T # {} PROVE FALSE
  <2>1. PICK n \in T : \A m \in T : n <= m
    <3>1. T \subseteq Nat
      BY <1>1
    <3>. HIDE DEF T
    <3>. QED
      BY <1>9, <3>1, LeastNumber
  <2>2. \A c \in Kids(n) : c \in 1 .. N /\ c \in 1 .. n - 1 /\ n \in Nat
    BY <1>1, <2>1, PlanIs
  <2>3. \A c \in Kids(n) : c \notin T
    BY <2>1, <2>2
  <2>4. \A c \in Kids(n) : B[c] \in V
    BY <2>2, <2>3
  <2>5. B[n] \in V
    BY <1>2, <1>8, <2>1, <2>4
  <2>. QED
    BY <2>1, <2>5
<1>10. B \in [1 .. N -> V]
  BY <1>6, <1>9
<1>. QED
  BY <1>7, <1>8, <1>10

-----------------------------------------------------------------------------
\* Operator s is below the i-th child of join j.
FromChild(j, i, s) == j \in 1 .. Len(plan) /\ plan[j].op = "join" /\ s \in Below(plan[j].children[i])

\* Code emitted for the tuples of n: an insert is by a join that n is on the left
\* of, a probe by one that it is on the right of.
EmittedInPlace(c, n) ==
    /\ Balanced(c)
    /\ \A k \in 1 .. Len(c) :
        /\ c[k].what # "finalize"
        /\ c[k].what = "insert" => FromChild(c[k].by, 1, n)
        /\ c[k].what = "probe" => FromChild(c[k].by, 2, n)

\* What is on a side of a join stays there on the way down.
LEMMA FromChildBelow ==
    ASSUME PlanIsForest, NEW j, NEW i \in {1, 2}, NEW p, FromChild(j, i, p), NEW n \in Kids(p)
    PROVE  FromChild(j, i, n)
<1>1. plan[j].children[i] \in 1 .. Len(plan)
  BY ChildrenAre DEF FromChild
<1>2. n \in Below(plan[j].children[i])
  BY <1>1, BelowIsTransitive DEF FromChild
<1>. QED
  BY <1>2 DEF FromChild

\* A block around code that is in its place is in its place.
LEMMA BlockInPlace ==
    ASSUME PlanIsForest, NEW p, NEW n \in Kids(p), NEW above \in Seq(Statements), EmittedInPlace(above, p),
           NEW c, NEW w \in {"if", "probe"}, Encloses(c, w, p, above), w = "probe" => FromChild(p, 2, n)
    PROVE  EmittedInPlace(c, n)
<1>1. Balanced(c)
  BY BlockIsBalanced DEF EmittedInPlace
<1>2. /\ Len(above) \in Nat /\ Len(c) = Len(above) + 2
      /\ c[1].what = w /\ c[1].by = p /\ c[Len(above) + 2].what = "end"
      /\ \A k \in 1 .. Len(above) : c[1 + k] = above[k]
  BY DEF Encloses
<1>3. ASSUME NEW k \in 1 .. Len(c)
      PROVE  /\ c[k].what # "finalize"
             /\ c[k].what = "insert" => FromChild(c[k].by, 1, n)
             /\ c[k].what = "probe" => FromChild(c[k].by, 2, n)
  <2>1. CASE k = 1
    BY <1>2, <2>1
  <2>2. CASE k = Len(above) + 2
    BY <1>2, <2>2
  <2>3. CASE k # 1 /\ k # Len(above) + 2
    <3>1. PICK m : m = k - 1
      OBVIOUS
    <3>2. m \in 1 .. Len(above) /\ 1 + m = k
      BY <1>2, <2>3, <3>1
    <3>3. c[k] = above[m]
      BY <1>2, <3>2
    <3>. QED
      BY <3>2, <3>3, FromChildBelow DEF EmittedInPlace
  <2>. QED
    BY <2>1, <2>2, <2>3
<1>. QED
  BY <1>1, <1>3 DEF EmittedInPlace

\* So is what a selection emits for its child.
LEMMA SelectionInPlace ==
    ASSUME PlanIsForest, NEW p \in 1 .. Len(plan), NEW n \in Kids(p),
           NEW above \in Seq(Statements), EmittedInPlace(above, p)
    PROVE  EmittedInPlace(SelectionConsumes(p, above), n)
<1>1. Encloses(SelectionConsumes(p, above), "if", p, above)
  BY SelectionEmits
<1>. QED
  BY <1>1, BlockInPlace

\* So is what a join emits for its right child.
LEMMA JoinRightInPlace ==
    ASSUME PlanIsForest, NEW p \in 1 .. Len(plan), NEW n \in Kids(p), FromChild(p, 2, n),
           NEW above \in Seq(Statements), EmittedInPlace(above, p), NEW c,
           c = JoinConsumesRight(p, plan[p].predicates, TupleFields(plan, required, p), above)
    PROVE  EmittedInPlace(c, n)
<1>1. Encloses(c, "probe", p, above)
  BY JoinEmitsRight
<1>. QED
  BY <1>1, BlockInPlace

\* What is emitted for the tuples of an operator is in its place: by going up from the
\* highest operator for which it would not be.
LEMMA ConsumedInPlace ==
    ASSUME PlanInvariant, Prepared, NEW n \in 1 .. Len(plan), n # Len(plan)
    PROVE  EmittedInPlace(Consumed(plan, required)[n], n)
<1>. DEFINE N == Len(plan)
<1>. PICK C : C = Consumed(plan, required)
  OBVIOUS
<1>1. PlanIsForest /\ N \in Nat /\ plan[N].op = "print" /\ N \in 1 .. N
  BY PlanIs DEF PlanInvariant
<1>2. /\ C \in [1 .. N -> Seq(Statements)]
      /\ \A p \in 1 .. N : \A m \in Kids(p) : C[m] = EmittedFor(C, m, p)
  BY ConsumedIs
<1>. DEFINE T == {m \in 1 .. N : m # N /\ ~ EmittedInPlace(C[m], m)}
<1>3. ASSUME T # {} PROVE FALSE
  <2>1. PICK m \in T : \A x \in T : x <= m
    <3>1. T \subseteq Nat /\ \A x \in T : x <= N
      BY <1>1
    <3>. HIDE DEF T
    <3>. QED
      BY <1>1, <1>3, <3>1, GreatestNumber
  <2>2. PICK p \in 1 .. N : m \in Kids(p) /\ m < p
    BY <2>1, HasParent
  <2>3. C[m] = EmittedFor(C, m, p) /\ C[m] \in Seq(Statements) /\ C[p] \in Seq(Statements)
    BY <1>2, <2>1, <2>2
  <2>. PICK c : c = C[m]
    OBVIOUS
  <2>. PICK above : above = C[p]
    OBVIOUS
  <2>4. m \in 1 .. N /\ m # N /\ ~ EmittedInPlace(c, m) /\ m \in Nat
    BY <1>1, <2>1
  <2>9. p \notin T
    BY <1>1, <2>1, <2>2, <2>4
  <2>10. p # N => EmittedInPlace(above, p)
    BY <2>9
  <2>11. above \in Seq(Statements) /\ c \in Seq(Statements)
    BY <2>3
  <2>. HIDE DEF T
  <2>5. CASE plan[p].op = "selection"
    <3>1. c = SelectionConsumes(p, above) /\ p # N
      BY <1>1, <2>2, <2>3, <2>5, EmittedForIs
    <3>2. EmittedInPlace(above, p)
      BY <2>10, <3>1
    <3>3. p \in 1 .. Len(plan) /\ c = SelectionConsumes(p, above)
      BY <2>2, <3>1
    <3>4. EmittedInPlace(c, m)
      BY <1>1, <2>2, <2>11, <3>2, <3>3, SelectionInPlace
    <3>. QED
      BY <2>4, <3>4
  <2>6. CASE plan[p].op = "print"
    <3>1. c = PrintConsumes(p)
      BY <2>2, <2>3, <2>6, EmittedForIs
    <3>2. Len(c) = 3 /\ \A k \in 1 .. 3 : c[k].what \in {"lock", "print", "unlock"}
      BY <3>1, PrintEmits
    <3>3. Balanced(c)
      <4>1. c \in Seq(Statements)
        BY <2>11
      <4>2. \A k \in 1 .. Len(c) : c[k].what \notin {"scan", "if", "probe", "end"}
        BY <3>2
      <4>. QED
        BY <4>1, <4>2, FlatIsBalanced
    <3>4. EmittedInPlace(c, m)
      BY <3>2, <3>3 DEF EmittedInPlace
    <3>. QED
      BY <2>4, <3>4
  <2>7. CASE plan[p].op = "join" /\ m = plan[p].children[1]
    <3>1. c = JoinConsumesLeft(p, plan[p].predicates, TupleFields(plan, required, p))
      BY <2>2, <2>3, <2>7, EmittedForIs
    <3>2. c \in Seq(Statements) /\ Len(c) = 1 /\ c[1].what = "insert" /\ c[1].by = p
      BY <3>1, JoinEmitsLeft
    <3>3. Balanced(c)
      <4>1. \A k \in 1 .. Len(c) : c[k].what \notin {"scan", "if", "probe", "end"}
        BY <3>2
      <4>. QED
        BY <3>2, <4>1, FlatIsBalanced
    <3>4. FromChild(p, 1, m)
      <4>1. m \in Below(m)
        BY <1>1, <2>4, BelowIs
      <4>. QED
        BY <2>2, <2>7, <4>1 DEF FromChild
    <3>5. EmittedInPlace(c, m)
      BY <3>2, <3>3, <3>4 DEF EmittedInPlace
    <3>. QED
      BY <2>4, <3>5
  <2>8. CASE plan[p].op = "join" /\ m # plan[p].children[1]
    <3>1. c = JoinConsumesRight(p, plan[p].predicates, TupleFields(plan, required, p), above) /\ p # N
      BY <1>1, <2>2, <2>3, <2>8, EmittedForIs
    <3>3. m = plan[p].children[2]
      BY <1>1, <2>2, <2>8, PlanIs
    <3>4. FromChild(p, 2, m)
      <4>1. m \in Below(m)
        BY <1>1, <2>4, BelowIs
      <4>. QED
        BY <2>2, <2>8, <3>3, <4>1 DEF FromChild
    <3>5. EmittedInPlace(above, p)
      BY <2>10, <3>1
    <3>6. EmittedInPlace(c, m)
      BY <1>1, <2>2, <2>11, <3>1, <3>4, <3>5, JoinRightInPlace
    <3>. QED
      BY <2>4, <3>6
  <2>. QED
    BY <2>2, <2>5, <2>6, <2>7, <2>8, EmittedForIs
<1>. QED
  BY <1>3
-----------------------------------------------------------------------------
\* Join j finalizes its hash table once, in no loop, after it has filled and before
\* it has probed it.
Does(code, k, j, what) == code[k].by = j /\ code[k].what = what
InOrder(code, j) ==
    \E f \in 1 .. Len(code) :
        /\ \A k \in 1 .. Len(code) : Does(code, k, j, "finalize") <=> k = f
        /\ Level(code, f) = 0
        /\ \E k \in 1 .. Len(code) : Does(code, k, j, "insert")
        /\ \A k \in 1 .. Len(code) : Does(code, k, j, "insert") => k < f
        /\ \E k \in 1 .. Len(code) : Does(code, k, j, "probe")
        /\ \A k \in 1 .. Len(code) : Does(code, k, j, "probe") => f < k

\* It does so in all of the code if it does in a part of it and nothing else there
\* is about its hash table.
LEMMA PartInOrder ==
    ASSUME NEW S, NEW code \in Seq(S), NEW part \in Seq(S), NEW d \in Nat, PartAt(code, d, part),
           Level(code, d + 1) = 0, NEW j, InOrder(part, j),
           \A k \in 1 .. Len(code) : (k <= d \/ d + Len(part) < k) =>
               code[k].by # j \/ code[k].what \notin {"finalize", "insert", "probe"}
    PROVE  InOrder(code, j)
<1>1. Len(part) \in Nat /\ Len(code) \in Nat /\ d + Len(part) <= Len(code)
  BY DEF PartAt
<1>2. PICK f \in 1 .. Len(part) :
        /\ \A k \in 1 .. Len(part) : Does(part, k, j, "finalize") <=> k = f
        /\ Level(part, f) = 0
        /\ \E k \in 1 .. Len(part) : Does(part, k, j, "insert")
        /\ \A k \in 1 .. Len(part) : Does(part, k, j, "insert") => k < f
        /\ \E k \in 1 .. Len(part) : Does(part, k, j, "probe")
        /\ \A k \in 1 .. Len(part) : Does(part, k, j, "probe") => f < k
  BY DEF InOrder
<1>3. \A k \in 1 .. Len(part) :
         d + k \in 1 .. Len(code) /\ \A w : Does(code, d + k, j, w) <=> Does(part, k, j, w)
  BY <1>1 DEF PartAt, Does
<1>4. ASSUME NEW k \in 1 .. Len(code), NEW w \in {"finalize", "insert", "probe"}, Does(code, k, j, w)
      PROVE  \E m \in 1 .. Len(part) : k = d + m /\ Does(part, m, j, w)
  <2>1. ~ (k <= d) /\ ~ (d + Len(part) < k)
    BY <1>4 DEF Does
  <2>2. PICK m : m = k - d
    OBVIOUS
  <2>3. m \in 1 .. Len(part) /\ k = d + m
    BY <1>1, <2>1, <2>2
  <2>. QED
    BY <1>3, <1>4, <2>3
<1>5. \A k \in 1 .. Len(code) : Does(code, k, j, "finalize") <=> k = d + f
  <2>1. ASSUME NEW k \in 1 .. Len(code), Does(code, k, j, "finalize") PROVE k = d + f
    BY <1>2, <1>4, <2>1
  <2>2. Does(code, d + f, j, "finalize")
    BY <1>2, <1>3
  <2>. QED
    BY <2>1, <2>2
<1>6. Level(code, d + f) = 0
  <2>1. f \in 1 .. Len(part) + 1
    BY <1>1
  <2>2. Level(code, d + f) = Level(code, d + 1) + Level(part, f)
    BY <2>1, LevelInPart
  <2>. QED
    BY <1>2, <2>2
<1>7. \E k \in 1 .. Len(code) : Does(code, k, j, "insert")
  BY <1>2, <1>3
<1>8. \E k \in 1 .. Len(code) : Does(code, k, j, "probe")
  BY <1>2, <1>3
<1>9. ASSUME NEW k \in 1 .. Len(code), Does(code, k, j, "insert") PROVE k < d + f
  <2>1. PICK m \in 1 .. Len(part) : k = d + m /\ Does(part, m, j, "insert")
    BY <1>4, <1>9
  <2>2. m < f
    BY <1>2, <2>1
  <2>. QED
    BY <1>1, <2>1, <2>2
<1>10. ASSUME NEW k \in 1 .. Len(code), Does(code, k, j, "probe") PROVE d + f < k
  <2>1. PICK m \in 1 .. Len(part) : k = d + m /\ Does(part, m, j, "probe")
    BY <1>4, <1>10
  <2>2. f < m
    BY <1>2, <2>1
  <2>. QED
    BY <1>1, <2>1, <2>2
<1>11. d + f \in 1 .. Len(code)
  BY <1>1
<1>. QED
  BY <1>5, <1>6, <1>7, <1>8, <1>9, <1>10, <1>11 DEF InOrder

-----------------------------------------------------------------------------
\* Every statement of a part is in the code.
Occurs(part, c) == \A k \in 1 .. Len(part) : \E m \in 1 .. Len(c) : c[m] = part[k]

\* The statements on hash tables in the code of n: only of joins below n, or above
\* it and then on its side.
AboutBelow(c, n) ==
    \A k \in 1 .. Len(c) :
        /\ c[k].what = "finalize" => c[k].by \in Below(n)
        /\ c[k].what = "insert" => \E s \in Below(n) : FromChild(c[k].by, 1, s)
        /\ c[k].what = "probe" => \E s \in Below(n) : FromChild(c[k].by, 2, s)

\* The code of n is closed, holds what is emitted for the tuples of n, and has the
\* hash tables of the joins below n in order.
Orderly(c, n) ==
    /\ c \in Seq(Statements) /\ Balanced(c)
    /\ AboutBelow(c, n)
    /\ n # Len(plan) => Occurs(Consumed(plan, required)[n], c)
    /\ \A j \in Below(n) : plan[j].op = "join" => InOrder(c, j)

\* A part says nothing on the hash table of a join that is below another operator.
LEMMA NotAbout ==
    ASSUME PlanIsForest, NEW a \in 1 .. Len(plan), NEW b, Below(a) \cap Below(b) = {},
           NEW j \in Below(a), NEW c, AboutBelow(c, b), NEW k \in 1 .. Len(c)
    PROVE  c[k].by # j \/ c[k].what \notin {"finalize", "insert", "probe"}
<1>1. j \in 1 .. Len(plan) /\ Below(j) \subseteq Below(a)
  BY BelowIsTransitive
<1>2. ASSUME NEW i \in {1, 2}, NEW s \in Below(b), FromChild(j, i, s) PROVE FALSE
  <2>1. plan[j].op = "join" /\ s \in Below(plan[j].children[i])
    BY <1>2 DEF FromChild
  <2>2. plan[j].children[i] \in Kids(j)
    BY <1>1, <1>2, <2>1, ChildrenAre
  <2>3. plan[j].children[i] \in 1 .. Len(plan)
    BY <1>1, <2>2, PlanIs
  <2>4. plan[j].children[i] \in Below(plan[j].children[i])
    BY <2>3, BelowIs
  <2>5. Below(plan[j].children[i]) \subseteq Below(j)
    BY <1>1, <2>2, BelowIs
  <2>. QED
    BY <1>1, <1>2, <2>1, <2>5
<1>. QED
  BY <1>2 DEF AboutBelow

\* The code of a scan is orderly.
LEMMA ScanIsOrderly ==
    ASSUME PlanInvariant, Prepared, NEW n \in 1 .. Len(plan), plan[n].op = "scan",
           NEW c, c = ScanCode(n, required[n], Consumed(plan, required)[n])
    PROVE  Orderly(c, n)
<1>. PICK mid : mid = Consumed(plan, required)[n]
  OBVIOUS
<1>1. PlanIsForest /\ n # Len(plan)
  BY DEF PlanInvariant
<1>2. mid \in Seq(Statements) /\ EmittedInPlace(mid, n)
  BY <1>1, ConsumedIs, ConsumedInPlace
<1>3. Encloses(c, "scan", n, mid)
  BY <1>2, ScanEmits
<1>4. Balanced(c)
  BY <1>2, <1>3, BlockIsBalanced DEF EmittedInPlace
<1>5. Below(n) = {n}
  BY <1>1, BelowIs, PlanIs
<1>6. /\ Len(mid) \in Nat /\ c \in Seq(Statements) /\ Len(c) = Len(mid) + 2
      /\ c[1].what = "scan" /\ c[Len(mid) + 2].what = "end"
      /\ \A k \in 1 .. Len(mid) : c[1 + k] = mid[k]
  BY <1>2, <1>3 DEF Encloses
<1>7. AboutBelow(c, n)
  <2>1. ASSUME NEW k \in 1 .. Len(c)
        PROVE  /\ c[k].what # "finalize"
               /\ c[k].what = "insert" => FromChild(c[k].by, 1, n)
               /\ c[k].what = "probe" => FromChild(c[k].by, 2, n)
    <3>1. CASE k = 1
      BY <1>6, <3>1
    <3>2. CASE k = Len(mid) + 2
      BY <1>6, <3>2
    <3>3. CASE k # 1 /\ k # Len(mid) + 2
      <4>1. PICK m : m = k - 1
        OBVIOUS
      <4>2. m \in 1 .. Len(mid) /\ 1 + m = k
        BY <1>6, <3>3, <4>1
      <4>3. c[k] = mid[m]
        BY <1>6, <4>2
      <4>. QED
        BY <1>2, <4>2, <4>3 DEF EmittedInPlace
    <3>. QED
      BY <3>1, <3>2, <3>3
  <2>. QED
    BY <1>5, <2>1 DEF AboutBelow
<1>8. Occurs(mid, c)
  BY <1>6 DEF Occurs
<1>. QED
  BY <1>4, <1>5, <1>6, <1>7, <1>8 DEF Orderly

\* So is that of a selection whose child has orderly code.
LEMMA SelectionIsOrderly ==
    ASSUME PlanInvariant, Prepared, NEW n \in 1 .. Len(plan), plan[n].op = "selection",
           NEW c, Orderly(c, plan[n].children[1])
    PROVE  Orderly(c, n)
<1>. PICK m : m = plan[n].children[1]
  OBVIOUS
<1>. PICK mid : mid = Consumed(plan, required)[n]
  OBVIOUS
<1>. PICK below : below = Consumed(plan, required)[m]
  OBVIOUS
<1>1. PlanIsForest /\ n # Len(plan)
  BY DEF PlanInvariant
<1>2. m \in Kids(n) /\ m \in 1 .. Len(plan) /\ Kids(n) = {m} /\ m < n
  BY <1>1, ChildrenAre, PlanIs
<1>3. Below(n) = {n} \cup Below(m)
  BY <1>1, <1>2, BelowIs
<1>4. below = SelectionConsumes(n, mid) /\ mid \in Seq(Statements)
  BY <1>2, ConsumedIs, EmittedForIs
<1>5. Encloses(below, "if", n, mid)
  BY <1>4, SelectionEmits
<1>6. Len(mid) \in Nat /\ Len(below) = Len(mid) + 2 /\ \A k \in 1 .. Len(mid) : below[1 + k] = mid[k]
  BY <1>4, <1>5 DEF Encloses
<1>7. Occurs(below, c)
  <2>1. m # Len(plan)
    BY <1>1, <1>2, PlanIs
  <2>. QED
    BY <2>1 DEF Orderly
<1>8. Occurs(mid, c)
  <2>1. ASSUME NEW k \in 1 .. Len(mid) PROVE \E i \in 1 .. Len(c) : c[i] = mid[k]
    <3>1. 1 + k \in 1 .. Len(below)
      BY <1>6
    <3>2. \E i \in 1 .. Len(c) : c[i] = below[1 + k]
      BY <1>7, <3>1 DEF Occurs
    <3>. QED
      BY <1>6, <3>2
  <2>. QED
    BY <2>1 DEF Occurs
<1>9. AboutBelow(c, n)
  BY <1>3 DEF AboutBelow, Orderly
<1>10. \A j \in Below(n) : plan[j].op = "join" => InOrder(c, j)
  BY <1>3 DEF Orderly
<1>. QED
  BY <1>8, <1>9, <1>10 DEF Orderly

\* So is that of a Print whose child has orderly code.
LEMMA PrintIsOrderly ==
    ASSUME PlanInvariant, Prepared, NEW n \in 1 .. Len(plan), plan[n].op = "print",
           NEW child, Orderly(child, plan[n].children[1]), NEW c, c = PrintCode(n, child)
    PROVE  Orderly(c, n)
<1>. PICK m : m = plan[n].children[1]
  OBVIOUS
<1>1. PlanIsForest /\ n = Len(plan) /\ child \in Seq(Statements) /\ Len(child) \in Nat
  BY DEF PlanInvariant, PlanIsForest, Orderly
<1>2. m \in Kids(n) /\ m \in 1 .. Len(plan) /\ Kids(n) = {m} /\ m < n
  BY <1>1, ChildrenAre, PlanIs
<1>3. Below(n) = {n} \cup Below(m)
  BY <1>1, <1>2, BelowIs
<1>4. /\ c \in Seq(Statements) /\ Len(c) = 1 + Len(child) /\ c[1].what = "mutex"
      /\ \A k \in 1 .. Len(child) : c[1 + k] = child[k]
  BY <1>1, PrintCodeIs
<1>5. PartAt(c, 1, child)
  BY <1>1, <1>4 DEF PartAt
<1>6. Level(c, 1 + 1) = 0
  <2>1. 1 \in 1 .. Len(c)
    BY <1>1, <1>4
  <2>2. Level(c, 1) = 0 /\ Level(c, 1 + 1) = Level(c, 1) + Depth(c[1])
    BY <1>4, <2>1, LevelIs
  <2>3. Depth(c[1]) = 0
    BY <1>4 DEF Depth
  <2>. QED
    BY <2>2, <2>3
<1>7. Balanced(c)
  <2>1. Len(c) + 1 = 1 + Len(child) + 1
    BY <1>1, <1>4
  <2>2. Balanced(child)
    BY DEF Orderly
  <2>3. Level(c, Len(c) + 1) = Level(c, 1 + 1)
    BY <1>1, <1>4, <1>5, <2>1, <2>2, LevelAfterPart
  <2>. QED
    BY <1>6, <2>3 DEF Balanced
<1>8. ASSUME NEW k \in 1 .. Len(c) PROVE k = 1 \/ \E i \in 1 .. Len(child) : k = 1 + i /\ c[k] = child[i]
  <2>1. CASE k # 1
    <3>1. PICK i : i = k - 1
      OBVIOUS
    <3>2. i \in 1 .. Len(child) /\ k = 1 + i
      BY <1>1, <1>4, <2>1, <3>1
    <3>. QED
      BY <1>4, <3>2
  <2>. QED
    BY <2>1
<1>9. AboutBelow(c, n)
  <2>1. AboutBelow(child, m)
    BY DEF Orderly
  <2>. QED
    BY <1>3, <1>4, <1>8, <2>1 DEF AboutBelow
<1>10. ASSUME NEW j \in Below(n), plan[j].op = "join" PROVE InOrder(c, j)
  <2>1. j \in Below(m)
    BY <1>3, <1>10
  <2>2. InOrder(child, j)
    BY <1>10, <2>1 DEF Orderly
  <2>3. ASSUME NEW k \in 1 .. Len(c), k <= 1 \/ 1 + Len(child) < k
        PROVE  c[k].by # j \/ c[k].what \notin {"finalize", "insert", "probe"}
    <3>1. k = 1
      BY <1>1, <1>4, <2>3
    <3>. QED
      BY <1>4, <3>1
  <2>. QED
    BY <1>1, <1>4, <1>5, <1>6, <2>2, <2>3, PartInOrder
<1>. QED
  BY <1>1, <1>4, <1>7, <1>9, <1>10 DEF Orderly

-----------------------------------------------------------------------------
\* Where the statements of a join's code come from.
LEMMA JoinCodeParts ==
    ASSUME NEW n \in 1 .. Len(plan), NEW left \in Seq(Statements), NEW right \in Seq(Statements),
           Balanced(left), Balanced(right), NEW c, c = JoinCode(n, left, right)
    PROVE  /\ c \in Seq(Statements) /\ Len(c) = Len(left) + 2 + Len(right)
           /\ PartAt(c, 1, left) /\ PartAt(c, Len(left) + 2, right)
           /\ Level(c, 1 + 1) = 0 /\ Level(c, Len(left) + 2) = 0 /\ Level(c, Len(left) + 2 + 1) = 0
           /\ Balanced(c)
           /\ c[1].what = "map" /\ c[Len(left) + 2].what = "finalize" /\ c[Len(left) + 2].by = n
           /\ \A k \in 1 .. Len(c) :
                 \/ k = 1 \/ k = Len(left) + 2
                 \/ \E i \in 1 .. Len(left) : k = 1 + i /\ c[k] = left[i]
                 \/ \E i \in 1 .. Len(right) : k = Len(left) + 2 + i /\ c[k] = right[i]
<1>1. /\ c \in Seq(Statements) /\ Len(c) = Len(left) + 2 + Len(right)
      /\ c[1].what = "map"
      /\ \A k \in 1 .. Len(left) : c[1 + k] = left[k]
      /\ c[Len(left) + 2].what = "finalize" /\ c[Len(left) + 2].by = n
      /\ \A k \in 1 .. Len(right) : c[Len(left) + 2 + k] = right[k]
  <2>1. Joins(c, n, left, right)
    BY JoinEmits
  <2>. QED
    BY <2>1 DEF Joins
<1>2. Len(left) \in Nat /\ Len(right) \in Nat
  OBVIOUS
<1>3. PartAt(c, 1, left) /\ PartAt(c, Len(left) + 2, right)
  <2>1. 1 + Len(left) <= Len(c) /\ Len(left) + 2 + Len(right) <= Len(c)
    BY <1>1, <1>2
  <2>2. PartAt(c, 1, left)
    BY <1>1, <2>1 DEF PartAt
  <2>3. PartAt(c, Len(left) + 2, right)
    BY <1>1, <2>1 DEF PartAt
  <2>. QED
    BY <2>2, <2>3
<1>4. Level(c, 1 + 1) = 0
  <2>1. 1 \in 1 .. Len(c)
    BY <1>1, <1>2
  <2>2. Level(c, 1) = 0 /\ Level(c, 1 + 1) = Level(c, 1) + Depth(c[1])
    BY <1>1, <2>1, LevelIs
  <2>3. Depth(c[1]) = 0
    BY <1>1 DEF Depth
  <2>. QED
    BY <2>2, <2>3
<1>5. Level(c, Len(left) + 2) = 0
  <2>1. Len(left) + 2 = 1 + Len(left) + 1
    BY <1>2
  <2>2. Level(c, Len(left) + 2) = Level(c, 1 + 1)
    BY <1>1, <1>3, <2>1, LevelAfterPart
  <2>. QED
    BY <1>4, <2>2
<1>6. Level(c, Len(left) + 2 + 1) = 0
  <2>1. Len(left) + 2 \in 1 .. Len(c)
    BY <1>1, <1>2
  <2>2. Level(c, Len(left) + 2 + 1) = Level(c, Len(left) + 2) + Depth(c[Len(left) + 2])
    BY <1>1, <2>1, LevelIs
  <2>3. Depth(c[Len(left) + 2]) = 0
    BY <1>1 DEF Depth
  <2>. QED
    BY <1>5, <2>2, <2>3
<1>7. Balanced(c)
  <2>1. Len(left) + 2 \in Nat /\ Len(c) + 1 = (Len(left) + 2) + Len(right) + 1
    BY <1>1, <1>2
  <2>2. Level(c, Len(c) + 1) = Level(c, Len(left) + 2 + 1)
    BY <1>1, <1>3, <2>1, LevelAfterPart
  <2>. QED
    BY <1>6, <2>2 DEF Balanced
<1>8. ASSUME NEW k \in 1 .. Len(c)
      PROVE  \/ k = 1 \/ k = Len(left) + 2
             \/ \E i \in 1 .. Len(left) : k = 1 + i /\ c[k] = left[i]
             \/ \E i \in 1 .. Len(right) : k = Len(left) + 2 + i /\ c[k] = right[i]
  <2>1. CASE 1 < k /\ k < Len(left) + 2
    <3>1. PICK i : i = k - 1
      OBVIOUS
    <3>2. i \in 1 .. Len(left) /\ k = 1 + i
      BY <1>2, <2>1, <3>1
    <3>. QED
      BY <1>1, <3>2
  <2>2. CASE Len(left) + 2 < k
    <3>1. PICK i : i = k - (Len(left) + 2)
      OBVIOUS
    <3>2. i \in 1 .. Len(right) /\ k = Len(left) + 2 + i
      BY <1>1, <1>2, <2>2, <3>1
    <3>. QED
      BY <1>1, <3>2
  <2>. QED
    BY <1>2, <2>1, <2>2
<1>. QED
  BY <1>1, <1>3, <1>4, <1>5, <1>6, <1>7, <1>8

\* So is that of a join whose children have orderly code: it fills its hash table in
\* the code of the left child, then finalizes it, then looks up in that of the right.
LEMMA JoinIsOrderly ==
    ASSUME PlanInvariant, Prepared, NEW n \in 1 .. Len(plan), plan[n].op = "join",
           NEW left, Orderly(left, plan[n].children[1]),
           NEW right, Orderly(right, plan[n].children[2]), NEW c, c = JoinCode(n, left, right)
    PROVE  Orderly(c, n)
<1>. PICK l : l = plan[n].children[1]
  OBVIOUS
<1>. PICK r : r = plan[n].children[2]
  OBVIOUS
<1>. PICK C : C = Consumed(plan, required)
  OBVIOUS
<1>1. /\ PlanIsForest /\ n # Len(plan)
      /\ left \in Seq(Statements) /\ right \in Seq(Statements) /\ Balanced(left) /\ Balanced(right)
      /\ Len(left) \in Nat /\ Len(right) \in Nat
  BY DEF PlanInvariant, Orderly
<1>2. /\ l \in Kids(n) /\ r \in Kids(n) /\ l # r /\ l < n /\ r < n
      /\ l \in 1 .. Len(plan) /\ r \in 1 .. Len(plan) /\ Kids(n) = {l, r}
  BY <1>1, ChildrenAre, PlanIs
<1>3. /\ Below(n) = {n} \cup Below(l) \cup Below(r) /\ Below(l) \cap Below(r) = {}
      /\ Below(l) \subseteq 1 .. l /\ Below(r) \subseteq 1 .. r
      /\ n \notin Below(l) /\ n \notin Below(r)
  <2>1. Below(n) = {n} \cup UNION {Below(x) : x \in {l, r}}
    BY <1>1, <1>2, BelowIs
  <2>2. Below(l) \cap Below(r) = {}
    BY <1>1, <1>2, BelowApart
  <2>3. Below(l) \subseteq 1 .. l /\ Below(r) \subseteq 1 .. r
    BY <1>1, <1>2, BelowIs
  <2>4. n \notin Below(l) /\ n \notin Below(r)
    BY <1>2, <2>3
  <2>. QED
    BY <2>1, <2>2, <2>3, <2>4
<1>4. /\ c \in Seq(Statements) /\ Len(c) = Len(left) + 2 + Len(right)
      /\ PartAt(c, 1, left) /\ PartAt(c, Len(left) + 2, right)
      /\ Level(c, 1 + 1) = 0 /\ Level(c, Len(left) + 2) = 0 /\ Level(c, Len(left) + 2 + 1) = 0
      /\ Balanced(c)
      /\ c[1].what = "map" /\ c[Len(left) + 2].what = "finalize" /\ c[Len(left) + 2].by = n
      /\ \A k \in 1 .. Len(c) :
            \/ k = 1 \/ k = Len(left) + 2
            \/ \E i \in 1 .. Len(left) : k = 1 + i /\ c[k] = left[i]
            \/ \E i \in 1 .. Len(right) : k = Len(left) + 2 + i /\ c[k] = right[i]
  BY <1>1, JoinCodeParts
<1>5. AboutBelow(left, l) /\ AboutBelow(right, r)
  BY DEF Orderly
<1>6. AboutBelow(c, n)
  <2>1. ASSUME NEW k \in 1 .. Len(c)
        PROVE  /\ c[k].what = "finalize" => c[k].by \in Below(n)
               /\ c[k].what = "insert" => \E s \in Below(n) : FromChild(c[k].by, 1, s)
               /\ c[k].what = "probe" => \E s \in Below(n) : FromChild(c[k].by, 2, s)
    <3>1. CASE k = 1
      BY <1>4, <3>1
    <3>2. CASE k = Len(left) + 2
      BY <1>3, <1>4, <3>2
    <3>3. ASSUME NEW i \in 1 .. Len(left), c[k] = left[i] PROVE <2>1!2
      BY <1>3, <1>5, <3>3 DEF AboutBelow
    <3>4. ASSUME NEW i \in 1 .. Len(right), c[k] = right[i] PROVE <2>1!2
      BY <1>3, <1>5, <3>4 DEF AboutBelow
    <3>. QED
      BY <1>4, <3>1, <3>2, <3>3, <3>4
  <2>. QED
    BY <2>1 DEF AboutBelow
<1>7. /\ Occurs(C[l], left) /\ Occurs(C[r], right)
      /\ C[n] \in Seq(Statements)
      /\ Len(C[l]) = 1 /\ C[l][1].what = "insert" /\ C[l][1].by = n
      /\ Encloses(C[r], "probe", n, C[n])
  <2>1. l # Len(plan) /\ r # Len(plan)
    BY <1>1, <1>2, PlanIs
  <2>8. C[l] = EmittedFor(C, l, n) /\ C[r] = EmittedFor(C, r, n)
    BY <1>2, ConsumedIs
  <2>2. C[l] = JoinConsumesLeft(n, plan[n].predicates, TupleFields(plan, required, n))
    BY <1>2, <2>8, EmittedForIs
  <2>3. C[r] = JoinConsumesRight(n, plan[n].predicates, TupleFields(plan, required, n), C[n])
    BY <1>2, <2>8, EmittedForIs
  <2>4. C[n] \in Seq(Statements)
    BY ConsumedIs
  <2>5. Len(C[l]) = 1 /\ C[l][1].what = "insert" /\ C[l][1].by = n
    BY <2>2, JoinEmitsLeft
  <2>6. Encloses(C[r], "probe", n, C[n])
    BY <2>3, <2>4, JoinEmitsRight
  <2>7. Occurs(C[l], left) /\ Occurs(C[r], right)
    BY <2>1 DEF Orderly
  <2>. QED
    BY <2>4, <2>5, <2>6, <2>7
<1>8. /\ Len(C[n]) \in Nat /\ Len(C[r]) = Len(C[n]) + 2 /\ C[r][1].what = "probe" /\ C[r][1].by = n
      /\ \A k \in 1 .. Len(C[n]) : C[r][1 + k] = C[n][k]
  BY <1>7 DEF Encloses
<1>9. /\ \A i \in 1 .. Len(left) : 1 + i \in 1 .. Len(c) /\ c[1 + i] = left[i]
      /\ \A i \in 1 .. Len(right) : Len(left) + 2 + i \in 1 .. Len(c) /\ c[Len(left) + 2 + i] = right[i]
  BY <1>1, <1>4 DEF PartAt
<1>10. Occurs(C[n], c)
  <2>1. ASSUME NEW k \in 1 .. Len(C[n]) PROVE \E m \in 1 .. Len(c) : c[m] = C[n][k]
    <3>1. 1 + k \in 1 .. Len(C[r])
      BY <1>8
    <3>2. PICK i \in 1 .. Len(right) : right[i] = C[r][1 + k]
      BY <1>7, <3>1 DEF Occurs
    <3>. QED
      BY <1>8, <1>9, <3>2
  <2>. QED
    BY <2>1 DEF Occurs
<1>11. InOrder(c, n)
  <2>. DEFINE f == Len(left) + 2
  <2>1. f \in 1 .. Len(c) /\ Does(c, f, n, "finalize") /\ Level(c, f) = 0
    BY <1>1, <1>4 DEF Does
  <2>2. ASSUME NEW i \in 1 .. Len(left)
        PROVE  ~ (left[i].by = n /\ left[i].what \in {"finalize", "probe"})
    <3>1. ASSUME NEW s \in Below(l), FromChild(n, 2, s) PROVE FALSE
      BY <1>3, <3>1 DEF FromChild
    <3>. QED
      BY <1>3, <1>5, <3>1 DEF AboutBelow
  <2>3. ASSUME NEW i \in 1 .. Len(right)
        PROVE  ~ (right[i].by = n /\ right[i].what \in {"finalize", "insert"})
    <3>1. ASSUME NEW s \in Below(r), FromChild(n, 1, s) PROVE FALSE
      BY <1>3, <3>1 DEF FromChild
    <3>. QED
      BY <1>3, <1>5, <3>1 DEF AboutBelow
  <2>4. ASSUME NEW k \in 1 .. Len(c)
        PROVE  /\ Does(c, k, n, "finalize") => k = f
               /\ Does(c, k, n, "insert") => k < f
               /\ Does(c, k, n, "probe") => f < k
    <3>1. CASE k = 1
      BY <1>4, <3>1 DEF Does
    <3>2. CASE k = f
      BY <1>4, <3>2 DEF Does
    <3>3. ASSUME NEW i \in 1 .. Len(left), k = 1 + i, c[k] = left[i] PROVE <2>4!2
      <4>1. k < f
        BY <1>1, <3>3
      <4>. QED
        BY <2>2, <3>3, <4>1 DEF Does
    <3>4. ASSUME NEW i \in 1 .. Len(right), k = Len(left) + 2 + i, c[k] = right[i] PROVE <2>4!2
      <4>1. f < k
        BY <1>1, <3>4
      <4>. QED
        BY <2>3, <3>4, <4>1 DEF Does
    <3>. QED
      BY <1>4, <3>1, <3>2, <3>3, <3>4
  <2>5. \E k \in 1 .. Len(c) : Does(c, k, n, "insert")
    <3>1. PICK i \in 1 .. Len(left) : left[i] = C[l][1]
      BY <1>7 DEF Occurs
    <3>. QED
      BY <1>7, <1>9, <3>1 DEF Does
  <2>6. \E k \in 1 .. Len(c) : Does(c, k, n, "probe")
    <3>1. 1 \in 1 .. Len(C[r])
      BY <1>8
    <3>2. PICK i \in 1 .. Len(right) : right[i] = C[r][1]
      BY <1>7, <3>1 DEF Occurs
    <3>3. Len(left) + 2 + i \in 1 .. Len(c) /\ c[Len(left) + 2 + i] = C[r][1]
      BY <1>9, <3>2
    <3>. QED
      BY <1>8, <3>3 DEF Does
  <2>. HIDE DEF f
  <2>. QED
    BY <2>1, <2>4, <2>5, <2>6 DEF InOrder
<1>12. ASSUME NEW j \in Below(l), plan[j].op = "join" PROVE InOrder(c, j)
  <2>1. InOrder(left, j)
    BY <1>12 DEF Orderly
  <2>2. j # n
    BY <1>3
  <2>3. ASSUME NEW k \in 1 .. Len(c), k <= 1 \/ 1 + Len(left) < k
        PROVE  c[k].by # j \/ c[k].what \notin {"finalize", "insert", "probe"}
    <3>1. CASE k = 1
      BY <1>4, <3>1
    <3>2. CASE k = Len(left) + 2
      BY <1>4, <2>2, <3>2
    <3>3. ASSUME NEW i \in 1 .. Len(left), k = 1 + i PROVE FALSE
      BY <1>1, <2>3, <3>3
    <3>4. ASSUME NEW i \in 1 .. Len(right), c[k] = right[i]
                PROVE  c[k].by # j \/ c[k].what \notin {"finalize", "insert", "probe"}
      <4>1. Below(l) \cap Below(r) = {} /\ i \in 1 .. Len(right)
        BY <1>3
      <4>2. right[i].by # j \/ right[i].what \notin {"finalize", "insert", "probe"}
        BY <1>1, <1>2, <1>5, <4>1, NotAbout
      <4>. QED
        BY <3>4, <4>2
    <3>. QED
      BY <1>4, <3>1, <3>2, <3>3, <3>4
  <2>. QED
    BY <1>1, <1>4, <2>1, <2>3, PartInOrder
<1>13. ASSUME NEW j \in Below(r), plan[j].op = "join" PROVE InOrder(c, j)
  <2>1. InOrder(right, j)
    BY <1>13 DEF Orderly
  <2>2. j # n
    BY <1>3
  <2>3. ASSUME NEW k \in 1 .. Len(c), k <= Len(left) + 2 \/ Len(left) + 2 + Len(right) < k
        PROVE  c[k].by # j \/ c[k].what \notin {"finalize", "insert", "probe"}
    <3>1. CASE k = 1
      BY <1>4, <3>1
    <3>2. CASE k = Len(left) + 2
      BY <1>4, <2>2, <3>2
    <3>3. ASSUME NEW i \in 1 .. Len(right), k = Len(left) + 2 + i PROVE FALSE
      BY <1>1, <2>3, <3>3
    <3>4. ASSUME NEW i \in 1 .. Len(left), c[k] = left[i]
                PROVE  c[k].by # j \/ c[k].what \notin {"finalize", "insert", "probe"}
      <4>1. Below(r) \cap Below(l) = {}
        BY <1>3
      <4>. QED
        BY <1>1, <1>2, <1>5, <3>4, <4>1, NotAbout
    <3>. QED
      BY <1>4, <3>1, <3>2, <3>3, <3>4
  <2>4. Len(left) + 2 \in Nat
    BY <1>1
  <2>. QED
    BY <1>1, <1>4, <2>1, <2>3, <2>4, PartInOrder
<1>14. \A j \in Below(n) : plan[j].op = "join" => InOrder(c, j)
  BY <1>3, <1>11, <1>12, <1>13
<1>. QED
  BY <1>4, <1>6, <1>10, <1>14 DEF Orderly

-----------------------------------------------------------------------------
\* Produce of a prepared plan has every join's hash table in order.
LEMMA CodeIsOrderly ==
    ASSUME PlanInvariant, Prepared
    PROVE  Orderly(Produce(plan, required), Len(plan))
<1>1. PlanIsForest /\ Len(plan) \in Nat /\ Len(plan) \in 1 .. Len(plan)
  BY AllBelowPrint, PlanIs DEF PlanInvariant
<1>2. PICK code \in [1 .. Len(plan) -> Seq(Statements)] :
        /\ Produce(plan, required) = code[Len(plan)]
        /\ \A n \in 1 .. Len(plan) : code[n] = CodeFor(code, n)
  BY CodeIs
<1>. DEFINE T == {n \in 1 .. Len(plan) : ~ Orderly(code[n], n)}
<1>3. ASSUME T # {} PROVE FALSE
  <2>1. PICK n \in T : \A m \in T : n <= m
    <3>1. T \subseteq Nat
      BY <1>1
    <3>. HIDE DEF T
    <3>. QED
      BY <1>3, <3>1, LeastNumber
  <2>2. n \in 1 .. Len(plan) /\ n \in Nat /\ code[n] = CodeFor(code, n) /\ ~ Orderly(code[n], n)
    BY <1>1, <1>2, <2>1
  <2>3. ASSUME NEW c \in Kids(n) PROVE Orderly(code[c], c)
    <3>1. c \in 1 .. Len(plan) /\ c \in 1 .. n - 1
      BY <1>1, <2>2, PlanIs
    <3>2. c \notin T
      BY <2>1, <2>2, <3>1
    <3>. QED
      BY <3>1, <3>2
  <2>. HIDE DEF T
  <2>4. CASE plan[n].op = "scan"
    <3>1. code[n] = ScanCode(n, required[n], Consumed(plan, required)[n])
      BY <1>1, <2>2, <2>4, CodeForIs
    <3>. QED
      BY <2>2, <2>4, <3>1, ScanIsOrderly
  <2>5. CASE plan[n].op = "selection"
    <3>1. code[n] = code[plan[n].children[1]]
      BY <1>1, <2>2, <2>5, CodeForIs
    <3>2. Orderly(code[n], plan[n].children[1])
      BY <1>1, <2>2, <2>3, <2>5, <3>1, ChildrenAre
    <3>. QED
      BY <2>2, <2>5, <3>2, SelectionIsOrderly
  <2>6. CASE plan[n].op = "join"
    <3>1. code[n] = JoinCode(n, code[plan[n].children[1]], code[plan[n].children[2]])
      BY <1>1, <2>2, <2>6, CodeForIs
    <3>2. Orderly(code[plan[n].children[1]], plan[n].children[1])
      BY <1>1, <2>2, <2>3, <2>6, ChildrenAre
    <3>3. Orderly(code[plan[n].children[2]], plan[n].children[2])
      BY <1>1, <2>2, <2>3, <2>6, ChildrenAre
    <3>. QED
      BY <2>2, <2>6, <3>1, <3>2, <3>3, JoinIsOrderly
  <2>7. CASE plan[n].op = "print"
    <3>1. code[n] = PrintCode(n, code[plan[n].children[1]])
      BY <1>1, <2>2, <2>7, CodeForIs
    <3>2. Orderly(code[plan[n].children[1]], plan[n].children[1])
      BY <1>1, <2>2, <2>3, <2>7, ChildrenAre
    <3>. QED
      BY <2>2, <2>7, <3>1, <3>2, PrintIsOrderly
  <2>. QED
    BY <1>1, <2>2, <2>4, <2>5, <2>6, <2>7, PlanIs
<1>. QED
  BY <1>1, <1>2, <1>3

\* A prepared plan that is a forest has its hash tables in order.
LEMMA TablesFollow == ASSUME PlanInvariant PROVE HashTablesInOrder
<1>. PICK code : code = Produce(plan, required)
  OBVIOUS
<1>. DEFINE At(n, what) == {k \in DOMAIN code : code[k].by = n /\ code[k].what = what}
<1>1. ASSUME Prepared, NEW n \in 1 .. Len(plan), plan[n].op = "join"
      PROVE  \E f \in DOMAIN code :
                 /\ At(n, "finalize") = {f} /\ Level(code, f) = 0
                 /\ At(n, "insert") # {} /\ \A k \in At(n, "insert") : k < f
                 /\ At(n, "probe") # {} /\ \A k \in At(n, "probe") : f < k
  <2>1. Orderly(code, Len(plan)) /\ n \in Below(Len(plan))
    BY <1>1, CodeIsOrderly, AllBelowPrint
  <2>2. InOrder(code, n) /\ code \in Seq(Statements)
    BY <1>1, <2>1 DEF Orderly
  <2>3. DOMAIN code = 1 .. Len(code)
    BY <2>2
  <2>4. PICK f \in 1 .. Len(code) :
          /\ \A k \in 1 .. Len(code) : Does(code, k, n, "finalize") <=> k = f
          /\ Level(code, f) = 0
          /\ \E k \in 1 .. Len(code) : Does(code, k, n, "insert")
          /\ \A k \in 1 .. Len(code) : Does(code, k, n, "insert") => k < f
          /\ \E k \in 1 .. Len(code) : Does(code, k, n, "probe")
          /\ \A k \in 1 .. Len(code) : Does(code, k, n, "probe") => f < k
    BY <2>2 DEF InOrder
  <2>5. \A k, w : k \in At(n, w) <=> k \in 1 .. Len(code) /\ Does(code, k, n, w)
    BY <2>3 DEF Does
  <2>. HIDE DEF At
  <2>6. At(n, "finalize") = {f}
    BY <2>4, <2>5
  <2>7. At(n, "insert") # {} /\ At(n, "probe") # {}
    BY <2>4, <2>5
  <2>8. (\A k \in At(n, "insert") : k < f) /\ \A k \in At(n, "probe") : f < k
    BY <2>4, <2>5
  <2>. QED
    BY <2>3, <2>4, <2>6, <2>7, <2>8
<1>. QED
  BY <1>1 DEF HashTablesInOrder

\* However a client makes operators out of others, the plan is a forest in which
\* children come first, and one that is prepared is a tree with the Print on top.
THEOREM PlansAreTrees == QuerySpec => []PlanInvariant
<1>1. InitQuery => PlanInvariant
  BY InitPlan
<1>2. PlanInvariant /\ [QueryNext]_queryVars => PlanInvariant'
  BY PlanStep
<1>. QED
  BY <1>1, <1>2, PTL DEF QuerySpec

\* Whatever plan a client builds and prepares, the code that it emits fills every
\* join's hash table, then finalizes it once, in no loop, then looks up in it.
THEOREM HashTablesAreUsedInOrder == QuerySpec => []HashTablesInOrder
<1>1. PlanInvariant => HashTablesInOrder
  BY TablesFollow
<1>. QED
  BY <1>1, PlansAreTrees, PTL

-----------------------------------------------------------------------------
\* The greatest of some of the first numbers.
LEMMA MaxIs ==
    ASSUME NEW n \in Nat, NEW s \in SUBSET (1 .. n), s # {}
    PROVE  Max(s) \in s /\ Max(s) \in 1 .. n /\ \A y \in s : y <= Max(s)
<1>1. s \subseteq Nat /\ \A y \in s : y <= n
  OBVIOUS
<1>2. \E x \in s : \A y \in s : x >= y
  BY <1>1, GreatestNumber
<1>. QED
  BY <1>2 DEF Max

\* The greatest of the first numbers, and the others.
LEMMA IntervalTop ==
    ASSUME NEW k \in Nat, k # 0
    PROVE  Max(1 .. k) = k /\ (1 .. k) \ {k} = 1 .. k - 1 /\ 1 .. k # {}
<1>1. 1 .. k # {} /\ k \in 1 .. k /\ (1 .. k) \ {k} = 1 .. k - 1
  OBVIOUS
<1>2. Max(1 .. k) \in 1 .. k /\ k <= Max(1 .. k)
  BY <1>1, MaxIs
<1>. QED
  BY <1>1, <1>2

\* f is what a fold of g over fs makes of b and the values at a set of places.
FoldsBy(f, fs, V, b, g) ==
    /\ f \in [SUBSET (1 .. Len(fs)) -> V]
    /\ f[{}] = b
    /\ \A s \in SUBSET (1 .. Len(fs)) : s # {} => f[s] = g[f[s \ {Max(s)}]][fs[Max(s)]]

\* The function that a fold is computed by: of a set of places, what is made of
\* the values at these places.
LEMMA FoldExists ==
    ASSUME NEW S, NEW fs \in Seq(S), NEW V, NEW b \in V, NEW g \in [V -> [S -> V]]
    PROVE  \E f : FoldsBy(f, fs, V, b, g)
<1>. DEFINE N == Len(fs)
            D == SUBSET (1 .. N)
            E == [f \in [D -> V] |->
                     [s \in D |-> IF s = {} THEN b ELSE g[f[s \ {Max(s)}]][fs[Max(s)]]]]
            rank == [s \in D |-> IF s = {} THEN 0 ELSE Max(s)]
<1>1. N \in Nat /\ V # {} /\ \A k \in 1 .. N : fs[k] \in S
  OBVIOUS
<1>2. ASSUME NEW s \in D, s # {}
      PROVE  Max(s) \in s /\ Max(s) \in 1 .. N /\ s \ {Max(s)} \in D /\ \A y \in s : y <= Max(s)
  BY <1>1, <1>2, MaxIs
<1>3. E \in [[D -> V] -> [D -> V]]
  <2>1. ASSUME NEW f \in [D -> V], NEW s \in D
        PROVE  (IF s = {} THEN b ELSE g[f[s \ {Max(s)}]][fs[Max(s)]]) \in V
    <3>1. CASE s = {}
      BY <3>1
    <3>2. CASE s # {}
      <4>1. f[s \ {Max(s)}] \in V /\ fs[Max(s)] \in S
        BY <1>1, <1>2, <3>2
      <4>2. g[f[s \ {Max(s)}]][fs[Max(s)]] \in V
        BY <4>1
      <4>. QED
        BY <3>2, <4>2
    <3>. QED
      BY <3>1, <3>2
  <2>. HIDE DEF D
  <2>. QED
    BY <2>1
<1>4. rank \in [D -> 0 .. N]
  <2>1. ASSUME NEW s \in D PROVE (IF s = {} THEN 0 ELSE Max(s)) \in 0 .. N
    <3>1. CASE s = {}
      BY <1>1, <3>1
    <3>2. CASE s # {}
      <4>1. Max(s) \in 1 .. N
        BY <1>2, <3>2
      <4>. QED
        BY <1>1, <3>2, <4>1
    <3>. QED
      BY <3>1, <3>2
  <2>. HIDE DEF D
  <2>. QED
    BY <2>1
<1>5. ASSUME NEW f \in [D -> V], NEW h \in [D -> V], NEW s \in D,
             \A t \in D : rank[t] < rank[s] => f[t] = h[t]
      PROVE  E[f][s] = E[h][s]
  <2>1. CASE s = {}
    BY <2>1
  <2>2. CASE s # {}
    <3>1. PICK t : t = s \ {Max(s)}
      OBVIOUS
    <3>2. t \in D /\ Max(s) \in 1 .. N /\ rank[s] = Max(s)
      BY <1>2, <2>2, <3>1
    <3>3. rank[t] < rank[s]
      <4>1. CASE t = {}
        BY <3>2, <4>1
      <4>2. CASE t # {}
        <5>1. Max(t) \in t /\ Max(t) \in 1 .. N /\ rank[t] = Max(t)
          BY <1>2, <3>2, <4>2
        <5>2. Max(t) \in s /\ Max(t) # Max(s)
          BY <3>1, <5>1
        <5>3. Max(t) <= Max(s)
          BY <1>2, <2>2, <5>2
        <5>. HIDE DEF rank, D
        <5>4. Max(t) < Max(s)
          <6>. HIDE DEF N, E
          <6>1. Max(t) \in Nat
            BY <1>1, <5>1
          <6>2. Max(s) \in Nat
            BY <1>1, <3>2
          <6>. QED
            BY <5>2, <5>3, <6>1, <6>2
        <5>. QED
          BY <3>2, <5>1, <5>4
      <4>. QED
        BY <4>1, <4>2
    <3>4. f[t] = h[t]
      BY <1>5, <3>2, <3>3
    <3>. QED
      BY <2>2, <3>1, <3>4
  <2>. QED
    BY <2>1, <2>2
<1>. HIDE DEF E, rank, D, N
<1>6. LooksBelow(D, V, rank, E)
  BY <1>5 DEF LooksBelow
<1>7. HasFixpoint(D, V, E)
  BY <1>1, <1>3, <1>4, <1>6, RecursiveFunction
<1>8. PICK f \in [D -> V] : f = E[f]
  BY <1>7 DEF HasFixpoint
<1>9. f = [s \in D |-> IF s = {} THEN b ELSE g[f[s \ {Max(s)}]][fs[Max(s)]]]
  BY <1>8 DEF E
<1>10. \A s \in D : s # {} => f[s] = g[f[s \ {Max(s)}]][fs[Max(s)]]
  BY <1>9
<1>11. f[{}] = b
  BY <1>9 DEF D
<1>. QED
  BY <1>10, <1>11 DEF D, N, FoldsBy
-----------------------------------------------------------------------------
\* PushAllNew goes through the list.
LEMMA PushAllSteps ==
    ASSUME NEW S, NEW list \in Seq(S), NEW fs \in Seq(S)
    PROVE  \E f \in [0 .. Len(fs) -> Seq(S)] :
               /\ f[0] = list /\ f[Len(fs)] = PushAllNew(list, fs)
               /\ \A k \in 1 .. Len(fs) : f[k] = PushNew(f[k - 1], fs[k])
<1>. DEFINE N == Len(fs)
            D == SUBSET (1 .. N)
            V == Seq(S)
            g == [l \in V |-> [x \in S |-> PushNew(l, x)]]
<1>1. N \in Nat /\ DOMAIN fs = 1 .. N /\ \A k \in 1 .. N : fs[k] \in S
  OBVIOUS
<1>2. \A l \in V, x \in S : PushNew(l, x) \in V
  BY DEF PushNew
<1>3. PICK f : FoldsBy(f, fs, V, list, g)
  <2>1. g \in [V -> [S -> V]]
    BY <1>2
  <2>. HIDE DEF g, V
  <2>2. list \in V
    BY DEF V
  <2>. QED
    BY <2>1, <2>2, FoldExists
<1>. DEFINE B == CHOOSE iter : iter = [s \in SUBSET (DOMAIN fs) |->
                    IF s = {} THEN list ELSE PushNew(iter[s \ {Max(s)}], fs[Max(s)])]
<1>4. f = [s \in SUBSET (DOMAIN fs) |->
              IF s = {} THEN list ELSE PushNew(f[s \ {Max(s)}], fs[Max(s)])]
  <2>1. ASSUME NEW s \in D, s # {}
        PROVE  g[f[s \ {Max(s)}]][fs[Max(s)]] = PushNew(f[s \ {Max(s)}], fs[Max(s)])
    <3>1. Max(s) \in 1 .. N
      BY <1>1, <2>1, MaxIs
    <3>2. f[s \ {Max(s)}] \in V /\ fs[Max(s)] \in S
      BY <1>1, <1>3, <3>1 DEF FoldsBy
    <3>. QED
      BY <3>2
  <2>4. f[{}] = list /\ f \in [D -> V]
    BY <1>3 DEF FoldsBy
  <2>5. \A s \in D : s # {} => f[s] = g[f[s \ {Max(s)}]][fs[Max(s)]]
    BY <1>3 DEF FoldsBy
  <2>2. \A s \in D : f[s] = IF s = {} THEN list ELSE PushNew(f[s \ {Max(s)}], fs[Max(s)])
    BY <2>1, <2>4, <2>5
  <2>3. SUBSET (DOMAIN fs) = D
    BY <1>1
  <2>. HIDE DEF D, V, g
  <2>. QED
    BY <2>2, <2>3, <2>4
<1>5. B = [s \in SUBSET (DOMAIN fs) |->
              IF s = {} THEN list ELSE PushNew(B[s \ {Max(s)}], fs[Max(s)])]
  BY <1>4
<1>6. PushAllNew(list, fs) = B[1 .. N]
  BY <1>1 DEF PushAllNew, FoldLeft, MapThenFoldSet
<1>. HIDE DEF B
<1>7. B[1 .. 0] = list
  <2>1. 1 .. 0 = {} /\ 1 .. 0 \in SUBSET (DOMAIN fs)
    OBVIOUS
  <2>. QED
    BY <1>5, <2>1
<1>8. ASSUME NEW k \in 1 .. N PROVE B[1 .. k] = PushNew(B[1 .. k - 1], fs[k])
  <2>1. k \in Nat /\ k # 0 /\ 1 .. k \in SUBSET (DOMAIN fs)
    BY <1>1
  <2>2. Max(1 .. k) = k /\ (1 .. k) \ {k} = 1 .. k - 1 /\ 1 .. k # {}
    BY <2>1, IntervalTop
  <2>3. B[1 .. k] = PushNew(B[(1 .. k) \ {Max(1 .. k)}], fs[Max(1 .. k)])
    BY <1>5, <2>1, <2>2
  <2>. QED
    BY <2>2, <2>3
<1>. DEFINE h == [k \in 0 .. N |-> B[1 .. k]]
            T == {k \in 0 .. N : B[1 .. k] \notin V}
<1>9. ASSUME T # {} PROVE FALSE
  <2>1. PICK k \in T : \A j \in T : k <= j
    <3>1. T \subseteq Nat
      OBVIOUS
    <3>. HIDE DEF T
    <3>. QED
      BY <1>9, <3>1, LeastNumber
  <2>2. k \in 0 .. N /\ B[1 .. k] \notin V /\ k # 0
    BY <1>7, <2>1
  <2>. PICK j : j = k - 1
    OBVIOUS
  <2>3. j \in 0 .. N /\ k \in 1 .. N /\ j < k
    BY <1>1, <2>2
  <2>4. j \notin T
    BY <2>1, <2>3
  <2>5. B[1 .. j] \in V
    BY <2>3, <2>4
  <2>6. B[1 .. k] = PushNew(B[1 .. j], fs[k]) /\ fs[k] \in S
    BY <1>1, <1>8, <2>3
  <2>. HIDE DEF V
  <2>. QED
    BY <1>2, <2>2, <2>5, <2>6
<1>10. h \in [0 .. N -> Seq(S)]
  BY <1>9
<1>11. h[0] = list /\ h[N] = PushAllNew(list, fs)
  BY <1>1, <1>6, <1>7
<1>12. \A k \in 1 .. N : h[k] = PushNew(h[k - 1], fs[k])
  BY <1>1, <1>8
<1>. QED
  BY <1>10, <1>11, <1>12

\* A list with no field twice.
Distinct(list) == \A i, j \in 1 .. Len(list) : list[i] = list[j] => i = j

\* What PushNew makes of a list.
LEMMA PushNewIs ==
    ASSUME NEW S, NEW list \in Seq(S), NEW f \in S
    PROVE  /\ PushNew(list, f) \in Seq(S)
           /\ ToSet(PushNew(list, f)) = ToSet(list) \cup {f}
           /\ Distinct(list) => Distinct(PushNew(list, f))
<1>1. CASE f \in ToSet(list)
  BY <1>1 DEF PushNew
<1>2. CASE f \notin ToSet(list)
  <2>1. PushNew(list, f) = Append(list, f)
    BY <1>2 DEF PushNew
  <2>2. PICK new : new = Append(list, f)
    OBVIOUS
  <2>3. /\ new \in Seq(S) /\ Len(new) = Len(list) + 1 /\ new[Len(list) + 1] = f
        /\ \A k \in 1 .. Len(list) : new[k] = list[k]
        /\ Len(list) \in Nat /\ DOMAIN new = 1 .. Len(new) /\ DOMAIN list = 1 .. Len(list)
    BY <2>2
  <2>4. ToSet(new) = ToSet(list) \cup {f}
    BY <2>3 DEF ToSet
  <2>5. \A k \in 1 .. Len(list) : list[k] # f
    BY <1>2, <2>3 DEF ToSet
  <2>6. Distinct(list) => Distinct(new)
    BY <2>3, <2>5 DEF Distinct
  <2>. QED
    BY <2>1, <2>2, <2>3, <2>4, <2>6
<1>. QED
  BY <1>1, <1>2

\* What PushAllNew makes of a list: it adds the fields that are not on it, each
\* once.
LEMMA PushAllIs ==
    ASSUME NEW S, NEW list \in Seq(S), NEW fs \in Seq(S)
    PROVE  /\ PushAllNew(list, fs) \in Seq(S)
           /\ ToSet(PushAllNew(list, fs)) = ToSet(list) \cup ToSet(fs)
           /\ Distinct(list) => Distinct(PushAllNew(list, fs))
<1>0. \A l \in Seq(S), x \in S :
         ToSet(PushNew(l, x)) = ToSet(l) \cup {x} /\ (Distinct(l) => Distinct(PushNew(l, x)))
  <2>1. ASSUME NEW l \in Seq(S), NEW x \in S
        PROVE  ToSet(PushNew(l, x)) = ToSet(l) \cup {x}
    BY PushNewIs
  <2>2. ASSUME NEW l \in Seq(S), NEW x \in S, Distinct(l) PROVE Distinct(PushNew(l, x))
    BY <2>2, PushNewIs
  <2>. QED
    BY <2>1, <2>2
<1>. PICK f \in [0 .. Len(fs) -> Seq(S)] :
        /\ f[0] = list /\ f[Len(fs)] = PushAllNew(list, fs)
        /\ \A k \in 1 .. Len(fs) : f[k] = PushNew(f[k - 1], fs[k])
  BY PushAllSteps
<1>. DEFINE Is(k) == /\ ToSet(f[k]) = ToSet(list) \cup {fs[i] : i \in 1 .. k}
                     /\ Distinct(list) => Distinct(f[k])
            T == {k \in 0 .. Len(fs) : ~ Is(k)}
<1>1. Len(fs) \in Nat /\ DOMAIN fs = 1 .. Len(fs) /\ \A k \in 1 .. Len(fs) : fs[k] \in S
  OBVIOUS
<1>2. Is(0)
  OBVIOUS
<1>3. ASSUME NEW k \in 1 .. Len(fs), Is(k - 1) PROVE Is(k)
  <2>. PICK j : j = k - 1
    OBVIOUS
  <2>1. j \in 0 .. Len(fs) /\ 1 .. k = (1 .. j) \cup {k}
    BY <1>1
  <2>2. f[k] = PushNew(f[j], fs[k]) /\ f[j] \in Seq(S) /\ fs[k] \in S
    BY <1>1, <2>1
  <2>3. ToSet(f[k]) = ToSet(f[j]) \cup {fs[k]} /\ (Distinct(f[j]) => Distinct(f[k]))
    BY <1>0, <2>2
  <2>4. {fs[i] : i \in 1 .. k} = {fs[i] : i \in 1 .. j} \cup {fs[k]}
    <3>1. \A x : x \in {fs[i] : i \in 1 .. k} <=> \E i \in 1 .. k : x = fs[i]
      OBVIOUS
    <3>2. \A x : x \in {fs[i] : i \in 1 .. j} <=> \E i \in 1 .. j : x = fs[i]
      OBVIOUS
    <3>3. \A i : i \in 1 .. k <=> i \in 1 .. j \/ i = k
      BY <2>1
    <3>. QED
      BY <3>1, <3>2, <3>3
  <2>5. Is(j)
    BY <1>3
  <2>. QED
    BY <2>3, <2>4, <2>5
<1>4. ASSUME T # {} PROVE FALSE
  <2>1. PICK k \in T : \A j \in T : k <= j
    <3>1. T \subseteq Nat
      OBVIOUS
    <3>. HIDE DEF T
    <3>. QED
      BY <1>4, <3>1, LeastNumber
  <2>. HIDE DEF Is
  <2>2. k \in 0 .. Len(fs) /\ ~ Is(k) /\ k # 0
    BY <1>2, <2>1
  <2>. PICK j : j = k - 1
    OBVIOUS
  <2>3. j \in 0 .. Len(fs) /\ k \in 1 .. Len(fs) /\ j < k /\ ~ (k <= j)
    BY <1>1, <2>2
  <2>4. Is(j)
    BY <2>1, <2>3
  <2>. QED
    BY <1>3, <2>2, <2>3, <2>4
<1>5. Is(Len(fs))
  <2>1. Len(fs) \in 0 .. Len(fs)
    BY <1>1
  <2>. HIDE DEF Is
  <2>. QED
    BY <1>4, <2>1
<1>6. {fs[i] : i \in 1 .. Len(fs)} = ToSet(fs)
  BY <1>1 DEF ToSet
<1>7. f[Len(fs)] \in Seq(S)
  BY <1>1
<1>. QED
  BY <1>5, <1>6, <1>7

-----------------------------------------------------------------------------
\* What a join keeps of the fields it is asked for when it looks for those of a child.
Keep(list, f, good) == IF f \in good THEN Append(list, f) ELSE list

\* The fields that a join looks for at its k-th child.
LooksFor(left, right, k) == IF k = 1 THEN ToSet(left) ELSE ToSet(right) \ ToSet(left)

\* What Keep makes of a list.
LEMMA KeepIs ==
    ASSUME NEW S, NEW l \in Seq(S), NEW x \in S, NEW good
    PROVE  ToSet(Keep(l, x, good)) = ToSet(l) \cup ({x} \cap good)
<1>1. CASE x \in good
  <2>1. PICK new : new = Append(l, x)
    OBVIOUS
  <2>2. /\ new \in Seq(S) /\ Len(new) = Len(l) + 1 /\ new[Len(l) + 1] = x
        /\ \A i \in 1 .. Len(l) : new[i] = l[i]
        /\ Len(l) \in Nat /\ DOMAIN new = 1 .. Len(new) /\ DOMAIN l = 1 .. Len(l)
    BY <2>1
  <2>3. ToSet(new) = ToSet(l) \cup {x}
    BY <2>2 DEF ToSet
  <2>. QED
    BY <1>1, <2>1, <2>3 DEF Keep
<1>2. CASE x \notin good
  BY <1>2 DEF Keep
<1>. QED
  BY <1>1, <1>2

\* OfChild goes through the list.
LEMMA OfChildSteps ==
    ASSUME NEW S, NEW asked \in Seq(S), NEW left, NEW right, NEW k
    PROVE  \E f \in [0 .. Len(asked) -> Seq(S)] :
               /\ f[0] = <<>> /\ f[Len(asked)] = OfChild(asked, left, right, k)
               /\ \A i \in 1 .. Len(asked) : f[i] = Keep(f[i - 1], asked[i], LooksFor(left, right, k))
<1>. PICK good : good = LooksFor(left, right, k)
  OBVIOUS
<1>. DEFINE N == Len(asked)
            D == SUBSET (1 .. N)
            V == Seq(S)
            g == [l \in V |-> [x \in S |-> Keep(l, x, good)]]
<1>1. N \in Nat /\ DOMAIN asked = 1 .. N /\ \A i \in 1 .. N : asked[i] \in S
  OBVIOUS
<1>2. \A l \in V, x \in S : Keep(l, x, good) \in V
  BY DEF Keep
<1>13. <<>> \in V
  OBVIOUS
<1>3. PICK f : FoldsBy(f, asked, V, <<>>, g)
  <2>1. g \in [V -> [S -> V]]
    BY <1>2
  <2>. HIDE DEF g, V
  <2>. QED
    BY <1>13, <2>1, FoldExists
<1>. DEFINE B == CHOOSE iter : iter = [s \in SUBSET (DOMAIN asked) |->
                    IF s = {} THEN <<>> ELSE Keep(iter[s \ {Max(s)}], asked[Max(s)], good)]
<1>4. f = [s \in SUBSET (DOMAIN asked) |->
              IF s = {} THEN <<>> ELSE Keep(f[s \ {Max(s)}], asked[Max(s)], good)]
  <2>1. ASSUME NEW s \in D, s # {}
        PROVE  g[f[s \ {Max(s)}]][asked[Max(s)]] = Keep(f[s \ {Max(s)}], asked[Max(s)], good)
    <3>1. Max(s) \in 1 .. N
      BY <1>1, <2>1, MaxIs
    <3>2. f[s \ {Max(s)}] \in V /\ asked[Max(s)] \in S
      BY <1>1, <1>3, <3>1 DEF FoldsBy
    <3>. QED
      BY <3>2
  <2>4. f[{}] = <<>> /\ f \in [D -> V]
    BY <1>3 DEF FoldsBy
  <2>5. \A s \in D : s # {} => f[s] = g[f[s \ {Max(s)}]][asked[Max(s)]]
    BY <1>3 DEF FoldsBy
  <2>2. \A s \in D : f[s] = IF s = {} THEN <<>> ELSE Keep(f[s \ {Max(s)}], asked[Max(s)], good)
    BY <2>1, <2>4, <2>5
  <2>3. SUBSET (DOMAIN asked) = D
    BY <1>1
  <2>. HIDE DEF D, V, g
  <2>. QED
    BY <2>2, <2>3, <2>4
<1>5. B = [s \in SUBSET (DOMAIN asked) |->
              IF s = {} THEN <<>> ELSE Keep(B[s \ {Max(s)}], asked[Max(s)], good)]
  BY <1>4
<1>6. OfChild(asked, left, right, k) = B[1 .. N]
  BY <1>1 DEF OfChild, FoldLeft, MapThenFoldSet, Keep, LooksFor
<1>. HIDE DEF B
<1>7. B[1 .. 0] = <<>>
  <2>1. 1 .. 0 = {} /\ 1 .. 0 \in SUBSET (DOMAIN asked)
    OBVIOUS
  <2>. QED
    BY <1>5, <2>1
<1>8. ASSUME NEW i \in 1 .. N PROVE B[1 .. i] = Keep(B[1 .. i - 1], asked[i], good)
  <2>1. i \in Nat /\ i # 0 /\ 1 .. i \in SUBSET (DOMAIN asked)
    BY <1>1
  <2>2. Max(1 .. i) = i /\ (1 .. i) \ {i} = 1 .. i - 1 /\ 1 .. i # {}
    BY <2>1, IntervalTop
  <2>3. B[1 .. i] = Keep(B[(1 .. i) \ {Max(1 .. i)}], asked[Max(1 .. i)], good)
    BY <1>5, <2>1, <2>2
  <2>. QED
    BY <2>2, <2>3
<1>. DEFINE h == [i \in 0 .. N |-> B[1 .. i]]
            T == {i \in 0 .. N : B[1 .. i] \notin V}
<1>9. ASSUME T # {} PROVE FALSE
  <2>1. PICK i \in T : \A j \in T : i <= j
    <3>1. T \subseteq Nat
      OBVIOUS
    <3>. HIDE DEF T
    <3>. QED
      BY <1>9, <3>1, LeastNumber
  <2>2. i \in 0 .. N /\ B[1 .. i] \notin V /\ i # 0
    BY <1>7, <1>13, <2>1
  <2>. PICK j : j = i - 1
    OBVIOUS
  <2>3. j \in 0 .. N /\ i \in 1 .. N /\ j < i
    BY <1>1, <2>2
  <2>4. j \notin T
    BY <2>1, <2>3
  <2>5. B[1 .. j] \in V
    BY <2>3, <2>4
  <2>6. B[1 .. i] = Keep(B[1 .. j], asked[i], good) /\ asked[i] \in S
    BY <1>1, <1>8, <2>3
  <2>. HIDE DEF V
  <2>. QED
    BY <1>2, <2>2, <2>5, <2>6
<1>10. h \in [0 .. N -> Seq(S)]
  BY <1>9
<1>11. h[0] = <<>> /\ h[N] = OfChild(asked, left, right, k)
  BY <1>1, <1>6, <1>7
<1>12. \A i \in 1 .. N : h[i] = Keep(h[i - 1], asked[i], good)
  BY <1>1, <1>8
<1>. QED
  BY <1>10, <1>11, <1>12

\* Of the fields that a join is asked for it asks a child for those that it looks
\* for there.
LEMMA OfChildIs ==
    ASSUME NEW S, NEW asked \in Seq(S), NEW left, NEW right, NEW k
    PROVE  /\ OfChild(asked, left, right, k) \in Seq(S)
           /\ ToSet(OfChild(asked, left, right, k)) = ToSet(asked) \cap LooksFor(left, right, k)
<1>. PICK good : good = LooksFor(left, right, k)
  OBVIOUS
<1>0. \A l \in Seq(S), x \in S : ToSet(Keep(l, x, good)) = ToSet(l) \cup ({x} \cap good)
  BY KeepIs
<1>. PICK f \in [0 .. Len(asked) -> Seq(S)] :
        /\ f[0] = <<>> /\ f[Len(asked)] = OfChild(asked, left, right, k)
        /\ \A i \in 1 .. Len(asked) : f[i] = Keep(f[i - 1], asked[i], good)
  BY OfChildSteps
<1>. DEFINE Is(i) == ToSet(f[i]) = {asked[a] : a \in 1 .. i} \cap good
            T == {i \in 0 .. Len(asked) : ~ Is(i)}
<1>1. Len(asked) \in Nat /\ DOMAIN asked = 1 .. Len(asked) /\ \A i \in 1 .. Len(asked) : asked[i] \in S
  OBVIOUS
<1>2. Is(0)
  BY DEF ToSet
<1>3. ASSUME NEW i \in 1 .. Len(asked), Is(i - 1) PROVE Is(i)
  <2>. PICK j : j = i - 1
    OBVIOUS
  <2>1. j \in 0 .. Len(asked) /\ 1 .. i = (1 .. j) \cup {i}
    BY <1>1
  <2>2. f[i] = Keep(f[j], asked[i], good) /\ f[j] \in Seq(S) /\ asked[i] \in S
    BY <1>1, <2>1
  <2>3. ToSet(f[i]) = ToSet(f[j]) \cup ({asked[i]} \cap good)
    BY <1>0, <2>2
  <2>4. {asked[a] : a \in 1 .. i} = {asked[a] : a \in 1 .. j} \cup {asked[i]}
    <3>1. \A x : x \in {asked[a] : a \in 1 .. i} <=> \E a \in 1 .. i : x = asked[a]
      OBVIOUS
    <3>2. \A x : x \in {asked[a] : a \in 1 .. j} <=> \E a \in 1 .. j : x = asked[a]
      OBVIOUS
    <3>3. \A a : a \in 1 .. i <=> a \in 1 .. j \/ a = i
      BY <2>1
    <3>. QED
      BY <3>1, <3>2, <3>3
  <2>5. Is(j)
    BY <1>3
  <2>. QED
    BY <2>3, <2>4, <2>5
<1>4. ASSUME T # {} PROVE FALSE
  <2>1. PICK i \in T : \A j \in T : i <= j
    <3>1. T \subseteq Nat
      OBVIOUS
    <3>. HIDE DEF T
    <3>. QED
      BY <1>4, <3>1, LeastNumber
  <2>. HIDE DEF Is
  <2>2. i \in 0 .. Len(asked) /\ ~ Is(i) /\ i # 0
    BY <1>2, <2>1
  <2>. PICK j : j = i - 1
    OBVIOUS
  <2>3. j \in 0 .. Len(asked) /\ i \in 1 .. Len(asked) /\ j < i /\ ~ (i <= j)
    BY <1>1, <2>2
  <2>4. Is(j)
    BY <2>1, <2>3
  <2>. QED
    BY <1>3, <2>2, <2>3, <2>4
<1>5. Is(Len(asked))
  <2>1. Len(asked) \in 0 .. Len(asked)
    BY <1>1
  <2>. HIDE DEF Is
  <2>. QED
    BY <1>4, <2>1
<1>6. {asked[a] : a \in 1 .. Len(asked)} = ToSet(asked)
  BY <1>1 DEF ToSet
<1>7. f[Len(asked)] \in Seq(S)
  BY <1>1
<1>. QED
  BY <1>5, <1>6, <1>7

-----------------------------------------------------------------------------
\* Plans of operators that clients can make, each after its children.
ChildrenFirst(P) ==
    P \in Seq(PlanOperators) /\ \A n \in 1 .. Len(P) : ToSet(P[n].children) \subseteq 1 .. n - 1

\* The operators of such a plan and their children.
LEMMA ChildrenFirstIs ==
    ASSUME NEW P, ChildrenFirst(P)
    PROVE  /\ Len(P) \in Nat
           /\ \A n \in 1 .. Len(P) : P[n] \in PlanOperators
           /\ \A n \in 1 .. Len(P) : \A c \in ToSet(P[n].children) : c \in 1 .. Len(P) /\ c < n
<1>1. Len(P) \in Nat
  BY DEF ChildrenFirst
<1>2. \A n \in 1 .. Len(P) : P[n] \in PlanOperators
  BY ElementOfSeq DEF ChildrenFirst
<1>3. ASSUME NEW n \in 1 .. Len(P), NEW c \in ToSet(P[n].children) PROVE c \in 1 .. Len(P) /\ c < n
  <2>1. c \in 1 .. n - 1
    BY DEF ChildrenFirst
  <2>. QED
    BY <1>1, <2>1
<1>. QED
  BY <1>1, <1>2, <1>3

\* What an operator that clients can make holds.
LEMMA OperatorIs ==
    ASSUME NEW o \in PlanOperators
    PROVE  /\ o.op \in {"scan", "selection", "join", "print"}
           /\ o.op \in {"selection", "join", "print"} => o.children[1] \in ToSet(o.children)
           /\ o.op = "join" => o.children[2] \in ToSet(o.children)
           /\ o.op = "selection" => o.predicates \in Seq(ToSet(Columns))
           /\ o.op = "join" => o.predicates \in Seq(ToSet(Columns) \X ToSet(Columns))
<1>1. CASE \E t \in Tables : o = ScanOp(t)
  BY <1>1 DEF ScanOp
<1>2. CASE \E c \in Nat, ps \in Predicates : o = SelectionOp(c, ps)
  <2>. PICK c \in Nat, ps \in Predicates : o = SelectionOp(c, ps)
    BY <1>2
  <2>1. o.op = "selection" /\ o.children = <<c>> /\ o.predicates = ps
    BY DEF SelectionOp
  <2>2. DOMAIN o.children = 1 .. 1 /\ o.children[1] = c
    BY <2>1
  <2>. QED
    BY <2>1, <2>2, ListsAssumption DEF ToSet
<1>3. CASE \E l \in Nat, r \in Nat, ps \in JoinPredicates : o = JoinOp(l, r, ps)
  <2>. PICK l \in Nat, r \in Nat, ps \in JoinPredicates : o = JoinOp(l, r, ps)
    BY <1>3
  <2>1. o.op = "join" /\ o.children = <<l, r>> /\ o.predicates = ps
    BY DEF JoinOp
  <2>2. DOMAIN o.children = 1 .. 2 /\ o.children[1] = l /\ o.children[2] = r
    BY <2>1
  <2>. QED
    BY <2>1, <2>2, ListsAssumption DEF ToSet
<1>4. CASE \E c \in Nat : o = PrintOp(c)
  <2>. PICK c \in Nat : o = PrintOp(c)
    BY <1>4
  <2>1. o.op = "print" /\ o.children = <<c>>
    BY DEF PrintOp
  <2>2. DOMAIN o.children = 1 .. 1 /\ o.children[1] = c
    BY <2>1
  <2>. QED
    BY <2>1, <2>2 DEF ToSet
<1>. QED
  BY <1>1, <1>2, <1>3, <1>4 DEF PlanOperators

\* What operator o can provide, when f tells what its children can.
CollectFor(f, o) ==
    CASE o.op = "selection" -> f[o.children[1]]
      [] o.op = "scan" -> FieldsOf(o.table)
      [] o.op = "join" -> f[o.children[1]] \o f[o.children[2]]
      [] o.op = "print" -> <<>>

\* The definition of CollectFields has a solution.
LEMMA CollectIs ==
    ASSUME NEW P, ChildrenFirst(P)
    PROVE  /\ CollectFields(P) \in [1 .. Len(P) -> Seq(ToSet(Columns))]
           /\ \A n \in 1 .. Len(P) : CollectFields(P)[n] = CollectFor(CollectFields(P), P[n])
<1>. DEFINE N == Len(P)
            V == Seq(ToSet(Columns))
            E == [f \in [1 .. N -> V] |-> [n \in 1 .. N |-> CollectFor(f, P[n])]]
            rank == [n \in 1 .. N |-> n]
<1>1. /\ N \in Nat /\ \A n \in 1 .. N : P[n] \in PlanOperators
      /\ \A n \in 1 .. N : \A c \in ToSet(P[n].children) : c \in 1 .. N /\ c < n
  BY ChildrenFirstIs
<1>2. ASSUME NEW f, NEW n \in 1 .. N, \A c \in ToSet(P[n].children) : f[c] \in V
      PROVE  CollectFor(f, P[n]) \in V
  <2>. PICK o \in PlanOperators : o = P[n]
    BY <1>1
  <2>1. CASE o.op = "selection"
    BY <1>2, <2>1, OperatorIs DEF CollectFor
  <2>2. CASE o.op = "scan"
    BY <2>2, ColumnsAssumption DEF CollectFor, FieldsOf
  <2>3. CASE o.op = "join"
    <3>1. f[o.children[1]] \in V /\ f[o.children[2]] \in V
      BY <1>2, <2>3, OperatorIs
    <3>2. CollectFor(f, o) = f[o.children[1]] \o f[o.children[2]]
      BY <2>3 DEF CollectFor
    <3>. QED
      BY <3>1, <3>2
  <2>4. CASE o.op = "print"
    BY <2>4 DEF CollectFor
  <2>. QED
    BY <2>1, <2>2, <2>3, <2>4, OperatorIs
<1>3. ASSUME NEW f, NEW g, NEW n \in 1 .. N, \A c \in ToSet(P[n].children) : f[c] = g[c]
      PROVE  CollectFor(f, P[n]) = CollectFor(g, P[n])
  <2>. PICK o \in PlanOperators : o = P[n]
    BY <1>1
  <2>1. o.op \in {"selection", "join"} => f[o.children[1]] = g[o.children[1]]
    BY <1>3, OperatorIs
  <2>2. o.op = "join" => f[o.children[2]] = g[o.children[2]]
    BY <1>3, OperatorIs
  <2>3. CASE o.op = "selection"
    BY <2>1, <2>3 DEF CollectFor
  <2>4. CASE o.op = "scan"
    BY <2>4 DEF CollectFor
  <2>5. CASE o.op = "join"
    BY <2>1, <2>2, <2>5 DEF CollectFor
  <2>6. CASE o.op = "print"
    BY <2>6 DEF CollectFor
  <2>. QED
    BY <2>3, <2>4, <2>5, <2>6, OperatorIs
<1>4. HasFixpoint(1 .. N, V, E)
  <2>1. E \in [[1 .. N -> V] -> [1 .. N -> V]]
    <3>1. \A f \in [1 .. N -> V], n \in 1 .. N : CollectFor(f, P[n]) \in V
      BY <1>1, <1>2
    <3>. QED
      BY <3>1
  <2>2. rank \in [1 .. N -> 0 .. N] /\ V # {} /\ N \in Nat
    <3>1. <<>> \in V
      OBVIOUS
    <3>2. rank \in [1 .. N -> 0 .. N]
      BY <1>1
    <3>. QED
      BY <1>1, <3>1, <3>2
  <2>3. ASSUME NEW f \in [1 .. N -> V], NEW g \in [1 .. N -> V], NEW n \in 1 .. N,
               \A m \in 1 .. N : rank[m] < rank[n] => f[m] = g[m]
        PROVE  E[f][n] = E[g][n]
    <3>1. \A c \in ToSet(P[n].children) : f[c] = g[c]
      BY <1>1, <2>3
    <3>2. CollectFor(f, P[n]) = CollectFor(g, P[n])
      BY <1>3, <3>1
    <3>. QED
      BY <3>2
  <2>. HIDE DEF E, rank, V, N
  <2>4. LooksBelow(1 .. N, V, rank, E)
    BY <2>3 DEF LooksBelow
  <2>. QED
    BY <2>1, <2>2, <2>4, RecursiveFunction
<1>5. PICK f \in [1 .. N -> V] : f = E[f]
  BY <1>4 DEF HasFixpoint
<1>. DEFINE B == CHOOSE b : b = [n \in 1 .. Len(P) |-> CollectFor(b, P[n])]
<1>6. f = [n \in 1 .. Len(P) |-> CollectFor(f, P[n])]
  <2>1. E[f] = [n \in 1 .. Len(P) |-> CollectFor(f, P[n])]
    OBVIOUS
  <2>. QED
    BY <1>5, <2>1
<1>7. B = [n \in 1 .. Len(P) |-> CollectFor(B, P[n])]
  BY <1>6
<1>8. CollectFields(P) = B
  BY DEF CollectFields, CollectFor
<1>. HIDE DEF B
<1>9. \A n \in 1 .. N : B[n] = CollectFor(B, P[n])
  BY <1>7
<1>. DEFINE T == {n \in 1 .. N : B[n] \notin V}
<1>10. ASSUME T # {} PROVE FALSE
  <2>1. PICK n \in T : \A m \in T : n <= m
    <3>1. T \subseteq Nat
      BY <1>1
    <3>. HIDE DEF T
    <3>. QED
      BY <1>10, <3>1, LeastNumber
  <2>2. ASSUME NEW c \in ToSet(P[n].children) PROVE c \in 1 .. N /\ ~ (n <= c)
    <3>1. n \in 1 .. N
      BY <2>1
    <3>2. c \in 1 .. N /\ c < n
      BY <1>1, <3>1
    <3>. QED
      BY <1>1, <3>1, <3>2
  <2>3. \A c \in ToSet(P[n].children) : c \notin T
    BY <2>1, <2>2
  <2>4. \A c \in ToSet(P[n].children) : B[c] \in V
    BY <2>2, <2>3
  <2>5. B[n] \in V
    BY <1>2, <1>9, <2>1, <2>4
  <2>. QED
    BY <2>1, <2>5
<1>11. B \in [1 .. N -> V]
  BY <1>7, <1>10
<1>. QED
  BY <1>8, <1>9, <1>11

\* What an operator can provide does not change when others are made after it.
LEMMA CollectAppend ==
    ASSUME NEW P, ChildrenFirst(P), NEW Q, ChildrenFirst(Q), Len(P) <= Len(Q),
           \A n \in 1 .. Len(P) : Q[n] = P[n]
    PROVE  \A n \in 1 .. Len(P) : CollectFields(Q)[n] = CollectFields(P)[n]
<1>. DEFINE T == {n \in 1 .. Len(P) : CollectFields(Q)[n] # CollectFields(P)[n]}
<1>1. /\ Len(P) \in Nat /\ Len(Q) \in Nat /\ \A n \in 1 .. Len(P) : P[n] \in PlanOperators
      /\ \A n \in 1 .. Len(P) : \A c \in ToSet(P[n].children) : c \in 1 .. Len(P) /\ c < n
  BY ChildrenFirstIs
<1>2. ASSUME T # {} PROVE FALSE
  <2>1. PICK n \in T : \A m \in T : n <= m
    <3>1. T \subseteq Nat
      BY <1>1
    <3>. HIDE DEF T
    <3>. QED
      BY <1>2, <3>1, LeastNumber
  <2>2. n \in 1 .. Len(P) /\ n \in 1 .. Len(Q)
    BY <1>1, <2>1
  <2>3. ASSUME NEW c \in ToSet(P[n].children) PROVE CollectFields(Q)[c] = CollectFields(P)[c]
    <3>1. c \in 1 .. Len(P) /\ ~ (n <= c)
      BY <1>1, <2>2
    <3>. QED
      BY <2>1, <3>1
  <2>. PICK o \in PlanOperators : o = P[n] /\ o = Q[n]
    BY <1>1, <2>2
  <2>4. CollectFields(P)[n] = CollectFor(CollectFields(P), o)
    BY <2>2, CollectIs
  <2>5. CollectFields(Q)[n] = CollectFor(CollectFields(Q), o)
    BY <2>2, CollectIs
  <2>6. CollectFor(CollectFields(P), o) = CollectFor(CollectFields(Q), o)
    BY <2>3, OperatorIs DEF CollectFor
  <2>. QED
    BY <2>1, <2>4, <2>5, <2>6
<1>. QED
  BY <1>2

\* The fields that operators of a plan can provide.
Provided(n) == ToSet(CollectFields(plan)[n])

\* The plans of sessions are such.
LEMMA ForestIs == ASSUME PlanIsForest PROVE ChildrenFirst(plan)
  BY DEF PlanIsForest, ChildrenFirst, Kids

\* The fields of two lists.
LEMMA ToSetConcat ==
    ASSUME NEW S, NEW a \in Seq(S), NEW b \in Seq(S)
    PROVE  ToSet(a \o b) = ToSet(a) \cup ToSet(b)
<1>. PICK c : c = a \o b
  OBVIOUS
<1>1. /\ Len(a) \in Nat /\ Len(b) \in Nat /\ DOMAIN a = 1 .. Len(a) /\ DOMAIN b = 1 .. Len(b)
      /\ c \in Seq(S) /\ DOMAIN c = 1 .. Len(c) /\ Len(c) = Len(a) + Len(b)
      /\ \A k \in 1 .. Len(a) : c[k] = a[k]
  OBVIOUS
<1>2. \A k \in 1 .. Len(b) : Len(a) + k \in DOMAIN c /\ c[Len(a) + k] = b[k]
  BY <1>1
<1>3. ASSUME NEW k \in DOMAIN c
      PROVE  (\E i \in DOMAIN a : c[k] = a[i]) \/ (\E i \in DOMAIN b : c[k] = b[i])
  <2>1. CASE k <= Len(a)
    <3>1. k \in DOMAIN a
      BY <1>1, <2>1
    <3>. QED
      BY <1>1, <3>1
  <2>2. CASE ~ (k <= Len(a))
    <3>1. k - Len(a) \in 1 .. Len(b) /\ Len(a) + (k - Len(a)) = k
      BY <1>1, <2>2
    <3>. QED
      BY <1>1, <1>2, <3>1
  <2>. QED
    BY <2>1, <2>2
<1>4. \A k \in DOMAIN a : k \in DOMAIN c /\ c[k] = a[k]
  BY <1>1
<1>5. \A k \in DOMAIN b : Len(a) + k \in DOMAIN c /\ c[Len(a) + k] = b[k]
  BY <1>1, <1>2
<1>6. \A x : x \in ToSet(a) <=> \E k \in DOMAIN a : x = a[k]
  BY DEF ToSet
<1>7. \A x : x \in ToSet(b) <=> \E k \in DOMAIN b : x = b[k]
  BY DEF ToSet
<1>8. \A x : x \in ToSet(c) <=> \E k \in DOMAIN c : x = c[k]
  BY DEF ToSet
<1>9. ASSUME NEW x \in ToSet(c) PROVE x \in ToSet(a) \/ x \in ToSet(b)
  <2>. PICK k \in DOMAIN c : x = c[k]
    BY <1>8
  <2>. QED
    BY <1>3, <1>6, <1>7
<1>10. ASSUME NEW x \in ToSet(a) PROVE x \in ToSet(c)
  <2>. PICK k \in DOMAIN a : x = a[k]
    BY <1>6
  <2>. QED
    BY <1>4, <1>8
<1>11. ASSUME NEW x \in ToSet(b) PROVE x \in ToSet(c)
  <2>. PICK k \in DOMAIN b : x = b[k]
    BY <1>7
  <2>. QED
    BY <1>5, <1>8
<1>. QED
  BY <1>9, <1>10, <1>11

\* The fields that operators can provide, by their kind.
LEMMA ProvidedIs ==
    ASSUME PlanIsForest, NEW n \in 1 .. Len(plan)
    PROVE  /\ Provided(n) \subseteq ToSet(Columns)
           /\ plan[n].op = "scan" => Provided(n) = ToSet(FieldsOf(plan[n].table))
           /\ plan[n].op = "selection" => Provided(n) = Provided(plan[n].children[1])
           /\ plan[n].op = "join" => Provided(n) = Provided(plan[n].children[1]) \cup Provided(plan[n].children[2])
<1>. PICK f : f = CollectFields(plan)
  OBVIOUS
<1>1. f \in [1 .. Len(plan) -> Seq(ToSet(Columns))] /\ f[n] = CollectFor(f, plan[n])
  BY CollectIs, ForestIs
<1>2. f[n] \in Seq(ToSet(Columns))
  BY <1>1
<1>3. Provided(n) \subseteq ToSet(Columns)
  <2>. PICK l \in Seq(ToSet(Columns)) : l = f[n]
    BY <1>2
  <2>1. ToSet(l) \subseteq ToSet(Columns)
    BY DEF ToSet
  <2>. QED
    BY <2>1 DEF Provided
<1>4. CASE plan[n].op = "scan"
  BY <1>1, <1>3, <1>4 DEF Provided, CollectFor
<1>5. CASE plan[n].op = "selection"
  BY <1>1, <1>3, <1>5 DEF Provided, CollectFor
<1>6. CASE plan[n].op = "join"
  <2>. PICK l, r : l = f[plan[n].children[1]] /\ r = f[plan[n].children[2]]
    OBVIOUS
  <2>1. f[n] = l \o r
    BY <1>1, <1>6 DEF CollectFor
  <2>2. l \in Seq(ToSet(Columns)) /\ r \in Seq(ToSet(Columns))
    BY <1>1, <1>6, ChildrenAre
  <2>3. ToSet(l \o r) = ToSet(l) \cup ToSet(r)
    BY <2>2, ToSetConcat
  <2>. QED
    BY <1>3, <1>6, <2>1, <2>3 DEF Provided
<1>7. CASE plan[n].op = "print"
  BY <1>3, <1>7
<1>. QED
  BY <1>4, <1>5, <1>6, <1>7, PlanIs

-----------------------------------------------------------------------------
\* What selections select by and joins join by is provided below them.
PredicatesProvided ==
    \A n \in 1 .. Len(plan) :
        /\ plan[n].op = "selection" => ToSet(plan[n].predicates) \subseteq Provided(plan[n].children[1])
        /\ plan[n].op = "join" =>
              \A k \in 1 .. 2 : ToSet(SideOf(plan[n].predicates, k)) \subseteq Provided(plan[n].children[k])

\* What the operators of a prepared plan require is what its Prepare made of the
\* columns that a client asked for.
RequiredByPrepare == Prepared => \E columns \in Requested : required = Prepare(plan, columns)

\* The inductive invariant about the fields of a plan.
FieldsInvariant == PlanInvariant /\ PredicatesProvided /\ RequiredByPrepare

\* Making an operator keeps it: what was provided before still is.
LEMMA MakeKeepsProvided ==
    ASSUME FieldsInvariant, PlanInvariant', NEW o \in PlanOperators, Make(o),
           o.op = "selection" => ToSet(o.predicates) \subseteq Provided(o.children[1]),
           o.op = "join" =>
               \A k \in 1 .. 2 : ToSet(SideOf(o.predicates, k)) \subseteq Provided(o.children[k])
    PROVE  FieldsInvariant'
<1>. PICK N : N = Len(plan)
  OBVIOUS
<1>1. /\ PlanIsForest /\ plan \in Seq(PlanOperators) /\ N \in Nat
      /\ ChildrenFirst(plan)
  BY PlanIs, ForestIs DEF FieldsInvariant, PlanInvariant, PlanIsForest
<1>2. plan' = Append(plan, o) /\ ~ Prepared'
  BY DEF Make, Prepared
<1>3. /\ Len(plan') = N + 1 /\ plan'[N + 1] = o /\ \A n \in 1 .. N : plan'[n] = plan[n]
  BY <1>1, <1>2
<1>4. ChildrenFirst(plan')
  BY DEF PlanInvariant, PlanIsForest, ChildrenFirst, Kids
<1>5. \A n \in 1 .. N : CollectFields(plan')[n] = CollectFields(plan)[n]
  <2>1. Len(plan) <= Len(plan')
    BY <1>1, <1>3
  <2>. QED
    BY <1>1, <1>3, <1>4, <2>1, CollectAppend
<1>7. \A n \in 1 .. N + 1 : \A c \in ToSet(plan'[n].children) : c \in 1 .. N
  <2>1. ASSUME NEW n \in 1 .. N + 1, NEW c \in ToSet(plan'[n].children) PROVE c \in 1 .. N
    <3>1. c \in 1 .. N + 1 /\ c < n
      BY <1>3, <1>4, <2>1, ChildrenFirstIs
    <3>. QED
      BY <1>1, <3>1
  <2>. QED
    BY <2>1
<1>8. \A n \in 1 .. N + 1 : plan'[n] \in PlanOperators
  BY <1>3, <1>4, ChildrenFirstIs
<1>. DEFINE Gives(c) == ToSet(CollectFields(plan')[c])
<1>9. ASSUME NEW n \in 1 .. N + 1
      PROVE  /\ plan'[n].op = "selection" => ToSet(plan'[n].predicates) \subseteq Gives(plan'[n].children[1])
             /\ plan'[n].op = "join" =>
                   \A k \in 1 .. 2 : ToSet(SideOf(plan'[n].predicates, k)) \subseteq Gives(plan'[n].children[k])
  <2>. PICK q \in PlanOperators : q = plan'[n]
    BY <1>8
  <2>1. /\ q.op = "selection" => ToSet(q.predicates) \subseteq Provided(q.children[1])
        /\ q.op = "join" => \A k \in 1 .. 2 : ToSet(SideOf(q.predicates, k)) \subseteq Provided(q.children[k])
    <3>1. CASE n = N + 1
      BY <1>3, <3>1
    <3>2. CASE n # N + 1
      <4>1. n \in 1 .. N
        BY <1>1, <3>2
      <4>2. q = plan[n]
        BY <1>3, <4>1
      <4>. QED
        BY <4>1, <4>2 DEF FieldsInvariant, PredicatesProvided
    <3>. QED
      BY <3>1, <3>2
  <2>2. ASSUME NEW c \in ToSet(q.children) PROVE Gives(c) = Provided(c)
    BY <1>5, <1>7 DEF Provided
  <2>. HIDE DEF Gives
  <2>3. q.op \in {"selection", "join"} => Gives(q.children[1]) = Provided(q.children[1])
    BY <2>2, OperatorIs
  <2>4. q.op = "join" => Gives(q.children[2]) = Provided(q.children[2])
    BY <2>2, OperatorIs
  <2>5. CASE q.op = "selection"
    BY <2>1, <2>3, <2>5
  <2>6. CASE q.op = "join"
    <3>1. ASSUME NEW k \in 1 .. 2 PROVE ToSet(SideOf(q.predicates, k)) \subseteq Gives(q.children[k])
      <4>1. k = 1 \/ k = 2
        OBVIOUS
      <4>2. Gives(q.children[k]) = Provided(q.children[k])
        BY <2>3, <2>4, <2>6, <4>1
      <4>3. ToSet(SideOf(q.predicates, k)) \subseteq Provided(q.children[k])
        BY <2>1, <2>6
      <4>. QED
        BY <4>2, <4>3
    <3>. QED
      BY <2>6, <3>1
  <2>. QED
    BY <2>5, <2>6
<1>10. PredicatesProvided'
  BY <1>3, <1>9 DEF PredicatesProvided, Provided
<1>. QED
  BY <1>2, <1>10 DEF FieldsInvariant, RequiredByPrepare

\* It holds of the plan that a session begins with.
LEMMA InitFields == ASSUME InitQuery PROVE FieldsInvariant
<1>1. PlanInvariant
  BY InitPlan
<1>2. Len(plan) = 0 /\ ~ Prepared
  BY DEF InitQuery, Prepared
<1>. QED
  BY <1>1, <1>2 DEF FieldsInvariant, PredicatesProvided, RequiredByPrepare

\* No step of a session breaks it.
LEMMA FieldsStep ==
    ASSUME FieldsInvariant, QueryNext \/ UNCHANGED queryVars
    PROVE  FieldsInvariant'
<1>0. PlanInvariant'
  BY PlanStep DEF FieldsInvariant
<1>1. ASSUME plan' = plan, required' = required PROVE FieldsInvariant'
  BY <1>0, <1>1 DEF FieldsInvariant, PredicatesProvided, Provided, RequiredByPrepare, Prepared
<1>2. CASE MakeScan
  <2>1. PICK t \in Tables : Make(ScanOp(t))
    BY <1>2 DEF MakeScan
  <2>2. ScanOp(t) \in PlanOperators /\ ScanOp(t).op = "scan"
    BY DEF PlanOperators, ScanOp
  <2>. QED
    BY <1>0, <2>1, <2>2, MakeKeepsProvided
<1>3. CASE MakeSelection
  <2>1. PICK c \in Loose(plan), ps \in Predicates :
            (\A f \in ToSet(ps) : Provides(c, f)) /\ Make(SelectionOp(c, ps))
    BY <1>3 DEF MakeSelection
  <2>2. c \in Nat
    BY DEF Loose
  <2>. PICK o : o = SelectionOp(c, ps)
    OBVIOUS
  <2>3. o \in PlanOperators
    BY <2>2 DEF PlanOperators
  <2>4. o.op = "selection" /\ o.predicates = ps /\ o.children[1] = c
    BY DEF SelectionOp
  <2>5. ToSet(o.predicates) \subseteq Provided(o.children[1])
    BY <2>1, <2>4 DEF Provides, Provided
  <2>. QED
    BY <1>0, <2>1, <2>3, <2>4, <2>5, MakeKeepsProvided
<1>4. CASE MakeJoin
  <2>1. PICK l, r \in Loose(plan), ps \in JoinPredicates :
            /\ \A p \in ToSet(ps) : Provides(l, p[1]) /\ Provides(r, p[2])
            /\ Make(JoinOp(l, r, ps))
    BY <1>4 DEF MakeJoin
  <2>2. l \in Nat /\ r \in Nat
    BY DEF Loose
  <2>. PICK o : o = JoinOp(l, r, ps)
    OBVIOUS
  <2>3. o \in PlanOperators
    BY <2>2 DEF PlanOperators
  <2>4. o.op = "join" /\ o.predicates = ps /\ o.children[1] = l /\ o.children[2] = r
    BY DEF JoinOp
  <2>5. ps \in Seq(ToSet(Columns) \X ToSet(Columns))
    BY ListsAssumption
  <2>6. DOMAIN ps = 1 .. Len(ps) /\ \A i \in 1 .. Len(ps) : ps[i] \in ToSet(ps)
    BY <2>5 DEF ToSet
  <2>7. \A i \in 1 .. Len(ps) : ps[i][1] \in Provided(l) /\ ps[i][2] \in Provided(r)
    BY <2>1, <2>6 DEF Provides, Provided
  <2>8. \A k \in 1 .. 2 : ToSet(SideOf(ps, k)) = {ps[i][k] : i \in 1 .. Len(ps)}
    BY DEF ToSet, SideOf
  <2>9. ToSet(SideOf(ps, 1)) \subseteq Provided(l) /\ ToSet(SideOf(ps, 2)) \subseteq Provided(r)
    BY <2>7, <2>8
  <2>10. \A k \in 1 .. 2 : k = 1 \/ k = 2
    OBVIOUS
  <2>11. \A k \in 1 .. 2 : ToSet(SideOf(o.predicates, k)) \subseteq Provided(o.children[k])
    BY <2>4, <2>9, <2>10
  <2>12. Make(o)
    BY <2>1
  <2>. QED
    BY <1>0, <2>3, <2>4, <2>11, <2>12, MakeKeepsProvided
<1>5. CASE MakePrint
  <2>1. PICK c \in Loose(plan) : Make(PrintOp(c))
    BY <1>5 DEF MakePrint
  <2>2. c \in Nat
    BY DEF Loose
  <2>3. PrintOp(c) \in PlanOperators
    BY <2>2 DEF PlanOperators
  <2>4. PrintOp(c).op = "print"
    BY DEF PrintOp
  <2>. QED
    BY <1>0, <2>1, <2>3, <2>4, MakeKeepsProvided
<1>6. CASE \E columns \in Requested : PreparePlan(columns)
  <2>1. PICK columns \in Requested : plan' = plan /\ required' = Prepare(plan, columns)
    BY <1>6 DEF PreparePlan
  <2>2. required' = Prepare(plan', columns)
    BY <2>1
  <2>3. RequiredByPrepare'
    BY <2>2 DEF RequiredByPrepare
  <2>4. PredicatesProvided'
    BY <2>1 DEF FieldsInvariant, PredicatesProvided, Provided
  <2>. QED
    BY <1>0, <2>3, <2>4 DEF FieldsInvariant
<1>7. CASE \E select \in Requested \cup {<<>>}, relations \in {<<>>} \cup {<<t>> : t \in Tables} :
              Sql(select, relations)
  BY <1>1, <1>7 DEF Sql
<1>8. CASE RunQuery
  BY <1>1, <1>8 DEF RunQuery, planVars
<1>9. CASE ScanStep /\ UNCHANGED planVars
  BY <1>1, <1>9 DEF planVars
<1>10. CASE UNCHANGED queryVars
  BY <1>1, <1>10 DEF queryVars, planVars
<1>. QED
  BY <1>2, <1>3, <1>4, <1>5, <1>6, <1>7, <1>8, <1>9, <1>10 DEF QueryNext

-----------------------------------------------------------------------------
\* The fields that a join asks a child for: each once, its own on that side and those
\* it is asked for and looks for there.
LEMMA JoinAsksIs ==
    ASSUME NEW S, NEW predicates \in Seq(S \X S), NEW asked \in Seq(S), NEW left, NEW right, NEW k \in 1 .. 2
    PROVE  /\ JoinAsks(predicates, asked, left, right, k) \in Seq(S)
           /\ Distinct(JoinAsks(predicates, asked, left, right, k))
           /\ ToSet(JoinAsks(predicates, asked, left, right, k)) =
                 ToSet(SideOf(predicates, k)) \cup (ToSet(asked) \cap LooksFor(left, right, k))
<1>0. ASSUME NEW list \in Seq(S), NEW fs \in Seq(S)
      PROVE  /\ PushAllNew(list, fs) \in Seq(S)
             /\ ToSet(PushAllNew(list, fs)) = ToSet(list) \cup ToSet(fs)
             /\ Distinct(list) => Distinct(PushAllNew(list, fs))
  BY PushAllIs
<1>. PICK side, mine, handed :
        side = SideOf(predicates, k) /\ mine = PushAllNew(<<>>, side) /\ handed = OfChild(asked, left, right, k)
  OBVIOUS
<1>1. side \in Seq(S)
  <2>1. \A i \in 1 .. Len(predicates) : predicates[i] \in S \X S
    OBVIOUS
  <2>2. \A i \in 1 .. Len(predicates) : predicates[i][k] \in S
    BY <2>1
  <2>3. side = [i \in 1 .. Len(predicates) |-> predicates[i][k]] /\ Len(predicates) \in Nat
    BY DEF SideOf
  <2>. QED
    BY <2>2, <2>3
<1>2. <<>> \in Seq(S) /\ ToSet(<<>>) = {} /\ Distinct(<<>>)
  BY DEF ToSet, Distinct
<1>3. mine \in Seq(S) /\ ToSet(mine) = ToSet(side) /\ Distinct(mine)
  <2>. PICK none : none = <<>>
    OBVIOUS
  <2>1. none \in Seq(S) /\ ToSet(none) = {} /\ Distinct(none)
    BY <1>2
  <2>2. /\ PushAllNew(none, side) \in Seq(S)
        /\ ToSet(PushAllNew(none, side)) = ToSet(none) \cup ToSet(side)
        /\ Distinct(none) => Distinct(PushAllNew(none, side))
    BY <1>0, <1>1, <2>1
  <2>. QED
    BY <2>1, <2>2
<1>4. handed \in Seq(S) /\ ToSet(handed) = ToSet(asked) \cap LooksFor(left, right, k)
  BY OfChildIs
<1>5. /\ PushAllNew(mine, handed) \in Seq(S)
      /\ ToSet(PushAllNew(mine, handed)) = ToSet(mine) \cup ToSet(handed)
      /\ Distinct(mine) => Distinct(PushAllNew(mine, handed))
  BY <1>0, <1>3, <1>4
<1>6. JoinAsks(predicates, asked, left, right, k) = PushAllNew(mine, handed)
  BY DEF JoinAsks
<1>. QED
  BY <1>3, <1>4, <1>5, <1>6

-----------------------------------------------------------------------------
\* What p asks its child n for, when f tells what p requires.
Asked(f, n, p) ==
    IF plan[p].op # "join" THEN f[p]
    ELSE JoinAsks(plan[p].predicates, f[p], CollectFields(plan)[plan[p].children[1]],
                  CollectFields(plan)[plan[p].children[2]], IF plan[p].children[1] = n THEN 1 ELSE 2)

\* What n requires when it is asked for a list of fields.
Requires(n, asked) ==
    CASE plan[n].op = "scan" -> ScanRequires(asked)
      [] plan[n].op = "selection" -> SelectionRequires(asked, plan[n].predicates)
      [] plan[n].op = "join" -> asked
      [] plan[n].op = "print" -> PrintRequires(asked)

\* Lists of columns, and those with each column once.
ColumnLists == Seq(ToSet(Columns))
DistinctLists == {l \in ColumnLists : Distinct(l)}

\* Where a selection is asked for columns, it requires columns, each once if it was
\* asked for each once; the others require what they are asked for.
LEMMA RequiresIs ==
    ASSUME PlanIsForest, NEW n \in 1 .. Len(plan), NEW asked \in DistinctLists
    PROVE  /\ Requires(n, asked) \in DistinctLists
           /\ ToSet(Requires(n, asked)) =
                 ToSet(asked) \cup (IF plan[n].op = "selection" THEN ToSet(plan[n].predicates) ELSE {})
<1>0. plan[n] \in PlanOperators
  BY ForestIs, ChildrenFirstIs
<1>1. CASE plan[n].op = "selection"
  <2>. PICK ps : ps = plan[n].predicates
    OBVIOUS
  <2>1. ps \in ColumnLists
    BY <1>0, <1>1, OperatorIs DEF ColumnLists
  <2>2. Requires(n, asked) = PushAllNew(asked, ps)
    BY <1>1 DEF Requires, SelectionRequires
  <2>3. asked \in ColumnLists /\ Distinct(asked)
    BY DEF DistinctLists
  <2>4. /\ PushAllNew(asked, ps) \in ColumnLists
        /\ ToSet(PushAllNew(asked, ps)) = ToSet(asked) \cup ToSet(ps)
        /\ Distinct(asked) => Distinct(PushAllNew(asked, ps))
    BY <2>1, <2>3, PushAllIs DEF ColumnLists
  <2>. QED
    BY <1>1, <2>2, <2>3, <2>4 DEF DistinctLists
<1>2. CASE plan[n].op = "scan"
  BY <1>2 DEF Requires, ScanRequires
<1>3. CASE plan[n].op = "join"
  BY <1>3 DEF Requires
<1>4. CASE plan[n].op = "print"
  BY <1>4 DEF Requires, PrintRequires
<1>. QED
  BY <1>0, <1>1, <1>2, <1>3, <1>4, OperatorIs

\* The fields that p asks its child n for.
LEMMA AskedIs ==
    ASSUME PlanIsForest, NEW p \in 1 .. Len(plan), NEW n \in Kids(p), NEW f, f[p] \in DistinctLists
    PROVE  /\ Asked(f, n, p) \in DistinctLists
           /\ plan[p].op # "join" => ToSet(Asked(f, n, p)) = ToSet(f[p])
           /\ plan[p].op = "join" /\ n = plan[p].children[1] =>
                 ToSet(Asked(f, n, p)) =
                     ToSet(SideOf(plan[p].predicates, 1))
                     \cup (ToSet(f[p]) \cap Provided(plan[p].children[1]))
           /\ plan[p].op = "join" /\ n # plan[p].children[1] =>
                 ToSet(Asked(f, n, p)) =
                     ToSet(SideOf(plan[p].predicates, 2))
                     \cup (ToSet(f[p]) \cap (Provided(plan[p].children[2]) \ Provided(plan[p].children[1])))
<1>1. CASE plan[p].op # "join"
  BY <1>1 DEF Asked
<1>2. CASE plan[p].op = "join"
  <2>. PICK ps, l, r, k :
          /\ ps = plan[p].predicates /\ k = IF plan[p].children[1] = n THEN 1 ELSE 2
          /\ l = CollectFields(plan)[plan[p].children[1]] /\ r = CollectFields(plan)[plan[p].children[2]]
    OBVIOUS
  <2>1. plan[p] \in PlanOperators
    BY ForestIs, ChildrenFirstIs
  <2>2. ps \in Seq(ToSet(Columns) \X ToSet(Columns)) /\ k \in 1 .. 2
    BY <1>2, <2>1, OperatorIs
  <2>3. Asked(f, n, p) = JoinAsks(ps, f[p], l, r, k)
    BY <1>2 DEF Asked
  <2>4. f[p] \in Seq(ToSet(Columns))
    BY DEF DistinctLists, ColumnLists
  <2>5. /\ JoinAsks(ps, f[p], l, r, k) \in Seq(ToSet(Columns))
        /\ Distinct(JoinAsks(ps, f[p], l, r, k))
        /\ ToSet(JoinAsks(ps, f[p], l, r, k)) =
              ToSet(SideOf(ps, k)) \cup (ToSet(f[p]) \cap LooksFor(l, r, k))
    BY <2>2, <2>4, JoinAsksIs
  <2>6. JoinAsks(ps, f[p], l, r, k) \in DistinctLists
    BY <2>5 DEF DistinctLists, ColumnLists
  <2>7. CASE n = plan[p].children[1]
    <3>1. k = 1 /\ LooksFor(l, r, k) = Provided(plan[p].children[1])
      BY <2>7 DEF LooksFor, Provided
    <3>. QED
      BY <1>2, <2>3, <2>5, <2>6, <2>7, <3>1
  <2>8. CASE n # plan[p].children[1]
    <3>1. k = 2 /\ LooksFor(l, r, k) = Provided(plan[p].children[2]) \ Provided(plan[p].children[1])
      BY <2>8 DEF LooksFor, Provided
    <3>. QED
      BY <1>2, <2>3, <2>5, <2>6, <2>8, <3>1
  <2>. QED
    BY <2>7, <2>8
<1>. QED
  BY <1>1, <1>2

\* The definition of Prepare has a solution: what the Print requires are the columns,
\* and what the others require is made of what their parents ask them for.
LEMMA PrepareIs ==
    ASSUME PlanInvariant, Prepared, NEW columns \in DistinctLists
    PROVE  /\ Prepare(plan, columns) \in [1 .. Len(plan) -> DistinctLists]
           /\ Prepare(plan, columns)[Len(plan)] = columns
           /\ \A p \in 1 .. Len(plan) : \A n \in Kids(p) :
                 Prepare(plan, columns)[n] = Requires(n, Asked(Prepare(plan, columns), n, p))
<1>1. PlanIsForest /\ Len(plan) \in Nat /\ Len(plan) \in 1 .. Len(plan) /\ plan[Len(plan)].op = "print"
  BY AllBelowPrint, PlanIs DEF PlanInvariant
<1>. DEFINE N == Len(plan)
            V == DistinctLists
            For(f, n) == Requires(n, IF n = N THEN columns ELSE Asked(f, n, Parent(plan, n)))
            E == [f \in [1 .. N -> V] |-> [n \in 1 .. N |-> For(f, n)]]
            rank == [n \in 1 .. N |-> N - n]
<1>2. ASSUME NEW f, NEW n \in 1 .. N, n # N => f[Parent(plan, n)] \in V
      PROVE  For(f, n) \in V
  <2>1. CASE n = N
    BY <1>1, <2>1, RequiresIs
  <2>2. CASE n # N
    <3>. PICK p : p = Parent(plan, n)
      OBVIOUS
    <3>1. p \in 1 .. Len(plan) /\ n \in Kids(p) /\ f[p] \in DistinctLists
      BY <1>2, <2>2, HasParent
    <3>2. Asked(f, n, p) \in DistinctLists
      BY <1>1, <3>1, AskedIs
    <3>3. Requires(n, Asked(f, n, p)) \in DistinctLists
      BY <1>1, <3>2, RequiresIs
    <3>. QED
      BY <2>2, <3>3
  <2>. QED
    BY <2>1, <2>2
<1>3. ASSUME NEW n \in 1 .. N, n # N
      PROVE  Parent(plan, n) \in 1 .. N /\ n < Parent(plan, n) /\ n \in Kids(Parent(plan, n))
  BY <1>3, HasParent
<1>4. HasFixpoint(1 .. N, V, E)
  <2>1. E \in [[1 .. N -> V] -> [1 .. N -> V]]
    <3>1. \A f \in [1 .. N -> V], n \in 1 .. N : For(f, n) \in V
      <4>. HIDE DEF For, V
      <4>. QED
        BY <1>2, <1>3
    <3>. HIDE DEF For, V
    <3>. QED
      BY <3>1
  <2>2. rank \in [1 .. N -> 0 .. N] /\ V # {} /\ N \in Nat
    <3>1. columns \in V
      OBVIOUS
    <3>2. \A n \in 1 .. N : N - n \in 0 .. N
      BY <1>1
    <3>3. rank \in [1 .. N -> 0 .. N]
      BY <3>2
    <3>. QED
      BY <1>1, <3>1, <3>3
  <2>3. ASSUME NEW f \in [1 .. N -> V], NEW g \in [1 .. N -> V], NEW n \in 1 .. N,
               \A m \in 1 .. N : rank[m] < rank[n] => f[m] = g[m]
        PROVE  E[f][n] = E[g][n]
    <3>1. CASE n = N
      BY <3>1
    <3>2. CASE n # N
      <4>1. PICK p : p = Parent(plan, n)
        OBVIOUS
      <4>2. p \in 1 .. N /\ n < p
        BY <1>3, <3>2, <4>1
      <4>3. f[p] = g[p]
        BY <1>1, <2>3, <4>2
      <4>4. Asked(f, n, p) = Asked(g, n, p)
        BY <4>3 DEF Asked
      <4>. QED
        BY <3>2, <4>1, <4>4
    <3>. QED
      BY <3>1, <3>2
  <2>. HIDE DEF E, rank, V, N
  <2>4. LooksBelow(1 .. N, V, rank, E)
    BY <2>3 DEF LooksBelow
  <2>. QED
    BY <2>1, <2>2, <2>4, RecursiveFunction
<1>5. PICK f \in [1 .. N -> V] : f = E[f]
  BY <1>4 DEF HasFixpoint
<1>. DEFINE B == CHOOSE b :
                    b = [n \in 1 .. Len(plan) |->
                            Requires(n, IF n = Len(plan) THEN columns ELSE Asked(b, n, Parent(plan, n)))]
<1>6. f = [n \in 1 .. Len(plan) |->
              Requires(n, IF n = Len(plan) THEN columns ELSE Asked(f, n, Parent(plan, n)))]
  <2>1. E[f] = [n \in 1 .. Len(plan) |->
                   Requires(n, IF n = Len(plan) THEN columns ELSE Asked(f, n, Parent(plan, n)))]
    OBVIOUS
  <2>. QED
    BY <1>5, <2>1
<1>7. B = [n \in 1 .. Len(plan) |->
              Requires(n, IF n = Len(plan) THEN columns ELSE Asked(B, n, Parent(plan, n)))]
  BY <1>6
<1>8. Prepare(plan, columns) = [n \in 1 .. Len(plan) |-> B[n]]
  BY DEF Prepare, Requires, Asked
<1>. HIDE DEF B
<1>9. Prepare(plan, columns) = B
  BY <1>7, <1>8
<1>10. \A n \in 1 .. N : B[n] = For(B, n)
  BY <1>7
<1>11. B[N] = columns
  <2>1. B[N] = Requires(N, columns)
    BY <1>1, <1>10
  <2>. QED
    BY <1>1, <2>1 DEF Requires, PrintRequires
<1>12. ASSUME NEW p \in 1 .. N, NEW n \in Kids(p) PROVE B[n] = Requires(n, Asked(B, n, p))
  <2>1. n \in 1 .. N /\ n # N /\ Parent(plan, n) = p
    BY <1>1, <1>12, ParentIs
  <2>. QED
    BY <1>10, <2>1
<1>. DEFINE T == {n \in 1 .. N : B[n] \notin V}
<1>13. ASSUME T # {} PROVE FALSE
  <2>1. PICK n \in T : \A m \in T : m <= n
    <3>1. T \subseteq Nat /\ \A m \in T : m <= N
      BY <1>1
    <3>. HIDE DEF T
    <3>. QED
      BY <1>1, <1>13, <3>1, GreatestNumber
  <2>2. n \in 1 .. N /\ B[n] \notin V /\ n # N
    BY <1>11, <2>1
  <2>. PICK p : p = Parent(plan, n)
    OBVIOUS
  <2>3. p \in 1 .. N /\ n < p
    BY <1>3, <2>2
  <2>4. p \notin T
    BY <1>1, <2>1, <2>2, <2>3
  <2>5. B[p] \in V
    BY <2>3, <2>4
  <2>6. For(B, n) \in V
    <3>. HIDE DEF For, V
    <3>. QED
      BY <1>2, <2>2, <2>5
  <2>. QED
    BY <1>10, <2>2, <2>6
<1>14. B \in [1 .. N -> V]
  BY <1>7, <1>13
<1>. QED
  BY <1>9, <1>11, <1>12, <1>14

-----------------------------------------------------------------------------
\* The fields that n itself adds to those it is asked for, and those that p, its
\* parent, asks it for.
Own(n) == IF plan[n].op = "selection" THEN ToSet(plan[n].predicates) ELSE {}

FromParent(n, p) ==
    IF plan[p].op # "join" THEN ToSet(required[p])
    ELSE IF n = plan[p].children[1]
         THEN ToSet(SideOf(plan[p].predicates, 1)) \cup (ToSet(required[p]) \cap Provided(plan[p].children[1]))
         ELSE ToSet(SideOf(plan[p].predicates, 2))
              \cup (ToSet(required[p]) \cap (Provided(plan[p].children[2]) \ Provided(plan[p].children[1])))

\* What the operators of a prepared plan require.
LEMMA RequiredIs ==
    ASSUME FieldsInvariant, Prepared
    PROVE  /\ \A n \in 1 .. Len(plan) : required[n] \in DistinctLists
           /\ \A p \in 1 .. Len(plan) : \A n \in Kids(p) :
                 ToSet(required[n]) = Own(n) \cup FromParent(n, p)
<1>1. PlanInvariant /\ PlanIsForest
  BY DEF FieldsInvariant, PlanInvariant
<1>2. PICK columns \in Requested : required = Prepare(plan, columns)
  BY DEF FieldsInvariant, RequiredByPrepare
<1>3. columns \in DistinctLists
  BY ListsAssumption DEF DistinctLists, ColumnLists, Distinct
<1>4. /\ \A n \in 1 .. Len(plan) : required[n] \in DistinctLists
      /\ \A p \in 1 .. Len(plan) : \A n \in Kids(p) : required[n] = Requires(n, Asked(required, n, p))
  BY <1>1, <1>2, <1>3, PrepareIs
<1>5. ASSUME NEW p \in 1 .. Len(plan), NEW n \in Kids(p)
      PROVE  ToSet(required[n]) = Own(n) \cup FromParent(n, p)
  <2>. PICK asked : asked = Asked(required, n, p)
    OBVIOUS
  <2>1. n \in 1 .. Len(plan) /\ required[p] \in DistinctLists
    BY <1>1, <1>4, PlanIs
  <2>2. asked \in DistinctLists
    BY <1>1, <2>1, AskedIs
  <2>3. ToSet(required[n]) = ToSet(asked) \cup Own(n)
    BY <1>1, <1>4, <2>1, <2>2, RequiresIs DEF Own
  <2>4. ToSet(asked) = FromParent(n, p)
    <3>1. CASE plan[p].op # "join"
      BY <1>1, <2>1, <3>1, AskedIs DEF FromParent
    <3>2. CASE plan[p].op = "join" /\ n = plan[p].children[1]
      BY <1>1, <2>1, <3>2, AskedIs DEF FromParent
    <3>3. CASE plan[p].op = "join" /\ n # plan[p].children[1]
      BY <1>1, <2>1, <3>3, AskedIs DEF FromParent
    <3>. QED
      BY <3>1, <3>2, <3>3
  <2>. QED
    BY <2>3, <2>4
<1>. QED
  BY <1>4, <1>5

-----------------------------------------------------------------------------
\* What a scan can provide is provided by everything above it but the Print.
LEMMA ProvidedAbove ==
    ASSUME PlanIsForest, NEW n \in 1 .. Len(plan), n # Len(plan) \/ plan[n].op # "print", NEW s \in Below(n)
    PROVE  Provided(s) \subseteq Provided(n)
<1>. DEFINE T == {m \in 1 .. Len(plan) : plan[m].op # "print" /\ \E t \in Below(m) : ~ (Provided(t) \subseteq Provided(m))}
<1>1. ASSUME T # {} PROVE FALSE
  <2>1. PICK m \in T : \A j \in T : m <= j
    <3>1. T \subseteq Nat
      OBVIOUS
    <3>. HIDE DEF T
    <3>. QED
      BY <1>1, <3>1, LeastNumber
  <2>2. m \in 1 .. Len(plan) /\ plan[m].op # "print"
    BY <2>1
  <2>3. PICK t \in Below(m) : ~ (Provided(t) \subseteq Provided(m))
    BY <2>1
  <2>4. Below(m) = {m} \cup UNION {Below(c) : c \in Kids(m)}
    BY <2>2, BelowIs
  <2>5. PICK c \in Kids(m) : t \in Below(c)
    BY <2>3, <2>4
  <2>6. c \in 1 .. Len(plan) /\ ~ (m <= c) /\ m \in Nat /\ c \in Nat /\ m <= Len(plan) /\ Len(plan) \in Nat
    BY <2>2, <2>5, PlanIs
  <2>7. Provided(t) \subseteq Provided(c)
    <3>1. c # Len(plan)
      BY <2>6
    <3>2. plan[c].op # "print"
      BY <2>6, <3>1 DEF PlanIsForest
    <3>. QED
      BY <2>1, <2>5, <2>6, <3>2
  <2>8. Provided(c) \subseteq Provided(m)
    <3>1. CASE plan[m].op = "selection"
      <4>1. c = plan[m].children[1]
        BY <2>2, <2>5, <3>1, PlanIs
      <4>. QED
        BY <2>2, <3>1, <4>1, ProvidedIs
    <3>2. CASE plan[m].op = "join"
      <4>1. c = plan[m].children[1] \/ c = plan[m].children[2]
        BY <2>2, <2>5, <3>2, PlanIs
      <4>2. Provided(m) = Provided(plan[m].children[1]) \cup Provided(plan[m].children[2])
        BY <2>2, <3>2, ProvidedIs
      <4>. QED
        BY <4>1, <4>2
    <3>. QED
      BY <2>2, <2>5, <3>1, <3>2, PlanIs
  <2>. QED
    BY <2>3, <2>7, <2>8
<1>2. plan[n].op # "print"
  BY DEF PlanIsForest
<1>. QED
  BY <1>1, <1>2

\* The joins below n that could provide field f on their left while scan s is below
\* them on the right.
Divert(s, n, f) ==
    {j \in Below(n) : plan[j].op = "join" /\ s \in Below(plan[j].children[2]) /\ f \in Provided(plan[j].children[1])}

\* A scan is chosen when no join takes the field from its left child instead.
LEMMA ChosenIs ==
    ASSUME NEW s, NEW n, NEW f
    PROVE  Chosen(s, n, f) <=> s \in Below(n) /\ plan[s].op = "scan" /\ f \in Provided(s) /\ Divert(s, n, f) = {}
  BY DEF Chosen, Divert, Provides, Provided

\* Going down from p to its child n above s, the scan that is chosen stays the same,
\* but where p is a join and could take the field from its left child instead.
LEMMA ChosenBelow ==
    ASSUME PlanIsForest, NEW p \in 1 .. Len(plan), NEW n \in Kids(p), NEW s \in Below(n), NEW f
    PROVE  Chosen(s, p, f) <=>
              /\ Chosen(s, n, f)
              /\ plan[p].op = "join" /\ n # plan[p].children[1] => f \notin Provided(plan[p].children[1])
<1>1. /\ Below(p) = {p} \cup UNION {Below(c) : c \in Kids(p)} /\ s \in Below(p)
      /\ n \in 1 .. Len(plan)
  BY BelowIs, PlanIs
<1>2. ASSUME NEW c \in Kids(p), c # n, NEW j \in Below(c), plan[j].op = "join", s \in Below(plan[j].children[2])
      PROVE  FALSE
  <2>1. c \in 1 .. Len(plan)
    BY PlanIs
  <2>2. j \in 1 .. Len(plan) /\ Kids(j) \subseteq Below(c)
    BY <2>1, BelowIsTransitive
  <2>3. plan[j].children[2] \in Below(c)
    BY <1>2, <2>2, ChildrenAre
  <2>4. s \in Below(c)
    BY <1>2, <2>1, <2>3, BelowIsTransitive
  <2>. QED
    BY <1>2, <2>4, BelowApart
<1>3. ASSUME NEW j \in Divert(s, p, f), j # p PROVE j \in Divert(s, n, f)
  <2>1. j \in Below(p) /\ plan[j].op = "join" /\ s \in Below(plan[j].children[2])
    BY DEF Divert
  <2>2. PICK c \in Kids(p) : j \in Below(c)
    BY <1>1, <1>3, <2>1
  <2>3. c = n
    BY <1>2, <2>1, <2>2
  <2>. QED
    BY <2>2, <2>3 DEF Divert
<1>4. Divert(s, n, f) \subseteq Divert(s, p, f)
  BY <1>1 DEF Divert
<1>5. p \in Divert(s, p, f) <=>
         plan[p].op = "join" /\ n # plan[p].children[1] /\ f \in Provided(plan[p].children[1])
  <2>1. CASE plan[p].op # "join"
    BY <2>1 DEF Divert
  <2>2. CASE plan[p].op = "join" /\ n = plan[p].children[1]
    <3>1. plan[p].children[2] \in Kids(p) /\ plan[p].children[2] # n
      BY <2>2, ChildrenAre
    <3>2. s \notin Below(plan[p].children[2])
      BY <3>1, BelowApart
    <3>. QED
      BY <2>2, <3>2 DEF Divert
  <2>3. CASE plan[p].op = "join" /\ n # plan[p].children[1]
    <3>1. n = plan[p].children[2]
      BY <2>3, PlanIs
    <3>2. p \in Below(p)
      BY <1>1
    <3>. QED
      BY <2>3, <3>1, <3>2 DEF Divert
  <2>. QED
    BY <2>1, <2>2, <2>3
<1>6. p \notin Divert(s, n, f)
  <2>1. Below(n) \subseteq 1 .. n /\ n < p /\ p \in Nat /\ n \in Nat
    BY <1>1, BelowIs, PlanIs, ParentIs
  <2>2. p \notin Below(n)
    BY <2>1
  <2>. QED
    BY <2>2 DEF Divert
<1>7. Divert(s, p, f) = {} <=> Divert(s, n, f) = {} /\ p \notin Divert(s, p, f)
  BY <1>3, <1>4
<1>. QED
  BY <1>1, <1>5, <1>7, ChosenIs

-----------------------------------------------------------------------------
\* The fields of its own that p asks its child n for.
SideFor(n, p) ==
    IF plan[p].op # "join" THEN {}
    ELSE IF n = plan[p].children[1] THEN ToSet(SideOf(plan[p].predicates, 1))
         ELSE ToSet(SideOf(plan[p].predicates, 2))

\* What is asked for at the Print and at a child of an operator.
LEMMA DemandsIs ==
    ASSUME PlanInvariant, Prepared
    PROVE  /\ Demands(Len(plan)) = ToSet(required[Len(plan)])
           /\ \A p \in 1 .. Len(plan) : \A n \in Kids(p) : Demands(n) = Own(n) \cup SideFor(n, p)
<1>1. PlanIsForest /\ Len(plan) \in Nat /\ Len(plan) \in 1 .. Len(plan) /\ plan[Len(plan)].op = "print"
  BY AllBelowPrint, PlanIs DEF PlanInvariant
<1>. DEFINE OfJoins(n) == UNION {UNION {ToSet(SideOf(plan[p].predicates, k)) :
                                         k \in {k \in 1 .. 2 : plan[p].children[k] = n}} :
                                  p \in {p \in 1 .. Len(plan) : plan[p].op = "join"}}
<1>2. ASSUME NEW n, NEW f
      PROVE  f \in OfJoins(n) <=>
                \E p \in 1 .. Len(plan) : \E k \in 1 .. 2 :
                    plan[p].op = "join" /\ plan[p].children[k] = n /\ f \in ToSet(SideOf(plan[p].predicates, k))
  OBVIOUS
<1>3. \A n : Demands(n) = (IF n = Len(plan) THEN ToSet(required[n]) ELSE {}) \cup Own(n) \cup OfJoins(n)
  BY DEF Demands, Own
<1>. HIDE DEF OfJoins
<1>4. ASSUME NEW p \in 1 .. Len(plan), plan[p].op = "join", NEW k \in 1 .. 2
      PROVE  plan[p].children[k] \in Kids(p)
  <2>1. k = 1 \/ k = 2
    OBVIOUS
  <2>. QED
    BY <1>1, <1>4, <2>1, ChildrenAre
<1>5. Demands(Len(plan)) = ToSet(required[Len(plan)])
  <2>1. ASSUME NEW f \in OfJoins(Len(plan)) PROVE FALSE
    <3>1. PICK p \in 1 .. Len(plan), k \in 1 .. 2 : plan[p].op = "join" /\ plan[p].children[k] = Len(plan)
      BY <1>2
    <3>2. Len(plan) \in Kids(p)
      BY <1>4, <3>1
    <3>3. Len(plan) < p
      BY <1>1, <3>2, ParentIs
    <3>. QED
      BY <1>1, <3>3
  <2>2. Own(Len(plan)) = {}
    BY <1>1 DEF Own
  <2>. QED
    BY <1>3, <2>1, <2>2
<1>6. ASSUME NEW p \in 1 .. Len(plan), NEW n \in Kids(p)
      PROVE  Demands(n) = Own(n) \cup SideFor(n, p)
  <2>1. n # Len(plan)
    <3>1. n < p
      BY <1>1, ParentIs
    <3>. QED
      BY <1>1, <3>1, PlanIs
  <2>2. ASSUME NEW q \in 1 .. Len(plan), plan[q].op = "join", NEW k \in 1 .. 2, plan[q].children[k] = n
        PROVE  q = p
    <3>1. n \in Kids(q)
      BY <1>4, <2>2
    <3>. QED
      BY <1>1, <3>1, ParentIs
  <2>3. ASSUME NEW f PROVE f \in OfJoins(n) <=> f \in SideFor(n, p)
    <3>1. f \in OfJoins(n) <=>
             plan[p].op = "join" /\ \E k \in 1 .. 2 : plan[p].children[k] = n /\ f \in ToSet(SideOf(plan[p].predicates, k))
      BY <1>2, <2>2
    <3>2. \A k : k \in 1 .. 2 <=> k = 1 \/ k = 2
      OBVIOUS
    <3>3. f \in OfJoins(n) <=>
             /\ plan[p].op = "join"
             /\ \/ plan[p].children[1] = n /\ f \in ToSet(SideOf(plan[p].predicates, 1))
                \/ plan[p].children[2] = n /\ f \in ToSet(SideOf(plan[p].predicates, 2))
      BY <3>1, <3>2
    <3>4. CASE plan[p].op # "join"
      BY <3>3, <3>4 DEF SideFor
    <3>5. CASE plan[p].op = "join"
      <4>1. /\ plan[p].children[1] # plan[p].children[2]
            /\ n = plan[p].children[1] \/ n = plan[p].children[2]
        BY <1>1, <3>5, PlanIs, ChildrenAre
      <4>. QED
        BY <3>3, <3>5, <4>1 DEF SideFor
    <3>. QED
      BY <3>4, <3>5
  <2>. QED
    BY <1>3, <2>1, <2>3
<1>. QED
  BY <1>5, <1>6

\* A field that scan s is chosen for is required at n because n is where it is asked
\* for, or because it is required at its parent.
LEMMA RequiredBelow ==
    ASSUME FieldsInvariant, Prepared, NEW p \in 1 .. Len(plan), NEW n \in Kids(p), NEW s \in Below(n), NEW f
    PROVE  f \in ToSet(required[n]) /\ Chosen(s, n, f) <=>
               \/ f \in Demands(n) /\ Chosen(s, n, f)
               \/ f \in ToSet(required[p]) /\ Chosen(s, p, f)
<1>1. PlanInvariant /\ PlanIsForest /\ n \in 1 .. Len(plan)
  BY PlanIs DEF FieldsInvariant, PlanInvariant
<1>2. ToSet(required[n]) = Own(n) \cup FromParent(n, p) /\ Demands(n) = Own(n) \cup SideFor(n, p)
  BY <1>1, RequiredIs, DemandsIs
<1>3. Chosen(s, p, f) <=>
         /\ Chosen(s, n, f)
         /\ plan[p].op = "join" /\ n # plan[p].children[1] => f \notin Provided(plan[p].children[1])
  BY <1>1, ChosenBelow
<1>4. CASE plan[p].op # "join"
  BY <1>2, <1>3, <1>4 DEF FromParent, SideFor
<1>5. CASE plan[p].op = "join"
  <2>1. Chosen(s, n, f) => f \in Provided(n)
    <3>1. n # Len(plan)
      BY <1>1, ParentIs, PlanIs
    <3>. QED
      BY <1>1, <3>1, ProvidedAbove, ChosenIs
  <2>2. CASE n = plan[p].children[1]
    BY <1>2, <1>3, <1>5, <2>1, <2>2 DEF FromParent, SideFor
  <2>3. CASE n # plan[p].children[1]
    <3>1. n = plan[p].children[2]
      BY <1>1, <1>5, <2>3, PlanIs
    <3>. QED
      BY <1>2, <1>3, <1>5, <2>1, <2>3, <3>1 DEF FromParent, SideFor
  <2>. QED
    BY <2>2, <2>3
<1>. QED
  BY <1>4, <1>5

\* What is above an operator is above its parent, or is the operator.
LEMMA AboveIs ==
    ASSUME PlanIsForest, NEW p \in 1 .. Len(plan), NEW n \in Kids(p), NEW m \in 1 .. Len(plan)
    PROVE  n \in Below(m) <=> m = n \/ p \in Below(m)
<1>1. n \in 1 .. Len(plan) /\ n \in Below(n)
  BY BelowIs, PlanIs
<1>2. ASSUME n \in Below(m), m # n PROVE p \in Below(m)
  <2>1. PICK q \in Below(m) : n \in Kids(q)
    BY <1>2, BelowHasParent
  <2>2. q \in 1 .. Len(plan)
    BY <2>1, BelowIsTransitive
  <2>3. q = p
    BY <2>1, <2>2, ParentIs
  <2>. QED
    BY <2>1, <2>3
<1>3. ASSUME p \in Below(m) PROVE n \in Below(m)
  BY <1>3, BelowIsTransitive
<1>. QED
  BY <1>1, <1>2, <1>3

\* A field that scan s is chosen for is required at n if it is asked for at n or above.
LEMMA RequiredIfAsked ==
    ASSUME FieldsInvariant, Prepared, NEW n \in 1 .. Len(plan), NEW s \in Below(n), NEW f
    PROVE  f \in ToSet(required[n]) /\ Chosen(s, n, f) <=>
               \E m \in 1 .. Len(plan) : n \in Below(m) /\ f \in Demands(m) /\ Chosen(s, m, f)
<1>. DEFINE N == Len(plan)
            Asks(m) == f \in Demands(m) /\ Chosen(s, m, f)
            Has(m) == f \in ToSet(required[m]) /\ Chosen(s, m, f)
            T == {k \in 1 .. N : s \in Below(k) /\ ~ (Has(k) <=> \E m \in 1 .. N : k \in Below(m) /\ Asks(m))}
<1>1. PlanInvariant /\ PlanIsForest /\ N \in Nat /\ N \in 1 .. N
  BY AllBelowPrint, PlanIs DEF FieldsInvariant, PlanInvariant
<1>2. ASSUME T # {} PROVE FALSE
  <2>1. PICK k \in T : \A j \in T : j <= k
    <3>1. T \subseteq Nat /\ \A j \in T : j <= N
      BY <1>1
    <3>. HIDE DEF T
    <3>. QED
      BY <1>1, <1>2, <3>1, GreatestNumber
  <2>2. k \in 1 .. N /\ s \in Below(k) /\ ~ (Has(k) <=> \E m \in 1 .. N : k \in Below(m) /\ Asks(m))
    BY <2>1
  <2>3. CASE k = N
    <3>1. ASSUME NEW m \in 1 .. N, N \in Below(m) PROVE m = N
      <4>1. N \in 1 .. m
        BY <1>1, <3>1, BelowIs
      <4>. QED
        BY <1>1, <4>1
    <3>2. N \in Below(N)
      BY <1>1, AllBelowPrint
    <3>3. Has(N) <=> Asks(N)
      BY <1>1, DemandsIs
    <3>. HIDE DEF Has, Asks
    <3>. QED
      BY <1>1, <2>2, <2>3, <3>1, <3>2, <3>3
  <2>4. CASE k # N
    <3>. PICK p : p = Parent(plan, k)
      OBVIOUS
    <3>1. p \in 1 .. N /\ k \in Kids(p) /\ k < p
      BY <1>1, <2>2, <2>4, HasParent
    <3>2. s \in Below(p) /\ ~ (p <= k)
      <4>1. Below(p) = {p} \cup UNION {Below(c) : c \in Kids(p)}
        BY <1>1, <3>1, BelowIs
      <4>. QED
        BY <1>1, <2>2, <3>1, <4>1
    <3>3. Has(p) <=> \E m \in 1 .. N : p \in Below(m) /\ Asks(m)
      BY <2>1, <3>1, <3>2
    <3>4. Has(k) <=> Asks(k) \/ Has(p)
      BY <2>2, <3>1, RequiredBelow
    <3>5. \A m \in 1 .. N : k \in Below(m) <=> m = k \/ p \in Below(m)
      BY <1>1, <3>1, AboveIs
    <3>. HIDE DEF Has, Asks
    <3>. QED
      BY <2>2, <3>3, <3>4, <3>5
  <2>. QED
    BY <2>3, <2>4
<1>. QED
  BY <1>2

\* What arrives at the scans of a prepared plan.
LEMMA FieldsArrive == ASSUME FieldsInvariant PROVE EachFieldFromOneScan
<1>. SUFFICES ASSUME Prepared, NEW s \in 1 .. Len(plan), plan[s].op = "scan", plan[s].table = "Document"
     PROVE  /\ ToSet(required[s]) = UNION {{f \in Demands(n) : Chosen(s, n, f)} : n \in 1 .. Len(plan)}
            /\ \A i, j \in 1 .. Len(required[s]) : required[s][i] = required[s][j] => i = j
  BY DEF EachFieldFromOneScan
<1>1. PlanIsForest /\ required[s] \in DistinctLists
  BY RequiredIs DEF FieldsInvariant, PlanInvariant
<1>2. Provided(s) = ToSet(Columns)
  BY <1>1, ProvidedIs DEF FieldsOf
<1>3. Below(s) = {s}
  <2>1. Kids(s) = {}
    BY <1>1, PlanIs
  <2>2. Below(s) = {s} \cup UNION {Below(c) : c \in Kids(s)}
    BY <1>1, BelowIs
  <2>. QED
    BY <2>1, <2>2
<1>4. ASSUME NEW f \in ToSet(Columns) PROVE Chosen(s, s, f)
  <2>1. Divert(s, s, f) = {}
    BY <1>3 DEF Divert
  <2>. QED
    BY <1>2, <1>3, <2>1, ChosenIs
<1>5. ToSet(required[s]) \subseteq ToSet(Columns)
  <2>. PICK l : l = required[s]
    OBVIOUS
  <2>1. l \in Seq(ToSet(Columns))
    BY <1>1 DEF DistinctLists, ColumnLists
  <2>2. ToSet(l) \subseteq ToSet(Columns)
    BY <2>1 DEF ToSet
  <2>. QED
    BY <2>2
<1>6. ASSUME NEW f
      PROVE  f \in ToSet(required[s]) <=> \E m \in 1 .. Len(plan) : f \in Demands(m) /\ Chosen(s, m, f)
  <2>1. f \in ToSet(required[s]) /\ Chosen(s, s, f) <=>
           \E m \in 1 .. Len(plan) : s \in Below(m) /\ f \in Demands(m) /\ Chosen(s, m, f)
    BY <1>3, RequiredIfAsked
  <2>2. \A m : Chosen(s, m, f) => s \in Below(m) /\ f \in ToSet(Columns)
    BY <1>2, ChosenIs
  <2>. QED
    BY <1>4, <1>5, <2>1, <2>2
<1>7. ToSet(required[s]) = UNION {{f \in Demands(n) : Chosen(s, n, f)} : n \in 1 .. Len(plan)}
  BY <1>6
<1>8. Distinct(required[s])
  BY <1>1 DEF DistinctLists
<1>. QED
  BY <1>7, <1>8 DEF Distinct

-----------------------------------------------------------------------------
\* The fields that are at hand at a statement: in the record or tuples of the blocks
\* around it.
Scope(code, k) == UNION {AtHand(code[j]) : j \in Around(code, k)}

\* Statements other than those of joins use no field.
LEMMA UsesNothing ==
    ASSUME NEW s \in Statements, s.what \notin {"insert", "probe"}
    PROVE  s.uses = {}
BY DEF Statements

\* Code that never closes a block it did not open, and only uses fields of F and
\* those that it reads or finds itself.
LevelsUp(code) == \A k \in 1 .. Len(code) + 1 : Level(code, k) >= 0

UsesScope(code, F) == \A k \in 1 .. Len(code) : code[k].uses \subseteq F \cup Scope(code, k)

Scoped(code, F) ==
    code \in Seq(Statements) /\ Balanced(code) /\ LevelsUp(code) /\ UsesScope(code, F)

\* What is at hand in a part is at hand there in all of the code.
LEMMA ScopeInPart ==
    ASSUME NEW code \in Seq(Statements), NEW part \in Seq(Statements), NEW d \in Nat, PartAt(code, d, part),
           NEW k \in 1 .. Len(part)
    PROVE  Scope(part, k) \subseteq Scope(code, d + k)
<1>1. Len(part) \in Nat /\ Len(code) \in Nat
  OBVIOUS
<1>2. ASSUME NEW j \in Around(part, k)
      PROVE  d + j \in Around(code, d + k) /\ AtHand(code[d + j]) = AtHand(part[j])
  <2>1. j \in 1 .. k - 1 /\ \A m \in j + 1 .. k : Level(part, m) > Level(part, j)
    BY DEF Around
  <2>2. j \in 1 .. Len(part) /\ j \in 1 .. Len(part) + 1 /\ d + j \in 1 .. (d + k) - 1
    BY <1>1, <2>1
  <2>3. code[d + j] = part[j]
    BY <2>2 DEF PartAt
  <2>4. ASSUME NEW m \in (d + j) + 1 .. d + k PROVE Level(code, m) > Level(code, d + j)
    <3>. PICK i : i = m - d
      OBVIOUS
    <3>1. i \in j + 1 .. k /\ m = d + i /\ i \in 1 .. Len(part) + 1
      BY <1>1, <2>2
    <3>2. Level(part, i) > Level(part, j)
      BY <2>1, <3>1
    <3>3. /\ Level(code, m) = Level(code, d + 1) + Level(part, i)
          /\ Level(code, d + j) = Level(code, d + 1) + Level(part, j)
      BY <2>2, <3>1, LevelInPart
    <3>4. Level(code, d + 1) \in Int
      <4>1. d + 1 \in 1 .. Len(code) + 1
        BY <1>1 DEF PartAt
      <4>. QED
        BY <4>1, LevelIs
    <3>5. Level(part, i) \in Int /\ Level(part, j) \in Int
      BY <2>2, <3>1, LevelIs
    <3>. QED
      BY <3>2, <3>3, <3>4, <3>5
  <2>5. d + j \in Around(code, d + k)
    BY <2>2, <2>4 DEF Around
  <2>. QED
    BY <2>3, <2>5
<1>. QED
  BY <1>2 DEF Scope

\* A scoped part at a place of the code.
LEMMA PartScoped ==
    ASSUME NEW code \in Seq(Statements), NEW F, NEW part, Scoped(part, F), NEW d \in Nat, PartAt(code, d, part)
    PROVE  /\ \A k \in 1 .. Len(part) : code[d + k].uses \subseteq F \cup Scope(code, d + k)
           /\ \A k \in 1 .. Len(part) + 1 : Level(code, d + k) >= Level(code, d + 1)
<1>1. part \in Seq(Statements) /\ Len(part) \in Nat
  BY DEF Scoped
<1>2. ASSUME NEW k \in 1 .. Len(part) PROVE code[d + k].uses \subseteq F \cup Scope(code, d + k)
  <2>1. code[d + k] = part[k]
    BY DEF PartAt
  <2>2. part[k].uses \subseteq F \cup Scope(part, k)
    BY DEF Scoped, UsesScope
  <2>3. Scope(part, k) \subseteq Scope(code, d + k)
    BY <1>1, ScopeInPart
  <2>. QED
    BY <2>1, <2>2, <2>3
<1>3. ASSUME NEW k \in 1 .. Len(part) + 1 PROVE Level(code, d + k) >= Level(code, d + 1)
  <2>1. Level(code, d + k) = Level(code, d + 1) + Level(part, k)
    BY <1>1, LevelInPart
  <2>2. Level(part, k) >= 0 /\ Level(part, k) \in Int
    BY <1>1, LevelIs DEF Scoped, LevelsUp
  <2>3. Level(code, d + 1) \in Int
    <3>1. d + 1 \in 1 .. Len(code) + 1
      BY <1>1 DEF PartAt
    <3>. QED
      BY <3>1, LevelIs
  <2>. QED
    BY <2>1, <2>2, <2>3
<1>. QED
  BY <1>2, <1>3

\* What a block reads or finds is at hand in all of it.
LEMMA BlockIsScoped ==
    ASSUME NEW p, NEW w \in {"scan", "if", "probe"}, NEW F, NEW mid, NEW c, Encloses(c, w, p, mid),
           c[1].uses \subseteq F, Scoped(mid, F \cup AtHand(c[1]))
    PROVE  Scoped(c, F)
<1>0. mid \in Seq(Statements) /\ Balanced(mid)
  BY DEF Scoped
<1>1. /\ c \in Seq(Statements) /\ Len(c) = Len(mid) + 2 /\ Len(mid) \in Nat
      /\ c[1].what \in {"scan", "if", "probe"} /\ c[Len(mid) + 2].what = "end"
      /\ \A k \in 1 .. Len(mid) : c[1 + k] = mid[k]
  BY <1>0 DEF Encloses
<1>2. PartAt(c, 1, mid)
  BY <1>1 DEF PartAt
<1>3. Balanced(c)
  BY <1>0, BlockIsBalanced
<1>4. Level(c, 1) = 0 /\ Level(c, 1 + 1) = 1
  <2>1. Level(c, 1) = 0 /\ Level(c, 1 + 1) = Level(c, 1) + Depth(c[1]) /\ Depth(c[1]) = 1
    BY <1>1, LevelIs DEF Depth
  <2>. QED
    BY <2>1
<1>5. /\ \A k \in 1 .. Len(mid) : c[1 + k].uses \subseteq (F \cup AtHand(c[1])) \cup Scope(c, 1 + k)
      /\ \A k \in 1 .. Len(mid) + 1 : Level(c, 1 + k) >= 1
  <2>. PICK G : G = F \cup AtHand(c[1])
    OBVIOUS
  <2>1. 1 \in Nat /\ Scoped(mid, G)
    OBVIOUS
  <2>2. \A k \in 1 .. Len(mid) : c[1 + k].uses \subseteq G \cup Scope(c, 1 + k)
    BY <1>1, <1>2, <2>1, PartScoped
  <2>3. \A k \in 1 .. Len(mid) + 1 : Level(c, 1 + k) >= Level(c, 1 + 1)
    BY <1>1, <1>2, <2>1, PartScoped
  <2>. QED
    BY <1>4, <2>2, <2>3
<1>6. LevelsUp(c)
  <2>1. ASSUME NEW k \in 1 .. Len(c) + 1 PROVE Level(c, k) >= 0
    <3>1. CASE k = 1
      BY <1>4, <3>1
    <3>2. CASE k = Len(c) + 1
      BY <1>3, <3>2 DEF Balanced
    <3>3. CASE k # 1 /\ k # Len(c) + 1
      <4>. PICK i : i = k - 1
        OBVIOUS
      <4>1. i \in 1 .. Len(mid) + 1 /\ k = 1 + i /\ k \in 1 .. Len(c) + 1
        BY <1>1, <3>3
      <4>2. Level(c, k) >= 1 /\ Level(c, k) \in Int
        BY <1>1, <1>5, <4>1, LevelIs
      <4>. QED
        BY <4>2
    <3>. QED
      BY <3>1, <3>2, <3>3
  <2>. QED
    BY <2>1 DEF LevelsUp
<1>7. ASSUME NEW i \in 1 .. Len(mid) PROVE AtHand(c[1]) \subseteq Scope(c, 1 + i)
  <2>1. 1 \in 1 .. (1 + i) - 1
    BY <1>1
  <2>2. ASSUME NEW m \in 1 + 1 .. 1 + i PROVE Level(c, m) > Level(c, 1)
    <3>. PICK j : j = m - 1
      OBVIOUS
    <3>1. j \in 1 .. Len(mid) + 1 /\ m = 1 + j /\ m \in 1 .. Len(c) + 1
      BY <1>1
    <3>2. Level(c, m) >= 1 /\ Level(c, m) \in Int
      BY <1>1, <1>5, <3>1, LevelIs
    <3>. QED
      BY <1>4, <3>2
  <2>3. 1 \in Around(c, 1 + i)
    BY <2>1, <2>2 DEF Around
  <2>. QED
    BY <2>3 DEF Scope
<1>8. UsesScope(c, F)
  <2>1. ASSUME NEW k \in 1 .. Len(c) PROVE c[k].uses \subseteq F \cup Scope(c, k)
    <3>1. CASE k = 1
      BY <3>1
    <3>2. CASE k = Len(mid) + 2
      <4>1. c[k] \in Statements /\ c[k].what = "end"
        BY <1>1, <3>2
      <4>2. c[k].uses = {}
        BY <4>1, UsesNothing
      <4>. QED
        BY <4>2
    <3>3. CASE k # 1 /\ k # Len(mid) + 2
      <4>. PICK i : i = k - 1
        OBVIOUS
      <4>1. i \in 1 .. Len(mid) /\ k = 1 + i
        BY <1>1, <3>3
      <4>2. c[1 + i].uses \subseteq (F \cup AtHand(c[1])) \cup Scope(c, 1 + i) /\ AtHand(c[1]) \subseteq Scope(c, 1 + i)
        BY <1>5, <1>7, <4>1
      <4>. QED
        BY <4>1, <4>2
    <3>. QED
      BY <3>1, <3>2, <3>3
  <2>. QED
    BY <2>1 DEF UsesScope
<1>. QED
  BY <1>1, <1>3, <1>6, <1>8 DEF Scoped

\* Code without blocks.
LEMMA FlatIsScoped ==
    ASSUME NEW code \in Seq(Statements), NEW F,
           \A k \in 1 .. Len(code) :
               code[k].what \notin {"scan", "if", "probe", "end"} /\ code[k].uses \subseteq F
    PROVE  Scoped(code, F)
<1>1. Balanced(code)
  BY FlatIsBalanced
<1>2. \A k \in 1 .. Len(code) + 1 : Level(code, k) = 0
  <2>. DEFINE T == {k \in 1 .. Len(code) + 1 : Level(code, k) # 0}
  <2>1. ASSUME T # {} PROVE FALSE
    <3>1. PICK k \in T : \A j \in T : k <= j
      <4>1. T \subseteq Nat
        OBVIOUS
      <4>. HIDE DEF T
      <4>. QED
        BY <2>1, <4>1, LeastNumber
    <3>2. k \in Nat /\ 1 <= k /\ k <= Len(code) + 1 /\ k # 1 /\ Len(code) \in Nat
      BY <3>1, LevelIs
    <3>. PICK j : j = k - 1
      OBVIOUS
    <3>3. j \in 1 .. Len(code) /\ k = j + 1 /\ j \in 1 .. Len(code) + 1 /\ ~ (k <= j)
      BY <3>2
    <3>4. Level(code, j) = 0
      BY <3>1, <3>3
    <3>5. Level(code, j + 1) = Level(code, j) + Depth(code[j]) /\ Depth(code[j]) = 0
      BY <3>3, LevelIs DEF Depth
    <3>. QED
      BY <3>1, <3>3, <3>4, <3>5
  <2>. QED
    BY <2>1
<1>3. LevelsUp(code)
  BY <1>2 DEF LevelsUp
<1>4. UsesScope(code, F)
  BY DEF UsesScope
<1>. QED
  BY <1>1, <1>3, <1>4 DEF Scoped

\* Code that does with some fields does with more.
LEMMA MoreIsInScope ==
    ASSUME NEW code, NEW F, NEW G, Scoped(code, F), F \subseteq G
    PROVE  Scoped(code, G)
<1>1. UsesScope(code, G)
  BY DEF Scoped, UsesScope
<1>. QED
  BY <1>1 DEF Scoped

-----------------------------------------------------------------------------
\* The fields that operator n has to deliver.
ToDeliver(n) == ToSet(required[n]) \cap Provided(n)

\* The tuples of a join hold what it has to deliver of its left child's fields.
LEMMA TuplesHold ==
    ASSUME NEW p \in 1 .. Len(plan)
    PROVE  TupleFields(plan, required, p) = ToSet(required[p]) \cap Provided(plan[p].children[1])
BY DEF TupleFields, Provided

\* The child of a selection delivers what the selection has to deliver, the left child
\* of a join what the join inserts, and the right one what it looks up and what it has
\* to deliver and does not find in its tuples.
LEMMA NeededIs ==
    ASSUME FieldsInvariant, Prepared, NEW p \in 1 .. Len(plan), NEW n \in Kids(p)
    PROVE  /\ plan[p].op = "selection" => ToDeliver(p) \subseteq ToDeliver(n)
           /\ plan[p].op = "join" /\ n = plan[p].children[1] =>
                 ToSet(SideOf(plan[p].predicates, 1)) \cup TupleFields(plan, required, p) \subseteq ToDeliver(n)
           /\ plan[p].op = "join" /\ n # plan[p].children[1] =>
                 /\ ToSet(SideOf(plan[p].predicates, 2)) \subseteq ToDeliver(n)
                 /\ ToDeliver(p) \subseteq ToDeliver(n) \cup TupleFields(plan, required, p)
<1>1. PlanIsForest /\ ToSet(required[n]) = Own(n) \cup FromParent(n, p)
  BY RequiredIs DEF FieldsInvariant, PlanInvariant
<1>2. CASE plan[p].op = "selection"
  <2>1. n = plan[p].children[1] /\ FromParent(n, p) = ToSet(required[p])
    BY <1>1, <1>2, PlanIs DEF FromParent
  <2>2. Provided(p) = Provided(n)
    BY <1>1, <1>2, <2>1, ProvidedIs
  <2>. QED
    BY <1>1, <1>2, <2>1, <2>2 DEF ToDeliver
<1>3. CASE plan[p].op = "join"
  <2>. PICK l, r : l = plan[p].children[1] /\ r = plan[p].children[2]
    OBVIOUS
  <2>1. Provided(p) = Provided(l) \cup Provided(r) /\ (n = l \/ n = r)
    BY <1>1, <1>3, ProvidedIs, PlanIs
  <2>2. TupleFields(plan, required, p) = ToSet(required[p]) \cap Provided(l)
    BY TuplesHold
  <2>3. \A k \in 1 .. 2 : ToSet(SideOf(plan[p].predicates, k)) \subseteq Provided(plan[p].children[k])
    BY <1>3 DEF FieldsInvariant, PredicatesProvided
  <2>4. /\ ToSet(SideOf(plan[p].predicates, 1)) \subseteq Provided(l)
        /\ ToSet(SideOf(plan[p].predicates, 2)) \subseteq Provided(r)
    <3>1. 1 \in 1 .. 2 /\ 2 \in 1 .. 2
      OBVIOUS
    <3>. QED
      BY <2>3, <3>1
  <2>5. CASE n = l
    <3>1. FromParent(n, p) = ToSet(SideOf(plan[p].predicates, 1)) \cup (ToSet(required[p]) \cap Provided(l))
      BY <1>3, <2>5 DEF FromParent
    <3>. QED
      BY <1>1, <1>3, <2>2, <2>4, <2>5, <3>1 DEF ToDeliver
  <2>6. CASE n # l
    <3>1. FromParent(n, p) =
             ToSet(SideOf(plan[p].predicates, 2)) \cup (ToSet(required[p]) \cap (Provided(r) \ Provided(l)))
      BY <1>3, <2>6 DEF FromParent
    <3>. QED
      BY <1>1, <1>3, <2>1, <2>2, <2>4, <2>6, <3>1 DEF ToDeliver
  <2>. QED
    BY <2>5, <2>6
<1>. QED
  BY <1>2, <1>3

\* What is emitted for the tuples of an operator uses what that operator delivers, and
\* what it finds in hash tables itself: by going up from the highest operator for which
\* it would not.
LEMMA ConsumedScoped ==
    ASSUME FieldsInvariant, Prepared, NEW n \in 1 .. Len(plan), n # Len(plan)
    PROVE  Scoped(Consumed(plan, required)[n], ToDeliver(n))
<1>. DEFINE N == Len(plan)
<1>. PICK C : C = Consumed(plan, required)
  OBVIOUS
<1>1. PlanInvariant /\ PlanIsForest /\ N \in Nat /\ plan[N].op = "print" /\ N \in 1 .. N
  BY PlanIs DEF FieldsInvariant, PlanInvariant
<1>2. /\ C \in [1 .. N -> Seq(Statements)]
      /\ \A p \in 1 .. N : \A m \in Kids(p) : C[m] = EmittedFor(C, m, p)
  BY <1>1, ConsumedIs
<1>. DEFINE T == {m \in 1 .. N : m # N /\ ~ Scoped(C[m], ToDeliver(m))}
<1>3. ASSUME T # {} PROVE FALSE
  <2>1. PICK m \in T : \A x \in T : x <= m
    <3>1. T \subseteq Nat /\ \A x \in T : x <= N
      BY <1>1
    <3>. HIDE DEF T
    <3>. QED
      BY <1>1, <1>3, <3>1, GreatestNumber
  <2>2. PICK p \in 1 .. N : m \in Kids(p) /\ m < p
    BY <1>1, <2>1, HasParent
  <2>3. C[m] = EmittedFor(C, m, p) /\ C[m] \in Seq(Statements) /\ C[p] \in Seq(Statements)
    BY <1>2, <2>1, <2>2
  <2>. PICK c : c = C[m]
    OBVIOUS
  <2>. PICK above : above = C[p]
    OBVIOUS
  <2>4. m \in 1 .. N /\ m # N /\ ~ Scoped(c, ToDeliver(m)) /\ m \in Nat
    BY <1>1, <2>1
  <2>5. p \notin T
    BY <1>1, <2>1, <2>2, <2>4
  <2>6. p # N => Scoped(above, ToDeliver(p))
    BY <2>5
  <2>7. above \in Seq(Statements) /\ c \in Seq(Statements)
    BY <2>3
  <2>8. p \in 1 .. Len(plan) /\ m \in Kids(p)
    BY <2>2
  <2>. HIDE DEF T
  <2>9. CASE plan[p].op = "selection"
    <3>1. c = SelectionConsumes(p, above) /\ p # N
      BY <1>1, <2>2, <2>3, <2>9, EmittedForIs
    <3>2. Encloses(c, "if", p, above)
      BY <2>7, <2>8, <3>1, SelectionEmits
    <3>. PICK G : G = ToDeliver(m) \cup AtHand(c[1])
      OBVIOUS
    <3>3. Scoped(above, G)
      BY <2>6, <2>8, <2>9, <3>1, NeededIs, MoreIsInScope
    <3>4. c[1].uses \subseteq ToDeliver(m)
      <4>1. c[1] \in Statements /\ c[1].what = "if"
        BY <2>7, <3>2 DEF Encloses
      <4>. QED
        BY <4>1, UsesNothing
    <3>5. Scoped(c, ToDeliver(m))
      BY <3>2, <3>3, <3>4, BlockIsScoped
    <3>. QED
      BY <2>4, <3>5
  <2>10. CASE plan[p].op = "print"
    <3>1. c = PrintConsumes(p)
      BY <1>1, <2>2, <2>3, <2>10, EmittedForIs
    <3>2. Len(c) = 3 /\ \A k \in 1 .. 3 : c[k].what \in {"lock", "print", "unlock"}
      BY <3>1, PrintEmits
    <3>3. \A k \in 1 .. Len(c) : c[k].uses = {}
      BY <2>7, <3>2, UsesNothing
    <3>4. Scoped(c, ToDeliver(m))
      BY <2>7, <3>2, <3>3, FlatIsScoped
    <3>. QED
      BY <2>4, <3>4
  <2>11. CASE plan[p].op = "join" /\ m = plan[p].children[1]
    <3>1. c = JoinConsumesLeft(p, plan[p].predicates, TupleFields(plan, required, p))
      BY <1>1, <2>2, <2>3, <2>11, EmittedForIs
    <3>2. /\ Len(c) = 1 /\ c[1].what = "insert"
          /\ c[1].uses = ToSet(SideOf(plan[p].predicates, 1)) \cup TupleFields(plan, required, p)
      BY <3>1, JoinEmitsLeft
    <3>3. c[1].uses \subseteq ToDeliver(m)
      BY <2>8, <2>11, <3>2, NeededIs
    <3>4. \A k \in 1 .. Len(c) : k = 1
      BY <3>2
    <3>5. Scoped(c, ToDeliver(m))
      BY <2>7, <3>2, <3>3, <3>4, FlatIsScoped
    <3>. QED
      BY <2>4, <3>5
  <2>12. CASE plan[p].op = "join" /\ m # plan[p].children[1]
    <3>1. c = JoinConsumesRight(p, plan[p].predicates, TupleFields(plan, required, p), above) /\ p # N
      BY <1>1, <2>2, <2>3, <2>12, EmittedForIs
    <3>2. /\ Encloses(c, "probe", p, above)
          /\ c[1].uses = ToSet(SideOf(plan[p].predicates, 2)) /\ AtHand(c[1]) = TupleFields(plan, required, p)
      BY <2>7, <2>8, <3>1, JoinEmitsRight
    <3>. PICK G : G = ToDeliver(m) \cup AtHand(c[1])
      OBVIOUS
    <3>3. c[1].uses \subseteq ToDeliver(m) /\ ToDeliver(p) \subseteq G
      BY <2>8, <2>12, <3>2, NeededIs
    <3>4. Scoped(above, G)
      BY <2>6, <3>1, <3>3, MoreIsInScope
    <3>5. Scoped(c, ToDeliver(m))
      BY <3>2, <3>3, <3>4, BlockIsScoped
    <3>. QED
      BY <2>4, <3>5
  <2>. QED
    BY <1>1, <2>2, <2>9, <2>10, <2>11, <2>12, EmittedForIs
<1>. QED
  BY <1>3

-----------------------------------------------------------------------------
\* The code of a scan around what is emitted for its tuples uses no other fields than
\* those it reads.
LEMMA ScanIsScoped ==
    ASSUME FieldsInvariant, Prepared, NEW n \in 1 .. Len(plan), n # Len(plan)
    PROVE  Scoped(ScanCode(n, required[n], Consumed(plan, required)[n]), {})
<1>. PICK above : above = Consumed(plan, required)[n]
  OBVIOUS
<1>. PICK c : c = ScanCode(n, required[n], above)
  OBVIOUS
<1>1. Scoped(above, ToDeliver(n))
  BY ConsumedScoped
<1>2. Encloses(c, "scan", n, above) /\ AtHand(c[1]) = ToSet(required[n])
  <2>1. above \in Seq(Statements)
    BY <1>1 DEF Scoped
  <2>. QED
    BY <2>1, ScanEmits
<1>3. Scoped(above, {} \cup AtHand(c[1]))
  <2>. PICK G : G = {} \cup AtHand(c[1])
    OBVIOUS
  <2>1. ToDeliver(n) \subseteq G
    BY <1>2 DEF ToDeliver
  <2>2. Scoped(above, G)
    BY <1>1, <2>1, MoreIsInScope
  <2>. QED
    BY <2>2
<1>4. c[1].uses \subseteq {}
  <2>1. c[1] \in Statements /\ c[1].what = "scan"
    <3>1. c \in Seq(Statements) /\ Len(c) = Len(above) + 2 /\ c[1].what = "scan"
      BY <1>2 DEF Encloses
    <3>2. Len(above) \in Nat
      BY <1>1 DEF Scoped
    <3>. QED
      BY <3>1, <3>2
  <2>. QED
    BY <2>1, UsesNothing
<1>5. Scoped(c, {})
  BY <1>2, <1>3, <1>4, BlockIsScoped
<1>. QED
  BY <1>5

\* Code outside any block and the scoped code of children use no field that is not at
\* hand.
LEMMA PrintIsScoped ==
    ASSUME NEW n \in 1 .. Len(plan), NEW child, Scoped(child, {}), NEW c, c = PrintCode(n, child)
    PROVE  Scoped(c, {})
<1>1. child \in Seq(Statements) /\ Balanced(child) /\ Len(child) \in Nat
  BY DEF Scoped
<1>2. /\ c \in Seq(Statements) /\ Len(c) = 1 + Len(child) /\ c[1].what = "mutex"
      /\ \A k \in 1 .. Len(child) : c[1 + k] = child[k]
  BY <1>1, PrintCodeIs
<1>3. PartAt(c, 1, child)
  BY <1>1, <1>2 DEF PartAt
<1>4. Level(c, 1) = 0 /\ Level(c, 1 + 1) = 0
  <2>1. 1 \in 1 .. Len(c)
    BY <1>1, <1>2
  <2>2. Level(c, 1) = 0 /\ Level(c, 1 + 1) = Level(c, 1) + Depth(c[1])
    BY <1>2, <2>1, LevelIs
  <2>3. Depth(c[1]) = 0
    BY <1>2 DEF Depth
  <2>. QED
    BY <2>2, <2>3
<1>5. Balanced(c)
  <2>1. Len(c) + 1 = 1 + Len(child) + 1
    BY <1>1, <1>2
  <2>2. Level(c, Len(c) + 1) = Level(c, 1 + 1)
    BY <1>1, <1>2, <1>3, <2>1, LevelAfterPart
  <2>. QED
    BY <1>4, <2>2 DEF Balanced
<1>6. \A k \in 1 .. Len(child) : c[1 + k].uses \subseteq {} \cup Scope(c, 1 + k)
  BY <1>1, <1>2, <1>3, PartScoped
<1>7. \A k \in 1 .. Len(child) + 1 : Level(c, 1 + k) >= Level(c, 1 + 1)
  BY <1>1, <1>2, <1>3, PartScoped
<1>8. \A k : k \in 1 .. Len(c) => k = 1 \/ \E i \in 1 .. Len(child) : k = 1 + i
  <2>1. ASSUME NEW k \in 1 .. Len(c), k # 1 PROVE k - 1 \in 1 .. Len(child) /\ k = 1 + (k - 1)
    BY <1>1, <1>2, <2>1
  <2>. QED
    BY <2>1
<1>9. \A k : k \in 1 .. Len(c) + 1 => k = 1 \/ \E i \in 1 .. Len(child) + 1 : k = 1 + i
  <2>1. ASSUME NEW k \in 1 .. Len(c) + 1, k # 1 PROVE k - 1 \in 1 .. Len(child) + 1 /\ k = 1 + (k - 1)
    BY <1>1, <1>2, <2>1
  <2>. QED
    BY <2>1
<1>10. LevelsUp(c)
  BY <1>4, <1>7, <1>9 DEF LevelsUp
<1>11. c[1].uses = {}
  <2>1. c[1] \in Statements
    BY <1>1, <1>2
  <2>. QED
    BY <1>2, <2>1, UsesNothing
<1>12. UsesScope(c, {})
  BY <1>6, <1>8, <1>11 DEF UsesScope
<1>. QED
  BY <1>2, <1>5, <1>10, <1>12 DEF Scoped

\* So does that of a join.
LEMMA JoinIsScoped ==
    ASSUME NEW n \in 1 .. Len(plan), NEW left, Scoped(left, {}), NEW right, Scoped(right, {}),
           NEW c, c = JoinCode(n, left, right)
    PROVE  Scoped(c, {})
<1>1. /\ left \in Seq(Statements) /\ Balanced(left) /\ Len(left) \in Nat
      /\ right \in Seq(Statements) /\ Balanced(right) /\ Len(right) \in Nat
  BY DEF Scoped
<1>. PICK d : d = Len(left) + 2
  OBVIOUS
<1>2. /\ c \in Seq(Statements) /\ Len(c) = d + Len(right)
      /\ PartAt(c, 1, left) /\ PartAt(c, d, right)
      /\ Level(c, 1 + 1) = 0 /\ Level(c, d) = 0 /\ Level(c, d + 1) = 0
      /\ Balanced(c)
      /\ c[1].what = "map" /\ c[d].what = "finalize"
  BY <1>1, JoinCodeParts
<1>3. d \in Nat /\ 1 \in Nat
  BY <1>1
<1>4. /\ \A k \in 1 .. Len(left) : c[1 + k].uses \subseteq {} \cup Scope(c, 1 + k)
      /\ \A k \in 1 .. Len(left) + 1 : Level(c, 1 + k) >= Level(c, 1 + 1)
  BY <1>2, <1>3, PartScoped
<1>5. /\ \A k \in 1 .. Len(right) : c[d + k].uses \subseteq {} \cup Scope(c, d + k)
      /\ \A k \in 1 .. Len(right) + 1 : Level(c, d + k) >= Level(c, d + 1)
  BY <1>2, <1>3, PartScoped
<1>6. ASSUME NEW k \in 1 .. Len(c)
      PROVE  \/ k = 1 \/ k = d
             \/ \E i \in 1 .. Len(left) : k = 1 + i
             \/ \E i \in 1 .. Len(right) : k = d + i
  <2>1. k \in Int /\ (k = 1 \/ k = d \/ (k # 1 /\ k < d) \/ d < k)
    BY <1>3
  <2>2. CASE k # 1 /\ k < d
    <3>. PICK i : i = k - 1
      OBVIOUS
    <3>1. i \in 1 .. Len(left) /\ k = 1 + i
      BY <1>1, <1>2, <1>3, <2>1, <2>2
    <3>. QED
      BY <3>1
  <2>3. CASE d < k
    <3>. PICK i : i = k - d
      OBVIOUS
    <3>1. i \in 1 .. Len(right) /\ k = d + i
      BY <1>1, <1>2, <1>3, <2>1, <2>3
    <3>. QED
      BY <3>1
  <2>. QED
    BY <2>1, <2>2, <2>3
<1>7. ASSUME NEW k \in 1 .. Len(c) + 1
      PROVE  \/ k = 1
             \/ \E i \in 1 .. Len(left) + 1 : k = 1 + i
             \/ \E i \in 1 .. Len(right) + 1 : k = d + i
  <2>1. k \in Int /\ (k = 1 \/ (k # 1 /\ k <= d) \/ d < k)
    BY <1>3
  <2>2. CASE k # 1 /\ k <= d
    <3>. PICK i : i = k - 1
      OBVIOUS
    <3>1. i \in 1 .. Len(left) + 1 /\ k = 1 + i
      BY <1>1, <1>2, <1>3, <2>1, <2>2
    <3>. QED
      BY <3>1
  <2>3. CASE d < k
    <3>. PICK i : i = k - d
      OBVIOUS
    <3>1. i \in 1 .. Len(right) + 1 /\ k = d + i
      BY <1>1, <1>2, <1>3, <2>1, <2>3
    <3>. QED
      BY <3>1
  <2>. QED
    BY <2>1, <2>2, <2>3
<1>8. LevelsUp(c)
  <2>1. Level(c, 1) = 0
    BY <1>2, LevelIs
  <2>2. ASSUME NEW k \in 1 .. Len(c) + 1 PROVE Level(c, k) >= 0
    BY <1>2, <1>4, <1>5, <1>7, <2>1
  <2>. QED
    BY <2>2 DEF LevelsUp
<1>9. c[1].uses = {} /\ c[d].uses = {}
  <2>1. c[1] \in Statements /\ c[d] \in Statements
    BY <1>1, <1>2
  <2>. QED
    BY <1>2, <2>1, UsesNothing
<1>10. UsesScope(c, {})
  BY <1>4, <1>5, <1>6, <1>9 DEF UsesScope
<1>. QED
  BY <1>2, <1>8, <1>10 DEF Scoped

\* Produce of a prepared plan uses no field that is not at hand.
LEMMA CodeIsScoped ==
    ASSUME FieldsInvariant, Prepared
    PROVE  Scoped(Produce(plan, required), {})
<1>1. PlanInvariant /\ PlanIsForest /\ Len(plan) \in Nat /\ Len(plan) \in 1 .. Len(plan) /\ plan[Len(plan)].op = "print"
  BY AllBelowPrint, PlanIs DEF FieldsInvariant, PlanInvariant
<1>2. PICK code \in [1 .. Len(plan) -> Seq(Statements)] :
        /\ Produce(plan, required) = code[Len(plan)]
        /\ \A n \in 1 .. Len(plan) : code[n] = CodeFor(code, n)
  BY <1>1, CodeIs
<1>. DEFINE T == {n \in 1 .. Len(plan) : ~ Scoped(code[n], {})}
<1>3. ASSUME T # {} PROVE FALSE
  <2>1. PICK n \in T : \A m \in T : n <= m
    <3>1. T \subseteq Nat
      BY <1>1
    <3>. HIDE DEF T
    <3>. QED
      BY <1>3, <3>1, LeastNumber
  <2>2. n \in 1 .. Len(plan) /\ n \in Nat /\ code[n] = CodeFor(code, n) /\ ~ Scoped(code[n], {})
    BY <1>1, <1>2, <2>1
  <2>3. ASSUME NEW c \in Kids(n) PROVE Scoped(code[c], {})
    <3>1. c \in 1 .. Len(plan) /\ c \in 1 .. n - 1
      BY <1>1, <2>2, PlanIs
    <3>2. c \notin T
      BY <2>1, <2>2, <3>1
    <3>. QED
      BY <3>1, <3>2
  <2>. HIDE DEF T
  <2>4. CASE plan[n].op = "scan"
    <3>1. code[n] = ScanCode(n, required[n], Consumed(plan, required)[n]) /\ n # Len(plan)
      BY <1>1, <2>2, <2>4, CodeForIs
    <3>. QED
      BY <2>2, <3>1, ScanIsScoped
  <2>5. CASE plan[n].op = "selection"
    <3>1. code[n] = code[plan[n].children[1]]
      BY <1>1, <2>2, <2>5, CodeForIs
    <3>. QED
      BY <1>1, <2>2, <2>3, <2>5, <3>1, ChildrenAre
  <2>6. CASE plan[n].op = "join"
    <3>1. code[n] = JoinCode(n, code[plan[n].children[1]], code[plan[n].children[2]])
      BY <1>1, <2>2, <2>6, CodeForIs
    <3>2. Scoped(code[plan[n].children[1]], {})
      BY <1>1, <2>2, <2>3, <2>6, ChildrenAre
    <3>3. Scoped(code[plan[n].children[2]], {})
      BY <1>1, <2>2, <2>3, <2>6, ChildrenAre
    <3>. QED
      BY <2>2, <3>1, <3>2, <3>3, JoinIsScoped
  <2>7. CASE plan[n].op = "print"
    <3>1. code[n] = PrintCode(n, code[plan[n].children[1]])
      BY <1>1, <2>2, <2>7, CodeForIs
    <3>2. Scoped(code[plan[n].children[1]], {})
      BY <1>1, <2>2, <2>3, <2>7, ChildrenAre
    <3>. QED
      BY <2>2, <3>1, <3>2, PrintIsScoped
  <2>. QED
    BY <1>1, <2>2, <2>4, <2>5, <2>6, <2>7, PlanIs
<1>. QED
  BY <1>1, <1>2, <1>3

\* The fields that the code of a prepared plan uses have been read where it does.
LEMMA FieldsFollow == ASSUME FieldsInvariant PROVE FieldsDelivered
<1>. PICK code : code = Produce(plan, required)
  OBVIOUS
<1>1. ASSUME Prepared, NEW k \in DOMAIN code
      PROVE  code[k].uses \subseteq UNION {AtHand(code[j]) : j \in Around(code, k)}
  <2>1. code \in Seq(Statements) /\ UsesScope(code, {})
    BY <1>1, CodeIsScoped DEF Scoped
  <2>2. k \in 1 .. Len(code)
    BY <2>1
  <2>. QED
    BY <2>1, <2>2 DEF UsesScope, Scope
<1>. QED
  BY <1>1 DEF FieldsDelivered

\* The plan is always a tree of operators whose predicates are about fields provided below
\* them, and the lists of a prepared plan are those that Prepare makes.
LEMMA FieldsInvariantHolds == QuerySpec => []FieldsInvariant
<1>1. InitQuery => FieldsInvariant
  BY InitFields
<1>2. FieldsInvariant /\ [QueryNext]_queryVars => FieldsInvariant'
  BY FieldsStep
<1>. QED
  BY <1>1, <1>2, PTL DEF QuerySpec

\* Whatever plan a client builds and prepares, its scans of the documents read, once
\* each, the fields that the operators above ask for and get from there.
THEOREM FieldsComeFromOneScan == QuerySpec => []EachFieldFromOneScan
<1>1. FieldsInvariant => EachFieldFromOneScan
  BY FieldsArrive
<1>. QED
  BY <1>1, FieldsInvariantHolds, PTL

\* Whatever plan a client builds and prepares, its code inserts, looks up and hands on
\* only fields that the scan around it has read into its record, or that a join around it
\* has found in a tuple.
THEOREM FieldsAreDelivered == QuerySpec => []FieldsDelivered
<1>1. FieldsInvariant => FieldsDelivered
  BY FieldsFollow
<1>. QED
  BY <1>1, FieldsInvariantHolds, PTL
=============================================================================
