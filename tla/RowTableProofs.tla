--------------------------- MODULE RowTableProofs ---------------------------
(***************************************************************************)
(* Proofs about RowTable: for any tables, values and bounds, and whatever  *)
(* clients do, free slots are found again; size and primary key index are  *)
(* exact until a client breaks the contract in the way named.              *)
(***************************************************************************)
EXTENDS RowTable, TLAPS, FiniteSetTheorems, SequenceTheorems

\* The key of a table consists of some of its columns; so does the key of the
\* emitted class.
KeysFit ==
    /\ \A i \in DOMAIN tables : ToSet(tables[i].primary_key) \subseteq ToSet(tables[i].columns)
    /\ ToSet(Key) \subseteq Columns

\* The vectors and the index.
VectorsOK ==
    /\ \E n \in 0 .. MaxTuples : Slots = 0 .. n - 1
    /\ deleted_tuples \in [Slots -> BOOLEAN]
    /\ tuples \in [Slots -> [Columns -> Data]]
    /\ primary_key \in [DOMAIN primary_key -> Slots]
    /\ first_free_pos \in Nat
    /\ size \in 0 .. SizeMod - 1
    /\ misuse \subseteq {KeyTaken, RemovedAgain, DeletedUpdated}

\* Before the class is emitted nothing is stored, and without a key no index.
NothingStored ==
    /\ phase # "emitted" => Slots = {} /\ DOMAIN primary_key = {}
    /\ Key = <<>> => DOMAIN primary_key = {}

RowInvariant ==
    /\ tables \in Seq([id : TableIds, columns : Seq(ColumnIds), primary_key : Seq(ColumnIds)])
    /\ KeysFit
    /\ VectorsOK
    /\ NothingStored
    /\ FreeSlotsFound
    /\ SizeExact
    /\ EntriesResolve
    /\ EveryTupleFound

-----------------------------------------------------------------------------
\* Below its modulus a size does not wrap around.
LEMMA SmallModulo ==
    ASSUME NEW x \in Nat, NEW y \in Nat, x < y
    PROVE  x % y = x
OBVIOUS

\* The vectors have as many elements as there are slots.
LEMMA CountOfSlots ==
    ASSUME NEW n \in Nat, Slots = 0 .. n - 1
    PROVE  Count = n
BY FS_Interval DEF Count

\* There are not more tuples than slots.
LEMMA LiveFacts ==
    ASSUME VectorsOK
    PROVE  /\ IsFiniteSet(Live) /\ Cardinality(Live) \in Nat
           /\ Cardinality(Live) <= Count /\ Count \in Nat
<1>1. PICK n \in 0 .. MaxTuples : Slots = 0 .. n - 1
  BY DEF VectorsOK
<1>2. IsFiniteSet(Slots) /\ Count = n
  BY <1>1, FS_Interval, CountOfSlots, RowTableAssumption
<1>3. Live \subseteq Slots
  BY DEF Live
<1>. QED
  BY <1>1, <1>2, <1>3, FS_Subset, FS_CardinalityType DEF Count

\* The key of a tuple depends on the columns of the key only.
LEMMA KeyUnchanged ==
    ASSUME NEW row \in [Columns -> Data], NEW c \in Columns, c \notin ToSet(Key), NEW v
    PROVE  KeyOf([row EXCEPT ![c] = v]) = KeyOf(row)
BY DEF KeyOf, ToSet

\* While the class stays, its key does: the two properties of the index after a
\* call.
LEMMA KeysAfterCall ==
    ASSUME UNCHANGED table
    PROVE  /\ Columns' = Columns /\ Key' = Key
           /\ EntriesResolve' <=>
                (DeletedUpdated \notin misuse' =>
                    \A k \in DOMAIN primary_key' :
                        primary_key'[k] \in Live' /\ KeyOf(tuples'[primary_key'[k]]) = k)
           /\ EveryTupleFound' <=>
                ((misuse' = {} /\ Key # <<>>) =>
                    \A t \in Live' : KeyOf(tuples'[t]) \in DOMAIN primary_key'
                                     /\ primary_key'[KeyOf(tuples'[t])] = t)
<1>1. Columns' = Columns /\ Key' = Key
  BY DEF Columns, Key
<1>. QED
  BY <1>1 DEF EntriesResolve, EveryTupleFound, KeyOf

-----------------------------------------------------------------------------
\* insert(): the position is free or new, and the tuple is indexed.
LEMMA InsertKeepsInvariant ==
    ASSUME RowInvariant, NEW row \in [Columns -> Data], InsertTuple(row),
           phase = "emitted", UNCHANGED catalogVars
    PROVE  RowInvariant'
<1>1. PICK n \in 0 .. MaxTuples : Slots = 0 .. n - 1
  BY DEF RowInvariant, VectorsOK
<1>2. n \in Nat /\ Count = n
  BY <1>1, CountOfSlots, RowTableAssumption
<1>3. PICK pos \in first_free_pos .. n :
        /\ FreePosition(pos)
        /\ pos < MaxTuples
        /\ first_free_pos' = pos + 1
        /\ tuples' = Put(tuples, pos, row)
        /\ deleted_tuples' = Put(deleted_tuples, pos, FALSE)
        /\ primary_key' = IF Key = <<>> THEN primary_key ELSE Put(primary_key, KeyOf(row), pos)
        /\ size' = (size + 1) % SizeMod
        /\ misuse' = IF Key # <<>> /\ \E t \in Live : KeyOf(tuples[t]) = KeyOf(row)
                     THEN misuse \cup {KeyTaken} ELSE misuse
        /\ UNCHANGED table
  BY <1>2 DEF InsertTuple
<1>4. pos \in Nat /\ pos \in 0 .. n
  BY <1>1, <1>3 DEF RowInvariant, VectorsOK
<1>5. PICK m \in 0 .. MaxTuples : Slots' = 0 .. m - 1 /\ pos < m /\ n <= m
  <2>1. Slots' = {pos} \cup (0 .. n - 1)
    BY <1>1, <1>3 DEF Slots, Put
  <2>2. CASE pos = n
    <3>1. Slots' = 0 .. (n + 1) - 1
      BY <2>1, <2>2, <1>2
    <3>. QED
      BY <3>1, <2>2, <1>2, <1>3, RowTableAssumption
  <2>3. CASE pos # n
    <3>1. Slots' = 0 .. n - 1
      BY <2>1, <2>3, <1>2, <1>4
    <3>. QED
      BY <3>1, <2>3, <1>2, <1>4, RowTableAssumption
  <2>. QED
    BY <2>2, <2>3
<1>6. Count' = m
  BY <1>5, FS_Interval, RowTableAssumption DEF Count
<1>7. Slots' = Slots \cup {pos}
  BY <1>3 DEF Slots, Put
<1>8. Live' = Live \cup {pos} /\ pos \notin Live
  BY <1>3, <1>7 DEF Live, Slots, Put, FreePosition
<1>9. \A t \in Slots' : tuples'[t] = IF t = pos THEN row ELSE tuples[t]
  BY <1>3, <1>7 DEF Put, RowInvariant, VectorsOK
<1>10. KeysFit' /\ UNCHANGED <<tables, phase>>
  BY <1>3, KeysAfterCall DEF RowInvariant, KeysFit, catalogVars
<1>11. VectorsOK'
  <2>1. deleted_tuples' \in [Slots' -> BOOLEAN]
    BY <1>3, <1>7 DEF Put, RowInvariant, VectorsOK
  <2>2. tuples' \in [Slots' -> [Columns' -> Data]]
    BY <1>3, <1>7, KeysAfterCall DEF Put, RowInvariant, VectorsOK
  <2>3. primary_key' \in [DOMAIN primary_key' -> Slots']
    BY <1>3, <1>7 DEF Put, RowInvariant, VectorsOK
  <2>4. first_free_pos' \in Nat
    BY <1>3, <1>4
  <2>5. size' \in 0 .. SizeMod - 1
    BY <1>3, RowTableAssumption DEF RowInvariant, VectorsOK
  <2>6. misuse' \subseteq {KeyTaken, RemovedAgain, DeletedUpdated}
    BY <1>3 DEF RowInvariant, VectorsOK
  <2>. QED
    BY <1>5, <2>1, <2>2, <2>3, <2>4, <2>5, <2>6 DEF VectorsOK
<1>12. NothingStored'
  BY <1>3, <1>10, KeysAfterCall DEF RowInvariant, NothingStored
<1>13. FreeSlotsFound'
  <2>1. first_free_pos' <= Count'
    BY <1>3, <1>4, <1>5, <1>6
  <2>2. ASSUME NEW t \in Slots', t < pos + 1 PROVE ~ deleted_tuples'[t]
    <3>1. CASE t = pos
      BY <3>1, <1>3, <1>7 DEF Put
    <3>2. CASE t # pos
      <4>1. t \in Slots /\ t \in Nat /\ t < pos
        BY <3>2, <2>2, <1>1, <1>2, <1>4, <1>7
      <4>2. ~ deleted_tuples[t]
        <5>1. CASE t < first_free_pos
          BY <5>1, <4>1 DEF RowInvariant, FreeSlotsFound
        <5>2. CASE ~ (t < first_free_pos)
          <6>1. t \in first_free_pos .. pos - 1
            BY <5>2, <4>1, <1>4 DEF RowInvariant, VectorsOK
          <6>. QED
            BY <6>1, <1>3 DEF FreePosition
        <5>. QED
          BY <5>1, <5>2
      <4>. QED
        BY <4>1, <4>2, <3>2, <1>3, <1>7 DEF Put, Slots
    <3>. QED
      BY <3>1, <3>2
  <2>. QED
    BY <1>3, <2>1, <2>2 DEF FreeSlotsFound
<1>14. SizeExact'
  <2>1. RemovedAgain \notin misuse' => RemovedAgain \notin misuse
    BY <1>3
  <2>2. IsFiniteSet(Live) /\ Cardinality(Live) \in Nat
    BY LiveFacts DEF RowInvariant
  <2>3. Cardinality(Live') = Cardinality(Live) + 1
    BY <1>8, <2>2, FS_AddElement
  <2>4. Cardinality(Live') <= Count'
    <3>1. Live' \subseteq Slots'
      BY DEF Live
    <3>2. IsFiniteSet(Slots')
      BY <1>5, FS_Interval, RowTableAssumption
    <3>. QED
      BY <3>1, <3>2, FS_Subset DEF Count
  <2>5. Cardinality(Live') < SizeMod
    BY <2>2, <2>3, <2>4, <1>5, <1>6, RowTableAssumption
  <2>6. CASE size = Cardinality(Live)
    <3>1. size' = Cardinality(Live) + 1
      BY <2>2, <2>3, <2>5, <2>6, <1>3, SmallModulo, RowTableAssumption
    <3>. QED
      BY <3>1, <2>3 DEF SizeExact
  <2>. QED
    BY <2>1, <2>6 DEF SizeExact, RowInvariant
<1>15. EntriesResolve'
  <2>1. SUFFICES ASSUME DeletedUpdated \notin misuse', NEW k \in DOMAIN primary_key'
                 PROVE  primary_key'[k] \in Live' /\ KeyOf(tuples'[primary_key'[k]]) = k
    BY <1>3, KeysAfterCall
  <2>2. DeletedUpdated \notin misuse
    BY <2>1, <1>3
  <2>3. CASE Key # <<>> /\ k = KeyOf(row)
    <3>1. primary_key'[k] = pos
      BY <2>3, <1>3 DEF Put
    <3>. QED
      BY <3>1, <2>3, <1>7, <1>8, <1>9
  <2>4. CASE ~ (Key # <<>> /\ k = KeyOf(row))
    <3>1. k \in DOMAIN primary_key /\ primary_key'[k] = primary_key[k]
      BY <2>1, <2>4, <1>3 DEF Put
    <3>2. primary_key[k] \in Live /\ KeyOf(tuples[primary_key[k]]) = k
      BY <3>1, <2>2 DEF RowInvariant, EntriesResolve
    <3>3. primary_key[k] \in Slots
      BY <3>2 DEF Live
    <3>. QED
      BY <3>1, <3>2, <3>3, <1>7, <1>8, <1>9
  <2>. QED
    BY <2>3, <2>4
<1>16. EveryTupleFound'
  <2>1. SUFFICES ASSUME misuse' = {}, Key # <<>>, NEW t \in Live'
                 PROVE  KeyOf(tuples'[t]) \in DOMAIN primary_key'
                        /\ primary_key'[KeyOf(tuples'[t])] = t
    BY <1>3, KeysAfterCall
  <2>2. primary_key' = Put(primary_key, KeyOf(row), pos)
    BY <2>1, <1>3
  <2>3. CASE t = pos
    BY <2>2, <2>3, <1>7, <1>9 DEF Put
  <2>4. CASE t # pos
    <3>1. t \in Live /\ t \in Slots /\ tuples'[t] = tuples[t]
      BY <2>4, <1>7, <1>8, <1>9 DEF Live
    <3>2. misuse = {} /\ KeyOf(tuples[t]) # KeyOf(row)
      BY <3>1, <2>1, <1>3
    <3>3. KeyOf(tuples[t]) \in DOMAIN primary_key /\ primary_key[KeyOf(tuples[t])] = t
      BY <3>1, <3>2, <2>1 DEF RowInvariant, EveryTupleFound
    <3>. QED
      BY <3>1, <3>2, <3>3, <2>2 DEF Put
  <2>. QED
    BY <2>3, <2>4
<1>17. tables' \in Seq([id : TableIds, columns : Seq(ColumnIds), primary_key : Seq(ColumnIds)])
  BY <1>10 DEF RowInvariant
<1>. QED
  BY <1>10, <1>11, <1>12, <1>13, <1>14, <1>15, <1>16, <1>17 DEF RowInvariant

\* remove(): the tuple and its index entry go, its slot will be found.
LEMMA RemoveKeepsInvariant ==
    ASSUME RowInvariant, NEW tid \in Slots, RemoveTuple(tid),
           phase = "emitted", UNCHANGED catalogVars
    PROVE  RowInvariant'
<1>. DEFINE key == KeyOf(tuples[tid])
<1>1. PICK n \in 0 .. MaxTuples : Slots = 0 .. n - 1
  BY DEF RowInvariant, VectorsOK
<1>2. n \in Nat /\ tid \in Nat /\ tid < n /\ Count = n
  BY <1>1, CountOfSlots, RowTableAssumption
<1>3. /\ UNCHANGED <<table, tuples, tables, phase>>
      /\ Slots' = Slots /\ Count' = Count
  BY DEF RemoveTuple, Slots, Count, catalogVars
<1>4. deleted_tuples' = [deleted_tuples EXCEPT ![tid] = TRUE]
  BY DEF RemoveTuple
<1>5. Live' = Live \ {tid}
  BY <1>3, <1>4 DEF Live, Slots, RowInvariant, VectorsOK
<1>6. /\ RemovedAgain \notin misuse' => tid \in Live
      /\ misuse \subseteq misuse'
      /\ DeletedUpdated \notin misuse' => DeletedUpdated \notin misuse
  BY DEF RemoveTuple
<1>7. first_free_pos' \in Nat /\ first_free_pos' <= first_free_pos /\ first_free_pos' <= tid
  BY <1>2 DEF RemoveTuple, Lowered, RowInvariant, VectorsOK
<1>8. primary_key' = IF Key = <<>> THEN primary_key ELSE Erased(key)
  BY DEF RemoveTuple
<1>9. KeysFit'
  BY <1>3, KeysAfterCall DEF RowInvariant, KeysFit
<1>10. VectorsOK'
  <2>1. deleted_tuples' \in [Slots' -> BOOLEAN] /\ tuples' \in [Slots' -> [Columns' -> Data]]
    BY <1>3, <1>4, KeysAfterCall DEF RowInvariant, VectorsOK
  <2>2. primary_key' \in [DOMAIN primary_key' -> Slots']
    BY <1>3, <1>8 DEF Erased, Restrict, RowInvariant, VectorsOK
  <2>3. size' \in 0 .. SizeMod - 1
    BY RowTableAssumption DEF RemoveTuple, RowInvariant, VectorsOK
  <2>4. misuse' \subseteq {KeyTaken, RemovedAgain, DeletedUpdated}
    BY DEF RemoveTuple, RowInvariant, VectorsOK
  <2>. QED
    BY <1>1, <1>3, <1>7, <2>1, <2>2, <2>3, <2>4 DEF VectorsOK
<1>11. NothingStored'
  BY <1>3, <1>8, KeysAfterCall DEF RowInvariant, NothingStored
<1>12. FreeSlotsFound'
  <2>1. first_free_pos' <= Count'
    BY <1>2, <1>3, <1>7
  <2>2. ASSUME NEW t \in Slots', t < first_free_pos' PROVE ~ deleted_tuples'[t]
    <3>1. t \in Slots /\ t # tid /\ t < first_free_pos
      BY <2>2, <1>1, <1>2, <1>3, <1>7 DEF RowInvariant, VectorsOK
    <3>. QED
      BY <3>1, <1>4 DEF RowInvariant, FreeSlotsFound, Slots
  <2>. QED
    BY <2>1, <2>2 DEF FreeSlotsFound
<1>13. SizeExact'
  <2>1. SUFFICES ASSUME RemovedAgain \notin misuse' PROVE size' = Cardinality(Live')
    BY DEF SizeExact
  <2>2. tid \in Live /\ size = Cardinality(Live)
    BY <2>1, <1>6 DEF RowInvariant, SizeExact
  <2>3. IsFiniteSet(Live) /\ Cardinality(Live) \in Nat
    BY LiveFacts DEF RowInvariant
  <2>4. Cardinality(Live') = Cardinality(Live) - 1
    BY <2>2, <2>3, <1>5, FS_RemoveElement
  <2>5. Cardinality(Live') \in Nat
    <3>1. IsFiniteSet(Live')
      BY <2>3, <1>5, FS_Subset
    <3>. QED
      BY <3>1, FS_CardinalityType
  <2>6. Cardinality(Live') < SizeMod
    BY <2>2, <2>3, <2>4, <2>5, RowTableAssumption DEF RowInvariant, VectorsOK
  <2>7. size' = (size - 1) % SizeMod
    BY DEF RemoveTuple
  <2>. QED
    BY <2>2, <2>4, <2>5, <2>6, <2>7, SmallModulo, RowTableAssumption
<1>14. EntriesResolve'
  <2>1. SUFFICES ASSUME DeletedUpdated \notin misuse', NEW k \in DOMAIN primary_key'
                 PROVE  primary_key'[k] \in Live' /\ KeyOf(tuples'[primary_key'[k]]) = k
    BY <1>3, KeysAfterCall
  <2>2. Key # <<>>
    BY <2>1, <1>8 DEF RowInvariant, NothingStored
  <2>3. k \in DOMAIN primary_key /\ k # key /\ primary_key'[k] = primary_key[k]
    BY <2>1, <2>2, <1>8 DEF Erased, Restrict
  <2>4. primary_key[k] \in Live /\ KeyOf(tuples[primary_key[k]]) = k
    BY <2>1, <2>3, <1>6 DEF RowInvariant, EntriesResolve
  <2>. QED
    BY <2>3, <2>4, <1>3, <1>5
<1>15. EveryTupleFound'
  <2>1. SUFFICES ASSUME misuse' = {}, Key # <<>>, NEW t \in Live'
                 PROVE  KeyOf(tuples'[t]) \in DOMAIN primary_key'
                        /\ primary_key'[KeyOf(tuples'[t])] = t
    BY <1>3, KeysAfterCall
  <2>2. tid \in Live /\ t \in Live /\ t # tid /\ misuse = {}
    BY <2>1, <1>5, <1>6
  <2>3. /\ KeyOf(tuples[t]) \in DOMAIN primary_key /\ primary_key[KeyOf(tuples[t])] = t
        /\ primary_key[key] = tid
    BY <2>1, <2>2 DEF RowInvariant, EveryTupleFound
  <2>4. KeyOf(tuples[t]) # key
    BY <2>2, <2>3
  <2>. QED
    BY <2>1, <2>3, <2>4, <1>3, <1>8 DEF Erased, Restrict
<1>16. tables' \in Seq([id : TableIds, columns : Seq(ColumnIds), primary_key : Seq(ColumnIds)])
  BY <1>3 DEF RowInvariant
<1>. QED
  BY <1>9, <1>10, <1>11, <1>12, <1>13, <1>14, <1>15, <1>16 DEF RowInvariant

\* update_<column>(): overwriting a column of the key moves the index entry.
LEMMA UpdateKeepsInvariant ==
    ASSUME RowInvariant, NEW tid \in Slots, NEW c \in Columns, NEW v \in Data,
           UpdateColumn(tid, c, v), phase = "emitted", UNCHANGED catalogVars
    PROVE  RowInvariant'
<1>. DEFINE row == [tuples[tid] EXCEPT ![c] = v]
            old == KeyOf(tuples[tid])
<1>1. /\ UNCHANGED <<table, deleted_tuples, first_free_pos, size, tables, phase>>
      /\ Slots' = Slots /\ Count' = Count /\ Live' = Live
  BY DEF UpdateColumn, Slots, Count, Live, catalogVars
<1>2. tuples' = [tuples EXCEPT ![tid] = row] /\ tuples[tid] \in [Columns -> Data]
  BY DEF UpdateColumn, RowInvariant, VectorsOK
<1>3. \A t \in Slots : tuples'[t] = IF t = tid THEN row ELSE tuples[t]
  BY <1>2 DEF RowInvariant, VectorsOK
<1>4. primary_key' = IF PartOfKey(c) THEN Put(Erased(old), KeyOf(row), tid) ELSE primary_key
  BY DEF UpdateColumn
<1>5. /\ misuse \subseteq misuse'
      /\ DeletedUpdated \notin misuse' => tid \in Live
      /\ (misuse' = {} /\ PartOfKey(c)) =>
            \A t \in Live \ {tid} : KeyOf(tuples[t]) # KeyOf(row)
      /\ RemovedAgain \in misuse' => RemovedAgain \in misuse
      /\ misuse' \subseteq {KeyTaken, RemovedAgain, DeletedUpdated}
  BY DEF UpdateColumn, PartOfKey, RowInvariant, VectorsOK, RemovedAgain, KeyTaken, DeletedUpdated
<1>6. ~ PartOfKey(c) => KeyOf(row) = old
  BY <1>2, KeyUnchanged DEF PartOfKey
<1>7. PartOfKey(c) => Key # <<>>
  BY DEF PartOfKey, ToSet
<1>8. KeysFit'
  BY <1>1, KeysAfterCall DEF RowInvariant, KeysFit
<1>9. VectorsOK'
  <2>1. tuples' \in [Slots' -> [Columns' -> Data]]
    BY <1>1, <1>2, KeysAfterCall DEF RowInvariant, VectorsOK
  <2>2. primary_key' \in [DOMAIN primary_key' -> Slots']
    BY <1>1, <1>4 DEF Put, Erased, Restrict, RowInvariant, VectorsOK
  <2>. QED
    BY <1>1, <1>5, <2>1, <2>2 DEF RowInvariant, VectorsOK
<1>10. NothingStored'
  BY <1>1, <1>4, <1>7, KeysAfterCall DEF RowInvariant, NothingStored
<1>11. FreeSlotsFound' /\ SizeExact'
  BY <1>1, <1>5 DEF RowInvariant, FreeSlotsFound, SizeExact
<1>12. EntriesResolve'
  <2>1. SUFFICES ASSUME DeletedUpdated \notin misuse', NEW k \in DOMAIN primary_key'
                 PROVE  primary_key'[k] \in Live' /\ KeyOf(tuples'[primary_key'[k]]) = k
    BY <1>1, KeysAfterCall
  <2>2. DeletedUpdated \notin misuse /\ tid \in Live
    BY <2>1, <1>5
  <2>3. CASE PartOfKey(c) /\ k = KeyOf(row)
    <3>1. primary_key'[k] = tid
      BY <2>3, <1>4 DEF Put
    <3>. QED
      BY <3>1, <2>2, <2>3, <1>1, <1>3
  <2>4. CASE ~ (PartOfKey(c) /\ k = KeyOf(row))
    <3>1. /\ k \in DOMAIN primary_key /\ primary_key'[k] = primary_key[k]
          /\ PartOfKey(c) => k # old
      BY <2>1, <2>4, <1>4 DEF Put, Erased, Restrict
    <3>2. primary_key[k] \in Live /\ KeyOf(tuples[primary_key[k]]) = k
      BY <3>1, <2>2 DEF RowInvariant, EntriesResolve
    <3>3. primary_key[k] \in Slots
      BY <3>2 DEF Live
    <3>4. KeyOf(tuples'[primary_key[k]]) = k
      BY <3>1, <3>2, <3>3, <1>3, <1>6
    <3>. QED
      BY <3>1, <3>2, <3>4, <1>1
  <2>. QED
    BY <2>3, <2>4
<1>13. EveryTupleFound'
  <2>1. SUFFICES ASSUME misuse' = {}, Key # <<>>, NEW t \in Live'
                 PROVE  KeyOf(tuples'[t]) \in DOMAIN primary_key'
                        /\ primary_key'[KeyOf(tuples'[t])] = t
    BY <1>1, KeysAfterCall
  <2>2. misuse = {} /\ tid \in Live /\ t \in Live /\ t \in Slots
    BY <2>1, <1>1, <1>5 DEF Live
  <2>3. /\ KeyOf(tuples[t]) \in DOMAIN primary_key /\ primary_key[KeyOf(tuples[t])] = t
        /\ old \in DOMAIN primary_key /\ primary_key[old] = tid
    BY <2>1, <2>2 DEF RowInvariant, EveryTupleFound
  <2>4. CASE ~ PartOfKey(c)
    BY <2>2, <2>3, <2>4, <1>3, <1>4, <1>6
  <2>5. CASE PartOfKey(c) /\ t = tid
    BY <2>2, <2>5, <1>3, <1>4 DEF Put
  <2>6. CASE PartOfKey(c) /\ t # tid
    <3>1. KeyOf(tuples[t]) # KeyOf(row) /\ KeyOf(tuples[t]) # old
      BY <2>1, <2>2, <2>3, <2>6, <1>5
    <3>2. tuples'[t] = tuples[t]
      BY <2>2, <2>6, <1>3
    <3>. QED
      BY <3>1, <3>2, <2>3, <2>6, <1>4 DEF Put, Erased, Restrict
  <2>. QED
    BY <2>4, <2>5, <2>6
<1>14. tables' \in Seq([id : TableIds, columns : Seq(ColumnIds), primary_key : Seq(ColumnIds)])
  BY <1>1 DEF RowInvariant
<1>. QED
  BY <1>8, <1>9, <1>10, <1>11, <1>12, <1>13, <1>14 DEF RowInvariant

\* A schema file: createTable() checks the key, createIndex() leaves the tables.
LEMMA StatementKeepsInvariant ==
    ASSUME RowInvariant, Statement, UNCHANGED rowVars
    PROVE  RowInvariant'
<1>1. UNCHANGED <<Slots, Count, Live, Columns, Key>>
  BY DEF rowVars, Slots, Count, Live, Columns, Key
<1>2. phase = "parsing" /\ phase' # "emitted"
  BY DEF Statement, CreateTable, CreateIndex, Reject
<1>. DEFINE Declared == [id : TableIds, columns : Seq(ColumnIds), primary_key : Seq(ColumnIds)]
<1>3. tables' \in Seq(Declared) /\ KeysFit'
  <2>1. CASE UNCHANGED tables
    BY <2>1, <1>1 DEF RowInvariant, KeysFit
  <2>2. CASE ~ UNCHANGED tables
    <3>1. PICK id \in TableIds, cols \in ColumnLists, key \in KeyLists :
            KeyFits(key, cols)
            /\ tables' = Append(tables, [id |-> id, columns |-> cols, primary_key |-> key])
      BY <2>2 DEF Statement, CreateTable, CreateIndex, Reject
    <3>. DEFINE t == [id |-> id, columns |-> cols, primary_key |-> key]
    <3>2. t \in Declared
      BY CatalogAssumption
    <3>3. tables' \in Seq(Declared)
      BY <3>1, <3>2 DEF RowInvariant
    <3>4. \A i \in DOMAIN tables' : i \in DOMAIN tables \/ tables'[i] = t
      BY <3>1, <3>2 DEF RowInvariant
    <3>5. \A i \in DOMAIN tables : tables'[i] = tables[i]
      BY <3>1, <3>2 DEF RowInvariant
    <3>6. ToSet(t.primary_key) \subseteq ToSet(t.columns)
      BY <3>1 DEF KeyFits
    <3>7. ASSUME NEW i \in DOMAIN tables'
          PROVE  ToSet(tables'[i].primary_key) \subseteq ToSet(tables'[i].columns)
      <4>. HIDE DEF t
      <4>. QED
        BY <3>4, <3>5, <3>6 DEF RowInvariant, KeysFit
    <3>8. ToSet(Key') \subseteq Columns'
      BY <1>1 DEF RowInvariant, KeysFit
    <3>. QED
      BY <3>3, <3>7, <3>8 DEF KeysFit
  <2>. QED
    BY <2>1, <2>2
<1>4. VectorsOK' /\ FreeSlotsFound' /\ SizeExact'
  BY <1>1 DEF RowInvariant, VectorsOK, FreeSlotsFound, SizeExact, rowVars
<1>5. NothingStored'
  BY <1>1, <1>2 DEF RowInvariant, NothingStored, rowVars
<1>6. EntriesResolve' /\ EveryTupleFound'
  BY <1>1 DEF RowInvariant, EntriesResolve, EveryTupleFound, KeyOf, rowVars
<1>. QED
  BY <1>3, <1>4, <1>5, <1>6 DEF RowInvariant

\* The class is emitted with nothing stored in it.
LEMMA EmitKeepsInvariant ==
    ASSUME RowInvariant, NEW i \in DOMAIN tables, Emit(i)
    PROVE  RowInvariant'
<1>1. /\ Slots' = Slots /\ Count' = Count /\ Live' = Live
      /\ Slots = {} /\ DOMAIN primary_key = {} /\ tables' = <<>>
  BY DEF Emit, Compile, Slots, Count, Live, RowInvariant, NothingStored
<1>2. Key' = tables[i].primary_key /\ Columns' = ToSet(tables[i].columns)
  BY DEF Emit, Key, Columns
<1>3. KeysFit'
  <2>1. ToSet(Key') \subseteq Columns'
    BY <1>2 DEF RowInvariant, KeysFit
  <2>2. DOMAIN tables' = {}
    BY <1>1
  <2>. QED
    BY <2>1, <2>2 DEF KeysFit
<1>4. VectorsOK'
  BY <1>1 DEF Emit, RowInvariant, VectorsOK
<1>5. NothingStored' /\ FreeSlotsFound' /\ SizeExact'
  BY <1>1 DEF Emit, RowInvariant, NothingStored, FreeSlotsFound, SizeExact
<1>6. EntriesResolve' /\ EveryTupleFound'
  BY <1>1 DEF Emit, EntriesResolve, EveryTupleFound, Live
<1>. QED
  BY <1>1, <1>3, <1>4, <1>5, <1>6 DEF RowInvariant

\* Nothing is declared and nothing stored.
LEMMA InitRowInvariant ==
    ASSUME InitCatalog, InitRows
    PROVE  RowInvariant
<1>1. Slots = {} /\ DOMAIN primary_key = {} /\ Live = {} /\ Columns = {} /\ ToSet(Key) = {}
  BY DEF InitRows, Slots, Live, Columns, Key, ToSet, NoTable
<1>2. Count = 0 /\ Cardinality(Live) = 0
  BY <1>1, FS_EmptySet DEF Count
<1>3. Slots = 0 .. 0 - 1 /\ 0 \in 0 .. MaxTuples
  BY <1>1, RowTableAssumption
<1>4. VectorsOK
  BY <1>1, <1>3, RowTableAssumption DEF InitRows, VectorsOK
<1>5. KeysFit /\ NothingStored
  BY <1>1 DEF InitCatalog, KeysFit, NothingStored
<1>6. FreeSlotsFound /\ SizeExact /\ EntriesResolve /\ EveryTupleFound
  BY <1>1, <1>2 DEF InitRows, FreeSlotsFound, SizeExact, EntriesResolve, EveryTupleFound
<1>. QED
  BY <1>4, <1>5, <1>6 DEF RowInvariant, InitCatalog

\* Every step, of the schema compiler or of a client, keeps the invariant.
LEMMA StepKeepsRowInvariant == RowInvariant /\ [RowNext]_allVars => RowInvariant'
<1>. SUFFICES ASSUME RowInvariant, [RowNext]_allVars PROVE RowInvariant'
  OBVIOUS
<1>1. CASE Statement /\ UNCHANGED rowVars
  BY <1>1, StatementKeepsInvariant
<1>2. CASE \E i \in DOMAIN tables : Emit(i)
  BY <1>2, EmitKeepsInvariant
<1>3. CASE phase = "emitted" /\ RowStep /\ UNCHANGED catalogVars
  BY <1>3, InsertKeepsInvariant, RemoveKeepsInvariant, UpdateKeepsInvariant DEF RowStep
<1>4. CASE UNCHANGED allVars
  <2>1. UNCHANGED <<Slots, Count, Live, Columns, Key, tables, phase>>
    BY <1>4 DEF allVars, catalogVars, rowVars, Slots, Count, Live, Columns, Key
  <2>2. KeysFit' /\ VectorsOK' /\ NothingStored' /\ FreeSlotsFound' /\ SizeExact'
    BY <1>4, <2>1 DEF allVars, rowVars, RowInvariant, KeysFit, VectorsOK, NothingStored,
                      FreeSlotsFound, SizeExact
  <2>3. EntriesResolve' /\ EveryTupleFound'
    BY <1>4, <2>1 DEF allVars, rowVars, RowInvariant, EntriesResolve, EveryTupleFound, KeyOf
  <2>. QED
    BY <2>1, <2>2, <2>3 DEF RowInvariant
<1>. QED
  BY <1>1, <1>2, <1>3, <1>4 DEF RowNext

\* The inductive invariant of the emitted class.
THEOREM RowInvariantHolds == RowSpec => []RowInvariant
  BY InitRowInvariant, StepKeepsRowInvariant, PTL DEF RowInit, RowSpec

\* The vectors, index and counters keep their shapes.
THEOREM RowTypes == RowSpec => []RowTypeOK
<1>1. RowInvariant => RowTypeOK
  BY DEF RowInvariant, RowTypeOK, VectorsOK, KeysFit, Range
<1>. QED
  BY <1>1, RowInvariantHolds, PTL

\* However clients use the table, no free slot is below first_free_pos.
THEOREM FreeSlotsAreFound == RowSpec => []FreeSlotsFound
<1>1. RowInvariant => FreeSlotsFound
  BY DEF RowInvariant
<1>. QED
  BY <1>1, RowInvariantHolds, PTL

\* get_size() counts the tuples until a tuple is removed twice.
THEOREM SizeIsExact == RowSpec => []SizeExact
<1>1. RowInvariant => SizeExact
  BY DEF RowInvariant
<1>. QED
  BY <1>1, RowInvariantHolds, PTL

\* Index entries lead to a tuple with their key until a deleted tuple is updated.
THEOREM IndexIsExact == RowSpec => []EntriesResolve
<1>1. RowInvariant => EntriesResolve
  BY DEF RowInvariant
<1>. QED
  BY <1>1, RowInvariantHolds, PTL

\* Every tuple is found by its key until the contract is broken in any way.
THEOREM IndexIsComplete == RowSpec => []EveryTupleFound
<1>1. RowInvariant => EveryTupleFound
  BY DEF RowInvariant
<1>. QED
  BY <1>1, RowInvariantHolds, PTL

\* The vectors grow only when every slot is taken.
THEOREM SlotsAreReused == RowSpec => NoSlotWasted
<1>1. RowInvariant /\ [RowNext]_allVars => [Slots' # Slots => Live = Slots]_allVars
  <2>. SUFFICES ASSUME RowInvariant, RowNext, Slots' # Slots PROVE Live = Slots
    OBVIOUS
  <2>1. PICK row \in [Columns -> Data] : InsertTuple(row)
    <3>1. ~ (Statement /\ UNCHANGED rowVars) /\ ~ (\E i \in DOMAIN tables : Emit(i))
      BY DEF Emit, Slots, rowVars
    <3>2. RowStep
      BY <3>1 DEF RowNext
    <3>3. ASSUME NEW tid \in Slots PROVE ~ RemoveTuple(tid)
      BY DEF RemoveTuple, Slots
    <3>4. ASSUME NEW tid \in Slots, NEW c \in Columns, NEW v \in Data
          PROVE  ~ UpdateColumn(tid, c, v)
      BY DEF UpdateColumn, Slots
    <3>. QED
      BY <3>2, <3>3, <3>4 DEF RowStep
  <2>2. PICK n \in 0 .. MaxTuples : Slots = 0 .. n - 1
    BY DEF RowInvariant, VectorsOK
  <2>3. n \in Nat /\ Count = n
    BY <2>2, CountOfSlots, RowTableAssumption
  <2>4. PICK pos \in first_free_pos .. n :
          FreePosition(pos) /\ deleted_tuples' = Put(deleted_tuples, pos, FALSE)
    BY <2>1, <2>3 DEF InsertTuple
  <2>5. pos \notin Slots /\ pos = n
    <3>1. pos \notin Slots
      BY <2>4 DEF Put, Slots
    <3>. QED
      BY <3>1, <2>2, <2>3, <2>4 DEF RowInvariant, VectorsOK
  <2>6. ASSUME NEW t \in Slots PROVE ~ deleted_tuples[t]
    <3>1. t \in Nat /\ t < n
      BY <2>2, <2>3
    <3>2. CASE t < first_free_pos
      BY <3>2 DEF RowInvariant, FreeSlotsFound
    <3>3. CASE ~ (t < first_free_pos)
      <4>1. t \in first_free_pos .. pos - 1
        BY <3>1, <3>3, <2>3, <2>5 DEF RowInvariant, VectorsOK
      <4>. QED
        BY <4>1, <2>4 DEF FreePosition
    <3>. QED
      BY <3>2, <3>3
  <2>. QED
    BY <2>6 DEF Live
<1>. QED
  BY <1>1, RowInvariantHolds, PTL DEF RowSpec, NoSlotWasted

-----------------------------------------------------------------------------
\* Whichever table of its name comes first, an index was accepted for a table that
\* has its columns.
IndexesHaveTables ==
    /\ tables \in Seq([id : TableIds, columns : Seq(ColumnIds), primary_key : Seq(ColumnIds)])
    /\ indexes \in Seq([table_id : TableIds, columns : Seq(ColumnIds)])
    /\ \A i \in DOMAIN indexes : \E j \in DOMAIN tables :
          /\ tables[j].id = indexes[i].table_id
          /\ ToSet(indexes[i].columns) \subseteq ToSet(tables[j].columns)

\* What appending to a list leaves and adds.
LEMMA AppendFacts ==
    ASSUME NEW S, NEW s \in Seq(S), NEW x \in S, NEW t, t = Append(s, x)
    PROVE  /\ t \in Seq(S)
           /\ \A i \in DOMAIN s : i \in DOMAIN t /\ t[i] = s[i]
           /\ Len(t) \in DOMAIN t /\ t[Len(t)] = x
           /\ \A i \in DOMAIN t : (i \in DOMAIN s /\ t[i] = s[i]) \/ t[i] = x
OBVIOUS

\* createTable() adds the table before its index; createIndex() has found one.
LEMMA StatementKeepsIndexes ==
    ASSUME IndexesHaveTables, Statement
    PROVE  IndexesHaveTables'
<1>. DEFINE Declared == [id : TableIds, columns : Seq(ColumnIds), primary_key : Seq(ColumnIds)]
            Index == [table_id : TableIds, columns : Seq(ColumnIds)]
<1>1. /\ tables \in Seq(Declared) /\ indexes \in Seq(Index)
      /\ \A i \in DOMAIN indexes : \E j \in DOMAIN tables :
            /\ tables[j].id = indexes[i].table_id
            /\ ToSet(indexes[i].columns) \subseteq ToSet(tables[j].columns)
  BY DEF IndexesHaveTables
<1>2. CASE UNCHANGED <<tables, indexes>>
  BY <1>1, <1>2 DEF IndexesHaveTables
<1>3. ASSUME NEW id \in TableIds, NEW cols \in ColumnLists, NEW key \in KeyLists,
             KeyFits(key, cols),
             tables' = Append(tables, [id |-> id, columns |-> cols, primary_key |-> key]),
             indexes' = IF key = <<>> THEN indexes
                        ELSE Append(indexes, [table_id |-> id, columns |-> key])
      PROVE  IndexesHaveTables'
  <2>. DEFINE t == [id |-> id, columns |-> cols, primary_key |-> key]
              x == [table_id |-> id, columns |-> key]
  <2>1. t \in Declared /\ x \in Index
    BY CatalogAssumption
  <2>2. t.id = x.table_id /\ ToSet(x.columns) \subseteq ToSet(t.columns)
    BY <1>3 DEF KeyFits
  <2>3. tables' = Append(tables, t) /\ (indexes' = indexes \/ indexes' = Append(indexes, x))
    BY <1>3
  <2>. HIDE DEF t, x, Declared, Index
  <2>4. /\ tables' \in Seq(Declared) /\ indexes' \in Seq(Index)
        /\ \A j \in DOMAIN tables : j \in DOMAIN tables' /\ tables'[j] = tables[j]
        /\ Len(tables') \in DOMAIN tables' /\ tables'[Len(tables')] = t
        /\ \A i \in DOMAIN indexes' :
              (i \in DOMAIN indexes /\ indexes'[i] = indexes[i]) \/ indexes'[i] = x
    BY <1>1, <2>1, <2>3, AppendFacts
  <2>5. ASSUME NEW i \in DOMAIN indexes'
        PROVE  \E j \in DOMAIN tables' :
                  /\ tables'[j].id = indexes'[i].table_id
                  /\ ToSet(indexes'[i].columns) \subseteq ToSet(tables'[j].columns)
    BY <1>1, <2>2, <2>4
  <2>. QED
    BY <2>4, <2>5 DEF IndexesHaveTables, Declared, Index
<1>4. ASSUME NEW id \in TableIds, NEW cols \in KeyLists,
             Resolves(id, cols), tables' = tables,
             indexes' = Append(indexes, [table_id |-> id, columns |-> cols])
      PROVE  IndexesHaveTables'
  <2>. DEFINE x == [table_id |-> id, columns |-> cols]
  <2>1. x \in Index
    BY CatalogAssumption
  <2>2. \E j \in DOMAIN tables :
            tables[j].id = x.table_id /\ ToSet(x.columns) \subseteq ToSet(tables[j].columns)
    BY <1>4 DEF Resolves
  <2>3. indexes' = Append(indexes, x)
    BY <1>4
  <2>. HIDE DEF x, Index
  <2>4. /\ indexes' \in Seq(Index)
        /\ \A i \in DOMAIN indexes' :
              (i \in DOMAIN indexes /\ indexes'[i] = indexes[i]) \/ indexes'[i] = x
    BY <1>1, <2>1, <2>3
  <2>. QED
    BY <1>1, <1>4, <2>2, <2>4 DEF IndexesHaveTables, Declared, Index
<1>. QED
  BY <1>2, <1>3, <1>4 DEF Statement, CreateTable, CreateIndex, Reject

\* In a schema that builds, the table that the name of an index finds has the
\* columns of the index.
THEOREM IndexesAreResolved == RowSpec => []IndexesResolve
<1>1. RowInit => IndexesHaveTables
  BY DEF RowInit, InitCatalog, IndexesHaveTables
<1>2. IndexesHaveTables /\ [RowNext]_allVars => IndexesHaveTables'
  <2>. SUFFICES ASSUME IndexesHaveTables, [RowNext]_allVars PROVE IndexesHaveTables'
    OBVIOUS
  <2>1. CASE \E i \in DOMAIN tables : Emit(i)
    BY <2>1 DEF Emit, Compile, IndexesHaveTables
  <2>2. CASE UNCHANGED catalogVars
    BY <2>2 DEF catalogVars, IndexesHaveTables
  <2>. QED
    BY <2>1, <2>2, StatementKeepsIndexes DEF RowNext, allVars
<1>3. IndexesHaveTables => IndexesResolve
  <2>. SUFFICES ASSUME IndexesHaveTables, Builds PROVE IndexesResolve
    BY DEF IndexesResolve
  <2>1. \A i, j \in DOMAIN tables : tables[i].id = tables[j].id => i = j
    BY DEF Builds
  <2>. QED
    BY <2>1 DEF IndexesHaveTables, IndexesResolve
<1>. QED
  BY <1>1, <1>2, <1>3, PTL DEF RowSpec

-----------------------------------------------------------------------------
(* The refinement of KeyedRelation. *)

\* What clients see are the live tuples.
LEMMA SeenTuples ==
    ASSUME VectorsOK
    PROVE  /\ DOMAIN Seen = Live
           /\ Seen \in [Live -> [Columns -> Data]]
           /\ \A t \in Live : Seen[t] = tuples[t]
<1>1. ASSUME NEW t \in Live, NEW c \in Columns
      PROVE  (CHOOSE v \in GetColumn(t, c) : TRUE) = tuples[t][c]
  BY DEF Live, GetColumn
<1>2. \A t \in Live : tuples[t] \in [Columns -> Data]
  BY DEF VectorsOK, Live
<1>3. ASSUME NEW t \in Live PROVE Seen[t] = tuples[t]
  BY <1>1, <1>2 DEF Seen
<1>. QED
  BY <1>2, <1>3 DEF Seen

\* The same before and after a call.
LEMMA SeenInStep ==
    ASSUME RowInvariant, RowInvariant'
    PROVE  /\ DOMAIN Seen = Live /\ \A t \in Live : Seen[t] = tuples[t]
           /\ DOMAIN Seen' = Live' /\ \A t \in Live' : Seen'[t] = tuples'[t]
           /\ Seen' = [u \in DOMAIN Seen' |-> Seen'[u]] /\ Seen = [u \in DOMAIN Seen |-> Seen[u]]
<1>1. (VectorsOK => /\ DOMAIN Seen = Live
                    /\ Seen \in [Live -> [Columns -> Data]]
                    /\ \A t \in Live : Seen[t] = tuples[t])'
  BY SeenTuples, PTL
<1>. QED
  BY <1>1, SeenTuples DEF RowInvariant

\* As long as the contract holds, the index is the one of the relation.
LEMMA IndexOfRelation ==
    ASSUME RowInvariant, misuse = {}, Key # <<>>
    PROVE  Relation!Unique(table, Seen) /\ primary_key = Relation!IndexOf(table, Seen)
<1>1. /\ DOMAIN Seen = Live
      /\ \A t \in Live : KeyOfRow(table, Seen[t]) = KeyOf(tuples[t])
  BY SeenTuples DEF RowInvariant, KeyOfRow, KeyOf, Key
<1>2. \A t \in Live : KeyOf(tuples[t]) \in DOMAIN primary_key /\ primary_key[KeyOf(tuples[t])] = t
  BY DEF RowInvariant, EveryTupleFound
<1>3. \A k \in DOMAIN primary_key :
          primary_key[k] \in Live /\ KeyOf(tuples[primary_key[k]]) = k
  BY DEF RowInvariant, EntriesResolve
<1>4. Relation!Unique(table, Seen)
  BY <1>1, <1>2 DEF Relation!Unique
<1>. DEFINE keys == {KeyOfRow(table, Seen[t]) : t \in DOMAIN Seen}
<1>5. DOMAIN primary_key = keys
  <2>1. ASSUME NEW k \in keys PROVE k \in DOMAIN primary_key
    BY <1>1, <1>2
  <2>2. ASSUME NEW k \in DOMAIN primary_key PROVE k \in keys
    BY <1>1, <1>3
  <2>. QED
    BY <2>1, <2>2
<1>6. ASSUME NEW k \in keys
      PROVE  primary_key[k] = CHOOSE t \in DOMAIN Seen : KeyOfRow(table, Seen[t]) = k
  <2>1. primary_key[k] \in DOMAIN Seen /\ KeyOfRow(table, Seen[primary_key[k]]) = k
    BY <1>1, <1>3, <1>5
  <2>2. \A t \in DOMAIN Seen : KeyOfRow(table, Seen[t]) = k => t = primary_key[k]
    BY <1>1, <1>2
  <2>. QED
    BY <2>1, <2>2
<1>7. primary_key = [k \in keys |-> primary_key[k]]
  BY <1>5 DEF RowInvariant, VectorsOK
<1>8. primary_key = Relation!IndexOf(table, Seen)
  BY <1>6, <1>7 DEF Relation!IndexOf
<1>. QED
  BY <1>4, <1>8

\* After a call that breaks the contract only where a key is taken, number and
\* index are those of the relation.
LEMMA CallKeeps ==
    ASSUME RowInvariant', phase = "emitted", UNCHANGED <<phase, table>>,
           misuse' # {} <=> misuse # {} \/ (Key # <<>> /\ ~ Relation!Unique(table, Seen'))
    PROVE  Relation!Kept(table)
<1>1. Key' = Key
  BY DEF Key
<1>2. ASSUME misuse' = {} PROVE size' = Cardinality(DOMAIN Seen')
  BY <1>2 DEF RowInvariant, SizeExact, Seen
<1>3. ASSUME misuse' = {}, Key # <<>> PROVE primary_key' = Relation!IndexOf(table, Seen')
  <2>1. (RowInvariant /\ misuse = {} /\ Key # <<>> => primary_key = Relation!IndexOf(table, Seen))'
    BY IndexOfRelation, PTL
  <2>. QED
    BY <1>1, <1>3, <2>1
<1>4. Relation!Cardinality(DOMAIN Seen') = Cardinality(DOMAIN Seen')
  BY DEF Relation!Cardinality, Cardinality
<1>. QED
  BY <1>2, <1>3, <1>4 DEF Relation!Kept, IsKeyed, Key

\* insert() adds a tuple under an identifier that no tuple has.
LEMMA InsertAdds ==
    ASSUME RowInvariant, RowInvariant', phase = "emitted", UNCHANGED phase,
           NEW row \in [Columns -> Data], InsertTuple(row)
    PROVE  Relation!Add(table)
<1>1. PICK n \in 0 .. MaxTuples : Slots = 0 .. n - 1
  BY DEF RowInvariant, VectorsOK
<1>2. n \in Nat /\ Count = n
  BY <1>1, CountOfSlots, RowTableAssumption
<1>3. PICK pos \in first_free_pos .. n :
        /\ FreePosition(pos) /\ pos < MaxTuples
        /\ tuples' = Put(tuples, pos, row)
        /\ deleted_tuples' = Put(deleted_tuples, pos, FALSE)
        /\ misuse' = IF Key # <<>> /\ \E t \in Live : KeyOf(tuples[t]) = KeyOf(row)
                     THEN misuse \cup {KeyTaken} ELSE misuse
        /\ table' = table
  BY <1>2 DEF InsertTuple
<1>4. pos \in 0 .. MaxTuples - 1
  BY <1>2, <1>3, RowTableAssumption DEF RowInvariant, VectorsOK
<1>5. pos \notin Live
  BY <1>3 DEF FreePosition, Live
<1>6. Live' = Live \cup {pos}
  BY <1>3, <1>5 DEF Live, Slots, Put
<1>7. tuples'[pos] = row /\ \A t \in Live : tuples'[t] = tuples[t]
  <2>1. DOMAIN tuples = Slots
    BY DEF RowInvariant, VectorsOK
  <2>. QED
    BY <1>3, <1>5, <2>1 DEF Live, Put
<1>8. /\ DOMAIN Seen = Live /\ \A t \in Live : Seen[t] = tuples[t]
      /\ DOMAIN Seen' = Live' /\ \A t \in Live' : Seen'[t] = tuples'[t]
      /\ Seen' = [u \in DOMAIN Seen' |-> Seen'[u]] /\ Seen = [u \in DOMAIN Seen |-> Seen[u]]
  BY SeenInStep
<1>9. Seen' = [u \in DOMAIN Seen \cup {pos} |-> IF u = pos THEN row ELSE Seen[u]]
  BY <1>5, <1>6, <1>7, <1>8
<1>10. misuse' # {} <=> misuse # {} \/ (Key # <<>> /\ ~ Relation!Unique(table, Seen'))
  <2>. SUFFICES ASSUME misuse = {}, Key # <<>>
                PROVE  (\E t \in Live : KeyOf(tuples[t]) = KeyOf(row)) <=> ~ Relation!Unique(table, Seen')
    BY <1>3
  <2>1. Relation!Unique(table, Seen)
    BY IndexOfRelation
  <2>2. \A t \in Live : KeyOfRow(table, Seen'[t]) = KeyOf(tuples[t]) /\ KeyOfRow(table, Seen[t]) = KeyOf(tuples[t])
    BY <1>5, <1>6, <1>7, <1>8 DEF KeyOfRow, KeyOf, Key
  <2>3. KeyOfRow(table, Seen'[pos]) = KeyOf(row)
    BY <1>6, <1>7, <1>8 DEF KeyOfRow, KeyOf, Key
  <2>. QED
    BY <1>5, <1>6, <1>8, <2>1, <2>2, <2>3 DEF Relation!Unique
<1>11. Relation!Kept(table)
  BY <1>3, <1>10, CallKeeps
<1>. QED
  BY <1>4, <1>5, <1>8, <1>9, <1>11 DEF Relation!Add, RowsOf, Columns

\* remove() deletes the tuple, or what it removes is not there.
LEMMA RemoveDeletes ==
    ASSUME RowInvariant, RowInvariant', phase = "emitted", UNCHANGED phase,
           NEW tid \in Slots, RemoveTuple(tid)
    PROVE  Relation!Delete(table) \/ Relation!Misuse
<1>1. /\ deleted_tuples' = [deleted_tuples EXCEPT ![tid] = TRUE]
      /\ misuse' = IF tid \in Live THEN misuse ELSE misuse \cup {RemovedAgain}
      /\ table' = table /\ tuples' = tuples
  BY DEF RemoveTuple
<1>2. Live' = Live \ {tid}
  BY <1>1 DEF Live, Slots, RowInvariant, VectorsOK
<1>3. /\ DOMAIN Seen = Live /\ \A t \in Live : Seen[t] = tuples[t]
      /\ DOMAIN Seen' = Live' /\ \A t \in Live' : Seen'[t] = tuples'[t]
      /\ Seen' = [u \in DOMAIN Seen' |-> Seen'[u]] /\ Seen = [u \in DOMAIN Seen |-> Seen[u]]
  BY SeenInStep
<1>4. CASE tid \in Live
  <2>1. Seen' = [u \in DOMAIN Seen \ {tid} |-> Seen[u]]
    BY <1>1, <1>2, <1>3
  <2>2. misuse' # {} <=> misuse # {} \/ (Key # <<>> /\ ~ Relation!Unique(table, Seen'))
    <3>. SUFFICES ASSUME misuse = {}, Key # <<>> PROVE Relation!Unique(table, Seen')
      BY <1>1, <1>4
    <3>. QED
      BY <1>3, <2>1, IndexOfRelation DEF Relation!Unique
  <2>3. Relation!Kept(table)
    BY <1>1, <2>2, CallKeeps
  <2>. QED
    BY <1>3, <1>4, <2>1, <2>3 DEF Relation!Delete
<1>5. CASE tid \notin Live
  <2>1. Seen' = Seen
    BY <1>1, <1>2, <1>3, <1>5
  <2>. QED
    BY <1>1, <1>5, <2>1 DEF Relation!Misuse
<1>. QED
  BY <1>4, <1>5

\* update_<column>() changes one column of its tuple, or the tuple is not there.
LEMMA UpdateChanges ==
    ASSUME RowInvariant, RowInvariant', phase = "emitted", UNCHANGED phase,
           NEW tid \in Slots, NEW c \in Columns, NEW v \in Data, UpdateColumn(tid, c, v)
    PROVE  Relation!Change(table) \/ Relation!Misuse
<1>. DEFINE row == [tuples[tid] EXCEPT ![c] = v]
            clash == \E t \in Live \ {tid} : KeyOf(tuples[t]) = KeyOf(row)
<1>1. /\ tuples' = [tuples EXCEPT ![tid] = row]
      /\ misuse' = misuse \cup (IF tid \in Live THEN {} ELSE {DeletedUpdated})
                          \cup (IF c \in ToSet(Key) /\ clash THEN {KeyTaken} ELSE {})
      /\ table' = table /\ deleted_tuples' = deleted_tuples
  BY DEF UpdateColumn
<1>2. Live' = Live
  BY <1>1 DEF Live, Slots
<1>3. /\ DOMAIN Seen = Live /\ \A t \in Live : Seen[t] = tuples[t]
      /\ DOMAIN Seen' = Live' /\ \A t \in Live' : Seen'[t] = tuples'[t]
      /\ Seen' = [u \in DOMAIN Seen' |-> Seen'[u]] /\ Seen = [u \in DOMAIN Seen |-> Seen[u]]
  BY SeenInStep
<1>4. tuples[tid] \in [Columns -> Data] /\ row \in [Columns -> Data] /\ DOMAIN tuples = Slots
  BY DEF RowInvariant, VectorsOK
<1>5. tuples'[tid] = row /\ \A t \in Slots \ {tid} : tuples'[t] = tuples[t]
  BY <1>1, <1>4
<1>. HIDE DEF row
<1>6. CASE tid \in Live
  <2>1. Seen' = [Seen EXCEPT ![tid][c] = row[c]]
    <3>1. [Seen[tid] EXCEPT ![c] = row[c]] = row
      BY <1>3, <1>4, <1>6 DEF row
    <3>2. Seen' = [Seen EXCEPT ![tid] = row]
      BY <1>2, <1>3, <1>5, <1>6 DEF Live
    <3>. QED
      BY <3>1, <3>2, <1>3, <1>6
  <2>2. misuse' # {} <=> misuse # {} \/ (Key # <<>> /\ ~ Relation!Unique(table, Seen'))
    <3>. SUFFICES ASSUME misuse = {}
                  PROVE  (c \in ToSet(Key) /\ clash) <=> (Key # <<>> /\ ~ Relation!Unique(table, Seen'))
      BY <1>1, <1>6
    <3>1. \A t \in Live \ {tid} : KeyOfRow(table, Seen'[t]) = KeyOf(tuples[t])
      BY <1>2, <1>3, <1>5 DEF KeyOfRow, KeyOf, Key, Live
    <3>2. KeyOfRow(table, Seen'[tid]) = KeyOf(row)
      BY <1>2, <1>3, <1>5, <1>6 DEF KeyOfRow, KeyOf, Key
    <3>3. \A t \in Live : KeyOfRow(table, Seen[t]) = KeyOf(tuples[t])
      BY <1>3 DEF KeyOfRow, KeyOf, Key
    <3>4. c \notin ToSet(Key) => KeyOf(row) = KeyOf(tuples[tid])
      BY <1>4, KeyUnchanged DEF row
    <3>5. c \in ToSet(Key) => Key # <<>>
      BY DEF ToSet
    <3>6. Key # <<>> => Relation!Unique(table, Seen)
      BY IndexOfRelation
    <3>. HIDE DEF clash
    <3>7. Key # <<>> => (clash <=> ~ Relation!Unique(table, Seen'))
      BY <1>2, <1>3, <1>6, <3>1, <3>2, <3>3, <3>6 DEF clash, Relation!Unique
    <3>8. Key # <<>> /\ c \notin ToSet(Key) => ~ clash
      BY <1>3, <1>6, <3>3, <3>4, <3>6 DEF clash, Relation!Unique
    <3>. QED
      BY <3>5, <3>7, <3>8
  <2>3. Relation!Kept(table)
    BY <1>1, <2>2, CallKeeps
  <2>4. c \in DOMAIN Seen[tid]
    BY <1>3, <1>4, <1>6
  <2>. QED
    BY <1>3, <1>4, <1>6, <2>1, <2>3, <2>4 DEF Relation!Change, RowsOf, Columns
<1>7. CASE tid \notin Live
  <2>1. \A t \in Live : tuples'[t] = tuples[t]
    BY <1>5, <1>7 DEF Live
  <2>2. Seen' = Seen
    BY <1>2, <1>3, <2>1
  <2>3. misuse' # {}
    BY <1>1, <1>7
  <2>. QED
    BY <1>1, <2>2, <2>3 DEF Relation!Misuse
<1>. QED
  BY <1>6, <1>7

\* Emitting the class creates the relation, with nothing in it.
LEMMA EmitCreates ==
    ASSUME RowInvariant, NEW i \in DOMAIN tables, Emit(i)
    PROVE  Relation!Create
<1>1. phase = "parsing" /\ phase' = "emitted"
  BY DEF Emit, Compile
<1>2. UNCHANGED <<deleted_tuples, primary_key, size, misuse>> /\ Live = {} /\ Live' = {}
  BY <1>1 DEF Emit, RowInvariant, NothingStored, Live, Slots
<1>3. Seen' = Seen
  BY <1>2 DEF Seen
<1>4. Relation!Cardinality({table'}) = 1
  BY FS_Singleton DEF Relation!Cardinality, Cardinality
<1>. QED
  BY <1>1, <1>2, <1>3, <1>4 DEF Relation!Create

\* To its clients an emitted table class is a keyed relation, whatever they do and
\* for every schema file.
THEOREM TableIsKeyedRelation == RowSpec => RelationSpec
<1>1. RowInit => Relation!RelationInit
  <2>. SUFFICES ASSUME RowInit PROVE Relation!RelationInit
    OBVIOUS
  <2>1. phase = "parsing" /\ Live = {} /\ primary_key = <<>> /\ size = 0 /\ misuse = {}
    BY DEF RowInit, InitCatalog, InitRows, Live, Slots
  <2>2. Seen = <<>>
    BY <2>1 DEF Seen
  <2>. QED
    BY <2>1, <2>2 DEF Relation!RelationInit
<1>2. RowInvariant /\ RowInvariant' /\ [RowNext]_allVars => [Relation!RelationNext]_(Relation!relationVars)
  <2>. SUFFICES ASSUME RowInvariant, RowInvariant', [RowNext]_allVars
                PROVE  [Relation!RelationNext]_(Relation!relationVars)
    OBVIOUS
  <2>1. CASE Statement /\ UNCHANGED rowVars
    <3>1. phase # "emitted" /\ phase' # "emitted"
      BY <2>1 DEF Statement, CreateTable, CreateIndex, Reject
    <3>2. Seen' = Seen
      BY <2>1 DEF rowVars, Seen, Live, Slots, Columns, GetColumn
    <3>. QED
      BY <2>1, <3>1, <3>2 DEF rowVars, Relation!relationVars
  <2>2. CASE \E i \in DOMAIN tables : Emit(i)
    BY <2>2, EmitCreates DEF Relation!RelationNext
  <2>3. CASE phase = "emitted" /\ RowStep /\ UNCHANGED catalogVars
    BY <2>3, InsertAdds, RemoveDeletes, UpdateChanges DEF RowStep, catalogVars, Relation!RelationNext
  <2>4. CASE UNCHANGED allVars
    BY <2>4 DEF allVars, catalogVars, rowVars, Relation!relationVars, Seen, Live, Slots, Columns, GetColumn
  <2>. QED
    BY <2>1, <2>2, <2>3, <2>4 DEF RowNext
<1>. QED
  BY <1>1, <1>2, RowInvariantHolds, PTL DEF RowSpec, RelationSpec, Relation!RelationSpec
=============================================================================
