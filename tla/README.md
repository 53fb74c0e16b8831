# Verification of imlab-dremel

imlab-dremel is a C++ database with a columnar store for nested records after
the Dremel paper: records given as protocol buffer messages are *shredded* into
one column per leaf field and *assembled* again from any subset of the columns.
Around this core there are a query compiler that generates C++ for scans,
selections and joins, a schema compiler that generates row tables, a hash table,
and SQL value types. This directory holds TLA+ modules that model these parts, TLC
configurations that check them, and TLAPS proofs about them. Paths below are
relative to the root of the repository.

## 1. Inventory

| Component | Where | State | Operations |
|---|---|---|---|
| Schema helper | `include/imlab/dremel/schema_helper.h` | the cache of common ancestors | levels of a field, `GetCommonAncestor` |
| Column storage | `include/imlab/dremel/storage.h` | rows (value, repetition level, definition level) | `insert`, `get`, `size` |
| Shredder, field writers | `shredding.h`, `field_writer.h` in the same directory | none of their own; one activation of `DissectRecordInternal` per nested message | `DissectRecord`, `write`, `write_value` |
| Record automaton | `record_fsm.h` | `_transitions` | construction, `NextField` |
| Assembler, field readers | `assembling.h`, `field_reader.h` | position of each reader, message stack, last and current field | `AssembleNextRecord`, `MoveToLevel`, `ReturnToLevel` |
| Generated table | `tools/protobuf/gen/schema.{h,cc}`, emitted by `tools/protobuf/protoc-gen-schema.py` | columns, the record TIDs per column, the number of records | `insert`, `get_range`, `get` |
| Protocol buffer messages | library; `tools/protobuf/gen/schema.pb.*` | a message tree | reflection: has, size, get, add, set |
| Hash table | `include/imlab/infra/hash_table.h` | one vector of entries per thread, the heads of the collision lists, the next pointer of each entry | concurrent `insert`, `finalize`, `equal_range` |
| Query operators | `src/imlab/algebra/*.cc` | children, consumer, required fields | `CollectFields`, `Prepare`, `Produce`, `Consume`; the code they emit: a parallel scan that prints |
| Query compiler | `tools/queryc/*` | the plan | parse, `CreateSqlQuery`, emit |
| Schema compiler | `tools/schemac/*` | tables and indexes of the schema; of an emitted table: columns, deleted slots, first free position, primary key index, size | create table, create index, emit; `insert`, `remove`, `get_*`, `update_*` of the emitted table |
| Value types | `include/imlab/infra/types.h`, `src/imlab/infra/types.cc` | a number, a string, a day | casts, output, scaling, Julian day, comparison with C strings |
| Database, interpreter | `src/database.cc`, `tools/imlabdb.cc` | the tables | load JSON, compile and run a query |
| Benchmarks, data generator | `bench/`, `data/dremel/` | none | measure, generate |

How they interact. The compiled query calls `get_range` (a full scan) or `get`
from `tbb::parallel_for` (the parallel scan) of a generated table. `insert`
remembers the size of every column, then walks the message recursively and
appends rows through the tree of field writers. `get_range` builds the automaton
for the requested fields, places one reader per column on the remembered TID,
and lets the assembler follow the automaton from column to column, adding
messages and values to the result. Everything rests on the same level
computations of the schema helper.

What is hard about it, and what makes it correct:

* *Shredding.* The levels written for a value depend on the siblings seen so far
  in this activation and all its callers; a missing group must leave one row in
  each column below it. Correct: the rows are those the definition of the levels
  asks for, the remembered TIDs delimit the records in every column, columns agree
  on the number of instances of every shared group.
* *Assembly.* Readers of columns of different lengths must stay in step; the
  message stack is unwound by common ancestors of fields, after a null by that of a
  group. Correct: readers start every record where it starts, no value comes under
  another field or in another record, the result is the record cut down to the
  projection, the loop ends.
* *Automaton.* Several backward edges compete for one level, and the order of the
  loops decides. Correct: it leads through every requested column once per
  instance and to the end once per record.
* *Concurrency.* Tables and assembler have no locks and their clients call them one
  at a time; but the parallel scan calls `get` from several threads, and these share
  the ancestor cache. The hash table is filled concurrently on purpose: each thread
  gathers entries in a vector of its own, and `finalize` lets several threads
  prepend them to the collision lists with compare-and-swap. Correct: no entry is
  lost, the loop ends, a lookup finds every entry of its key; no two writers of the
  cache.
* *Plans.* Operators ask each other for fields and emit nested code. Correct: every
  field is asked of one scan, once; what code uses has been read where it is used; a hash
  table is filled, finalized and probed in that order; the readers stay in step in
  whatever order the fields are asked for.
* *Output.* Several threads print. Correct: lines are whole, each record is printed once,
  the scan ends.
* *Row tables.* Slots are reused and keys indexed; nothing checks the arguments. Correct:
  index, slots and size agree after every sequence of inserts, removes and updates that
  keeps the table's contract, and as much of it as can be once it is broken.
* *Loading.* A document that lacks a required member deep inside ends the process between
  two inserts. Correct: the table holds the documents before it, and in no column can a null be
  taken for a value because its level has wrapped.
* *Numbers.* Unsigned levels below zero, a power of two above zero, ten digits in
  32 bits, the least number, dates at the ends of months and centuries, a 32-bit loop
  counter against 64-bit TIDs.

`PROJECT.json` lists each hazard with its line and the properties that cover it.

## 2. Modules

```
SchemaHelper --- ProtoMessage --- Storage --- Shredding --+-- DocumentTable --> RecordStore
      |                 |                         |   |   |     (refines)
      |                 +------- Striping --------+   |   |
      +--- RecordFSM -------------------- Assembling -|---+
                                                      +-- Database

HashTable --> MultiMap (refines)
SchemaCatalog --- RowTable --> KeyedRelation (refines)
Operators, ParallelScan --- Query --> ParallelScan (implements)
Casts, Strings --- ValueTypes

MCMessages, MCShredding, MCTable, MCDeep, MCHashTable,
MCRows, MCQuery, MCTypes                                 instances for TLC
ShreddingProofs, StripingProofs, DocumentTableProofs,
HashTableProofs, RowTableProofs, QueryProofs,
ValueTypesProofs                                         theorems
Numbers                                                  lemmas on least and greatest numbers
```

* **SchemaHelper.** A `FieldDescriptor` is the path of declaration indices leading
  to it; `nullptr`, which the code uses for the record type, is the empty path. So
  "containing field" is `Front` and "above" is "prefix". The levels and
  `GetCommonAncestor` keep all their cases, among them the odd one: when the second
  field comes first in the schema (or is the same), the ancestor is the field
  *above* the closest repeated field of the common path, so that a new instance of
  it can be begun. Any schema is allowed (`Groups`, `Arity`, `Label`). The cache is
  a memo of a function while only one thread runs, and is left out here.
* **ProtoMessage** (external). A message is a function from the *addresses* that are
  present to values. An address is a sequence of pairs of field and occurrence; a
  pointer to a submessage is its address.
* **Storage.** Columns, record TIDs and size. TIDs count from 0 as in the code;
  behind the end of a column a reader reports a null of level 0. Definition levels
  are `unsigned` (`UIntMod`).
* **Shredding.** `Insert` is `DocumentTable::insert` up to the call of the shredder;
  then every step handles one entry of one activation of `DissectRecordInternal`:
  `WriteNull`, `WriteValue`, `Descend` (the recursive call) and `Return` (the
  outermost one ends `insert`). `callStack` replaces the C++ stack, and the cursor
  `(child, occ)` the list that `DecodeMessage` makes, with its entry for a field
  that is not set. `stored` is history.
* **Striping.** The definition of the rows, without an algorithm: one slot for each
  place where the path to the leaf ends; its repetition level is that of the first
  step in which it differs from the slot before. The place of a slot is the number of
  slots before it. A record without a required field has no rows by this definition: the
  levels do not say how to write one, and the loader never inserts it.
* **RecordFSM.** The automaton as a function. The three kinds of edges are tried in
  the order in which later assignments win over earlier ones: forward, the farthest
  backward, reflexive, none.
* **Assembling.** `GetRange`, `StartRecord`, `ReadField` (one whole iteration of the
  loop of `AssembleNextRecord`: read, `MoveToLevel`, append, `NextField`,
  `ReturnToLevel`) and `ReturnRecords`. An assertion that fails, or a null pointer
  that would be followed, sets `ok` to FALSE and stops the system.
* **DocumentTable.** Both halves over the same columns; one call at a time. It holds
  the properties of reading and the refinement mapping.
* **RecordStore.** The abstract specification: a list of records; `insert`
  appends one, `get_range` hands out a range one record at a time, cut down to the
  fields. `Cut` is a constant operator that DocumentTable fills with `Projected`.
* **Database.** `LoadDocumentTable`: `LoadNext` decodes an element of the JSON array
  (`DecodeJson`) and begins its insert, or ends the process when a required member is
  missing at any depth; the steps of the insert are those of Shredding.
* **HashTable.** `LazyMultiMap`. `Insert` appends to the vector of the calling
  thread. `finalize` is `Finalize` (the size of the table and its assertion), then per
  vector `BeginRange`, and per entry `LoadHead` (the load into `entry->next`) and
  `SwapHead` or `RetrySwap` (the compare-and-swap, which on failure stores the head it
  has met in `entry->next`); workers interleave between these. Which worker of
  `tbb::parallel_for` gets which entry is left open. `EqualRange`, `Visit` and
  `EndLookup` are a lookup and the iteration over what it returns. An `Entry*` is the
  pair of a thread and an index into its vector, which is sound because vectors do
  not grow after `finalize` has begun. `chains` is history: the entries of each
  bucket in the order in which their compare-and-swap has succeeded. The value type
  is left out, the hash function is a constant.
* **MultiMap.** The abstract specification: entries are added, the map is sealed,
  and from then on a lookup hands out every entry of its key once, in any order.
* **SchemaCatalog.** The statements of a schema file with their checks, and the first
  error, which ends the program. `Builds` is what the C++ compiler then refuses: two
  classes or members of one name. At this commit it refuses more than that: the emitted
  header includes `./algebra/iu.h` (`schema_compiler.cc:98`), which the repository does not
  have, and every class lists its `IU`s (line 52). No generated row table builds before that header is
  back; what is modelled is the classes as they are emitted.
* **RowTable.** One class that `Emit` generates. `InsertTuple` is the whole of `insert`
  with its search for a slot, the index entry and the size; `RemoveTuple` and
  `UpdateColumn` likewise, for any TID, deleted or not, since the code does not check.
  The column vectors always have one length and are one vector of tuples. `misuse` is
  history: in which of three ways clients have broken the contract (a key inserted or
  written that is taken, a deleted tuple removed, a deleted tuple updated). Each
  property says which of them it survives. TIDs behind the vectors are left out: there
  the code reads beyond their end.
* **KeyedRelation.** The abstract specification: a relation with identifiers, its size
  and its index, until the contract is broken; the tuples themselves also after that.
* **Operators.** A plan is the list of its operators, children first. `CollectFields`,
  `Prepare` and `Produce` are functions of it; emitted code is a list of statements,
  each with the fields whose names it uses, those it declares variables for, and those it
  reads into `record`. A scan declares none: it reads all its fields into `record`. A probe
  declares the fields of the tuple it has found.
* **ParallelScan.** The code a plan without joins emits, run by threads of
  `tbb::parallel_for`: ranges are cut (`Split`) and taken; for each record the thread
  looks ancestors up, one `find()` and perhaps one `emplace()` each, then locks, prints a
  text and a newline, and unlocks. `find()` and `emplace()` on the shared map have a
  beginning and an end; when two overlap and one is an `emplace()`, that is a data
  race, undefined behaviour, taken here for any of: a key found or not, an insertion
  lost, a crash. `get()` apart from its lookups reads only, and is checked in
  DocumentTable. `Lookups` is a constant: what a record looks up depends on its fields.
* **Query.** Clients make operators and prepare the plan, or send an SQL statement;
  `RunQuery` lets the C++ compiler take the code or refuse it and begins the scan.
  `Builds` says when it refuses: a join emits bare names for the fields of its
  children, and those of a scan are declared nowhere (`inner_join.cc:147` says they should
  be in scope), and the names have dots. That clients select and join only by fields that
  the operands provide (`Provides`) is a bound on clients; no constructor checks it.
  Together with Operators and ParallelScan it is one session.
* **Casts.** Integer and Numeric: `castString`, output, scaling, product, quotient; Date,
  from its text, and Timestamp as Julian days. Output of a Numeric has its branches for a
  precision of 0 and for the least number, which prints two signs. **Strings**: Varchar,
  Char and Char<1>. `CharBuild` copies as many bytes as the type is long, so what lies behind
  a shorter C string is read, too (it has to be readable), and looks for the end afterwards. A cast gives the
  set of its results, empty when it throws. **ValueTypes** is the machine that types,
  casts, prints and goes through the calendar, and holds the reference definitions.

Abstracted: value types (a value is a pair of a tag and its address, so all
values in a record differ and a misplaced one is noticed), the field types that
`WriteField` rejects, Graphviz output, the text the generator prints.

The definitions that start with "Faulty" are the bugs the mutants of
`PROJECT.json` put in; no specification uses them.

## 3. Runs

| Run (cfg) | Instance | Shows |
|---|---|---|
| `shredding_documents` (`MCShredding`) | all documents of `data/schema.proto` with up to 2 of each repeated field (1 `Forward`), loaded from JSON, and pairs of documents any of whose fields may be missing | the table holds what the text says, in its order; the rows follow the definition at every step; their level tells nulls from values, so that none has wrapped |
| `table_shapes` (`MCTableShapes`) | one insert of any filling of `Name` (2 Names, 2 Languages each; `Links` beside at most one Name), 63 projections, every range | assertions, shape of the state, and exactly which documents come back |
| `table_records` (`MCTableRecords`) | 2 inserts out of 8 documents (4 kinds of gaps, 2 tags), 5 projections, two of them not in schema order, every range, reads between the inserts | record boundaries, the inductive invariant of the table (`TableInvariant`), readers in step, the table implements RecordStore with its liveness |
| `deep_schema` (`MCDeep`) | a schema with three levels of repetition, a repeated leaf before a repeated group, an optional group; messages of at most 9 nodes; all 15 projections | the rows, with the inductive invariant of the shredder (`StripingInvariant`), and what comes back, off the one schema of the repository |
| `hash_table` (`MCHashTable`) | 3 threads, 3 entries in any distribution, 3 keys, two of which share every bucket | lists are whole at every step, `finalize` ends, the lists implement MultiMap with its liveness |
| `row_tables` (`MCRows`) | schema files of up to 2 tables and 2 indexes, tables without columns, keys of no, one and two columns; 3 slots, one way of misuse | slots, size and index at every step, the class implements KeyedRelation |
| `query` (`MCQuery`) | plans of up to 3 scans and a selection, joins of one and two predicates; without a join they are run by 2 threads over 3 records, again and again | fields and hash tables of emitted code, and that what it uses has been read; whole lines, each record once, the scan ends, races only while the cache is cold |
| `casts` (`MCTypes`) | every text of 5 out of 8 characters, every number of the scaled width, strings of up to 3 characters, every day of 400 years and of four others, texts of dates among those of 5 characters | casts are exact, just the texts that spell a date are taken for it, what is printed is read back, days are counted |

Bounds of the table's runs. Levels of a new row depend on whether an occurrence is the
first, and on the row before: two occurrences of each repeated field have every such
pair, and a gap before, between and behind. `Forward` has one, `Backward` beside it has
two. Two records let one reader leave a record while another is still in it, and let a
range start behind the first record; a third adds no new pair of neighbours.
`UIntMod` = 16 is far above the deepest level, 4, so the only wrap is the one
below zero that the code has, and `NullsAreTold` notices it: 15 is above the level of every
column. `MaxRecords` bounds the inserts. The limit of
9 nodes in `MCDeep` still allows two A with three B, or two B one of which has two
Y and a Z.

Bounds of the hash table. With three threads
and three entries one entry can meet two faster ones, so a compare-and-swap can fail
twice, and a list can hold an entry of another key before, between and behind the
entries of the key that is looked up; tables have 1, 2 or 4 buckets. The three
entries have to be in one vector for that, since vectors are linked one after
the other. `SizeMod` = 16 is the width of `size_t` scaled down; it is above every
table size, so the only wrap is that of `NextPow2_64(0)`.

Bounds of the row tables. Three slots have a free one before, between and behind used
ones; two values make keys equal and different. `MaxMisuse` = 1 keeps the state space
small; the proofs cover any number. Bounds of the query. Three scans nest a join in
either child of another. Two threads make every pair of overlapping accesses to the
cache; three records are cut into a range of one and one of two. Bounds of the values.
The widths of numbers are scaled: an Integer of 5 bits with 2 digits, a Numeric in
-5120 .. 5119 with 3 digits before and 2 behind the point, so that, as with the real
widths, numbers that are accepted can wrap, and the least number is not a multiple of
the precision. `UIntMod` = 20000 lies above the last year. The days are real: one whole cycle of the
Gregorian calendar, and the first and last year the code accepts.

Deadlock is not checked, because the systems do stop: once `MaxRecords` records
or `MaxEntries` entries are in them, when a process has ended or crashed, or a
statement was rejected.

Fairness. `WF(TableStep)`: a call that has begun runs on its client's
thread and waits for nobody, so its next step is eventually taken. Nothing is
assumed of the clients: no call has to begin. For the hash table,
`WF(LinkStep(t))` for every worker `t` and `WF(CallerStep)` for the thread that
calls `finalize` or walks a list: `tbb` runs the workers of a `parallel_for` until
their ranges are done. One worker alone may fail forever to swap a head that
others keep changing; `finalize` ends because each failure means that another has
succeeded, and there are finitely many entries. `atomic_compare_exchange_weak` may
also fail without a reason; that is a stuttering step, and the fairness says that it
does not go on forever. For the scan, `WF(ScanStep)`: some thread of the running query
always runs, which one is left open; that is enough, since every step brings the
scan nearer to its end and the one lock is released by a thread that can run.

### Which records come back

The code does not give back all records. `RoundTripIffSeparable` says which,
in both directions:

* `Linked(F)`, of a projection: two columns are read together as far as their common
  ancestor, and those that are read together are next to one another in the list; and when
  another instance of a group follows there is an edge back to the first of its columns. For
  lists in schema order this says that the first and the last requested column of each
  repeated group share no repeated group further down. Otherwise the automaton has
  no edge from the last column back to the first when another instance of the group
  begins. All fields of a document are linked; `Code, Country` alone are not. Lists need not
  be in schema order, since predicates and joins ask for others, but then it is not enough to
  look at first and last: a column between them can be the one that has no edge back.
* `Separable(m, F)`, of a record: every instance of a repeated group is closed
  before its sibling is read, by the gap it ends with or the gap the sibling begins
  with. A Language without Country followed by another Language is not.

`Separable` is stated on the slots of the message, not on the assembler's state,
so the run compares two independent descriptions.

### Disagreements between code and text

Runs that TLC must find violated; `PROJECT.json` quotes the text.

| Run (cfg) | What the code does |
|---|---|
| `round_trip` (`MCTableRoundTrip`) | merges two Languages if the first has no Country, two Names if the first has no Url; the round trip test uses data in which both are always set |
| `unlinked_projection` (`MCTableUnlinked`) | for `Code, Country`, a range of two records has a Code of the first in the second |
| `empty_hash_table` (`MCHashTableEmpty`) | `finalize` without entries computes the size 0, because `NextPow2_64` of 0 wraps around twice, and fails its assertion; a join whose left side is empty does this |
| `select_known_column` (`MCQuerySql`) | rejects every SQL statement, since the search for its columns is commented out |

Two more cases are preconditions of the model. `get_range(size, size, F)` passes its
assertion and reads the TIDs behind their end (`EmptyRangeAtEnd` is FALSE in all runs).
`insert()` of a record whose required top-level field is not set writes definition level
-1, which wraps around and is then read as that of a value; `NullsAreTold` is about the other
records, and the loader never inserts such a one (`RequiredFieldsSet`).

## 4. Proofs

Every theorem holds for all values of the constants that satisfy the assumptions
below: for every schema, every set of records, any number of inserts, threads, entries
and tables, and so on.

| Theorem | States |
|---|---|
| `ShreddingTypes` | `ShredSpec => []TypeOK`, the shapes of the state |
| `RecordsAreDelimited` | `ShredSpec => []RecordBoundaries` |
| `StartedColumnsHolds`, `ShreddingInvariantHolds` | `ShredSpec` implies `[]StartedColumns`, `[]ShreddingInvariant` |
| `LevelsAreInRange` | `ShredSpec => []LevelsInRange` |
| `StripingInvariantHolds`, `ColumnsAreAsDefined` | `ShredSpec` implies `[]StripingInvariant`, `[]ColumnsFollowDefinition` |
| `NullsAreAlwaysTold` | `ShredSpec => []NullsAreTold` |
| `TableColumnsAreAsDefined` | `TableSpec => []ColumnsFollowDefinition` |
| `TableKeepsShreddingInvariant`, `TableRecordsAreDelimited` | the invariant and the boundaries under `TableSpec`, reads in between |
| `TableInvariantHolds` | `TableSpec => []TableInvariant`, if `~ EmptyRangeAtEnd` |
| `ReadersStayInStep` | `TableSpec => []ReadersInStep`, if `~ EmptyRangeAtEnd` |
| `TableTypes`, `AssertionsAlwaysHold` | `TableSpec` implies `[]TableTypeOK`, `[]AssertionsHold`, if `~ EmptyRangeAtEnd` |
| `HashInvariantHolds` | `HashSpec => []HashInvariant` |
| `HashTypes`, `NoEntryIsLost` | `HashSpec` implies `[]HashTypeOK`, `[]ListsIntact` |
| `ListsAreAMap` | `HashSpec` implements the initial states and steps of MultiMap (its safety part) |
| `RowInvariantHolds` | `RowSpec => []RowInvariant` |
| `RowTypes`, `FreeSlotsAreFound`, `SizeIsExact` | `RowSpec` implies `[]RowTypeOK`, `[]FreeSlotsFound`, `[]SizeExact` |
| `IndexIsExact`, `IndexIsComplete` | `RowSpec` implies `[]EntriesResolve`, `[]EveryTupleFound` |
| `IndexesAreResolved` | `RowSpec => []IndexesResolve` |
| `SlotsAreReused` | `RowSpec => NoSlotWasted` |
| `TableIsKeyedRelation` | `RowSpec => RelationSpec`: the class implements KeyedRelation |
| `SessionsScan` | `QuerySpec => [][ScanNext]_scanVars /\ []ScanInvariant` |
| `ScanTypes`, `LinesAreWhole`, `RecordsPrintedOnce` | `QuerySpec` implies `[]` of `ScanTypeOK`, `LinesWhole`, `EachRecordOnce` |
| `WarmQueriesDoNotRace` | `QuerySpec => RacesOnlyWhenCold` |
| `PlansAreTrees` | `QuerySpec => []PlanInvariant` |
| `HashTablesAreUsedInOrder` | `QuerySpec => []HashTablesInOrder` |
| `FieldsComeFromOneScan`, `FieldsAreDelivered` | `QuerySpec` implies `[]EachFieldFromOneScan`, `[]FieldsDelivered` |
| `EveryDayIsCounted` | `ValuesSpec => DaysAreCounted` |
| `EveryDayReadsBack`, `EveryStringReadsBack` | `ValuesSpec` implies `[]DatesReadBack`, `[]StringsReadBack` |

Those of the table are for every projection that is a list of columns, in schema order or
not; `ReadersInStep` says something of those that are linked. Those of the hash table are for every hash function and every
width of `size_t`; those of the row tables for every schema file, every bound and any number
of misuses; those of the query for all plans, of any size, and whatever records look up. Those of the
values are for every day of any set of years and for strings of every length over any
character codes.

Assumptions: `SchemaAssumption` (finitely many groups, closed under containment;
each field has a label), `UIntModAssumption` (no path is as long as the unsigned
type is wide, so no level overflows), `MessagesAssumption`, `DefaultAssumption`,
`ProjectionsAssumption`; for the hash table `HashTableAssumption` (finitely many
threads, hashes are numbers); `CatalogAssumption` and `RowTableAssumption` (column lists
are lists of columns, the size does not wrap below the bound on the slots); `ScanAssumption`
(a scan has a field, what records look up are pairs), `ColumnsAssumption` (each column is
listed once) and `ListsAssumption` (clients name columns, and ask for each column once: a
Print or a scan does not look for repetitions); that clients select and join by fields their
operands provide is in the guards of `MakeSelection` and `MakeJoin`, not in the code;
`CastsAssumption` (the unsigned type holds the years up to 9999), `StringsAssumption`
(strings of 2 to 65535 characters: `Char<1>` is a class of its own, and above that the length
is kept in 32 bits) and `ValuesAssumption` (years are numbers, character codes are bytes other
than 0, times lie within a day). TLC evaluates all of them in the runs.

The one hypothesis, `~ EmptyRangeAtEnd`, is the precondition named above: reading
behind the TIDs is undefined, so with it a reader may start anywhere.

### Arguments

*Inserting.* `RecordBoundaries` says that repetition level 0 occurs exactly where
records begin. It is not inductive: whether the next row of a column may have level
0 depends on whether the record has started in it, which the code keeps nowhere but
in the arguments and `seen_fields` of the activations. `StartedColumns` says how:
an activation whose repetition level is above 0 was called for an occurrence
behind the first, and the record has started in all its columns; one of level 0 has
started those of the fields it has seen. To speak of "its" columns the
activations have to be nested as the groups are (`Nested`, with `Consistent` for
the cursor), and `Owns` gives each column to the innermost activation above it.
`OpenRecord` counts the TIDs. The conjunction is `ShreddingInvariant`. The
proof takes it through each action: a null and a
value write the same kind of row (`WriteKeepsInvariant`), `Descend` gives the new
activation the columns of one field, and `Return` needs that an activation at the
end of its list has started all its columns (`ReturnIsComplete`). The lemmas before
are about the paths (`LeafBelow`: a leaf below a group continues with a field of the
group; `LeavesApart`), the levels and the stack.

*What is written.* `ColumnsFollowDefinition` compares the rows with a definition that
knows no order of events: a column has one slot for each place where the path to its leaf
ends, and a slot's place is the number of slots before it. The invariant says where between
the two an insert stands. The activations are on the way to one address of the message
(`OnTheWay`): each is one step further than the one around it, whose cursor is just behind
that step, and its repetition level is that of the last step to a second or later occurrence.
A slot is *ahead* if it leaves the message of some activation at the cursor or behind it
(`IsAhead`), and `RowsOfSlots` says that the rows written are those of the slots that are
not ahead. The proof has three parts. The slots of a column are ordered: two of them differ
first in the occurrence of a repeated field, since neither is above the other, so `Earlier`
is total and each place has one slot. A step that writes takes from the slots ahead exactly
the first of them: it is ahead of the innermost activation that is above the column, and
whatever comes before it lies before that activation's cursor or an outer one's; `Descend`
and `Return` leave the set as it is. And its row is the one the
definition asks for: the slot before is in the occurrence before, of the field where
the path last steps to a second or later occurrence, which is the repetition level
that the activation has handed down (`LastRepeat`).
The definition level of a null is that of its writer less one, and this is the level of the
group that the slot ends at, because the missing field is not required: here the proof needs
that the record has its required fields.

`NullsAreTold` follows from this. A reader tells a null from a value by comparing its
definition level with that of the column, so a level that wraps, or stays too high, makes a
value out of nothing. Each row is that of a slot (`EveryPlace`, `SlotTells`). A slot with a
value has the level of the column. One without ends at a group above the leaf, and the
field that is missing there is not required if the record is initialized, so the path loses
at least one level (`DefinitionGrows`, `Tells`); and no level is below 0, since the group's own
is not. `RowsTell` carries this to the rows that are written, at every step of an insert.

`LevelsInRange` is a second layer: no row has a repetition level above its column's, and no
activation one above its writer's. It is what the automaton relies on: it has a transition
for each level up to that of the column (`NextFieldIsRead`).

*Reading.* The assertions of `MoveToLevel` and `ReturnToLevel` are about the message
stack, and nothing in the code relates the stack to the field that is read next. The
inductive invariant does (`StackOnPath`): the stack holds the messages on the path to the
last read field `lastRead`, one per step, and `lastRead` is *strictly above* the field that is
read next. The reason is in `ReadField`: what remains after `ReturnToLevel` is cut
down to a common ancestor of the field just read and the next, and a common ancestor is
above both of them (`AncestorAbove`). It is never the next field itself, even in the odd case
of the schema helper, which goes one field further up exactly when the fields are the same
or in the wrong order. Hence `MoveToLevel` finds a stack that is on the way to the next
field and has nothing to unwind, except for a null whose definition level leads further up,
and its assertions hold (`MoveHolds`). `AncestorAboveTarget` says the same of `ReturnToLevel`,
which after a null uses the field that the definition level leads to. `PointersExist` and
`MovedStackOnPath` are about the messages that are pushed: each pointer is the address of a
message on the path. The stack is a recursive function, so both are inductions along the
path, done by taking the least step at which the claim would fail.
`RecordPending` says that a field is read only while a record is due, `RecordShape` that
addresses are addresses and finitely many, `OneCall` that no read starts while an insert is
under way. `TableInvariant` is the whole. TLC checks it in
`table_records`. Induction theorems that take a predicate cannot be used here, so
`Numbers` derives the least and greatest number of a set from induction over the naturals once,
and all other proofs use these.

*Readers in step.* Every column has its own number of rows per record, and the reader of a
column moves only when the automaton comes to it. `ReadersInStep` says where each reader
stands while slot `s` of column `i` is read next: of another column `j` it has read the slots
`ReadBefore`, those of the instances of their common groups that come before the one of `s`,
and those of that instance if `j` comes first in the list. Given what the columns hold and
what a record's slots are, the property is inductive; the work is in one step.
`RowsOfRecord` says where a record's rows are, by `StripingInvariant`, and `SlotFollows` what
the automaton is told: the row after the one of `s` has the level of the repeated field
whose next instance begins there (`Follows`), or level 0, that of the next record or the end
of the column, if `s` is the last slot of its column.
Then the edge is looked up, and the set that has been read after `s` (`AfterReading`) has to
be, for every column, the set to be read before the slot the edge leads to. The edge
leads on if that level is not above the barrier (`ForwardReads`: of the next column
nothing has been read in the common instance, so its first slot there comes next), back
or to the field itself if it is (`BackReads`), and to the end only when nothing is left
(`EndReads`); `StartReads` is the first field of a record. `SharedLevel` turns an edge's
level into the instance that two columns have in common (`InstanceAt`), in which sets of slots
are compared. It is in `BackEdge` that the projection has to be linked: the loops of the
constructor overwrite edges, and the one that is left leads to the first column that
is read together with this one at that level only if all columns between are too.
`NextColumn` puts the cases together.

*Hash table.* `ListsIntact` says that the heads and next pointers are, bucket by
bucket, the list that `chains` records. A step of a worker that loads or retries
writes a next pointer, and would break a list if its entry were already in one.
So the invariant adds who has an entry: `LinkedOnce` says that what is linked is in no
worker's hands, in no range and in no vector whose turn comes later, and the last
part of `HashTypeOK` that no two workers have the same entry. `BucketsMade` ties
the table to the phases, so that every position exists; it rests on
`SizeOfTable` and `BucketInTable`. The step that matters is
`SwapHeadKeepsHashInvariant`: the entry points to the head it replaces, hence
appending it to the history is prepending it to the list. For the refinement two more parts
are needed. `EntriesPlaced`: each entry still waits for a worker or is in the list of *its*
bucket, so once all ranges are done the lists hold all entries. `LookupOnItsWay`: a lookup
has a position in the list of its key and has handed out just the entries of the key that
come before; at the end of the list these are all of them.

*Row table.* `RowInvariant` is nearly the conjunction of the properties: the search of
`insert` ends in a slot below which all are used, because none below `first_free_pos`
is free. What has to be added is that the key consists of columns of the table
(`KeysFit`, from `CreateTable`), the exact shape of the vectors (`VectorsOK`), and that
nothing is stored before the class exists (`NothingStored`). Each call has one lemma with
a step per conjunct; the index takes most of them, with a case for the tuple that the
call is about and one for the others. `IndexesResolve` needs that each index in the catalog
was made on a table that existed (`IndexesHaveTables`), and that names are unique when the
schema builds. The refinement has one lemma per call (`InsertAdds`, `RemoveDeletes`,
`UpdateChanges`, `EmitCreates`), each of which names the abstract step; a call that breaks
the contract is a step after which the relation promises nothing of index and number.

*Scan.* `ScanInvariant` has four parts. `ThreadsOK`: ranges and loop variables.
`PrintsInTurn`: the lock's holder is the one thread that prints, and between its text and
its newline the output has an odd length, which is what makes `LinesWhole` inductive.
`MapOnlyRead`: in a warm scan that has not raced the map has every key, hence no thread ever
misses one, hence none stores. `RecordsPlaced`: every record is in one range, with one thread
or in one line; cutting, taking and printing move it, and each step has to show that it leaves
one place and reaches one. `QueryStepScans` shows that all steps of a session are steps of the
scan or leave it alone, so that the properties hold of `QuerySpec`.

*Plans.* `PlanInvariant` is what `Make` keeps by taking only operators that are not moved
into another one: a forest in which children come first and no operator has two parents;
`MakePrint` takes the last loose one, so that a prepared plan is a tree. `Below`, `Consumed`
and `Produce` are recursive functions of the plan. `RecursiveFunction` shows that such a
definition has a solution when the value at an operator only looks at operators of a lower
rank: children for `Below` and `Produce`, the parent for `Consumed`; `BelowIs`, `ConsumedIs`
and `CodeIs` state the three equations. What they imply is then shown from the least or the
highest operator that would break it. `ConsumedInPlace` goes from the Print down: what is
emitted for the tuples of an operator is closed, finalizes nothing, and inserts or looks up
only for joins that have the operator on their left or right side. From the scans up, code is
`Orderly`: closed, so that the level is that of the place it is put at (`LevelInPart`), with
all that is emitted for its tuples, with statements about hash tables of joins below or of those
on whose side it is, and in order for all joins below. A join's own table is in order as the
left child's code has all inserts and the right child's all lookups; those of other joins
because they are below one child only (`BelowApart`, `NotAbout`) and a part in order stays so
in a place outside of loops (`PartInOrder`). In `Operators` the first case of each recursive
function is one that recurs: tlapm 1.4.5 misreads functions where it is not, and the lemmas,
which write the equation out, then fail.

*Fields of a plan.* `FieldsInvariant` (`FieldsInvariantHolds`) adds to `PlanInvariant` that what selections and joins go
by is provided below them (`PredicatesProvided`; what an operator provides does not change
when others are made, `CollectAppend`), and that `required` is what `Prepare` makes of a list that
clients ask for. The lists are made by folds over others. `FoldExists` solves a fold as
`RecursiveFunction` solves a recursion over the plan, by the greatest place of a set, and
`PushAllIs`, `OfChildIs` and `JoinAsksIs` say what each makes: which fields are on it, and that none
is twice. `PrepareIs` then gives what an operator requires by what its parent does
(`RequiredIs`), top down; a join hands each field to one child. `EachFieldFromOneScan` follows
the other way: on the way down to a scan, `Chosen` fails just when a join takes the field from its
left child (`ChosenBelow`), and then it is not asked for on the right (`RequiredBelow`). Taken
together over all operators above, this is `RequiredIfAsked`, at the scan `FieldsArrive`.
For `FieldsDelivered`, code is `Scoped` in a set of fields if it closes its blocks, never closes one
it did not open, and uses only fields of the set or those that are at hand (`AtHand`) in a block
around: read into the scan's `record`, or declared by a probe. A block
turns what it has at hand into such a set for what is in it (`BlockIsScoped`). So
`ConsumedScoped`, from the Print down: what is emitted for the tuples of `n` is scoped in
what `n` requires and provides (`ToDeliver`); what a join needs and does not find in its tuples its right
child requires (`NeededIs`). A scan reads all it requires, so its code is scoped in nothing,
and so is that of all operators (`CodeIsScoped`). This is about values that have been read, not
about C++: the code has them in `record` and names them as if each had a variable (`Builds`).

*Values.* The day number of the code is arithmetic with divisions. `MonthsFollow`
evaluates it at the end of each of the twelve months and carries it into the next year;
`ReadBack` undoes it, by splitting a day into cycles of 400, 100 and 4 years (`SplitYear`)
and bounding each remainder. The only invariant needed is that dates are days
of the calendar (`DaysExist`). For strings it is that they fit (`StringsFit`);
`CharCastIs` shows that what `castString` reads behind the string never
matters as long as something there is no blank, `BlanksAreLost` that the blanks in front do.

### Only model-checked

* `RoundTripIffSeparable` and the refinement of RecordStore. What the columns hold is proved,
  and so is which rows are read in which order and that a read keeps its pointers and
  assertions; what record `MoveToLevel` and `ReturnToLevel` make of the rows is not. For that
  the contents of the record would have to be described at every step, for separable
  records and for those whose groups are merged.
* `LoadedInOrder` and `RequiredFieldsSet` of the loader, whose definitions are `RECURSIVE`
  (as are some of `MCMessages` and `MCShredding`), in modules without theorems.
* `CastsExact`, `NumericExact` and `DateTextsExact`: folds over digits, formatted and read back.
  `FoldExists` would solve the folds; the arithmetic of the powers of ten between is missing.
* All liveness: `FinalizeTerminates`, `ScanEnds`, and the fairness of
  `StoreSpec` and `MapSpec`.

## 5. Plan

Done: shredding with its definition and proofs; automaton, assembler, table and RecordStore,
with proofs that reading keeps its pointers, its assertions and its readers in step;
loading; the hash table and its refinement of MultiMap, proved; the schema compiler and its
row tables with their refinement of KeyedRelation, proved; plans, the parallel scan and their
session with proofs that its output is whole, that its code uses hash tables in order and
that each field is read by one scan and used only behind that; casts,
strings and dates, the last two proved. Next, in this order:

1. The steps `Insert .. Return` implement `RecordStore`'s insert, with reads in between; the
   steps of reading then leave only the contents of the records open.
2. The contents of a record that is assembled: by `ReadersInStep` slot after slot is read;
   what is in the record is the part of the stored one up to there, if it is separable.
3. `CastsExact`, `NumericExact` and `DateTextsExact` for texts of any length.

## 6. Not modelled

* Text: the grammars and scanners of both compilers, the wording and layout of emitted C++,
  the Graphviz output, and how `protoc-gen-schema.py` prints a table class. That generator's
  result is modelled for any schema. It names writers by joining field names with
  underscores and splits them again at the last one, which goes wrong for groups whose fields
  have underscores themselves; the one schema of the repository has none.
* Benchmarks, the random data they use, the generated protocol buffer code, and the field
  types that `WriteField` rejects.
* Code that cannot be reached: `CreateSqlQuery` behind its first column (line 112 of
  `query_parse_context.cc`), and the text of a time stamp in `types.cc`, behind the first
  return of `Timestamp::castString`.
* Code that cannot be compiled: a query with a join, which names fields that nothing
  declares, by names with dots in them (its code is checked as it is emitted, never run; above a
  join, Print would print the `record` of the scan around it, without what the tuples hold);
  the row tables generated from a schema file, as long as `./algebra/iu.h` is missing; `<` and
  `>` of Varchar and Char, which call a `min` that is not declared.
* Indexes made by `CREATE INDEX`, and the index type: they are kept in the schema and never
  emitted.
* The condition of a selection: the code emits `if (true)`, so a selection filters nothing.
* Operations of value types that are one operation of the machine: comparisons, sums, hashes.
* The compiler and the dynamic linker behind `RunQuery`, beyond whether the code builds.
  `dlclose` need not unload the library of the query before, and then an old query runs
  again: the linker's behaviour, not this code's.
* The interpreter's own `data/schema.sql` has no table `Document`, so that all of its queries
  are rejected for their table already; the model lets clients name tables with and without
  a class.
* Copying a `DocumentTable`: the writers of the copy lead to the columns of the original.
  Nothing in the repository copies one after records are in it.
