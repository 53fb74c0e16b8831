--------------------------- MODULE SchemaCatalog ---------------------------
(***************************************************************************)
(* The schema compiler's view of a schema file                             *)
(* (tools/schemac/schema_parse_context.cc): the statements of the file run *)
(* one after the other and add tables and indexes to the schema; the first *)
(* one that is wrong ends the program.                                     *)
(***************************************************************************)
EXTENDS Integers, Sequences, FiniteSets, SequencesExt

CONSTANTS
    TableIds,      \* names of tables
    ColumnIds,     \* names of columns
    ColumnLists,   \* the column lists that tables are declared with
    KeyLists,      \* the column lists of keys and indexes
    MaxTables,     \* bound: tables in a file
    MaxIndexes     \* bound: indexes in a file

ASSUME CatalogAssumption ==
    /\ ColumnLists \subseteq Seq(ColumnIds) /\ KeyLists \subseteq Seq(ColumnIds)
    /\ MaxTables \in Nat /\ MaxIndexes \in Nat

VARIABLES
    tables,    \* Schema::tables: [id, columns, primary_key]
    indexes,   \* Schema::indexes: [table_id, columns]
    phase      \* "parsing", then "rejected" or "emitted"

catalogVars == <<tables, indexes, phase>>

InitCatalog == tables = <<>> /\ indexes = <<>> /\ phase = "parsing"

Reject == phase' = "rejected" /\ UNCHANGED <<tables, indexes>>

\* Faulty: the last column of the key decides.
LastKeyFits(key, cols) == key = <<>> \/ Last(key) \in ToSet(cols)

\* Every column of the key is one of the table's.
KeyFits(key, cols) == ToSet(key) \subseteq ToSet(cols)

CreateTable(id, cols, key) ==
    /\ phase = "parsing"
    /\ Len(tables) < MaxTables /\ Len(indexes) < MaxIndexes
    /\ IF KeyFits(key, cols)
       THEN /\ tables' = Append(tables, [id |-> id, columns |-> cols, primary_key |-> key])
            /\ indexes' = IF key = <<>> THEN indexes
                          ELSE Append(indexes, [table_id |-> id, columns |-> key])
            /\ UNCHANGED phase
       ELSE Reject

\* Faulty: only the table is looked up.
NameKnown(id, cols) == \E i \in DOMAIN tables : tables[i].id = id

\* Names are looked up from the front: the first table of that name.
Resolves(id, cols) ==
    \E i \in DOMAIN tables :
        /\ tables[i].id = id
        /\ \A j \in 1 .. i - 1 : tables[j].id # id
        /\ ToSet(cols) \subseteq ToSet(tables[i].columns)

CreateIndex(id, cols) ==
    /\ phase = "parsing"
    /\ Len(indexes) < MaxIndexes
    /\ IF Resolves(id, cols)
       THEN /\ indexes' = Append(indexes, [table_id |-> id, columns |-> cols])
            /\ UNCHANGED <<tables, phase>>
       ELSE Reject

\* The C++ compiler takes the emitted classes: no two of the same name, no two
\* members of the same name, no two local variables for a column of the key.  The
\* header also includes ./algebra/iu.h (schema_compiler.cc), which the repository does
\* not have at this commit: what follows is about the classes with that header there.
Builds ==
    /\ \A i, j \in DOMAIN tables : tables[i].id = tables[j].id => i = j
    /\ \A i \in DOMAIN tables : IsInjective(tables[i].columns) /\ IsInjective(tables[i].primary_key)

\* The classes are emitted; the schema ends with the program.
Compile ==
    /\ phase = "parsing"
    /\ Builds
    /\ phase' = "emitted"
    /\ tables' = <<>> /\ indexes' = <<>>

Statement ==
    \/ \E id \in TableIds, cols \in ColumnLists, key \in KeyLists : CreateTable(id, cols, key)
    \/ \E id \in TableIds, cols \in KeyLists : CreateIndex(id, cols)

-----------------------------------------------------------------------------
\* An index belongs to the table its name finds, and that table has its columns.
\* createTable() adds an index without looking the name up, so a second table of
\* the same name makes an exception: such a schema is accepted but does not build.
IndexesResolve ==
    Builds =>
        \A i \in DOMAIN indexes :
            LET named == {j \in DOMAIN tables : tables[j].id = indexes[i].table_id}
            IN  /\ named # {}
                /\ \A j \in named : ToSet(indexes[i].columns) \subseteq ToSet(tables[j].columns)
=============================================================================
