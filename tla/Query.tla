------------------------------- MODULE Query -------------------------------
(***************************************************************************)
(* A query from its making to its output: a client builds a plan of        *)
(* operators and prepares it, or sends an SQL statement                    *)
(* (tools/queryc/query_parse_context.cc); Database::RunQuery               *)
(* (src/database.cc) has the code that the plan emits compiled, loads it   *)
(* and calls it.                                                           *)
(***************************************************************************)
EXTENDS Operators, ParallelScan

CONSTANTS
    Tables,         \* names of tables that clients scan or select from
    KnownTables,    \* those of the schema that the parser was given
    Requested,      \* the lists of columns that clients ask for
    Predicates,     \* the lists of fields that clients select by
    JoinPredicates, \* the lists of pairs of fields that they join by
    MaxScans,       \* bounds: how many scans and how many selections a plan has
    MaxSelections

\* Clients ask for each column once, and all they name are columns.
ASSUME ListsAssumption ==
    /\ Requested \cup Predicates \subseteq Seq(ToSet(Columns))
    /\ JoinPredicates \subseteq Seq(ToSet(Columns) \X ToSet(Columns))
    /\ \A F \in Requested : \A i, j \in 1 .. Len(F) : F[i] = F[j] => i = j

VARIABLES
    plan,        \* the operators made so far
    required,    \* their required_fields_; <<>> until Prepare
    statement,   \* the SQL statement that was sent: a set of at most one
    error        \* the error that was thrown last, "" if none was

planVars == <<plan, required, statement, error>>
queryVars == <<planVars, scanVars>>

InitQuery ==
    /\ plan = <<>> /\ required = <<>>
    /\ statement = {}
    /\ error = ""
    /\ InitScan
-----------------------------------------------------------------------------
Prepared == required # <<>>

Made(op) == Cardinality({n \in 1 .. Len(plan) : plan[n].op = op})

\* An operator is made; its children are moved into it.
Make(o) ==
    /\ ~ Prepared /\ statement = {}
    /\ Made("print") = 0
    /\ ToSet(o.children) \subseteq Loose(plan)
    /\ plan' = Append(plan, o)
    /\ UNCHANGED <<required, statement, error, scanVars>>

\* Clients select and join by fields that the operands provide.  That is a bound on what
\* they do: no constructor looks at its predicates.
Provides(c, f) == f \in ToSet(CollectFields(plan)[c])

MakeScan == Made("scan") < MaxScans /\ \E t \in Tables : Make(ScanOp(t))

MakeSelection ==
    /\ Made("selection") < MaxSelections
    /\ \E c \in Loose(plan), ps \in Predicates :
        (\A f \in ToSet(ps) : Provides(c, f)) /\ Make(SelectionOp(c, ps))

MakeJoin ==
    \E l, r \in Loose(plan), ps \in JoinPredicates :
        /\ l # r
        /\ \A p \in ToSet(ps) : Provides(l, p[1]) /\ Provides(r, p[2])
        /\ Make(JoinOp(l, r, ps))

MakePrint == \E c \in Loose(plan) : Loose(plan) = {c} /\ Make(PrintOp(c))

\* print.Prepare(columns, nullptr)
PreparePlan(columns) ==
    /\ ~ Prepared /\ plan # <<>>
    /\ plan[Len(plan)].op = "print"
    /\ required' = Prepare(plan, columns)
    /\ UNCHANGED <<plan, statement, error, scanVars>>
-----------------------------------------------------------------------------
\* find_iu_by_column: the search through the fields of the scans is commented out.
FindColumn(column) == {}

\* CreateSqlQuery, as far as it comes: the first column is never found.
CreateSqlQuery(select, relations) ==
    IF select = <<>> THEN "no column in the SELECT clause"
    ELSE IF relations = <<>> THEN "no table in the FROM clause"
    ELSE IF \E t \in ToSet(relations) : t \notin KnownTables THEN "Table not found"
    ELSE IF \E c \in ToSet(select) : FindColumn(c) = {} THEN "Column not found"
    ELSE ""

\* An SQL statement is parsed.
Sql(select, relations) ==
    /\ plan = <<>> /\ statement = {}
    /\ statement' = {[select |-> select, from |-> relations]}
    /\ error' = CreateSqlQuery(select, relations)
    /\ UNCHANGED <<plan, required, scanVars>>
-----------------------------------------------------------------------------
\* How many blocks are open before statement k, and the statements around it.
Level(code, k) ==
    Cardinality({j \in 1 .. k - 1 : code[j].what \in {"scan", "if", "probe"}})
    - Cardinality({j \in 1 .. k - 1 : code[j].what = "end"})
Around(code, k) ==
    {j \in 1 .. k - 1 : \A m \in j + 1 .. k : Level(code, m) > Level(code, j)}

\* Whether the C++ compiler takes the code.  A name has to be declared, and a scan
\* declares no variable for a field: "should already be in scope" (inner_join.cc) is not
\* so.  The names that a join emits for its hash table and for fields have dots in
\* them, too; and Database only has a DocumentTable.
Builds(code) ==
    \A k \in DOMAIN code :
        /\ code[k].uses \subseteq UNION {code[j].declares : j \in Around(code, k)}
        /\ code[k].what # "map"
        /\ code[k].what = "scan" => plan[code[k].by].table = "Document"

\* RunQuery: when the code builds, Run() is called and scans the one table.
RunQuery ==
    LET code == Produce(plan, required)
    IN  /\ Prepared /\ Resting /\ ~ crashed
        /\ IF Builds(code)
           THEN /\ \E n \in DOMAIN plan : plan[n].op = "scan" /\ BeginScan(required[n])
                /\ UNCHANGED planVars
           ELSE /\ error = ""
                /\ error' = "Unable to compile query."
                /\ UNCHANGED <<plan, required, statement, scanVars>>

QueryNext ==
    \/ MakeScan \/ MakeSelection \/ MakeJoin \/ MakePrint
    \/ \E columns \in Requested : PreparePlan(columns)
    \/ \E select \in Requested \cup {<<>>}, relations \in {<<>>} \cup {<<t>> : t \in Tables} :
          Sql(select, relations)
    \/ RunQuery
    \/ ScanStep /\ UNCHANGED planVars

\* Some thread of the running query always runs.
QuerySpec == InitQuery /\ [][QueryNext]_queryVars /\ WF_queryVars(ScanStep /\ UNCHANGED planVars)

-----------------------------------------------------------------------------
\* The operators below operator n, and n.
Below(n) ==
    LET below[m \in 1 .. Len(plan)] ==
            {m} \cup UNION {below[c] : c \in ToSet(plan[m].children)}
    IN  below[n]

\* The fields that something above asks for at operator n: the columns at the
\* Print, the predicates of a selection and those of a join at its children.
Demands(n) ==
    (IF n = Len(plan) THEN ToSet(required[n]) ELSE {})
    \cup (IF plan[n].op = "selection" THEN ToSet(plan[n].predicates) ELSE {})
    \cup UNION {UNION {ToSet(SideOf(plan[p].predicates, k)) : k \in {k \in 1 .. 2 : plan[p].children[k] = n}} :
                   p \in {p \in 1 .. Len(plan) : plan[p].op = "join"}}

\* The first of the scans below n that has field f: going down, the left child of
\* every join that can provide it.
Chosen(s, n, f) ==
    /\ s \in Below(n)
    /\ plan[s].op = "scan" /\ Provides(s, f)
    /\ \A j \in Below(n) :
        (plan[j].op = "join" /\ s \in Below(plan[j].children[2])) =>
            ~ Provides(plan[j].children[1], f)

\* What the operators ask for arrives at one scan each: every field that is asked
\* for anywhere in the plan is on the list of the scan that has to provide it, no
\* scan reads a field that nobody wants of it, or reads one twice.
EachFieldFromOneScan ==
    Prepared =>
        \A s \in 1 .. Len(plan) :
            plan[s].op = "scan" /\ plan[s].table = "Document" =>
                /\ ToSet(required[s]) =
                       UNION {{f \in Demands(n) : Chosen(s, n, f)} : n \in 1 .. Len(plan)}
                /\ \A i, j \in 1 .. Len(required[s]) :
                       required[s][i] = required[s][j] => i = j

\* What a join inserts, looks up and hands on has been read where it does so: every
\* field that a statement uses is in the record of the scan around it or in a tuple
\* that a join around it has found.  The emitted code has the values, though under
\* other names: see Builds.
FieldsDelivered ==
    Prepared =>
        LET code == Produce(plan, required)
        IN  \A k \in DOMAIN code :
                code[k].uses \subseteq UNION {AtHand(code[j]) : j \in Around(code, k)}

\* A query uses its hash tables as they have to be: nothing is inserted after
\* finalize() and nothing is looked up before, and finalize() is called once, by
\* no thread of a scan.
HashTablesInOrder ==
    Prepared =>
        LET code == Produce(plan, required)
            At(n, what) == {k \in DOMAIN code : code[k].by = n /\ code[k].what = what}
        IN  \A n \in 1 .. Len(plan) :
                plan[n].op = "join" =>
                    \E f \in DOMAIN code :
                        /\ At(n, "finalize") = {f} /\ Level(code, f) = 0
                        /\ At(n, "insert") # {} /\ \A k \in At(n, "insert") : k < f
                        /\ At(n, "probe") # {} /\ \A k \in At(n, "probe") : f < k

\* A statement about columns and tables that exist is not refused.
StatementsAccepted ==
    \A q \in statement :
        /\ q.select # <<>> /\ ToSet(q.select) \subseteq ToSet(Columns)
        /\ q.from # <<>> /\ ToSet(q.from) \subseteq KnownTables
        => error = ""
=============================================================================
