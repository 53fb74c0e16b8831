----------------------------- MODULE Operators -----------------------------
(***************************************************************************)
(* The operators of a query and what they ask of each other (src/imlab/    *)
(* algebra): CollectFields, Prepare and the code that Produce and Consume  *)
(* emit.                                                                   *)
(*                                                                         *)
(* A plan is the list of its operators, each after its children; the last  *)
(* one is the Print.  An operator refers to its children by their places.  *)
(* Emitted code is the list of its statements; a loop or an "if" ends with *)
(* End.                                                                    *)
(***************************************************************************)
EXTENDS Integers, Sequences, FiniteSets, SequencesExt

CONSTANT Columns   \* DocumentTable::fields()

ASSUME ColumnsAssumption ==
    /\ IsFiniteSet(ToSet(Columns))
    /\ Columns \in Seq(ToSet(Columns))
    /\ \A i, j \in 1 .. Len(Columns) : Columns[i] = Columns[j] => i = j

ScanOp(t) == [op |-> "scan", table |-> t, children |-> <<>>, predicates |-> <<>>]
SelectionOp(c, ps) == [op |-> "selection", table |-> "", children |-> <<c>>, predicates |-> ps]
JoinOp(l, r, ps) == [op |-> "join", table |-> "", children |-> <<l, r>>, predicates |-> ps]
PrintOp(c) == [op |-> "print", table |-> "", children |-> <<c>>, predicates |-> <<>>]

\* The operators that are not moved into another one.
Loose(plan) ==
    1 .. Len(plan) \ UNION {ToSet(plan[n].children) : n \in 1 .. Len(plan)}

Parent(plan, n) == CHOOSE p \in 1 .. Len(plan) : n \in ToSet(plan[p].children)

\* Only the table Document has fields.
FieldsOf(table) == IF table = "Document" THEN Columns ELSE <<>>

\* The fields each operator can provide.
CollectFields(plan) ==
    LET provided[n \in 1 .. Len(plan)] ==
            LET o == plan[n]
            IN  CASE o.op = "selection" -> provided[o.children[1]]
                  [] o.op = "scan" -> FieldsOf(o.table)
                  [] o.op = "join" -> provided[o.children[1]] \o provided[o.children[2]]
                  [] o.op = "print" -> <<>>
    IN  provided
-----------------------------------------------------------------------------
\* std::find, then push_back when it is not there.
PushNew(list, f) == IF f \in ToSet(list) THEN list ELSE Append(list, f)

PushAllNew(list, fs) == FoldLeft(PushNew, list, fs)

\* The fields on one side of the predicates of a join.
SideOf(predicates, k) == [i \in 1 .. Len(predicates) |-> predicates[i][k]]

\* Faulty: the right child is asked for all it can provide.
OfEitherChild(required, left, right, k) ==
    LET sort(list, f) == IF f \in ToSet(IF k = 1 THEN left ELSE right) THEN Append(list, f) ELSE list
    IN  FoldLeft(sort, <<>>, required)

\* Of the fields a join is asked for, those it asks its k-th child for: the left
\* child if that can provide them, else the right one; a field of neither is
\* reported and forgotten.
OfChild(required, left, right, k) ==
    LET sort(list, f) == IF f \in (IF k = 1 THEN ToSet(left) ELSE ToSet(right) \ ToSet(left))
                         THEN Append(list, f) ELSE list
    IN  FoldLeft(sort, <<>>, required)

\* required_fields_ of an operator that is asked for a list of fields.
ScanRequires(asked) == asked
PrintRequires(asked) == asked

\* A selection adds its predicates' fields to its own list, which it hands on.
SelectionRequires(asked, predicates) == PushAllNew(asked, predicates)

\* A join asks its k-th child for its own predicates' fields first.
JoinAsks(predicates, required, left, right, k) ==
    PushAllNew(PushAllNew(<<>>, SideOf(predicates, k)), OfChild(required, left, right, k))

\* required_fields_ of every operator after Prepare of the last one.
Prepare(plan, columns) ==
    LET provided == CollectFields(plan)
        required[n \in 1 .. Len(plan)] ==
            LET p == Parent(plan, n)
                o == plan[p]
                k == IF o.children[1] = n THEN 1 ELSE 2
                asked == IF n = Len(plan) THEN columns
                         ELSE IF o.op # "join" THEN required[p]
                         ELSE JoinAsks(o.predicates, required[p], provided[o.children[1]],
                                       provided[o.children[2]], k)
            IN  CASE plan[n].op = "scan" -> ScanRequires(asked)
                  [] plan[n].op = "selection" -> SelectionRequires(asked, plan[n].predicates)
                  [] plan[n].op = "join" -> asked
                  [] plan[n].op = "print" -> PrintRequires(asked)
    IN  [n \in 1 .. Len(plan) |-> required[n]]
-----------------------------------------------------------------------------
\* A statement: what it does, the operator that emits it, the fields whose names it
\* uses, those it declares variables for, and those it reads into the variable record.
Stmt(what, n, uses, declares, reads) ==
    [what |-> what, by |-> n, uses |-> uses, declares |-> declares, reads |-> reads]
End(n) == <<Stmt("end", n, {}, {}, {})>>

\* The fields whose values are at hand in the block that a statement opens.
AtHand(s) == s.declares \cup s.reads

\* Faulty: a join's tuples hold its key only.
KeysOnly(plan, required, n) == ToSet(SideOf(plan[n].predicates, 1))

\* The fields of the tuples in the hash table of join n: of those it is asked
\* for, the ones its left child provides.
TupleFields(plan, required, n) ==
    ToSet(required[n]) \cap ToSet(CollectFields(plan)[plan[n].children[1]])

\* What Consume of operator p emits around what is emitted above it.  The
\* predicates of a selection are commented out.
SelectionConsumes(p, above) == <<Stmt("if", p, {}, {}, {})>> \o above \o End(p)

PrintConsumes(p) ==
    <<Stmt("lock", p, {}, {}, {}), Stmt("print", p, {}, {}, {}), Stmt("unlock", p, {}, {}, {})>>

JoinConsumesLeft(p, predicates, fields) ==
    <<Stmt("insert", p, ToSet(SideOf(predicates, 1)) \cup fields, {}, {})>>

\* A tuple that is found is taken apart into a variable for each of its fields.
JoinConsumesRight(p, predicates, fields, above) ==
    <<Stmt("probe", p, ToSet(SideOf(predicates, 2)), fields, {})>> \o above \o End(p)

\* What the parents of operator n emit for each of its tuples: Consume, called
\* by n.
Consumed(plan, required) ==
    LET emitted[n \in 1 .. Len(plan)] ==
            LET p == Parent(plan, n)
                o == plan[p]
            IN  IF n = Len(plan) THEN <<>>
                ELSE CASE o.op = "selection" -> SelectionConsumes(p, emitted[p])
                       [] o.op = "print" -> PrintConsumes(p)
                       [] o.op = "join" /\ n = o.children[1] ->
                            JoinConsumesLeft(p, o.predicates, TupleFields(plan, required, p))
                       [] o.op = "join" /\ n # o.children[1] ->
                            JoinConsumesRight(p, o.predicates, TupleFields(plan, required, p), emitted[p])
    IN  emitted

\* Faulty: the hash table is finalized when both sides are read.
FinalizedLast(n, left, right) ==
    <<Stmt("map", n, {}, {}, {})>> \o left \o right \o <<Stmt("finalize", n, {}, {}, {})>>

\* Around the code of the children of join n.
JoinCode(n, left, right) ==
    <<Stmt("map", n, {}, {}, {})>> \o left \o <<Stmt("finalize", n, {}, {}, {})>> \o right

\* The loops over the table's ranges and their records.  The fields are read into the
\* one variable that is declared, record; none has a variable of its own name.
ScanCode(n, fields, consumed) == <<Stmt("scan", n, {}, {}, ToSet(fields))>> \o consumed \o End(n)

PrintCode(n, child) == <<Stmt("mutex", n, {}, {}, {})>> \o child

\* The body of Run(): Produce of every operator, as the last one emits it.
Produce(plan, required) ==
    LET code[n \in 1 .. Len(plan)] ==
            LET o == plan[n]
            IN  CASE o.op = "selection" -> code[o.children[1]]
                  [] o.op = "scan" -> ScanCode(n, required[n], Consumed(plan, required)[n])
                  [] o.op = "join" -> JoinCode(n, code[o.children[1]], code[o.children[2]])
                  [] o.op = "print" -> PrintCode(n, code[o.children[1]])
    IN  code[Len(plan)]
=============================================================================
