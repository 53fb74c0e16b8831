---------------------------- MODULE MCShredding ----------------------------
(***************************************************************************)
(* Instance of Database: the documents of data/schema.proto, each loaded   *)
(* from an array of its own, and two after one another.                    *)
(*                                                                         *)
(* TLC evaluates the definition that replaces a constant at every use, but *)
(* a constant definition that it mentions once; hence the two steps.       *)
(***************************************************************************)
EXTENDS Database, MCMessages

\* Up to two of every repeated field, one Forward link.
DocMost == [f \in DOMAIN DocLabel |-> IF IsRepeated(f) /\ f # Forward THEN 2 ELSE 1]
DocMessageTable == AllMessages(DocGroups, DocArity, DocLeast, DocMost, 16, 1)

\* At most one of every field, any of them missing.
LooseMost == [f \in DOMAIN DocLabel |-> 1]
LooseLeast == [f \in DOMAIN DocLabel |-> 0]
LooseMessageTable == AllMessages(DocGroups, DocArity, LooseLeast, LooseMost, 16, 1)

DocValueTable == ValuesOf(DocMessageTable)
DocMessages == DocMessageTable
DocValues == DocValueTable

\* The JSON text of what message m holds at address a of type t.
RECURSIVE ToJson(_, _, _)
ToJson(m, t, a) ==
    LET Indices == {i \in 1 .. DocArity[t] : FieldSize(m, a, i) > 0}
        Element(b) == IF TypeOf(b) \in DocGroups THEN ToJson(m, TypeOf(b), b) ELSE m[b]
    IN  [i \in Indices |->
            IF DocLabel[Append(t, i)] = "repeated"
            THEN [k \in 1 .. FieldSize(m, a, i) |-> Element(Child(a, i, k))]
            ELSE Element(Child(a, i, 1))]

JsonTable(messages) == {ToJson(m, Root, <<>>) : m \in messages}
LooseJsonTable == JsonTable(LooseMessageTable)
InputTable ==
    {<<json>> : json \in JsonTable(DocMessageTable)}
    \cup {<<j1, j2>> : j1 \in JsonTable({m \in LooseMessageTable : Cardinality(DOMAIN m) = 6}),
                       j2 \in LooseJsonTable}
DocInputs == InputTable
=============================================================================
