----------------------------- MODULE MCMessages -----------------------------
(***************************************************************************)
(* Instance data for the model-checking modules: all messages of a schema  *)
(* up to a number of occurrences per repeated field, with distinct values, *)
(* and the schema of data/schema.proto.  A value is the pair of the tag of *)
(* its record and its address, so no two values of a record are alike.     *)
(***************************************************************************)
EXTENDS Integers, Sequences, FiniteSets, SequencesExt, TLC

\* All ways to put one of the functions of each of the sets of functions
\* together, to a function with a domain of at most limit elements.
RECURSIVE Product(_, _)
Product(sets, limit) ==
    IF sets = <<>> THEN {<<>>}
    ELSE {h \in {f @@ g : f \in Head(sets), g \in Product(Tail(sets), limit)} :
            Cardinality(DOMAIN h) <= limit}

\* What message type t can hold below address a, values tagged with tag.  most[f]:
\* the bound on the occurrences of field f, 1 for one that is not repeated;
\* least[f]: their minimum; limit: the bound on what is there in all.
RECURSIVE Bodies(_, _, _, _, _, _, _, _)
Bodies(groups, arity, least, most, limit, tag, t, a) ==
    LET Instances(f, i, k) ==
            LET b == Append(a, <<i, k>>)
            IN  IF f \in groups
                THEN {(b :> <<>>) @@ g : g \in Bodies(groups, arity, least, most, limit - 1, tag, f, b)}
                ELSE {b :> <<tag, b>>}
        Occurrences(i) ==
            LET f == Append(t, i)
            IN  UNION {Product([k \in 1 .. n |-> Instances(f, i, k)], limit) : n \in least[f] .. most[f]}
    IN  Product([i \in 1 .. arity[t] |-> Occurrences(i)], limit)

\* All messages of a schema within these bounds.
AllMessages(groups, arity, least, most, limit, tag) ==
    {(<<>> :> <<>>) @@ b : b \in Bodies(groups, arity, least, most, limit, tag, <<>>, <<>>)}

ValuesOf(messages) == UNION {{m[a] : a \in DOMAIN m} : m \in messages} \ {<<>>}

-----------------------------------------------------------------------------
\* message Document of data/schema.proto.
DocId == <<1>>
Links == <<2>>
Backward == <<2, 1>>
Forward == <<2, 2>>
Name == <<3>>
Language == <<3, 1>>
Code == <<3, 1, 1>>
Country == <<3, 1, 2>>
Url == <<3, 2>>

DocGroups == {Links, Name, Language}
DocArityTable == (<<>> :> 3) @@ (Links :> 2) @@ (Name :> 2) @@ (Language :> 2)
DocLabelTable ==
    (DocId :> "required") @@ (Links :> "optional") @@ (Backward :> "repeated")
    @@ (Forward :> "repeated") @@ (Name :> "repeated") @@ (Language :> "repeated")
    @@ (Code :> "required") @@ (Country :> "optional") @@ (Url :> "optional")
DocArity == DocArityTable
DocLabel == DocLabelTable
DocFields == <<DocId, Backward, Forward, Code, Country, Url>>
DocLeast == [f \in DOMAIN DocLabel |-> IF DocLabel[f] = "required" THEN 1 ELSE 0]
=============================================================================
