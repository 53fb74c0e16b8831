------------------------------ MODULE MCTable ------------------------------
(***************************************************************************)
(* Instances of DocumentTable.  A definition that replaces a constant is   *)
(* evaluated at every use, one that it mentions only once; hence the       *)
(* tables.                                                                 *)
(***************************************************************************)
EXTENDS DocumentTable, MCMessages

\* The projections of fields F in the order of F: its nonempty subsequences.
OrderedProjections(F) ==
    {SelectSeq(F, LAMBDA f : f \in S) : S \in SUBSET ToSet(F)} \ {<<>>}

\* Every way to fill Name, up to two of each repeated field; with Links where
\* there is at most one Name.
NameMost == [f \in DOMAIN DocLabel |-> IF f \in {Name, Language} THEN 2 ELSE 1]
NameMessageTable ==
    {m \in AllMessages(DocGroups, DocArity, DocLeast, NameMost, 16, 1) :
        \A a \in DOMAIN m :
            TypeOf(a) = Links => /\ Cardinality({b \in DOMAIN m : IsPrefix(a, b)}) = 3
                                 /\ << <<3, 2>> >> \notin DOMAIN m}
NameValueTable == ValuesOf(NameMessageTable)
DocProjectionTable == OrderedProjections(DocFields)

NameMessages == NameMessageTable
NameValues == NameValueTable
DocProjections == DocProjectionTable

-----------------------------------------------------------------------------
\* Several records: one of each kind of gap, with two tags to tell records apart.
Link(i, k) == {<< <<2, 1>> >>, << <<2, 1>>, <<i, k>> >>}
NameOf(n) == {<< <<3, n>> >>}
UrlOf(n) == NameOf(n) \cup {<< <<3, n>>, <<2, 1>> >>}
LanguageOf(n, k) ==
    NameOf(n) \cup {<< <<3, n>>, <<1, k>> >>, << <<3, n>>, <<1, k>>, <<1, 1>> >>}
CountryOf(n, k) == LanguageOf(n, k) \cup {<< <<3, n>>, <<1, k>>, <<2, 1>> >>}

\* Documents that the assembler can keep apart under the full projection: every
\* Language but the last has a Country, every Name but the last has a Url.
SeparableAddresses ==
    { {},
      Link(1, 1) \cup Link(1, 2) \cup Link(2, 1),
      {<< <<2, 1>> >>} \cup UrlOf(1) \cup NameOf(2),
      Link(2, 1) \cup CountryOf(1, 1) \cup CountryOf(1, 2) \cup UrlOf(1) \cup LanguageOf(2, 1) }
OtherAddresses ==
    { NameOf(1) \cup LanguageOf(2, 1),
      LanguageOf(1, 1) \cup NameOf(2),
      LanguageOf(1, 1) \cup CountryOf(1, 2) \cup CountryOf(2, 1) \cup UrlOf(2) }

DocMost == [f \in DOMAIN DocLabel |-> IF IsRepeated(f) /\ f # Forward THEN 2 ELSE 1]
Documents(shapes) ==
    {m \in UNION {AllMessages(DocGroups, DocArity, DocLeast, DocMost, 16, tag) : tag \in 1 .. 2} :
        DOMAIN m \ {<<>>, << <<1, 1>> >>} \in shapes}

SeparableTable == Documents(SeparableAddresses)
\* Gaps in Links and in Name, with and without what the assembler needs.
GapTable ==
    Documents({{<< <<2, 1>> >>} \cup UrlOf(1) \cup NameOf(2),
               Link(2, 1) \cup CountryOf(1, 1) \cup CountryOf(1, 2) \cup UrlOf(1) \cup LanguageOf(2, 1),
               Link(1, 1) \cup Link(1, 2) \cup Link(2, 1),
               NameOf(1) \cup LanguageOf(2, 1)})
GapMessages == GapTable
MixedTable == Documents(SeparableAddresses \cup OtherAddresses)
ASSUME InstanceAssumption ==
    Cardinality(SeparableTable) = 8 /\ Cardinality(MixedTable) = 14
MixedValueTable == ValuesOf(MixedTable)

MixedMessages == MixedTable
MixedValues == MixedValueTable
SomeProjections ==
    {DocFields, <<Country, Url>>, <<Forward, Code, Url>>}
\* Lists as predicates and joins leave them: not in the order of the schema.
UnsortedProjections == {<<Url, Code>>, <<Country, DocId>>}
RecordProjections == SomeProjections \cup UnsortedProjections
LanguageProjections == {<<Code, Country>>}
FullProjections == {DocFields, <<DocId, Backward, Forward>>}
=============================================================================
