------------------------------ MODULE MCQuery ------------------------------
(***************************************************************************)
(* Instances of Query: three columns, of which a scan is asked for one or  *)
(* two and predicates add more.  A record looks up one key per field of    *)
(* its scan, and the last record one more: it goes back in a repeated      *)
(* group, which the others do not.                                         *)
(***************************************************************************)
EXTENDS Query

ThreeColumns == <<"DocId", "Code", "Url">>
SomeLists ==
    {F \in UNION {[1 .. n -> ToSet(ThreeColumns)] : n \in 1 .. 3} :
        \A i, j \in DOMAIN F : F[i] = F[j] => i = j}
FieldPairs == {<<f, g>> : f, g \in ToSet(ThreeColumns) \cup {"nullptr"}}
SomeLookups(i, F) ==
    [k \in 1 .. Len(F) |-> <<F[k], IF k = Len(F) THEN "nullptr" ELSE F[k + 1]>>]
    \o (IF i = Size - 1 THEN << <<F[Len(F)], F[1]>> >> ELSE <<>>)

SomeColumns == {<<"DocId">>, <<"Code", "Url">>}
SomePredicates == {<<>>, <<"Code", "DocId">>}
SomeJoinPredicates == {<< <<"DocId", "DocId">> >>, << <<"Url", "Code">>, <<"Url", "Url">> >>}
=============================================================================
