------------------------------- MODULE MCDeep -------------------------------
(***************************************************************************)
(* Instances of DocumentTable on a schema that data/schema.proto does not  *)
(* have the like of: three levels of repeated groups, a repeated field     *)
(* between others in a repeated group, an optional group inside.           *)
(*                                                                         *)
(*   repeated group A {                                                    *)
(*     repeated int64 Key;                                                 *)
(*     repeated group B { required int64 X; optional group C { repeated    *)
(*                        int64 Y; optional int64 Z; } }                   *)
(*   }                                                                     *)
(***************************************************************************)
EXTENDS DocumentTable, MCMessages

A == <<1>>
Key == <<1, 1>>
B == <<1, 2>>
X == <<1, 2, 1>>
C == <<1, 2, 2>>
Y == <<1, 2, 2, 1>>
Z == <<1, 2, 2, 2>>

DeepGroups == {A, B, C}
DeepArityTable == (<<>> :> 1) @@ (A :> 2) @@ (B :> 2) @@ (C :> 2)
DeepLabelTable ==
    (A :> "repeated") @@ (Key :> "repeated") @@ (B :> "repeated") @@ (X :> "required")
    @@ (C :> "optional") @@ (Y :> "repeated") @@ (Z :> "optional")
DeepFields == <<Key, X, Y, Z>>
DeepLeast == [f \in DOMAIN DeepLabelTable |-> IF f = X THEN 1 ELSE 0]
DeepMost == [f \in DOMAIN DeepLabelTable |-> IF f \in {A, B, Y} THEN 2 ELSE 1]

\* Up to nine groups and values in a message.
DeepMessageTable == AllMessages(DeepGroups, DeepArityTable, DeepLeast, DeepMost, 9, 1)
DeepValueTable == ValuesOf(DeepMessageTable)
DeepProjectionTable == {SelectSeq(DeepFields, LAMBDA f : f \in S) : S \in SUBSET ToSet(DeepFields)} \ {<<>>}

DeepArity == DeepArityTable
DeepLabel == DeepLabelTable
DeepMessages == DeepMessageTable
DeepValues == DeepValueTable
DeepProjections == DeepProjectionTable
=============================================================================
