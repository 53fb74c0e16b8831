---------------------------- MODULE MCHashTable ----------------------------
(***************************************************************************)
(* Instance of HashTable: three keys, two of which share a bucket of any   *)
(* table.                                                                  *)
(***************************************************************************)
EXTENDS HashTable, TLC

CONSTANTS k1, k2, k3

ThreeKeys == {k1, k2, k3}
ThreeHashes == (k1 :> 1) @@ (k2 :> 2) @@ (k3 :> 9)
=============================================================================
