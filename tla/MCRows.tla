------------------------------- MODULE MCRows -------------------------------
(***************************************************************************)
(* Instances of RowTable: tables with no columns, with no key, with a key  *)
(* of one column and of two, key lists that do not fit, and columns        *)
(* declared twice.                                                         *)
(***************************************************************************)
EXTENDS RowTable

CONSTANTS Item, Stock, a, b

SomeColumns == {<<>>, <<a>>, <<a, b>>, <<b, b>>}
SomeKeys == {<<>>, <<a>>, <<b, a>>}
=============================================================================
