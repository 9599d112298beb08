--------------------------- MODULE MCGConfXmlCache ---------------------------
(***************************************************************************)
(* Instances of GConfXmlCache for TLC.                                      *)
(***************************************************************************)
EXTENDS GConfXmlCache

(* The root, a directory in it, and one in that.                             *)
Chain == {<<>>, <<"a">>, <<"a", "b">>}
(* The root and a directory in it.                                           *)
Pair == {<<>>, <<"a">>}
=============================================================================
