-------------------------- MODULE MCGConfMarkupTree --------------------------
(***************************************************************************)
(* Instances of GConfMarkupTree for TLC.                                    *)
(***************************************************************************)
EXTENDS GConfMarkupTree

(* The root, a directory in it, and one in that.                             *)
Chain == {<<>>, <<"a">>, <<"a", "b">>}
=============================================================================
