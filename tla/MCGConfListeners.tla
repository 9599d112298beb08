-------------------------- MODULE MCGConfListeners --------------------------
(***************************************************************************)
(* Instances of GConfListeners for TLC.                                     *)
(***************************************************************************)
EXTENDS GConfListeners

(* The root, a directory and a key in it.                                    *)
FewPlaces == {<<>>, <<"a">>, <<"a", "k">>}
=============================================================================
