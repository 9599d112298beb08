---------------------------- MODULE MCGConfClient ----------------------------
(***************************************************************************)
(* Instances of GConfClient for TLC.                                        *)
(***************************************************************************)
EXTENDS GConfClient

CONSTANTS c1, c2, v1, v2

(* Two unrelated directories and a key in each; the second key has a schema  *)
(* whose default is v1.                                                      *)
FlatKeys == {<<"a", "x">>, <<"b", "y">>}
FlatDirs == {<<"a">>, <<"b">>}
FlatDefault == [k \in FlatKeys |-> IF k = <<"b", "y">> THEN v1 ELSE NoValue]

(* One key below three directories that include each other.                  *)
NestedKeys == {<<"a", "b", "x">>}
NestedDirs == {<<>>, <<"a">>, <<"a", "b">>}
NestedDefault == [k \in NestedKeys |-> NoValue]
=============================================================================
