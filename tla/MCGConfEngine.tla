---------------------------- MODULE MCGConfEngine ----------------------------
(***************************************************************************)
(* Instances of GConfEngine for TLC.                                        *)
(***************************************************************************)
EXTENDS GConfEngine

CONSTANTS c1, c2, d0, d1, d2, s1, s2

(* Every program uses the default database only.                             *)
OpensDefault == [c \in Clients |-> {Default}]

(* Two programs use one database each, neither of them the default.            *)
OpensApart == [c \in Clients |-> IF c = c1 THEN {d1} ELSE {d2}]
=============================================================================
