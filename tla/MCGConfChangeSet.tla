--------------------------- MODULE MCGConfChangeSet ---------------------------
(***************************************************************************)
(* Instances of GConfChangeSet for TLC.                                     *)
(***************************************************************************)
EXTENDS GConfChangeSet, TLC

CONSTANTS k1, k2, v1, v2

(* The first key has a schema with a default.                                  *)
OneDefault == (k1 :> v1) @@ (k2 :> NoValue)
=============================================================================
