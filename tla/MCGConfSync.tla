---------------------------- MODULE MCGConfSync ----------------------------
(***************************************************************************)
(* Instances of GConfSync for TLC.                                          *)
(***************************************************************************)
EXTENDS GConfSync, TLC

CONSTANTS default, both, mandatory, user, site, siteWritable, v1, v2, S

m == "mandatory"
u == "user"
f == "defaults"
ThreeResources == {m, u, f}

(* The path file of an installation: settings the user cannot change, those of  *)
(* the user, defaults.  Another database writes to the user's and, behind them, *)
(* to the defaults.                                                           *)
PathResource == mandatory :> m @@ user :> u @@ site :> f @@ siteWritable :> f
PathAddresses == default :> <<mandatory, user, site>> @@ both :> <<user, siteWritable>>

key == <<"a", "k">>
schemaKey == <<"s">>
PathKeys == {<<>>, <<"a">>, key, schemaKey}
PathDirs == {<<>>, <<"a">>}
PathWritable == [s \in {mandatory, user, site, siteWritable} |->
                    IF s \in {user, siteWritable} THEN PathKeys ELSE {}]

PathSettings == {<<key, v1>>, <<schemaKey, S>>}
PathCleared == {<<"a">>}
PathNamings == {<<key, schemaKey>>}
PathDefaults == S :> v2

(* Nothing is set but, perhaps, the key in the mandatory source, and a schema of  *)
(* it in the defaults.                                                       *)
Held(atM, atS, name) ==
    [r \in ThreeResources |-> [k \in PathKeys |->
        [value |-> IF r = m /\ k = key THEN atM
                   ELSE IF r = f /\ k = schemaKey THEN atS ELSE None,
         schema |-> IF r = f /\ k = key THEN name ELSE None]]]

(* The mandatory source may name the schema itself, and what it names need not be *)
(* a schema, until it is set.                                                 *)
NamedAbove == [Held(None, v1, None) EXCEPT ![m][key].schema = schemaKey]

PathContents == {Held(None, S, schemaKey), Held(v2, S, schemaKey), NamedAbove}

(* Calls to the user's source fail, and the unsets of the second source that may  *)
(* be written.                                                                *)
SomeBadCalls == {{}, {<<siteWritable, "unset">>}}
    \cup {{<<user, kind>>} : kind \in {"sync", "entries", "set", "unset"}}
=============================================================================
