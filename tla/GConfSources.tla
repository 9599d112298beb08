---------------------------- MODULE GConfSources ----------------------------
(***************************************************************************)
(* GConfSources: stacks of configuration sources (gconf-sources.c).          *)
(* A database reads a stack of sources from the front: an administrator's     *)
(* mandatory settings, the settings of the user, the defaults.  A key may      *)
(* have a value and the name of a schema, each in another source; the schema  *)
(* is itself a key, whose value holds the default.                            *)
(*                                                                         *)
(* A source is an open address.  What it holds is the resource of the address: *)
(* two sources with one resource share it, as the file backends share their    *)
(* caches by root directory, but may differ in what they may write.  Any call   *)
(* of a backend may fail; bad is the set of calls <<source, kind>> that fail    *)
(* in the request.                                                            *)
(***************************************************************************)
EXTENDS GConfPaths, FiniteSets

CONSTANTS
    Sources,        \* the open addresses
    Resources,      \* what is stored under them
    Resource,       \* per source, its resource
    Writable,       \* per source, the keys it may write
    Keys,           \* names of keys and directories, as paths
    Dirs,           \* those that are directories
    Values,         \* values that are not schemas
    SchemaValues,   \* values that are schemas
    DefaultIn,      \* the default value in a schema, or None
    None            \* no value, no schema

AnyValue == Values \cup SchemaValues

ASSUME SourcesAssumption ==
    /\ Dirs \subseteq Keys
    /\ Resource \in [Sources -> Resources]
    /\ Writable \in [Sources -> SUBSET Keys]
    /\ DefaultIn \in [SchemaValues -> Values \cup {None}]
    /\ Values \cap SchemaValues = {}
    /\ None \notin AnyValue \cup Keys

(* The entry of a key in a resource, and the entries of all: c, below.         *)
Entries == [value : AnyValue \cup {None}, schema : Keys \cup {None}]
Contents == [Resources -> [Keys -> Entries]]

Entry(c, s, k) == c[Resource[s]][k]
HasEntry(c, s, k) == Entry(c, s, k).value # None \/ Entry(c, s, k).schema # None

Kinds == {"query", "metainfo", "entries", "dirs", "set", "unset", "schema", "sync"}

Stacks == Seq(Sources)

-----------------------------------------------------------------------------
(* Walking a stack                                                           *)

Lesser(a, b) == IF a <= b THEN a ELSE b
Greater(a, b) == IF a <= b THEN b ELSE a

(* The position of the first source that is one of these; behind the last if  *)
(* there is none.                                                            *)
FirstIn(stack, those) ==
    CHOOSE i \in 1..Len(stack) + 1 :
        /\ i <= Len(stack) => stack[i] \in those
        /\ \A j \in 1..i - 1 : stack[j] \notin those

WithValue(c, k) == {s \in Sources : Entry(c, s, k).value # None}
WithSchema(c, k) == {s \in Sources : Entry(c, s, k).schema # None}
WritableAt(k) == {s \in Sources : k \in Writable[s]}

Members(stack) == {stack[i] : i \in 1..Len(stack)}

(* The loop of gconf_sources_query_value(): it asks the sources for the value *)
(* up to the first that has one, and on for the name of the schema if that is  *)
(* wanted and not found yet.  A failure of any source it asks is the answer.   *)
Lookup(c, stack, k, seek, bad) ==
    LET v == FirstIn(stack, WithValue(c, k))
        s == FirstIn(stack, WithSchema(c, k))
        last == Lesser(Len(stack), IF seek THEN Greater(v, s) ELSE v)
    IN [error |-> \E i \in 1..last :
                      <<stack[i], IF i <= v THEN "query" ELSE "metainfo">> \in bad,
        value |-> IF v <= Len(stack) THEN Entry(c, stack[v], k).value ELSE None,
        schema |-> IF seek /\ s <= Len(stack) THEN Entry(c, stack[s], k).schema ELSE None,
        writable |-> FirstIn(stack, WritableAt(k)) <= Lesser(v, Len(stack))]

(* gconf_sources_query_value(), with the schema's default when there is no     *)
(* value.                                                                     *)
QueryValue(c, stack, k, bad) ==
    LET own == Lookup(c, stack, k, TRUE, bad)
        schema == Lookup(c, stack, own.schema, FALSE, bad)
        is(e, v, d) == [error |-> e, value |-> v, isDefault |-> d, writable |-> own.writable]
    IN IF own.error THEN is(TRUE, None, FALSE)
       ELSE IF own.value # None THEN is(FALSE, own.value, FALSE)
       ELSE IF own.schema = None THEN is(FALSE, None, FALSE)
       ELSE IF schema.error THEN is(TRUE, None, TRUE)
       ELSE IF schema.value = None THEN is(FALSE, None, TRUE)
       ELSE IF schema.value \in SchemaValues THEN is(FALSE, DefaultIn[schema.value], TRUE)
       ELSE is(TRUE, None, TRUE)

(* gconf_sources_query_metainfo(): failing sources are passed over.           *)
MetaSchema(c, stack, k, bad) ==
    LET s == FirstIn(stack, {x \in WithSchema(c, k) : <<x, "metainfo">> \notin bad})
    IN IF s <= Len(stack) THEN Entry(c, stack[s], k).schema ELSE None

NoDefault(c, stack, k, bad) ==
    [error |-> FALSE, value |-> None, writable |-> FirstIn(stack, WritableAt(k)) <= Len(stack)]

(* gconf_sources_query_default_value(): what the value would be if no source   *)
(* had one.                                                                   *)
QueryDefault(c, stack, k, bad) ==
    LET name == MetaSchema(c, stack, k, bad)
        schema == QueryValue(c, stack, name, bad)
        is(e, v) == [error |-> e, value |-> v,
                     writable |-> FirstIn(stack, WritableAt(k)) <= Len(stack)]
    IN IF name = None THEN is(FALSE, None)
       ELSE IF schema.value \in SchemaValues THEN is(FALSE, DefaultIn[schema.value])
       ELSE is(schema.error, None)

(* gconf_sources_is_affected(): the stack reads this key from the resource or    *)
(* from behind it.                                                            *)
IsAffected(c, stack, s, k, bad) ==
    LET at == FirstIn(stack, {x \in Sources : Resource[x] = Resource[s]})
    IN /\ at <= Len(stack)
       /\ \A i \in 1..at - 1 : stack[i] \in WithValue(c, k) => <<stack[i], "query">> \in bad

-----------------------------------------------------------------------------
(* Listings                                                                  *)

(* A directory exists in a source that has an entry anywhere below it.         *)
HasDir(c, s, d) == \E k \in Keys : d # k /\ HasEntry(c, s, k) /\ IsBelow(d, k)

AnyFails(stack, kind, bad) == \E i \in 1..Len(stack) : <<stack[i], kind>> \in bad

(* hash_lookup_defaults_func(): the default of an entry without a value.  A     *)
(* failure leaves the entry without one.                                      *)
ListedDefault(c, stack, name, bad) ==
    LET schema == QueryValue(c, stack, name, bad)
    IN IF name # None /\ schema.value \in SchemaValues
       THEN [value |-> DefaultIn[schema.value], isDefault |-> TRUE]
       ELSE [value |-> None, isDefault |-> FALSE]

LastWithEntry(c, stack, k) ==
    CHOOSE i \in 1..Len(stack) :
        /\ HasEntry(c, stack[i], k)
        /\ \A j \in i + 1..Len(stack) : ~ HasEntry(c, stack[j], k)

(* The last source whose entry for the key counts in a listing: the first that  *)
(* has a value, else the last that has a schema name.                         *)
LastCounted(c, stack, k) ==
    LET v == FirstIn(stack, WithValue(c, k))
    IN IF v <= Len(stack) THEN v
       ELSE CHOOSE i \in 1..Len(stack) :
                /\ stack[i] \in WithSchema(c, k)
                /\ \A j \in i + 1..Len(stack) : stack[j] \notin WithSchema(c, k)

(* gconf_sources_all_entries() for one key that some source has an entry for.  *)
(* Whether it is writable depends on the sources up to the last that counted   *)
(* (key_is_writable()).                                                      *)
ListedEntry(c, stack, k, bad) ==
    LET v == FirstIn(stack, WithValue(c, k))
        s == FirstIn(stack, WithSchema(c, k))
        found == IF v <= Len(stack)
                 THEN [value |-> Entry(c, stack[v], k).value, isDefault |-> FALSE]
                 ELSE ListedDefault(c, stack, Entry(c, stack[s], k).schema, bad)
    IN [key |-> k, value |-> found.value, isDefault |-> found.isDefault,
        writable |-> FirstIn(stack, WritableAt(k)) <= LastCounted(c, stack, k)]

ListedKeys(c, stack, dir, bad) ==
    IF AnyFails(stack, "entries", bad) THEN {}
    ELSE {k \in Keys : DirectlyIn(dir, k) /\ \E i \in 1..Len(stack) : HasEntry(c, stack[i], k)}

AllEntries(c, stack, dir, bad) ==
    {ListedEntry(c, stack, k, bad) : k \in ListedKeys(c, stack, dir, bad)}

-----------------------------------------------------------------------------
(* Changes.  Each says which sources were modified, whether an error is         *)
(* returned, and what the contents become.                                    *)

Result(modified, error, c) == [modified |-> modified, error |-> error, contents |-> c]

SetBehind(c, stack, k, v, bad) ==
    LET w == FirstIn(stack, WritableAt(k))
    IN IF k = <<>> \/ w > Len(stack) THEN Result({}, TRUE, c)
       ELSE IF <<stack[w], "set">> \in bad THEN Result({stack[w]}, TRUE, c)
       ELSE Result({stack[w]}, FALSE, [c EXCEPT ![Resource[stack[w]]][k].value = v])

(* gconf_sources_set_value(): into the first source that may write the key,     *)
(* unless one that may not has a value in front of it.  That source counts as   *)
(* modified even when its backend fails.  The root is no key.                  *)
SetValue(c, stack, k, v, bad) ==
    LET w == FirstIn(stack, WritableAt(k))
        fixed == {s \in WithValue(c, k) : <<s, "query">> \notin bad}
    IN IF k = <<>> \/ w > Len(stack) \/ FirstIn(stack, fixed) < w
       THEN Result({}, TRUE, c)
       ELSE IF <<stack[w], "set">> \in bad
       THEN Result({stack[w]}, TRUE, c)
       ELSE Result({stack[w]}, FALSE, [c EXCEPT ![Resource[stack[w]]][k].value = v])

(* The sources that gconf_sources_unset_value() modifies: those that may write  *)
(* the key, in front of the first of them that fails.                         *)
UnsetIn(stack, k, bad) ==
    LET failing == {s \in WritableAt(k) : <<s, "unset">> \in bad}
    IN {stack[i] : i \in {j \in 1..FirstIn(stack, failing) - 1 : stack[j] \in WritableAt(k)}}

UnsetFails(stack, k, bad) ==
    \E i \in 1..Len(stack) : stack[i] \in WritableAt(k) /\ <<stack[i], "unset">> \in bad

(* gconf_sources_set_schema(): in the first source that may write the key; no   *)
(* error if there is none.                                                    *)
SetSchema(c, stack, k, name, bad) ==
    LET w == FirstIn(stack, WritableAt(k))
    IN IF w > Len(stack) THEN Result({}, FALSE, c)
       ELSE IF <<stack[w], "schema">> \in bad THEN Result({}, TRUE, c)
       ELSE Result({stack[w]}, FALSE, [c EXCEPT ![Resource[stack[w]]][k].schema = name])

(* The contents after the values of some keys, and the schema names of some,     *)
(* have been dropped.                                                         *)
Without(c, stack, ks, named, bad) ==
    [r \in Resources |-> [k \in Keys |->
        [value |-> IF k \in ks /\ \E s \in UnsetIn(stack, k, bad) : Resource[s] = r
                   THEN None ELSE c[r][k].value,
         schema |-> IF k \in named
                        /\ \E s \in SetSchema(c, stack, k, None, bad).modified : Resource[s] = r
                    THEN None ELSE c[r][k].schema]]]

UnsetValue(c, stack, k, bad) ==
    Result(UnsetIn(stack, k, bad), UnsetFails(stack, k, bad), Without(c, stack, {k}, {}, bad))

(* recursive_unset_helper() comes by the directory, the directories below it    *)
(* and their entries, as far as they can be listed.                           *)
DirsBelow(c, stack, dir, bad) ==
    {dir} \cup {d \in Dirs : d # dir /\ IsBelow(dir, d) /\ ~ AnyFails(stack, "dirs", bad)
                                /\ \E i \in 1..Len(stack) : HasDir(c, stack[i], d)}

EntriesBelow(c, stack, dir, bad) ==
    UNION {ListedKeys(c, stack, d, bad) : d \in DirsBelow(c, stack, dir, bad)}

(* Each of them is unset as a key, the directories too.                       *)
Visited(c, stack, dir, bad) == DirsBelow(c, stack, dir, bad) \cup EntriesBelow(c, stack, dir, bad)

(* gconf_sources_recursive_unset(): goes on after an error.  With names, the     *)
(* names of the schemas of entries are dropped as well.                       *)
RecursiveUnset(c, stack, dir, names, bad) ==
    LET ks == Visited(c, stack, dir, bad)
        named == IF names THEN EntriesBelow(c, stack, dir, bad) ELSE {}
        unnamed(k) == SetSchema(c, stack, k, None, bad)
    IN Result((UNION {UnsetIn(stack, k, bad) : k \in ks})
                  \cup (UNION {unnamed(k).modified : k \in named}),
              \/ AnyFails(stack, "dirs", bad) \/ AnyFails(stack, "entries", bad)
              \/ \E k \in ks : UnsetFails(stack, k, bad)
              \/ \E k \in named : unnamed(k).error,
              Without(c, stack, ks, named, bad))

(* gconf_sources_sync_all() asks every source; a resource is saved when a sync   *)
(* of it succeeds.                                                            *)
Synced(stack, bad) == {Resource[s] : s \in {x \in Members(stack) : <<x, "sync">> \notin bad}}
SyncFails(stack, bad) == {Resource[s] : s \in Members(stack)} \ Synced(stack, bad)
=============================================================================
