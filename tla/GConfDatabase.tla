---------------------------- MODULE GConfDatabase ----------------------------
(***************************************************************************)
(* One configuration database of gconfd as its D-Bus clients see it: the    *)
(* value of every key, the notification requests per namespace section, and *)
(* the Notify calls the daemon has sent and a client has not yet dispatched. *)
(*                                                                          *)
(* gconfd serves one method call at a time, so a handler is one step.  A     *)
(* caller sits in dbus_connection_send_with_reply_and_block(): it dispatches *)
(* nothing until its reply is there, and the reply overtakes every Notify    *)
(* already in its queue.  The step of the handler is therefore the step of   *)
(* the whole call.  Values are read and written through one writable source, *)
(* so that is_writable is always true and left out, and of a schema name only *)
(* its presence matters.                                                     *)
(***************************************************************************)
EXTENDS GConfPaths, FiniteSets

CONSTANTS
    Clients,        \* D-Bus connections that may ask for notification
    Keys,           \* the keys in play
    Dirs,           \* the directories (namespace sections) in play
    Values,         \* what a key may be set to
    NoValue,        \* the key has no value (GConfValue NULL)
    SchemaDefault,  \* the default a key's schema gives it, or NoValue
    MaxWrites       \* bound on the number of writes to the database

ASSUME PathAssumption ==
    /\ Keys \subseteq Seq(STRING) /\ IsFiniteSet(Keys)
    /\ Dirs \subseteq Seq(STRING) /\ IsFiniteSet(Dirs)

ASSUME ValueAssumption ==
    /\ NoValue \notin Values
    /\ SchemaDefault \in [Keys -> Values \cup {NoValue}]

ASSUME MaxWritesAssumption == MaxWrites \in Nat

VARIABLES
    store,          \* store[k]: the value set for k, or NoValue
    notifications,  \* notifications[s]: clients listed for section s
    inbox,          \* inbox[c]: Notify calls on their way to c, in order
    writes          \* number of writes so far (bounded by MaxWrites)

dbvars == <<store, notifications, inbox, writes>>

ValueOrNone == Values \cup {NoValue}

(* What a GConfEntry says of a key, without the key.                        *)
Entry == [value : ValueOrNone, is_default : BOOLEAN, has_schema : BOOLEAN]

(* A Notify call: the section it is sent for, the key and its new entry.    *)
Message == [section : Dirs, key : Keys, entry : Entry]

DbTypeOK ==
    /\ store \in [Keys -> ValueOrNone]
    /\ notifications \in [Dirs -> SUBSET Clients]
    /\ inbox \in [Clients -> Seq(Message)]
    /\ writes \in Nat

DbInit ==
    /\ store = [k \in Keys |-> NoValue]
    /\ notifications = [s \in Dirs |-> {}]
    /\ inbox = [c \in Clients |-> <<>>]
    /\ writes = 0

-----------------------------------------------------------------------------
(* Queries.                                                                 *)

(* What LookupExtended with use_schema_default answers for k when the keys  *)
(* have the values st: the stored value, else the default of its schema.  A *)
(* reply without a value carries no flags.                                   *)
EntryIn(st, k) ==
    LET schema == SchemaDefault[k] # NoValue
    IN  IF st[k] # NoValue
          THEN [value |-> st[k], is_default |-> FALSE, has_schema |-> schema]
          ELSE [value |-> SchemaDefault[k], is_default |-> schema,
                has_schema |-> schema]

Query(k) == EntryIn(store, k)

(* The keys AllEntries lists for a directory: those with a stored value or a *)
(* schema, directly inside it.                                              *)
Listed(dir) ==
    {k \in Keys : DirectlyIn(dir, k) /\ Query(k).value # NoValue}

-----------------------------------------------------------------------------
(* Notification of a change.                                                *)

(* An entry as a Notify call carries it: without a schema name.              *)
Announced(value, is_default) ==
    [value |-> value, is_default |-> is_default, has_schema |-> FALSE]

(* The sections at or above k that c is listed for.                          *)
SectionsFor(c, k) == {s \in Dirs : c \in notifications[s] /\ IsBelow(s, k)}

(* The Notify calls for c when every key k of K gets the entry e[k]: one for *)
(* every section at or above k that c is listed for.                         *)
NotifiesFor(c, K, e) ==
    {[section |-> p[1], key |-> p[2], entry |-> e[p[2]]] :
        p \in {q \in Dirs \X K : q[1] \in SectionsFor(c, q[2])}}

(* The orders in which the calls of M can be sent: those for one key from    *)
(* the deepest section up (the loop chops one component off at a time); the  *)
(* order of the keys is the backends'.                                       *)
Bursts(M) ==
    {b \in [1..Cardinality(M) -> M] :
        /\ \A m \in M : \E i \in DOMAIN b : b[i] = m
        /\ \A i, j \in DOMAIN b :
              i < j /\ b[i].key = b[j].key
                => Len(b[i].section) > Len(b[j].section)}

(* Write the database and notify: keys take the values of st, and the        *)
(* clients are told the entry e[k] of every key k in K.                      *)
Write(st, K, e) ==
    /\ writes < MaxWrites
    /\ writes' = writes + 1
    /\ store' = st
    /\ \E burst \in [Clients -> UNION {Bursts(NotifiesFor(c, K, e)) : c \in Clients}] :
          /\ \A c \in Clients : burst[c] \in Bursts(NotifiesFor(c, K, e))
          /\ inbox' = [c \in Clients |-> inbox[c] \o burst[c]]
    /\ UNCHANGED notifications

(* gconf_database_set: cannot be the default, since it has just been set.    *)
DbSet(k, v) ==
    Write([store EXCEPT ![k] = v], {k},
          [j \in {k} |-> Announced(v, FALSE)])

(* gconf_database_unset: the new value is the default of the schema, and it  *)
(* is announced as a default even when there is none.                        *)
DbUnsetToNothing(k) ==
    Write([store EXCEPT ![k] = NoValue], {k},
          [j \in {k} |-> Announced(NoValue, TRUE)])

DbUnset(k) ==
    Write([store EXCEPT ![k] = NoValue], {k},
          [j \in {k} |-> Announced(SchemaDefault[k], TRUE)])

(* The paths a recursive unset of top visits: the entries it lists, the      *)
(* directories that lead to them, and top itself.                            *)
UnsetBelow(top) ==
    {k \in Keys :
        /\ IsBelow(top, k)
        /\ \/ k = top
           \/ Query(k).value # NoValue
           \/ \E j \in Keys : IsBelow(k, j) /\ Query(j).value # NoValue}

(* gconf_database_recursive_unset: everything is unset first, then every      *)
(* visited path is announced with the entry it has now.                      *)
AnnounceThenUnset(top) ==
    LET gone == UnsetBelow(top)
        st   == [k \in Keys |-> IF k \in gone THEN NoValue ELSE store[k]]
    IN  Write(st, gone,
              [k \in gone |-> Announced(Query(k).value, Query(k).is_default)])

DbRecursiveUnset(top) ==
    LET gone == UnsetBelow(top)
        st   == [k \in Keys |-> IF k \in gone THEN NoValue ELSE store[k]]
        new(k) == EntryIn(st, k)
    IN  Write(st, gone,
              [k \in gone |-> Announced(new(k).value, new(k).is_default)])

-----------------------------------------------------------------------------
(* Notification requests.                                                   *)

DbAddNotify(c, s) ==
    /\ notifications' = [notifications EXCEPT ![s] = @ \cup {c}]
    /\ UNCHANGED <<store, inbox, writes>>

DbKeepNotify(c, s) == UNCHANGED dbvars

DbRemoveNotify(c, s) ==
    /\ notifications' = [notifications EXCEPT ![s] = @ \ {c}]
    /\ UNCHANGED <<store, inbox, writes>>

(* The head of c's queue is taken off the connection.                        *)
Take(c) ==
    /\ inbox[c] # <<>>
    /\ inbox' = [inbox EXCEPT ![c] = Tail(@)]
    /\ UNCHANGED <<store, notifications, writes>>
=============================================================================
