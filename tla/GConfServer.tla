----------------------------- MODULE GConfServer -----------------------------
(***************************************************************************)
(* GConfServer: what a gconfd process keeps for the programs that use it     *)
(* over D-Bus, and loses when it goes: the object path of every database it  *)
(* has loaded, and the requests for notification listed at each.             *)
(*                                                                          *)
(* The bus is external.  It starts gconfd when someone asks or calls, tells  *)
(* every program when the name of gconfd changes owner, and tells gconfd     *)
(* when a program it has a match rule for leaves.                            *)
(***************************************************************************)
EXTENDS Integers, FiniteSets, FiniteSetsExt

CONSTANTS
    Clients,    \* programs on the bus
    Databases,  \* what the addresses in use resolve to
    Default,    \* the database of the source path
    Sections,   \* what a request can be for
    MaxExits    \* bound on how often gconfd goes

ASSUME DefaultAssumption == Default \in Databases /\ IsFiniteSet(Databases)

ASSUME SectionsAssumption == IsFiniteSet(Sections)

ASSUME MaxExitsAssumption == MaxExits \in Nat

VARIABLES
    up,         \* gconfd owns its name on the bus
    path,       \* object path of each database it has loaded
    listed,     \* NotificationData: occurrences of a client, by section
    counted,    \* nr_of_notifications; 0 for a client without an entry
    exits       \* how often gconfd has gone

svvars == <<up, path, listed, counted, exits>>

(* Object numbers, counted from 1; an unloaded database has none.            *)
NoPath == 0
Paths == 1..Cardinality(Databases)

SvTypeOK ==
    /\ up \in BOOLEAN
    /\ path \in [Databases -> Paths \cup {NoPath}]
    /\ listed \in [Databases -> [Clients -> [Sections -> Nat]]]
    /\ counted \in [Databases -> [Clients -> Nat]]
    /\ exits \in 0..MaxExits

Unlisted == [d \in Databases |-> [c \in Clients |-> [s \in Sections |-> 0]]]
Uncounted == [d \in Databases |-> [c \in Clients |-> 0]]
Unloaded == [d \in Databases |-> NoPath]

(* The first object is the default database, loaded before the name is taken. *)
AtStart == [Unloaded EXCEPT ![Default] = 1]

SvInit ==
    /\ up = FALSE
    /\ path = Unloaded
    /\ listed = Unlisted
    /\ counted = Uncounted
    /\ exits = 0

(* object_nr.                                                                *)
NextPath == 1 + Cardinality({d \in Databases : path[d] # NoPath})

(* The database registered at an object path: none or one.                   *)
ObjectAt(p) == {d \in Databases : p # NoPath /\ path[d] = p}

ServerStarts ==
    /\ ~ up
    /\ up' = TRUE
    /\ path' = AtStart
    /\ UNCHANGED <<listed, counted, exits>>

(* A crash, or the shutdown another program asked for.                       *)
ServerGoes ==
    /\ up
    /\ exits < MaxExits
    /\ exits' = exits + 1
    /\ up' = FALSE
    /\ path' = Unloaded
    /\ listed' = Unlisted
    /\ counted' = Uncounted

(* GetDefaultDatabase, GetDatabase: loads the database on its first use.  The *)
(* reply is path'[d].                                                        *)
GetDatabase(d) ==
    /\ up
    /\ path' = [path EXCEPT ![d] = IF @ = NoPath THEN NextPath ELSE @]
    /\ UNCHANGED <<up, listed, counted, exits>>

(* A request more, not counted when the program has an entry already.        *)
AddNotifyUncounted(d, c, s) ==
    /\ up
    /\ listed' = [listed EXCEPT ![d][c][s] = @ + 1]
    /\ counted' = [counted EXCEPT ![d][c] = IF @ = 0 THEN 1 ELSE @]
    /\ UNCHANGED <<up, path, exits>>

AddNotify(d, c, s) ==
    /\ up
    /\ listed' = [listed EXCEPT ![d][c][s] = @ + 1]
    /\ counted' = [counted EXCEPT ![d][c] = @ + 1]
    /\ UNCHANGED <<up, path, exits>>

(* The count goes down whether or not the section lists the client.          *)
LessOne(n) == IF n = 0 THEN 0 ELSE n - 1

RemoveNotify(d, c, s) ==
    /\ up
    /\ listed' = [listed EXCEPT ![d][c][s] = LessOne(@)]
    /\ counted' = [counted EXCEPT ![d][c] = LessOne(@)]
    /\ UNCHANGED <<up, path, exits>>

(* The bus has a match rule of gconfd's for c while some database counts it;  *)
(* then every database hears that c left.  Each section drops one occurrence. *)
HearsOf(c) == \E d \in Databases : counted[d][c] > 0

ClientVanishes(c) ==
    /\ IF HearsOf(c)
       THEN /\ listed' = [d \in Databases |->
                             [listed[d] EXCEPT ![c] =
                                 [s \in Sections |-> LessOne(@[s])]]]
            /\ counted' = [d \in Databases |-> [counted[d] EXCEPT ![c] = 0]]
       ELSE UNCHANGED <<listed, counted>>
    /\ UNCHANGED <<up, path, exits>>

-----------------------------------------------------------------------------

(* What gconfd counts for a program is what it has listed for it: the match  *)
(* rule is there as long as a section names the program.                     *)
CountsAgree ==
    \A d \in Databases, c \in Clients :
        counted[d][c] = MapThenSumSet(LAMBDA s : listed[d][c][s], Sections)
=============================================================================
