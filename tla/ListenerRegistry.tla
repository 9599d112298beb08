-------------------------- MODULE ListenerRegistry --------------------------
(***************************************************************************)
(* ListenerRegistry: what a listener table promises its user, whatever the   *)
(* table is made of.  Listeners listen at a place.  A notification of a key  *)
(* calls, one after another, the listeners that listened at or above the key *)
(* when it began, but for those removed before their turn.  A callback may   *)
(* add and remove listeners and start another notification.                  *)
(***************************************************************************)
EXTENDS GConfPaths

CONSTANTS Listeners, Places, Nowhere

VARIABLES
    place,      \* where a listener listens; Nowhere before and after
    retired,    \* the listeners that have been removed
    owed        \* notifications under way, the innermost first: the listeners
                \*     still due, and the one whose callback runs

vars == <<place, retired, owed>>

NoListener == 0

Init ==
    /\ place = [s \in Listeners |-> Nowhere]
    /\ retired = {}
    /\ owed = <<>>

Listening == {s \in Listeners : place[s] # Nowhere}

Add(s, p) ==
    /\ s \notin Listening \cup retired
    /\ place' = [place EXCEPT ![s] = p]
    /\ UNCHANGED <<retired, owed>>

(* One listener, or all when the table is freed.                             *)
Remove(S) ==
    /\ S \subseteq Listening
    /\ place' = [s \in Listeners |-> IF s \in S THEN Nowhere ELSE place[s]]
    /\ retired' = retired \cup S
    /\ UNCHANGED owed

Begin(key) ==
    /\ owed' = <<[due |-> {s \in Listening : IsBelow(place[s], key)},
                  running |-> NoListener]>> \o owed
    /\ UNCHANGED <<place, retired>>

Call(s) ==
    /\ owed # <<>> /\ s \in owed[1].due \cap Listening
    /\ owed' = [owed EXCEPT ![1] = [due |-> @.due \ {s}, running |-> s]]
    /\ UNCHANGED <<place, retired>>

Skip(s) ==
    /\ owed # <<>> /\ s \in owed[1].due \cap retired
    /\ owed' = [owed EXCEPT ![1] = [due |-> @.due \ {s}, running |-> NoListener]]
    /\ UNCHANGED <<place, retired>>

(* The callback that runs returns.                                           *)
Return ==
    /\ owed # <<>>
    /\ owed' = [owed EXCEPT ![1].running = NoListener]
    /\ UNCHANGED <<place, retired>>

End ==
    /\ owed # <<>> /\ owed[1].due = {}
    /\ owed' = Tail(owed)
    /\ UNCHANGED <<place, retired>>

Next ==
    \/ \E s \in Listeners : Call(s) \/ Skip(s) \/ \E p \in Places : Add(s, p)
    \/ \E S \in SUBSET Listeners : Remove(S)
    \/ \E k \in Places : Begin(k)
    \/ Return \/ End

Spec == Init /\ [][Next]_vars
=============================================================================
