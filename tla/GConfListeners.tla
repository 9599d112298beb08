--------------------------- MODULE GConfListeners ---------------------------
(***************************************************************************)
(* GConfListeners: the table of listeners of a GConfClient (gconf-           *)
(* listeners.c).  Listeners sit in a tree of directory names and are found   *)
(* by their id through a flat array; an id is an array index and a number    *)
(* that makes stale ids unlikely to be valid.  Indices are used again.       *)
(*                                                                          *)
(* The table is used by one thread, but it calls out: to the listeners of a  *)
(* notification, and to the function that destroys a listener's data, in the *)
(* middle of a removal when nothing else holds the listener.  A callback may *)
(* use the table; "frames" is the stack of calls of the table under way.     *)
(* Lists are sets: their order is not modelled.                              *)
(***************************************************************************)
EXTENDS GConfPaths, Integers, FiniteSets

CONSTANTS
    Names,          \* components of names
    Places,         \* names to listen at, with every name above them
    Uniqueness,     \* values of the unique-izing bits
    MaxAdds,        \* bound on the listeners ever added
    MaxFrames,      \* bound on calls nested in one another
    DestroyActs,    \* a destroy function may use the table
    Nowhere         \* no place

ASSUME PlacesAssumption ==
    /\ \A p \in Places : p \in Seq(Names)
    /\ Nowhere \notin Places

ASSUME ListenerBoundsAssumption ==
    MaxAdds \in Nat /\ MaxFrames \in Nat /\ DestroyActs \in BOOLEAN

VARIABLES
    nodes,      \* the tree: the places that have a node
    at,         \* the listeners in the list of each place
    flat,       \* the array: the place an index leads to, or Nowhere
    next,       \* next_cnxn, the first index never used
    recycled,   \* removed_indices
    active,     \* active_listeners
    made,       \* the number of listeners added so far
    object,     \* what became of each: id, refcount, removed
    status,     \* of the table: "ok", "freed", or "crashed"
    frames      \* calls under way, the innermost first

table == <<nodes, at, flat, next, recycled, active>>
vars == <<table, made, object, status, frames>>

Listeners == 1..MaxAdds
Indices == 1..MaxAdds
NoListener == 0
NoObject == [id |-> <<0, 0>>, refs |-> 0, removed |-> FALSE]
Object == [id : (Indices \cup {0}) \X (Uniqueness \cup {0}), refs : Nat, removed : BOOLEAN]

(* A notification has listeners left to call and listeners it refers to; a   *)
(* removal goes on at "place" with the flat entry "index"; remove_if has     *)
(* listeners left to remove.  While the callback of "running" runs it may    *)
(* use the table.                                                            *)
Frame == [kind : {"notify", "remove", "remove_if"},
          due : SUBSET Listeners, refers : SUBSET Listeners,
          running : Listeners \cup {NoListener},
          place : Places \cup {Nowhere}, index : Indices \cup {0}]
NewFrame(kind) == [kind |-> kind, due |-> {}, refers |-> {},
                   running |-> NoListener, place |-> Nowhere, index |-> 0]

TypeOK ==
    /\ nodes \in SUBSET Places
    /\ at \in [Places -> SUBSET Listeners]
    /\ flat \in [Indices -> Places \cup {Nowhere}]
    /\ next \in Nat
    /\ recycled \in SUBSET Indices
    /\ active \in Nat
    /\ made \in Nat
    /\ object \in [Listeners -> Object]
    /\ status \in {"ok", "freed", "crashed"}
    /\ frames \in Seq(Frame)

Init ==
    /\ nodes = {}
    /\ at = [p \in Places |-> {}]
    /\ flat = [i \in Indices |-> Nowhere]
    /\ next = 1
    /\ recycled = {}
    /\ active = 0
    /\ made = 0
    /\ object = [s \in Listeners |-> NoObject]
    /\ status = "ok"
    /\ frames = <<>>

-----------------------------------------------------------------------------

(* Code outside the table runs.                                              *)
MayCall == /\ status # "crashed"
           /\ frames # <<>> => frames[1].running # NoListener

Top(kind) == status # "crashed" /\ frames # <<>> /\ frames[1].kind = kind
             /\ frames[1].running = NoListener

Push(frame) == frames' = <<frame>> \o frames

(* listener_unref of the last reference calls the destroy function.          *)
Destroying(s) == IF object[s].refs = 1 /\ DestroyActs THEN s ELSE NoListener

(* The table marks a listener as removed and gives its reference back.       *)
Dropped(o) == [id |-> o.id, refs |-> o.refs - 1, removed |-> TRUE]

AtOrAbove(p) == {q \in Places : IsBelow(q, p)}

(* The index of the next id: one that is free again, else a new one.  (Not    *)
(* the last one given; and not a new one while next_cnxn stays.)             *)
NextIndexLate == IF recycled = {} THEN {next} ELSE {next - 1}
NextIndexEither == IF recycled = {} THEN {next} ELSE recycled \cup {next}
NextIndex == IF recycled = {} THEN {next} ELSE recycled

(* Any value of the bits: they count the listeners of every table of the     *)
(* program, modulo 2^8.                                                      *)
Add(p) ==
    /\ MayCall /\ status = "ok" /\ made < MaxAdds
    /\ \E i \in NextIndex, u \in Uniqueness :
          /\ object' = [object EXCEPT ![made + 1] =
                           [id |-> <<i, u>>, refs |-> 1, removed |-> FALSE]]
          /\ flat' = [flat EXCEPT ![i] = p]
          /\ next' = IF recycled = {} THEN next + 1 ELSE next
          /\ recycled' = recycled \ {i}
    /\ made' = made + 1
    /\ nodes' = nodes \cup AtOrAbove(p)
    /\ at' = [at EXCEPT ![p] = @ \cup {made + 1}]
    /\ active' = active + 1
    /\ UNCHANGED <<status, frames>>

-----------------------------------------------------------------------------
(* Removal.                                                                  *)

(* The listeners with the id in the list the index leads to: none for an id  *)
(* that is stale or was never given, which the call reports and ignores.     *)
Found(id) ==
    IF id[1] \notin Indices \/ flat[id[1]] = Nowhere THEN {}
    ELSE {s \in at[flat[id[1]]] : object[s].id = id}

(* Out of the list; then the destroy function runs unless a notification     *)
(* refers to the listener ...                                                *)
Unlink(s, rest) ==
    LET i == object[s].id[1] IN
    /\ at' = [at EXCEPT ![flat[i]] = @ \ {s}]
    /\ recycled' = recycled \cup {i}
    /\ object' = [object EXCEPT ![s] = Dropped(@)]
    /\ frames' = <<[NewFrame("remove") EXCEPT !.place = flat[i], !.index = i,
                                              !.running = Destroying(s)]>> \o rest
    /\ UNCHANGED <<nodes, flat, next, active, made, status>>

Remove(id) ==
    /\ MayCall /\ status = "ok" /\ Len(frames) < MaxFrames
    /\ \E s \in Found(id) : Unlink(s, frames)

(* ... a node from the removed one up is pointless when nothing is below it  *)
(* but the nodes just found pointless (and not only the removed one) ...     *)
PointlessItself(p) == {q \in nodes : q = p /\ \A r \in nodes : IsBelow(p, r) => r = p /\ at[r] = {}}
Pointless(p) ==
    {q \in nodes : \A r \in nodes :
        IsBelow(q, r) => IsBelow(r, p) /\ at[r] = {}}

(* ... and the flat entry and the tree are cleaned.  The node must still be  *)
(* there.                                                                    *)
RemoveEnd ==
    /\ Top("remove")
    /\ IF frames[1].place \in nodes
       THEN /\ flat' = [flat EXCEPT ![frames[1].index] = Nowhere]
            /\ nodes' = nodes \ Pointless(frames[1].place)
            /\ active' = active - 1
            /\ frames' = Tail(frames)
            /\ UNCHANGED status
       ELSE /\ status' = "crashed"
            /\ UNCHANGED <<flat, nodes, active, frames>>
    /\ UNCHANGED <<at, next, recycled, made, object>>

(* The predicate picks any of the listeners in the tree.                     *)
RemoveIf(S) ==
    /\ MayCall /\ status = "ok" /\ Len(frames) + 1 < MaxFrames
    /\ S # {} /\ S \subseteq UNION {at[p] : p \in nodes}
    /\ Push([NewFrame("remove_if") EXCEPT !.due = S])
    /\ UNCHANGED <<table, made, object, status>>

(* By id: a listener that is gone by now is not found.                       *)
RemoveIfNext(s) ==
    LET rest == [frames EXCEPT ![1].due = @ \ {s}]
        found == Found(object[s].id) IN
    /\ Top("remove_if") /\ s \in frames[1].due
    /\ \/ \E l \in found : Unlink(l, rest)
       \/ found = {} /\ frames' = rest /\ UNCHANGED <<table, made, object, status>>

RemoveIfEnd ==
    /\ Top("remove_if") /\ frames[1].due = {}
    /\ frames' = Tail(frames)
    /\ UNCHANGED <<table, made, object, status>>

(* ltable_destroy: every listener in the tree is removed.                    *)
Free ==
    LET S == UNION {at[p] : p \in nodes} IN
    /\ MayCall /\ status = "ok"
    /\ \A n \in DOMAIN frames : frames[n].kind = "notify"
    /\ status' = "freed"
    /\ object' = [s \in Listeners |->
                     IF s \in S THEN Dropped(object[s]) ELSE object[s]]
    /\ nodes' = {} /\ at' = [p \in Places |-> {}]
    /\ flat' = [i \in Indices |-> Nowhere]
    /\ next' = 1 /\ recycled' = {} /\ active' = 0
    /\ UNCHANGED <<made, frames>>

-----------------------------------------------------------------------------
(* Notification.                                                             *)

(* The lists on the way from the root to the key, as far as there are nodes, *)
(* are copied, and each listener is referred to.                             *)
OnTheWay(key) == UNION {at[p] : p \in nodes \cap AtOrAbove(key)}

(* Without the references.                                                   *)
NotifyUnreferenced(key) ==
    /\ MayCall /\ status = "ok" /\ Len(frames) < MaxFrames
    /\ nodes # {}
    /\ Push([NewFrame("notify") EXCEPT !.due = OnTheWay(key)])
    /\ UNCHANGED <<table, made, object, status>>

Notify(key) ==
    LET S == OnTheWay(key) IN
    /\ MayCall /\ status = "ok" /\ Len(frames) < MaxFrames
    /\ nodes # {}
    /\ Push([NewFrame("notify") EXCEPT !.due = S, !.refers = S])
    /\ object' = [s \in Listeners |->
                     IF s \in S THEN [object[s] EXCEPT !.refs = @ + 1] ELSE object[s]]
    /\ UNCHANGED <<table, made, status>>

(* The next listener is called unless it was removed meanwhile.              *)
CalledAnyway(s) == s
Called(s) == IF object[s].removed THEN NoListener ELSE s

NotifyNext(s) ==
    /\ Top("notify") /\ s \in frames[1].due
    /\ frames' = [frames EXCEPT ![1].due = @ \ {s}, ![1].running = Called(s)]
    /\ UNCHANGED <<table, made, object, status>>

(* The references are given back one after another.                          *)
NotifyUnref(s) ==
    /\ Top("notify") /\ frames[1].due = {} /\ s \in frames[1].refers
    /\ object' = [object EXCEPT ![s].refs = @ - 1]
    /\ frames' = [frames EXCEPT ![1].refers = @ \ {s}, ![1].running = Destroying(s)]
    /\ UNCHANGED <<table, made, status>>

NotifyEnd ==
    /\ Top("notify") /\ frames[1].due = {} /\ frames[1].refers = {}
    /\ frames' = Tail(frames)
    /\ UNCHANGED <<table, made, object, status>>

(* The callback that runs returns.                                           *)
CallbackReturns ==
    /\ frames # <<>> /\ frames[1].running # NoListener /\ status # "crashed"
    /\ frames' = [frames EXCEPT ![1].running = NoListener]
    /\ UNCHANGED <<table, made, object, status>>

Next ==
    \/ \E p \in Places : Add(p) \/ Notify(p)
    \/ \E id \in (1..(next - 1)) \X Uniqueness : Remove(id)
    \/ \E S \in SUBSET Listeners : RemoveIf(S)
    \/ \E s \in Listeners : RemoveIfNext(s) \/ NotifyNext(s) \/ NotifyUnref(s)
    \/ RemoveEnd \/ RemoveIfEnd \/ Free \/ NotifyEnd \/ CallbackReturns

Spec == Init /\ [][Next]_vars

-----------------------------------------------------------------------------

Live == {s \in 1..made : ~ object[s].removed}
FramesOf(kind) == {n \in DOMAIN frames : frames[n].kind = kind}

(* A listener that was not removed can be removed by its id: the array leads *)
(* to the place whose list has it, and no other listener answers to the id.  *)
LiveReachable ==
    \A s \in Live : Found(object[s].id) = {s}

(* Every index below the first unused one is that of exactly one live        *)
(* listener or free to be used again.                                        *)
IndexOf(s) == object[s].id[1]

IndicesAccounted ==
    status = "ok" =>
        /\ {IndexOf(s) : s \in Live} \cup recycled = 1..(next - 1)
        /\ {IndexOf(s) : s \in Live} \cap recycled = {}
        /\ \A s, t \in Live : IndexOf(s) = IndexOf(t) => s = t

(* The tree has no node without a listener at or below it, but for the node  *)
(* of a removal under way; the count is that of the live listeners and of    *)
(* these removals.                                                           *)
TreeMinimal ==
    /\ status # "crashed"
    /\ nodes = UNION {AtOrAbove(p) : p \in {q \in Places : at[q] # {}}
                                   \cup {frames[n].place : n \in FramesOf("remove")}}
    /\ status = "ok" => active = Cardinality(Live) + Cardinality(FramesOf("remove"))

(* The reference count of a listener: one for the table that has it, and one *)
(* for each notification under way that may still call it.  None is called   *)
(* after it was destroyed.                                                   *)
ReferencesCounted ==
    TypeOK /\ \A s \in 1..made :
        /\ object[s].refs = (IF s \in Live THEN 1 ELSE 0)
              + Cardinality({n \in FramesOf("notify") : s \in frames[n].refers})
        /\ \A n \in FramesOf("notify") : s \in frames[n].due => object[s].refs > 0

-----------------------------------------------------------------------------

(* The table implements the registry: a listener listens where its list is,  *)
(* and the notifications owed are those among the calls under way.           *)
PlaceOf(s) ==
    IF s \in Live THEN CHOOSE p \in Places : s \in at[p] ELSE Nowhere

Owed(f) ==
    IF f.kind = "notify" THEN <<[due |-> f.due, running |-> f.running]>> ELSE <<>>

OwedBy(q) ==
    LET last[n \in 0..Len(q)] ==
            IF n = 0 THEN <<>> ELSE Owed(q[Len(q) + 1 - n]) \o last[n - 1]
    IN  last[Len(q)]

Registry == INSTANCE ListenerRegistry WITH
    place <- [s \in Listeners |-> PlaceOf(s)],
    retired <- {s \in 1..made : object[s].removed},
    owed <- OwedBy(frames)

RegistrySpec == Registry!Spec
=============================================================================
