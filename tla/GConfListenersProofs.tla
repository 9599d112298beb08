------------------------ MODULE GConfListenersProofs ------------------------
(***************************************************************************)
(* The ids, the tree and the reference counts of a listener table, and the    *)
(* registry it implements, for any names, any bits, any number of listeners    *)
(* and any nesting of notifications and removals, as long as the functions     *)
(* that destroy a listener's data leave the table alone.                     *)
(***************************************************************************)
EXTENDS GConfListeners, FiniteSetTheorems, WellFoundedInduction, TLAPS

IndexType ==
    /\ nodes \in SUBSET Places
    /\ at \in [Places -> SUBSET Listeners]
    /\ flat \in [Indices -> Places \cup {Nowhere}]
    /\ next \in Nat \ {0}
    /\ made \in Nat /\ made <= MaxAdds /\ next <= made + 1
    /\ recycled \in SUBSET (1..(next - 1))
    /\ object \in [Listeners -> [id : Nat \X (Uniqueness \cup {0}), refs : Int,
                                 removed : BOOLEAN]]
    /\ status \in {"ok", "freed"}
    /\ frames \in Seq(Frame)

(* The array leads a live listener to the list it is in ...                  *)
Placed ==
    \A s \in Live : /\ IndexOf(s) \in 1..(next - 1)
                    /\ IndexOf(s) \notin recycled
                    /\ flat[IndexOf(s)] \in Places
                    /\ s \in at[flat[IndexOf(s)]]

(* ... and is in no other list.                                              *)
Listed ==
    \A p \in Places : \A s \in at[p] : /\ s \in Live /\ flat[IndexOf(s)] = p
                                       /\ p \in nodes

Distinct == \A s, t \in Live : IndexOf(s) = IndexOf(t) => s = t

Taken == \A i \in (1..(next - 1)) \ recycled : \E s \in Live : IndexOf(s) = i

(* Only the innermost call can be a removal.  Its index is free again, and   *)
(* its node is there.                                                        *)
RemovalOnTop ==
    \A n \in DOMAIN frames :
        frames[n].kind = "remove" =>
            /\ n = 1 /\ frames[n].running = NoListener
            /\ frames[n].index \in recycled /\ frames[n].place \in nodes

IndexInv ==
    IndexType /\ Placed /\ Listed /\ Distinct /\ (status = "ok" => Taken) /\ RemovalOnTop
    
-----------------------------------------------------------------------------

LEMMA PushedFrame ==
    ASSUME NEW f \in Frame, NEW q \in Seq(Frame)
    PROVE  /\ <<f>> \o q \in Seq(Frame)
           /\ DOMAIN (<<f>> \o q) = 1..(Len(q) + 1)
           /\ (<<f>> \o q)[1] = f
           /\ \A n \in 2..(Len(q) + 1) : (<<f>> \o q)[n] = q[n - 1] /\ n - 1 \in DOMAIN q
OBVIOUS

LEMMA PoppedFrame ==
    ASSUME NEW q \in Seq(Frame), q # <<>>
    PROVE  /\ Tail(q) \in Seq(Frame)
           /\ \A n \in DOMAIN Tail(q) : Tail(q)[n] = q[n + 1] /\ n + 1 \in DOMAIN q /\ n + 1 # 1
OBVIOUS

LEMMA ChangedFrame ==
    ASSUME NEW q \in Seq(Frame), q # <<>>, NEW f \in Frame
    PROVE  /\ [q EXCEPT ![1] = f] \in Seq(Frame)
           /\ DOMAIN [q EXCEPT ![1] = f] = DOMAIN q
           /\ 1 \in DOMAIN q
           /\ [q EXCEPT ![1] = f][1] = f
           /\ \A n \in DOMAIN q : n # 1 => [q EXCEPT ![1] = f][n] = q[n]
OBVIOUS

LEMMA NewFrames == \A kind \in {"notify", "remove", "remove_if"} : NewFrame(kind) \in Frame
BY DEF NewFrame, Frame, NoListener

LEMMA DroppedObject ==
    ASSUME NEW I, NEW o \in [id : I, refs : Int, removed : BOOLEAN]
    PROVE  /\ Dropped(o) \in [id : I, refs : Int, removed : BOOLEAN]
           /\ Dropped(o).id = o.id /\ Dropped(o).removed
BY DEF Dropped

(* A listener is found only where it is.                                     *)
LEMMA FoundListener ==
    ASSUME IndexInv, NEW id, NEW s \in Found(id)
    PROVE  /\ s \in Live /\ s \in Listeners /\ id = object[s].id
           /\ IndexOf(s) \in Indices /\ flat[IndexOf(s)] \in Places
           /\ flat[IndexOf(s)] \in nodes /\ s \in at[flat[IndexOf(s)]]
<1>1. id[1] \in Indices /\ flat[id[1]] # Nowhere /\ s \in at[flat[id[1]]] /\ object[s].id = id
  BY DEF Found
<1>2. flat[id[1]] \in Places
  BY <1>1 DEF IndexInv, IndexType
<1>3. s \in Live /\ flat[id[1]] \in nodes
  BY <1>1, <1>2 DEF IndexInv, Listed
<1>4. s \in Listeners
  BY <1>3, ListenerBoundsAssumption DEF IndexInv, IndexType, Live, Listeners
<1> QED
  BY <1>1, <1>2, <1>3, <1>4 DEF IndexOf

LEMMA LiveTyped ==
    ASSUME IndexType, NEW s \in Live
    PROVE  s \in Listeners /\ s \in 1..made /\ ~ object[s].removed
BY ListenerBoundsAssumption DEF IndexType, Live, Listeners

(* Steps that leave ids alone: a listener's references and the calls under   *)
(* way may change, and no removal begins.                                    *)
LEMMA CallingKeepsInv ==
    ASSUME IndexInv, UNCHANGED <<table, made, status>>,
           object' \in [Listeners -> [id : Nat \X (Uniqueness \cup {0}), refs : Int,
                                      removed : BOOLEAN]],
           \A s \in Listeners : object'[s].id = object[s].id
                                /\ object'[s].removed = object[s].removed,
           frames' \in Seq(Frame),
           \A n \in DOMAIN frames' : frames'[n].kind # "remove"
    PROVE  IndexInv'
<1> USE DEF IndexInv, table
<1>1. IndexType'
  BY DEF IndexType
<1>2. Live' = Live /\ Live \subseteq Listeners
  <2>1. made' = made /\ 1..made \subseteq Listeners
    BY ListenerBoundsAssumption DEF IndexType, Listeners
  <2>2. \A s \in 1..made : object'[s].removed = object[s].removed
    BY <2>1
  <2> QED
    BY <2>1, <2>2 DEF Live
<1>3. \A s \in Live : IndexOf(s)' = IndexOf(s)
  BY <1>2 DEF IndexOf
<1>4. Placed' /\ Listed' /\ Distinct'
  BY <1>2, <1>3 DEF Placed, Listed, Distinct, IndexType
<1>5. (status = "ok" => Taken)'
  BY <1>2, <1>3 DEF Taken
<1>6. RemovalOnTop'
  BY DEF RemovalOnTop
<1> QED
  BY <1>1, <1>4, <1>5, <1>6

-----------------------------------------------------------------------------
(* What the steps do.                                                        *)

(* While a call other than a removal is innermost no removal is under way.   *)
LEMMA NoRemoval ==
    ASSUME IndexInv, frames # <<>> => frames[1].running # NoListener \/ frames[1].kind # "remove"
    PROVE  \A n \in DOMAIN frames : frames[n].kind # "remove"
BY DEF IndexInv, IndexType, RemovalOnTop

(* What the calls do to the stack.                                           *)
Begun(p) ==
    /\ frames' = <<[NewFrame("notify") EXCEPT !.due = OnTheWay(p), !.refers = OnTheWay(p)]>>
                    \o frames
    /\ object' = [s \in Listeners |->
                     IF s \in OnTheWay(p) THEN [object[s] EXCEPT !.refs = @ + 1] ELSE object[s]]

Replaced(f) ==
    /\ f \in Frame /\ frames # <<>> /\ f.kind = frames[1].kind
    /\ frames' = [frames EXCEPT ![1] = f]

(* A listener of a notification is called or left out.                       *)
Turn(s) ==
    \E f \in Frame :
        /\ Replaced(f) /\ UNCHANGED object
        /\ f.kind = "notify" /\ f.due = frames[1].due \ {s} /\ f.refers = frames[1].refers
        /\ s \in frames[1].due /\ f.running = Called(s)

(* A reference is given back.                                                *)
Released(s) ==
    \E f \in Frame :
        /\ Replaced(f) /\ object' = [object EXCEPT ![s].refs = @ - 1]
        /\ f.kind = "notify" /\ f.due = {} /\ f.refers = frames[1].refers \ {s}
        /\ frames[1].due = {} /\ s \in frames[1].refers
        /\ f.running = NoListener /\ frames[1].running = NoListener

Returned ==
    \E f \in Frame :
        /\ Replaced(f) /\ UNCHANGED object
        /\ f = [frames[1] EXCEPT !.running = NoListener]

(* A removal of several begins, goes on or ends.                             *)
Several ==
    /\ UNCHANGED object
    /\ \/ \E f \in Frame : f.kind = "remove_if" /\ frames' = <<f>> \o frames
       \/ \E f \in Frame : Replaced(f) /\ f.kind = "remove_if"
       \/ frames # <<>> /\ frames[1].kind = "remove_if" /\ frames' = Tail(frames)

Over ==
    /\ UNCHANGED object
    /\ frames # <<>> /\ frames[1].kind = "notify" /\ frames' = Tail(frames)
    /\ frames[1].due = {} /\ frames[1].refers = {}

Calls ==
    /\ UNCHANGED <<table, made, status>>
    /\ frames' \in Seq(Frame)
    /\ \A n \in DOMAIN frames : frames[n].kind # "remove"
    /\ \/ \E p \in Places : Begun(p)
       \/ \E s \in Listeners : Turn(s) \/ Released(s)
       \/ Returned \/ Several \/ Over

(* One listener is removed, alone or as one of several.                      *)
Unlinked(s) ==
    \E q \in Seq(Frame), f \in Frame :
        /\ frames' = <<f>> \o q
        /\ f.kind = "remove" /\ f.running = NoListener /\ f.place = flat[IndexOf(s)]
        /\ f.index = IndexOf(s)
        /\ \A n \in DOMAIN q : q[n].kind # "remove"
        /\ \/ q = frames
           \/ \E g \in Frame : /\ q = [frames EXCEPT ![1] = g] /\ g.kind = "remove_if"
                               /\ frames # <<>> /\ frames[1].kind = "remove_if"
        /\ at' = [at EXCEPT ![flat[IndexOf(s)]] = @ \ {s}]
        /\ object' = [object EXCEPT ![s] = Dropped(@)]
        /\ recycled' = recycled \cup {IndexOf(s)}
        /\ UNCHANGED <<nodes, flat, next, active, made, status>>

LEMMA StepShape ==
    ASSUME IndexInv, DestroyActs = FALSE, Next
    PROVE  \/ \E p \in Places : Add(p)
           \/ \E s \in Live : Unlinked(s)
           \/ RemoveEnd
           \/ Free
           \/ Calls
<1>1. frames \in Seq(Frame)
  BY DEF IndexInv, IndexType
<1>2. ASSUME NEW id, Remove(id) PROVE \E s \in Live : Unlinked(s)
  <2>1. PICK s \in Found(id) : Unlink(s, frames)
    BY <1>2 DEF Remove
  <2>2. \A n \in DOMAIN frames : frames[n].kind # "remove"
    BY <1>2, NoRemoval DEF Remove, MayCall
  <2>3. s \in Live /\ IndexOf(s) \in Indices /\ flat[IndexOf(s)] \in Places
    BY FoundListener
  <2> DEFINE f == [NewFrame("remove") EXCEPT !.place = flat[IndexOf(s)], !.index = IndexOf(s),
                                             !.running = NoListener]
  <2>4. f \in Frame /\ f.kind = "remove" /\ f.running = NoListener /\ f.place = flat[IndexOf(s)]
        /\ f.index = IndexOf(s)
    BY <2>3 DEF Frame, NewFrame, NoListener
  <2>5. frames' = <<f>> \o frames
    BY <2>1 DEF Unlink, Destroying, IndexOf
  <2> HIDE DEF f
  <2>6. Unlinked(s)
    BY <1>1, <2>1, <2>2, <2>4, <2>5 DEF Unlinked, Unlink, IndexOf
  <2> QED
    BY <2>3, <2>6
<1>3. ASSUME NEW s \in Listeners, RemoveIfNext(s)
      PROVE  Calls \/ \E l \in Live : Unlinked(l)
  <2> DEFINE g == [frames[1] EXCEPT !.due = @ \ {s}]
             rest == [frames EXCEPT ![1] = g]
  <2>1. frames # <<>> /\ frames[1].kind = "remove_if" /\ frames[1] \in Frame
        /\ frames[1].running = NoListener
    BY <1>1, <1>3 DEF RemoveIfNext, Top
  <2>2. g \in Frame /\ g.kind = "remove_if"
    BY <2>1 DEF Frame
  <2>3. \A n \in DOMAIN frames : frames[n].kind # "remove"
    BY <2>1, NoRemoval
  <2> HIDE DEF g
  <2>4. rest \in Seq(Frame) /\ \A n \in DOMAIN rest : rest[n].kind # "remove"
    BY <1>1, <2>1, <2>2, <2>3, ChangedFrame
  <2>5. rest = [frames EXCEPT ![1].due = @ \ {s}]
    BY DEF g
  <2>6. ASSUME NEW l \in Found(object[s].id), Unlink(l, rest) PROVE \E k \in Live : Unlinked(k)
    <3>1. l \in Live /\ IndexOf(l) \in Indices /\ flat[IndexOf(l)] \in Places
      BY FoundListener
    <3> DEFINE f == [NewFrame("remove") EXCEPT !.place = flat[IndexOf(l)], !.index = IndexOf(l),
                                               !.running = NoListener]
    <3>2. f \in Frame /\ f.kind = "remove" /\ f.running = NoListener /\ f.place = flat[IndexOf(l)]
          /\ f.index = IndexOf(l)
      BY <3>1 DEF Frame, NewFrame, NoListener
    <3>3. frames' = <<f>> \o rest
      BY <2>6 DEF Unlink, Destroying, IndexOf
    <3> HIDE DEF f
    <3>4. \E h \in Frame : /\ rest = [frames EXCEPT ![1] = h] /\ h.kind = "remove_if"
                           /\ frames # <<>> /\ frames[1].kind = "remove_if"
      BY <2>1, <2>2
    <3>5. /\ at' = [at EXCEPT ![flat[IndexOf(l)]] = @ \ {l}]
          /\ object' = [object EXCEPT ![l] = Dropped(@)]
          /\ recycled' = recycled \cup {IndexOf(l)}
          /\ UNCHANGED <<nodes, flat, next, active, made, status>>
      BY <2>6 DEF Unlink, IndexOf
    <3> HIDE DEF rest
    <3>6. Unlinked(l)
      BY <2>4, <3>2, <3>3, <3>4, <3>5 DEF Unlinked
    <3> QED
      BY <3>1, <3>6
  <2>7. ASSUME frames' = rest, UNCHANGED <<table, made, object, status>> PROVE Calls
    <3>1. Replaced(g)
      BY <2>1, <2>2, <2>7 DEF Replaced
    <3> QED
      BY <2>2, <2>3, <2>4, <2>7, <3>1 DEF Calls, Several
  <2> QED
    BY <1>3, <2>5, <2>6, <2>7 DEF RemoveIfNext
<1>4. ASSUME NEW p \in Places, Notify(p) PROVE Calls
  <2> DEFINE f == [NewFrame("notify") EXCEPT !.due = OnTheWay(p), !.refers = OnTheWay(p)]
  <2>1. OnTheWay(p) \subseteq Listeners
    BY DEF OnTheWay, IndexInv, IndexType
  <2>2. f \in Frame
    BY <2>1 DEF Frame, NewFrame, NoListener
  <2>3. Begun(p) /\ UNCHANGED <<table, made, status>> /\ frames' = <<f>> \o frames
    BY <1>4 DEF Notify, Push, Begun
  <2>4. \A n \in DOMAIN frames : frames[n].kind # "remove"
    BY <1>4, NoRemoval DEF Notify, MayCall
  <2>5. frames' \in Seq(Frame)
    BY <1>1, <2>2, <2>3, PushedFrame
  <2> QED
    BY <2>3, <2>4, <2>5 DEF Calls
<1>5. ASSUME NEW S \in SUBSET Listeners, RemoveIf(S) PROVE Calls
  <2> DEFINE f == [NewFrame("remove_if") EXCEPT !.due = S]
  <2>1. f \in Frame /\ f.kind = "remove_if"
    BY DEF Frame, NewFrame, NoListener
  <2>2. frames' = <<f>> \o frames /\ UNCHANGED <<table, made, object, status>>
    BY <1>5 DEF RemoveIf, Push
  <2>3. \A n \in DOMAIN frames : frames[n].kind # "remove"
    BY <1>5, NoRemoval DEF RemoveIf, MayCall
  <2> HIDE DEF f
  <2>4. frames' \in Seq(Frame)
    BY <1>1, <2>1, <2>2, PushedFrame
  <2> QED
    BY <2>1, <2>2, <2>3, <2>4 DEF Calls, Several
<1>6. ASSUME NEW s \in Listeners, NotifyNext(s) PROVE Calls
  <2> DEFINE f == [frames[1] EXCEPT !.due = @ \ {s}, !.running = Called(s)]
  <2>1. frames # <<>> /\ frames[1].kind = "notify" /\ frames[1] \in Frame /\ s \in frames[1].due
        /\ frames[1].running = NoListener
    BY <1>1, <1>6 DEF NotifyNext, Top
  <2>2. Called(s) \in Listeners \cup {NoListener}
    BY DEF Called
  <2>3. /\ f \in Frame /\ f.kind = "notify" /\ f.due = frames[1].due \ {s}
        /\ f.refers = frames[1].refers /\ f.running = Called(s)
    BY <2>1, <2>2 DEF Frame
  <2>4. frames' = [frames EXCEPT ![1] = f] /\ UNCHANGED <<table, made, object, status>>
    BY <1>1, <1>6, <2>1 DEF NotifyNext
  <2> HIDE DEF f
  <2>5. \A n \in DOMAIN frames : frames[n].kind # "remove"
    BY <2>1, NoRemoval
  <2>6. frames' \in Seq(Frame)
    BY <1>1, <2>1, <2>3, <2>4, ChangedFrame
  <2>7. Turn(s)
    BY <2>1, <2>3, <2>4 DEF Turn, Replaced
  <2> QED
    BY <2>4, <2>5, <2>6, <2>7 DEF Calls
<1>7. ASSUME NEW s \in Listeners, NotifyUnref(s) PROVE Calls
  <2> DEFINE f == [frames[1] EXCEPT !.refers = @ \ {s}, !.running = NoListener]
  <2>1. frames # <<>> /\ frames[1].kind = "notify" /\ frames[1] \in Frame
        /\ frames[1].due = {} /\ s \in frames[1].refers /\ frames[1].running = NoListener
    BY <1>1, <1>7 DEF NotifyUnref, Top
  <2>2. /\ f \in Frame /\ f.kind = "notify" /\ f.due = {} /\ f.running = NoListener
        /\ f.refers = frames[1].refers \ {s}
    BY <2>1 DEF Frame, NoListener
  <2>3. frames' = [frames EXCEPT ![1] = f] /\ UNCHANGED <<table, made, status>>
        /\ object' = [object EXCEPT ![s].refs = @ - 1]
    BY <1>1, <1>7, <2>1 DEF NotifyUnref, Destroying
  <2> HIDE DEF f
  <2>4. \A n \in DOMAIN frames : frames[n].kind # "remove"
    BY <2>1, NoRemoval
  <2>5. frames' \in Seq(Frame)
    BY <1>1, <2>1, <2>2, <2>3, ChangedFrame
  <2>6. Released(s)
    BY <2>1, <2>2, <2>3 DEF Released, Replaced
  <2> QED
    BY <2>3, <2>4, <2>5, <2>6 DEF Calls
<1>8. ASSUME RemoveIfEnd \/ NotifyEnd PROVE Calls
  <2>1. /\ frames # <<>> /\ frames[1].kind # "remove" /\ frames[1].running = NoListener
        /\ frames' = Tail(frames) /\ UNCHANGED <<table, made, object, status>>
    BY <1>8 DEF RemoveIfEnd, NotifyEnd, Top
  <2>2. \A n \in DOMAIN frames : frames[n].kind # "remove"
    BY <2>1, NoRemoval
  <2>3. frames' \in Seq(Frame)
    BY <1>1, <2>1, PoppedFrame
  <2>4. Several \/ Over
    BY <1>8, <2>1 DEF RemoveIfEnd, NotifyEnd, Top, Several, Over
  <2> QED
    BY <2>1, <2>2, <2>3, <2>4 DEF Calls
<1>9. ASSUME CallbackReturns PROVE Calls
  <2> DEFINE f == [frames[1] EXCEPT !.running = NoListener]
  <2>1. frames # <<>> /\ frames[1] \in Frame /\ frames[1].running # NoListener
    BY <1>1, <1>9 DEF CallbackReturns
  <2>2. f \in Frame /\ f.kind = frames[1].kind
    BY <2>1 DEF Frame, NoListener
  <2>3. frames' = [frames EXCEPT ![1] = f] /\ UNCHANGED <<table, made, object, status>>
    BY <1>1, <1>9, <2>1 DEF CallbackReturns
  <2>4. \A n \in DOMAIN frames : frames[n].kind # "remove"
    BY <2>1, NoRemoval
  <2>5. frames' \in Seq(Frame)
    BY <1>1, <2>1, <2>2, <2>3, ChangedFrame
  <2>6. Returned
    BY <2>1, <2>2, <2>3 DEF Returned, Replaced
  <2> QED
    BY <2>3, <2>4, <2>5, <2>6 DEF Calls
<1> QED
  BY <1>2, <1>3, <1>4, <1>5, <1>6, <1>7, <1>8, <1>9 DEF Next

(* Calls leave ids and the live listeners alone, and begin no removal.       *)
LEMMA CallsFacts ==
    ASSUME IndexInv, Calls
    PROVE  /\ object' \in [Listeners -> [id : Nat \X (Uniqueness \cup {0}), refs : Int,
                                         removed : BOOLEAN]]
           /\ \A s \in Listeners : object'[s].id = object[s].id
                                   /\ object'[s].removed = object[s].removed
           /\ \A n \in DOMAIN frames' : frames'[n].kind # "remove"
           /\ frames' \in Seq(Frame) /\ UNCHANGED <<table, made, status>>
           /\ Live' = Live
<1> DEFINE T == [id : Nat \X (Uniqueness \cup {0}), refs : Int, removed : BOOLEAN]
<1>1. /\ frames \in Seq(Frame) /\ object \in [Listeners -> T]
      /\ frames' \in Seq(Frame) /\ UNCHANGED <<table, made, status>>
      /\ \A n \in DOMAIN frames : frames[n].kind # "remove"
  BY DEF IndexInv, IndexType, Calls
<1>2. /\ object' \in [Listeners -> T]
      /\ \A s \in Listeners : object'[s].id = object[s].id
                              /\ object'[s].removed = object[s].removed
  <2>1. CASE UNCHANGED object
    BY <1>1, <2>1
  <2>2. ASSUME NEW S, NEW k \in {1, -1},
               object' = [s \in Listeners |->
                             IF s \in S THEN [object[s] EXCEPT !.refs = @ + k] ELSE object[s]]
        PROVE  <1>2
    <3>1. \A o \in T : LET q == [o EXCEPT !.refs = @ + k]
                       IN  q \in T /\ q.id = o.id /\ q.removed = o.removed
      BY <2>2
    <3> HIDE DEF T
    <3> QED
      BY <1>1, <2>2, <3>1
  <2>3. ASSUME NEW p \in Places, Begun(p) PROVE <1>2
    BY <2>2, <2>3 DEF Begun
  <2>4. ASSUME NEW s \in Listeners, Released(s) PROVE <1>2
    <3>1. object' = [object EXCEPT ![s].refs = @ - 1]
      BY <2>4 DEF Released
    <3>2. \A o \in T : [o EXCEPT !.refs = @ - 1] = [o EXCEPT !.refs = @ + (-1)]
      OBVIOUS
    <3>3. object' = [t \in Listeners |->
                        IF t \in {s} THEN [object[t] EXCEPT !.refs = @ + (-1)] ELSE object[t]]
      BY <1>1, <3>1, <3>2
    <3> QED
      BY <2>2, <3>3
  <2> QED
    BY <2>1, <2>3, <2>4 DEF Calls, Turn, Returned, Several, Over
<1>3. \A n \in DOMAIN frames' : frames'[n].kind # "remove"
  <2>1. ASSUME NEW f \in Frame, f.kind # "remove", frames' = <<f>> \o frames PROVE <1>3
    <3>1. DOMAIN frames' = 1..(Len(frames) + 1) /\ frames'[1] = f
          /\ \A n \in 2..(Len(frames) + 1) : frames'[n] = frames[n - 1] /\ n - 1 \in DOMAIN frames
      BY <1>1, <2>1, PushedFrame
    <3> QED
      BY <1>1, <2>1, <3>1
  <2>2. ASSUME NEW f, Replaced(f) PROVE <1>3
    <3>1. /\ f \in Frame /\ frames # <<>> /\ frames' = [frames EXCEPT ![1] = f]
          /\ f.kind = frames[1].kind
      BY <2>2 DEF Replaced
    <3> QED
      BY <1>1, <3>1, ChangedFrame
  <2>3. ASSUME NEW p \in Places, Begun(p) PROVE <1>3
    <3> DEFINE f == [NewFrame("notify") EXCEPT !.due = OnTheWay(p), !.refers = OnTheWay(p)]
    <3>1. OnTheWay(p) \subseteq Listeners
      BY DEF OnTheWay, IndexInv, IndexType
    <3>2. f \in Frame /\ f.kind = "notify" /\ frames' = <<f>> \o frames
      BY <2>3, <3>1 DEF Begun, Frame, NewFrame, NoListener
    <3> QED
      BY <2>1, <3>2
  <2>4. CASE frames # <<>> /\ frames' = Tail(frames)
    BY <1>1, <2>4, PoppedFrame
  <2> QED
    BY <2>1, <2>2, <2>3, <2>4 DEF Calls, Turn, Released, Returned, Several, Over
<1>4. Live' = Live
  <2>1. 1..made \subseteq Listeners
    BY ListenerBoundsAssumption DEF IndexInv, IndexType, Listeners
  <2> QED
    BY <1>1, <1>2, <2>1 DEF Live
<1> QED
  BY <1>1, <1>2, <1>3, <1>4

-----------------------------------------------------------------------------
(* The steps that change ids.                                                *)

LEMMA AddKeepsInv ==
    ASSUME IndexInv, NEW p \in Places, Add(p), NEW l, l = made + 1
    PROVE  IndexInv'
<1> PICK i \in NextIndex, u \in Uniqueness :
          /\ object' = [object EXCEPT ![l] = [id |-> <<i, u>>, refs |-> 1, removed |-> FALSE]]
          /\ flat' = [flat EXCEPT ![i] = p]
          /\ next' = IF recycled = {} THEN next + 1 ELSE next
          /\ recycled' = recycled \ {i}
  BY DEF Add
<1>1. /\ made < MaxAdds /\ made' = l /\ nodes' = nodes \cup AtOrAbove(p)
      /\ at' = [at EXCEPT ![p] = @ \cup {l}]
      /\ status' = "ok" /\ status = "ok" /\ frames' = frames
      /\ frames # <<>> => frames[1].running # NoListener
  BY DEF Add, MayCall
<1>2. l \in Listeners /\ l \in Nat /\ l \notin 1..made
  BY <1>1, ListenerBoundsAssumption DEF IndexInv, IndexType, Listeners
<1>3. /\ i \in Indices /\ i \in Nat /\ i \in 1..(next' - 1)
      /\ next' \in Nat \ {0} /\ next' <= made' + 1
      /\ 1..(next' - 1) = (1..(next - 1)) \cup {i}
      /\ i \in recycled \/ i \notin 1..(next - 1)
  <2>1. next \in Nat \ {0} /\ next <= made + 1 /\ made \in Nat /\ made < MaxAdds
        /\ recycled \subseteq 1..(next - 1) /\ MaxAdds \in Nat
    BY <1>1, ListenerBoundsAssumption DEF IndexInv, IndexType
  <2>2. CASE recycled = {}
    <3>1. i = next /\ next' = next + 1
      BY <2>2 DEF NextIndex
    <3>2. 1..next = (1..(next - 1)) \cup {next}
      BY <2>1
    <3> QED
      BY <1>1, <2>1, <3>1, <3>2 DEF Indices
  <2>3. CASE recycled # {}
    <3>1. i \in recycled /\ next' = next
      BY <2>3 DEF NextIndex
    <3>2. i \in 1..(next - 1)
      BY <2>1, <3>1
    <3> QED
      BY <1>1, <2>1, <3>1, <3>2 DEF Indices
  <2> QED
    BY <2>2, <2>3
<1>4. AtOrAbove(p) \subseteq Places /\ p \in AtOrAbove(p)
  BY PlacesAssumption, BelowReflexive DEF AtOrAbove
<1>5. IndexType'
  <2>1. object' \in [Listeners -> [id : Nat \X (Uniqueness \cup {0}), refs : Int,
                                   removed : BOOLEAN]]
    BY <1>2, <1>3 DEF IndexInv, IndexType
  <2>2. at' \in [Places -> SUBSET Listeners] /\ nodes' \in SUBSET Places
    BY <1>1, <1>2, <1>4 DEF IndexInv, IndexType
  <2>3. flat' \in [Indices -> Places \cup {Nowhere}]
    BY <1>3 DEF IndexInv, IndexType
  <2>4. recycled' \in SUBSET (1..(next' - 1))
    BY <1>3 DEF IndexInv, IndexType
  <2>5. made' \in Nat /\ made' <= MaxAdds
    BY <1>1, ListenerBoundsAssumption DEF IndexInv, IndexType
  <2> QED
    BY <1>1, <1>3, <2>1, <2>2, <2>3, <2>4, <2>5 DEF IndexInv, IndexType
<1>6. Live' = Live \cup {l} /\ l \notin Live
  <2>1. 1..made' = 1..made \cup {l}
    BY <1>1, <1>2 DEF IndexInv, IndexType
  <2>2. \A s \in 1..made : object'[s] = object[s]
    BY <1>2 DEF IndexInv, IndexType, Listeners
  <2>3. object'[l].removed = FALSE
    BY <1>2 DEF IndexInv, IndexType
  <2> QED
    BY <1>2, <2>1, <2>2, <2>3 DEF Live
<1>7. /\ IndexOf(l)' = i
      /\ \A s \in Live : IndexOf(s)' = IndexOf(s) /\ IndexOf(s) # i
  <2>1. IndexOf(l)' = i
    <3>1. object'[l].id = <<i, u>>
      BY <1>2 DEF IndexInv, IndexType
    <3> QED
      BY <1>1, <3>1 DEF IndexOf
  <2>2. ASSUME NEW s \in Live PROVE IndexOf(s)' = IndexOf(s) /\ IndexOf(s) # i
    <3>1. s \in Listeners /\ s # l
      BY <1>6, LiveTyped DEF IndexInv
    <3>2. IndexOf(s) # i
      BY <1>3 DEF IndexInv, Placed
    <3> QED
      BY <3>1, <3>2 DEF IndexOf, IndexInv, IndexType
  <2> QED
    BY <2>1, <2>2
<1>8. Placed'
  <2>1. ASSUME NEW s \in Live
        PROVE  /\ IndexOf(s)' \in 1..(next' - 1) /\ IndexOf(s)' \notin recycled'
               /\ flat'[IndexOf(s)'] \in Places /\ s \in at'[flat'[IndexOf(s)']]
    <3>1. /\ IndexOf(s) \in 1..(next - 1) /\ IndexOf(s) \notin recycled
          /\ flat[IndexOf(s)] \in Places /\ s \in at[flat[IndexOf(s)]]
      BY DEF IndexInv, Placed
    <3>2. flat'[IndexOf(s)] = flat[IndexOf(s)]
      BY <1>3, <1>7, <3>1, ListenerBoundsAssumption DEF IndexInv, IndexType, Indices
    <3> QED
      BY <1>1, <1>3, <1>7, <3>1, <3>2 DEF IndexInv, IndexType
  <2>2. flat'[i] = p /\ l \in at'[p]
    BY <1>1, <1>3 DEF IndexInv, IndexType
  <2> QED
    BY <1>3, <1>6, <1>7, <2>1, <2>2 DEF Placed
<1>9. Listed'
  <2> SUFFICES ASSUME NEW q \in Places, NEW s \in at'[q]
               PROVE  s \in Live' /\ flat'[IndexOf(s)'] = q /\ q \in nodes'
    BY DEF Listed
  <2>1. CASE s = l /\ q = p
    BY <1>1, <1>3, <1>4, <1>6, <1>7, <2>1 DEF IndexInv, IndexType
  <2>2. CASE s \in at[q]
    <3>1. s \in Live /\ flat[IndexOf(s)] = q /\ q \in nodes
      BY <2>2 DEF IndexInv, Listed
    <3>2. flat'[IndexOf(s)] = flat[IndexOf(s)]
      BY <1>3, <1>7, <3>1, ListenerBoundsAssumption DEF IndexInv, IndexType, Indices, Placed
    <3> QED
      BY <1>1, <1>6, <1>7, <3>1, <3>2
  <2>3. s \in at[q] \/ (s = l /\ q = p)
    BY <1>1, <1>6 DEF IndexInv, IndexType, Listed
  <2> QED
    BY <2>1, <2>2, <2>3
<1>10. Distinct'
  BY <1>6, <1>7 DEF IndexInv, Distinct
<1>11. Taken'
  BY <1>1, <1>3, <1>6, <1>7 DEF IndexInv, Taken
<1>12. RemovalOnTop'
  <2>1. \A n \in DOMAIN frames : frames[n].kind # "remove"
    BY <1>1 DEF IndexInv, IndexType, RemovalOnTop
  <2> QED
    BY <1>1, <2>1 DEF RemovalOnTop
<1> QED
  BY <1>1, <1>5, <1>8, <1>9, <1>10, <1>11, <1>12 DEF IndexInv

(* A removal begins: the listener leaves its list and its index is free; the  *)
(* array entry stays until the removal ends.                                 *)
LEMMA UnlinkedKeepsInv ==
    ASSUME IndexInv, NEW s \in Live, Unlinked(s)
    PROVE  IndexInv'
<1> DEFINE i == IndexOf(s)
           p == flat[i]
<1>1. /\ s \in Live /\ s \in Listeners /\ i \in Indices /\ p \in Places
      /\ p \in nodes /\ s \in at[p] /\ i \in 1..(next - 1)
  BY LiveTyped, ListenerBoundsAssumption
     DEF IndexInv, IndexType, Placed, Listed, Indices, Listeners
<1>2. PICK rest \in Seq(Frame), f \in Frame :
         /\ at' = [at EXCEPT ![p] = @ \ {s}]
         /\ recycled' = recycled \cup {i}
         /\ object' = [object EXCEPT ![s] = Dropped(@)]
         /\ frames' = <<f>> \o rest
         /\ UNCHANGED <<nodes, flat, next, active, made, status>>
         /\ f.kind = "remove" /\ f.running = NoListener /\ f.index = i /\ f.place = p
         /\ \A n \in DOMAIN rest : rest[n].kind # "remove"
  BY DEF Unlinked
<1>3. f \in Frame /\ f.kind = "remove" /\ f.running = NoListener /\ f.index = i /\ f.place = p
  BY <1>2
<1>4. /\ object' \in [Listeners -> [id : Nat \X (Uniqueness \cup {0}), refs : Int,
                                    removed : BOOLEAN]]
      /\ \A t \in Listeners : object'[t].id = object[t].id
      /\ \A t \in Listeners : t # s => object'[t].removed = object[t].removed
      /\ object'[s].removed
  <2> DEFINE T == [id : Nat \X (Uniqueness \cup {0}), refs : Int, removed : BOOLEAN]
  <2>1. object \in [Listeners -> T]
    BY DEF IndexInv, IndexType
  <2>2. \A r \in T : Dropped(r) \in T
    BY DroppedObject
  <2> HIDE DEF T
  <2>3. /\ object' \in [Listeners -> T]
        /\ \A t \in Listeners : object'[t] = IF t = s THEN Dropped(object[s]) ELSE object[t]
    BY <1>1, <1>2, <2>1, <2>2
  <2>4. object[s] \in T
    BY <1>1, <2>1
  <2>5. Dropped(object[s]).id = object[s].id /\ Dropped(object[s]).removed
    BY DEF Dropped
  <2> QED
    BY <1>1, <2>2, <2>3, <2>4, <2>5 DEF T
<1>5. IndexType'
  <2>1. at' \in [Places -> SUBSET Listeners]
    BY <1>1, <1>2 DEF IndexInv, IndexType
  <2>2. recycled' \in SUBSET (1..(next' - 1))
    BY <1>1, <1>2 DEF IndexInv, IndexType
  <2>3. frames' \in Seq(Frame)
    BY <1>2, <1>3, PushedFrame
  <2> QED
    BY <1>2, <1>4, <2>1, <2>2, <2>3 DEF IndexInv, IndexType
<1>6. Live' = Live \ {s}
  <2>1. made' = made /\ 1..made \subseteq Listeners
    BY <1>2, ListenerBoundsAssumption DEF IndexInv, IndexType, Listeners
  <2> QED
    BY <1>4, <2>1 DEF Live
<1>7. \A t \in Live : t \in Listeners /\ IndexOf(t)' = IndexOf(t)
  BY <1>4, LiveTyped DEF IndexOf, IndexInv
<1>8. \A t \in Live' : IndexOf(t) # i
  BY <1>1, <1>6 DEF IndexInv, Distinct
<1>9. Placed'
  BY <1>1, <1>2, <1>6, <1>7, <1>8 DEF IndexInv, IndexType, Placed
<1>10. Listed'
  <2> SUFFICES ASSUME NEW q \in Places, NEW t \in at'[q]
               PROVE  t \in Live' /\ flat'[IndexOf(t)'] = q /\ q \in nodes'
    BY DEF Listed
  <2>1. t \in at[q] /\ ~ (q = p /\ t = s)
    BY <1>1, <1>2 DEF IndexInv, IndexType
  <2>2. t \in Live /\ flat[IndexOf(t)] = q /\ q \in nodes
    BY <2>1 DEF IndexInv, Listed
  <2>3. t # s
    BY <2>1, <2>2
  <2> QED
    BY <1>2, <1>6, <1>7, <2>2, <2>3
<1>11. Distinct'
  BY <1>6, <1>7 DEF IndexInv, Distinct
<1>12. (status = "ok" => Taken)'
  BY <1>2, <1>6, <1>7 DEF IndexInv, Taken
<1>13. RemovalOnTop'
  <2> SUFFICES ASSUME NEW n \in DOMAIN frames', frames'[n].kind = "remove"
               PROVE  /\ n = 1 /\ frames'[n].running = NoListener
                      /\ frames'[n].index \in recycled' /\ frames'[n].place \in nodes'
    BY DEF RemovalOnTop
  <2>1. DOMAIN frames' = 1..(Len(rest) + 1) /\ frames'[1] = f
    BY <1>2, <1>3, PushedFrame
  <2>2. CASE n # 1
    BY <1>2, <1>3, <2>1, <2>2, PushedFrame
  <2>3. CASE n = 1
    BY <1>1, <1>2, <1>3, <2>1, <2>3
  <2> QED
    BY <2>2, <2>3
<1> QED
  BY <1>5, <1>9, <1>10, <1>11, <1>12, <1>13 DEF IndexInv
(* The removal ends: the entry of a free index is cleared, and only nodes     *)
(* without listeners go.                                                      *)
LEMMA RemoveEndKeepsInv ==
    ASSUME IndexInv, RemoveEnd
    PROVE  IndexInv'
<1>1. 1 \in DOMAIN frames /\ frames[1] \in Frame /\ frames # <<>>
  BY DEF RemoveEnd, Top, IndexInv, IndexType
<1>2. /\ frames[1].kind = "remove" /\ frames[1].running = NoListener
      /\ frames[1].index \in recycled /\ frames[1].place \in nodes
  BY <1>1 DEF RemoveEnd, Top, IndexInv, RemovalOnTop
<1> DEFINE i == frames[1].index
<1>3. /\ flat' = [flat EXCEPT ![i] = Nowhere]
      /\ nodes' = nodes \ Pointless(frames[1].place)
      /\ frames' = Tail(frames)
      /\ UNCHANGED <<at, next, recycled, made, object, status>>
  BY <1>2 DEF RemoveEnd
<1>4. \A q \in nodes \ nodes' : at[q] = {}
  BY <1>3, PlacesAssumption, BelowReflexive DEF Pointless, IndexInv, IndexType
<1>5. frames' \in Seq(Frame)
  BY <1>1, <1>3, PoppedFrame DEF IndexInv, IndexType
<1>6. IndexType'
  BY <1>3, <1>5 DEF IndexInv, IndexType
<1>7. Live' = Live /\ \A s \in Live : IndexOf(s)' = IndexOf(s) /\ IndexOf(s) \in Indices
  <2>1. Live' = Live /\ \A s \in Live : IndexOf(s)' = IndexOf(s)
    BY <1>3 DEF Live, IndexOf
  <2>2. 1..(next - 1) \subseteq Indices
    BY ListenerBoundsAssumption DEF IndexInv, IndexType, Indices
  <2> QED
    BY <2>1, <2>2 DEF IndexInv, Placed
<1>8. \A s \in Live : flat'[IndexOf(s)] = flat[IndexOf(s)]
  BY <1>2, <1>3, <1>7 DEF IndexInv, IndexType, Placed
<1>9. Placed'
  BY <1>3, <1>7, <1>8 DEF IndexInv, Placed
<1>10. Listed'
  BY <1>3, <1>4, <1>7, <1>8 DEF IndexInv, Listed
<1>11. Distinct' /\ (status = "ok" => Taken)'
  BY <1>3, <1>7 DEF IndexInv, Distinct, Taken
<1>12. RemovalOnTop'
  BY <1>1, <1>3, PoppedFrame DEF IndexInv, IndexType, RemovalOnTop
<1> QED
  BY <1>6, <1>9, <1>10, <1>11, <1>12 DEF IndexInv

(* Freeing the table removes every listener, for every live listener is in a *)
(* list of the tree.                                                         *)
LEMMA FreeKeepsInv ==
    ASSUME IndexInv, Free
    PROVE  IndexInv'
<1> DEFINE S == UNION {at[p] : p \in nodes}
<1>1. /\ status' = "freed"
      /\ object' = [s \in Listeners |->
                       IF s \in S THEN Dropped(object[s]) ELSE object[s]]
      /\ nodes' = {} /\ at' = [p \in Places |-> {}]
      /\ flat' = [j \in Indices |-> Nowhere]
      /\ next' = 1 /\ recycled' = {}
      /\ UNCHANGED <<made, frames>>
      /\ \A n \in DOMAIN frames : frames[n].kind = "notify"
  BY DEF Free
<1>2. Live \subseteq S
  BY DEF IndexInv, Placed, Listed
<1>3. object' \in [Listeners -> [id : Nat \X (Uniqueness \cup {0}), refs : Int,
                                 removed : BOOLEAN]]
  <2> DEFINE T == [id : Nat \X (Uniqueness \cup {0}), refs : Int, removed : BOOLEAN]
  <2>1. \A r \in T : Dropped(r) \in T
    BY DroppedObject
  <2>2. object \in [Listeners -> T]
    BY DEF IndexInv, IndexType
  <2> HIDE DEF T
  <2>3. object' \in [Listeners -> T]
    BY <1>1, <2>1, <2>2
  <2> QED
    BY <2>3 DEF T
<1>4. Live' = {}
  <2> SUFFICES ASSUME NEW s \in 1..made PROVE object'[s].removed
    BY <1>1 DEF Live
  <2>1. s \in Listeners
    BY ListenerBoundsAssumption DEF IndexInv, IndexType, Listeners
  <2>2. CASE s \in S
    BY <1>1, <2>1, <2>2 DEF Dropped
  <2>3. CASE s \notin S
    BY <1>1, <1>2, <2>1, <2>3 DEF Live
  <2> QED
    BY <2>2, <2>3
<1>5. IndexType'
  <2>1. at' \in [Places -> SUBSET Listeners] /\ flat' \in [Indices -> Places \cup {Nowhere}]
    BY <1>1
  <2>2. next' \in Nat \ {0} /\ next' <= made' + 1 /\ recycled' \in SUBSET (1..(next' - 1))
    BY <1>1 DEF IndexInv, IndexType
  <2> QED
    BY <1>1, <1>3, <2>1, <2>2 DEF IndexInv, IndexType
<1>6. Placed' /\ Listed' /\ Distinct'
  BY <1>1, <1>4 DEF Placed, Listed, Distinct
<1>7. RemovalOnTop'
  BY <1>1 DEF RemovalOnTop
<1> QED
  BY <1>1, <1>5, <1>6, <1>7 DEF IndexInv
-----------------------------------------------------------------------------

LEMMA IndexInvInit == Init => IndexInv
<1> SUFFICES ASSUME Init PROVE IndexInv
  OBVIOUS
<1>1. Live = {}
  BY DEF Init, Live
<1>2. object \in [Listeners -> [id : Nat \X (Uniqueness \cup {0}), refs : Int,
                                removed : BOOLEAN]]
  BY DEF Init, NoObject
<1>3. IndexType
  BY <1>2, ListenerBoundsAssumption DEF Init, IndexType
<1> QED
  BY <1>1, <1>3 DEF Init, IndexInv, Placed, Listed, Distinct, Taken, RemovalOnTop

LEMMA IndexInvStep ==
    ASSUME IndexInv, DestroyActs = FALSE, [Next]_vars
    PROVE  IndexInv'
<1>1. CASE Next
  BY <1>1, StepShape, AddKeepsInv, UnlinkedKeepsInv, RemoveEndKeepsInv, FreeKeepsInv,
     CallsFacts, CallingKeepsInv
<1>2. CASE UNCHANGED vars
  BY <1>2 DEF vars, table, IndexInv, IndexType, Placed, Listed, Distinct, Taken,
     RemovalOnTop, Live, IndexOf
<1> QED
  BY <1>1, <1>2

(* Every index is that of one live listener or free, as long as destroy       *)
(* functions leave the table alone.                                          *)
THEOREM IndicesStayAccounted ==
    ASSUME DestroyActs = FALSE
    PROVE  Spec => []IndicesAccounted
<1>1. IndexInv => IndicesAccounted
  <2> SUFFICES ASSUME IndexInv, status = "ok" PROVE IndicesAccounted
    BY DEF IndicesAccounted
  <2>1. \A s \in Live : IndexOf(s) \in 1..(next - 1) /\ IndexOf(s) \notin recycled
    BY DEF IndexInv, Placed
  <2>2. recycled \subseteq 1..(next - 1)
    BY DEF IndexInv, IndexType
  <2>3. \A i \in 1..(next - 1) : i \in recycled \/ \E s \in Live : IndexOf(s) = i
    BY DEF IndexInv, Taken
  <2>4. \A s, t \in Live : IndexOf(s) = IndexOf(t) => s = t
    BY DEF IndexInv, Distinct
  <2> DEFINE I == {IndexOf(s) : s \in Live}
  <2>5. I \cap recycled = {}
    BY <2>1
  <2>6. I \cup recycled \subseteq 1..(next - 1)
    BY <2>1, <2>2
  <2>7. 1..(next - 1) \subseteq I \cup recycled
    BY <2>3
  <2>8. I \cup recycled = 1..(next - 1)
    BY <2>6, <2>7
  <2> QED
    BY <2>4, <2>5, <2>8 DEF IndicesAccounted
<1> QED
  BY <1>1, IndexInvInit, IndexInvStep, PTL DEF Spec

(* A live listener, and no other, can be removed by its id.                  *)
THEOREM LiveStayReachable ==
    ASSUME DestroyActs = FALSE
    PROVE  Spec => []LiveReachable
<1>1. ASSUME IndexInv, NEW s \in Live PROVE Found(object[s].id) = {s}
  <2>1. /\ IndexOf(s) \in Indices /\ flat[IndexOf(s)] \in Places
        /\ s \in at[flat[IndexOf(s)]]
    BY <1>1, ListenerBoundsAssumption DEF IndexInv, IndexType, Placed, Indices
  <2>2. flat[IndexOf(s)] # Nowhere
    BY <2>1, PlacesAssumption
  <2>3. s \in Found(object[s].id)
    BY <2>1, <2>2 DEF Found, IndexOf
  <2>4. ASSUME NEW t \in Found(object[s].id) PROVE t = s
    <3>1. t \in Live /\ object[t].id = object[s].id
      BY <1>1, FoundListener
    <3> QED
      BY <1>1, <3>1 DEF IndexInv, Distinct, IndexOf
  <2> QED
    BY <2>3, <2>4
<1>2. IndexInv => LiveReachable
  BY <1>1 DEF LiveReachable
<1> QED
  BY <1>2, IndexInvInit, IndexInvStep, PTL DEF Spec
-----------------------------------------------------------------------------
(* References.                                                               *)

(* The calls of a stack that refer to a listener.                            *)
Refs(q, s) == {n \in DOMAIN q : q[n].kind = "notify" /\ s \in q[n].refers}
Refers(f, s) == IF f.kind = "notify" /\ s \in f.refers THEN 1 ELSE 0

(* One call more on the stack.                                               *)
LEMMA PushedRefs ==
    ASSUME NEW q \in Seq(Frame), NEW f \in Frame, NEW s
    PROVE  /\ Cardinality(Refs(q, s)) \in Nat
           /\ Cardinality(Refs(<<f>> \o q, s)) = Cardinality(Refs(q, s)) + Refers(f, s)
<1> DEFINE R == Refs(q, s)
           U == {n + 1 : n \in R}
<1>1. R \subseteq 1..Len(q) /\ Len(q) \in Nat /\ IsFiniteSet(1..Len(q))
  BY FS_Interval DEF Refs
<1>2. IsFiniteSet(R) /\ Cardinality(R) \in Nat
  BY <1>1, FS_Subset, FS_CardinalityType
<1>3. IsFiniteSet(U) /\ Cardinality(U) = Cardinality(R)
  <2> DEFINE g == [n \in R |-> n + 1]
  <2>1. g \in Bijection(R, U)
    <3>1. \A m, n \in R : g[m] = g[n] => m = n
      BY <1>1
    <3> QED
      BY <3>1 DEF Bijection, Injection, Surjection, IsInjective
  <2> QED
    BY <1>2, <2>1, FS_Bijection DEF ExistsBijection
<1>4. 1 \notin U
  BY <1>1
<1>5. Refs(<<f>> \o q, s) = IF Refers(f, s) = 1 THEN U \cup {1} ELSE U
  <2> DEFINE r == <<f>> \o q
  <2>1. /\ DOMAIN r = 1..(Len(q) + 1) /\ r[1] = f
        /\ \A n \in 2..(Len(q) + 1) : r[n] = q[n - 1] /\ n - 1 \in DOMAIN q
    BY PushedFrame
  <2>2. DOMAIN q = 1..Len(q)
    OBVIOUS
  <2> HIDE DEF r
  <2>3. ASSUME NEW n \in 2..(Len(q) + 1) PROVE n \in Refs(r, s) <=> n \in U
    <3>1. n \in Refs(r, s) <=> n - 1 \in R
      BY <1>1, <2>1, <2>2, <2>3 DEF Refs
    <3>2. n \in U <=> n - 1 \in R
      BY <1>1, <2>3
    <3> QED
      BY <3>1, <3>2
  <2>4. U \subseteq 2..(Len(q) + 1) /\ Refs(r, s) \subseteq 1..(Len(q) + 1)
    BY <1>1, <2>1 DEF Refs
  <2>5. 1 \in Refs(r, s) <=> Refers(f, s) = 1
    BY <1>1, <2>1 DEF Refs, Refers
  <2>6. \A n \in 1..(Len(q) + 1) : n = 1 \/ n \in 2..(Len(q) + 1)
    BY <1>1
  <2> HIDE DEF U
  <2>7. Refs(r, s) = IF Refers(f, s) = 1 THEN U \cup {1} ELSE U
    <3> DEFINE V == Refs(r, s)
    <3> HIDE DEF V
    <3>1. V \subseteq 1..(Len(q) + 1)
      BY <2>4 DEF V
    <3>2. \A n \in 2..(Len(q) + 1) : n \in V <=> n \in U
      BY <2>3 DEF V
    <3>3. CASE Refers(f, s) = 1
      <4>1. 1 \in V /\ 1 \in U \cup {1}
        BY <2>5, <3>3 DEF V
      <4>2. \A n : n \in V <=> n \in U \cup {1}
        BY <2>4, <2>6, <3>1, <3>2, <4>1
      <4> QED
        BY <3>3, <4>2 DEF V
    <3>4. CASE Refers(f, s) # 1
      <4>1. 1 \notin V
        BY <2>5, <3>4 DEF V
      <4>2. \A n : n \in V <=> n \in U
        BY <1>4, <2>4, <2>6, <3>1, <3>2, <4>1
      <4> QED
        BY <3>4, <4>2 DEF V
    <3> QED
      BY <3>3, <3>4
  <2> QED
    BY <2>7 DEF r
<1>6. Refers(f, s) = 1 => Cardinality(U \cup {1}) = Cardinality(U) + 1
  BY <1>3, <1>4, FS_AddElement
<1>7. Refers(f, s) \in {0, 1}
  BY DEF Refers
<1> QED
  BY <1>2, <1>3, <1>5, <1>6, <1>7

(* One less.                                                                 *)
LEMMA PoppedRefs ==
    ASSUME NEW q \in Seq(Frame), q # <<>>, NEW s
    PROVE  /\ Cardinality(Refs(Tail(q), s)) \in Nat
           /\ Cardinality(Refs(q, s)) = Cardinality(Refs(Tail(q), s)) + Refers(q[1], s)
<1>1. q = <<q[1]>> \o Tail(q) /\ q[1] \in Frame /\ Tail(q) \in Seq(Frame)
  OBVIOUS
<1> QED
  BY <1>1, PushedRefs

(* The innermost call goes on.                                               *)
LEMMA ChangedRefs ==
    ASSUME NEW q \in Seq(Frame), q # <<>>, NEW f \in Frame, NEW s
    PROVE  Cardinality(Refs([q EXCEPT ![1] = f], s))
             = Cardinality(Refs(q, s)) - Refers(q[1], s) + Refers(f, s)
<1>1. [q EXCEPT ![1] = f] = <<f>> \o Tail(q) /\ Tail(q) \in Seq(Frame)
  OBVIOUS
<1>2. Refers(f, s) \in Nat /\ Refers(q[1], s) \in Nat
  BY DEF Refers
<1>3. Cardinality(Refs(<<f>> \o Tail(q), s)) = Cardinality(Refs(Tail(q), s)) + Refers(f, s)
  BY <1>1, PushedRefs
<1>4. /\ Cardinality(Refs(Tail(q), s)) \in Nat
      /\ Cardinality(Refs(q, s)) = Cardinality(Refs(Tail(q), s)) + Refers(q[1], s)
  BY PoppedRefs
<1>5. Cardinality(Refs([q EXCEPT ![1] = f], s)) = Cardinality(Refs(Tail(q), s)) + Refers(f, s)
  BY <1>1, <1>3
<1> QED
  BY <1>2, <1>4, <1>5

(* One reference of the table to each live listener, one of each notification *)
(* that refers to it; what is due is referred to.                            *)
Counted ==
    \A s \in Listeners :
        object[s].refs = (IF s \in Live THEN 1 ELSE 0) + Cardinality(Refs(frames, s))

DueReferred(q) ==
    \A n \in DOMAIN q : q[n].kind = "notify" =>
        q[n].due \subseteq q[n].refers /\ q[n].refers \subseteq 1..made

IdsBounded == \A s \in Listeners : object[s].id[1] <= MaxAdds

CountInv == Counted /\ DueReferred(frames) /\ IdsBounded

FrameDue(f) == f.kind = "notify" => f.due \subseteq f.refers /\ f.refers \subseteq 1..made

LEMMA DueKept ==
    ASSUME NEW q \in Seq(Frame), DueReferred(q)
    PROVE  /\ \A f \in Frame : FrameDue(f) => DueReferred(<<f>> \o q)
           /\ q # <<>> => FrameDue(q[1]) /\ DueReferred(Tail(q))
           /\ \A f \in Frame : q # <<>> /\ FrameDue(f) => DueReferred([q EXCEPT ![1] = f])
<1>1. ASSUME NEW f \in Frame, FrameDue(f) PROVE DueReferred(<<f>> \o q)
  <2> DEFINE r == <<f>> \o q
  <2>1. /\ DOMAIN r = 1..(Len(q) + 1) /\ r[1] = f
        /\ \A n \in 2..(Len(q) + 1) : r[n] = q[n - 1] /\ n - 1 \in DOMAIN q
    BY PushedFrame
  <2> HIDE DEF r
  <2>2. \A n \in DOMAIN r : FrameDue(r[n])
    BY <1>1, <2>1 DEF DueReferred, FrameDue
  <2>3. DueReferred(r)
    BY <2>2 DEF DueReferred, FrameDue
  <2> QED
    BY <2>3 DEF r
<1>2. q # <<>> => FrameDue(q[1]) /\ DueReferred(Tail(q))
  BY PoppedFrame DEF DueReferred, FrameDue
<1>3. ASSUME NEW f \in Frame, q # <<>>, FrameDue(f) PROVE DueReferred([q EXCEPT ![1] = f])
  BY <1>3, ChangedFrame DEF DueReferred, FrameDue
<1> QED
  BY <1>1, <1>2, <1>3

(* Steps that leave the table and what is live alone.                        *)
LEMMA CallsCount ==
    ASSUME IndexInv, CountInv, made' = made,
           \A s \in Listeners : /\ object'[s].id = object[s].id
                                /\ object'[s].removed = object[s].removed
                                /\ object'[s].refs - Cardinality(Refs(frames', s))
                                     = object[s].refs - Cardinality(Refs(frames, s)),
           \A s \in Listeners : object'[s].refs \in Int,
           frames' \in Seq(Frame), DueReferred(frames')
    PROVE  CountInv'
<1>1. Live' = Live /\ Live \subseteq Listeners
  <2>1. made' = made /\ 1..made \subseteq Listeners
    BY ListenerBoundsAssumption DEF IndexInv, IndexType, Listeners
  <2>2. \A s \in 1..made : object'[s].removed = object[s].removed
    BY <2>1
  <2> QED
    BY <2>1, <2>2 DEF Live
<1>2. ASSUME NEW s \in Listeners
      PROVE  object'[s].refs = (IF s \in Live' THEN 1 ELSE 0) + Cardinality(Refs(frames', s))
  <2>1. /\ object[s].refs \in Int /\ object'[s].refs \in Int
        /\ Cardinality(Refs(frames, s)) \in Nat /\ Cardinality(Refs(frames', s)) \in Nat
    BY PushedRefs, NewFrames DEF IndexInv, IndexType
  <2> DEFINE l == IF s \in Live THEN 1 ELSE 0
             x == Cardinality(Refs(frames, s))
             y == Cardinality(Refs(frames', s))
  <2>2. object[s].refs = l + x /\ l \in Nat
    BY DEF CountInv, Counted
  <2>3. object'[s].refs - y = object[s].refs - x
    OBVIOUS
  <2> HIDE DEF x, y, l
  <2>4. object'[s].refs = l + y
    BY <2>1, <2>2, <2>3 DEF x, y
  <2> QED
    BY <1>1, <2>4 DEF l, y
<1>3. Counted'
  BY <1>2 DEF Counted
<1>4. DueReferred(frames)'
  BY DEF DueReferred
<1>5. IdsBounded'
  BY DEF IdsBounded, CountInv
<1> QED
  BY <1>3, <1>4, <1>5 DEF CountInv

LEMMA NothingReferred ==
    ASSUME IndexInv, CountInv, NEW s \in Listeners, s \notin 1..made
    PROVE  Cardinality(Refs(frames, s)) = 0
<1>1. Refs(frames, s) = {}
  BY DEF CountInv, DueReferred, Refs
<1> QED
  BY <1>1, FS_EmptySet

LEMMA AddCounts ==
    ASSUME IndexInv, CountInv, NEW p \in Places, Add(p)
    PROVE  CountInv'
<1> DEFINE l == made + 1
<1>1. /\ l \in Listeners /\ l \notin 1..made /\ made \in Nat /\ l \notin Live
      /\ made' = l /\ status = "ok" /\ UNCHANGED frames
  BY ListenerBoundsAssumption DEF Add, IndexInv, IndexType, Listeners, Live
<1>2. PICK i \in NextIndex, u \in Uniqueness :
         object' = [object EXCEPT ![l] = [id |-> <<i, u>>, refs |-> 1, removed |-> FALSE]]
  BY DEF Add
<1>3. i \in Nat /\ i <= MaxAdds
  BY <1>1, ListenerBoundsAssumption DEF NextIndex, IndexInv, IndexType, Listeners
<1>4. /\ object'[l] = [id |-> <<i, u>>, refs |-> 1, removed |-> FALSE]
      /\ \A s \in Listeners : s # l => object'[s] = object[s]
  BY <1>1, <1>2 DEF IndexInv, IndexType
<1>5. Live' = Live \cup {l} /\ Live \subseteq 1..made
  BY <1>1, <1>4, ListenerBoundsAssumption DEF Live, Listeners
<1>6. Counted'
  <2> SUFFICES ASSUME NEW s \in Listeners
               PROVE  object'[s].refs = (IF s \in Live' THEN 1 ELSE 0)
                                          + Cardinality(Refs(frames', s))
    BY DEF Counted
  <2>1. CASE s = l
    BY <1>1, <1>4, <1>5, <2>1, NothingReferred
  <2>2. CASE s # l
    BY <1>1, <1>4, <1>5, <2>2 DEF CountInv, Counted
  <2> QED
    BY <2>1, <2>2
<1>7. DueReferred(frames)'
  BY <1>1 DEF CountInv, DueReferred
<1>8. IdsBounded'
  BY <1>3, <1>4 DEF CountInv, IdsBounded
<1> QED
  BY <1>6, <1>7, <1>8 DEF CountInv

(* The table's own reference goes when a listener is removed.                *)
LEMMA DropsCount ==
    ASSUME IndexInv, CountInv, NEW D \in SUBSET Live, made' = made,
           object' = [s \in Listeners |-> IF s \in D THEN Dropped(object[s]) ELSE object[s]],
           frames' \in Seq(Frame), DueReferred(frames'),
           \A s \in Listeners : Cardinality(Refs(frames', s)) = Cardinality(Refs(frames, s))
    PROVE  CountInv' /\ Live' = Live \ D
<1>1. Live \subseteq 1..made /\ 1..made \subseteq Listeners
  BY ListenerBoundsAssumption DEF IndexInv, IndexType, Listeners, Live
<1>2. Live' = Live \ D
  BY <1>1 DEF Live, Dropped
<1>3. ASSUME NEW s \in Listeners
      PROVE  object'[s].refs = (IF s \in Live' THEN 1 ELSE 0) + Cardinality(Refs(frames', s))
  <2>1. Cardinality(Refs(frames, s)) \in Nat
    BY PushedRefs, NewFrames DEF IndexInv, IndexType
  <2>2. object[s].refs = (IF s \in Live THEN 1 ELSE 0) + Cardinality(Refs(frames, s))
    BY DEF CountInv, Counted
  <2>3. CASE s \in D
    BY <1>2, <2>1, <2>2, <2>3 DEF Dropped
  <2>4. CASE s \notin D
    BY <1>2, <2>1, <2>2, <2>4
  <2> QED
    BY <2>3, <2>4
<1>4. Counted'
  BY <1>3 DEF Counted
<1>5. IdsBounded'
  BY DEF IdsBounded, CountInv, Dropped
<1>6. DueReferred(frames)'
  BY DEF DueReferred
<1> QED
  BY <1>2, <1>4, <1>5, <1>6 DEF CountInv

LEMMA UnlinkedCounts ==
    ASSUME IndexInv, CountInv, NEW s \in Live, Unlinked(s)
    PROVE  CountInv' /\ Live' = Live \ {s}
<1>1. PICK q \in Seq(Frame), f \in Frame :
        /\ frames' = <<f>> \o q
        /\ f.kind = "remove"
        /\ \/ q = frames
           \/ \E g \in Frame : /\ q = [frames EXCEPT ![1] = g] /\ g.kind = "remove_if"
                               /\ frames # <<>> /\ frames[1].kind = "remove_if"
        /\ object' = [object EXCEPT ![s] = Dropped(@)] /\ made' = made
  BY DEF Unlinked
<1>2. frames \in Seq(Frame) /\ DueReferred(frames)
  BY DEF IndexInv, IndexType, CountInv
<1>3. DueReferred(q) /\ \A t \in Listeners : Cardinality(Refs(q, t)) = Cardinality(Refs(frames, t))
  <2>1. ASSUME NEW g \in Frame, q = [frames EXCEPT ![1] = g], g.kind = "remove_if",
               frames # <<>>, frames[1].kind = "remove_if"
        PROVE  DueReferred(q) /\ \A t : Cardinality(Refs(q, t)) = Cardinality(Refs(frames, t))
    <3>1. DueReferred(q)
      BY <1>2, <2>1, DueKept DEF FrameDue
    <3>2. ASSUME NEW t PROVE Cardinality(Refs(q, t)) = Cardinality(Refs(frames, t))
      <4>1. Refers(g, t) = 0 /\ Refers(frames[1], t) = 0
        BY <2>1 DEF Refers
      <4>2. Cardinality(Refs(frames, t)) \in Nat
        BY <1>1, <1>2, PushedRefs
      <4>3. Cardinality(Refs([frames EXCEPT ![1] = g], t))
              = Cardinality(Refs(frames, t)) - Refers(frames[1], t) + Refers(g, t)
        BY <1>2, <2>1, ChangedRefs
      <4> QED
        BY <2>1, <4>1, <4>2, <4>3
    <3> QED
      BY <3>1, <3>2
  <2> QED
    BY <1>1, <1>2, <2>1
<1>4. DueReferred(frames')
  BY <1>1, <1>3, DueKept DEF FrameDue
<1>5. ASSUME NEW t \in Listeners PROVE Cardinality(Refs(frames', t)) = Cardinality(Refs(frames, t))
  <2>1. Refers(f, t) = 0
    BY <1>1 DEF Refers
  <2>2. Cardinality(Refs(<<f>> \o q, t)) = Cardinality(Refs(q, t)) + Refers(f, t)
        /\ Cardinality(Refs(q, t)) \in Nat
    BY PushedRefs
  <2> QED
    BY <1>1, <1>3, <2>1, <2>2
<1>6. object' = [t \in Listeners |-> IF t \in {s} THEN Dropped(object[t]) ELSE object[t]]
  BY <1>1 DEF IndexInv, IndexType
<1>7. frames' \in Seq(Frame)
  BY <1>1, PushedFrame
<1> QED
  BY <1>1, <1>4, <1>5, <1>6, <1>7, DropsCount

LEMMA FreeCounts ==
    ASSUME IndexInv, CountInv, Free
    PROVE  CountInv' /\ Live' = {}
<1> DEFINE S == UNION {at[p] : p \in nodes}
<1>1. S = Live
  <2>1. Live \subseteq S
    BY DEF IndexInv, Placed, Listed
  <2>2. S \subseteq Live
    BY DEF IndexInv, IndexType, Listed
  <2> QED
    BY <2>1, <2>2
<1>2. object' = [s \in Listeners |-> IF s \in Live THEN Dropped(object[s]) ELSE object[s]]
      /\ made' = made /\ frames' = frames
  BY <1>1 DEF Free
<1> QED
  BY <1>2, DropsCount DEF IndexInv, IndexType, CountInv

LEMMA RemoveEndCounts ==
    ASSUME IndexInv, CountInv, RemoveEnd
    PROVE  CountInv'
<1>1. frames # <<>> /\ frames \in Seq(Frame) /\ frames[1].kind = "remove"
  BY DEF RemoveEnd, Top, IndexInv, IndexType
<1>2. frames[1].place \in nodes
  BY <1>1 DEF IndexInv, RemovalOnTop
<1>3. frames' = Tail(frames) /\ UNCHANGED <<made, object>>
  BY <1>2 DEF RemoveEnd
<1>4. DueReferred(frames') /\ frames' \in Seq(Frame)
  BY <1>1, <1>3, DueKept, PoppedFrame DEF CountInv
<1>5. ASSUME NEW s PROVE Cardinality(Refs(frames', s)) = Cardinality(Refs(frames, s))
  <2>1. Refers(frames[1], s) = 0
    BY <1>1 DEF Refers
  <2> QED
    BY <1>1, <1>3, <2>1, PoppedRefs
<1> QED
  BY <1>3, <1>4, <1>5, CallsCount DEF IndexInv, IndexType

LEMMA CallsKeepCounts ==
    ASSUME IndexInv, CountInv, Calls
    PROVE  CountInv'
<1> DEFINE T == [id : Nat \X (Uniqueness \cup {0}), refs : Int, removed : BOOLEAN]
           Card(q, s) == Cardinality(Refs(q, s))
<1>1. /\ frames \in Seq(Frame) /\ DueReferred(frames) /\ object \in [Listeners -> T]
      /\ made' = made /\ frames' \in Seq(Frame)
  BY DEF Calls, IndexInv, IndexType, CountInv
<1>2. \A s : Card(frames, s) \in Nat /\ Card(frames', s) \in Nat
  BY <1>1, PushedRefs, NewFrames
<1>3. ASSUME NEW p \in Places, Begun(p) PROVE CountInv'
  <2> DEFINE S == OnTheWay(p)
             f == [NewFrame("notify") EXCEPT !.due = S, !.refers = S]
  <2>1. S \subseteq Live
    BY DEF OnTheWay, IndexInv, IndexType, Listed
  <2>2. Live \subseteq 1..made /\ 1..made \subseteq Listeners
    BY ListenerBoundsAssumption DEF Live, IndexInv, IndexType, Listeners
  <2>3. f \in Frame /\ f.kind = "notify" /\ f.due = S /\ f.refers = S
    BY <2>1, <2>2 DEF Frame, NewFrame, NoListener
  <2>4. frames' = <<f>> \o frames
        /\ object' = [s \in Listeners |->
                         IF s \in S THEN [object[s] EXCEPT !.refs = @ + 1] ELSE object[s]]
    BY <1>3 DEF Begun
  <2> HIDE DEF f, S
  <2>5. DueReferred(frames')
    BY <1>1, <2>1, <2>2, <2>3, <2>4, DueKept DEF FrameDue
  <2>6. ASSUME NEW s \in Listeners
        PROVE  /\ object'[s].id = object[s].id /\ object'[s].removed = object[s].removed
               /\ object'[s].refs = object[s].refs + Refers(f, s)
    <3>1. object[s] \in T
      BY <1>1
    <3> QED
      BY <2>3, <2>4, <3>1 DEF Refers
  <2>7. ASSUME NEW s PROVE Card(frames', s) = Card(frames, s) + Refers(f, s)
    BY <1>1, <2>3, <2>4, PushedRefs
  <2>8. ASSUME NEW s \in Listeners
        PROVE  object'[s].refs \in Int
               /\ object'[s].refs - Card(frames', s) = object[s].refs - Card(frames, s)
    <3>1. object[s].refs \in Int /\ Refers(f, s) \in Int
      BY <1>1 DEF Refers
    <3> HIDE DEF Card
    <3> QED
      BY <1>2, <2>6, <2>7, <3>1
  <2> QED
    BY <1>1, <2>5, <2>6, <2>8, CallsCount
<1>4. ASSUME NEW f \in Frame, Replaced(f), FrameDue(f), NEW s \in Listeners,
             object' = [object EXCEPT ![s].refs = @ - 1],
             f.kind = "notify", f.refers = frames[1].refers \ {s}, s \in frames[1].refers
      PROVE  CountInv'
  <2>1. frames' = [frames EXCEPT ![1] = f] /\ frames # <<>> /\ frames[1].kind = "notify"
    BY <1>4 DEF Replaced
  <2>2. DueReferred(frames')
    BY <1>1, <1>4, <2>1, DueKept
  <2>3. ASSUME NEW t \in Listeners
        PROVE  /\ object'[t].id = object[t].id /\ object'[t].removed = object[t].removed
               /\ object'[t].refs = object[t].refs - Refers(frames[1], t) + Refers(f, t)
               /\ object'[t].refs \in Int
    <3>1. object[t] \in T
      BY <1>1
    <3> QED
      BY <1>1, <1>4, <2>1, <3>1 DEF Refers
  <2>4. ASSUME NEW t PROVE Card(frames', t) = Card(frames, t) - Refers(frames[1], t) + Refers(f, t)
    BY <1>1, <2>1, ChangedRefs
  <2>5. ASSUME NEW t \in Listeners
        PROVE  object'[t].refs - Card(frames', t) = object[t].refs - Card(frames, t)
    <3>1. object[t].refs \in Int /\ Refers(f, t) \in Int /\ Refers(frames[1], t) \in Int
      BY <1>1 DEF Refers
    <3> HIDE DEF Card
    <3> QED
      BY <1>2, <2>3, <2>4, <3>1
  <2> QED
    BY <1>1, <2>2, <2>3, <2>5, CallsCount
<1>5. ASSUME NEW f \in Frame, Replaced(f), FrameDue(f), UNCHANGED object,
             f.kind = "notify" => f.refers = frames[1].refers
      PROVE  CountInv'
  <2>1. frames' = [frames EXCEPT ![1] = f] /\ frames # <<>> /\ frames[1].kind = f.kind
    BY <1>5 DEF Replaced
  <2>2. DueReferred(frames')
    BY <1>1, <1>5, <2>1, DueKept
  <2>3. ASSUME NEW t PROVE Card(frames', t) = Card(frames, t)
    <3>1. Refers(f, t) = Refers(frames[1], t) /\ Refers(f, t) \in Int
      BY <1>5, <2>1 DEF Refers
    <3>2. Card(frames', t) = Card(frames, t) - Refers(frames[1], t) + Refers(f, t)
      BY <1>1, <2>1, ChangedRefs
    <3> HIDE DEF Card
    <3> QED
      BY <1>2, <3>1, <3>2
  <2> QED
    BY <1>1, <1>5, <2>2, <2>3, CallsCount
<1>6. ASSUME UNCHANGED object, frames # <<>>, frames' = Tail(frames),
             \A s : Refers(frames[1], s) = 0
      PROVE  CountInv'
  <2>1. DueReferred(frames')
    BY <1>1, <1>6, DueKept
  <2>2. \A t : Card(frames', t) = Card(frames, t)
    BY <1>1, <1>2, <1>6, PoppedRefs
  <2> QED
    BY <1>1, <1>6, <2>1, <2>2, CallsCount
<1>7. ASSUME UNCHANGED object, NEW f \in Frame, f.kind = "remove_if", frames' = <<f>> \o frames
      PROVE  CountInv'
  <2>1. DueReferred(frames')
    BY <1>1, <1>7, DueKept DEF FrameDue
  <2>2. ASSUME NEW t PROVE Card(frames', t) = Card(frames, t)
    <3>1. Refers(f, t) = 0
      BY <1>7 DEF Refers
    <3>2. Card(frames', t) = Card(frames, t) + Refers(f, t)
      BY <1>1, <1>7, PushedRefs
    <3> HIDE DEF Card
    <3> QED
      BY <1>2, <3>1, <3>2
  <2> QED
    BY <1>1, <1>7, <2>1, <2>2, CallsCount
<1>8. ASSUME NEW s \in Listeners, Turn(s) PROVE CountInv'
  <2>1. PICK f \in Frame : /\ Replaced(f) /\ UNCHANGED object /\ f.kind = "notify"
                           /\ f.due \subseteq frames[1].due /\ f.refers = frames[1].refers
    BY <1>8 DEF Turn
  <2>2. FrameDue(f)
    BY <1>1, <2>1, DueKept DEF FrameDue, Replaced
  <2> QED
    BY <1>5, <2>1, <2>2
<1>9. ASSUME NEW s \in Listeners, Released(s) PROVE CountInv'
  <2>1. PICK f \in Frame : /\ Replaced(f) /\ object' = [object EXCEPT ![s].refs = @ - 1]
                           /\ f.kind = "notify" /\ f.due = {}
                           /\ f.refers = frames[1].refers \ {s} /\ s \in frames[1].refers
    BY <1>9 DEF Released
  <2>2. FrameDue(f)
    BY <1>1, <2>1, DueKept DEF FrameDue, Replaced
  <2> QED
    BY <1>4, <2>1, <2>2
<1>10. ASSUME Returned PROVE CountInv'
  <2>1. PICK f \in Frame : /\ Replaced(f) /\ UNCHANGED object
                           /\ f = [frames[1] EXCEPT !.running = NoListener]
    BY <1>10 DEF Returned
  <2>2. f.due = frames[1].due /\ f.refers = frames[1].refers
    BY <1>1, <2>1 DEF Replaced, Frame
  <2>3. FrameDue(f)
    BY <1>1, <2>1, <2>2, DueKept DEF FrameDue, Replaced
  <2> QED
    BY <1>5, <2>1, <2>2, <2>3
<1>11. ASSUME Several PROVE CountInv'
  <2>1. ASSUME NEW f \in Frame, Replaced(f), f.kind = "remove_if" PROVE CountInv'
    BY <1>5, <1>11, <2>1 DEF FrameDue, Several
  <2>2. ASSUME frames # <<>>, frames[1].kind = "remove_if", frames' = Tail(frames) PROVE CountInv'
    BY <1>6, <1>11, <2>2 DEF Refers, Several
  <2> QED
    BY <1>7, <1>11, <2>1, <2>2 DEF Several
<1>12. ASSUME Over PROVE CountInv'
  BY <1>6, <1>12 DEF Over, Refers
<1> QED
  BY <1>3, <1>8, <1>9, <1>10, <1>11, <1>12 DEF Calls

-----------------------------------------------------------------------------
(* The tree.                                                                 *)

Ends == {q \in Places : at[q] # {}} \cup {frames[n].place : n \in FramesOf("remove")}
TreeUpTo(E) == UNION {AtOrAbove(p) : p \in E}

TreeInv ==
    /\ nodes = TreeUpTo(Ends)
    /\ active \in Nat
    /\ status = "ok" => active = Cardinality(Live) + Cardinality(FramesOf("remove"))
    /\ status = "freed" => FramesOf("remove") = {} /\ Live = {}

LEMMA RemovalFrames ==
    ASSUME IndexInv
    PROVE  FramesOf("remove") = {} \/ (FramesOf("remove") = {1} /\ frames # <<>>
                                       /\ frames[1].kind = "remove")
BY DEF FramesOf, IndexInv, IndexType, RemovalOnTop

LEMMA LiveFinite ==
    ASSUME IndexInv
    PROVE  IsFiniteSet(Live) /\ Cardinality(Live) \in Nat /\ Live \subseteq 1..made
<1>1. Live \subseteq 1..made /\ made \in Nat
  BY DEF Live, IndexInv, IndexType
<1>2. IsFiniteSet(1..made)
  BY <1>1, FS_Interval
<1>3. IsFiniteSet(Live)
  BY <1>1, <1>2, FS_Subset
<1> QED
  BY <1>1, <1>3, FS_CardinalityType

LEMMA AddKeepsTree ==
    ASSUME IndexInv, TreeInv, NEW p \in Places, Add(p)
    PROVE  TreeInv'
<1> DEFINE l == made + 1
<1>1. /\ l \in Listeners /\ made \in Nat /\ made' = l /\ status = "ok" /\ status' = status
      /\ frames' = frames /\ active' = active + 1 /\ nodes' = nodes \cup AtOrAbove(p)
      /\ at' = [at EXCEPT ![p] = @ \cup {l}]
  BY ListenerBoundsAssumption DEF Add, IndexInv, IndexType, Listeners
<1>2. Live' = Live \cup {l} /\ l \notin Live
  <2>1. /\ ~ object'[l].removed
        /\ \A s \in 1..made : object'[s] = object[s]
    BY <1>1, ListenerBoundsAssumption DEF Add, IndexInv, IndexType, Listeners
  <2> QED
    BY <1>1, <2>1 DEF Live
<1>3. Cardinality(Live') = Cardinality(Live) + 1
  BY <1>2, LiveFinite, FS_AddElement
<1>4. FramesOf("remove")' = FramesOf("remove")
  BY <1>1 DEF FramesOf
<1>5. Cardinality(FramesOf("remove")) \in Nat
  <2>1. Cardinality({}) = 0 /\ Cardinality({1}) = 1
    BY FS_EmptySet, FS_Singleton
  <2>2. FramesOf("remove") = {} \/ FramesOf("remove") = {1}
    BY RemovalFrames
  <2> QED
    BY <2>1, <2>2
<1>6. active' \in Nat /\ (status = "ok" => active = Cardinality(Live) + Cardinality(FramesOf("remove")))'
  BY <1>1, <1>3, <1>4, <1>5, LiveFinite DEF TreeInv
<1>7. Ends' = Ends \cup {p}
  <2>1. {q \in Places : at'[q] # {}} = {q \in Places : at[q] # {}} \cup {p}
    BY <1>1 DEF IndexInv, IndexType
  <2> QED
    BY <1>1, <1>4, <2>1 DEF Ends
<1>8. nodes' = TreeUpTo(Ends')
  BY <1>1, <1>7 DEF TreeInv, TreeUpTo, AtOrAbove
<1> QED
  BY <1>1, <1>6, <1>8 DEF TreeInv, TreeUpTo, AtOrAbove

LEMMA UnlinkedKeepsTree ==
    ASSUME IndexInv, IndexInv', TreeInv, NEW s \in Live, Unlinked(s), Live' = Live \ {s}
    PROVE  TreeInv'
<1> DEFINE p == flat[IndexOf(s)]
<1>1. p \in Places /\ s \in at[p]
  BY DEF IndexInv, Placed
<1>2. PICK q \in Seq(Frame), f \in Frame :
        /\ frames' = <<f>> \o q
        /\ f.kind = "remove" /\ f.place = p
        /\ \A n \in DOMAIN q : q[n].kind # "remove"
        /\ q = frames \/ frames[1].kind = "remove_if"
        /\ at' = [at EXCEPT ![p] = @ \ {s}]
        /\ UNCHANGED <<nodes, active, status>>
  BY DEF Unlinked
<1>3. frames'[1] = f /\ FramesOf("remove")' = {1}
  <2>1. frames'[1] = f /\ 1 \in DOMAIN frames'
    BY <1>2, PushedFrame
  <2> QED
    BY <1>2, <2>1, RemovalFrames DEF FramesOf, IndexInv, RemovalOnTop
<1>4. FramesOf("remove") = {}
  BY <1>2, RemovalFrames DEF FramesOf
<1>5. Ends' = Ends \cup {p} /\ p \in Ends
  <2>1. {r \in Places : at'[r] # {}} \cup {p} = {r \in Places : at[r] # {}} \cup {p}
    BY <1>1, <1>2 DEF IndexInv, IndexType
  <2>2. {frames'[n].place : n \in FramesOf("remove")'} = {p}
    BY <1>2, <1>3
  <2> QED
    BY <1>1, <1>4, <2>1, <2>2 DEF Ends
<1>6. nodes' = TreeUpTo(Ends')
  <2>1. Ends' = Ends
    BY <1>5
  <2> QED
    BY <1>2, <2>1 DEF TreeInv, TreeUpTo, AtOrAbove
<1>7. Cardinality(Live') = Cardinality(Live) - 1 /\ Cardinality(Live) \in Nat
  BY LiveFinite, FS_RemoveElement
<1>8. Cardinality(FramesOf("remove")') = 1 /\ Cardinality(FramesOf("remove")) = 0
  BY <1>3, <1>4, FS_EmptySet, FS_Singleton
<1>9. status = "ok" /\ status' = "ok"
  BY <1>2 DEF TreeInv, IndexInv, IndexType
<1>10. active' = active /\ active = Cardinality(Live) + Cardinality(FramesOf("remove"))
       /\ active \in Nat
  BY <1>2, <1>9 DEF TreeInv
<1> QED
  BY <1>6, <1>7, <1>8, <1>9, <1>10 DEF TreeInv, TreeUpTo, AtOrAbove

LEMMA RemoveEndKeepsTree ==
    ASSUME IndexInv, TreeInv, RemoveEnd
    PROVE  TreeInv'
<1> DEFINE p == frames[1].place
<1>1. frames # <<>> /\ frames \in Seq(Frame) /\ frames[1].kind = "remove" /\ 1 \in DOMAIN frames
  BY DEF RemoveEnd, Top, IndexInv, IndexType
<1>2. p \in nodes /\ p \in Places /\ FramesOf("remove") = {1}
  BY <1>1, RemovalFrames DEF IndexInv, IndexType, RemovalOnTop, FramesOf
<1>3. /\ nodes' = nodes \ Pointless(p) /\ active' = active - 1 /\ frames' = Tail(frames)
      /\ UNCHANGED <<at, object, status, made>>
  BY <1>2 DEF RemoveEnd
<1>4. FramesOf("remove")' = {}
  BY <1>1, <1>2, <1>3, PoppedFrame DEF FramesOf, IndexInv, RemovalOnTop
<1>5. Ends = Ends' \cup {p} /\ Ends' = {q \in Places : at[q] # {}}
  BY <1>2, <1>3, <1>4 DEF Ends
<1>6. ASSUME NEW q \in nodes' PROVE q \in TreeUpTo(Ends')
  <2>1. q \in nodes /\ q \notin Pointless(p) /\ q \in Places /\ q \in Seq(Names)
    BY <1>3, PlacesAssumption DEF IndexInv, IndexType
  <2>2. PICK r \in nodes : IsBelow(q, r) /\ (~ IsBelow(r, p) \/ at[r] # {})
    BY <2>1 DEF Pointless
  <2>3. r \in Places /\ r \in Seq(Names)
    BY PlacesAssumption DEF IndexInv, IndexType
  <2>4. CASE at[r] # {}
    BY <1>5, <2>1, <2>2, <2>3, <2>4 DEF TreeUpTo, AtOrAbove
  <2>5. CASE ~ IsBelow(r, p)
    <3>1. PICK e \in Ends : r \in AtOrAbove(e)
      BY DEF TreeInv, TreeUpTo
    <3>2. e \in Ends' /\ IsBelow(r, e) /\ e \in Seq(Names)
      BY <1>5, <2>5, <3>1, PlacesAssumption DEF AtOrAbove
    <3>3. IsBelow(q, e)
      BY <2>1, <2>2, <2>3, <3>2, BelowTransitive
    <3> QED
      BY <2>1, <3>2, <3>3 DEF TreeUpTo, AtOrAbove
  <2> QED
    BY <2>2, <2>4, <2>5
<1>7. ASSUME NEW q \in TreeUpTo(Ends') PROVE q \in nodes'
  <2>1. PICK e \in Ends' : q \in Places /\ IsBelow(q, e)
    BY DEF TreeUpTo, AtOrAbove
  <2>2. e \in Places /\ at[e] # {} /\ e \in Ends
    BY <1>5
  <2>3. q \in nodes /\ e \in nodes
    <3>1. IsBelow(e, e)
      BY <2>2, PlacesAssumption, BelowReflexive
    <3> QED
      BY <2>1, <2>2, <3>1 DEF TreeInv, TreeUpTo, AtOrAbove
  <2>4. q \notin Pointless(p)
    BY <2>1, <2>2, <2>3 DEF Pointless
  <2> QED
    BY <1>3, <2>3, <2>4
<1>8. nodes' = TreeUpTo(Ends')
  BY <1>6, <1>7
<1>9. Live' = Live
  BY <1>3 DEF Live
<1>10. status = "ok"
  BY <1>2 DEF TreeInv, IndexInv, IndexType
<1>11. Cardinality(FramesOf("remove")) = 1 /\ Cardinality(FramesOf("remove")') = 0
       /\ Cardinality(Live) \in Nat
  BY <1>2, <1>4, FS_EmptySet, FS_Singleton, LiveFinite
<1>12. active = Cardinality(Live) + Cardinality(FramesOf("remove")) /\ active' = active - 1
  BY <1>3, <1>10 DEF TreeInv
<1>13. active' \in Nat /\ active' = Cardinality(Live') + Cardinality(FramesOf("remove")')
  BY <1>9, <1>11, <1>12
<1>14. (status = "freed" => FramesOf("remove") = {} /\ Live = {})'
  BY <1>3, <1>10
<1> QED
  BY <1>8, <1>13, <1>14 DEF TreeInv, TreeUpTo, AtOrAbove

LEMMA FreeKeepsTree ==
    ASSUME IndexInv, TreeInv, Free, Live' = {}
    PROVE  TreeInv'
<1>1. /\ status' = "freed" /\ nodes' = {} /\ at' = [p \in Places |-> {}] /\ active' = 0
      /\ frames' = frames /\ \A n \in DOMAIN frames : frames[n].kind = "notify"
  BY DEF Free
<1>2. FramesOf("remove")' = {}
  BY <1>1 DEF FramesOf
<1>3. Ends' = {}
  BY <1>1, <1>2 DEF Ends
<1>4. nodes' = TreeUpTo(Ends')
  BY <1>1, <1>3 DEF TreeUpTo
<1> QED
  BY <1>1, <1>2, <1>4 DEF TreeInv, TreeUpTo, AtOrAbove

LEMMA CallsKeepTree ==
    ASSUME IndexInv, TreeInv, Calls, Live' = Live,
           \A n \in DOMAIN frames' : frames'[n].kind # "remove"
    PROVE  TreeInv'
<1>1. UNCHANGED <<table, status>> /\ \A n \in DOMAIN frames : frames[n].kind # "remove"
  BY DEF Calls
<1>2. FramesOf("remove") = {} /\ FramesOf("remove")' = {}
  BY <1>1 DEF FramesOf
<1>3. Ends' = Ends
  BY <1>1, <1>2 DEF Ends, table
<1> QED
  BY <1>1, <1>2, <1>3 DEF TreeInv, TreeUpTo, AtOrAbove, table

-----------------------------------------------------------------------------

TableInv == IndexInv /\ CountInv /\ TreeInv

LEMMA TableInvInit == Init => TableInv
<1> SUFFICES ASSUME Init PROVE TableInv
  OBVIOUS
<1>1. Live = {} /\ FramesOf("remove") = {} /\ frames = <<>> /\ status = "ok" /\ active = 0
      /\ nodes = {}
  BY DEF Init, Live, FramesOf
<1>2. \A s : Cardinality(Refs(frames, s)) = 0
  <2>1. \A s : Refs(frames, s) = {}
    BY <1>1 DEF Refs
  <2> QED
    BY <2>1, FS_EmptySet
<1>3. CountInv
  <2>1. Counted
    BY <1>1, <1>2 DEF Counted, Init, NoObject
  <2>2. IdsBounded
    BY ListenerBoundsAssumption DEF IdsBounded, Init, NoObject
  <2> QED
    BY <1>1, <2>1, <2>2 DEF CountInv, DueReferred
<1>4. TreeInv
  <2>1. Ends = {}
    BY <1>1 DEF Ends, Init
  <2>2. nodes = TreeUpTo(Ends)
    BY <1>1, <2>1 DEF TreeUpTo
  <2> QED
    BY <1>1, <2>2, FS_EmptySet DEF TreeInv
<1> QED
  BY <1>3, <1>4, IndexInvInit DEF TableInv

LEMMA TableInvStep ==
    ASSUME TableInv, DestroyActs = FALSE, [Next]_vars
    PROVE  TableInv'
<1>1. IndexInv'
  BY IndexInvStep DEF TableInv
<1>2. ASSUME NEW p \in Places, Add(p) PROVE TableInv'
  BY <1>1, <1>2, AddCounts, AddKeepsTree DEF TableInv
<1>3. ASSUME NEW s \in Live, Unlinked(s) PROVE TableInv'
  BY <1>1, <1>3, UnlinkedCounts, UnlinkedKeepsTree DEF TableInv
<1>4. CASE RemoveEnd
  BY <1>1, <1>4, RemoveEndCounts, RemoveEndKeepsTree DEF TableInv
<1>5. CASE Free
  BY <1>1, <1>5, FreeCounts, FreeKeepsTree DEF TableInv
<1>6. CASE Calls
  BY <1>1, <1>6, CallsFacts, CallsKeepCounts, CallsKeepTree DEF TableInv
<1>7. CASE UNCHANGED vars
  <2>1. UNCHANGED <<Live, Ends, FramesOf("remove")>>
    BY <1>7 DEF vars, table, Live, Ends, FramesOf
  <2>2. CountInv'
    BY <1>7, <2>1 DEF vars, table, TableInv, CountInv, Counted, DueReferred, Refs, IdsBounded
  <2>3. TreeInv'
    BY <1>7, <2>1 DEF vars, table, TableInv, TreeInv, TreeUpTo, AtOrAbove
  <2> QED
    BY <1>1, <2>2, <2>3 DEF TableInv
<1> QED
  BY <1>2, <1>3, <1>4, <1>5, <1>6, <1>7, StepShape DEF TableInv

LEMMA TableInvariant ==
    ASSUME DestroyActs = FALSE
    PROVE  Spec => []TableInv
BY TableInvInit, TableInvStep, PTL DEF Spec

(* No call crashes in the tree; a node is there exactly when a listener sits  *)
(* at or below it, or the removal under way needs it; active_listeners is     *)
(* right (ltable_insert, ltable_remove, ltable_entry_destroy).               *)
THEOREM TreeStaysMinimal ==
    ASSUME DestroyActs = FALSE
    PROVE  Spec => []TreeMinimal
<1>1. TableInv => TreeMinimal
  BY DEF TableInv, IndexInv, IndexType, TreeInv, TreeMinimal, TreeUpTo, Ends
<1> QED
  BY <1>1, TableInvariant, PTL

(* Type correctness, and the reference counts (listener_ref, listener_unref):  *)
(* a listener is destroyed when the table and the last notification that      *)
(* refers to it have let it go, and none is called after that.               *)
THEOREM ReferencesStayCounted ==
    ASSUME DestroyActs = FALSE
    PROVE  Spec => []ReferencesCounted
<1>1. ASSUME TableInv PROVE ReferencesCounted
  <2>1. IndexType /\ CountInv /\ TreeInv /\ 1..made \subseteq Listeners
    BY <1>1, ListenerBoundsAssumption DEF TableInv, IndexInv, IndexType, Listeners
  <2>2. ASSUME NEW s \in Listeners
        PROVE  /\ Refs(frames, s) = {n \in FramesOf("notify") : s \in frames[n].refers}
               /\ Cardinality(Refs(frames, s)) \in Nat /\ IsFiniteSet(Refs(frames, s))
    <3>1. Refs(frames, s) = {n \in FramesOf("notify") : s \in frames[n].refers}
      BY DEF Refs, FramesOf
    <3>2. Refs(frames, s) \subseteq 1..Len(frames) /\ Len(frames) \in Nat
      BY <2>1 DEF Refs, IndexType
    <3>3. IsFiniteSet(1..Len(frames))
      BY <3>2, FS_Interval
    <3>4. IsFiniteSet(Refs(frames, s))
      BY <3>2, <3>3, FS_Subset
    <3> QED
      BY <3>1, <3>4, FS_CardinalityType
  <2>3. object \in [Listeners -> Object]
    <3>1. ASSUME NEW s \in Listeners PROVE object[s] \in Object
      <4>1. object[s] \in [id : Nat \X (Uniqueness \cup {0}), refs : Int, removed : BOOLEAN]
        BY <2>1 DEF IndexType
      <4>2. object[s].refs = (IF s \in Live THEN 1 ELSE 0) + Cardinality(Refs(frames, s))
        BY <2>1 DEF CountInv, Counted
      <4>3. object[s].refs \in Nat
        BY <2>2, <4>2
      <4>4. object[s].id[1] \in Indices \cup {0}
        BY <2>1, <4>1, ListenerBoundsAssumption DEF CountInv, IdsBounded, Indices
      <4>5. object[s].id \in (Indices \cup {0}) \X (Uniqueness \cup {0})
        BY <4>1, <4>4
      <4> QED
        BY <4>1, <4>3, <4>5 DEF Object
    <3> QED
      BY <2>1, <3>1 DEF IndexType
  <2>4. TypeOK
    <3>1. recycled \in SUBSET Indices
      BY <2>1, ListenerBoundsAssumption DEF IndexType, Indices
    <3> QED
      BY <2>1, <2>3, <3>1 DEF IndexType, TypeOK, TreeInv
  <2>5. ASSUME NEW s \in 1..made, NEW n \in FramesOf("notify"), s \in frames[n].due
        PROVE  object[s].refs > 0
    <3>1. n \in Refs(frames, s)
      BY <2>1, <2>5 DEF CountInv, DueReferred, FramesOf, Refs
    <3>2. s \in Listeners
      BY <2>1
    <3>3. Cardinality(Refs(frames, s)) # 0
      BY <2>2, <3>1, <3>2, FS_EmptySet
    <3> QED
      BY <2>1, <2>2, <3>2, <3>3 DEF CountInv, Counted
  <2> QED
    BY <2>1, <2>2, <2>4, <2>5 DEF ReferencesCounted, CountInv, Counted
<1> QED
  BY <1>1, TableInvariant, PTL

-----------------------------------------------------------------------------
(* The table implements the registry.                                        *)

OwedSeq == Seq([due : SUBSET Listeners, running : Listeners \cup {NoListener}])
Lasts(q, g) == [n \in 0..Len(q) |->
                   IF n = 0 THEN <<>> ELSE Owed(q[Len(q) + 1 - n]) \o g[n - 1]]
LastsOf(q) == CHOOSE g : g = Lasts(q, g)

LEMMA OwedByLasts == \A q : OwedBy(q) = LastsOf(q)[Len(q)]
BY DEF OwedBy, LastsOf, Lasts

(* Induction, as the least number of a set.                                   *)
LEMMA LeastNumber ==
    ASSUME NEW T \in SUBSET Nat, T # {}
    PROVE  \E n \in T : \A m \in T : n <= m
<1>1. IsWellFoundedOn(OpToRel(<, Nat), Nat)
  BY NatLessThanWellFounded
<1>2. \A m, n \in Nat : <<m, n>> \in OpToRel(<, Nat) <=> m < n
  BY DEF OpToRel
<1> DEFINE R == OpToRel(<, Nat)
<1> HIDE DEF R
<1>3. PICK n \in T : \A m \in T : ~ (<<m, n>> \in R)
  BY <1>1, WFMin DEF R
<1>4. \A m \in T : ~ (m < n)
  BY <1>2, <1>3 DEF R
<1> QED
  BY <1>4

LEMMA SeqsJoin ==
    ASSUME NEW S
    PROVE  <<>> \in Seq(S) /\ \A r, s \in Seq(S) : r \o s \in Seq(S)
OBVIOUS

LEMMA OwedTyped ==
    ASSUME NEW f \in Frame
    PROVE  Owed(f) \in OwedSeq
<1> DEFINE S == [due : SUBSET Listeners, running : Listeners \cup {NoListener}]
           o == [due |-> f.due, running |-> f.running]
<1>1. o \in S
  BY DEF Frame
<1>2. Owed(f) = <<o>> \/ Owed(f) = <<>>
  BY DEF Owed
<1> HIDE DEF o, S
<1>3. <<o>> \in Seq(S) /\ <<>> \in Seq(S)
  BY <1>1
<1> QED
  BY <1>2, <1>3 DEF OwedSeq, S

LEMMA LastsExist ==
    ASSUME NEW q \in Seq(Frame)
    PROVE  \E g \in [0..Len(q) -> OwedSeq] : g = Lasts(q, g)
<1> DEFINE Right(g, n) == \A m \in 0..Len(q) : m <= n => g[m] = Lasts(q, g)[m]
           Fns == [0..Len(q) -> OwedSeq]
           T == {n \in Nat : ~ \E g \in Fns : Right(g, n)}
<1>1. /\ Len(q) \in Nat
      /\ \A n \in 1..Len(q) : Owed(q[Len(q) + 1 - n]) \in OwedSeq
      /\ <<>> \in OwedSeq /\ \A r, s \in OwedSeq : r \o s \in OwedSeq
  <2>1. Len(q) \in Nat /\ \A n \in 1..Len(q) : Len(q) + 1 - n \in 1..Len(q)
    OBVIOUS
  <2>2. ASSUME NEW n \in 1..Len(q) PROVE Owed(q[Len(q) + 1 - n]) \in OwedSeq
    <3>1. q[Len(q) + 1 - n] \in Frame
      BY <2>1
    <3> QED
      BY <3>1, OwedTyped
  <2>3. <<>> \in OwedSeq /\ \A r, s \in OwedSeq : r \o s \in OwedSeq
    BY SeqsJoin DEF OwedSeq
  <2> QED
    BY <2>1, <2>2, <2>3
<1>2. 0 \notin T
  <2> DEFINE g == [n \in 0..Len(q) |-> <<>>]
  <2>1. g \in Fns /\ Right(g, 0)
    BY <1>1 DEF Lasts
  <2> QED
    BY <2>1
<1>3. ASSUME NEW n \in Nat, n \notin T PROVE n + 1 \notin T
  <2>1. PICK g \in Fns : Right(g, n)
    BY <1>3
  <2> DEFINE h == [m \in 0..Len(q) |-> IF m <= n THEN g[m] ELSE Lasts(q, g)[m]]
  <2>2. h \in Fns
    <3>1. ASSUME NEW m \in 0..Len(q) PROVE Lasts(q, g)[m] \in OwedSeq
      <4>1. m # 0 => m - 1 \in 0..Len(q) /\ m \in 1..Len(q)
        BY <1>1
      <4>2. m # 0 => g[m - 1] \in OwedSeq
        BY <4>1
      <4> QED
        BY <1>1, <4>1, <4>2 DEF Lasts
    <3> QED
      BY <3>1
  <2>3. ASSUME NEW m \in 0..Len(q), m <= n + 1 PROVE h[m] = Lasts(q, h)[m]
    <3>1. h[m] = Lasts(q, g)[m]
      BY <2>1
    <3>2. CASE m = 0
      BY <3>1, <3>2 DEF Lasts
    <3>3. CASE m # 0
      <4>1. m - 1 \in 0..Len(q) /\ m - 1 <= n
        BY <1>1, <2>3, <3>3
      <4>2. h[m - 1] = g[m - 1]
        BY <4>1
      <4> QED
        BY <3>1, <3>3, <4>2 DEF Lasts
    <3> QED
      BY <3>2, <3>3
  <2>4. Right(h, n + 1)
    BY <2>3
  <2> HIDE DEF h
  <2> QED
    BY <2>2, <2>4
<1>4. T = {}
  <2> SUFFICES ASSUME T # {} PROVE FALSE
    OBVIOUS
  <2>1. T \subseteq Nat
    OBVIOUS
  <2> HIDE DEF T
  <2>2. PICK n \in T : \A m \in T : n <= m
    BY <2>1, LeastNumber
  <2>3. n \in Nat /\ n # 0 /\ n - 1 \in Nat
    BY <1>2, <2>1, <2>2
  <2>4. n - 1 \notin T
    BY <2>1, <2>2, <2>3
  <2> QED
    BY <1>3, <2>2, <2>3, <2>4
<1>5. PICK g \in Fns : Right(g, Len(q))
  BY <1>1, <1>4
<1>6. g = Lasts(q, g)
  <2>1. \A n \in 0..Len(q) : g[n] = Lasts(q, g)[n]
    BY <1>1, <1>5
  <2> QED
    BY <2>1 DEF Lasts
<1> QED
  BY <1>6

(* Two stacks with the same outermost calls owe the same there.              *)
LEMMA SameLasts ==
    ASSUME NEW q \in Seq(Frame), NEW r \in Seq(Frame), Len(q) <= Len(r),
           \A n \in 1..Len(q) : r[Len(r) + 1 - n] = q[Len(q) + 1 - n],
           NEW g, g = Lasts(q, g), NEW h, h = Lasts(r, h)
    PROVE  \A n \in 0..Len(q) : g[n] = h[n]
<1> DEFINE L == Len(q)
           T == {n \in 0..L : g[n] # h[n]}
<1>1. L \in Nat /\ Len(r) \in Nat
  OBVIOUS
<1>2. /\ \A n \in 0..L : g[n] = IF n = 0 THEN <<>> ELSE Owed(q[L + 1 - n]) \o g[n - 1]
      /\ \A n \in 0..Len(r) : h[n] = IF n = 0 THEN <<>> ELSE Owed(r[Len(r) + 1 - n]) \o h[n - 1]
  BY DEF Lasts
<1>3. T = {}
  <2> SUFFICES ASSUME T # {} PROVE FALSE
    OBVIOUS
  <2>1. T \subseteq Nat
    BY <1>1
  <2>2. PICK n \in T : \A m \in T : n <= m
    BY <2>1, LeastNumber
  <2>3. n \in 0..L /\ n # 0 /\ n \in 1..L /\ n - 1 \in 0..L /\ n - 1 \notin T /\ n \in 0..Len(r)
    BY <1>1, <1>2, <2>1, <2>2
  <2>4. g[n - 1] = h[n - 1] /\ g[n] # h[n]
    BY <2>2, <2>3
  <2> QED
    BY <1>1, <1>2, <2>3, <2>4
<1> QED
  BY <1>3

LEMMA LastsMean ==
    ASSUME NEW q \in Seq(Frame)
    PROVE  LastsOf(q) = Lasts(q, LastsOf(q)) /\ OwedBy(q) \in OwedSeq
<1> DEFINE g == LastsOf(q)
<1>1. PICK h \in [0..Len(q) -> OwedSeq] : h = Lasts(q, h)
  BY LastsExist
<1>2. g = Lasts(q, g)
  BY <1>1, Zenon DEF LastsOf
<1> HIDE DEF g
<1>3. \A n \in 0..Len(q) : g[n] = h[n]
  BY <1>1, <1>2, SameLasts
<1>4. Len(q) \in 0..Len(q)
  OBVIOUS
<1>5. g[Len(q)] \in OwedSeq
  BY <1>1, <1>3, <1>4
<1> QED
  BY <1>2, <1>5, OwedByLasts DEF g

(* What is owed by a stack with one call more.                               *)
LEMMA OwedPushed ==
    ASSUME NEW q \in Seq(Frame), NEW f \in Frame
    PROVE  OwedBy(<<f>> \o q) = Owed(f) \o OwedBy(q)
<1> DEFINE r == <<f>> \o q
           L == Len(q)
           g == LastsOf(q)
           h == LastsOf(r)
<1>1. /\ r \in Seq(Frame) /\ Len(r) = L + 1 /\ L \in Nat /\ r[1] = f
      /\ \A n \in 1..L : r[Len(r) + 1 - n] = q[L + 1 - n]
  OBVIOUS
<1>2. g = Lasts(q, g) /\ h = Lasts(r, h)
  BY <1>1, LastsMean
<1> HIDE DEF r, g, h
<1>3. \A n \in 0..(L + 1) : h[n] = IF n = 0 THEN <<>> ELSE Owed(r[Len(r) + 1 - n]) \o h[n - 1]
  BY <1>1, <1>2 DEF Lasts
<1>4. \A n \in 0..L : g[n] = h[n]
  <2>1. r \in Seq(Frame) /\ Len(q) <= Len(r)
        /\ \A n \in 1..Len(q) : r[Len(r) + 1 - n] = q[Len(q) + 1 - n]
    BY <1>1
  <2> QED
    BY <1>2, <2>1, SameLasts
<1>5. h[L + 1] = Owed(f) \o g[L]
  <2>1. L + 1 \in 0..(L + 1) /\ L + 1 # 0 /\ L + 1 - 1 = L /\ Len(r) + 1 - (L + 1) = 1
        /\ L \in 0..L
    BY <1>1
  <2>2. h[L + 1] = Owed(r[1]) \o h[L]
    <3>1. \A n \in 0..(L + 1) : n # 0 => h[n] = Owed(r[Len(r) + 1 - n]) \o h[n - 1]
      BY <1>3
    <3> DEFINE k == L + 1
    <3>2. k \in 0..(L + 1) /\ k # 0 /\ k - 1 = L /\ Len(r) + 1 - k = 1
      BY <2>1
    <3> HIDE DEF k
    <3>3. h[k] = Owed(r[Len(r) + 1 - k]) \o h[k - 1]
      BY <3>1, <3>2
    <3>4. h[k] = Owed(r[1]) \o h[L]
      BY <3>2, <3>3
    <3> QED
      BY <3>4 DEF k
  <2>3. h[L] = g[L]
    BY <1>4, <2>1
  <2> QED
    BY <1>1, <2>2, <2>3
<1> QED
  BY <1>1, <1>5, OwedByLasts DEF g, h, r

LEMMA OwedStack ==
    ASSUME NEW q \in Seq(Frame)
    PROVE  /\ OwedBy(q) \in OwedSeq
           /\ q # <<>> => OwedBy(q) = Owed(q[1]) \o OwedBy(Tail(q))
           /\ \A f \in Frame : q # <<>> =>
                 OwedBy([q EXCEPT ![1] = f]) = Owed(f) \o OwedBy(Tail(q))
<1>1. OwedBy(q) \in OwedSeq
  BY LastsMean
<1>2. ASSUME q # <<>> PROVE OwedBy(q) = Owed(q[1]) \o OwedBy(Tail(q))
  <2>1. q = <<q[1]>> \o Tail(q) /\ q[1] \in Frame /\ Tail(q) \in Seq(Frame)
    BY <1>2
  <2> QED
    BY <2>1, OwedPushed
<1>3. ASSUME NEW f \in Frame, q # <<>>
      PROVE  OwedBy([q EXCEPT ![1] = f]) = Owed(f) \o OwedBy(Tail(q))
  <2>1. [q EXCEPT ![1] = f] = <<f>> \o Tail(q) /\ Tail(q) \in Seq(Frame)
    BY <1>3
  <2> QED
    BY <2>1, OwedPushed
<1> QED
  BY <1>1, <1>2, <1>3

(* A live listener is in the list of its place.                              *)
Seated ==
    /\ \A s \in Live : /\ PlaceOf(s) \in Places /\ PlaceOf(s) # Nowhere
                       /\ s \in at[PlaceOf(s)] /\ PlaceOf(s) \in nodes
    /\ \A p \in Places : \A s \in at[p] : s \in Live /\ PlaceOf(s) = p
    /\ \A s : s \notin Live => PlaceOf(s) = Nowhere

LEMMA SeatsFound == TableInv => Seated
<1> SUFFICES ASSUME TableInv PROVE Seated
  OBVIOUS
<1>1. ASSUME NEW p \in Places, NEW s \in at[p] PROVE s \in Live /\ PlaceOf(s) = p /\ p \in nodes
  <2>1. \A q \in Places : s \in at[q] => q = flat[IndexOf(s)]
    BY DEF TableInv, IndexInv, Listed
  <2>2. s \in Live /\ p \in nodes
    BY DEF TableInv, IndexInv, Listed
  <2>3. (CHOOSE q \in Places : s \in at[q]) = p
    BY <1>1, <2>1
  <2> QED
    BY <2>2, <2>3 DEF PlaceOf
<1>2. ASSUME NEW s \in Live PROVE \E p \in Places : s \in at[p]
  BY DEF TableInv, IndexInv, Placed
<1> QED
  BY <1>1, <1>2, PlacesAssumption DEF Seated, PlaceOf

LEMMA SeatsFoundAfter == TableInv' => Seated'
BY SeatsFound, PTL

Where == [s \in Listeners |-> PlaceOf(s)]
Retired == {s \in 1..made : object[s].removed}

LEMMA RegistryListening ==
    ASSUME TableInv
    PROVE  {s \in Listeners : Where[s] # Nowhere} = Live /\ Live \subseteq Listeners
           /\ Live \cap Retired = {} /\ Live \cup Retired = 1..made
<1>1. Live \subseteq Listeners
  BY LiveTyped DEF TableInv, IndexInv
<1>2. Seated
  BY SeatsFound
<1> QED
  BY <1>1, <1>2 DEF Seated, Where, Live, Retired

LEMMA AddRefines ==
    ASSUME TableInv, TableInv', NEW p \in Places, Add(p)
    PROVE  \E s \in Listeners : Registry!Add(s, p)
<1>0. PICK l \in Listeners : l = made + 1
  BY ListenerBoundsAssumption DEF Add, TableInv, IndexInv, IndexType, Listeners
<1>1. /\ made \in Nat /\ made' = l /\ status = "ok" /\ frames' = frames
      /\ at' = [at EXCEPT ![p] = @ \cup {l}]
      /\ ~ object'[l].removed /\ \A s \in 1..made : object'[s] = object[s] /\ s # l
  BY <1>0, ListenerBoundsAssumption DEF Add, TableInv, IndexInv, IndexType, Listeners
<1>2. Live' = Live \cup {l} /\ Retired' = Retired
  <2>1. 1..made' = (1..made) \cup {l}
    BY <1>0, <1>1
  <2> QED
    BY <1>1, <2>1 DEF Live, Retired
<1>3. Seated /\ Seated' /\ at \in [Places -> SUBSET Listeners]
  BY SeatsFound, SeatsFoundAfter DEF TableInv, IndexInv, IndexType
<1>4. \A s \in Listeners : PlaceOf(s)' = IF s = l THEN p ELSE PlaceOf(s)
  <2>1. l \in at'[p]
    BY <1>1, <1>3
  <2>2. \A s \in Live : s \in at'[PlaceOf(s)]
    BY <1>1, <1>3 DEF Seated
  <2>3. PlaceOf(l)' = p
    BY <1>3, <2>1 DEF Seated
  <2>4. \A s \in Live : PlaceOf(s)' = PlaceOf(s)
    BY <1>3, <2>2 DEF Seated
  <2>5. \A s : s # l /\ s \notin Live => PlaceOf(s)' = Nowhere /\ PlaceOf(s) = Nowhere
    BY <1>2, <1>3 DEF Seated
  <2> QED
    BY <2>3, <2>4, <2>5
<1>5. Where' = [Where EXCEPT ![l] = p]
  BY <1>1, <1>4 DEF Where
<1>6. l \notin {s \in Listeners : Where[s] # Nowhere} \cup Retired
  BY <1>1, RegistryListening
<1>7. OwedBy(frames)' = OwedBy(frames)
  BY <1>1
<1>8. Registry!Add(l, p)
  BY <1>2, <1>5, <1>6, <1>7 DEF Registry!Add, Registry!Listening, Where, Retired
<1> QED
  BY <1>1, <1>8

(* Listeners go, and no other moves.                                         *)
LEMMA DropsRefine ==
    ASSUME TableInv, TableInv', NEW D \in SUBSET Live, Live' = Live \ D, made' = made,
           \A p \in Places : at'[p] = at[p] \ D, OwedBy(frames)' = OwedBy(frames)
    PROVE  \E S \in SUBSET Listeners : Registry!Remove(S)
<1>1. Seated /\ Seated'
  BY SeatsFound, SeatsFoundAfter
<1>2. D \subseteq Listeners /\ D \subseteq {s \in Listeners : Where[s] # Nowhere}
  BY RegistryListening
<1>3. Retired' = Retired \cup D
  <2>1. Retired = (1..made) \ Live /\ Retired' = (1..made) \ Live'
    BY DEF Retired, Live
  <2>2. Live \subseteq 1..made
    BY DEF Live
  <2> QED
    BY <2>1, <2>2
<1>4. ASSUME NEW s \in Listeners PROVE PlaceOf(s)' = IF s \in D THEN Nowhere ELSE PlaceOf(s)
  <2>1. CASE s \in Live'
    BY <1>1, <2>1 DEF Seated
  <2>2. CASE s \notin Live'
    BY <1>1, <2>2 DEF Seated
  <2> QED
    BY <2>1, <2>2
<1>5. Where' = [s \in Listeners |-> IF s \in D THEN Nowhere ELSE Where[s]]
  BY <1>4 DEF Where
<1>6. Registry!Remove(D)
  BY <1>2, <1>3, <1>5 DEF Registry!Remove, Registry!Listening, Where, Retired
<1> QED
  BY <1>2, <1>6

LEMMA UnlinkedRefines ==
    ASSUME TableInv, TableInv', NEW s \in Live, Unlinked(s)
    PROVE  \E S \in SUBSET Listeners : Registry!Remove(S)
<1>1. PICK q \in Seq(Frame), f \in Frame :
        /\ frames' = <<f>> \o q /\ f.kind = "remove"
        /\ \/ q = frames
           \/ \E g \in Frame : /\ q = [frames EXCEPT ![1] = g] /\ g.kind = "remove_if"
                               /\ frames # <<>> /\ frames[1].kind = "remove_if"
        /\ at' = [at EXCEPT ![flat[IndexOf(s)]] = @ \ {s}] /\ made' = made
  BY DEF Unlinked
<1>2. frames \in Seq(Frame) /\ at \in [Places -> SUBSET Listeners]
  BY DEF TableInv, IndexInv, IndexType
<1>3. OwedBy(q) = OwedBy(frames)
  <2>1. ASSUME NEW g \in Frame, q = [frames EXCEPT ![1] = g], g.kind = "remove_if",
               frames # <<>>, frames[1].kind = "remove_if"
        PROVE  OwedBy(q) = OwedBy(frames)
    <3>1. Owed(g) = Owed(frames[1])
      BY <2>1 DEF Owed
    <3>2. OwedBy([frames EXCEPT ![1] = g]) = Owed(g) \o OwedBy(Tail(frames))
      BY <1>2, <2>1, OwedStack
    <3>3. OwedBy(frames) = Owed(frames[1]) \o OwedBy(Tail(frames))
      BY <1>2, <2>1, OwedStack
    <3> QED
      BY <2>1, <3>1, <3>2, <3>3
  <2> QED
    BY <1>1, <2>1
<1>4. OwedBy(frames') = OwedBy(frames)
  <2>1. OwedBy(<<f>> \o q) = Owed(f) \o OwedBy(q) /\ Owed(f) = <<>> /\ OwedBy(q) \in OwedSeq
    BY <1>1, OwedPushed, OwedStack DEF Owed
  <2>2. \A o \in OwedSeq : <<>> \o o = o
    BY DEF OwedSeq
  <2> QED
    BY <1>1, <1>3, <2>1, <2>2
<1>5. \A p \in Places : at'[p] = at[p] \ {s}
  BY <1>1, <1>2 DEF TableInv, IndexInv, Listed
<1>6. Live' = Live \ {s}
  BY UnlinkedCounts DEF TableInv
<1> QED
  BY <1>1, <1>4, <1>5, <1>6, DropsRefine

LEMMA FreeRefines ==
    ASSUME TableInv, TableInv', Free
    PROVE  \E S \in SUBSET Listeners : Registry!Remove(S)
<1>1. /\ at' = [p \in Places |-> {}] /\ made' = made /\ frames' = frames
      /\ at \in [Places -> SUBSET Listeners]
  BY DEF Free, TableInv, IndexInv, IndexType
<1>2. Live' = {}
  BY FreeCounts DEF TableInv
<1>3. \A p \in Places : at'[p] = at[p] \ Live
  BY <1>1 DEF TableInv, IndexInv, Listed
<1> QED
  BY <1>1, <1>2, <1>3, DropsRefine

(* Steps of calls: nobody moves.                                             *)
LEMMA SameSeats ==
    ASSUME TableInv, UNCHANGED <<at, made>>, Live' = Live
    PROVE  Where' = Where /\ Retired' = Retired
<1>1. \A s \in Listeners : PlaceOf(s)' = PlaceOf(s)
  BY DEF PlaceOf
<1>2. Retired = (1..made) \ Live /\ Retired' = (1..made') \ Live'
  BY DEF Retired, Live
<1> QED
  BY <1>1, <1>2 DEF Where

LEMMA NoneOwedJoins == \A o \in OwedSeq : <<>> \o o = o
BY DEF OwedSeq

LEMMA OneJoins ==
    ASSUME NEW S, NEW o \in Seq(S), NEW e \in S
    PROVE  /\ <<e>> \o o # <<>> /\ (<<e>> \o o)[1] = e /\ Tail(<<e>> \o o) = o
           /\ \A d \in S : [<<e>> \o o EXCEPT ![1] = d] = <<d>> \o o
<1> DEFINE r == <<e>> \o o
<1>1. r \in Seq(S) /\ Len(r) = Len(o) + 1 /\ Len(o) \in Nat /\ r[1] = e
      /\ \A n \in 1..Len(o) : r[n + 1] = o[n]
  OBVIOUS
<1>2. r # <<>>
  BY <1>1
<1>3. Tail(r) = o
  <2> HIDE DEF r
  <2>1. Tail(r) \in Seq(S) /\ Len(Tail(r)) = Len(o)
        /\ \A n \in 1..Len(o) : Tail(r)[n] = r[n + 1]
    BY <1>1, <1>2
  <2> QED
    BY <1>1, <2>1
<1>4. ASSUME NEW d \in S PROVE [r EXCEPT ![1] = d] = <<d>> \o o
  <2> HIDE DEF r
  <2>1. [r EXCEPT ![1] = d] = <<d>> \o Tail(r)
    BY <1>1, <1>2
  <2> QED
    BY <1>3, <2>1
<1> QED
  BY <1>1, <1>2, <1>3, <1>4

LEMMA CallsRefine ==
    ASSUME TableInv, TableInv', Calls
    PROVE  Registry!Next \/ UNCHANGED Registry!vars
<1> DEFINE R == [due : SUBSET Listeners, running : Listeners \cup {NoListener}]
           E(f) == [due |-> f.due, running |-> f.running]
           o == OwedBy(frames)
<1>1. frames \in Seq(Frame) /\ UNCHANGED <<table, made, status>>
  BY DEF TableInv, IndexInv, IndexType, Calls
<1>2. Where' = Where /\ Retired' = Retired
  BY <1>1, CallsFacts, SameSeats DEF TableInv, table
<1>3. \A f \in Frame : E(f) \in R /\ Owed(f) = IF f.kind = "notify" THEN <<E(f)>> ELSE <<>>
  BY DEF Frame, Owed
<1>4. {s \in Listeners : Where[s] # Nowhere} = Live /\ Live \cap Retired = {}
      /\ Live \cup Retired = 1..made
  BY RegistryListening
<1>5. ASSUME UNCHANGED OwedBy(frames) PROVE UNCHANGED Registry!vars
  BY <1>2, <1>5 DEF Registry!vars, Where, Retired
<1>6. ASSUME NEW p \in Places, Begun(p) PROVE Registry!Begin(p)
  <2> DEFINE f == [NewFrame("notify") EXCEPT !.due = OnTheWay(p), !.refers = OnTheWay(p)]
  <2>1. OnTheWay(p) \subseteq Listeners
    BY DEF OnTheWay, TableInv, IndexInv, IndexType
  <2>2. f \in Frame /\ f.kind = "notify" /\ f.due = OnTheWay(p) /\ f.running = NoListener
        /\ frames' = <<f>> \o frames
    BY <1>6, <2>1 DEF Begun, Frame, NewFrame, NoListener
  <2>3. OnTheWay(p) = {s \in {t \in Listeners : Where[t] # Nowhere} : IsBelow(Where[s], p)}
    <3>1. Seated
      BY SeatsFound
    <3>2. \A s \in Live : s \in Listeners /\ Where[s] = PlaceOf(s)
      BY <1>4 DEF Where
    <3>3. \A s \in Live : s \in OnTheWay(p) <=> IsBelow(Where[s], p)
      BY <3>1, <3>2 DEF OnTheWay, AtOrAbove, Seated, TableInv, IndexInv, IndexType
    <3>4. OnTheWay(p) \subseteq Live
      BY <3>1 DEF OnTheWay, AtOrAbove, Seated
    <3> QED
      BY <1>4, <3>3, <3>4
  <2>4. OwedBy(frames)' = <<E(f)>> \o OwedBy(frames)
    <3> HIDE DEF f
    <3>1. OwedBy(<<f>> \o frames) = Owed(f) \o OwedBy(frames)
      BY <1>1, <2>2, OwedPushed
    <3> QED
      BY <1>3, <2>2, <3>1
  <2>5. E(f) = [due |-> {s \in {t \in Listeners : Where[t] # Nowhere} : IsBelow(Where[s], p)},
                running |-> 0]
    BY <2>2, <2>3 DEF NoListener
  <2> DEFINE S == {s \in {t \in Listeners : Where[t] # Nowhere} : IsBelow(Where[s], p)}
  <2>6. OwedBy(frames)' = <<[due |-> S, running |-> 0]>> \o OwedBy(frames)
    <3> HIDE DEF f, S, E
    <3> QED
      BY <2>4, <2>5 DEF S
  <2> QED
    BY <1>2, <2>6 DEF Registry!Begin, Registry!Listening, Registry!NoListener,
       Registry!IsBelow, IsBelow, Where, Retired
<1>7. ASSUME NEW f \in Frame, Replaced(f), f.kind = "notify"
      PROVE  /\ o # <<>> /\ o[1] = E(frames[1])
             /\ OwedBy(frames)' = [o EXCEPT ![1] = E(f)]
  <2>1. frames # <<>> /\ frames[1] \in Frame /\ frames[1].kind = "notify"
        /\ frames' = [frames EXCEPT ![1] = f] /\ Tail(frames) \in Seq(Frame)
    BY <1>1, <1>7 DEF Replaced
  <2> DEFINE t == OwedBy(Tail(frames))
  <2>2. o = <<E(frames[1])>> \o t /\ OwedBy(frames)' = <<E(f)>> \o t /\ t \in Seq(R)
    BY <1>1, <1>3, <1>7, <2>1, OwedStack DEF OwedSeq
  <2>3. E(frames[1]) \in R /\ E(f) \in R
    BY <1>3, <2>1
  <2> HIDE DEF R, E, t, o
  <2>4. /\ <<E(frames[1])>> \o t # <<>> /\ (<<E(frames[1])>> \o t)[1] = E(frames[1])
        /\ [<<E(frames[1])>> \o t EXCEPT ![1] = E(f)] = <<E(f)>> \o t
    BY <2>2, <2>3, OneJoins
  <2> QED
    BY <2>2, <2>4
<1>8. ASSUME NEW s \in Listeners, Turn(s) PROVE Registry!Call(s) \/ Registry!Skip(s)
  <2>1. PICK f \in Frame :
          /\ Replaced(f) /\ f.kind = "notify" /\ f.due = frames[1].due \ {s}
          /\ s \in frames[1].due /\ f.running = Called(s)
    BY <1>8 DEF Turn
  <2>2. o # <<>> /\ o[1] = E(frames[1]) /\ OwedBy(frames)' = [o EXCEPT ![1] = E(f)]
    BY <1>7, <2>1
  <2>3. s \in 1..made
    <3>1. frames # <<>> /\ frames[1].kind = "notify" /\ 1 \in DOMAIN frames
      BY <1>1, <2>1 DEF Replaced
    <3> QED
      BY <2>1, <3>1 DEF TableInv, CountInv, DueReferred
  <2>4. o[1].due = frames[1].due /\ E(f) = [due |-> o[1].due \ {s}, running |-> Called(s)]
    BY <2>1, <2>2
  <2> HIDE DEF o, E
  <2>5. OwedBy(frames)' = [o EXCEPT ![1] = [due |-> @.due \ {s}, running |-> Called(s)]]
    BY <2>2, <2>4
  <2>6. CASE s \in Live
    <3>1. Called(s) = s
      BY <2>6 DEF Called, Live
    <3> QED
      BY <1>2, <1>4, <2>1, <2>2, <2>4, <2>5, <2>6, <3>1
         DEF Registry!Call, Registry!Listening, Where, Retired, o
  <2>7. CASE s \in Retired
    <3>1. Called(s) = 0
      BY <2>7 DEF Called, Retired, NoListener
    <3> QED
      BY <1>2, <2>1, <2>2, <2>4, <2>5, <2>7, <3>1
         DEF Registry!Skip, Registry!NoListener, Where, Retired, o
  <2> QED
    BY <1>4, <2>3, <2>6, <2>7
<1>9. ASSUME NEW s \in Listeners, Released(s) PROVE UNCHANGED Registry!vars
  <2>1. PICK f \in Frame :
          /\ Replaced(f) /\ f.kind = "notify" /\ f.due = {} /\ frames[1].due = {}
          /\ f.running = NoListener /\ frames[1].running = NoListener
    BY <1>9 DEF Released
  <2>2. o # <<>> /\ o[1] = E(f) /\ OwedBy(frames)' = [o EXCEPT ![1] = E(f)] /\ o \in Seq(R)
    BY <1>1, <1>7, <2>1, OwedStack DEF OwedSeq
  <2> HIDE DEF o, E, R
  <2>3. OwedBy(frames)' = o
    BY <2>2
  <2> QED
    BY <1>5, <2>3 DEF o
<1>10. ASSUME Returned PROVE Registry!Return \/ UNCHANGED Registry!vars
  <2>1. PICK f \in Frame : Replaced(f) /\ f = [frames[1] EXCEPT !.running = NoListener]
    BY <1>10 DEF Returned
  <2>2. frames # <<>> /\ frames[1] \in Frame /\ frames' = [frames EXCEPT ![1] = f]
        /\ f.kind = frames[1].kind
    BY <1>1, <2>1 DEF Replaced
  <2>3. CASE f.kind = "notify"
    <3>1. o # <<>> /\ o[1] = E(frames[1]) /\ OwedBy(frames)' = [o EXCEPT ![1] = E(f)]
      BY <1>7, <2>1, <2>3
    <3>2. f.due = frames[1].due /\ f.running = NoListener
      BY <2>1, <2>2 DEF Frame
    <3>3. E(f) = [o[1] EXCEPT !.running = 0]
      BY <3>1, <3>2 DEF NoListener
    <3> HIDE DEF o, E
    <3>4. OwedBy(frames)' = [o EXCEPT ![1].running = 0]
      BY <3>1, <3>3
    <3> QED
      BY <1>2, <3>1, <3>4 DEF Registry!Return, Registry!NoListener, Where, Retired, o
  <2>4. CASE f.kind # "notify"
    <3>1. OwedBy(frames)' = OwedBy(frames)
      BY <1>1, <1>3, <2>2, <2>4, OwedStack
    <3> QED
      BY <1>5, <3>1
  <2> QED
    BY <2>3, <2>4
<1>11. ASSUME Several PROVE UNCHANGED Registry!vars
  <2>1. ASSUME NEW f \in Frame, f.kind = "remove_if", frames' = <<f>> \o frames
        PROVE  UNCHANGED OwedBy(frames)
    <3>1. OwedBy(<<f>> \o frames) = Owed(f) \o o /\ Owed(f) = <<>> /\ o \in OwedSeq
      BY <1>1, <1>3, <2>1, OwedPushed, OwedStack
    <3> HIDE DEF o
    <3>2. OwedBy(<<f>> \o frames) = o
      BY <3>1, NoneOwedJoins
    <3> QED
      BY <2>1, <3>2 DEF o
  <2>2. ASSUME NEW f \in Frame, Replaced(f), f.kind = "remove_if"
        PROVE  UNCHANGED OwedBy(frames)
    <3>1. frames # <<>> /\ frames[1] \in Frame /\ frames' = [frames EXCEPT ![1] = f]
          /\ frames[1].kind = "remove_if"
      BY <1>1, <2>2 DEF Replaced
    <3> QED
      BY <1>1, <1>3, <2>2, <3>1, OwedStack
  <2>3. ASSUME frames # <<>>, frames[1].kind = "remove_if", frames' = Tail(frames)
        PROVE  UNCHANGED OwedBy(frames)
    <3>1. Tail(frames) \in Seq(Frame) /\ frames[1] \in Frame
      BY <1>1, <2>3
    <3>2. OwedBy(frames) = Owed(frames[1]) \o OwedBy(Tail(frames)) /\ Owed(frames[1]) = <<>>
          /\ OwedBy(Tail(frames)) \in OwedSeq
      BY <1>1, <1>3, <2>3, <3>1, OwedStack
    <3> QED
      BY <2>3, <3>2, NoneOwedJoins
  <2> QED
    BY <1>5, <1>11, <2>1, <2>2, <2>3 DEF Several
<1>12. ASSUME Over PROVE Registry!End
  <2>1. /\ frames # <<>> /\ frames[1].kind = "notify" /\ frames' = Tail(frames)
        /\ frames[1].due = {} /\ frames[1] \in Frame /\ Tail(frames) \in Seq(Frame)
    BY <1>1, <1>12 DEF Over
  <2> DEFINE t == OwedBy(Tail(frames))
  <2>2. o = <<E(frames[1])>> \o t /\ t \in Seq(R) /\ E(frames[1]) \in R /\ OwedBy(frames)' = t
    BY <1>1, <1>3, <2>1, OwedStack DEF OwedSeq
  <2>3. E(frames[1]).due = {}
    BY <2>1
  <2> HIDE DEF R, E, t, o
  <2>4. /\ <<E(frames[1])>> \o t # <<>> /\ (<<E(frames[1])>> \o t)[1] = E(frames[1])
        /\ Tail(<<E(frames[1])>> \o t) = t
    BY <2>2, OneJoins
  <2>5. o # <<>> /\ o[1].due = {} /\ OwedBy(frames)' = Tail(o)
    BY <2>2, <2>3, <2>4
  <2> QED
    BY <1>2, <2>5 DEF Registry!End, Where, Retired, o
<1> QED
  BY <1>6, <1>8, <1>9, <1>10, <1>11, <1>12 DEF Calls, Registry!Next

LEMMA RegistryInit == Init => Registry!Init
<1> SUFFICES ASSUME Init PROVE Registry!Init
  OBVIOUS
<1>1. Live = {} /\ Retired = {} /\ frames = <<>>
  BY DEF Init, Live, Retired
<1>2. Where = [s \in Listeners |-> Nowhere]
  BY <1>1 DEF Where, PlaceOf
<1>3. OwedBy(<<>>) = <<>>
  <2>1. <<>> \in Seq(Frame) /\ Len(<<>>) = 0
    OBVIOUS
  <2>2. LastsOf(<<>>) = Lasts(<<>>, LastsOf(<<>>))
    BY <2>1, LastsMean
  <2>3. LastsOf(<<>>)[0] = <<>>
    BY <2>1, <2>2 DEF Lasts
  <2> QED
    BY <2>1, <2>3, OwedByLasts
<1> QED
  BY <1>1, <1>2, <1>3 DEF Registry!Init, Where, Retired

LEMMA RegistryStep ==
    ASSUME TableInv, TableInv', DestroyActs = FALSE, [Next]_vars
    PROVE  [Registry!Next]_(Registry!vars)
<1>1. CASE UNCHANGED vars
  <2>1. UNCHANGED <<frames, Where, Retired>>
    BY <1>1 DEF vars, table, Where, Retired, PlaceOf, Live
  <2>2. UNCHANGED OwedBy(frames)
    BY <2>1
  <2> QED
    BY <2>1, <2>2 DEF Registry!vars, Where, Retired
<1>2. ASSUME NEW p \in Places, Add(p) PROVE Registry!Next
  BY <1>2, AddRefines DEF Registry!Next
<1>3. ASSUME NEW s \in Live, Unlinked(s) PROVE Registry!Next
  BY <1>3, UnlinkedRefines DEF Registry!Next
<1>4. CASE Free
  BY <1>4, FreeRefines DEF Registry!Next
<1>5. ASSUME RemoveEnd PROVE UNCHANGED Registry!vars
  <2>1. /\ frames # <<>> /\ frames \in Seq(Frame) /\ frames[1].kind = "remove"
        /\ frames[1] \in Frame /\ Tail(frames) \in Seq(Frame) /\ frames[1].place \in nodes
    BY <1>5 DEF RemoveEnd, Top, TableInv, IndexInv, IndexType, RemovalOnTop
  <2>2. frames' = Tail(frames) /\ UNCHANGED <<at, made, object>>
    BY <1>5, <2>1 DEF RemoveEnd
  <2>3. Where' = Where /\ Retired' = Retired
    BY <2>2, SameSeats DEF Live
  <2>4. UNCHANGED OwedBy(frames)
    <3>1. OwedBy(frames) = Owed(frames[1]) \o OwedBy(Tail(frames)) /\ Owed(frames[1]) = <<>>
          /\ OwedBy(Tail(frames)) \in OwedSeq
      BY <2>1, OwedStack DEF Owed
    <3> QED
      BY <2>2, <3>1, NoneOwedJoins
  <2> QED
    BY <2>3, <2>4 DEF Registry!vars, Where, Retired
<1>6. CASE Calls
  BY <1>6, CallsRefine
<1> QED
  BY <1>1, <1>2, <1>3, <1>4, <1>5, <1>6, StepShape DEF TableInv

(* The table implements the registry: a notification calls exactly the        *)
(* listeners that were at or above the key when it began, but for those       *)
(* removed before their turn, whatever callbacks add, remove and notify       *)
(* meanwhile (gconf_listeners_notify, gconf_listeners_remove).               *)
THEOREM RegistryImplemented ==
    ASSUME DestroyActs = FALSE
    PROVE  Spec => RegistrySpec
<1>1. TableInv /\ TableInv' /\ [Next]_vars => [Registry!Next]_(Registry!vars)
  BY RegistryStep
<1>2. Spec => []TableInv
  BY TableInvariant
<1> QED
  BY <1>1, <1>2, RegistryInit, PTL DEF Spec, RegistrySpec, Registry!Spec
=============================================================================
