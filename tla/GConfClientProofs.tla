-------------------------- MODULE GConfClientProofs --------------------------
(***************************************************************************)
(* Proofs about GConfClient, for every set of clients, keys and directories *)
(* and every application the constants allow: what is watched agrees with   *)
(* the daemon, only watched keys are cached, what is cached is current or    *)
(* about to be, and no change goes unread.                                  *)
(***************************************************************************)
EXTENDS GConfClient, SequenceTheorems, FiniteSetTheorems, WellFoundedInduction, TLAPS

-----------------------------------------------------------------------------
(* What a step of the database does.                                         *)

(* A write is well formed when it only changes keys it announces, and         *)
(* announces each with the value a query would now give.                      *)
WellFormed(st, K, e) ==
    /\ \A k \in K : e[k].value = EntryIn(st, k).value
    /\ \A k \in Keys \ K : st[k] = store[k]

(* Every write of the database has this form.                                *)
SomeWrite ==
    \E K \in SUBSET Keys : \E st \in [Keys -> ValueOrNone], e \in [K -> Entry] :
        WellFormed(st, K, e) /\ Write(st, K, e)

(* A query answers an entry.                                                 *)
LEMMA EntryInType ==
    ASSUME NEW st \in [Keys -> ValueOrNone], NEW k \in Keys
    PROVE  EntryIn(st, k) \in Entry
BY ValueAssumption DEF EntryIn, Entry, ValueOrNone

(* Setting, unsetting and unsetting recursively are well-formed writes.       *)
LEMMA WritesAreWellFormed ==
    ASSUME DbTypeOK
    PROVE  /\ \A k \in Keys, v \in Values : DbSet(k, v) => SomeWrite
           /\ \A k \in Keys : DbUnset(k) => SomeWrite
           /\ \A top : DbRecursiveUnset(top) => SomeWrite
<1>1. ASSUME NEW k \in Keys, NEW v \in Values, DbSet(k, v) PROVE SomeWrite
  <2> DEFINE st == [store EXCEPT ![k] = v]
             e  == [j \in {k} |-> Announced(v, FALSE)]
  <2>1. st \in [Keys -> ValueOrNone] /\ e \in [{k} -> Entry]
    BY DEF DbTypeOK, ValueOrNone, Entry, Announced
  <2>2. WellFormed(st, {k}, e)
    BY ValueAssumption DEF WellFormed, EntryIn, DbTypeOK, ValueOrNone, Announced
  <2> QED
    BY <1>1, <2>1, <2>2 DEF SomeWrite, DbSet
<1>2. ASSUME NEW k \in Keys, DbUnset(k) PROVE SomeWrite
  <2> DEFINE st == [store EXCEPT ![k] = NoValue]
             e  == [j \in {k} |-> Announced(SchemaDefault[k], TRUE)]
  <2>1. st \in [Keys -> ValueOrNone] /\ e \in [{k} -> Entry]
    BY ValueAssumption DEF DbTypeOK, ValueOrNone, Entry, Announced
  <2>2. WellFormed(st, {k}, e)
    BY ValueAssumption DEF WellFormed, EntryIn, DbTypeOK, ValueOrNone, Announced
  <2> QED
    BY <1>2, <2>1, <2>2 DEF SomeWrite, DbUnset
<1>3. ASSUME NEW top, DbRecursiveUnset(top) PROVE SomeWrite
  <2> DEFINE gone == UnsetBelow(top)
             st   == [k \in Keys |-> IF k \in gone THEN NoValue ELSE store[k]]
             new(k) == EntryIn(st, k)
             e    == [k \in gone |-> Announced(new(k).value, new(k).is_default)]
  <2>1. gone \in SUBSET Keys
    BY DEF UnsetBelow
  <2>2. st \in [Keys -> ValueOrNone]
    BY DEF DbTypeOK, ValueOrNone
  <2>3. e \in [gone -> Entry]
    <3> HIDE DEF st, gone
    <3>1. \A k \in gone : new(k) \in Entry
      BY <2>1, <2>2, EntryInType
    <3> QED
      BY <3>1 DEF Entry, Announced
  <2>4. WellFormed(st, gone, e)
    BY <2>1 DEF WellFormed, Announced
  <2>5. Write(st, gone, e)
    BY <1>3 DEF DbRecursiveUnset
  <2> HIDE DEF gone, st, new, e
  <2> QED
    BY <2>1, <2>2, <2>3, <2>4, <2>5 DEF SomeWrite
<1> QED
  BY <1>1, <1>2, <1>3

(* The Notify calls for a change are finitely many messages.                 *)
LEMMA NotifiesForType ==
    ASSUME NEW c \in Clients, NEW K \in SUBSET Keys, NEW e \in [K -> Entry]
    PROVE  /\ NotifiesFor(c, K, e) \subseteq Message
           /\ IsFiniteSet(NotifiesFor(c, K, e))
<1> DEFINE P == {q \in Dirs \X K : q[1] \in SectionsFor(c, q[2])}
           f == [p \in P |-> [section |-> p[1], key |-> p[2], entry |-> e[p[2]]]]
           M == NotifiesFor(c, K, e)
<1>1. M = {f[p] : p \in P}
  BY DEF NotifiesFor
<1>2. \A p \in P : p[1] \in Dirs /\ p[2] \in K /\ K \subseteq Keys
  OBVIOUS
<1>3. M \subseteq Message
  BY <1>2 DEF NotifiesFor, Message
<1>4. IsFiniteSet(K)
  BY PathAssumption, FS_Subset
<1>5. IsFiniteSet(Dirs \X K)
  BY <1>4, PathAssumption, FS_Product
<1>6. IsFiniteSet(P)
  BY <1>5, FS_Subset
<1>7. f \in Surjection(P, M)
  BY <1>1 DEF Surjection
<1>8. IsFiniteSet(M)
  BY <1>6, <1>7, FS_Surjection
<1> QED
  BY <1>3, <1>8

(* A burst is a sequence of all the calls it is made from and no other.       *)
LEMMA BurstType ==
    ASSUME NEW M, M \subseteq Message, IsFiniteSet(M), NEW b \in Bursts(M)
    PROVE  /\ b \in Seq(Message)
           /\ \A i \in 1..Len(b) : b[i] \in M
           /\ \A m \in M : \E i \in 1..Len(b) : b[i] = m
<1>1. Cardinality(M) \in Nat
  BY FS_CardinalityType
<1>2. b \in [1..Cardinality(M) -> M]
  BY DEF Bursts
<1>3. b \in Seq(M)
  BY <1>1, <1>2
<1>4. Len(b) = Cardinality(M)
  BY <1>1, <1>2
<1>5. b \in Seq(Message)
  BY <1>3, SeqMonotonic
<1>6. DOMAIN b = 1..Len(b)
  BY <1>2, <1>4
<1> QED
  BY <1>2, <1>4, <1>5, <1>6 DEF Bursts

(* What a write appends to the queue of one client.                          *)
LEMMA WriteAppends ==
    ASSUME DbTypeOK, NEW K \in SUBSET Keys, NEW st \in [Keys -> ValueOrNone],
           NEW e \in [K -> Entry], Write(st, K, e), NEW c \in Clients
    PROVE  \E b \in Seq(Message) :
              /\ inbox'[c] = inbox[c] \o b
              /\ \A i \in 1..Len(b) : b[i] \in NotifiesFor(c, K, e)
              /\ \A m \in NotifiesFor(c, K, e) : \E i \in 1..Len(b) : b[i] = m
<1>1. PICK burst \in [Clients -> UNION {Bursts(NotifiesFor(d, K, e)) : d \in Clients}] :
          /\ \A d \in Clients : burst[d] \in Bursts(NotifiesFor(d, K, e))
          /\ inbox' = [d \in Clients |-> inbox[d] \o burst[d]]
  BY DEF Write
<1>2. inbox'[c] = inbox[c] \o burst[c]
  BY <1>1
<1>3. burst[c] \in Bursts(NotifiesFor(c, K, e))
  BY <1>1
<1> QED
  BY <1>2, <1>3, NotifiesForType, BurstType

(* A write keeps the database well typed.                                    *)
LEMMA WriteType ==
    ASSUME DbTypeOK, SomeWrite
    PROVE  DbTypeOK'
<1>1. PICK K \in SUBSET Keys :
          \E st \in [Keys -> ValueOrNone], e \in [K -> Entry] :
              WellFormed(st, K, e) /\ Write(st, K, e)
  BY DEF SomeWrite
<1>2. PICK st \in [Keys -> ValueOrNone], e \in [K -> Entry] : Write(st, K, e)
  BY <1>1
<1>3. store' \in [Keys -> ValueOrNone] /\ writes' \in Nat
  BY <1>2 DEF Write, DbTypeOK
<1>4. notifications' \in [Dirs -> SUBSET Clients]
  BY <1>2 DEF Write, DbTypeOK
<1>5. \A c \in Clients : inbox'[c] \in Seq(Message)
  <2>1. SUFFICES ASSUME NEW c \in Clients PROVE inbox'[c] \in Seq(Message)
    OBVIOUS
  <2>2. PICK b \in Seq(Message) : inbox'[c] = inbox[c] \o b
    BY <1>2, WriteAppends
  <2> QED
    BY <2>2, ConcatProperties DEF DbTypeOK
<1>6. DOMAIN inbox' = Clients /\ inbox' = [c \in Clients |-> inbox'[c]]
  BY <1>2 DEF Write
<1> QED
  BY <1>3, <1>4, <1>5, <1>6 DEF DbTypeOK

(* So do the other steps.                                                    *)
LEMMA RequestType ==
    ASSUME DbTypeOK, NEW c \in Clients, NEW s \in Dirs,
           DbAddNotify(c, s) \/ DbRemoveNotify(c, s)
    PROVE  DbTypeOK'
BY DEF DbTypeOK, DbAddNotify, DbRemoveNotify

LEMMA TakeType ==
    ASSUME DbTypeOK, NEW c \in Clients, Take(c)
    PROVE  /\ DbTypeOK'
           /\ Head(inbox[c]) \in Message
<1>1. inbox[c] \in Seq(Message) /\ inbox[c] # <<>>
  BY DEF DbTypeOK, Take
<1>2. Head(inbox[c]) \in Message /\ Tail(inbox[c]) \in Seq(Message)
  BY <1>1, HeadTailProperties
<1> QED
  BY <1>2 DEF DbTypeOK, Take

-----------------------------------------------------------------------------
(* Type correctness.                                                         *)

LEMMA IdleType == Idle \in Op
BY DEF Idle, Op, Preloads

LEMMA PreloadTodoType ==
    ASSUME NEW d \in Dirs \cup {NoDir}, NEW p \in Preloads
    PROVE  d \in Dirs => PreloadTodo(d, p) \in SUBSET Dirs
BY DEF PreloadTodo, Preloads

(* The values a step may give a client's cache.                              *)
LEMMA CacheType ==
    ASSUME TypeOK, NEW c \in Clients, NEW K
    PROVE  /\ Evict(c, K) => cache' \in [Clients -> [Keys -> Entry \cup {NotCached}]]
           /\ CacheCurrent(c, K) =>
                cache' \in [Clients -> [Keys -> Entry \cup {NotCached}]]
<1> DEFINE E == Entry \cup {NotCached}
           f == [k \in Keys |-> IF k \in K THEN NotCached ELSE cache[c][k]]
           g == [k \in Keys |-> IF k \in K THEN Query(k) ELSE cache[c][k]]
<1>1. \A k \in Keys : Query(k) \in Entry
  BY EntryInType DEF TypeOK, DbTypeOK, Query
<1>2. cache \in [Clients -> [Keys -> E]]
  BY DEF TypeOK
<1>3. f \in [Keys -> E] /\ g \in [Keys -> E]
  BY <1>1, <1>2
<1>4. Evict(c, K) => cache' = [cache EXCEPT ![c] = f]
  BY DEF Evict
<1>5. CacheCurrent(c, K) => cache' = [cache EXCEPT ![c] = g]
  BY DEF CacheCurrent
<1> HIDE DEF E, f, g
<1>6. /\ Evict(c, K) => cache' \in [Clients -> [Keys -> E]]
      /\ CacheCurrent(c, K) => cache' \in [Clients -> [Keys -> E]]
  BY <1>2, <1>3, <1>4, <1>5
<1> QED
  BY <1>6 DEF E

LEMMA LearnType ==
    ASSUME TypeOK, NEW c \in Clients, NEW K
    PROVE  /\ Learn(c, K) => unread' \in [Clients -> SUBSET Keys]
           /\ \A k, entry : Announce(c, k, entry) =>
                 unread' \in [Clients -> SUBSET Keys]
<1>1. Learn(c, K) => unread' \in [Clients -> SUBSET Keys]
  BY DEF TypeOK, Learn
<1>2. ASSUME NEW k, NEW entry, Announce(c, k, entry)
      PROVE  unread' \in [Clients -> SUBSET Keys]
  <2>1. PICK told : unread' = [unread EXCEPT ![c] = unread[c] \ told]
    BY <1>2 DEF Announce
  <2> QED
    BY <2>1 DEF TypeOK
<1> QED
  BY <1>1, <1>2

LEMMA DbStutter ==
    ASSUME DbTypeOK, UNCHANGED dbvars
    PROVE  DbTypeOK'
BY DEF dbvars, DbTypeOK

LEMMA RecordChangeType ==
    ASSUME TypeOK, RecordChange
    PROVE  unread' \in [Clients -> SUBSET Keys]
BY DEF TypeOK, RecordChange, ChangedFor

LEMMA OwnWriteType ==
    ASSUME TypeOK, SomeWrite, NEW c \in Clients, NEW K, OwnWrite(c, K)
    PROVE  TypeOK'
<1>1. DbTypeOK'
  BY WriteType DEF TypeOK
<1>2. cache' \in [Clients -> [Keys -> Entry \cup {NotCached}]]
  BY CacheType DEF OwnWrite
<1> QED
  BY <1>1, <1>2, RecordChangeType DEF TypeOK, OwnWrite

(* The application's calls keep the types.                                   *)
LEMMA ApplicationType ==
    ASSUME TypeOK, NEW c \in Clients, ApplicationStep(c)
    PROVE  TypeOK'
<1>0. DbTypeOK
  BY DEF TypeOK
<1>1. ASSUME NEW k \in Keys, NEW v \in Values, Set(c, k, v) PROVE TypeOK'
  BY <1>0, <1>1, WritesAreWellFormed, OwnWriteType DEF Set
<1>2. ASSUME NEW k \in Keys, Unset(c, k) PROVE TypeOK'
  BY <1>0, <1>2, WritesAreWellFormed, OwnWriteType DEF Unset
<1>3. ASSUME NEW top, RecursiveUnset(c, top) PROVE TypeOK'
  BY <1>0, <1>3, WritesAreWellFormed, OwnWriteType DEF RecursiveUnset
<1>4. ASSUME NEW k \in Keys, Get(c, k) PROVE TypeOK'
  <2>1. cache' \in [Clients -> [Keys -> Entry \cup {NotCached}]]
    BY <1>4, CacheType DEF Get, TypeOK
  <2>2. unread' \in [Clients -> SUBSET Keys]
    BY <1>4, LearnType DEF Get
  <2> QED
    BY <1>4, <2>1, <2>2, DbStutter DEF TypeOK, Get
<1>5. ASSUME NEW k \in Keys, Notify(c, k) PROVE TypeOK'
  <2>1. cache' \in [Clients -> [Keys -> Entry \cup {NotCached}]]
    BY <1>5, CacheType DEF Notify, TypeOK
  <2> QED
    BY <1>5, <2>1, LearnType, DbStutter DEF TypeOK, Notify
<1>6. ASSUME NEW d \in Dirs, AllEntries(c, d) PROVE TypeOK'
  <2>1. cache' \in [Clients -> [Keys -> Entry \cup {NotCached}]]
    BY <1>6, CacheType DEF AllEntries, TypeOK
  <2> QED
    BY <1>6, <2>1, LearnType, DbStutter DEF TypeOK, AllEntries
<1>7. ASSUME ClearCache(c) PROVE TypeOK'
  <2>1. cache' \in [Clients -> [Keys -> Entry \cup {NotCached}]]
    BY <1>7, CacheType DEF ClearCache
  <2> QED
    BY <1>7, <2>1, DbStutter DEF TypeOK, ClearCache
<1>8. ASSUME NEW d \in Dirs, NEW p \in Preloads, Preload(c, d, p) PROVE TypeOK'
  <2>1. [Idle EXCEPT !.pc = "preload", !.todo = PreloadTodo(d, p)] \in Op
    BY PreloadTodoType DEF Idle, Op, Preloads
  <2> QED
    BY <1>8, <2>1, DbStutter DEF TypeOK, Preload
<1>9. ASSUME NEW d \in Dirs, NEW p \in Preloads, AddDir(c, d, p) PROVE TypeOK'
  BY <1>9, DbStutter DEF TypeOK, AddDir, Op
<1>10. ASSUME NEW d \in Dirs, AddDirAgain(c, d) PROVE TypeOK'
  BY <1>10, DbStutter DEF TypeOK, AddDirAgain
<1>11. ASSUME NEW d \in Dirs, RemoveDirOnce(c, d) PROVE TypeOK'
  BY <1>11, DbStutter DEF TypeOK, RemoveDirOnce
<1>12. ASSUME NEW d \in Dirs, RemoveDir(c, d) PROVE TypeOK'
  <2>1. cache' \in [Clients -> [Keys -> Entry \cup {NotCached}]]
    BY <1>12, CacheType DEF RemoveDir
  <2>2. [Idle EXCEPT !.pc = "readd", !.todo = WatchedDirs(c) \ {d}] \in Op
    BY DEF Idle, Op, Preloads, WatchedDirs
  <2>3. DbTypeOK'
    BY <1>0, <1>12, RequestType DEF RemoveDir, dbvars, DbTypeOK
  <2> QED
    BY <1>12, <2>1, <2>2, <2>3 DEF TypeOK, RemoveDir
<1> QED
  BY <1>1, <1>2, <1>3, <1>4, <1>5, <1>6, <1>7, <1>8, <1>9, <1>10, <1>11, <1>12
     DEF ApplicationStep

(* Where a call continues is a stage of a call.                              *)
LEMMA ContinueType ==
    ASSUME TypeOK, NEW c \in Clients, op[c].pc = "overlaps", op[c].dir \in Dirs,
           Continue(c)
    PROVE  /\ addCount' \in [Clients -> [Dirs -> Nat]]
           /\ op' \in [Clients -> Op]
<1> DEFINE o == op[c]
           todo == PreloadTodo(o.dir, o.preload)
<1>1. o \in Op
  BY DEF TypeOK
<1>2. todo \in SUBSET Dirs
  BY <1>1, PreloadTodoType DEF Op
<1>3. [Idle EXCEPT !.pc = "preload", !.dir = o.dir, !.todo = todo] \in Op
  BY <1>1, <1>2 DEF Idle, Op, Preloads
<1>4. [Idle EXCEPT !.pc = "readd", !.todo = o.todo] \in Op
  BY <1>1 DEF Idle, Op, Preloads
<1>5. CASE o.then = "add"
  <2>1. addCount' \in [Clients -> [Dirs -> Nat]]
    <3>1. addCount' = [addCount EXCEPT ![c][o.dir] = 1]
      BY <1>5 DEF Continue
    <3>2. o.dir \in Dirs
      OBVIOUS
    <3> HIDE DEF o
    <3> QED
      BY <3>1, <3>2 DEF TypeOK
  <2>2. op' = [op EXCEPT ![c] = IF todo = {} THEN Idle
                   ELSE [Idle EXCEPT !.pc = "preload", !.dir = o.dir,
                                     !.todo = todo]]
    BY <1>5 DEF Continue
  <2> HIDE DEF o, todo
  <2> QED
    BY <2>1, <2>2, <1>3, IdleType DEF TypeOK
<1>6. CASE o.then # "add"
  BY <1>4, <1>6 DEF Continue, TypeOK
<1> QED
  BY <1>5, <1>6

(* So do the later stages of a call.  A call in setup_overlaps has its        *)
(* directory.                                                                 *)
OverlapsHasDir ==
    \A c \in Clients : op[c].pc = "overlaps" => op[c].dir \in Dirs

LEMMA CallType ==
    ASSUME TypeOK, OverlapsHasDir, NEW c \in Clients, CallStep(c)
    PROVE  TypeOK'
<1>0. DbTypeOK /\ op[c] \in Op
  BY DEF TypeOK
<1>1. ASSUME NEW d \in Dirs, PreloadDir(c, d) PROVE TypeOK'
  <2>1. cache' \in [Clients -> [Keys -> Entry \cup {NotCached}]]
    BY <1>1, CacheType DEF PreloadDir
  <2>2. [op[c] EXCEPT !.todo = op[c].todo \ {d}] \in Op
    BY <1>0 DEF Op
  <2>3. op' \in [Clients -> Op]
    <3>1. \E x \in Op : op' = [op EXCEPT ![c] = x]
      BY <1>1, <2>2, IdleType DEF PreloadDir
    <3> QED
      BY <3>1 DEF TypeOK
  <2> QED
    BY <1>1, <2>1, <2>3, DbStutter DEF TypeOK, PreloadDir
<1>2. ASSUME NEW d \in Dirs, DropCovered(c, d) PROVE TypeOK'
  <2>1. DbTypeOK'
    BY <1>0, <1>2, RequestType DEF DropCovered
  <2> QED
    BY <1>2, <2>1 DEF TypeOK, DropCovered
<1>3. ASSUME NEW d \in Dirs, ReAddNext(c, d) PROVE TypeOK'
  <2>1. [pc |-> "overlaps", then |-> "readd", dir |-> d, preload |-> "none",
         todo |-> op[c].todo \ {d}] \in Op
    BY <1>0 DEF Op, Preloads
  <2> QED
    BY <1>3, <2>1, DbStutter DEF TypeOK, ReAddNext
<1>4. ASSUME UseCovering(c) PROVE TypeOK'
  <2>1. op[c].pc = "overlaps" /\ op[c].dir \in Dirs
    BY <1>4 DEF UseCovering, OverlapsDone, OverlapsHasDir
  <2>2. addCount' \in [Clients -> [Dirs -> Nat]] /\ op' \in [Clients -> Op]
    BY <1>4, <2>1, ContinueType DEF UseCovering
  <2> QED
    BY <1>4, <2>2, DbStutter DEF TypeOK, UseCovering
<1>5. ASSUME AddNotify(c) PROVE TypeOK'
  <2>1. op[c].pc = "overlaps" /\ op[c].dir \in Dirs
    BY <1>5 DEF AddNotify, OverlapsDone, OverlapsHasDir
  <2>2. addCount' \in [Clients -> [Dirs -> Nat]] /\ op' \in [Clients -> Op]
    BY <1>5, <2>1, ContinueType DEF AddNotify
  <2>3. DbTypeOK'
    BY <1>0, <1>5, <2>1, RequestType DEF AddNotify
  <2> QED
    BY <1>5, <2>1, <2>2, <2>3 DEF TypeOK, AddNotify
<1>6. ASSUME AddNotifyFails(c) PROVE TypeOK'
  BY <1>6, IdleType, DbStutter DEF TypeOK, AddNotifyFails
<1>7. ASSUME ReAddDone(c) PROVE TypeOK'
  BY <1>7, IdleType, DbStutter DEF TypeOK, ReAddDone
<1> QED
  BY <1>1, <1>2, <1>3, <1>4, <1>5, <1>6, <1>7 DEF CallStep

LEMMA DispatchType ==
    ASSUME TypeOK, NEW c \in Clients, Dispatch(c)
    PROVE  TypeOK'
<1> DEFINE m   == Head(inbox[c])
           new == Announced(m.entry.value, FALSE)
           kept == IF IsCached(c, m.key) THEN cache[c][m.key].has_schema ELSE FALSE
           entry == [new EXCEPT !.has_schema = kept]
<1>1. m \in Message /\ DbTypeOK'
  BY TakeType DEF TypeOK, Dispatch
<1>2. entry \in Entry /\ m.key \in Keys
  <2>1. m.key \in Keys /\ m.entry.value \in ValueOrNone
    BY <1>1 DEF Message, Entry
  <2>2. kept \in BOOLEAN
    <3>1. cache[c][m.key] \in Entry \cup {NotCached}
      BY <2>1 DEF TypeOK
    <3>2. \A x \in Entry : x.has_schema \in BOOLEAN
      BY DEF Entry
    <3> HIDE DEF m
    <3> QED
      BY <3>1, <3>2 DEF IsCached
  <2> HIDE DEF kept, m
  <2> QED
    BY <2>1, <2>2 DEF Entry, Announced
<1>3. /\ cache' \in [Clients -> [Keys -> Entry \cup {NotCached}]]
      /\ pending' \in [Clients -> SUBSET Keys]
  <2>1. \/ /\ cache' = [cache EXCEPT ![c][m.key] = entry]
           /\ pending' = [pending EXCEPT ![c] = @ \cup {m.key}]
        \/ UNCHANGED <<cache, pending>>
    BY DEF Dispatch
  <2>2. CASE UNCHANGED <<cache, pending>>
    BY <2>2 DEF TypeOK
  <2> HIDE DEF m, new, kept, entry
  <2>3. CASE /\ cache' = [cache EXCEPT ![c][m.key] = entry]
             /\ pending' = [pending EXCEPT ![c] = @ \cup {m.key}]
    BY <1>2, <2>3 DEF TypeOK
  <2> QED
    BY <2>1, <2>2, <2>3
<1>4. UNCHANGED <<addCount, monitored, flushing, op, unread>>
  BY DEF Dispatch
<1> QED
  BY <1>1, <1>3, <1>4 DEF TypeOK

LEMMA FlushType ==
    ASSUME TypeOK, NEW c \in Clients, FlushStep(c)
    PROVE  TypeOK'
<1>1. ASSUME FlushBegin(c) PROVE TypeOK'
  BY <1>1, DbStutter DEF TypeOK, FlushBegin
<1>2. ASSUME NEW k \in Keys, FlushKey(c, k) PROVE TypeOK'
  <2>1. cache' \in [Clients -> [Keys -> Entry \cup {NotCached}]]
    BY <1>2, CacheType DEF FlushKey, TypeOK
  <2>2. unread' \in [Clients -> SUBSET Keys]
    <3>1. CASE UNCHANGED unread
      BY <3>1 DEF TypeOK
    <3>2. CASE \E entry : Announce(c, k, entry)
      BY <3>2, LearnType
    <3> QED
      BY <1>2, <3>1, <3>2 DEF FlushKey
  <2>3. UNCHANGED <<dbvars, addCount, monitored, pending, op>>
    BY <1>2 DEF FlushKey
  <2>4. flushing' \in [Clients -> SUBSET Keys]
    BY <1>2 DEF FlushKey, TypeOK
  <2> QED
    BY <2>1, <2>2, <2>3, <2>4 DEF TypeOK, dbvars, DbTypeOK
<1> QED
  BY <1>1, <1>2 DEF FlushStep

LEMMA OpUpdate ==
    ASSUME TypeOK, OverlapsHasDir, NEW c \in Clients, NEW x,
           op' = [op EXCEPT ![c] = x], x.pc = "overlaps" => x.dir \in Dirs
    PROVE  OverlapsHasDir'
BY DEF OverlapsHasDir, TypeOK

LEMMA OverlapsHasDirStep ==
    ASSUME TypeOK, OverlapsHasDir, [Next]_vars
    PROVE  OverlapsHasDir'
<1> USE DEF OverlapsHasDir
<1>1. CASE OtherWrites
  BY <1>1 DEF OtherWrites
<1>2. ASSUME NEW c \in Clients, ApplicationStep(c) PROVE OverlapsHasDir'
  <2>1. CASE UNCHANGED op
    BY <2>1
  <2>2. ASSUME NEW d \in Dirs, NEW p \in Preloads, Preload(c, d, p)
        PROVE  OverlapsHasDir'
    BY <2>2 DEF Preload, Idle, TypeOK
  <2>3. ASSUME NEW d \in Dirs, NEW p \in Preloads, AddDir(c, d, p)
        PROVE  OverlapsHasDir'
    BY <2>3 DEF AddDir, TypeOK
  <2>4. ASSUME NEW d \in Dirs, RemoveDir(c, d) PROVE OverlapsHasDir'
    BY <2>4 DEF RemoveDir, Idle, TypeOK
  <2> QED
    BY <1>2, <2>1, <2>2, <2>3, <2>4 DEF ApplicationStep, Set, Unset,
       RecursiveUnset, OwnWrite, Get, Notify, AllEntries, ClearCache, AddDirAgain,
       RemoveDirOnce
<1>3. ASSUME NEW c \in Clients, CallStep(c) PROVE OverlapsHasDir'
  <2>1. ASSUME NEW d \in Dirs, PreloadDir(c, d) PROVE OverlapsHasDir'
    BY <2>1 DEF PreloadDir, Idle, TypeOK, Op
  <2>2. ASSUME NEW d \in Dirs, DropCovered(c, d) PROVE OverlapsHasDir'
    BY <2>2 DEF DropCovered
  <2>3. ASSUME NEW d \in Dirs, ReAddNext(c, d) PROVE OverlapsHasDir'
    BY <2>3 DEF ReAddNext, TypeOK
  <2>4. ASSUME Continue(c) PROVE OverlapsHasDir'
    <3> DEFINE todo == PreloadTodo(op[c].dir, op[c].preload)
               x == [Idle EXCEPT !.pc = "preload", !.dir = op[c].dir, !.todo = todo]
               y == [Idle EXCEPT !.pc = "readd", !.todo = op[c].todo]
    <3>1. x.pc # "overlaps" /\ y.pc # "overlaps" /\ Idle.pc # "overlaps"
      BY DEF Idle
    <3>2. op' \in {[op EXCEPT ![c] = IF todo = {} THEN Idle ELSE x],
                   [op EXCEPT ![c] = y]}
      BY <2>4 DEF Continue
    <3> HIDE DEF x, y, todo
    <3> QED
      BY <3>1, <3>2, OpUpdate
  <2>5. CASE AddNotifyFails(c) \/ ReAddDone(c)
    <3>1. op' = [op EXCEPT ![c] = Idle] /\ Idle.pc # "overlaps"
      BY <2>5 DEF AddNotifyFails, ReAddDone, Idle
    <3> QED
      BY <3>1, OpUpdate
  <2> QED
    BY <1>3, <2>1, <2>2, <2>3, <2>4, <2>5 DEF CallStep, UseCovering, AddNotify
<1>4. ASSUME NEW c \in Clients, Dispatch(c) \/ FlushStep(c) PROVE OverlapsHasDir'
  BY <1>4 DEF Dispatch, FlushStep, FlushBegin, FlushKey
<1>5. CASE UNCHANGED vars
  BY <1>5 DEF vars, clvars
<1> QED
  BY <1>1, <1>2, <1>3, <1>4, <1>5 DEF Next

LEMMA TypeStep ==
    ASSUME TypeOK, OverlapsHasDir, [Next]_vars
    PROVE  TypeOK'
<1>1. CASE OtherWrites
  <2>1. SomeWrite
    BY <1>1, WritesAreWellFormed DEF OtherWrites, TypeOK
  <2>2. DbTypeOK'
    BY <2>1, WriteType DEF TypeOK
  <2> QED
    BY <1>1, <2>2, RecordChangeType DEF OtherWrites, TypeOK
<1>2. ASSUME NEW c \in Clients, ApplicationStep(c) PROVE TypeOK'
  BY <1>2, ApplicationType
<1>3. ASSUME NEW c \in Clients, CallStep(c) PROVE TypeOK'
  BY <1>3, CallType
<1>4. ASSUME NEW c \in Clients, Dispatch(c) \/ FlushStep(c) PROVE TypeOK'
  BY <1>4, DispatchType, FlushType
<1>5. CASE UNCHANGED vars
  BY <1>5 DEF vars, dbvars, clvars, TypeOK, DbTypeOK
<1> QED
  BY <1>1, <1>2, <1>3, <1>4, <1>5 DEF Next

LEMMA InitType == Init => TypeOK /\ OverlapsHasDir
<1> SUFFICES ASSUME Init PROVE TypeOK /\ OverlapsHasDir
  OBVIOUS
<1>1. DbTypeOK
  BY MaxWritesAssumption DEF Init, DbInit, DbTypeOK, ValueOrNone
<1> QED
  BY <1>1, IdleType DEF Init, TypeOK, OverlapsHasDir, Idle

(* Every variable of the client and of the database keeps its type, through   *)
(* every interleaving of calls, writes and notifications.                     *)
THEOREM TypeCorrect == Spec => [](TypeOK /\ OverlapsHasDir)
<1>1. Init => TypeOK /\ OverlapsHasDir
  BY InitType
<1>2. TypeOK /\ OverlapsHasDir /\ [Next]_vars => (TypeOK /\ OverlapsHasDir)'
  BY TypeStep, OverlapsHasDirStep
<1> QED
  BY <1>1, <1>2, PTL DEF Spec

-----------------------------------------------------------------------------
(* The steps that change requests.                                          *)

LEMMA RequestSteps ==
    ASSUME Next
    PROVE  \/ UNCHANGED <<monitored, notifications>>
           \/ \E c \in Clients :
                 \/ AddNotify(c)
                 \/ \E d \in Dirs : DropCovered(c, d) \/ RemoveDir(c, d)
<1>1. CASE OtherWrites
  BY <1>1 DEF OtherWrites, DbSet, DbUnset, DbRecursiveUnset, Write
<1>2. ASSUME NEW c \in Clients, ApplicationStep(c)
      PROVE  \/ UNCHANGED <<monitored, notifications>>
             \/ \E d \in Dirs : RemoveDir(c, d)
  BY <1>2 DEF ApplicationStep, Set, Unset, RecursiveUnset, OwnWrite, Get, Notify,
     AllEntries, ClearCache, Preload, AddDir, AddDirAgain, RemoveDirOnce, DbSet,
     DbUnset, DbRecursiveUnset, Write, dbvars
<1>3. ASSUME NEW c \in Clients, CallStep(c)
      PROVE  \/ UNCHANGED <<monitored, notifications>>
             \/ AddNotify(c)
             \/ \E d \in Dirs : DropCovered(c, d)
  BY <1>3 DEF CallStep, PreloadDir, ReAddNext, UseCovering, AddNotifyFails,
     ReAddDone, dbvars
<1>4. ASSUME NEW c \in Clients, Dispatch(c) \/ FlushStep(c)
      PROVE  UNCHANGED <<monitored, notifications>>
  BY <1>4 DEF Dispatch, Take, FlushStep, FlushBegin, FlushKey, dbvars
<1> QED
  BY <1>1, <1>2, <1>3, <1>4 DEF Next

(* Requests are made and withdrawn one at a time.  A new one neither includes *)
(* a request the client holds nor is included in one.                         *)
Requested(c, d) ==
    /\ notifications' = [notifications EXCEPT ![d] = notifications[d] \cup {c}]
    /\ monitored' = [monitored EXCEPT ![c] = monitored[c] \cup {d}]
    /\ \A e \in monitored[c] : Disjoint(d, e)

Withdrawn(c, d) ==
    /\ notifications' = [notifications EXCEPT ![d] = notifications[d] \ {c}]
    /\ monitored' = [monitored EXCEPT ![c] = monitored[c] \ {d}]

LEMMA RequestShape ==
    ASSUME TypeOK, RequestsMatchDaemon, OverlapsHasDir, Next
    PROVE  \/ UNCHANGED <<monitored, notifications>>
           \/ \E c \in Clients, d \in Dirs : Requested(c, d) \/ Withdrawn(c, d)
<1>1. ASSUME NEW c \in Clients, AddNotify(c)
      PROVE  \E d \in Dirs : Requested(c, d)
  <2>1. op[c].dir \in Dirs
    BY <1>1 DEF AddNotify, OverlapsDone, OverlapsHasDir
  <2>2. Requested(c, op[c].dir)
    BY <1>1 DEF AddNotify, OverlapsDone, Covered, DbAddNotify, Requested, Disjoint
  <2> QED
    BY <2>1, <2>2
<1>2. ASSUME NEW c \in Clients, NEW d \in Dirs, DropCovered(c, d)
      PROVE  Withdrawn(c, d)
  BY <1>2 DEF DropCovered, DbRemoveNotify, Withdrawn
<1>3. ASSUME NEW c \in Clients, NEW d \in Dirs, RemoveDir(c, d)
      PROVE  Withdrawn(c, d)
  <2>1. CASE d \in monitored[c]
    BY <1>3, <2>1 DEF RemoveDir, DbRemoveNotify, Withdrawn
  <2>2. CASE d \notin monitored[c]
    <3>1. c \notin notifications[d]
      BY <2>2 DEF RequestsMatchDaemon
    <3>2. notifications' = notifications
      BY <1>3, <2>2 DEF RemoveDir, dbvars
    <3>3. monitored' = [monitored EXCEPT ![c] = monitored[c] \ {d}]
      BY <1>3 DEF RemoveDir
    <3>4. notifications = [notifications EXCEPT ![d] = notifications[d] \ {c}]
      BY <3>1 DEF TypeOK, DbTypeOK
    <3> QED
      BY <3>2, <3>3, <3>4 DEF Withdrawn
  <2> QED
    BY <2>1, <2>2
<1> QED
  BY <1>1, <1>2, <1>3, RequestSteps

-----------------------------------------------------------------------------

RequestsInv ==
    TypeOK /\ OverlapsHasDir /\ RequestsMatchDaemon /\ NoRedundantRequests

LEMMA RequestsStep ==
    ASSUME RequestsInv, [Next]_vars
    PROVE  RequestsMatchDaemon' /\ NoRedundantRequests'
<1> USE DEF RequestsInv
<1>1. CASE UNCHANGED <<monitored, notifications>>
  BY <1>1 DEF RequestsMatchDaemon, NoRedundantRequests
<1>2. ASSUME NEW c \in Clients, NEW d \in Dirs, Requested(c, d)
      PROVE  RequestsMatchDaemon' /\ NoRedundantRequests'
  <2>1. \A b \in Clients, s \in Dirs :
           /\ b \in notifications'[s] <=> (b \in notifications[s] \/ (b = c /\ s = d))
           /\ s \in monitored'[b] <=> (s \in monitored[b] \/ (b = c /\ s = d))
    BY <1>2 DEF Requested, TypeOK, DbTypeOK
  <2>2. RequestsMatchDaemon'
    BY <2>1 DEF RequestsMatchDaemon
  <2>3. \A b \in Clients : monitored'[b] \subseteq Dirs
    BY TypeStep DEF TypeOK
  <2>4. NoRedundantRequests'
    BY <1>2, <2>1, <2>3 DEF NoRedundantRequests, Requested, Disjoint
  <2> QED
    BY <2>2, <2>4
<1>3. ASSUME NEW c \in Clients, NEW d \in Dirs, Withdrawn(c, d)
      PROVE  RequestsMatchDaemon' /\ NoRedundantRequests'
  <2>1. \A b \in Clients, s \in Dirs :
           /\ b \in notifications'[s] <=> (b \in notifications[s] /\ ~ (b = c /\ s = d))
           /\ s \in monitored'[b] <=> (s \in monitored[b] /\ ~ (b = c /\ s = d))
    BY <1>3 DEF Withdrawn, TypeOK, DbTypeOK
  <2>2. \A b \in Clients : monitored'[b] \subseteq monitored[b]
    BY <1>3 DEF Withdrawn, TypeOK
  <2> QED
    BY <2>1, <2>2 DEF RequestsMatchDaemon, NoRedundantRequests
<1>4. CASE UNCHANGED vars
  BY <1>1, <1>4 DEF vars, dbvars, clvars
<1> QED
  BY <1>1, <1>2, <1>3, <1>4, RequestShape

(* A client and the daemon agree on the client's notification requests, and   *)
(* no request of a client includes another: whatever directories the          *)
(* application adds and removes, in any order, while other programs write and *)
(* AddNotify calls fail.                                                      *)
THEOREM RequestsAgree == Spec => [](RequestsMatchDaemon /\ NoRedundantRequests)
<1>1. Init => RequestsInv
  BY InitType DEF Init, DbInit, RequestsInv, RequestsMatchDaemon,
     NoRedundantRequests
<1>2. RequestsInv /\ [Next]_vars => RequestsInv'
  BY RequestsStep, TypeStep, OverlapsHasDirStep DEF RequestsInv
<1>3. RequestsInv => RequestsMatchDaemon /\ NoRedundantRequests
  BY DEF RequestsInv
<1> QED
  BY <1>1, <1>2, <1>3, PTL DEF Spec

-----------------------------------------------------------------------------
(* Coverage.                                                                 *)

(* At every stage of a call of c, a watched directory is covered by a         *)
(* request, or the call has yet to come to it: it is among those the re-add   *)
(* loop has left, or below the directory whose overlaps are being set up.     *)
Cover(c) ==
    \A d \in WatchedDirs(c) :
        \/ Covered(c, d)
        \/ op[c].pc \in {"readd", "overlaps"} /\ op[c].then # "add" /\ d \in op[c].todo
        \/ op[c].pc = "overlaps" /\ IsBelow(op[c].dir, d)

(* Cover(c) depends on the requests, the directories and the call of c.       *)
LEMMA CoverFrame ==
    ASSUME NEW c, Cover(c), monitored'[c] = monitored[c],
           addCount'[c] = addCount[c], op'[c] = op[c]
    PROVE  Cover(c)'
BY DEF Cover, Covered, WatchedDirs

LEMMA DirBelow ==
    ASSUME NEW d \in Dirs
    PROVE  /\ IsBelow(d, d)
           /\ \A e \in Dirs, k \in Dirs \cup Keys :
                 IsBelow(d, e) /\ IsBelow(e, k) => IsBelow(d, k)
<1>1. d \in Seq(STRING)
  BY PathAssumption
<1>2. \A x \in Dirs \cup Keys : x \in Seq(STRING)
  BY PathAssumption
<1> QED
  BY <1>1, <1>2, BelowReflexive, BelowTransitive

(* Once op.dir is covered, whatever is below it is.                           *)
LEMMA CoverContinue ==
    ASSUME TypeOK, NEW c \in Clients, op[c].pc = "overlaps", op[c].dir \in Dirs,
           Cover(c), Continue(c), monitored[c] \subseteq monitored'[c],
           monitored'[c] \subseteq Dirs,
           \E r \in monitored'[c] : IsBelow(r, op[c].dir)
    PROVE  Cover(c)'
<1> DEFINE dir  == op[c].dir
           todo == PreloadTodo(dir, op[c].preload)
           next == [Idle EXCEPT !.pc = "readd", !.todo = op[c].todo]
<1>1. \A d \in Dirs : Covered(c, d) => Covered(c, d)'
  BY DEF Covered
<1>2. PICK r \in monitored'[c] : IsBelow(r, dir)
  OBVIOUS
<1>3. \A d \in Dirs : IsBelow(dir, d) => Covered(c, d)'
  BY <1>2, DirBelow DEF Covered
<1>4. CASE op[c].then = "add"
  <2>1. addCount' = [addCount EXCEPT ![c][dir] = 1]
    BY <1>4 DEF Continue
  <2>2. \A d \in WatchedDirs(c)' : d \in WatchedDirs(c) \/ d = dir
    BY <2>1 DEF WatchedDirs, TypeOK
  <2>3. \A d \in WatchedDirs(c)' : Covered(c, d)'
    BY <1>1, <1>3, <1>4, <2>2, DirBelow DEF Cover, WatchedDirs
  <2> QED
    BY <2>3 DEF Cover
<1>5. CASE op[c].then # "add"
  <2>1. op' = [op EXCEPT ![c] = next] /\ addCount' = addCount
    BY <1>5 DEF Continue
  <2>2. op'[c].pc = "readd" /\ op'[c].then = "none" /\ op'[c].todo = op[c].todo
    BY <2>1 DEF TypeOK, Idle
  <2>3. WatchedDirs(c)' = WatchedDirs(c)
    BY <2>1 DEF WatchedDirs
  <2>4. \A d \in WatchedDirs(c)' : Covered(c, d)' \/ d \in op'[c].todo
    BY <1>1, <1>3, <2>2, <2>3 DEF Cover, WatchedDirs
  <2> QED
    BY <2>2, <2>4 DEF Cover
<1> QED
  BY <1>4, <1>5

CoverInv == RequestsInv /\ \A c \in Clients : Cover(c)

LEMMA CoverStep ==
    ASSUME CallsFail = FALSE, CoverInv, Next, NEW b \in Clients
    PROVE  Cover(b)'
<1> USE DEF CoverInv, RequestsInv
<1>0. TypeOK' /\ TypeOK
  BY TypeStep
<1>1. CASE UNCHANGED <<monitored, addCount, op>>
  BY <1>1, CoverFrame
<1>2. ASSUME NEW c \in Clients, NEW d \in Dirs, NEW p \in Preloads, Preload(c, d, p)
      PROVE  Cover(b)'
  <2>1. CASE b # c
    BY <1>2, <2>1, CoverFrame DEF Preload, TypeOK
  <2>2. CASE b = c
    <3>1. op[c].pc = "idle" /\ monitored' = monitored /\ addCount' = addCount
      BY <1>2 DEF Preload, Idle
    <3> QED
      BY <2>2, <3>1 DEF Cover, Covered, WatchedDirs
  <2> QED
    BY <2>1, <2>2
<1>3. ASSUME NEW c \in Clients, NEW d \in Dirs, PreloadDir(c, d)
      PROVE  Cover(b)'
  <2>1. CASE b # c
    BY <1>3, <2>1, CoverFrame DEF PreloadDir, TypeOK
  <2>2. CASE b = c
    <3>1. op[c].pc = "preload" /\ monitored' = monitored /\ addCount' = addCount
      BY <1>3 DEF PreloadDir
    <3> QED
      BY <2>2, <3>1 DEF Cover, Covered, WatchedDirs
  <2> QED
    BY <2>1, <2>2
<1>4. ASSUME NEW c \in Clients, NEW d \in Dirs, NEW p \in Preloads, AddDir(c, d, p)
      PROVE  Cover(b)'
  <2>1. CASE b # c
    BY <1>4, <2>1, CoverFrame DEF AddDir, TypeOK
  <2>2. CASE b = c
    <3>1. op[c].pc = "idle" /\ monitored' = monitored /\ addCount' = addCount
      BY <1>4 DEF AddDir, Idle
    <3> QED
      BY <2>2, <3>1 DEF Cover, Covered, WatchedDirs
  <2> QED
    BY <2>1, <2>2
<1>5. ASSUME NEW c \in Clients, NEW d \in Dirs,
             AddDirAgain(c, d) \/ RemoveDirOnce(c, d)
      PROVE  Cover(b)'
  <2>1. WatchedDirs(b)' = WatchedDirs(b)
    <3>1. addCount \in [Clients -> [Dirs -> Nat]] /\ MaxAdds \in Nat
      BY MaxAddsAssumption DEF TypeOK
    <3>2. \/ /\ addCount[c][d] \in 1..(MaxAdds - 1)
             /\ addCount' = [addCount EXCEPT ![c][d] = addCount[c][d] + 1]
          \/ /\ addCount[c][d] > 1
             /\ addCount' = [addCount EXCEPT ![c][d] = addCount[c][d] - 1]
      BY <1>5 DEF AddDirAgain, RemoveDirOnce
    <3>3. \A e \in Dirs : addCount'[b][e] > 0 <=> addCount[b][e] > 0
      BY <3>1, <3>2
    <3> QED
      BY <3>3 DEF WatchedDirs
  <2>2. monitored' = monitored /\ op' = op
    BY <1>5 DEF AddDirAgain, RemoveDirOnce
  <2> QED
    BY <2>1, <2>2 DEF Cover, Covered
<1>6. ASSUME NEW c \in Clients, NEW d \in Dirs, DropCovered(c, d)
      PROVE  Cover(b)'
  <2>1. CASE b # c
    BY <1>6, <2>1, CoverFrame DEF DropCovered, TypeOK
  <2>2. CASE b = c
    <3>1. /\ op[c].pc = "overlaps" /\ op[c].dir \in Dirs /\ IsBelow(op[c].dir, d)
          /\ op' = op /\ addCount' = addCount
      BY <1>6 DEF DropCovered, OverlapsHasDir
    <3>2. monitored'[c] = monitored[c] \ {d}
      BY <1>6 DEF DropCovered, TypeOK
    <3>3. \A e \in Dirs : Covered(c, e) => Covered(c, e)' \/ IsBelow(op[c].dir, e)
      BY <3>1, <3>2, DirBelow DEF Covered
    <3> QED
      BY <2>2, <3>1, <3>3 DEF Cover, WatchedDirs
  <2> QED
    BY <2>1, <2>2
<1>7. ASSUME NEW c \in Clients, UseCovering(c) \/ AddNotify(c)
      PROVE  Cover(b)'
  <2>1. op[c].pc = "overlaps" /\ op[c].dir \in Dirs /\ Continue(c)
    BY <1>7 DEF UseCovering, AddNotify, OverlapsDone, OverlapsHasDir
  <2>2. CASE b # c
    <3>1. op'[b] = op[b] /\ addCount'[b] = addCount[b]
      BY <2>1, <2>2 DEF Continue, TypeOK
    <3>2. monitored'[b] = monitored[b]
      BY <1>7, <2>2 DEF UseCovering, AddNotify, TypeOK
    <3> QED
      BY <3>1, <3>2, CoverFrame
  <2>3. CASE b = c
    <3>1. monitored[c] \subseteq monitored'[c] /\ monitored'[c] \subseteq Dirs
      BY <1>0, <1>7 DEF UseCovering, AddNotify, TypeOK
    <3>2. \E r \in monitored'[c] : IsBelow(r, op[c].dir)
      BY <1>7, <2>1, DirBelow DEF UseCovering, AddNotify, Covered, TypeOK
    <3> QED
      BY <2>1, <2>3, <3>1, <3>2, CoverContinue
  <2> QED
    BY <2>2, <2>3
<1>8. ASSUME NEW c \in Clients, NEW d \in Dirs, RemoveDir(c, d)
      PROVE  Cover(b)'
  <2>1. CASE b # c
    BY <1>8, <2>1, CoverFrame DEF RemoveDir, TypeOK
  <2>2. CASE b = c
    <3>1. op'[c].pc = "readd" /\ op'[c].then # "add" /\ op'[c].todo = WatchedDirs(c) \ {d}
      BY <1>8 DEF RemoveDir, TypeOK, Idle
    <3>2. WatchedDirs(c)' \subseteq WatchedDirs(c) \ {d}
      BY <1>8 DEF RemoveDir, TypeOK, WatchedDirs
    <3> QED
      BY <2>2, <3>1, <3>2 DEF Cover
  <2> QED
    BY <2>1, <2>2
<1>9. ASSUME NEW c \in Clients, NEW d \in Dirs, ReAddNext(c, d)
      PROVE  Cover(b)'
  <2>1. CASE b # c
    BY <1>9, <2>1, CoverFrame DEF ReAddNext, TypeOK
  <2>2. CASE b = c
    <3>1. /\ op[c].pc = "readd" /\ op'[c].pc = "overlaps" /\ op'[c].then = "readd"
          /\ op'[c].dir = d /\ op'[c].todo = op[c].todo \ {d}
          /\ monitored' = monitored /\ addCount' = addCount
      BY <1>9 DEF ReAddNext, TypeOK
    <3> QED
      BY <2>2, <3>1, DirBelow DEF Cover, Covered, WatchedDirs
  <2> QED
    BY <2>1, <2>2
<1>10. ASSUME NEW c \in Clients, ReAddDone(c)
       PROVE  Cover(b)'
  <2>1. CASE b # c
    BY <1>10, <2>1, CoverFrame DEF ReAddDone, TypeOK
  <2>2. CASE b = c
    <3>1. /\ op[c].pc = "readd" /\ op[c].todo \subseteq monitored[c]
          /\ monitored' = monitored /\ addCount' = addCount
      BY <1>10 DEF ReAddDone
    <3>2. \A d \in WatchedDirs(c) : Covered(c, d)
      BY <3>1, DirBelow DEF Cover, Covered, WatchedDirs
    <3> QED
      BY <2>2, <3>1, <3>2 DEF Cover, Covered, WatchedDirs
  <2> QED
    BY <2>1, <2>2
<1>11. ASSUME NEW c \in Clients, AddNotifyFails(c) PROVE Cover(b)'
  BY <1>11 DEF AddNotifyFails
<1>12. CASE OtherWrites
  BY <1>1, <1>12 DEF OtherWrites
<1>13. ASSUME NEW c \in Clients, ApplicationStep(c) PROVE Cover(b)'
  BY <1>1, <1>2, <1>4, <1>5, <1>8, <1>13 DEF ApplicationStep, Set, Unset,
     RecursiveUnset, OwnWrite, Get, Notify, AllEntries, ClearCache
<1>14. ASSUME NEW c \in Clients, CallStep(c) PROVE Cover(b)'
  BY <1>3, <1>6, <1>7, <1>9, <1>10, <1>11, <1>14 DEF CallStep
<1>15. ASSUME NEW c \in Clients, Dispatch(c) \/ FlushStep(c) PROVE Cover(b)'
  BY <1>1, <1>15 DEF Dispatch, FlushStep, FlushBegin, FlushKey
<1> QED
  BY <1>12, <1>13, <1>14, <1>15 DEF Next

(* While no AddNotify call fails, every directory the application watches is   *)
(* covered by a request whenever no call is under way.                         *)
THEOREM WatchedStayCovered ==
    ASSUME CallsFail = FALSE
    PROVE  Spec => []WatchedAreCovered
<1>1. Init => CoverInv
  BY InitType DEF Init, DbInit, CoverInv, RequestsInv, RequestsMatchDaemon,
     NoRedundantRequests, Cover, WatchedDirs
<1>2. CoverInv /\ [Next]_vars => CoverInv'
  <2> SUFFICES ASSUME CoverInv, [Next]_vars PROVE CoverInv'
    OBVIOUS
  <2>1. RequestsInv'
    BY RequestsStep, TypeStep, OverlapsHasDirStep DEF CoverInv, RequestsInv
  <2>2. CASE UNCHANGED vars
    BY <2>1, <2>2, CoverFrame DEF vars, clvars, CoverInv
  <2>3. CASE Next
    BY <2>1, <2>3, CoverStep DEF CoverInv
  <2> QED
    BY <2>2, <2>3
<1>3. CoverInv => WatchedAreCovered
  BY DEF CoverInv, Cover, WatchedAreCovered, Idle
<1> QED
  BY <1>1, <1>2, <1>3, PTL DEF Spec

-----------------------------------------------------------------------------
(* Steps, and what they leave alone.                                         *)

(* A step of client c.                                                       *)
ClientStep(c) == ApplicationStep(c) \/ CallStep(c) \/ Dispatch(c) \/ FlushStep(c)

LEMMA OtherWritesFrame ==
    ASSUME OtherWrites
    PROVE  UNCHANGED <<addCount, monitored, cache, op>>
BY DEF OtherWrites

LEMMA OthersKeep ==
    ASSUME TypeOK, NEW c \in Clients, ClientStep(c), NEW b \in Clients, b # c
    PROVE  /\ addCount'[b] = addCount[b] /\ monitored'[b] = monitored[b]
           /\ op'[b] = op[b] /\ cache'[b] = cache[b]
<1> USE DEF TypeOK
<1>1. CASE ApplicationStep(c)
  <2> USE DEF Evict, CacheCurrent
  <2>1. ASSUME NEW k \in Keys, NEW v \in Values, Set(c, k, v)
        PROVE  UNCHANGED <<addCount, monitored, op>> /\ cache'[b] = cache[b]
    BY <2>1 DEF Set, OwnWrite
  <2>2. ASSUME NEW k \in Keys, Unset(c, k)
        PROVE  UNCHANGED <<addCount, monitored, op>> /\ cache'[b] = cache[b]
    BY <2>2 DEF Unset, OwnWrite
  <2>3. ASSUME NEW top, RecursiveUnset(c, top)
        PROVE  UNCHANGED <<addCount, monitored, op>> /\ cache'[b] = cache[b]
    BY <2>3 DEF RecursiveUnset, OwnWrite
  <2>4. ASSUME NEW k \in Keys, Get(c, k) \/ Notify(c, k)
        PROVE  UNCHANGED <<addCount, monitored, op>> /\ cache'[b] = cache[b]
    BY <2>4 DEF Get, Notify
  <2>5. ASSUME NEW d \in Dirs, AllEntries(c, d)
        PROVE  UNCHANGED <<addCount, monitored, op>> /\ cache'[b] = cache[b]
    BY <2>5 DEF AllEntries
  <2>6. ASSUME ClearCache(c)
        PROVE  UNCHANGED <<addCount, monitored, op>> /\ cache'[b] = cache[b]
    BY <2>6 DEF ClearCache
  <2>7. ASSUME NEW d \in Dirs, NEW p \in Preloads, Preload(c, d, p) \/ AddDir(c, d, p)
        PROVE  UNCHANGED <<addCount, monitored, cache>> /\ op'[b] = op[b]
    BY <2>7 DEF Preload, AddDir
  <2>8. ASSUME NEW d \in Dirs, AddDirAgain(c, d) \/ RemoveDirOnce(c, d)
        PROVE  UNCHANGED <<op, monitored, cache>> /\ addCount'[b] = addCount[b]
    BY <2>8 DEF AddDirAgain, RemoveDirOnce
  <2>9. ASSUME NEW d \in Dirs, RemoveDir(c, d)
        PROVE  /\ addCount'[b] = addCount[b] /\ monitored'[b] = monitored[b]
               /\ op'[b] = op[b] /\ cache'[b] = cache[b]
    BY <2>9 DEF RemoveDir
  <2> HIDE DEF TypeOK, Evict, CacheCurrent
  <2> QED
    BY <1>1, <2>1, <2>2, <2>3, <2>4, <2>5, <2>6, <2>7, <2>8, <2>9
       DEF ApplicationStep
<1>2. CASE CallStep(c)
  <2>1. ASSUME Continue(c)
        PROVE  addCount'[b] = addCount[b] /\ op'[b] = op[b]
    BY <2>1 DEF Continue
  <2>2. ASSUME UseCovering(c) \/ AddNotify(c)
        PROVE  /\ addCount'[b] = addCount[b] /\ monitored'[b] = monitored[b]
               /\ op'[b] = op[b] /\ cache'[b] = cache[b]
    BY <2>1, <2>2 DEF UseCovering, AddNotify
  <2>3. ASSUME NEW d \in Dirs, PreloadDir(c, d)
        PROVE  UNCHANGED <<addCount, monitored>> /\ op'[b] = op[b] /\ cache'[b] = cache[b]
    BY <2>3 DEF PreloadDir, CacheCurrent
  <2>4. ASSUME NEW d \in Dirs, DropCovered(c, d) \/ ReAddNext(c, d)
        PROVE  /\ UNCHANGED <<addCount, cache>>
               /\ op'[b] = op[b] /\ monitored'[b] = monitored[b]
    BY <2>4 DEF DropCovered, ReAddNext
  <2>5. ASSUME AddNotifyFails(c) \/ ReAddDone(c)
        PROVE  UNCHANGED <<addCount, monitored, cache>> /\ op'[b] = op[b]
    BY <2>5 DEF AddNotifyFails, ReAddDone
  <2> QED
    BY <1>2, <2>2, <2>3, <2>4, <2>5 DEF CallStep
<1>3. CASE Dispatch(c)
  BY <1>3 DEF Dispatch
<1>4. CASE FlushStep(c)
  BY <1>4 DEF FlushStep, FlushBegin, FlushKey, CacheCurrent
<1> QED
  BY <1>1, <1>2, <1>3, <1>4 DEF ClientStep

(* What is cached for k stays, or goes.                                        *)
Kept(c, k) == cache'[c][k] \in {cache[c][k], NotCached}

LEMMA EvictKeeps ==
    ASSUME TypeOK, NEW c \in Clients, NEW K, Evict(c, K)
    PROVE  \A b \in Clients, k \in Keys : Kept(b, k)
BY DEF Evict, Kept, TypeOK

(* A write to the database leaves the clients alone, save what the writer drops *)
(* from its cache.                                                             *)
Written ==
    /\ SomeWrite
    /\ UNCHANGED <<addCount, monitored, op>>
    /\ \A c \in Clients, k \in Keys : Kept(c, k)

(* The database is written, or a Notify call is dispatched, or the queues and  *)
(* the values stay as they are.                                                *)
LEMMA InboxSteps ==
    ASSUME TypeOK, Next
    PROVE  \/ UNCHANGED <<store, inbox>>
           \/ Written
           \/ \E c \in Clients : Dispatch(c)
<1>0. DbTypeOK
  BY DEF TypeOK
<1>1. CASE OtherWrites
  <2>1. SomeWrite
    BY <1>0, <1>1, WritesAreWellFormed DEF OtherWrites
  <2> QED
    BY <1>1, <2>1 DEF OtherWrites, Written, Kept
<1>2. ASSUME NEW c \in Clients, ApplicationStep(c)
      PROVE  UNCHANGED <<store, inbox>> \/ Written
  <2>1. ASSUME NEW d \in Dirs, RemoveDir(c, d) PROVE UNCHANGED <<store, inbox>>
    BY <2>1 DEF RemoveDir, DbRemoveNotify, dbvars
  <2>2. ASSUME NEW K, OwnWrite(c, K), SomeWrite PROVE Written
    BY <2>2, EvictKeeps DEF OwnWrite, Written
  <2>3. ASSUME NEW k \in Keys, NEW v \in Values, Set(c, k, v) PROVE Written
    BY <1>0, <2>2, <2>3, WritesAreWellFormed DEF Set
  <2>4. ASSUME NEW k \in Keys, Unset(c, k) PROVE Written
    BY <1>0, <2>2, <2>4, WritesAreWellFormed DEF Unset
  <2>5. ASSUME NEW top, RecursiveUnset(c, top) PROVE Written
    BY <1>0, <2>2, <2>5, WritesAreWellFormed DEF RecursiveUnset
  <2> QED
    BY <1>2, <2>1, <2>3, <2>4, <2>5 DEF ApplicationStep, Get, Notify, AllEntries,
       ClearCache, Preload, AddDir, AddDirAgain, RemoveDirOnce, dbvars
<1>3. ASSUME NEW c \in Clients, CallStep(c) PROVE UNCHANGED <<store, inbox>>
  BY <1>3 DEF CallStep, PreloadDir, DropCovered, ReAddNext, UseCovering, AddNotify,
     AddNotifyFails, ReAddDone, DbAddNotify, DbRemoveNotify, dbvars
<1>4. ASSUME NEW c \in Clients, FlushStep(c) PROVE UNCHANGED <<store, inbox>>
  BY <1>4 DEF FlushStep, FlushBegin, FlushKey, dbvars
<1> QED
  BY <1>1, <1>2, <1>3, <1>4 DEF Next

-----------------------------------------------------------------------------
(* A Notify call is for a key at or below its section.                        *)

MessagesBelow ==
    \A c \in Clients : \A i \in 1..Len(inbox[c]) :
        IsBelow(inbox[c][i].section, inbox[c][i].key)

(* The messages a write appends are for its keys, with their new entries, and  *)
(* for the sections the client is listed for.                                  *)
LEMMA NotifiesForShape ==
    ASSUME NEW c, NEW K, NEW e, NEW m \in NotifiesFor(c, K, e)
    PROVE  /\ m.key \in K /\ m.section \in Dirs /\ m.entry = e[m.key]
           /\ c \in notifications[m.section] /\ IsBelow(m.section, m.key)
<1>1. PICK p \in {q \in Dirs \X K : q[1] \in SectionsFor(c, q[2])} :
          m = [section |-> p[1], key |-> p[2], entry |-> e[p[2]]]
  BY DEF NotifiesFor
<1>2. p[1] \in Dirs /\ p[2] \in K /\ c \in notifications[p[1]] /\ IsBelow(p[1], p[2])
  BY DEF SectionsFor
<1> QED
  BY <1>1, <1>2

LEMMA NotifiesForAll ==
    ASSUME NEW c, NEW K, NEW e, NEW s \in Dirs, NEW k \in K,
           c \in notifications[s], IsBelow(s, k)
    PROVE  [section |-> s, key |-> k, entry |-> e[k]] \in NotifiesFor(c, K, e)
<1>1. <<s, k>> \in {q \in Dirs \X K : q[1] \in SectionsFor(c, q[2])}
  BY DEF SectionsFor
<1> QED
  BY <1>1 DEF NotifiesFor

(* The positions of a queue after an append.                                   *)
LEMMA AppendPositions ==
    ASSUME NEW S, NEW q \in Seq(S), NEW b \in Seq(S)
    PROVE  /\ Len(q \o b) = Len(q) + Len(b)
           /\ \A i \in 1..Len(q) : (q \o b)[i] = q[i]
           /\ \A i \in 1..Len(b) : (q \o b)[Len(q) + i] = b[i]
           /\ \A i \in 1..Len(q \o b) :
                 i \in 1..Len(q) \/ \E j \in 1..Len(b) : i = Len(q) + j
<1>1. Len(q) \in Nat /\ Len(b) \in Nat
  OBVIOUS
<1>2. Len(q \o b) = Len(q) + Len(b)
  BY ConcatProperties
<1>3. \A i \in 1..Len(q) : (q \o b)[i] = q[i]
  BY ConcatProperties
<1>4. \A i \in 1..Len(b) : (q \o b)[Len(q) + i] = b[i]
  BY <1>1, ConcatProperties
<1>5. ASSUME NEW i \in 1..Len(q \o b), i \notin 1..Len(q)
      PROVE  i - Len(q) \in 1..Len(b) /\ i = Len(q) + (i - Len(q))
  BY <1>1, <1>2, <1>5
<1> QED
  BY <1>2, <1>3, <1>4, <1>5

(* ... and after its head is taken.                                            *)
LEMMA TailPositions ==
    ASSUME NEW S, NEW q \in Seq(S), q # <<>>
    PROVE  /\ Len(q) \in Nat \ {0} /\ Head(q) = q[1]
           /\ Len(Tail(q)) = Len(q) - 1
           /\ \A i \in 1..Len(Tail(q)) : Tail(q)[i] = q[i + 1]
BY HeadTailProperties

LEMMA MessagesBelowStep ==
    ASSUME TypeOK, MessagesBelow, Next
    PROVE  MessagesBelow'
<1>0. DbTypeOK
  BY DEF TypeOK
<1>1. CASE UNCHANGED <<store, inbox>>
  BY <1>1 DEF MessagesBelow
<1>2. CASE Written
  <2>1. PICK K \in SUBSET Keys :
            \E st \in [Keys -> ValueOrNone], e \in [K -> Entry] :
                WellFormed(st, K, e) /\ Write(st, K, e)
    BY <1>2 DEF Written, SomeWrite
  <2>2. PICK st \in [Keys -> ValueOrNone], e \in [K -> Entry] : Write(st, K, e)
    BY <2>1
  <2>3. ASSUME NEW c \in Clients, NEW i \in 1..Len(inbox'[c])
        PROVE  IsBelow(inbox'[c][i].section, inbox'[c][i].key)
    <3>1. PICK b \in Seq(Message) :
             /\ inbox'[c] = inbox[c] \o b
             /\ \A j \in 1..Len(b) : b[j] \in NotifiesFor(c, K, e)
      BY <1>0, <2>2, WriteAppends
    <3>2. inbox[c] \in Seq(Message)
      BY <1>0 DEF DbTypeOK
    <3>3. CASE i \in 1..Len(inbox[c])
      <4>1. inbox'[c][i] = inbox[c][i]
        BY <3>1, <3>2, <3>3, AppendPositions
      <4> QED
        BY <3>3, <4>1 DEF MessagesBelow
    <3>4. CASE \E j \in 1..Len(b) : i = Len(inbox[c]) + j
      <4>1. PICK j \in 1..Len(b) : i = Len(inbox[c]) + j
        BY <3>4
      <4>2. inbox'[c][i] = b[j]
        BY <3>1, <3>2, <4>1, AppendPositions
      <4> QED
        BY <3>1, <4>2, NotifiesForShape
    <3> QED
      BY <3>1, <3>2, <3>3, <3>4, AppendPositions
  <2> QED
    BY <2>3 DEF MessagesBelow
<1>3. ASSUME NEW b \in Clients, Dispatch(b) PROVE MessagesBelow'
  <2>1. ASSUME NEW c \in Clients, NEW i \in 1..Len(inbox'[c])
        PROVE  IsBelow(inbox'[c][i].section, inbox'[c][i].key)
    <3>1. inbox[c] \in Seq(Message)
      BY <1>0 DEF DbTypeOK
    <3>2. CASE c # b
      BY <1>0, <1>3, <3>2 DEF Dispatch, Take, MessagesBelow, DbTypeOK
    <3>3. CASE c = b
      <4>1. inbox[c] # <<>> /\ inbox'[c] = Tail(inbox[c])
        BY <1>0, <1>3, <3>3 DEF Dispatch, Take, DbTypeOK
      <4>2. /\ Len(inbox[c]) \in Nat \ {0} /\ Len(inbox'[c]) = Len(inbox[c]) - 1
            /\ \A j \in 1..Len(inbox'[c]) : inbox'[c][j] = inbox[c][j + 1]
        BY <3>1, <4>1, TailPositions
      <4>3. i + 1 \in 1..Len(inbox[c]) /\ inbox'[c][i] = inbox[c][i + 1]
        BY <4>2
      <4> QED
        BY <4>3 DEF MessagesBelow
    <3> QED
      BY <3>2, <3>3
  <2> QED
    BY <2>1 DEF MessagesBelow
<1> QED
  BY <1>1, <1>2, <1>3, InboxSteps

-----------------------------------------------------------------------------
(* Only what is watched is cached.                                            *)

(* Watched directories hold the requests, and the stages of a call only work   *)
(* on watched directories.                                                     *)
Watching(c) ==
    /\ monitored[c] \subseteq WatchedDirs(c)
    /\ op[c].pc = "readd" => op[c].todo \subseteq WatchedDirs(c)
    /\ op[c].pc = "overlaps" /\ op[c].then # "add"
          => op[c].dir \in WatchedDirs(c) /\ op[c].todo \subseteq WatchedDirs(c)
    /\ op[c].pc = "preload" => \A d \in op[c].todo : KeyBeingMonitored(c, d)

LEMMA WatchingFrame ==
    ASSUME NEW c, Watching(c), monitored'[c] = monitored[c],
           addCount'[c] = addCount[c], op'[c] = op[c]
    PROVE  Watching(c)'
BY DEF Watching, WatchedDirs, KeyBeingMonitored

(* What is below a path that is being monitored is being monitored.            *)
LEMMA MonitoredBelow ==
    ASSUME NEW c, NEW d \in Dirs, NEW k \in Dirs \cup Keys,
           KeyBeingMonitored(c, d), IsBelow(d, k)
    PROVE  KeyBeingMonitored(c, k)
<1>1. PICK w \in WatchedDirs(c) : IsBelow(w, d)
  BY DEF KeyBeingMonitored
<1>2. w \in Dirs
  BY DEF WatchedDirs
<1>3. IsBelow(w, k)
  BY <1>1, <1>2, DirBelow
<1> QED
  BY <1>1, <1>3 DEF KeyBeingMonitored

(* Only the last removal of a directory makes it unwatched.                    *)
LEMMA WatchedKept ==
    ASSUME TypeOK, OverlapsHasDir, NEW c \in Clients, ClientStep(c)
    PROVE  \/ WatchedDirs(c) \subseteq WatchedDirs(c)'
           \/ \E d \in Dirs : RemoveDir(c, d)
<1>1. ASSUME UNCHANGED addCount PROVE WatchedDirs(c) \subseteq WatchedDirs(c)'
  BY <1>1 DEF WatchedDirs
<1>2. ASSUME NEW d \in Dirs, AddDirAgain(c, d) \/ RemoveDirOnce(c, d)
      PROVE  WatchedDirs(c) \subseteq WatchedDirs(c)'
  <2>1. addCount \in [Clients -> [Dirs -> Nat]] /\ MaxAdds \in Nat
    BY MaxAddsAssumption DEF TypeOK
  <2>2. \/ addCount' = [addCount EXCEPT ![c][d] = addCount[c][d] + 1]
        \/ /\ addCount[c][d] > 1
           /\ addCount' = [addCount EXCEPT ![c][d] = addCount[c][d] - 1]
    BY <1>2 DEF AddDirAgain, RemoveDirOnce
  <2>3. \A e \in Dirs : addCount[c][e] > 0 => addCount'[c][e] > 0
    BY <2>1, <2>2
  <2> QED
    BY <2>3 DEF WatchedDirs
<1>3. ASSUME Continue(c) PROVE WatchedDirs(c) \subseteq WatchedDirs(c)'
  <2>1. UNCHANGED addCount \/ \E d : addCount' = [addCount EXCEPT ![c][d] = 1]
    BY <1>3 DEF Continue
  <2>2. ASSUME NEW d, addCount' = [addCount EXCEPT ![c][d] = 1], NEW e \in Dirs
        PROVE  addCount'[c][e] = 1 \/ addCount'[c][e] = addCount[c][e]
    <3>1. addCount'[c] = [addCount[c] EXCEPT ![d] = 1]
      BY <2>2 DEF TypeOK
    <3>2. addCount[c] \in [Dirs -> Nat]
      BY DEF TypeOK
    <3> QED
      BY <3>1, <3>2
  <2>3. \A e \in Dirs : addCount[c][e] > 0 => addCount'[c][e] > 0
    BY <2>1, <2>2
  <2> QED
    BY <2>3 DEF WatchedDirs
<1>4. CASE ApplicationStep(c)
  <2>1. \/ UNCHANGED addCount
        \/ \E d \in Dirs : AddDirAgain(c, d) \/ RemoveDirOnce(c, d) \/ RemoveDir(c, d)
    BY <1>4 DEF ApplicationStep, Set, Unset, RecursiveUnset, OwnWrite, Get, Notify,
       AllEntries, ClearCache, Preload, AddDir
  <2> QED
    BY <1>1, <1>2, <2>1
<1>5. CASE CallStep(c)
  BY <1>1, <1>3, <1>5 DEF CallStep, PreloadDir, DropCovered, ReAddNext,
     UseCovering, AddNotify, AddNotifyFails, ReAddDone
<1>6. CASE Dispatch(c) \/ FlushStep(c)
  BY <1>1, <1>6 DEF Dispatch, FlushStep, FlushBegin, FlushKey
<1> QED
  BY <1>4, <1>5, <1>6 DEF ClientStep

LEMMA PreloadWatches ==
    ASSUME NEW c, NEW dir \in Dirs, NEW p \in Preloads, KeyBeingMonitored(c, dir)
    PROVE  \A d \in PreloadTodo(dir, p) : KeyBeingMonitored(c, d)
<1>1. \A d \in PreloadTodo(dir, p) : d = dir \/ (d \in Dirs /\ IsBelow(dir, d))
  BY DEF PreloadTodo, Preloads
<1> QED
  BY <1>1, MonitoredBelow

(* What a step leaves in the cache: what was there, or nothing, or the present *)
(* value of a watched key, or what the dispatched Notify call says.            *)
Refreshed(c, k) ==
    /\ cache'[c][k] = Query(k)
    /\ KeyBeingMonitored(c, k)
    /\ UNCHANGED <<store, inbox, monitored, addCount>>

Notified(c, k) ==
    LET m == Head(inbox[c])
    IN  /\ Dispatch(c)
        /\ m.section \in monitored[c] /\ m.key = k
        /\ cache'[c][k].value = m.entry.value

LEMMA CacheSteps ==
    ASSUME TypeOK, NEW c \in Clients, Watching(c), ClientStep(c), NEW k \in Keys
    PROVE  Kept(c, k) \/ Refreshed(c, k) \/ Notified(c, k)
<1>1. ASSUME UNCHANGED cache PROVE Kept(c, k)
  BY <1>1 DEF Kept
<1>2. ASSUME NEW K, Evict(c, K) PROVE Kept(c, k)
  BY <1>2 DEF Evict, Kept, TypeOK
<1>3. ASSUME NEW K, CacheCurrent(c, K), \A j \in K : KeyBeingMonitored(c, j),
             UNCHANGED <<store, inbox, monitored, addCount>>
      PROVE  Kept(c, k) \/ Refreshed(c, k)
  <2>1. cache'[c][k] = IF k \in K THEN Query(k) ELSE cache[c][k]
    BY <1>3 DEF CacheCurrent, TypeOK
  <2> QED
    BY <1>3, <2>1 DEF Kept, Refreshed
<1>4. \A d \in Dirs : KeyBeingMonitored(c, d) =>
         \A j \in Listed(d) : KeyBeingMonitored(c, j)
  BY MonitoredBelow DEF Listed, DirectlyIn
<1>5. CASE ApplicationStep(c)
  <2>1. ASSUME NEW j \in Keys, Get(c, j) \/ Notify(c, j)
        PROVE  Kept(c, k) \/ Refreshed(c, k)
    <3>1. UNCHANGED <<store, inbox, monitored, addCount>>
      BY <2>1 DEF Get, Notify, dbvars
    <3>2. UNCHANGED cache \/ (KeyBeingMonitored(c, j) /\ CacheCurrent(c, {j}))
      BY <2>1 DEF Get, Notify
    <3> QED
      BY <1>1, <1>3, <3>1, <3>2
  <2>2. ASSUME NEW d \in Dirs, AllEntries(c, d)
        PROVE  Kept(c, k) \/ Refreshed(c, k)
    BY <1>1, <1>3, <1>4, <2>2 DEF AllEntries, dbvars
  <2>3. ASSUME NEW j, NEW v, Set(c, j, v) \/ Unset(c, j) \/ RecursiveUnset(c, j)
        PROVE  Kept(c, k)
    BY <1>2, <2>3 DEF Set, Unset, RecursiveUnset, OwnWrite
  <2>4. ASSUME ClearCache(c) PROVE Kept(c, k)
    BY <1>2, <2>4 DEF ClearCache
  <2>5. ASSUME NEW d \in Dirs, RemoveDir(c, d) PROVE Kept(c, k)
    BY <1>2, <2>5 DEF RemoveDir
  <2>6. ASSUME NEW d \in Dirs, NEW p \in Preloads,
               \/ Preload(c, d, p) \/ AddDir(c, d, p)
               \/ AddDirAgain(c, d) \/ RemoveDirOnce(c, d)
        PROVE  Kept(c, k)
    BY <1>1, <2>6 DEF Preload, AddDir, AddDirAgain, RemoveDirOnce
  <2>7. Preloads # {}
    BY DEF Preloads
  <2> QED
    BY <1>5, <2>1, <2>2, <2>3, <2>4, <2>5, <2>6, <2>7 DEF ApplicationStep
<1>6. CASE CallStep(c)
  <2>1. ASSUME NEW d \in Dirs, PreloadDir(c, d)
        PROVE  Kept(c, k) \/ Refreshed(c, k)
    <3>1. KeyBeingMonitored(c, d)
      BY <2>1 DEF PreloadDir, Watching
    <3> QED
      BY <1>3, <1>4, <2>1, <3>1 DEF PreloadDir, dbvars
  <2> QED
    BY <1>1, <1>6, <2>1 DEF CallStep, DropCovered, ReAddNext, UseCovering,
       AddNotify, AddNotifyFails, ReAddDone
<1>7. CASE Dispatch(c)
  <2> DEFINE m    == Head(inbox[c])
             kept == IF IsCached(c, m.key) THEN cache[c][m.key].has_schema ELSE FALSE
             new  == [Announced(m.entry.value, FALSE) EXCEPT !.has_schema = kept]
  <2>1. CASE UNCHANGED cache
    BY <1>1, <2>1
  <2>2. CASE m.section \in monitored[c] /\ cache' = [cache EXCEPT ![c][m.key] = new]
    <3>1. new.value = m.entry.value
      BY DEF Announced
    <3>2. cache'[c] = [cache[c] EXCEPT ![m.key] = new] /\ DOMAIN cache[c] = Keys
      BY <2>2 DEF TypeOK
    <3> HIDE DEF new
    <3>3. CASE k = m.key
      BY <1>7, <2>2, <3>1, <3>2, <3>3 DEF Notified
    <3>4. CASE k # m.key
      BY <3>2, <3>4 DEF Kept
    <3> QED
      BY <3>3, <3>4
  <2> QED
    BY <1>7, <2>1, <2>2 DEF Dispatch
<1>8. CASE FlushStep(c)
  <2>1. CASE FlushBegin(c)
    BY <1>1, <2>1 DEF FlushBegin
  <2>2. ASSUME NEW j \in Keys, FlushKey(c, j) PROVE Kept(c, k) \/ Refreshed(c, k)
    <3>1. UNCHANGED <<store, inbox, monitored, addCount>>
      BY <2>2 DEF FlushKey, dbvars
    <3>2. UNCHANGED cache \/ (KeyBeingMonitored(c, j) /\ CacheCurrent(c, {j}))
      BY <2>2 DEF FlushKey
    <3> QED
      BY <1>1, <1>3, <3>1, <3>2
  <2> QED
    BY <1>8, <2>1, <2>2 DEF FlushStep
<1> QED
  BY <1>5, <1>6, <1>7, <1>8 DEF ClientStep

(* The acting client's stage stays among watched directories.                  *)
LEMMA WatchingApplication ==
    ASSUME TypeOK, OverlapsHasDir, NEW c \in Clients, Watching(c),
           ApplicationStep(c)
    PROVE  Watching(c)'
<1>1. CASE UNCHANGED <<op, monitored>> /\ WatchedDirs(c) \subseteq WatchedDirs(c)'
  BY <1>1 DEF Watching, KeyBeingMonitored
<1>2. ASSUME NEW d \in Dirs, NEW p \in Preloads, Preload(c, d, p)
      PROVE  Watching(c)'
  <2>1. /\ monitored' = monitored /\ addCount' = addCount
        /\ op'[c].pc = "preload" /\ op'[c].todo = PreloadTodo(d, p)
    BY <1>2 DEF Preload, TypeOK, Idle
  <2>2. \A e \in PreloadTodo(d, p) : KeyBeingMonitored(c, e)
    BY <1>2, PreloadWatches DEF Preload
  <2> QED
    BY <2>1, <2>2 DEF Watching, WatchedDirs, KeyBeingMonitored
<1>3. ASSUME NEW d \in Dirs, NEW p \in Preloads, AddDir(c, d, p)
      PROVE  Watching(c)'
  <2>1. /\ monitored' = monitored /\ addCount' = addCount
        /\ op'[c].pc = "overlaps" /\ op'[c].then = "add"
    BY <1>3 DEF AddDir, TypeOK
  <2> QED
    BY <2>1 DEF Watching, WatchedDirs
<1>4. ASSUME NEW d \in Dirs, RemoveDir(c, d)
      PROVE  Watching(c)'
  <2>1. WatchedDirs(c)' = WatchedDirs(c) \ {d}
    BY <1>4 DEF RemoveDir, TypeOK, WatchedDirs
  <2>2. /\ monitored'[c] = monitored[c] \ {d}
        /\ op'[c].pc = "readd" /\ op'[c].todo = WatchedDirs(c) \ {d}
    BY <1>4 DEF RemoveDir, TypeOK, Idle
  <2> QED
    BY <2>1, <2>2 DEF Watching
<1>5. \/ UNCHANGED <<op, monitored>>
      \/ \E d \in Dirs : RemoveDir(c, d) \/ \E p \in Preloads :
             Preload(c, d, p) \/ AddDir(c, d, p)
  BY DEF ApplicationStep, Set, Unset, RecursiveUnset, OwnWrite, Get, Notify,
     AllEntries, ClearCache, AddDirAgain, RemoveDirOnce
<1> QED
  BY <1>1, <1>2, <1>3, <1>4, <1>5, WatchedKept DEF ClientStep

LEMMA WatchingContinue ==
    ASSUME TypeOK, NEW c \in Clients, Watching(c), op[c].pc = "overlaps",
           op[c].dir \in Dirs, Continue(c),
           monitored'[c] \subseteq monitored[c] \cup {op[c].dir}
    PROVE  Watching(c)'
<1> DEFINE dir  == op[c].dir
           todo == PreloadTodo(dir, op[c].preload)
           pre  == [Idle EXCEPT !.pc = "preload", !.dir = dir, !.todo = todo]
<1>1. CASE op[c].then = "add"
  <2>1. addCount' = [addCount EXCEPT ![c][dir] = 1]
    BY <1>1 DEF Continue
  <2>2. WatchedDirs(c)' = WatchedDirs(c) \cup {dir}
    <3> HIDE DEF dir
    <3>1. dir \in Dirs
      BY DEF dir
    <3> QED
      BY <2>1, <3>1 DEF WatchedDirs, TypeOK
  <2>3. monitored'[c] \subseteq WatchedDirs(c)'
    BY <2>2 DEF Watching
  <2>4. op'[c] \in {Idle, pre}
    BY <1>1 DEF Continue, TypeOK
  <2>5. pre.pc = "preload" /\ pre.todo = todo /\ Idle.pc = "idle"
    BY DEF Idle
  <2>6. \A d \in todo : d = dir \/ IsBelow(dir, d)
    <3>1. op[c].preload \in Preloads
      BY DEF TypeOK, Op
    <3> QED
      BY <3>1 DEF PreloadTodo, Preloads
  <2>7. \A d \in todo : \E w \in WatchedDirs(c)' : IsBelow(w, d)
    BY <2>2, <2>6, DirBelow
  <2> HIDE DEF pre
  <2>8. CASE op'[c] = Idle
    BY <2>3, <2>5, <2>8 DEF Watching
  <2>9. CASE op'[c] = pre
    BY <2>3, <2>5, <2>7, <2>9 DEF Watching, KeyBeingMonitored
  <2> QED
    BY <2>4, <2>8, <2>9
<1>2. CASE op[c].then # "add"
  <2>1. WatchedDirs(c)' = WatchedDirs(c)
    BY <1>2 DEF Continue, WatchedDirs
  <2>2. op'[c].pc = "readd" /\ op'[c].todo = op[c].todo
    BY <1>2 DEF Continue, TypeOK, Idle
  <2> QED
    BY <1>2, <2>1, <2>2 DEF Watching
<1> QED
  BY <1>1, <1>2

LEMMA WatchingStep ==
    ASSUME TypeOK, OverlapsHasDir, \A c \in Clients : Watching(c), Next,
           NEW b \in Clients
    PROVE  Watching(b)'
<1>1. CASE OtherWrites
  BY <1>1, OtherWritesFrame, WatchingFrame
<1>2. ASSUME NEW c \in Clients, ClientStep(c), b # c PROVE Watching(b)'
  BY <1>2, OthersKeep, WatchingFrame
<1>3. CASE ApplicationStep(b)
  BY <1>3, WatchingApplication
<1>4. ASSUME NEW d \in Dirs, PreloadDir(b, d) PROVE Watching(b)'
  <2>1. monitored' = monitored /\ addCount' = addCount /\ op[b].pc = "preload"
    BY <1>4 DEF PreloadDir
  <2>2. op'[b] = Idle \/ (op'[b].pc = "preload" /\ op'[b].todo = op[b].todo \ {d})
    BY <1>4, <2>1 DEF PreloadDir, TypeOK, Op
  <2> QED
    BY <2>1, <2>2 DEF Watching, WatchedDirs, KeyBeingMonitored, Idle
<1>5. ASSUME NEW d \in Dirs, DropCovered(b, d) PROVE Watching(b)'
  BY <1>5 DEF DropCovered, Watching, WatchedDirs, KeyBeingMonitored, TypeOK
<1>6. ASSUME NEW d \in Dirs, ReAddNext(b, d) PROVE Watching(b)'
  <2>1. /\ op[b].pc = "readd" /\ d \in op[b].todo
        /\ op'[b].pc = "overlaps" /\ op'[b].then = "readd" /\ op'[b].dir = d
        /\ op'[b].todo = op[b].todo \ {d}
        /\ monitored' = monitored /\ addCount' = addCount
    BY <1>6 DEF ReAddNext, TypeOK
  <2> QED
    BY <2>1 DEF Watching, WatchedDirs
<1>7. CASE UseCovering(b) \/ AddNotify(b)
  <2>1. op[b].pc = "overlaps" /\ op[b].dir \in Dirs /\ Continue(b)
    BY <1>7 DEF UseCovering, AddNotify, OverlapsDone, OverlapsHasDir
  <2>2. monitored'[b] \subseteq monitored[b] \cup {op[b].dir}
    BY <1>7 DEF UseCovering, AddNotify, TypeOK
  <2> QED
    BY <2>1, <2>2, WatchingContinue
<1>8. CASE AddNotifyFails(b) \/ ReAddDone(b)
  <2>1. op'[b] = Idle /\ monitored' = monitored /\ addCount' = addCount
    BY <1>8 DEF AddNotifyFails, ReAddDone, TypeOK
  <2> QED
    BY <2>1 DEF Watching, WatchedDirs, Idle
<1>9. CASE Dispatch(b) \/ FlushStep(b)
  BY <1>9, WatchingFrame DEF Dispatch, FlushStep, FlushBegin, FlushKey
<1> QED
  BY <1>1, <1>2, <1>3, <1>4, <1>5, <1>6, <1>7, <1>8, <1>9
     DEF Next, ClientStep, CallStep

-----------------------------------------------------------------------------

WatchInv ==
    /\ TypeOK /\ OverlapsHasDir /\ MessagesBelow
    /\ \A c \in Clients : Watching(c)
    /\ CachedAreWatched

LEMMA CachedWatchedStep ==
    ASSUME WatchInv, Next
    PROVE  CachedAreWatched'
<1> USE DEF WatchInv
<1>1. CASE OtherWrites
  BY <1>1, OtherWritesFrame DEF CachedAreWatched, IsCached, KeyBeingMonitored,
     WatchedDirs
<1>2. ASSUME NEW c \in Clients, ClientStep(c), NEW b \in Clients,
             NEW k \in Keys, IsCached(b, k)'
      PROVE  KeyBeingMonitored(b, k)'
  <2>1. CASE b # c
    <3>1. addCount'[b] = addCount[b] /\ cache'[b] = cache[b]
      BY <1>2, <2>1, OthersKeep
    <3> QED
      BY <1>2, <3>1 DEF CachedAreWatched, IsCached, KeyBeingMonitored, WatchedDirs
  <2>2. CASE b = c
    <3>1. KeyBeingMonitored(c, k)
      <4>1. CASE Kept(c, k)
        BY <1>2, <2>2, <4>1 DEF Kept, IsCached, CachedAreWatched
      <4>2. CASE Refreshed(c, k)
        BY <4>2 DEF Refreshed
      <4>3. CASE Notified(c, k)
        <5> DEFINE m == Head(inbox[c])
        <5>1. m.section \in WatchedDirs(c) /\ m.key = k
          BY <4>3 DEF Notified, Watching
        <5>2. IsBelow(m.section, m.key)
          <6>1. inbox[c] \in Seq(Message) /\ inbox[c] # <<>>
            BY <4>3 DEF Notified, Dispatch, Take, TypeOK, DbTypeOK
          <6>2. m = inbox[c][1] /\ 1 \in 1..Len(inbox[c])
            BY <6>1, TailPositions
          <6> QED
            BY <6>2 DEF MessagesBelow
        <5> QED
          BY <5>1, <5>2 DEF KeyBeingMonitored
      <4> QED
        BY <1>2, <4>1, <4>2, <4>3, CacheSteps
    <3>2. CASE WatchedDirs(c) \subseteq WatchedDirs(c)'
      BY <2>2, <3>1, <3>2 DEF KeyBeingMonitored
    <3>3. ASSUME NEW d \in Dirs, RemoveDir(c, d) PROVE KeyBeingMonitored(c, k)'
      <4>1. WatchedDirs(c)' = WatchedDirs(c) \ {d}
        BY <3>3 DEF RemoveDir, TypeOK, WatchedDirs
      <4>2. ~ IsBelow(d, k)
        <5>1. Evict(c, KeysBelow(d))
          BY <3>3 DEF RemoveDir
        <5>2. k \in KeysBelow(d) => cache'[c][k] = NotCached
          BY <5>1 DEF Evict, TypeOK
        <5> QED
          BY <1>2, <2>2, <5>2 DEF IsCached, KeysBelow
      <4> QED
        BY <3>1, <4>1, <4>2 DEF KeyBeingMonitored
    <3> QED
      BY <1>2, <2>2, <3>2, <3>3, WatchedKept
  <2> QED
    BY <2>1, <2>2
<1> QED
  BY <1>1, <1>2 DEF Next, ClientStep, CachedAreWatched

(* An entry is cached only while a directory at or above its key is watched:   *)
(* whatever is read, preloaded, dispatched late or announced while directories *)
(* come and go, and whether they include each other or not.                    *)
THEOREM CachedStayWatched == Spec => []CachedAreWatched
<1>1. Init => WatchInv
  <2>1. Init => \A c \in Clients : Len(inbox[c]) = 0
    BY DEF Init, DbInit
  <2> QED
    BY <2>1, InitType DEF Init, WatchInv, MessagesBelow, Watching,
       CachedAreWatched, IsCached, Idle
<1>2. WatchInv /\ [Next]_vars => WatchInv'
  <2> SUFFICES ASSUME WatchInv, [Next]_vars PROVE WatchInv'
    OBVIOUS
  <2>1. TypeOK' /\ OverlapsHasDir'
    BY TypeStep, OverlapsHasDirStep DEF WatchInv
  <2>2. CASE UNCHANGED vars
    BY <2>1, <2>2, WatchingFrame DEF vars, dbvars, clvars, WatchInv, MessagesBelow,
       CachedAreWatched, IsCached, KeyBeingMonitored, WatchedDirs
  <2>3. CASE Next
    BY <2>1, <2>3, WatchingStep, MessagesBelowStep, CachedWatchedStep DEF WatchInv
  <2> QED
    BY <2>2, <2>3
<1>3. WatchInv => CachedAreWatched
  BY DEF WatchInv
<1> QED
  BY <1>1, <1>2, <1>3, PTL DEF Spec

-----------------------------------------------------------------------------
(* Coherence, for an application whose watched directories do not include each *)
(* other and that watches none again while a Notify call for its earlier watch *)
(* is queued.                                                                  *)

(* Every watched directory has a request of its own; a directory that is being *)
(* added is apart from all of them, and no call for it is queued.              *)
Apart(c) ==
    /\ WatchedDirs(c) \subseteq monitored[c]
    /\ op[c].pc = "overlaps" =>
          /\ op[c].then = "add"
          /\ \A d \in monitored[c] : Disjoint(d, op[c].dir)
          /\ \A i \in 1..Len(inbox[c]) : inbox[c][i].section # op[c].dir

CoherentInv == WatchInv /\ RequestsInv /\ \A c \in Clients : Apart(c)

(* A message that was not queued before is for a section the client monitors.  *)
LEMMA NewMessages ==
    ASSUME CoherentInv, Next, NEW c \in Clients, NEW i \in 1..Len(inbox'[c])
    PROVE  \/ \E j \in 1..Len(inbox[c]) : inbox'[c][i] = inbox[c][j]
           \/ inbox'[c][i].section \in monitored[c]
<1>0. TypeOK /\ DbTypeOK /\ RequestsMatchDaemon /\ inbox[c] \in Seq(Message)
  BY DEF CoherentInv, RequestsInv, TypeOK, DbTypeOK
<1>1. CASE UNCHANGED <<store, inbox>>
  BY <1>1
<1>2. CASE Written
  <2>1. PICK K \in SUBSET Keys :
            \E st \in [Keys -> ValueOrNone], e \in [K -> Entry] :
                WellFormed(st, K, e) /\ Write(st, K, e)
    BY <1>2 DEF Written, SomeWrite
  <2>2. PICK st \in [Keys -> ValueOrNone], e \in [K -> Entry] : Write(st, K, e)
    BY <2>1
  <2>3. PICK b \in Seq(Message) :
           /\ inbox'[c] = inbox[c] \o b
           /\ \A j \in 1..Len(b) : b[j] \in NotifiesFor(c, K, e)
    BY <1>0, <2>2, WriteAppends
  <2>4. CASE i \in 1..Len(inbox[c])
    <3>1. inbox'[c][i] = inbox[c][i]
      BY <1>0, <2>3, <2>4, AppendPositions
    <3> QED
      BY <2>4, <3>1
  <2>5. ASSUME NEW j \in 1..Len(b), i = Len(inbox[c]) + j
        PROVE  inbox'[c][i].section \in monitored[c]
    <3>1. inbox'[c][i] = b[j]
      BY <1>0, <2>3, <2>5, AppendPositions
    <3>2. b[j].section \in Dirs /\ c \in notifications[b[j].section]
      BY <2>3, NotifiesForShape
    <3> QED
      BY <1>0, <3>1, <3>2 DEF RequestsMatchDaemon
  <2> QED
    BY <1>0, <2>3, <2>4, <2>5, AppendPositions
<1>3. ASSUME NEW b \in Clients, Dispatch(b)
      PROVE  \E j \in 1..Len(inbox[c]) : inbox'[c][i] = inbox[c][j]
  <2>1. CASE b # c
    BY <1>0, <1>3, <2>1 DEF Dispatch, Take, DbTypeOK
  <2>2. CASE b = c
    <3>1. inbox[c] # <<>> /\ inbox'[c] = Tail(inbox[c])
      BY <1>0, <1>3, <2>2 DEF Dispatch, Take, DbTypeOK
    <3>2. /\ Len(inbox[c]) \in Nat \ {0} /\ Len(inbox'[c]) = Len(inbox[c]) - 1
          /\ \A j \in 1..Len(inbox'[c]) : inbox'[c][j] = inbox[c][j + 1]
      BY <1>0, <3>1, TailPositions
    <3>3. i + 1 \in 1..Len(inbox[c]) /\ inbox'[c][i] = inbox[c][i + 1]
      BY <3>2
    <3> QED
      BY <3>3
  <2> QED
    BY <2>1, <2>2
<1> QED
  BY <1>0, <1>1, <1>2, <1>3, InboxSteps

(* A directory is not apart from itself.                                       *)
LEMMA NotApartFromItself ==
    ASSUME CoherentInv, NEW c \in Clients, op[c].pc = "overlaps"
    PROVE  op[c].dir \in Dirs /\ op[c].dir \notin monitored[c]
<1>1. op[c].dir \in Dirs
  BY DEF CoherentInv, RequestsInv, OverlapsHasDir
<1> QED
  BY <1>1, DirBelow DEF CoherentInv, Apart, Disjoint

LEMMA ApartOthers ==
    ASSUME CoherentInv, Next, NEW b \in Clients, addCount'[b] = addCount[b],
           monitored'[b] = monitored[b], op'[b] = op[b]
    PROVE  Apart(b)'
<1>1. WatchedDirs(b)' = WatchedDirs(b)
  BY DEF WatchedDirs
<1>2. ASSUME op[b].pc = "overlaps", NEW i \in 1..Len(inbox'[b])
      PROVE  inbox'[b][i].section # op[b].dir
  BY <1>2, NewMessages, NotApartFromItself DEF CoherentInv, Apart
<1> QED
  BY <1>1, <1>2 DEF CoherentInv, Apart

LEMMA ApartStep ==
    ASSUME Overlaps = FALSE, EarlyReAdd = FALSE, CoherentInv, Next,
           NEW b \in Clients
    PROVE  Apart(b)'
<1>0. TypeOK /\ Watching(b) /\ Apart(b) /\ OverlapsHasDir
  BY DEF CoherentInv, WatchInv
<1>1. CASE OtherWrites
  BY <1>1, ApartOthers, OtherWritesFrame
<1>2. ASSUME NEW c \in Clients, ClientStep(c), b # c PROVE Apart(b)'
  BY <1>0, <1>2, ApartOthers, OthersKeep
<1>3. CASE UNCHANGED <<addCount, monitored, op>>
  BY <1>3, ApartOthers
<1>4. ASSUME NEW d \in Dirs, AddDirAgain(b, d) \/ RemoveDirOnce(b, d)
      PROVE  Apart(b)'
  <2>1. addCount \in [Clients -> [Dirs -> Nat]] /\ MaxAdds \in Nat
    BY <1>0, MaxAddsAssumption DEF TypeOK
  <2>2. /\ addCount[b][d] > 0
        /\ \/ addCount' = [addCount EXCEPT ![b][d] = addCount[b][d] + 1]
           \/ addCount' = [addCount EXCEPT ![b][d] = addCount[b][d] - 1]
    BY <1>4, <2>1 DEF AddDirAgain, RemoveDirOnce
  <2>3. \A e \in Dirs : addCount'[b][e] > 0 => addCount[b][e] > 0
    BY <2>1, <2>2
  <2>4. WatchedDirs(b)' \subseteq WatchedDirs(b)
    BY <2>3 DEF WatchedDirs
  <2>5. UNCHANGED <<op, monitored>> /\ op[b].pc = "idle"
    BY <1>4 DEF AddDirAgain, RemoveDirOnce, Idle
  <2> QED
    BY <1>0, <2>4, <2>5 DEF Apart
<1>5. ASSUME NEW d \in Dirs, NEW p \in Preloads, AddDir(b, d, p)
      PROVE  Apart(b)'
  <2>1. /\ UNCHANGED <<addCount, monitored, inbox>>
        /\ op'[b].pc = "overlaps" /\ op'[b].then = "add" /\ op'[b].dir = d
    BY <1>0, <1>5 DEF AddDir, TypeOK, dbvars
  <2>2. \A e \in WatchedDirs(b) : Disjoint(e, d)
    BY <1>5 DEF AddDir, MayAdd
  <2>3. \A i \in 1..Len(inbox[b]) : inbox[b][i].section # d
    <3>1. inbox[b] \in Seq(Message)
      BY <1>0 DEF TypeOK, DbTypeOK
    <3>2. \A i \in DOMAIN inbox[b] : inbox[b][i].section # d
      BY <1>5 DEF AddDir, MayAdd
    <3> QED
      BY <3>1, <3>2
  <2> QED
    BY <1>0, <2>1, <2>2, <2>3 DEF Apart, Watching, WatchedDirs
<1>6. ASSUME NEW d \in Dirs, RemoveDir(b, d) PROVE Apart(b)'
  <2>1. WatchedDirs(b)' = WatchedDirs(b) \ {d}
    BY <1>0, <1>6 DEF RemoveDir, TypeOK, WatchedDirs
  <2>2. monitored'[b] = monitored[b] \ {d} /\ op'[b].pc = "readd"
    BY <1>0, <1>6 DEF RemoveDir, TypeOK, Idle
  <2> QED
    BY <1>0, <2>1, <2>2 DEF Apart
<1>7. ASSUME UNCHANGED <<addCount, monitored>>, op'[b].pc # "overlaps"
      PROVE  Apart(b)'
  BY <1>0, <1>7 DEF Apart, WatchedDirs
<1>8. ASSUME NEW d \in Dirs, NEW p \in Preloads, Preload(b, d, p)
      PROVE  Apart(b)'
  BY <1>0, <1>7, <1>8 DEF Preload, TypeOK, Idle
<1>9. ASSUME NEW d \in Dirs, PreloadDir(b, d) PROVE Apart(b)'
  <2>1. op[b].pc = "preload" /\ UNCHANGED <<addCount, monitored>>
    BY <1>9 DEF PreloadDir
  <2>2. op'[b] = Idle \/ op'[b].pc = "preload"
    BY <1>0, <1>9, <2>1 DEF PreloadDir, TypeOK, Op
  <2>3. op'[b].pc # "overlaps"
    BY <2>2 DEF Idle
  <2> QED
    BY <1>7, <2>1, <2>3
<1>10. ASSUME NEW d \in Dirs PROVE ~ DropCovered(b, d)
  BY <1>0 DEF DropCovered, Apart, Disjoint
<1>11. ~ UseCovering(b)
  BY <1>0 DEF UseCovering, OverlapsDone, Covered, Apart, Disjoint
<1>12. CASE AddNotify(b)
  <2> DEFINE dir == op[b].dir
             todo == PreloadTodo(dir, op[b].preload)
             pre  == [Idle EXCEPT !.pc = "preload", !.dir = dir, !.todo = todo]
  <2>1. op[b].then = "add" /\ dir \in Dirs
    BY <1>0, <1>12 DEF AddNotify, OverlapsDone, Apart, OverlapsHasDir
  <2>2. addCount' = [addCount EXCEPT ![b][dir] = 1] /\ op'[b] \in {Idle, pre}
    BY <1>0, <1>12, <2>1 DEF AddNotify, Continue, TypeOK
  <2>3. monitored'[b] = monitored[b] \cup {dir}
    BY <1>0, <1>12 DEF AddNotify, TypeOK
  <2>4. op'[b].pc # "overlaps"
    <3>1. Idle.pc # "overlaps" /\ pre.pc # "overlaps"
      BY DEF Idle
    <3> HIDE DEF pre
    <3> QED
      BY <2>2, <3>1
  <2>5. WatchedDirs(b)' \subseteq WatchedDirs(b) \cup {dir}
    <3> HIDE DEF dir
    <3> QED
      BY <1>0, <2>1, <2>2 DEF WatchedDirs, TypeOK
  <2> QED
    BY <1>0, <2>3, <2>4, <2>5 DEF Apart
<1>13. ASSUME NEW d \in Dirs PROVE ~ ReAddNext(b, d)
  BY <1>0 DEF ReAddNext, Watching, Apart
<1>14. CASE AddNotifyFails(b) \/ ReAddDone(b)
  BY <1>0, <1>7, <1>14 DEF AddNotifyFails, ReAddDone, TypeOK, Idle
<1>15. CASE ApplicationStep(b)
  <2>1. \/ UNCHANGED <<addCount, monitored, op>>
        \/ \E d \in Dirs :
              \/ AddDirAgain(b, d) \/ RemoveDirOnce(b, d) \/ RemoveDir(b, d)
              \/ \E p \in Preloads : Preload(b, d, p) \/ AddDir(b, d, p)
    BY <1>15 DEF ApplicationStep, Set, Unset, RecursiveUnset, OwnWrite, Get, Notify,
       AllEntries, ClearCache
  <2> QED
    BY <1>3, <1>4, <1>5, <1>6, <1>8, <2>1
<1>16. CASE CallStep(b)
  BY <1>9, <1>10, <1>11, <1>12, <1>13, <1>14, <1>16 DEF CallStep
<1>17. CASE Dispatch(b) \/ FlushStep(b)
  BY <1>3, <1>17 DEF Dispatch, FlushStep, FlushBegin, FlushKey
<1> QED
  BY <1>1, <1>2, <1>15, <1>16, <1>17 DEF Next, ClientStep

(* What CacheCoherent says of one client and one key.                          *)
Coherent(c, k) ==
    /\ \A i \in Deliverable(c, k) :
          (\A j \in Deliverable(c, k) : j <= i)
            => inbox[c][i].entry.value = Query(k).value
    /\ (IsCached(c, k) /\ Deliverable(c, k) = {})
          => cache[c][k].value = Query(k).value

FullInv == CoherentInv /\ \A c \in Clients, k \in Keys : Coherent(c, k)

(* A write of a key queues a call with its new value after all others for it.  *)
LEMMA CoherentWrite ==
    ASSUME FullInv, Written, NEW c \in Clients, NEW k \in Keys
    PROVE  Coherent(c, k)'
<1>0. TypeOK /\ DbTypeOK /\ RequestsMatchDaemon /\ inbox[c] \in Seq(Message)
  BY DEF FullInv, CoherentInv, RequestsInv, TypeOK, DbTypeOK
<1>1. PICK K \in SUBSET Keys :
          \E st \in [Keys -> ValueOrNone], e \in [K -> Entry] :
              WellFormed(st, K, e) /\ Write(st, K, e)
  BY DEF Written, SomeWrite
<1>2. PICK st \in [Keys -> ValueOrNone], e \in [K -> Entry] :
          WellFormed(st, K, e) /\ Write(st, K, e)
  BY <1>1
<1>3. PICK b \in Seq(Message) :
         /\ inbox'[c] = inbox[c] \o b
         /\ \A j \in 1..Len(b) : b[j] \in NotifiesFor(c, K, e)
         /\ \A m \in NotifiesFor(c, K, e) : \E j \in 1..Len(b) : b[j] = m
  BY <1>0, <1>2, WriteAppends
<1> DEFINE q == inbox[c]
           r == inbox'[c]
<1>4. /\ Len(q) \in Nat /\ Len(b) \in Nat /\ Len(r) = Len(q) + Len(b)
      /\ DOMAIN q = 1..Len(q) /\ DOMAIN r = 1..Len(r)
      /\ \A i \in 1..Len(q) : r[i] = q[i]
      /\ \A j \in 1..Len(b) : r[Len(q) + j] = b[j]
      /\ \A i \in 1..Len(r) : i \in 1..Len(q) \/ \E j \in 1..Len(b) : i = Len(q) + j
  <2>1. r \in Seq(Message)
    BY <1>0, <1>3, ConcatProperties
  <2> QED
    BY <1>0, <1>3, <2>1, AppendPositions
<1>5. monitored' = monitored /\ store' = st
  BY <1>2 DEF Written, Write
<1>6. Deliverable(c, k)' = {i \in 1..Len(r) : r[i].key = k /\ r[i].section \in monitored[c]}
  BY <1>4, <1>5 DEF Deliverable
<1>7. Deliverable(c, k) = {i \in 1..Len(q) : q[i].key = k /\ q[i].section \in monitored[c]}
  BY <1>4 DEF Deliverable
<1>8. Query(k)' = EntryIn(st, k)
  BY <1>5 DEF Query
<1>9. IsCached(c, k)' => IsCached(c, k) /\ cache'[c][k] = cache[c][k]
  BY DEF Written, Kept, IsCached
<1> HIDE DEF q, r
<1>10. CASE k \notin K
  <2>1. Query(k)' = Query(k)
    BY <1>2, <1>8, <1>10 DEF WellFormed, EntryIn, Query
  <2>2. \A j \in 1..Len(b) : b[j].key # k
    BY <1>3, <1>10, NotifiesForShape
  <2>3. Deliverable(c, k)' = Deliverable(c, k)
    BY <1>4, <1>6, <1>7, <2>2
  <2>4. \A i \in Deliverable(c, k) : r[i] = q[i]
    BY <1>4, <1>7
  <2>5. Coherent(c, k)
    BY DEF FullInv
  <2> QED
    BY <1>9, <2>1, <2>3, <2>4, <2>5 DEF Coherent, q, r
<1>11. CASE k \in K
  <2>1. e[k].value = Query(k)'.value
    BY <1>2, <1>8, <1>11 DEF WellFormed
  <2>2. ASSUME NEW s \in monitored[c], IsBelow(s, k)
        PROVE  \E j \in 1..Len(b) : Len(q) + j \in Deliverable(c, k)'
    <3>1. s \in Dirs /\ c \in notifications[s]
      BY <1>0, <2>2 DEF RequestsMatchDaemon, TypeOK
    <3>2. PICK j \in 1..Len(b) : b[j] = [section |-> s, key |-> k, entry |-> e[k]]
      BY <1>3, <1>11, <2>2, <3>1, NotifiesForAll
    <3>3. Len(q) + j \in 1..Len(r) /\ r[Len(q) + j] = b[j]
      BY <1>4
    <3> QED
      BY <1>6, <3>2, <3>3
  <2>3. ASSUME NEW i \in Deliverable(c, k)', \A j \in Deliverable(c, k)' : j <= i
        PROVE  r[i].entry.value = e[k].value
    <3>1. CASE i \in 1..Len(q)
      <4>1. q[i].key = k /\ q[i].section \in monitored[c]
        BY <1>4, <1>6, <2>3, <3>1
      <4>2. IsBelow(q[i].section, k)
        BY <3>1, <4>1 DEF FullInv, CoherentInv, WatchInv, MessagesBelow, q
      <4>3. PICK j \in 1..Len(b) : Len(q) + j \in Deliverable(c, k)'
        BY <2>2, <4>1, <4>2
      <4>4. Len(q) + j <= i
        BY <2>3, <4>3
      <4> QED
        BY <1>4, <3>1, <4>4
    <3>2. ASSUME NEW j \in 1..Len(b), i = Len(q) + j
          PROVE  r[i].entry.value = e[k].value
      <4>1. r[i] = b[j] /\ r[i].key = k
        BY <1>4, <1>6, <2>3, <3>2
      <4>2. b[j].entry = e[b[j].key]
        BY <1>3, NotifiesForShape
      <4> QED
        BY <4>1, <4>2
    <3> QED
      BY <1>4, <1>6, <2>3, <3>1, <3>2
  <2>4. ~ (IsCached(c, k)' /\ Deliverable(c, k)' = {})
    <3> SUFFICES ASSUME IsCached(c, k)', Deliverable(c, k)' = {} PROVE FALSE
      OBVIOUS
    <3>1. PICK s \in WatchedDirs(c) : IsBelow(s, k)
      BY <1>9 DEF FullInv, CoherentInv, WatchInv, CachedAreWatched,
         KeyBeingMonitored
    <3>2. s \in monitored[c]
      BY <3>1 DEF FullInv, CoherentInv, Apart
    <3> QED
      BY <2>2, <3>1, <3>2
  <2> QED
    BY <2>1, <2>3, <2>4 DEF Coherent, r
<1> QED
  BY <1>10, <1>11

(* Coherence survives what changes neither the values nor the queued calls that *)
(* will be delivered.                                                          *)
LEMMA CoherentFrame ==
    ASSUME NEW c \in Clients, NEW k \in Keys, Coherent(c, k),
           UNCHANGED <<store, inbox>>, Deliverable(c, k)' = Deliverable(c, k),
           Kept(c, k) \/ cache'[c][k] = Query(k)
    PROVE  Coherent(c, k)'
<1>1. Query(k)' = Query(k)
  BY DEF Query
<1> QED
  BY <1>1 DEF Coherent, Kept, IsCached

LEMMA DeliverableFrame ==
    ASSUME NEW c, NEW k, inbox'[c] = inbox[c], monitored'[c] = monitored[c]
    PROVE  Deliverable(c, k)' = Deliverable(c, k)
BY DEF Deliverable

(* Directories that do not include each other: at most one is above a key.     *)
LEMMA OneAbove ==
    ASSUME RequestsInv, NEW c \in Clients, NEW d \in monitored[c],
           NEW e \in monitored[c], NEW k \in Keys, IsBelow(d, k), IsBelow(e, k)
    PROVE  d = e
<1>1. d \in Seq(STRING) /\ e \in Seq(STRING) /\ k \in Seq(STRING)
  BY PathAssumption DEF RequestsInv, TypeOK
<1>2. IsBelow(d, e) \/ IsBelow(e, d)
  BY <1>1, AboveIsChain
<1> QED
  BY <1>2 DEF RequestsInv, NoRedundantRequests

(* A dispatched call leaves the later ones, or its own value in the cache.      *)
LEMMA CoherentDispatch ==
    ASSUME FullInv, NEW c \in Clients, Dispatch(c), NEW k \in Keys
    PROVE  Coherent(c, k)'
<1> DEFINE q == inbox[c]
           r == inbox'[c]
           m == Head(q)
<1>0. TypeOK /\ q \in Seq(Message) /\ Coherent(c, k)
  BY DEF FullInv, CoherentInv, WatchInv, TypeOK, DbTypeOK
<1>1. q # <<>> /\ r = Tail(q) /\ store' = store /\ monitored' = monitored
  BY <1>0 DEF Dispatch, Take, TypeOK, DbTypeOK
<1>2. /\ Len(q) \in Nat \ {0} /\ Len(r) = Len(q) - 1 /\ m = q[1]
      /\ DOMAIN q = 1..Len(q) /\ DOMAIN r = 1..Len(r)
      /\ \A i \in 1..Len(r) : r[i] = q[i + 1]
  <2>1. r \in Seq(Message)
    BY <1>0, <1>1, HeadTailProperties
  <2> QED
    BY <1>0, <1>1, <2>1, TailPositions
<1>3. Query(k)' = Query(k)
  BY <1>1 DEF Query
<1>4. Deliverable(c, k)' = {i \in 1..Len(r) : r[i].key = k /\ r[i].section \in monitored[c]}
  BY <1>1, <1>2 DEF Deliverable
<1>5. Deliverable(c, k) = {i \in 1..Len(q) : q[i].key = k /\ q[i].section \in monitored[c]}
  BY <1>2 DEF Deliverable
<1>6. m.section \in monitored[c] /\ m.key = k => cache'[c][k].value = m.entry.value
  <2> DEFINE kept == IF IsCached(c, m.key) THEN cache[c][m.key].has_schema ELSE FALSE
             ann  == Announced(m.entry.value, FALSE)
             new  == [ann EXCEPT !.has_schema = kept]
  <2> SUFFICES ASSUME m.section \in monitored[c], m.key = k
               PROVE  cache'[c][k].value = m.entry.value
    OBVIOUS
  <2>1. \/ cache[c][k] = ann /\ cache' = cache
        \/ cache' = [cache EXCEPT ![c][k] = new]
    BY DEF Dispatch, Changes
  <2>2. new.value = m.entry.value /\ ann.value = m.entry.value
    BY DEF Announced
  <2> HIDE DEF new, ann
  <2> QED
    BY <1>0, <2>1, <2>2 DEF TypeOK
<1>7. ~ (m.section \in monitored[c] /\ m.key = k) => Kept(c, k)
  <2>1. CASE Kept(c, k)
    BY <2>1
  <2>2. ~ Refreshed(c, k)
    <3> SUFFICES ASSUME Refreshed(c, k) PROVE FALSE
      OBVIOUS
    <3>1. Len(r) = Len(q)
      BY DEF Refreshed
    <3> QED
      BY <1>2, <3>1
  <2>3. CASE Notified(c, k)
    BY <2>3 DEF Notified
  <2> QED
    BY <1>0, <2>1, <2>2, <2>3, CacheSteps DEF ClientStep, FullInv, CoherentInv,
       WatchInv
<1> HIDE DEF q, r, m
<1>8. ASSUME NEW i \in Deliverable(c, k)' PROVE i + 1 \in Deliverable(c, k)
  BY <1>2, <1>4, <1>5, <1>8
<1>9. ASSUME NEW i \in Deliverable(c, k), i # 1 PROVE i - 1 \in Deliverable(c, k)'
  <2>1. i - 1 \in 1..Len(r) /\ r[i - 1] = q[i]
    BY <1>2, <1>5, <1>9
  <2> QED
    BY <1>4, <1>5, <2>1
<1>10. 1 \in Deliverable(c, k) <=> m.section \in monitored[c] /\ m.key = k
  BY <1>2, <1>5
<1>11. ASSUME NEW i \in Deliverable(c, k)', \A j \in Deliverable(c, k)' : j <= i
       PROVE  r[i].entry.value = Query(k).value
  <2>1. i \in Nat /\ i + 1 \in Deliverable(c, k) /\ r[i] = q[i + 1]
    BY <1>2, <1>4, <1>8
  <2>2. ASSUME NEW j \in Deliverable(c, k) PROVE j <= i + 1
    <3>1. CASE j = 1
      BY <2>1, <3>1
    <3>2. CASE j # 1
      <4>1. j - 1 <= i /\ j \in Nat
        BY <1>5, <1>9, <1>11, <3>2
      <4> QED
        BY <2>1, <4>1
    <3> QED
      BY <3>1, <3>2
  <2> QED
    BY <1>0, <2>1, <2>2 DEF Coherent, q
<1>12. ASSUME IsCached(c, k)', Deliverable(c, k)' = {}
       PROVE  cache'[c][k].value = Query(k).value
  <2>1. CASE 1 \in Deliverable(c, k)
    <3>1. \A j \in Deliverable(c, k) : j <= 1
      BY <1>9, <1>12
    <3>2. m.entry.value = Query(k).value
      BY <1>0, <1>2, <2>1, <3>1 DEF Coherent, q
    <3> QED
      BY <1>6, <1>10, <2>1, <3>2
  <2>2. CASE 1 \notin Deliverable(c, k)
    <3>1. Deliverable(c, k) = {}
      BY <1>9, <1>12, <2>2
    <3>2. Kept(c, k)
      BY <1>7, <1>10, <2>2
    <3> QED
      BY <1>0, <1>12, <3>1, <3>2 DEF Coherent, Kept, IsCached
  <2> QED
    BY <2>1, <2>2
<1> QED
  BY <1>3, <1>11, <1>12 DEF Coherent, r

LEMMA CoherentStep ==
    ASSUME Overlaps = FALSE, EarlyReAdd = FALSE, FullInv, Next,
           NEW b \in Clients, NEW k \in Keys
    PROVE  Coherent(b, k)'
<1>0. TypeOK /\ RequestsInv /\ Watching(b) /\ Apart(b) /\ Coherent(b, k)
  BY DEF FullInv, CoherentInv, WatchInv
<1>p. DOMAIN inbox[b] = 1..Len(inbox[b])
  <2>1. inbox[b] \in Seq(Message)
    BY <1>0 DEF TypeOK, DbTypeOK
  <2> QED
    BY <2>1
<1>1. CASE Written
  BY <1>1, CoherentWrite
<1>2. ASSUME NEW c \in Clients, Dispatch(c) PROVE Coherent(b, k)'
  <2>1. CASE b = c
    BY <1>2, <2>1, CoherentDispatch
  <2>2. CASE b # c
    <3>1. inbox'[b] = inbox[b] /\ store' = store
      BY <1>0, <1>2, <2>2 DEF Dispatch, Take, TypeOK, DbTypeOK
    <3>2. monitored'[b] = monitored[b] /\ cache'[b] = cache[b]
      BY <1>0, <1>2, <2>2, OthersKeep DEF ClientStep
    <3> QED
      BY <1>0, <3>1, <3>2, DeliverableFrame DEF Coherent, Query, EntryIn, IsCached
  <2> QED
    BY <2>1, <2>2
<1>3. ASSUME UNCHANGED <<store, inbox>>, OtherWrites PROVE Coherent(b, k)'
  BY <1>0, <1>3, OtherWritesFrame, DeliverableFrame, CoherentFrame DEF Kept
<1>4. ASSUME UNCHANGED <<store, inbox>>, NEW c \in Clients, ClientStep(c), b # c
      PROVE  Coherent(b, k)'
  BY <1>0, <1>4, OthersKeep, DeliverableFrame, CoherentFrame DEF Kept
<1>5. ASSUME UNCHANGED <<store, inbox>>, ClientStep(b), ~ Dispatch(b)
      PROVE  Coherent(b, k)'
  <2>1. Kept(b, k) \/ cache'[b][k] = Query(k)
    BY <1>0, <1>5, CacheSteps DEF Refreshed, Notified
  <2>2. CASE UNCHANGED monitored
    BY <1>0, <1>5, <2>1, <2>2, DeliverableFrame, CoherentFrame
  <2>3. CASE AddNotify(b)
    <3>1. op[b].pc = "overlaps" /\ monitored'[b] = monitored[b] \cup {op[b].dir}
      BY <1>0, <2>3 DEF AddNotify, OverlapsDone, TypeOK
    <3>2. \A i \in DOMAIN inbox[b] : inbox[b][i].section # op[b].dir
      BY <1>0, <1>p, <3>1 DEF Apart
    <3>3. Deliverable(b, k)' = Deliverable(b, k)
      BY <1>5, <3>1, <3>2 DEF Deliverable
    <3> QED
      BY <1>0, <1>5, <2>1, <3>3, CoherentFrame
  <2>4. ASSUME NEW d \in Dirs PROVE ~ DropCovered(b, d)
    BY <1>0 DEF DropCovered, Apart, Disjoint
  <2>5. ASSUME NEW d \in Dirs, RemoveDir(b, d) PROVE Coherent(b, k)'
    <3>1. monitored'[b] = monitored[b] \ {d} /\ Evict(b, KeysBelow(d))
      BY <1>0, <2>5 DEF RemoveDir, TypeOK
    <3>2. \A i \in DOMAIN inbox[b] : IsBelow(inbox[b][i].section, inbox[b][i].key)
      BY <1>p DEF FullInv, CoherentInv, WatchInv, MessagesBelow
    <3>3. CASE IsBelow(d, k)
      <4>1. ~ IsCached(b, k)'
        BY <1>0, <3>1, <3>3 DEF Evict, KeysBelow, IsCached, TypeOK
      <4>2. d \in monitored[b]
        BY <1>0, <2>5 DEF RemoveDir, Apart, WatchedDirs
      <4>3. ASSUME NEW i \in Deliverable(b, k)' PROVE FALSE
        <5>1. /\ i \in DOMAIN inbox[b] /\ inbox[b][i].key = k
              /\ inbox[b][i].section \in monitored[b] \ {d}
          BY <1>5, <3>1, <4>3 DEF Deliverable
        <5>2. IsBelow(inbox[b][i].section, k)
          BY <3>2, <5>1
        <5> QED
          BY <1>0, <3>3, <4>2, <5>1, <5>2, OneAbove
      <4> QED
        BY <4>1, <4>3 DEF Coherent
    <3>4. CASE ~ IsBelow(d, k)
      <4>1. Deliverable(b, k)' = Deliverable(b, k)
        BY <1>5, <3>1, <3>2, <3>4 DEF Deliverable
      <4> QED
        BY <1>0, <1>5, <2>1, <4>1, CoherentFrame
    <3> QED
      BY <3>3, <3>4
  <2>6. \/ UNCHANGED monitored \/ AddNotify(b)
        \/ \E d \in Dirs : DropCovered(b, d) \/ RemoveDir(b, d)
    BY <1>5 DEF ClientStep, ApplicationStep, Set, Unset, RecursiveUnset, OwnWrite,
       Get, Notify, AllEntries, ClearCache, Preload, AddDir, AddDirAgain,
       RemoveDirOnce, CallStep, PreloadDir, ReAddNext, UseCovering, AddNotifyFails,
       ReAddDone, FlushStep, FlushBegin, FlushKey
  <2> QED
    BY <2>2, <2>3, <2>4, <2>5, <2>6
<1>6. OtherWrites \/ \E c \in Clients : ClientStep(c)
  BY DEF Next, ClientStep
<1> QED
  BY <1>0, <1>1, <1>2, <1>3, <1>4, <1>5, <1>6, InboxSteps

LEMMA CoherentInit == Init => FullInv
<1> SUFFICES ASSUME Init PROVE FullInv
  OBVIOUS
<1>1. \A c \in Clients : Len(inbox[c]) = 0 /\ DOMAIN inbox[c] = {}
  BY DEF Init, DbInit
<1>2. WatchInv
  BY <1>1, InitType DEF Init, WatchInv, MessagesBelow, Watching, CachedAreWatched,
     IsCached, Idle
<1>3. RequestsInv
  BY InitType DEF Init, DbInit, RequestsInv, RequestsMatchDaemon,
     NoRedundantRequests
<1>4. \A c \in Clients : Apart(c)
  BY DEF Init, Apart, WatchedDirs, Idle
<1>5. \A c \in Clients, k \in Keys : Coherent(c, k)
  BY <1>1 DEF Init, Coherent, Deliverable, IsCached
<1> QED
  BY <1>2, <1>3, <1>4, <1>5 DEF FullInv, CoherentInv

LEMMA CoherentInvStep ==
    ASSUME Overlaps = FALSE, EarlyReAdd = FALSE, FullInv, [Next]_vars
    PROVE  FullInv'
<1>1. TypeOK' /\ OverlapsHasDir'
  BY TypeStep, OverlapsHasDirStep DEF FullInv, CoherentInv, WatchInv
<1>2. RequestsInv'
  BY <1>1, RequestsStep DEF FullInv, CoherentInv, RequestsInv
<1>3. CASE UNCHANGED vars
  BY <1>1, <1>2, <1>3, WatchingFrame DEF vars, dbvars, clvars, FullInv,
     CoherentInv, WatchInv, MessagesBelow, CachedAreWatched, IsCached,
     KeyBeingMonitored, WatchedDirs, Apart, Coherent, Deliverable, Query
<1>4. CASE Next
  <2>1. WatchInv'
    BY <1>1, <1>4, WatchingStep, MessagesBelowStep, CachedWatchedStep
       DEF FullInv, CoherentInv, WatchInv
  <2>2. \A c \in Clients : Apart(c)'
    BY <1>4, ApartStep DEF FullInv
  <2>3. \A c \in Clients, k \in Keys : Coherent(c, k)'
    BY <1>4, CoherentStep
  <2> QED
    BY <1>2, <2>1, <2>2, <2>3 DEF FullInv, CoherentInv
<1> QED
  BY <1>3, <1>4

(* For an application that respects these two rules, the cache of a client is   *)
(* current whenever no Notify call for the key is queued, and the last queued   *)
(* call brings it the value the database holds.                                 *)
THEOREM CacheStaysCoherent ==
    ASSUME Overlaps = FALSE, EarlyReAdd = FALSE
    PROVE  Spec => []CacheCoherent
<1>1. Init => FullInv
  BY CoherentInit
<1>2. FullInv /\ [Next]_vars => FullInv'
  BY CoherentInvStep
<1>3. FullInv => CacheCoherent
  BY DEF FullInv, Coherent, CacheCoherent
<1> QED
  BY <1>1, <1>2, <1>3, PTL DEF Spec

-----------------------------------------------------------------------------
(* What changes is announced, for such an application, when it preloads only    *)
(* what it is about to watch.                                                   *)

(* A key waits for the idle handler; a Notify call is queued that will make it  *)
(* wait for it.                                                                 *)
Queued(c, k) == k \in pending[c] \cup flushing[c]

Differs(c, k) ==
    \E i \in Deliverable(c, k) :
        Announced(inbox[c][i].entry.value, FALSE) # cache[c][k]

Awaited(c, k) == KeyBeingMonitored(c, k) /\ (Queued(c, k) \/ Differs(c, k))

(* A preload reads at or below its directory, and nothing there is unread.      *)
PreloadApart(c) ==
    op[c].pc = "preload" =>
        /\ op[c].dir \in Dirs
        /\ \A d \in op[c].todo : IsBelow(op[c].dir, d)
        /\ \A k \in unread[c] : ~ IsBelow(op[c].dir, k)

UnreadAwaited(c) == (\A k \in unread[c] : Awaited(c, k)) /\ PreloadApart(c)

AwaitInv == FullInv /\ \A c \in Clients : UnreadAwaited(c)

LEMMA GreatestPosition ==
    ASSUME NEW n \in Nat, NEW T \in SUBSET (1..n), T # {}
    PROVE  \E i \in T : \A j \in T : j <= i
<1> DEFINE D == {n - i : i \in T}
           R == OpToRel(<, Nat)
<1>1. D \in SUBSET Nat /\ D # {}
  <2>1. \A i \in T : n - i \in Nat
    OBVIOUS
  <2> QED
    BY <2>1
<1>2. IsWellFoundedOn(R, Nat)
  BY NatLessThanWellFounded
<1>3. \A a, b \in Nat : <<a, b>> \in R <=> a < b
  BY DEF OpToRel
<1> HIDE DEF R, D
<1>4. PICK m \in D : \A j \in D : ~ (<<j, m>> \in R)
  BY <1>1, <1>2, WFMin
<1>5. PICK i \in T : m = n - i
  BY DEF D
<1>6. ASSUME NEW j \in T PROVE j <= i
  <2>1. n - j \in D /\ n - j \in Nat /\ n - i \in Nat
    BY <1>1 DEF D
  <2>2. ~ (n - j < n - i)
    BY <1>3, <1>4, <1>5, <2>1
  <2> QED
    BY <2>2
<1> QED
  BY <1>6

(* A cached value that is not the database's will be replaced.                  *)
LEMMA StaleDiffers ==
    ASSUME FullInv, NEW c \in Clients, NEW k \in Keys, IsCached(c, k),
           cache[c][k].value # Query(k).value
    PROVE  Differs(c, k)
<1>1. inbox[c] \in Seq(Message) /\ Coherent(c, k)
  BY DEF FullInv, CoherentInv, WatchInv, TypeOK, DbTypeOK
<1>2. Deliverable(c, k) # {} /\ Deliverable(c, k) \in SUBSET (1..Len(inbox[c]))
  BY <1>1 DEF Coherent, Deliverable
<1>3. PICK i \in Deliverable(c, k) : \A j \in Deliverable(c, k) : j <= i
  <2> DEFINE T == Deliverable(c, k)
             n == Len(inbox[c])
  <2>1. n \in Nat
    BY <1>1
  <2> HIDE DEF T, n
  <2>2. \E i \in T : \A j \in T : j <= i
    BY <1>2, <2>1, GreatestPosition DEF T, n
  <2> QED
    BY <2>2 DEF T
<1>4. inbox[c][i].entry.value = Query(k).value
  BY <1>1, <1>3 DEF Coherent
<1>5. Announced(inbox[c][i].entry.value, FALSE).value # cache[c][k].value
  BY <1>4 DEF Announced
<1> QED
  BY <1>3, <1>5 DEF Differs

(* No entry looks like a missing one.                                           *)
LEMMA AnnouncedIsEntry ==
    ASSUME TypeOK, NEW c \in Clients, NEW i \in DOMAIN inbox[c]
    PROVE  Announced(inbox[c][i].entry.value, FALSE) # NotCached
<1>1. inbox[c] \in Seq(Message)
  BY DEF TypeOK, DbTypeOK
<1>2. inbox[c][i].entry \in Entry
  <2>1. inbox[c][i] \in Message
    BY <1>1
  <2> QED
    BY <2>1 DEF Message
<1>3. Announced(inbox[c][i].entry.value, FALSE) \in Entry
  BY <1>2 DEF Announced, Entry
<1> QED
  BY <1>3, NotCachedAssumption

(* A call that will change the cache stays, with what it finds there.           *)
LEMMA DiffersKept ==
    ASSUME TypeOK, NEW c \in Clients, NEW k, Differs(c, k), Kept(c, k),
           \A i \in Deliverable(c, k) : \E j \in Deliverable(c, k)' :
               inbox'[c][j] = inbox[c][i]
    PROVE  Differs(c, k)'
<1>1. PICK i \in Deliverable(c, k) :
          Announced(inbox[c][i].entry.value, FALSE) # cache[c][k]
  BY DEF Differs
<1>2. i \in DOMAIN inbox[c]
  BY DEF Deliverable
<1>3. Announced(inbox[c][i].entry.value, FALSE) # cache'[c][k]
  BY <1>1, <1>2, AnnouncedIsEntry DEF Kept
<1>4. PICK j \in Deliverable(c, k)' : inbox'[c][j] = inbox[c][i]
  OBVIOUS
<1>5. Announced(inbox'[c][j].entry.value, FALSE) # cache'[c][k]
  BY <1>3, <1>4
<1> QED
  BY <1>5 DEF Differs, Announced

(* Messages stay deliverable while the requests they are for do.                *)
LEMMA AwaitedKept ==
    ASSUME TypeOK, NEW c \in Clients, NEW k, Awaited(c, k), Kept(c, k),
           inbox'[c] = inbox[c], monitored[c] \subseteq monitored'[c],
           WatchedDirs(c) \subseteq WatchedDirs(c)',
           Queued(c, k) => Queued(c, k)'
    PROVE  Awaited(c, k)'
<1>1. KeyBeingMonitored(c, k)'
  BY DEF Awaited, KeyBeingMonitored
<1>2. Deliverable(c, k) \subseteq Deliverable(c, k)'
  BY DEF Deliverable
<1>3. Differs(c, k) => Differs(c, k)'
  BY <1>2, DiffersKept
<1> QED
  BY <1>1, <1>3 DEF Awaited

(* What a write queues for a client: nothing that was queued moves, and a key   *)
(* that changes has a call with its new value for each request above it.        *)
LEMMA WrittenQueues ==
    ASSUME FullInv, Written, NEW c \in Clients
    PROVE  /\ \A i \in DOMAIN inbox[c] :
                 i \in DOMAIN inbox'[c] /\ inbox'[c][i] = inbox[c][i]
           /\ \A k \in Keys, s \in monitored[c] :
                 /\ EntryIn(store', k).value # Query(k).value
                 /\ IsBelow(s, k)
                 => \E i \in DOMAIN inbox'[c] :
                       /\ inbox'[c][i].key = k /\ inbox'[c][i].section = s
                       /\ inbox'[c][i].entry.value # Query(k).value
<1>0. TypeOK /\ DbTypeOK /\ RequestsMatchDaemon /\ inbox[c] \in Seq(Message)
  BY DEF FullInv, CoherentInv, RequestsInv, TypeOK, DbTypeOK
<1>1. PICK K \in SUBSET Keys :
          \E st \in [Keys -> ValueOrNone], e \in [K -> Entry] :
              WellFormed(st, K, e) /\ Write(st, K, e)
  BY DEF Written, SomeWrite
<1>2. PICK st \in [Keys -> ValueOrNone], e \in [K -> Entry] :
          WellFormed(st, K, e) /\ Write(st, K, e)
  BY <1>1
<1>3. PICK b \in Seq(Message) :
         /\ inbox'[c] = inbox[c] \o b
         /\ \A j \in 1..Len(b) : b[j] \in NotifiesFor(c, K, e)
         /\ \A m \in NotifiesFor(c, K, e) : \E j \in 1..Len(b) : b[j] = m
  BY <1>0, <1>2, WriteAppends
<1> DEFINE q == inbox[c]
           r == inbox'[c]
<1>4. /\ Len(q) \in Nat /\ Len(b) \in Nat /\ Len(r) = Len(q) + Len(b)
      /\ DOMAIN q = 1..Len(q) /\ DOMAIN r = 1..Len(r)
      /\ \A i \in 1..Len(q) : r[i] = q[i]
      /\ \A j \in 1..Len(b) : r[Len(q) + j] = b[j]
  <2>1. r \in Seq(Message)
    BY <1>0, <1>3, ConcatProperties
  <2> QED
    BY <1>0, <1>3, <2>1, AppendPositions
<1> HIDE DEF q, r
<1>5. \A i \in DOMAIN q : i \in DOMAIN r /\ r[i] = q[i]
  BY <1>4
<1>6. ASSUME NEW k \in Keys, NEW s \in monitored[c], IsBelow(s, k),
             EntryIn(store', k).value # Query(k).value
      PROVE  \E i \in DOMAIN r : /\ r[i].key = k /\ r[i].section = s
                                 /\ r[i].entry.value # Query(k).value
  <2>1. store' = st
    BY <1>2 DEF Write
  <2>2. k \in K
    BY <1>2, <1>6, <2>1 DEF WellFormed, EntryIn, Query
  <2>3. s \in Dirs /\ c \in notifications[s]
    BY <1>0, <1>6 DEF RequestsMatchDaemon, TypeOK
  <2>4. PICK j \in 1..Len(b) : b[j] = [section |-> s, key |-> k, entry |-> e[k]]
    BY <1>3, <1>6, <2>2, <2>3, NotifiesForAll
  <2>5. e[k].value = EntryIn(store', k).value
    BY <1>2, <2>1, <2>2 DEF WellFormed
  <2>6. Len(q) + j \in DOMAIN r /\ r[Len(q) + j] = b[j]
    BY <1>4
  <2> QED
    BY <1>6, <2>4, <2>5, <2>6
<1> QED
  BY <1>5, <1>6 DEF q, r

LEMMA AwaitWrite ==
    ASSUME AwaitInv, Written, RecordChange, UNCHANGED <<pending, flushing>>,
           NEW c \in Clients
    PROVE  UnreadAwaited(c)'
<1>0. /\ FullInv /\ TypeOK /\ RequestsMatchDaemon /\ UnreadAwaited(c)
      /\ monitored[c] \subseteq WatchedDirs(c)
      /\ UNCHANGED <<addCount, monitored, op>>
  BY DEF AwaitInv, FullInv, CoherentInv, RequestsInv, WatchInv, Watching, Written
<1>1. /\ \A i \in DOMAIN inbox[c] :
            i \in DOMAIN inbox'[c] /\ inbox'[c][i] = inbox[c][i]
      /\ \A k \in Keys, s \in monitored[c] :
            EntryIn(store', k).value # Query(k).value /\ IsBelow(s, k)
            => \E i \in DOMAIN inbox'[c] :
                  /\ inbox'[c][i].key = k /\ inbox'[c][i].section = s
                  /\ inbox'[c][i].entry.value # Query(k).value
  BY <1>0, WrittenQueues
<1>2. unread'[c] = unread[c] \cup ChangedFor(c, store')
  BY DEF RecordChange
<1>3. \A k \in Keys : Kept(c, k)
  BY DEF Written
<1>4. ASSUME NEW k, \/ k \in Keys /\ Differs(c, k)
                    \/ k \in unread[c] /\ Differs(c, k)
      PROVE  Differs(c, k)'
  <2>1. k \in Keys
    BY <1>0, <1>4 DEF TypeOK
  <2>2. \A i \in Deliverable(c, k) : \E j \in Deliverable(c, k)' :
            inbox'[c][j] = inbox[c][i]
    BY <1>0, <1>1 DEF Deliverable
  <2> QED
    BY <1>0, <1>3, <1>4, <2>1, <2>2, DiffersKept
<1>5. ASSUME NEW k \in unread[c] PROVE Awaited(c, k)'
  BY <1>0, <1>4, <1>5 DEF UnreadAwaited, Awaited, Queued, KeyBeingMonitored,
     WatchedDirs
<1>6. ASSUME NEW k \in ChangedFor(c, store') PROVE Awaited(c, k)'
  <2>1. /\ k \in Keys /\ EntryIn(store', k).value # Query(k).value
        /\ SectionsFor(c, k) # {}
    BY <1>6 DEF ChangedFor
  <2>2. PICK s \in Dirs : c \in notifications[s] /\ IsBelow(s, k)
    BY <2>1 DEF SectionsFor
  <2>3. s \in monitored[c]
    BY <1>0, <2>2 DEF RequestsMatchDaemon
  <2>4. KeyBeingMonitored(c, k)'
    BY <1>0, <2>2, <2>3 DEF KeyBeingMonitored, WatchedDirs
  <2>5. PICK i \in DOMAIN inbox'[c] :
           /\ inbox'[c][i].key = k /\ inbox'[c][i].section = s
           /\ inbox'[c][i].entry.value # Query(k).value
    BY <1>1, <2>1, <2>2, <2>3
  <2>6. i \in Deliverable(c, k)'
    BY <1>0, <2>3, <2>5 DEF Deliverable
  <2>7. CASE cache'[c][k] = NotCached
    <3>1. inbox'[c][i].entry \in Entry
      <4>1. DbTypeOK'
        BY <1>0, WriteType DEF Written, TypeOK
      <4>2. inbox'[c] \in Seq(Message)
        BY <4>1 DEF DbTypeOK
      <4>3. inbox'[c][i] \in Message
        BY <4>2
      <4> QED
        BY <4>3 DEF Message
    <3>2. Announced(inbox'[c][i].entry.value, FALSE) \in Entry
      BY <3>1 DEF Announced, Entry
    <3>3. Announced(inbox'[c][i].entry.value, FALSE) # cache'[c][k]
      BY <2>7, <3>2, NotCachedAssumption
    <3> QED
      BY <2>4, <2>6, <3>3 DEF Awaited, Differs, Announced
  <2>8. CASE cache'[c][k] # NotCached
    <3>1. cache'[c][k] = cache[c][k] /\ IsCached(c, k)
      BY <1>3, <2>1, <2>8 DEF Kept, IsCached
    <3>2. CASE cache[c][k].value # Query(k).value
      BY <1>0, <1>4, <2>1, <2>4, <3>1, <3>2, StaleDiffers DEF Awaited
    <3>3. CASE cache[c][k].value = Query(k).value
      <4>1. Announced(inbox'[c][i].entry.value, FALSE).value # cache'[c][k].value
        BY <2>5, <3>1, <3>3 DEF Announced
      <4>2. Announced(inbox'[c][i].entry.value, FALSE) # cache'[c][k]
        BY <4>1
      <4> QED
        BY <2>4, <2>6, <4>2 DEF Awaited, Differs, Announced
    <3> QED
      BY <3>2, <3>3
  <2> QED
    BY <2>7, <2>8
<1>7. PreloadApart(c)'
  BY <1>0, <1>2 DEF UnreadAwaited, PreloadApart, ChangedFor
<1> QED
  BY <1>2, <1>5, <1>6, <1>7 DEF UnreadAwaited

(* A step is a write; or no other client hears of it.                           *)
Recorded == Written /\ RecordChange /\ UNCHANGED <<pending, flushing>>

LEMMA OwnWriteRecords ==
    ASSUME TypeOK, NEW c \in Clients, NEW K, SomeWrite, OwnWrite(c, K)
    PROVE  Recorded
BY EvictKeeps DEF OwnWrite, Recorded, Written

LEMMA AwaitOthers ==
    ASSUME TypeOK, NEW c \in Clients, ClientStep(c), NEW b \in Clients, b # c
    PROVE  \/ Recorded
           \/ /\ pending'[b] = pending[b] /\ flushing'[b] = flushing[b]
              /\ unread'[b] = unread[b] /\ inbox'[b] = inbox[b]
<1> DEFINE Still == /\ pending'[b] = pending[b] /\ flushing'[b] = flushing[b]
                    /\ unread'[b] = unread[b] /\ inbox'[b] = inbox[b]
<1>0. DbTypeOK
  BY DEF TypeOK
<1>1. CASE ApplicationStep(c)
  <2>1. ASSUME NEW k \in Keys, NEW v \in Values, Set(c, k, v) PROVE Recorded
    BY <1>0, <2>1, WritesAreWellFormed, OwnWriteRecords DEF Set
  <2>2. ASSUME NEW k \in Keys, Unset(c, k) PROVE Recorded
    BY <1>0, <2>2, WritesAreWellFormed, OwnWriteRecords DEF Unset
  <2>3. ASSUME NEW top, RecursiveUnset(c, top) PROVE Recorded
    BY <1>0, <2>3, WritesAreWellFormed, OwnWriteRecords DEF RecursiveUnset
  <2>4. ASSUME NEW k \in Keys, Get(c, k) \/ Notify(c, k) PROVE Still
    BY <2>4 DEF Get, Notify, Learn, Announce, dbvars, TypeOK
  <2>5. ASSUME NEW d \in Dirs, AllEntries(c, d) \/ AddDirAgain(c, d) \/ RemoveDirOnce(c, d)
        PROVE  Still
    BY <2>5 DEF AllEntries, AddDirAgain, RemoveDirOnce, Learn, dbvars, TypeOK
  <2>6. ASSUME ClearCache(c) PROVE Still
    BY <2>6 DEF ClearCache, dbvars
  <2>7. ASSUME NEW d \in Dirs, NEW p \in Preloads, Preload(c, d, p) \/ AddDir(c, d, p)
        PROVE  Still
    BY <2>7 DEF Preload, AddDir, dbvars
  <2>8. ASSUME NEW d \in Dirs, RemoveDir(c, d) PROVE Still
    BY <2>8 DEF RemoveDir, DbRemoveNotify, dbvars, TypeOK
  <2> HIDE DEF Still
  <2>9. Recorded \/ Still
    BY <1>1, <2>1, <2>2, <2>3, <2>4, <2>5, <2>6, <2>7, <2>8 DEF ApplicationStep
  <2> QED
    BY <2>9 DEF Still
<1>2. CASE CallStep(c)
  BY <1>2 DEF CallStep, PreloadDir, DropCovered, ReAddNext, UseCovering, AddNotify,
     AddNotifyFails, ReAddDone, DbAddNotify, DbRemoveNotify, dbvars
<1>3. CASE Dispatch(c)
  BY <1>0, <1>3 DEF Dispatch, Take, TypeOK, DbTypeOK
<1>4. CASE FlushStep(c)
  BY <1>4 DEF FlushStep, FlushBegin, FlushKey, Announce, dbvars, TypeOK
<1> QED
  BY <1>1, <1>2, <1>3, <1>4 DEF ClientStep

LEMMA AwaitFrame ==
    ASSUME NEW c, UnreadAwaited(c), inbox'[c] = inbox[c],
           monitored'[c] = monitored[c], addCount'[c] = addCount[c],
           op'[c] = op[c], cache'[c] = cache[c], pending'[c] = pending[c],
           flushing'[c] = flushing[c], unread'[c] = unread[c]
    PROVE  UnreadAwaited(c)'
<1>1. ASSUME NEW k PROVE Differs(c, k)' <=> Differs(c, k)
  <2>1. Deliverable(c, k)' = Deliverable(c, k)
    BY DeliverableFrame
  <2> QED
    BY <2>1 DEF Differs, Announced
<1>2. ASSUME NEW k PROVE Awaited(c, k)' <=> Awaited(c, k)
  BY <1>1 DEF Awaited, Queued, KeyBeingMonitored, WatchedDirs
<1>3. PreloadApart(c)' <=> PreloadApart(c)
  BY DEF PreloadApart
<1> QED
  BY <1>2, <1>3 DEF UnreadAwaited

(* The reads and the announcements of a client: what is still unread is awaited *)
(* as before, or it was announced with a value that will be replaced.           *)
Looks(c) ==
    \/ \E k \in Keys : Get(c, k) \/ Notify(c, k) \/ FlushKey(c, k)
    \/ \E d \in Dirs : AllEntries(c, d)
    \/ ClearCache(c)
    \/ FlushBegin(c)

LEMMA AwaitLooks ==
    ASSUME AwaitInv, NEW c \in Clients, Looks(c)
    PROVE  UnreadAwaited(c)'
<1>0. /\ FullInv /\ TypeOK /\ UnreadAwaited(c)
      /\ pending \in [Clients -> SUBSET Keys] /\ flushing \in [Clients -> SUBSET Keys]
      /\ unread \in [Clients -> SUBSET Keys] /\ cache \in [Clients -> [Keys -> Entry \cup {NotCached}]]
  BY DEF AwaitInv, FullInv, CoherentInv, WatchInv, TypeOK
<1>1. UNCHANGED <<inbox, store, monitored, addCount, op>> /\ op[c] = Idle
  BY DEF Looks, Get, Notify, FlushKey, AllEntries, ClearCache, FlushBegin, dbvars
<1>2. PreloadApart(c)'
  BY <1>1 DEF PreloadApart, Idle
<1>3. ASSUME NEW k \in unread[c], Kept(c, k), Queued(c, k) => Queued(c, k)'
      PROVE  Awaited(c, k)'
  BY <1>0, <1>1, <1>3, AwaitedKept DEF UnreadAwaited, WatchedDirs
<1>4. ASSUME NEW K, CacheCurrent(c, K), NEW k \in Keys, k \notin K PROVE Kept(c, k)
  BY <1>0, <1>4 DEF CacheCurrent, Kept
<1>5. ASSUME NEW k, UNCHANGED <<pending, flushing>> PROVE Queued(c, k) => Queued(c, k)'
  BY <1>5 DEF Queued
<1>6. unread[c] \subseteq Keys
  BY <1>0
<1>7. ASSUME UNCHANGED cache, NEW k PROVE Kept(c, k)
  BY <1>7 DEF Kept
<1>8. ASSUME NEW K, CacheCurrent(c, K), unread'[c] \subseteq unread[c] \ K,
             UNCHANGED <<pending, flushing>>, NEW k \in unread'[c]
      PROVE  Awaited(c, k)'
  BY <1>3, <1>4, <1>5, <1>6, <1>8
<1>9. ASSUME UNCHANGED <<cache, pending, flushing>>, unread'[c] \subseteq unread[c],
             NEW k \in unread'[c]
      PROVE  Awaited(c, k)'
  BY <1>3, <1>5, <1>7, <1>9
<1>10. ASSUME NEW K PROVE Learn(c, K) => unread'[c] = unread[c] \ K
  BY <1>0 DEF Learn
<1>11. ASSUME NEW j \in Keys, NEW e, Announce(c, j, e)
       PROVE  /\ unread'[c] \subseteq unread[c]
              /\ e.value = Query(j).value => unread'[c] = unread[c] \ {j}
  BY <1>0, <1>11 DEF Announce
<1>12. ASSUME NEW j \in Keys, Get(c, j), NEW k \in unread'[c] PROVE Awaited(c, k)'
  <2>1. UNCHANGED <<pending, flushing>>
    BY <1>12 DEF Get
  <2>2. \/ UNCHANGED cache /\ \E K : Learn(c, K)
        \/ Learn(c, {j}) /\ CacheCurrent(c, {j})
    BY <1>12 DEF Get
  <2> QED
    BY <1>8, <1>9, <1>10, <1>12, <2>1, <2>2
<1>13. ASSUME NEW j \in Keys, Notify(c, j), NEW k \in unread'[c] PROVE Awaited(c, k)'
  <2>1. UNCHANGED <<pending, flushing>>
    BY <1>13 DEF Notify
  <2>2. \/ UNCHANGED cache /\ \E e : Announce(c, j, e)
        \/ Announce(c, j, Query(j)) /\ CacheCurrent(c, {j})
    BY <1>13 DEF Notify
  <2> QED
    BY <1>8, <1>9, <1>11, <1>13, <2>1, <2>2
<1>14. ASSUME NEW d \in Dirs, AllEntries(c, d), NEW k \in unread'[c] PROVE Awaited(c, k)'
  <2>1. UNCHANGED <<pending, flushing>> /\ Learn(c, Listed(d))
        /\ (UNCHANGED cache \/ CacheCurrent(c, Listed(d)))
    BY <1>14 DEF AllEntries
  <2> QED
    BY <1>8, <1>9, <1>10, <1>14, <2>1
<1>15. ASSUME ClearCache(c), NEW k \in unread'[c] PROVE Awaited(c, k)'
  <2>1. UNCHANGED <<pending, flushing, unread>> /\ Evict(c, Keys)
    BY <1>15 DEF ClearCache
  <2> QED
    BY <1>0, <1>3, <1>5, <1>6, <1>15, <2>1, EvictKeeps
<1>16. ASSUME FlushBegin(c), NEW k \in unread'[c] PROVE Awaited(c, k)'
  <2>1. UNCHANGED <<cache, unread>> /\ flushing'[c] = pending[c] /\ flushing[c] = {}
    BY <1>0, <1>16 DEF FlushBegin
  <2>2. Queued(c, k) => Queued(c, k)'
    BY <2>1 DEF Queued
  <2> QED
    BY <1>3, <1>7, <1>16, <2>1, <2>2
<1>17. ASSUME NEW j \in Keys, FlushKey(c, j), NEW k \in unread'[c] PROVE Awaited(c, k)'
  <2>1. flushing'[c] = flushing[c] \ {j} /\ pending' = pending
    BY <1>0, <1>17 DEF FlushKey
  <2>2. k # j => (Queued(c, k) => Queued(c, k)')
    BY <2>1 DEF Queued
  <2>3. CASE IsCached(c, j)
    <3>1. UNCHANGED cache /\ Announce(c, j, cache[c][j])
      BY <1>17, <2>3 DEF FlushKey
    <3>2. k \in unread[c] /\ (k = j => cache[c][j].value # Query(j).value)
      BY <1>11, <1>17, <3>1
    <3>3. CASE k # j
      BY <1>3, <1>7, <2>2, <3>1, <3>2, <3>3
    <3>4. CASE k = j
      <4>1. Differs(c, j)
        BY <1>0, <2>3, <3>2, <3>4, StaleDiffers
      <4>2. Differs(c, j)'
        BY <1>1, <3>1, <4>1 DEF Differs, Deliverable
      <4>3. KeyBeingMonitored(c, j)'
        BY <1>0, <1>1, <3>2, <3>4 DEF UnreadAwaited, Awaited, KeyBeingMonitored,
           WatchedDirs
      <4> QED
        BY <3>4, <4>2, <4>3 DEF Awaited
    <3> QED
      BY <3>3, <3>4
  <2>4. CASE ~ IsCached(c, j) /\ KeyBeingMonitored(c, j)
    <3>1. CacheCurrent(c, {j}) /\ Announce(c, j, Query(j))
      BY <1>17, <2>4 DEF FlushKey
    <3>2. k \in unread[c] /\ k # j
      BY <1>11, <1>17, <3>1
    <3> QED
      BY <1>3, <1>4, <1>6, <2>2, <3>1, <3>2
  <2>5. CASE ~ IsCached(c, j) /\ ~ KeyBeingMonitored(c, j)
    <3>1. UNCHANGED <<cache, unread>>
      BY <1>17, <2>5 DEF FlushKey
    <3>2. k \in unread[c] /\ k # j
      BY <1>0, <1>17, <2>5, <3>1 DEF UnreadAwaited, Awaited
    <3> QED
      BY <1>3, <1>7, <2>2, <3>1, <3>2
  <2> QED
    BY <2>3, <2>4, <2>5
<1>18. \A k \in unread'[c] : Awaited(c, k)'
  BY <1>12, <1>13, <1>14, <1>15, <1>16, <1>17 DEF Looks
<1> QED
  BY <1>2, <1>18 DEF UnreadAwaited

(* A dispatched call makes its key wait, unless it changes nothing.             *)
LEMMA AwaitDispatch ==
    ASSUME AwaitInv, NEW c \in Clients, Dispatch(c)
    PROVE  UnreadAwaited(c)'
<1> DEFINE q == inbox[c]
           r == inbox'[c]
           m == Head(q)
           new == Announced(m.entry.value, FALSE)
<1>0. /\ FullInv /\ TypeOK /\ UnreadAwaited(c) /\ q \in Seq(Message)
      /\ pending \in [Clients -> SUBSET Keys] /\ unread \in [Clients -> SUBSET Keys]
  BY DEF AwaitInv, FullInv, CoherentInv, WatchInv, TypeOK, DbTypeOK
<1>1. /\ q # <<>> /\ r = Tail(q)
      /\ UNCHANGED <<monitored, addCount, flushing, op, unread>> /\ op[c] = Idle
  BY <1>0 DEF Dispatch, Take, TypeOK, DbTypeOK
<1>2. /\ Len(q) \in Nat \ {0} /\ Len(r) = Len(q) - 1 /\ m = q[1]
      /\ DOMAIN q = 1..Len(q) /\ DOMAIN r = 1..Len(r)
      /\ \A i \in 1..Len(r) : r[i] = q[i + 1]
  <2>1. r \in Seq(Message)
    BY <1>0, <1>1, HeadTailProperties
  <2> QED
    BY <1>0, <1>1, <2>1, TailPositions
<1>3. PreloadApart(c)'
  BY <1>1 DEF PreloadApart, Idle
<1>4. ASSUME NEW k \in Keys, NEW i \in Deliverable(c, k), i # 1
      PROVE  \E j \in Deliverable(c, k)' : inbox'[c][j] = inbox[c][i]
  <2> HIDE DEF q, r
  <2>1. i \in 1..Len(q) /\ q[i].key = k /\ q[i].section \in monitored[c]
    BY <1>2, <1>4 DEF Deliverable, q
  <2>2. i - 1 \in 1..Len(r) /\ r[i - 1] = q[i]
    BY <1>2, <1>4, <2>1
  <2>3. i - 1 \in Deliverable(c, k)'
    BY <1>1, <1>2, <2>1, <2>2 DEF Deliverable, r
  <2> QED
    BY <2>2, <2>3 DEF q, r
<1>5. \/ m.section \in monitored[c] /\ m.key \in pending'[c]
      \/ /\ UNCHANGED <<cache, pending>>
         /\ m.section \in monitored[c] => cache[c][m.key] = new
  <2>1. \/ /\ m.section \in monitored[c]
           /\ pending' = [pending EXCEPT ![c] = pending[c] \cup {m.key}]
        \/ /\ UNCHANGED <<cache, pending>>
           /\ ~ (m.section \in monitored[c] /\ Changes(c, m.key, new))
    BY DEF Dispatch
  <2> HIDE DEF m, new
  <2> QED
    BY <1>0, <2>1 DEF Changes
<1>6. pending[c] \subseteq pending'[c]
  <2>1. pending' = pending \/ \E k : pending' = [pending EXCEPT ![c] = pending[c] \cup {k}]
    BY DEF Dispatch
  <2> QED
    BY <1>0, <2>1
<1>7. \A k : Queued(c, k) => Queued(c, k)'
  BY <1>1, <1>6 DEF Queued
<1>8. ASSUME NEW k \in unread[c], ~ Queued(c, k)' PROVE Differs(c, k)'
  <2>1. k \in Keys /\ Differs(c, k)
    BY <1>0, <1>7, <1>8 DEF UnreadAwaited, Awaited
  <2>2. ~ (m.section \in monitored[c] /\ m.key = k) => Kept(c, k)
    <3> SUFFICES ASSUME ~ (m.section \in monitored[c] /\ m.key = k) PROVE Kept(c, k)
      OBVIOUS
    <3>1. ~ Refreshed(c, k)
      <4> SUFFICES ASSUME Refreshed(c, k) PROVE FALSE
        OBVIOUS
      <4>1. Len(r) = Len(q)
        BY DEF Refreshed
      <4> QED
        BY <1>2, <4>1
    <3>2. ~ Notified(c, k)
      BY DEF Notified
    <3> QED
      BY <1>0, <2>1, <3>1, <3>2, CacheSteps DEF ClientStep, FullInv, CoherentInv,
         WatchInv
  <2>3. CASE 1 \in Deliverable(c, k)
    <3>1. m.section \in monitored[c] /\ m.key = k
      BY <1>2, <2>3 DEF Deliverable
    <3>2. UNCHANGED cache /\ cache[c][k] = new
      BY <1>5, <1>8, <3>1 DEF Queued
    <3>3. PICK i \in Deliverable(c, k) :
              Announced(inbox[c][i].entry.value, FALSE) # cache[c][k]
      BY <2>1 DEF Differs
    <3>4. i # 1
      BY <1>2, <3>2, <3>3
    <3>5. PICK j \in Deliverable(c, k)' : inbox'[c][j] = inbox[c][i]
      BY <1>4, <2>1, <3>3, <3>4
    <3>6. Announced(inbox'[c][j].entry.value, FALSE) # cache'[c][k]
      BY <3>2, <3>3, <3>5
    <3> QED
      BY <3>6 DEF Differs, Announced
  <2>4. CASE 1 \notin Deliverable(c, k)
    <3>1. Kept(c, k)
      <4>1. ~ (m.section \in monitored[c] /\ m.key = k)
        BY <1>2, <2>4 DEF Deliverable
      <4> QED
        BY <2>2, <4>1
    <3> QED
      BY <1>0, <1>4, <2>1, <2>4, <3>1, DiffersKept
  <2> QED
    BY <2>3, <2>4
<1>9. \A k \in unread'[c] : KeyBeingMonitored(c, k)'
  BY <1>0, <1>1 DEF UnreadAwaited, Awaited, KeyBeingMonitored, WatchedDirs
<1> QED
  BY <1>1, <1>3, <1>8, <1>9 DEF UnreadAwaited, Awaited

(* Adding a directory, up to the preload: it is apart from the watched ones, so *)
(* nothing below it is unread.                                                  *)
LEMMA AwaitAddNotify ==
    ASSUME AwaitInv, NEW c \in Clients, AddNotify(c)
    PROVE  UnreadAwaited(c)'
<1> DEFINE dir  == op[c].dir
           todo == PreloadTodo(dir, op[c].preload)
           pre  == [Idle EXCEPT !.pc = "preload", !.dir = dir, !.todo = todo]
<1>0. /\ TypeOK /\ OverlapsHasDir /\ Watching(c) /\ Apart(c) /\ UnreadAwaited(c)
      /\ FullInv
  BY DEF AwaitInv, FullInv, CoherentInv, WatchInv
<1>1. /\ op[c].pc = "overlaps" /\ op[c].then = "add" /\ dir \in Dirs
      /\ \A d \in monitored[c] : Disjoint(d, dir)
      /\ op[c].preload \in Preloads
  BY <1>0 DEF AddNotify, OverlapsDone, Apart, OverlapsHasDir, TypeOK, Op
<1>2. /\ UNCHANGED <<inbox, cache, pending, flushing, unread>>
      /\ monitored'[c] = monitored[c] \cup {dir}
      /\ op'[c] \in {Idle, pre}
  BY <1>0, <1>1 DEF AddNotify, DbAddNotify, Continue, TypeOK
<1>3. WatchedDirs(c) \subseteq WatchedDirs(c)'
  <2>1. CallStep(c)
    BY DEF CallStep
  <2>2. \A d \in Dirs : ~ RemoveDir(c, d)
    BY <1>1 DEF RemoveDir, Idle
  <2> QED
    BY <1>0, <2>1, <2>2, WatchedKept DEF ClientStep
<1>4. ASSUME NEW k \in unread[c] PROVE Awaited(c, k)'
  <2>1. Kept(c, k) /\ (Queued(c, k) => Queued(c, k)')
    BY <1>2 DEF Kept, Queued
  <2> QED
    BY <1>0, <1>2, <1>3, <2>1, AwaitedKept DEF UnreadAwaited
<1>5. ASSUME NEW k \in unread[c] PROVE ~ IsBelow(dir, k)
  <2>1. k \in Keys
    BY <1>0 DEF TypeOK
  <2>2. PICK w \in WatchedDirs(c) : IsBelow(w, k)
    BY <1>0 DEF UnreadAwaited, Awaited, KeyBeingMonitored
  <2>3. Disjoint(w, dir) /\ w \in Dirs
    BY <1>0, <1>1 DEF Apart, WatchedDirs
  <2>4. w \in Seq(STRING) /\ dir \in Seq(STRING) /\ k \in Seq(STRING)
    BY <1>1, <2>1, <2>3, PathAssumption
  <2> HIDE DEF dir
  <2> QED
    BY <2>2, <2>3, <2>4, AboveIsChain DEF Disjoint
<1>6. \A d \in todo : IsBelow(dir, d)
  <2>1. IsBelow(dir, dir)
    BY <1>1, DirBelow
  <2> QED
    BY <1>1, <2>1 DEF PreloadTodo, Preloads
<1>7. PreloadApart(c)'
  <2>1. CASE op'[c] = Idle
    BY <2>1 DEF PreloadApart, Idle
  <2>2. CASE op'[c] = pre
    <3>1. pre.dir = dir /\ pre.todo = todo
      BY DEF Idle
    <3> HIDE DEF pre, dir, todo
    <3>2. op'[c].dir = dir /\ op'[c].todo = todo /\ unread'[c] = unread[c]
      BY <1>2, <2>2, <3>1
    <3> QED
      BY <1>1, <1>5, <1>6, <3>2 DEF PreloadApart
  <2> QED
    BY <1>2, <2>1, <2>2
<1> QED
  BY <1>2, <1>4, <1>7 DEF UnreadAwaited

(* Removing one: what stays watched keeps its calls.                            *)
LEMMA AwaitRemoveDir ==
    ASSUME AwaitInv, NEW c \in Clients, NEW d \in Dirs, RemoveDir(c, d)
    PROVE  UnreadAwaited(c)'
<1>0. /\ TypeOK /\ Watching(c) /\ Apart(c) /\ UnreadAwaited(c) /\ RequestsInv
      /\ MessagesBelow /\ inbox[c] \in Seq(Message)
  BY DEF AwaitInv, FullInv, CoherentInv, WatchInv, TypeOK, DbTypeOK
<1>1. /\ UNCHANGED <<inbox, pending, flushing>>
      /\ monitored'[c] = monitored[c] \ {d} /\ Evict(c, KeysBelow(d))
      /\ op'[c].pc = "readd"
  BY <1>0 DEF RemoveDir, DbRemoveNotify, dbvars, TypeOK, Idle
<1>2. WatchedDirs(c)' = WatchedDirs(c) \ {d}
  BY <1>0 DEF RemoveDir, TypeOK, WatchedDirs
<1>3. ASSUME NEW k \in unread'[c] PROVE Awaited(c, k)'
  <2>1. /\ k \in unread[c] /\ k \in Keys
        /\ \E w \in WatchedDirs(c) \ {d} : IsBelow(w, k)
    BY <1>0, <1>3 DEF RemoveDir, TypeOK
  <2>2. PICK w \in WatchedDirs(c) \ {d} : IsBelow(w, k)
    BY <2>1
  <2>3. KeyBeingMonitored(c, k)'
    BY <1>2, <2>2 DEF KeyBeingMonitored
  <2>4. w \in monitored[c] /\ d \in monitored[c]
    BY <1>0, <2>2 DEF Apart, WatchedDirs, RemoveDir
  <2>5. ~ IsBelow(d, k)
    BY <1>0, <2>1, <2>2, <2>4, OneAbove
  <2>6. Kept(c, k) /\ (Queued(c, k) => Queued(c, k)')
    BY <1>0, <1>1, <2>1, EvictKeeps DEF Queued
  <2>7. Deliverable(c, k)' = Deliverable(c, k)
    <3>1. \A i \in DOMAIN inbox[c] : IsBelow(inbox[c][i].section, inbox[c][i].key)
      BY <1>0 DEF MessagesBelow
    <3> QED
      BY <1>1, <2>5, <3>1 DEF Deliverable
  <2>8. Differs(c, k) => Differs(c, k)'
    BY <1>0, <1>1, <2>6, <2>7, DiffersKept
  <2> QED
    BY <1>0, <2>1, <2>3, <2>6, <2>8 DEF UnreadAwaited, Awaited
<1>4. PreloadApart(c)'
  BY <1>1 DEF PreloadApart
<1> QED
  BY <1>3, <1>4 DEF UnreadAwaited

LEMMA AwaitStep ==
    ASSUME Overlaps = FALSE, EarlyReAdd = FALSE, PreloadWatched = FALSE, AwaitInv,
           Next, NEW c \in Clients
    PROVE  UnreadAwaited(c)'
<1>0. /\ TypeOK /\ Watching(c) /\ Apart(c) /\ UnreadAwaited(c) /\ OverlapsHasDir
      /\ DbTypeOK
  BY DEF AwaitInv, FullInv, CoherentInv, WatchInv, TypeOK
<1>1. CASE Recorded
  BY <1>1, AwaitWrite DEF Recorded
<1>2. CASE OtherWrites
  <2>1. SomeWrite
    BY <1>0, <1>2, WritesAreWellFormed DEF OtherWrites
  <2> QED
    BY <1>1, <1>2, <2>1 DEF OtherWrites, Recorded, Written, Kept
<1>3. ASSUME NEW b \in Clients, ClientStep(b), b # c PROVE UnreadAwaited(c)'
  BY <1>0, <1>1, <1>3, OthersKeep, AwaitOthers, AwaitFrame
<1>4. ASSUME op'[c].pc # "preload" \/ op'[c] = op[c],
             WatchedDirs(c) \subseteq WatchedDirs(c)',
             UNCHANGED <<inbox, monitored, cache, pending, flushing, unread>>
      PROVE  UnreadAwaited(c)'
  <2>1. ASSUME NEW k \in unread[c] PROVE Awaited(c, k)'
    BY <1>0, <1>4, AwaitedKept DEF UnreadAwaited, Kept, Queued
  <2>2. PreloadApart(c)'
    BY <1>0, <1>4 DEF UnreadAwaited, PreloadApart
  <2> QED
    BY <1>4, <2>1, <2>2 DEF UnreadAwaited
<1>5. CASE ApplicationStep(c)
  <2>1. ASSUME NEW d \in Dirs, NEW p \in Preloads PROVE ~ Preload(c, d, p)
    BY DEF Preload
  <2>2. ASSUME NEW d \in Dirs, NEW p \in Preloads, AddDir(c, d, p)
        PROVE  UnreadAwaited(c)'
    <3>1. /\ UNCHANGED <<addCount, inbox, monitored, cache, pending, flushing, unread>>
          /\ op'[c].pc = "overlaps"
      BY <1>0, <2>2 DEF AddDir, TypeOK, dbvars
    <3> QED
      BY <1>4, <3>1 DEF WatchedDirs
  <2>3. ASSUME NEW d \in Dirs, AddDirAgain(c, d) \/ RemoveDirOnce(c, d)
        PROVE  UnreadAwaited(c)'
    <3>1. UNCHANGED <<inbox, monitored, cache, pending, flushing, unread, op>>
          /\ op[c] = Idle
      BY <2>3 DEF AddDirAgain, RemoveDirOnce, dbvars
    <3>2. \A e \in Dirs : ~ RemoveDir(c, e)
      <4>1. addCount \in [Clients -> [Dirs -> Nat]] /\ MaxAdds \in Nat
        BY <1>0, MaxAddsAssumption DEF TypeOK
      <4>2. addCount[c][d] \in Nat /\ addCount'[c][d] # 0
        BY <2>3, <4>1 DEF AddDirAgain, RemoveDirOnce
      <4>3. \A e \in Dirs : RemoveDir(c, e) => op'[c].pc = "readd"
        BY <1>0 DEF RemoveDir, TypeOK, Idle
      <4> QED
        BY <3>1, <4>3 DEF Idle
    <3>3. WatchedDirs(c) \subseteq WatchedDirs(c)'
      BY <1>0, <1>5, <3>2, WatchedKept DEF ClientStep
    <3> QED
      BY <1>4, <3>1, <3>3
  <2>4. ASSUME NEW k \in Keys, NEW v \in Values, Set(c, k, v) PROVE Recorded
    BY <1>0, <2>4, WritesAreWellFormed, OwnWriteRecords DEF Set
  <2>5. ASSUME NEW k \in Keys, Unset(c, k) PROVE Recorded
    BY <1>0, <2>5, WritesAreWellFormed, OwnWriteRecords DEF Unset
  <2>6. ASSUME NEW top, RecursiveUnset(c, top) PROVE Recorded
    BY <1>0, <2>6, WritesAreWellFormed, OwnWriteRecords DEF RecursiveUnset
  <2>7. ASSUME Looks(c) PROVE UnreadAwaited(c)'
    BY <2>7, AwaitLooks
  <2>8. ASSUME NEW d \in Dirs, RemoveDir(c, d) PROVE UnreadAwaited(c)'
    BY <2>8, AwaitRemoveDir
  <2> QED
    BY <1>1, <1>5, <2>1, <2>2, <2>3, <2>4, <2>5, <2>6, <2>7, <2>8
       DEF ApplicationStep, Looks
<1>6. CASE CallStep(c)
  <2>1. ASSUME NEW d \in Dirs, PreloadDir(c, d) PROVE UnreadAwaited(c)'
    <3>1. /\ op[c].pc = "preload" /\ d \in op[c].todo /\ CacheCurrent(c, Listed(d))
          /\ UNCHANGED <<inbox, monitored, addCount, pending, flushing, unread>>
      BY <2>1 DEF PreloadDir, dbvars
    <3>2. op[c].dir \in Dirs /\ \A k \in unread[c] : ~ IsBelow(op[c].dir, k)
      BY <1>0, <3>1 DEF UnreadAwaited, PreloadApart
    <3>3. ASSUME NEW k \in unread[c] PROVE Awaited(c, k)'
      <4>1. k \in Keys
        BY <1>0 DEF TypeOK
      <4>2. k \notin Listed(d)
        <5>1. IsBelow(d, k) => IsBelow(op[c].dir, k)
          BY <1>0, <3>1, <3>2, <4>1, DirBelow DEF UnreadAwaited, PreloadApart
        <5> QED
          BY <3>2, <3>3, <5>1 DEF Listed, DirectlyIn
      <4>3. Kept(c, k)
        BY <1>0, <3>1, <4>1, <4>2 DEF CacheCurrent, Kept, TypeOK
      <4>4. WatchedDirs(c)' = WatchedDirs(c)
        BY <3>1 DEF WatchedDirs
      <4> QED
        BY <1>0, <3>1, <3>3, <4>3, <4>4, AwaitedKept DEF UnreadAwaited, Queued
    <3>4. PreloadApart(c)'
      <4>1. \/ op'[c] = Idle
            \/ op'[c].dir = op[c].dir /\ op'[c].todo \subseteq op[c].todo
        BY <1>0, <2>1 DEF PreloadDir, TypeOK, Op
      <4> QED
        BY <1>0, <3>1, <4>1 DEF UnreadAwaited, PreloadApart, Idle
    <3> QED
      BY <3>1, <3>3, <3>4 DEF UnreadAwaited
  <2>2. ASSUME NEW d \in Dirs PROVE ~ DropCovered(c, d) /\ ~ ReAddNext(c, d)
    BY <1>0 DEF DropCovered, ReAddNext, Watching, Apart, Disjoint
  <2>3. ~ UseCovering(c)
    BY <1>0 DEF UseCovering, OverlapsDone, Covered, Apart, Disjoint
  <2>4. ASSUME AddNotifyFails(c) \/ ReAddDone(c) PROVE UnreadAwaited(c)'
    <3>1. /\ UNCHANGED <<inbox, monitored, addCount, cache, pending, flushing, unread>>
          /\ op'[c] = Idle
      BY <1>0, <2>4 DEF AddNotifyFails, ReAddDone, dbvars, TypeOK
    <3> QED
      BY <1>4, <3>1 DEF WatchedDirs, Idle
  <2> QED
    BY <1>6, <2>1, <2>2, <2>3, <2>4, AwaitAddNotify DEF CallStep
<1>7. CASE Dispatch(c)
  BY <1>7, AwaitDispatch
<1>8. CASE FlushStep(c)
  BY <1>8, AwaitLooks DEF FlushStep, Looks
<1> QED
  BY <1>2, <1>3, <1>5, <1>6, <1>7, <1>8 DEF Next, ClientStep

(* No change is lost between the daemon and the application's listeners: when   *)
(* no call is under way, no Notify call queued and no announcement left to make, *)
(* the application has been told of, or has read, the present value of every     *)
(* key that changed while it was watched.                                       *)
THEOREM NothingStaysUnread ==
    ASSUME Overlaps = FALSE, EarlyReAdd = FALSE, PreloadWatched = FALSE
    PROVE  Spec => []NothingUnread
<1>1. Init => AwaitInv
  BY CoherentInit DEF Init, AwaitInv, UnreadAwaited, PreloadApart, Idle
<1>2. AwaitInv /\ [Next]_vars => AwaitInv'
  <2> SUFFICES ASSUME AwaitInv, [Next]_vars PROVE AwaitInv'
    OBVIOUS
  <2>1. FullInv'
    BY CoherentInvStep DEF AwaitInv
  <2>2. CASE UNCHANGED vars
    BY <2>1, <2>2, AwaitFrame DEF vars, dbvars, clvars, AwaitInv
  <2>3. CASE Next
    BY <2>1, <2>3, AwaitStep DEF AwaitInv
  <2> QED
    BY <2>2, <2>3
<1>3. AwaitInv => NothingUnread
  <2> SUFFICES ASSUME AwaitInv, NEW c \in Clients, Quiet(c), NEW k \in unread[c]
               PROVE  FALSE
    BY DEF NothingUnread
  <2>1. Deliverable(c, k) = {}
    <3>1. DOMAIN inbox[c] = {}
      BY DEF Quiet
    <3> QED
      BY <3>1 DEF Deliverable
  <2> QED
    BY <2>1 DEF AwaitInv, UnreadAwaited, Awaited, Queued, Differs, Quiet
<1> QED
  BY <1>1, <1>2, <1>3, PTL DEF Spec
=============================================================================
