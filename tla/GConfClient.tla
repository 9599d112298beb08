----------------------------- MODULE GConfClient -----------------------------
(***************************************************************************)
(* GConfClient: the client-side cache of a GConf application, over one       *)
(* database of gconfd (GConfDatabase).                                       *)
(*                                                                          *)
(* An application adds the directories it wants to watch.  The client keeps  *)
(* one notification request at the daemon for each watched directory that no *)
(* other watched directory covers, caches what it reads below watched        *)
(* directories, and replaces a cached entry when the daemon notifies a       *)
(* change; an idle handler then tells the application's listeners.           *)
(*                                                                          *)
(* The application is single threaded.  A call of the library that makes     *)
(* several D-Bus calls takes one step for each, and other programs write the *)
(* database in between; op[c] says where such a call stands.  While it is    *)
(* under way nothing else happens in that client.  Notify calls are          *)
(* dispatched from the main loop, and so never inside a library call nor     *)
(* between two listeners of one flush (no listener runs a nested main loop). *)
(***************************************************************************)
EXTENDS GConfDatabase

CONSTANTS
    NotCached,      \* no entry in the cache
    Overlaps,       \* the application may watch directories that overlap
    EarlyReAdd,     \* ... may watch a directory again while a Notify sent for
                    \*     its earlier watch is still queued
    PreloadWatched, \* ... may preload a directory it is watching already
    CallsFail,      \* an AddNotify call may fail
    MaxAdds         \* bound on how often one directory is added

ASSUME FlagAssumption ==
    {Overlaps, EarlyReAdd, PreloadWatched, CallsFail} \subseteq BOOLEAN

ASSUME NotCachedAssumption == NotCached \notin Entry

ASSUME MaxAddsAssumption == MaxAdds \in Nat \ {0}

VARIABLES
    addCount,   \* Dir.add_count of the directories in dir_hash, 0 for others
    monitored,  \* the directories of dir_hash with notify_id # 0
    cache,      \* cache_hash
    pending,    \* notify_list: keys to announce from the idle handler
    flushing,   \* to_notify: what is left of the list a flush has adopted
    op,         \* the library call under way
    unread      \* history: changed while watched, not announced nor read since

clvars == <<addCount, monitored, cache, pending, flushing, op, unread>>
vars == <<dbvars, clvars>>

Preloads == {"none", "onelevel", "recursive"}

(* The stage of a call: idle; "overlaps", in setup_overlaps() for op.dir;     *)
(* "preload", caching the directories of op.todo; "readd", the re-add loop    *)
(* of remove_dir with the directories of op.todo still to visit.  For         *)
(* "overlaps", op.then says which call it is part of.                         *)
NoDir == <<"no", "directory">>
Op == [pc : {"idle", "overlaps", "preload", "readd"},
       then : {"none", "add", "readd"},
       dir : Dirs \cup {NoDir}, preload : Preloads, todo : SUBSET Dirs]

Idle == [pc |-> "idle", then |-> "none", dir |-> NoDir,
         preload |-> "none", todo |-> {}]

TypeOK ==
    /\ DbTypeOK
    /\ addCount \in [Clients -> [Dirs -> Nat]]
    /\ monitored \in [Clients -> SUBSET Dirs]
    /\ cache \in [Clients -> [Keys -> Entry \cup {NotCached}]]
    /\ pending \in [Clients -> SUBSET Keys]
    /\ flushing \in [Clients -> SUBSET Keys]
    /\ op \in [Clients -> Op]
    /\ unread \in [Clients -> SUBSET Keys]

Init ==
    /\ DbInit
    /\ addCount = [c \in Clients |-> [d \in Dirs |-> 0]]
    /\ monitored = [c \in Clients |-> {}]
    /\ cache = [c \in Clients |-> [k \in Keys |-> NotCached]]
    /\ pending = [c \in Clients |-> {}]
    /\ flushing = [c \in Clients |-> {}]
    /\ op = [c \in Clients |-> Idle]
    /\ unread = [c \in Clients |-> {}]

-----------------------------------------------------------------------------
(* What the client knows.                                                    *)

(* dir_hash.                                                                 *)
WatchedDirs(c) == {d \in Dirs : addCount[c][d] > 0}

(* key_being_monitored: the path or a directory above it is in dir_hash.     *)
KeyBeingMonitored(c, p) == \E d \in WatchedDirs(c) : IsBelow(d, p)

(* A notification request the client knows of is at or above the path.       *)
Covered(c, p) == \E d \in monitored[c] : IsBelow(d, p)

IsCached(c, k) == cache[c][k] # NotCached

(* The entries clear_dir_cache_foreach picks: those at or below dir.          *)
CachedAtDirOnly(dir) == {k \in Keys : k = dir}
KeysBelow(dir) == {k \in Keys : IsBelow(dir, k)}

(* Forget the entries of the keys in K.                                      *)
Evict(c, K) ==
    cache' = [cache EXCEPT ![c] =
                 [k \in Keys |-> IF k \in K THEN NotCached ELSE @[k]]]

(* gconf_client_cache for entries just read from the daemon.                 *)
CacheCurrent(c, K) ==
    cache' = [cache EXCEPT ![c] =
                 [k \in Keys |-> IF k \in K THEN Query(k) ELSE @[k]]]

(* History: keys at or below a section listed for c whose value a write to   *)
(* the values st changes; not those of a directory that is only being added. *)
ChangedFor(c, st) ==
    {k \in Keys : /\ EntryIn(st, k).value # Query(k).value
                  /\ SectionsFor(c, k) # {}
                  /\ ~ (op[c].pc = "preload" /\ IsBelow(op[c].dir, k))}

RecordChange ==
    unread' = [c \in Clients |-> unread[c] \cup ChangedFor(c, store')]

-----------------------------------------------------------------------------
(* Writes: by another program, and by the client, which drops the key from   *)
(* its cache when the call succeeds.  A call may be carried out and still    *)
(* end in an error (the reply times out; unset's sync fails): the cache is   *)
(* left alone.                                                               *)

OtherWrites ==
    /\ \/ \E k \in Keys, v \in Values : DbSet(k, v)
       \/ \E k \in Keys : DbUnset(k)
       \/ \E top \in Keys \cup Dirs : DbRecursiveUnset(top)
    /\ RecordChange
    /\ UNCHANGED <<addCount, monitored, cache, pending, flushing, op>>

(* The evictions of a write by c: those of K, none after an error.           *)
OwnWrite(c, K) ==
    /\ op[c] = Idle
    /\ \E ok \in BOOLEAN : Evict(c, IF ok THEN K ELSE {})
    /\ RecordChange
    /\ UNCHANGED <<addCount, monitored, pending, flushing, op>>

Set(c, k, v) == DbSet(k, v) /\ OwnWrite(c, {k})

Unset(c, k) == DbUnset(k) /\ OwnWrite(c, {k})

(* remove_key_from_cache_recursively passes gconf_key_is_below its arguments *)
(* in the other order: only keys strictly above top stay in the cache.       *)
RecursiveUnset(c, top) ==
    /\ DbRecursiveUnset(top)
    /\ OwnWrite(c, {k \in Keys : ~ IsBelow(k, top) \/ k = top})

-----------------------------------------------------------------------------
(* Reads.  They change the cache only below a watched directory.             *)

(* The application is handed the current values of the keys in K.            *)
Learn(c, K) == unread' = [unread EXCEPT ![c] = @ \ K]

(* get: from the cache, else from the daemon.                                *)
Get(c, k) ==
    /\ op[c] = Idle
    /\ IF IsCached(c, k)
         THEN /\ Learn(c, {j \in {k} : cache[c][j].value = Query(j).value})
              /\ UNCHANGED cache
         ELSE /\ Learn(c, {k})
              /\ IF KeyBeingMonitored(c, k)
                   THEN CacheCurrent(c, {k})
                   ELSE UNCHANGED cache
    /\ UNCHANGED <<dbvars, addCount, monitored, pending, flushing, op>>

AllEntries(c, dir) ==
    /\ op[c] = Idle
    /\ Learn(c, Listed(dir))
    /\ IF KeyBeingMonitored(c, dir)
         THEN CacheCurrent(c, Listed(dir))
         ELSE UNCHANGED cache
    /\ UNCHANGED <<dbvars, addCount, monitored, pending, flushing, op>>

ClearCache(c) ==
    /\ op[c] = Idle
    /\ Evict(c, Keys)
    /\ UNCHANGED <<dbvars, addCount, monitored, pending, flushing, op, unread>>

(* The directories a preload of dir reads, one call each.                    *)
PreloadTodo(dir, preload) ==
    CASE preload = "none"      -> {}
      [] preload = "onelevel"  -> {dir}
      [] preload = "recursive" -> {d \in Dirs : IsBelow(dir, d)}

(* The public gconf_client_preload: for directories being watched, which a   *)
(* debug build enforces.                                                     *)
Preload(c, dir, preload) ==
    /\ op[c] = Idle
    /\ PreloadWatched
    /\ preload # "none"
    /\ KeyBeingMonitored(c, dir)
    /\ op' = [op EXCEPT ![c] = [Idle EXCEPT !.pc = "preload",
                                            !.todo = PreloadTodo(dir, preload)]]
    /\ UNCHANGED <<dbvars, addCount, monitored, cache, pending, flushing, unread>>

(* cache_pairs_in_dir for one directory of the preload.                      *)
PreloadDir(c, dir) ==
    /\ op[c].pc = "preload"
    /\ dir \in op[c].todo
    /\ CacheCurrent(c, Listed(dir))
    /\ LET rest == op[c].todo \ {dir}
       IN  op' = [op EXCEPT ![c] =
                     IF rest = {} THEN Idle ELSE [op[c] EXCEPT !.todo = rest]]
    /\ UNCHANGED <<dbvars, addCount, monitored, pending, flushing, unread>>

-----------------------------------------------------------------------------
(* Adding a directory.                                                       *)

AddDirAgain(c, dir) ==
    /\ op[c] = Idle
    /\ addCount[c][dir] \in 1..(MaxAdds - 1)
    /\ addCount' = [addCount EXCEPT ![c][dir] = @ + 1]
    /\ UNCHANGED <<dbvars, monitored, cache, pending, flushing, op, unread>>

(* What the application is assumed to respect when it adds a directory.      *)
MayAdd(c, dir, preload) ==
    /\ Overlaps \/ \A d \in WatchedDirs(c) : Disjoint(d, dir)
    /\ EarlyReAdd \/ \A i \in DOMAIN inbox[c] : inbox[c][i].section # dir
    /\ PreloadWatched \/ preload = "none" \/ ~ KeyBeingMonitored(c, dir)

AddDir(c, dir, preload) ==
    /\ op[c] = Idle
    /\ addCount[c][dir] = 0
    /\ MayAdd(c, dir, preload)
    /\ op' = [op EXCEPT ![c] = [pc |-> "overlaps", then |-> "add", dir |-> dir,
                                preload |-> preload, todo |-> {}]]
    /\ UNCHANGED <<dbvars, addCount, monitored, cache, pending, flushing, unread>>

(* foreach_setup_overlap meets a directory below op.dir that has a request:   *)
(* the request is withdrawn.  The connection is forgotten before the call.    *)
DropCovered(c, d) ==
    /\ op[c].pc = "overlaps"
    /\ d \in monitored[c]
    /\ IsBelow(op[c].dir, d)
    /\ DbRemoveNotify(c, d)
    /\ monitored' = [monitored EXCEPT ![c] = @ \ {d}]
    /\ UNCHANGED <<addCount, cache, pending, flushing, op, unread>>

(* No request below op.dir is left.                                          *)
OverlapsDone(c) ==
    /\ op[c].pc = "overlaps"
    /\ ~ \E d \in monitored[c] : IsBelow(op[c].dir, d)

(* What follows once op.dir needs no request or has got it: add_dir inserts   *)
(* the directory and preloads it, remove_dir goes on with the next directory. *)
Continue(c) ==
    LET o    == op[c]
        todo == PreloadTodo(o.dir, o.preload)
    IN  IF o.then = "add"
          THEN /\ addCount' = [addCount EXCEPT ![c][o.dir] = 1]
               /\ op' = [op EXCEPT ![c] =
                            IF todo = {} THEN Idle
                            ELSE [Idle EXCEPT !.pc = "preload", !.dir = o.dir,
                                              !.todo = todo]]
          ELSE /\ op' = [op EXCEPT ![c] =
                            [Idle EXCEPT !.pc = "readd", !.todo = o.todo]]
               /\ UNCHANGED addCount

(* A directory that includes op.dir has a request already.                   *)
UseCovering(c) ==
    /\ OverlapsDone(c)
    /\ Covered(c, op[c].dir)
    /\ Continue(c)
    /\ UNCHANGED <<dbvars, monitored, cache, pending, flushing, unread>>

AddNotify(c) ==
    /\ OverlapsDone(c)
    /\ ~ Covered(c, op[c].dir)
    /\ DbAddNotify(c, op[c].dir)
    /\ monitored' = [monitored EXCEPT ![c] = @ \cup {op[c].dir}]
    /\ Continue(c)
    /\ UNCHANGED <<cache, pending, flushing, unread>>

(* The call fails: add_dir returns without the directory, and the re-add loop *)
(* does nothing for the directories it has not visited.                       *)
AddNotifyFails(c) ==
    /\ CallsFail
    /\ OverlapsDone(c)
    /\ ~ Covered(c, op[c].dir)
    /\ op' = [op EXCEPT ![c] = Idle]
    /\ UNCHANGED <<dbvars, addCount, monitored, cache, pending, flushing, unread>>

-----------------------------------------------------------------------------
(* Removing a directory.                                                     *)

RemoveDirOnce(c, dir) ==
    /\ op[c] = Idle
    /\ addCount[c][dir] > 1
    /\ addCount' = [addCount EXCEPT ![c][dir] = @ - 1]
    /\ UNCHANGED <<dbvars, monitored, cache, pending, flushing, op, unread>>

(* gconf_client_real_remove_dir up to its re-add loop: the directory leaves   *)
(* dir_hash, its request is withdrawn, and the cache below it is cleared.     *)
RemoveDir(c, dir) ==
    /\ op[c] = Idle
    /\ addCount[c][dir] = 1
    /\ addCount' = [addCount EXCEPT ![c][dir] = 0]
    /\ IF dir \in monitored[c] THEN DbRemoveNotify(c, dir) ELSE UNCHANGED dbvars
    /\ monitored' = [monitored EXCEPT ![c] = @ \ {dir}]
    /\ Evict(c, KeysBelow(dir))
    /\ op' = [op EXCEPT ![c] =
                 [Idle EXCEPT !.pc = "readd", !.todo = WatchedDirs(c) \ {dir}]]
    /\ LET watched == {k \in Keys :
                         \E d \in WatchedDirs(c) \ {dir} : IsBelow(d, k)}
       IN  unread' = [unread EXCEPT ![c] = @ \cap watched]
    /\ UNCHANGED <<pending, flushing>>

(* foreach_add_notifies visits a directory without a request.                *)
ReAddNext(c, dir) ==
    /\ op[c].pc = "readd"
    /\ dir \in op[c].todo \ monitored[c]
    /\ op' = [op EXCEPT ![c] = [pc |-> "overlaps", then |-> "readd", dir |-> dir,
                                preload |-> "none", todo |-> @.todo \ {dir}]]
    /\ UNCHANGED <<dbvars, addCount, monitored, cache, pending, flushing, unread>>

(* Every directory that is left has its request.                             *)
ReAddSkipped(c) ==
    /\ op[c].pc = "readd"
    /\ op' = [op EXCEPT ![c] = Idle]
    /\ UNCHANGED <<dbvars, addCount, monitored, cache, pending, flushing, unread>>
ReAddDone(c) ==
    /\ op[c].pc = "readd"
    /\ op[c].todo \subseteq monitored[c]
    /\ op' = [op EXCEPT ![c] = Idle]
    /\ UNCHANGED <<dbvars, addCount, monitored, cache, pending, flushing, unread>>

-----------------------------------------------------------------------------
(* Notification of the application.                                          *)

(* gconf_client_cache: does the entry differ from what the cache holds?       *)
UpdatesCached(c, k, new) == IsCached(c, k) /\ cache[c][k] # new
Changes(c, k, new) == cache[c][k] # new

(* handle_notify and notify_from_server_callback.  The engine has forgotten   *)
(* the section: the call is ignored.  Otherwise it makes a fresh entry of the *)
(* key and the value alone, and the key is queued for the idle handler if     *)
(* that entry differs from the cached one, whose schema name is kept.         *)
Dispatch(c) ==
    LET m   == Head(inbox[c])
        new == Announced(m.entry.value, FALSE)
        kept == IF IsCached(c, m.key) THEN cache[c][m.key].has_schema ELSE FALSE
    IN  /\ op[c] = Idle
        /\ flushing[c] = {}
        /\ Take(c)
        /\ IF m.section \in monitored[c] /\ Changes(c, m.key, new)
             THEN /\ cache' = [cache EXCEPT ![c][m.key] =
                                  [new EXCEPT !.has_schema = kept]]
                  /\ pending' = [pending EXCEPT ![c] = @ \cup {m.key}]
             ELSE UNCHANGED <<cache, pending>>
        /\ UNCHANGED <<addCount, monitored, flushing, op, unread>>

(* The listeners of k are called with an entry.                              *)
Announce(c, k, entry) ==
    LET told == IF entry.value = Query(k).value THEN {k} ELSE {}
    IN  unread' = [unread EXCEPT ![c] = @ \ told]

(* gconf_client_flush_notifies adopts the list ...                           *)
FlushLosesList(c) ==
    /\ op[c] = Idle
    /\ flushing[c] = {} /\ pending[c] # {}
    /\ pending' = [pending EXCEPT ![c] = {}]
    /\ UNCHANGED <<dbvars, addCount, monitored, cache, flushing, op, unread>>

FlushBegin(c) ==
    /\ op[c] = Idle
    /\ flushing[c] = {} /\ pending[c] # {}
    /\ flushing' = [flushing EXCEPT ![c] = pending[c]]
    /\ pending' = [pending EXCEPT ![c] = {}]
    /\ UNCHANGED <<dbvars, addCount, monitored, cache, op, unread>>

(* ... and announces its keys, each once, with the cached entry or, for a     *)
(* watched key that has been dropped from the cache, a fresh one.             *)
FlushKey(c, k) ==
    /\ op[c] = Idle
    /\ k \in flushing[c]
    /\ flushing' = [flushing EXCEPT ![c] = @ \ {k}]
    /\ \/ /\ IsCached(c, k)
          /\ Announce(c, k, cache[c][k])
          /\ UNCHANGED cache
       \/ /\ ~ IsCached(c, k) /\ KeyBeingMonitored(c, k)
          /\ Announce(c, k, Query(k))
          /\ CacheCurrent(c, {k})
       \/ /\ ~ IsCached(c, k) /\ ~ KeyBeingMonitored(c, k)
          /\ UNCHANGED <<cache, unread>>
    /\ UNCHANGED <<dbvars, addCount, monitored, pending, op>>

(* gconf_client_notify: tell the listeners of k what a get returns.           *)
Notify(c, k) ==
    /\ op[c] = Idle
    /\ Announce(c, k, IF IsCached(c, k) THEN cache[c][k] ELSE Query(k))
    /\ IF ~ IsCached(c, k) /\ KeyBeingMonitored(c, k)
         THEN CacheCurrent(c, {k})
         ELSE UNCHANGED cache
    /\ UNCHANGED <<dbvars, addCount, monitored, pending, flushing, op>>

-----------------------------------------------------------------------------

ApplicationStep(c) ==
    \/ \E k \in Keys, v \in Values : Set(c, k, v)
    \/ \E k \in Keys : Unset(c, k)
    \/ \E top \in Keys \cup Dirs : RecursiveUnset(c, top)
    \/ \E k \in Keys : Get(c, k) \/ Notify(c, k)
    \/ \E d \in Dirs : AllEntries(c, d)
    \/ ClearCache(c)
    \/ \E d \in Dirs, p \in Preloads : Preload(c, d, p) \/ AddDir(c, d, p)
    \/ \E d \in Dirs : AddDirAgain(c, d) \/ RemoveDirOnce(c, d) \/ RemoveDir(c, d)

CallStep(c) ==
    \/ \E d \in Dirs : PreloadDir(c, d) \/ DropCovered(c, d) \/ ReAddNext(c, d)
    \/ UseCovering(c)
    \/ AddNotify(c)
    \/ AddNotifyFails(c)
    \/ ReAddDone(c)

FlushStep(c) == FlushBegin(c) \/ \E k \in Keys : FlushKey(c, k)

Next ==
    \/ OtherWrites
    \/ \E c \in Clients :
          ApplicationStep(c) \/ CallStep(c) \/ Dispatch(c) \/ FlushStep(c)

Spec == Init /\ [][Next]_vars

(* A library call returns; the application comes back to its main loop again  *)
(* and again, and the main loop gets round to the D-Bus connection and, when  *)
(* that is empty, to the idle handler.                                        *)
Fairness ==
    \A c \in Clients :
        /\ WF_vars(CallStep(c))
        /\ SF_vars(Dispatch(c))
        /\ SF_vars(FlushStep(c))

FairSpec == Spec /\ Fairness

-----------------------------------------------------------------------------
(* Properties.                                                               *)

(* setup_overlaps: a client never holds two requests of which one includes    *)
(* the other, at any stage of any call ("well there is only one anyway", and  *)
(* the assertion on lower_dir).  Otherwise one change would be dispatched     *)
(* twice.                                                                     *)
NoRedundantRequests ==
    \A c \in Clients : \A d, e \in monitored[c] : IsBelow(d, e) => d = e

(* The daemon lists the client for exactly the directories whose notify_id    *)
(* the client holds: no request is leaked, none is believed in vain.          *)
RequestsMatchDaemon ==
    \A c \in Clients : \A s \in Dirs :
        c \in notifications[s] <=> s \in monitored[c]

(* Between two calls, each directory the application watches is at or below   *)
(* one the daemon notifies for, through every order of adding and removing    *)
(* directories that include each other (while no call fails).                 *)
WatchedAreCovered ==
    \A c \in Clients : op[c] = Idle =>
        \A d \in WatchedDirs(c) : Covered(c, d)

(* Only what is watched is cached: an entry below no watched directory would  *)
(* never be refreshed.                                                        *)
CachedAreWatched ==
    \A c \in Clients : \A k \in Keys :
        IsCached(c, k) => KeyBeingMonitored(c, k)

(* The queued Notify calls for k that will not be ignored, by position.       *)
Deliverable(c, k) ==
    {i \in DOMAIN inbox[c] :
        inbox[c][i].key = k /\ inbox[c][i].section \in monitored[c]}

(* The cache is current or about to be: of the Notify calls queued for a key  *)
(* the last one carries the value the database holds, and where none is       *)
(* queued the cached entry does.                                              *)
CacheCoherent ==
    \A c \in Clients : \A k \in Keys :
        /\ \A i \in Deliverable(c, k) :
              (\A j \in Deliverable(c, k) : j <= i)
                => inbox[c][i].entry.value = Query(k).value
        /\ (IsCached(c, k) /\ Deliverable(c, k) = {})
              => cache[c][k].value = Query(k).value

(* Nothing is under way for the client: no call, no Notify, no announcement.  *)
Quiet(c) ==
    /\ op[c] = Idle /\ inbox[c] = <<>>
    /\ pending[c] = {} /\ flushing[c] = {}

(* The application is not left with an old value: with nothing under way,     *)
(* every key that has changed while watched has been announced, or else the   *)
(* application itself has read its present value.                             *)
NothingUnread == \A c \in Clients : Quiet(c) => unread[c] = {}

(* A change of a watched key reaches the application: it is announced, read,  *)
(* or the directory is no longer watched.                                     *)
ChangesReachApplication ==
    \A c \in Clients : \A k \in Keys : k \in unread[c] ~> k \notin unread[c]

(* Once writing stops, every client's cache ends up current for good.         *)
CacheConverges ==
    <>[](\A c \in Clients : \A k \in Keys :
            IsCached(c, k) => cache[c][k].value = Query(k).value)
=============================================================================
