---------------------------- MODULE GConfChangeSet ----------------------------
(***************************************************************************)
(* GConfChangeSet: change sets (gconf-changeset.c, and the functions of        *)
(* gconf-client.c that do the same through the cache of a GConfClient).        *)
(*                                                                         *)
(* A program collects changes and commits them: one blocking call per key, in   *)
(* the order of a hash table, up to the first that fails.  It may have what has  *)
(* been committed removed from the set, change the set and commit again.        *)
(* Before that it may ask for the set that would revert it, or one that         *)
(* restores some keys: one read per key.  Other programs write between any two   *)
(* calls; their changes reach the cache only when the program gets back to its   *)
(* main loop.                                                                *)
(***************************************************************************)
EXTENDS Naturals, Sequences, FiniteSets

CONSTANTS
    Keys, Values,
    NoValue,        \* no value; as a change: unset
    NotCached,      \* a key the client has no entry for
    Default,        \* per key: the default in its schema
    Cached,         \* the keys in directories that a GConfClient of the program watches
    MaxNotes,       \* bound: notifications on their way
    MaxForeign,     \* bound: writes of other programs
    MaxFailures     \* bound: calls that fail

ASSUME ChangeSetAssumption ==
    /\ NoValue \notin Values
    /\ Default \in [Keys -> Values \cup {NoValue}]
    /\ Cached \subseteq Keys
    /\ MaxNotes \in Nat /\ MaxForeign \in Nat /\ MaxFailures \in Nat

VARIABLES
    store,          \* what is set, at gconfd
    notes,          \* Notify messages on their way to the program
    cache,          \* GConfClient.cache_hash
    sets,           \* the changes of the program, and those that would revert them
    work,           \* the function that runs
    foreign, failures,
    owed,           \* history: changes asked for and not yet acknowledged
    before          \* history: what the set that reverts should bring back

vars == <<store, notes, cache, sets, work, foreign, failures, owed, before>>

-----------------------------------------------------------------------------

Changes == Values \cup {NoValue}
ChangeSets == UNION {[ks -> Changes] : ks \in SUBSET Keys}
Names == {"changes", "revert"}
Empty == [k \in {} |-> NoValue]

With(f, k, x) == [j \in DOMAIN f \cup {k} |-> IF j = k THEN x ELSE f[j]]
Minus(f, ks) == [j \in DOMAIN f \ ks |-> f[j]]

(* GConfEntry, as far as the cache tells: the value, and whether it is a default.  *)
CacheEntries == [value : Changes, default : BOOLEAN]

(* gconf_change_set_foreach() and what it is called for.                       *)
Works == [kind : {"none", "commit", "reverse", "current"}, set : Names, left : SUBSET Keys,
          done : SUBSET Keys, failed : BOOLEAN, remove : BOOLEAN, apart : SUBSET Keys]
Idle == [kind |-> "none", set |-> "changes", left |-> {}, done |-> {}, failed |-> FALSE,
         remove |-> FALSE, apart |-> {}]
Committing == work.kind = "commit"
Reading == work.kind \in {"reverse", "current"}

TypeOK ==
    /\ store \in [Keys -> Changes]
    /\ notes \in Seq([key : Keys, value : Changes])
    /\ cache \in [Keys -> CacheEntries \cup {NotCached}]
    /\ sets \in [Names -> ChangeSets]
    /\ work \in Works
    /\ foreign \in 0..MaxForeign /\ failures \in 0..MaxFailures
    /\ owed \in ChangeSets
    /\ DOMAIN before \subseteq Keys
    /\ \A k \in DOMAIN before : before[k] \in [value : Changes, plain : BOOLEAN]

Init ==
    /\ store = [k \in Keys |-> NoValue]
    /\ notes = <<>>
    /\ cache = [k \in Keys |-> NotCached]
    /\ sets = [n \in Names |-> Empty]
    /\ work = Idle
    /\ foreign = 0 /\ failures = 0
    /\ owed = Empty
    /\ before = Empty

-----------------------------------------------------------------------------
(* The engine and the client                                                  *)

Effective(k) == IF store[k] = NoValue THEN Default[k] ELSE store[k]

Write(k, c) ==
    /\ store' = [store EXCEPT ![k] = c]
    /\ notes' = IF k \in Cached
                THEN Append(notes, [key |-> k, value |-> IF c = NoValue THEN Default[k] ELSE c])
                ELSE notes

(* gconf_engine_get_entry(), and gconf_client_cache().                           *)
Read(k) ==
    IF cache[k] # NotCached THEN cache[k]
    ELSE [value |-> Effective(k), default |-> store[k] = NoValue]

Caches(k) == cache' = IF k \in Cached THEN [cache EXCEPT ![k] = Read(k)] ELSE cache

(* gconf_client_get_without_default()                                         *)
WithoutDefault(e) == IF e.default THEN NoValue ELSE e.value

(* notify_from_server_callback(): the entry is made from key and value alone.      *)
Notify ==
    /\ work = Idle /\ notes # <<>>
    /\ cache' = [cache EXCEPT ![Head(notes).key] = [value |-> Head(notes).value,
                                                   default |-> FALSE]]
    /\ notes' = Tail(notes)
    /\ UNCHANGED <<store, sets, work, foreign, failures, owed, before>>

(* Another program sets or unsets a key.                                       *)
OtherWrites(k, c) ==
    /\ foreign < MaxForeign /\ Len(notes) < MaxNotes
    /\ foreign' = foreign + 1
    /\ Write(k, c)
    /\ before' = Minus(before, {k})
    /\ work' = IF Committing THEN [work EXCEPT !.apart = @ \cup {k}] ELSE work
    /\ UNCHANGED <<cache, sets, failures, owed>>

-----------------------------------------------------------------------------
(* The set                                                                   *)

(* gconf_change_set_set() and gconf_change_set_unset().                           *)
Change(k, c) ==
    /\ work = Idle
    /\ sets' = [sets EXCEPT !["changes"] = With(@, k, c)]
    /\ owed' = With(owed, k, c)
    /\ before' = IF k \in DOMAIN sets["revert"] THEN before ELSE Minus(before, {k})
    /\ UNCHANGED <<store, notes, cache, work, foreign, failures>>

(* gconf_change_set_remove() and gconf_change_set_clear().                         *)
Drop(ks) ==
    /\ work = Idle
    /\ sets' = [sets EXCEPT !["changes"] = Minus(@, ks)]
    /\ owed' = Minus(owed, ks)
    /\ UNCHANGED <<store, notes, cache, work, foreign, failures, before>>

-----------------------------------------------------------------------------
(* gconf_engine_commit_change_set(), gconf_client_commit_change_set()             *)

Commit(name, remove) ==
    /\ work = Idle
    /\ DOMAIN sets[name] # {}
    /\ Len(notes) + Cardinality(DOMAIN sets[name]) + MaxForeign - foreign <= MaxNotes
    /\ work' = [Idle EXCEPT !.kind = "commit", !.set = name,
                             !.left = DOMAIN sets[name], !.remove = remove]
    /\ UNCHANGED <<store, notes, cache, sets, foreign, failures, owed, before>>

Acknowledge(k) == IF work.set = "changes" THEN Minus(owed, {k}) ELSE owed

(* One key of commit_foreach(); a client drops its cache entry once that is done.   *)
CommitKey(k) ==
    /\ Committing /\ ~ work.failed
    /\ k \in work.left
    /\ Write(k, sets[work.set][k])
    /\ cache' = [cache EXCEPT ![k] = NotCached]
    /\ work' = [work EXCEPT !.left = @ \ {k}, !.apart = @ \ {k},
                            !.done = IF work.remove THEN @ \cup {k} ELSE @]
    /\ owed' = Acknowledge(k)
    /\ UNCHANGED <<sets, foreign, failures, before>>

CommitKeyFailsUnseen(k) ==
    /\ Committing
    /\ k \in work.left
    /\ failures < MaxFailures
    /\ failures' = failures + 1
    /\ Write(k, sets[work.set][k]) \/ UNCHANGED <<store, notes>>
    /\ work' = [work EXCEPT !.left = @ \ {k}]
    /\ UNCHANGED <<cache, sets, foreign, owed, before>>

(* The call fails; when only its answer is lost it has had its effect.            *)
CommitKeyFails(k) ==
    /\ Committing /\ ~ work.failed
    /\ k \in work.left
    /\ failures < MaxFailures
    /\ failures' = failures + 1
    /\ Write(k, sets[work.set][k]) \/ UNCHANGED <<store, notes>>
    /\ work' = [work EXCEPT !.left = @ \ {k}, !.failed = TRUE]
    /\ UNCHANGED <<cache, sets, foreign, owed, before>>

RemoveVisited == DOMAIN sets[work.set] \ work.left

(* remove_list: what has been committed successfully.                            *)
RemoveList == work.done

Committed ==
    /\ Committing /\ (work.left = {} \/ work.failed)
    /\ sets' = IF work.remove THEN [sets EXCEPT ![work.set] = Minus(@, RemoveList)] ELSE sets
    /\ work' = Idle
    /\ before' = IF work.set = "revert" /\ work.remove THEN Empty ELSE before
    /\ UNCHANGED <<store, notes, cache, foreign, failures, owed>>

-----------------------------------------------------------------------------
(* gconf_engine_reverse_change_set(), gconf_engine_change_set_from_current(), and   *)
(* those of the client                                                       *)

Reverse ==
    /\ work = Idle
    /\ DOMAIN sets["changes"] # {}
    /\ sets' = [sets EXCEPT !["revert"] = Empty]
    /\ work' = [Idle EXCEPT !.kind = "reverse", !.left = DOMAIN sets["changes"]]
    /\ before' = Empty
    /\ UNCHANGED <<store, notes, cache, foreign, failures, owed>>

FromCurrent(ks) ==
    /\ work = Idle /\ ks # {}
    /\ sets' = [sets EXCEPT !["revert"] = Empty]
    /\ work' = [Idle EXCEPT !.kind = "current", !.left = ks]
    /\ before' = Empty
    /\ UNCHANGED <<store, notes, cache, foreign, failures, owed>>

SkipWhatIsUnset(kind, k, old) == kind = "reverse" /\ old = NoValue

(* revert_foreach() leaves out a key that has no value and will be unset.           *)
NoEffect(kind, k, old) == kind = "reverse" /\ old = NoValue /\ sets["changes"][k] = NoValue

Note(k, old) ==
    sets' = [sets EXCEPT !["revert"] = IF NoEffect(work.kind, k, old) THEN @ ELSE With(@, k, old)]

(* The history tells whether the value read is the one that is set.               *)
ReadKey(k) ==
    /\ Reading /\ k \in work.left
    /\ Note(k, WithoutDefault(Read(k)))
    /\ Caches(k)
    /\ before' = IF \E i \in DOMAIN notes : notes[i].key = k THEN before
                 ELSE With(before, k, [value |-> store[k],
                                       plain |-> WithoutDefault(Read(k)) = store[k]])
    /\ work' = IF work.left = {k} THEN Idle ELSE [work EXCEPT !.left = @ \ {k}]
    /\ UNCHANGED <<store, notes, foreign, failures, owed>>

(* A read that fails counts as no value ("FIXME" there).                          *)
ReadKeyFails(k) ==
    /\ Reading /\ k \in work.left
    /\ cache[k] = NotCached
    /\ failures < MaxFailures
    /\ failures' = failures + 1
    /\ Note(k, NoValue)
    /\ work' = IF work.left = {k} THEN Idle ELSE [work EXCEPT !.left = @ \ {k}]
    /\ UNCHANGED <<store, notes, cache, foreign, owed, before>>

(* The program reads a key.                                                   *)
Get(k) ==
    /\ work = Idle
    /\ Caches(k)
    /\ UNCHANGED <<store, notes, sets, work, foreign, failures, owed, before>>

-----------------------------------------------------------------------------

Next ==
    \/ Notify
    \/ \E k \in Keys :
          \/ \E c \in Changes : OtherWrites(k, c) \/ Change(k, c)
          \/ CommitKey(k) \/ CommitKeyFails(k)
          \/ ReadKey(k) \/ ReadKeyFails(k)
          \/ Get(k)
    \/ \E ks \in SUBSET Keys : Drop(ks) \/ FromCurrent(ks)
    \/ \E name \in Names, remove \in BOOLEAN : Commit(name, remove)
    \/ Committed
    \/ Reverse

Spec == Init /\ [][Next]_vars

-----------------------------------------------------------------------------
(* Properties                                                                *)

(* A change that has been asked for is in the set until it is written: a commit     *)
(* that fails halfway, and one that is repeated, lose none.                      *)
NothingLost ==
    /\ TypeOK
    /\ work = Idle => \A k \in DOMAIN owed : k \in DOMAIN sets["changes"]
                                            /\ sets["changes"][k] = owed[k]

(* A commit that reports success has written every key of the set, but for those    *)
(* that other programs have written since, and leaves nothing behind if it was to  *)
(* remove what it has committed.                                              *)
SuccessIsWhole ==
    [][Committed /\ ~ work.failed =>
        /\ \A k \in DOMAIN sets[work.set] \ work.apart : store[k] = sets[work.set][k]
        /\ work.remove => sets'[work.set] = Empty]_vars

(* Committing the set that reverts brings back what was set when it was asked for,   *)
(* however far the commits in between came, where the reads told what was set and   *)
(* nobody else has written.                                                   *)
Restores(k) == store[k] = before[k].value
Reverted == Committed /\ work.set = "revert" /\ ~ work.failed
ReverseRestores == [][Reverted => \A k \in DOMAIN before : before[k].plain => Restores(k)]_vars

(* "Create a change set that would revert the given change set for the given        *)
(* GConfEngine" (gconf-changeset.h): when no change is on its way to the program,    *)
(* the reads do tell what is set.                                             *)
ReverseReverts == [][Reverted => \A k \in DOMAIN before : Restores(k)]_vars

=============================================================================
