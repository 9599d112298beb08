------------------------------ MODULE GConfSync ------------------------------
(***************************************************************************)
(* GConfSync: the databases of gconfd (gconf-database.c, gconfd.c).           *)
(* A database is a stack of sources.  Its requests read and change the        *)
(* sources, announce what has changed to the programs that listen, also those *)
(* that listen to another database with the same source, and schedule a sync:  *)
(* a timer of a minute leads to an idle handler, which saves the sources.     *)
(*                                                                         *)
(* gconfd serves one request at a time: a request is one step, and its reply    *)
(* and announcements leave before anything else happens.  Timers and idle      *)
(* handlers run between requests, and time passes.  Failed assertions end the  *)
(* process.                                                                  *)
(***************************************************************************)
EXTENDS GConfSources

CONSTANTS
    Databases,      \* the lists of addresses a database is asked for with
    Default,        \* that of the path file
    Addresses,      \* per database, the sources it names, in order
    MayNotLoad,     \* sources that may be missing when a database is opened
    BadCalls,       \* the sets of backend calls that may fail in a step
    Settings,       \* the keys, with values, that programs set
    Cleared,        \* the directories that they unset recursively
    Namings,        \* the keys, with names of schemas, that they give them
    InitialContents,\* what the sources hold when gconfd starts
    Minute          \* bound: the steps of time the timer waits, and one

ASSUME DatabasesAssumption ==
    /\ Default \in Databases
    /\ Addresses \in [Databases -> Stacks]
    /\ BadCalls \subseteq SUBSET (Sources \X Kinds)
    /\ Settings \subseteq Keys \X AnyValue
    /\ Cleared \subseteq Dirs
    /\ Namings \subseteq Keys \X (Keys \cup {None})
    /\ InitialContents \subseteq Contents
    /\ Minute \in Nat \ {0}

VARIABLES
    contents,       \* what the resources hold, in the memory of gconfd
    gconfd,         \* the process: running, stopped, or ended by an assertion
    dbs,            \* db_list, the last opened first
    stack,          \* GConfDatabase.sources
    timer,          \* GConfDatabase.sync_timeout: 0, or the time left and one
    idle,           \* GConfDatabase.sync_idle
    unsaved,        \* resources with changes that are not saved
    failed,         \* history: resources whose sync has failed since they changed
    done            \* the request just served, its reply and announcements

syncing == <<timer, idle>>
vars == <<contents, gconfd, dbs, stack, timer, idle, unsaved, failed, done>>

Announcements == [db : Databases, key : Keys, value : AnyValue \cup {None},
                  isDefault : BOOLEAN, writable : BOOLEAN]

Nothing == [op |-> "none", ok |-> TRUE, clean |-> TRUE, db |-> Default, key |-> <<>>,
            value |-> None, told |-> {}]

Open == {dbs[i] : i \in 1..Len(dbs)}

TypeOK ==
    /\ contents \in Contents
    /\ gconfd \in {"running", "stopped", "aborted"}
    /\ dbs \in Seq(Databases)
    /\ stack \in [Databases -> Stacks]
    /\ timer \in [Databases -> 0..Minute]
    /\ idle \in [Databases -> BOOLEAN]
    /\ unsaved \subseteq Resources
    /\ failed \subseteq Resources
    /\ done.told \subseteq Announcements

(* The sources of a list of addresses that can be loaded                      *)
(* (gconf_sources_new_from_addresses()).                                     *)
Loaded(d, missing) == SelectSeq(Addresses[d], LAMBDA s : s \notin missing)

(* A part of a list of sources is a list of sources.                          *)
ASSUME LoadedAssumption ==
    \A missing \in SUBSET MayNotLoad : Loaded(Default, missing) \in Stacks

(* gconf_server_load_sources(): the default database has the sources of the     *)
(* path file that load; when there are some and none does, an assertion fails. *)
Init ==
    /\ contents \in InitialContents
    /\ \E missing \in SUBSET MayNotLoad :
          /\ stack = [d \in Databases |-> IF d = Default THEN Loaded(d, missing) ELSE <<>>]
          /\ gconfd = IF Loaded(Default, missing) = <<>> /\ Addresses[Default] # <<>>
                      THEN "aborted" ELSE "running"
    /\ dbs = <<Default>>
    /\ timer = [d \in Databases |-> 0]
    /\ idle = [d \in Databases |-> FALSE]
    /\ unsaved = {}
    /\ failed = {}
    /\ done = Nothing

-----------------------------------------------------------------------------
(* Scheduling                                                                *)

(* gconf_database_schedule_sync(): within a minute, from now.                  *)
Schedule(d) ==
    /\ timer' = IF idle[d] THEN timer ELSE [timer EXCEPT ![d] = Minute]
    /\ UNCHANGED idle

(* gconf_database_sync_nowish(): when the main loop is idle.                   *)
SyncNowish(d) ==
    /\ timer' = [timer EXCEPT ![d] = 0]
    /\ idle' = [idle EXCEPT ![d] = TRUE]

Running == gconfd = "running"
Free == Running /\ done = Nothing

(* The reply and the announcements of a request leave.                        *)
Sent ==
    /\ Running /\ done # Nothing
    /\ done' = Nothing
    /\ UNCHANGED <<contents, gconfd, dbs, stack, timer, idle, unsaved, failed>>

Time ==
    /\ Free
    /\ \E d \in Databases : timer[d] > 1
    /\ timer' = [d \in Databases |-> IF timer[d] > 1 THEN timer[d] - 1 ELSE timer[d]]
    /\ UNCHANGED <<contents, gconfd, dbs, stack, idle, unsaved, failed, done>>

TimerForgets(d) ==
    /\ Free /\ timer[d] = 1
    /\ timer' = [timer EXCEPT ![d] = 0]
    /\ UNCHANGED <<contents, gconfd, dbs, stack, idle, unsaved, failed, done>>

(* gconf_database_sync_timeout()                                             *)
TimerFires(d) ==
    /\ Free /\ timer[d] = 1
    /\ timer' = [timer EXCEPT ![d] = 0]
    /\ idle' = [idle EXCEPT ![d] = TRUE]
    /\ UNCHANGED <<contents, gconfd, dbs, stack, unsaved, failed, done>>

(* gconf_database_really_sync() of these databases: a source that fails is      *)
(* reported in the log and keeps its changes.                                *)
ReallySync(ds, bad) ==
    LET synced == UNION {Synced(stack[d], bad) : d \in ds}
        failing == (UNION {SyncFails(stack[d], bad) : d \in ds}) \ synced
    IN /\ unsaved' = unsaved \ synced
       /\ failed' = (failed \ synced) \cup failing
       /\ timer' = [d \in Databases |-> IF d \in ds THEN 0 ELSE timer[d]]
       /\ idle' = [d \in Databases |-> IF d \in ds THEN FALSE ELSE idle[d]]

(* gconf_database_sync_idle()                                                *)
IdleFires(d, bad) ==
    /\ Free /\ idle[d]
    /\ ReallySync({d}, bad)
    /\ UNCHANGED <<contents, gconfd, dbs, stack, done>>

-----------------------------------------------------------------------------
(* Announcements                                                             *)

(* What a listener of the database is told of a key.                          *)
Told(d, k, r) ==
    [db |-> d, key |-> k, value |-> r.value, isDefault |-> r.isDefault,
     writable |-> r.writable]

AffectedInFront(c, d, k, modified, bad) ==
    {i \in 1..Len(dbs) : dbs[i] # d /\ \E s \in modified :
                             /\ stack[dbs[i]] # <<>>
                             /\ Resource[stack[dbs[i]][1]] = Resource[s]}

(* gconfd_notify_other_listeners(): the other databases that read the key from  *)
(* a modified source are told what they read now, one after the other, until   *)
(* a read fails.                                                             *)
AffectedOthers(c, d, k, modified, bad) ==
    {i \in 1..Len(dbs) : dbs[i] # d /\ \E s \in modified : IsAffected(c, stack[dbs[i]], s, k, bad)}

ToldOthers(c, d, k, modified, bad) ==
    LET is == AffectedOthers(c, d, k, modified, bad)
    IN {Told(dbs[i], k, QueryValue(c, stack[dbs[i]], k, bad)) :
            i \in {x \in is : \A y \in is :
                       y <= x => ~ QueryValue(c, stack[dbs[y]], k, bad).error}}

(* The last request, its reply and its announcements.                         *)
Replies(op, d, k, v, bad, ok, told) ==
    done' = [op |-> op, ok |-> ok, clean |-> bad = {}, db |-> d, key |-> k, value |-> v,
             told |-> told]

Becomes(r) ==
    LET modified == {Resource[s] : s \in r.modified}
    IN /\ contents' = r.contents
       /\ unsaved' = unsaved \cup modified
       /\ failed' = failed \ modified

(* An assertion fails: the process ends with what is in its memory.            *)
Aborts ==
    /\ gconfd' = "aborted"
    /\ UNCHANGED <<contents, dbs, stack, timer, idle, unsaved, failed, done>>

Serves(d) == Free /\ d \in Open

-----------------------------------------------------------------------------
(* Requests                                                                  *)

(* gconf_database_set(): an error must not come with modified sources.         *)
Set(d, k, v, bad) ==
    LET r == SetValue(contents, stack[d], k, v, bad)
    IN /\ Serves(d)
       /\ \/ r.error /\ r.modified # {} /\ Aborts
          \/ /\ r.error /\ r.modified = {}
             /\ Becomes(r)
             /\ Replies("set", d, k, v, bad, FALSE, {})
             /\ UNCHANGED <<gconfd, dbs, stack, timer, idle>>
          \/ /\ ~ r.error
             /\ Becomes(r)
             /\ Schedule(d)
             /\ Replies("set", d, k, v, bad, TRUE,
                    {Told(d, k, [value |-> v, isDefault |-> FALSE, writable |-> TRUE])}
                        \cup ToldOthers(r.contents, d, k, r.modified, bad))
             /\ UNCHANGED <<gconfd, dbs, stack>>

(* gconf_database_unset(), and database_handle_unset(), which asks for a sync:   *)
(* the announced value is the schema's default.                               *)
Unset(d, k, bad) ==
    LET r == UnsetValue(contents, stack[d], k, bad)
        fallback == QueryDefault(r.contents, stack[d], k, bad)
    IN /\ Serves(d)
       /\ \/ r.error /\ r.modified # {} /\ Aborts
          \/ /\ r.error /\ r.modified = {}
             /\ Becomes(r)
             /\ SyncNowish(d)
             /\ Replies("unset", d, k, None, bad, FALSE, {})
             /\ UNCHANGED <<gconfd, dbs, stack>>
          \/ /\ ~ r.error
             /\ Becomes(r)
             /\ SyncNowish(d)
             /\ Replies("unset", d, k, None, bad, ~ fallback.error,
                    {Told(d, k, [value |-> fallback.value, isDefault |-> TRUE,
                                 writable |-> fallback.writable])}
                        \cup ToldOthers(r.contents, d, k, r.modified, bad))
             /\ UNCHANGED <<gconfd, dbs, stack>>

(* gconf_database_recursive_unset(): every key must have been unset somewhere;   *)
(* after an error nothing is announced.                                       *)
UnsetBelow(d, k, names, bad) ==
    LET r == RecursiveUnset(contents, stack[d], k, names, bad)
        ks == Visited(contents, stack[d], k, bad)
        now(x) == QueryValue(r.contents, stack[d], x, bad)
    IN /\ Serves(d)
       /\ \/ (\E x \in ks : UnsetIn(stack[d], x, bad) = {}) /\ Aborts
          \/ /\ \A x \in ks : UnsetIn(stack[d], x, bad) # {}
             /\ Becomes(r)
             /\ SyncNowish(d)
             /\ Replies("unset below", d, k, None, bad,
                    ~ r.error /\ \A x \in ks : ~ now(x).error,
                    IF r.error THEN {}
                    ELSE UNION {{Told(d, x, now(x))}
                                 \cup ToldOthers(r.contents, d, x, UnsetIn(stack[d], x, bad), bad) : x \in ks})
             /\ UNCHANGED <<gconfd, dbs, stack>>

(* gconf_database_set_schema(): nobody is told.                               *)
SetSchemaName(d, k, name, bad) ==
    LET r == SetSchema(contents, stack[d], k, name, bad)
    IN /\ Serves(d)
       /\ Becomes(r)
       /\ IF r.error THEN UNCHANGED syncing ELSE Schedule(d)
       /\ Replies("set schema", d, k, None, bad, ~ r.error, {})
       /\ UNCHANGED <<gconfd, dbs, stack>>

(* gconf_database_sync()                                                     *)
SuggestSync(d) ==
    /\ Serves(d)
    /\ SyncNowish(d)
    /\ UNCHANGED <<contents, gconfd, dbs, stack, unsaved, failed, done>>

(* gconfd_obtain_database() for a list of addresses that is not open, when all   *)
(* of them load.                                                             *)
Obtain(d) ==
    /\ Free /\ d \notin Open
    /\ dbs' = <<d>> \o dbs
    /\ stack' = [stack EXCEPT ![d] = Addresses[d]]
    /\ UNCHANGED <<contents, gconfd, timer, idle, unsaved, failed, done>>

ShutdownSooner(bad) ==
    /\ Free
    /\ gconfd' = "stopped"
    /\ ReallySync({d \in Open : idle[d]}, bad)
    /\ UNCHANGED <<contents, dbs, stack, done>>

(* main() after the main loop: shutdown_databases() frees every database, which  *)
(* saves those that have a sync scheduled.                                    *)
Shutdown(bad) ==
    /\ Free
    /\ gconfd' = "stopped"
    /\ ReallySync({d \in Open : idle[d] \/ timer[d] > 0}, bad)
    /\ UNCHANGED <<contents, dbs, stack, done>>
-----------------------------------------------------------------------------

(* The failures that a request can meet.                                      *)
Bad(kinds) == {bad \in BadCalls : \A call \in bad : call[2] \in kinds}
Reads == {"query", "metainfo"}

Change(d) ==
    \/ \E s \in Settings :
          \/ \E bad \in Bad(Reads \cup {"set"}) : Set(d, s[1], s[2], bad)
          \/ \E bad \in Bad(Reads \cup {"unset"}) : Unset(d, s[1], bad)
    \/ \E k \in Cleared, names \in BOOLEAN :
          \E bad \in Bad(Reads \cup {"entries", "dirs", "unset", "schema"}) :
              UnsetBelow(d, k, names, bad)
    \/ \E n \in Namings : \E bad \in Bad({"schema"}) : SetSchemaName(d, n[1], n[2], bad)

Save(d) == TimerFires(d) \/ \E bad \in Bad({"sync"}) : IdleFires(d, bad)

Next ==
    \/ Sent \/ Time
    \/ \E d \in Databases : Change(d) \/ Save(d) \/ SuggestSync(d) \/ Obtain(d)
    \/ \E bad \in Bad({"sync"}) : Shutdown(bad)

Spec == Init /\ [][Next]_vars

(* Time passes, also between requests that never end; requests leave the main   *)
(* loop idle time and again, for an idle handler has a lower priority.          *)
FairSpec ==
    /\ Spec
    /\ WF_vars(Sent) /\ SF_vars(Time)
    /\ \A d \in Databases : SF_vars(Save(d))

-----------------------------------------------------------------------------
(* Properties                                                                *)

Read(d, k) == QueryValue(contents, stack[d], k, {})

(* The value of the first source that has one, without a schema's default.     *)
Stored(d, k) ==
    LET v == FirstIn(stack[d], WithValue(contents, k))
    IN IF v <= Len(stack[d]) THEN Entry(contents, stack[d][v], k).value ELSE None

(* What a program has set is what it and everybody else with the same database  *)
(* reads: gconf_sources_set_value() refuses to store where a source in front     *)
(* would hide the value.                                                      *)
WritesAreRead ==
    done.op = "set" /\ done.ok /\ done.clean
        => Read(done.db, done.key).value = done.value

(* An announcement carries what a read returns.  gconf_database_unset() is       *)
(* excepted where a source that it cannot write still has a value: there it     *)
(* announces the schema's default.                                            *)
StillSet(d, k) == \E s \in Members(stack[d]) : s \in WithValue(contents, k)

AnnouncementsAreReads ==
    done.clean => \A a \in done.told :
        LET r == Read(a.db, a.key)
        IN \/ a.value = r.value /\ a.writable = r.writable
           \/ done.op = "unset" /\ a.db = done.db /\ StillSet(a.db, a.key)

(* Whatever a request changes is announced to every database that reads it from *)
(* there, whoever modified the source, unless a database cannot be read.        *)
ChangesAreAnnounced ==
    [][done' # Nothing /\ done'.ok /\ done'.clean =>
        \A d \in Open, k \in Keys :
            \/ Stored(d, k)' = Stored(d, k)
            \/ \E a \in done'.told : a.db = d /\ a.key = k
            \/ \E e \in Open : Read(e, k)'.error]_vars

(* A listing says of a key what a lookup says; but a key without a value of its  *)
(* own may be listed as not writable although it is: a listing looks no further *)
(* than the last source that names the key's schema.                          *)
ListingsAreReads ==
    \A d \in Open, dir \in Dirs : \A e \in AllEntries(contents, stack[d], dir, {}) :
        LET r == Read(d, e.key)
        IN /\ e.value = r.value
           /\ e.writable = r.writable \/ (Stored(d, e.key) = None /\ r.writable)

(* Changes that are not saved are due to be saved, by a timer or an idle         *)
(* handler of a database with that source, unless a sync of it has failed; when  *)
(* gconfd stops in order, only failed syncs leave changes behind.               *)
Due(r) ==
    \E d \in Open : /\ \E s \in Members(stack[d]) : Resource[s] = r
                   /\ (idle[d] \/ timer[d] > 0)

UnsavedIsDue ==
    /\ TypeOK
    /\ gconfd # "aborted" => \A r \in unsaved \ failed : Running /\ Due(r)

(* The assertions of gconf_database_set(), gconf_database_unset() and             *)
(* prepend_unset_notify() on the modified sources, and that of                   *)
(* gconf_server_load_sources(), hold.                                          *)
AssertionsHold == gconfd # "aborted"

(* Unless changes put the timer back for ever, everything is saved, time and     *)
(* again.                                                                    *)
SavedOnceQuiet ==
    <>[][\A d \in Databases : timer'[d] <= timer[d]]_vars
        => []<>(Running => unsaved \subseteq failed)
=============================================================================
