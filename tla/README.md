# A TLA+ model of GConf over D-Bus

GConf stores the configuration of desktop applications.  A daemon, `gconfd`,
owns the databases; applications talk to it over D-Bus through `libgconf`, and
most of them through `GConfClient`, which caches values and tells the
application's listeners about changes.  This directory models the parts of the
system where steps of several programs interleave (the client cache, requests
and recovery), those where a failure or a crash may fall between two steps (both
file backends, the saving of databases, change sets), and the way of a value
through all of its encodings.  TLC checks them on small instances; TLAPS proves
the main results for every instance.

## 1. Inventory

| component | source | state | operations | talks to |
|---|---|---|---|---|
| client cache | `gconf/gconf-client.c` | `dir_hash` (watched directories, add counts, request ids), `cache_hash`, `notify_list` and its idle handler, the listener table | add_dir, remove_dir, preload, get, all_entries, set, unset, recursive_unset, clear_cache, notify, change sets; the notify callback; the idle flush | engine (calls), application (listeners) |
| engine | `gconf/gconf-dbus.c` | the D-Bus connection, `service_running`, `needs_reconnect`, engines by database and address, the table of notification connections | one D-Bus call per operation; dispatch of `Notify`; reconnection when the daemon comes back | daemon (calls, `Notify`, `NameOwnerChanged`) |
| database, D-Bus side | `gconf/gconf-database-dbus.c` | clients per namespace section, number of requests per client | the method handlers; `NameOwnerChanged` of a client; sending `Notify` | sources, engines |
| database | `gconf/gconf-database.c` | its sources, the pending sync (`sync_idle`, `sync_timeout`), last access | set, unset, recursive unset, queries, sync scheduling | sources, D-Bus side |
| sources | `gconf/gconf-sources.c` | a stack of backends, readable or writable | query with schema defaults, set (overridden keys), unset, recursive unset, listings | backends |
| backends | `backends/xml-*.c`, `backends/markup-*.c`, `backends/evoldap-backend.c` | cached directory trees with dirty flags, files | get, set, unset, sync, cache expiry, locking | the file system |
| listener table | `gconf/gconf-listeners.c` | tree of names with listeners, flat array of ids, recycled indices | add, remove, remove_if, notify | callbacks |
| server object, daemon life cycle | `gconf/gconfd-dbus.c`, `gconf/gconfd.c` | list of databases, object paths, shutdown flag | obtain and drop databases, notify other databases, exit | all of the daemon |
| change sets | `gconf/gconf-changeset.c` | a set of pending changes by key | set, unset, remove, commit, revert | engine |
| values, schemas, locales | `gconf/gconf-value.c`, `gconf-schema.c`, `gconf-locale.c`, `gconf-internals.c` | values and their textual forms, locale cache | copy, compare, encode, decode | everything |
| tools | `gconf/gconftool.c`, `gconf-sanity-check.c`, `gconf-merge-tree.c` | none | command lines: dump, load, install schemas, set | engine, files |

### How the parts interact, and what is hard

An application is single threaded; `gconfd` serves one call at a time.  All the
concurrency is in the messages: a library call that makes several D-Bus calls
lets other programs write in between, and `Notify` calls wait in an
application's queue while it makes further calls, whose replies overtake them.
Hence

* a cached value, a queued `Notify` and the idle handler may each hold a
  different version of one key;
* the set of requests at the daemon and what the client believes of it change
  in several calls, any of which may fail;
* the daemon may die and come back while the client holds requests, entries and
  undelivered messages;
* a request is acknowledged long before it is on disk: timers, idle handlers and
  dirty flags must lead to every change, past failures and restarts;
* a value is text or a structure in seven forms (two textual ones, two on the bus,
  the files of two backends, those of `gconftool`), and readers of several locales
  must see one schema.

`PROJECT.json` lists each hazard at its line, with the properties that cover
it.  The saved-state log of `gconfd.c` (listeners written to a file and
restored) is compiled only with CORBA; in the D-Bus build it is the programs
that make their requests again, and `GConfEngine` models how.

### What makes each component correct

* **Client cache.** Only watched keys are cached; what is cached is current or
  a queued `Notify` will make it so; a change of a watched key reaches the
  application; requests at the daemon are exactly those the client knows of,
  never overlap, and cover what is watched.
* **Engine, database (D-Bus side).** A client is notified once per change and
  request; after a restart of the daemon every request is there again, once;
  nothing is kept for a client that has gone.
* **Database, sources.** A read returns the value of the first source that has
  one; what was set is read; announcements and listings say what reads say, to
  everybody concerned; a change is saved in the end.
* **Backends.** Flags lead a sync to everything that has changed; success means
  that it is on disk; a cache entry is only dropped when clean; a crash loses
  what was not saved and nothing else.
* **Values, schemas, locales.** A reader gets what was set, whatever way it came
  and in whatever locale, before and after a restart.
* **Listener table.** The id of a live listener is unique and leads to it; a
  removed listener is never called; the tree has no empty leaves.
* **Daemon.** After an exit and a new start the programs' requests and object
  paths are what they were, or each program knows that they are not.
* **Change sets.** A commit loses no change, however far it comes; the set that
  reverts brings back what was read when it was made.

## 2. Modules

| module | models | extends |
|---|---|---|
| `GConfPaths` | key names and `gconf_key_is_below`, with four lemmas about them | |
| `GConfDatabase` | one database as its D-Bus clients see it: values, requests per section, queued `Notify` calls | `GConfPaths` |
| `GConfClient` | the cache of one or more applications over that database | `GConfDatabase` |
| `MCGConfClient` | instances for TLC | `GConfClient` |
| `GConfServer` | a `gconfd` process: object paths, requests, counts, exit and start | |
| `GConfEngine` | the D-Bus library of several programs over `GConfServer` | `GConfServer` |
| `MCGConfEngine` | instances for TLC | `GConfEngine` |
| `ListenerRegistry` | the promise of a listener table, whatever it is made of | `GConfPaths` |
| `GConfListeners` | the listener table with its tree, array and nested callbacks; implements `ListenerRegistry` | `GConfPaths` |
| `MCGConfListeners` | instances for TLC | `GConfListeners` |
| `ConfigStore` | the promise of a backend that writes now and then | |
| `GConfXmlCache` | the XML backend: its cache, its files, and the sync system call by system call; implements `ConfigStore` | `GConfPaths` |
| `MCGConfXmlCache` | instances for TLC | `GConfXmlCache` |
| `GConfSources` | a stack of sources: what reads, listings and changes do to it, with sources that fail (operators) | `GConfPaths` |
| `GConfSync` | the databases of a `gconfd`: requests, announcements, the timers of the sync | `GConfSources` |
| `MCGConfSync` | instances for TLC | `GConfSync` |
| `GConfMarkupTree` | the markup backend: its tree, flags, files and sync; implements `ConfigStore` | `GConfPaths` |
| `MCGConfMarkupTree` | instances for TLC | `GConfMarkupTree` |
| `GConfChangeSet` | change sets of a program, committed call by call | |
| `MCGConfChangeSet` | instances for TLC | `GConfChangeSet` |
| `GConfValues` | values, their readable and their encoded text (operators) | |
| `GConfWire` | values and entries in D-Bus messages (operators) | `GConfValues` |
| `GConfElements` | elements of XML files (operators) | `GConfValues` |
| `GConfXmlEntry`, `GConfMarkupEntry` | one entry in either backend, its locales and its elements (operators) | `GConfElements` |
| `GConfTool` | what `gconftool` dumps, loads and installs (operators) | `GConfElements` |
| `GConfSettings` | one key on its way through all of these | `GConfWire`; instances of the three above |
| `MCGConfSettings` | instances for TLC | `GConfSettings` |
| `GConfClientProofs` | theorems about the client: its requests, then its cache | `GConfClient`, `TLAPS` |
| `GConfEngineProofs` | theorems about the engine and the daemon | `GConfEngine`, `TLAPS` |
| `GConfListenersProofs` | theorems about the listener table | `GConfListeners`, `TLAPS` |
| `GConfXmlCacheProofs` | theorems about the XML backend | `GConfXmlCache`, `TLAPS` |
| `GConfMarkupProofs` | theorems about the markup backend | `GConfMarkupTree`, `TLAPS` |
| `GConfSyncProofs` | theorems about databases and their sources | `GConfSync`, `TLAPS` |
| `GConfChangeSetProofs` | theorems about change sets | `GConfChangeSet`, `TLAPS` |

`GConfClient` and `GConfEngine` are two views of one library.  The first has the
values and the cache, and a daemon that stays; a call of the engine is one step
of it.  The second has no values, takes the engine's calls apart, and lets the
daemon go and come back.  Put together they would multiply two state spaces
that meet only in the list of requests, so each keeps what the other abstracts.

The daemon side is cut in the same way.  `GConfDatabase` and `GConfServer` have one
source and the programs that listen; `GConfSync` has many sources and, of a
program, only what it is told.  A source of `GConfSync` is what the two backend
modules implement: both refine `ConfigStore`, in which a sync saves everything
or reports a failure.  `GConfSettings` follows one key through one such source
with all its data, and leaves the failures to the others.

A few definitions of the models are not used by any action (`KeysBelow` has `CachedAtDirOnly`,
`FlushBegin` has `FlushLosesList`, `Clean` has `CleanAny`, ...).  They are plausible mistakes: each stands
in for the definition after it when a property's power to fail is tested
(`mutants` of `PROJECT.json`).

### State and actions, and the code they stand for

**`GConfDatabase`.**  `store` is what the sources hold; `SchemaDefault` gives
the keys with a schema; `notifications[s]` the programs in the list of section
`s` (`db->notifications`); `inbox[c]` the `Notify` calls sent to program `c` and
not yet dispatched, which D-Bus keeps in order.  `DbSet`, `DbUnset` and
`DbRecursiveUnset` are the handlers: they change the store and append one
`Notify` for each section on the way up from the key, deepest first
(`gconf_database_dbus_notify_listeners`).  `gconfd` finishes a handler before it
takes the next call, so a handler is one step.

**`GConfClient`.**  `addCount` and `monitored` are `dir_hash` (`add_count`, and
whether `notify_id` is set), `cache` is `cache_hash`, `pending` the
`notify_list`, `flushing` what an idle handler has adopted of it.  `op` is the
library call a client is in, when it is one of several D-Bus calls: in
`setup_overlaps` (`DropCovered`, then `AddNotify` or `UseCovering`), in a
preload (`PreloadDir`), or in the re-add loop of `remove_dir` (`ReAddNext`).
`Dispatch` is `handle_notify` with `notify_from_server_callback`; `FlushBegin`
and `FlushKey` are the idle handler.  `unread` is a history variable: what has
changed below a watched directory and was neither announced nor read.

**`GConfServer`, `GConfEngine`.**  `path` is the object number of every loaded
database, given out in the order of the first requests; `listed` the
occurrences of a program in `NotificationData.clients`; `counted` the entry of
`db->listening_clients`.  On the program's side `known` is `engines_by_db`
(which can only hold one engine for a path), `database` the path an engine
remembers, `held` its `notify_ids`, `running` and `reconnect` the flags
`service_running` and `needs_reconnect`, `queue` the `NameOwnerChanged` signals
that wait for the main loop.  `op.pc` walks through a call: `ensure`
(`ensure_service`), `reset` and `readd` (the loops of
`reinitialize_databases`), `obtain` (`ensure_database`), `send` (the call
itself).  An exit of the daemon may fall between any two.

**`GConfListeners`.**  `nodes` and `at` are the tree (`LTableEntry`), `flat` the
array, `recycled` the list `removed_indices`, `next` is `next_cnxn`.  `frames` is
the call stack: since the table calls listeners and destroy functions, and
these may call the table, an operation is a frame that is pushed, advanced and
popped, and any operation may start while a callback of the innermost frame
runs.

**`GConfXmlCache`.**  `mem` is `Cache.cache`, with a `Dir` as a record: whether
its file has been parsed (`doc`) and its subdirectories listed
(`need_rescan_subdirs`), the entries, and the dirty flag.  `absent` is
`Cache.nonexistent_cache`.  `disk` has for each directory its folder, the
contents of `%gconf.xml`, whether there is a `%gconf.xml.tmp`, and the contents
of a `%gconf.xml.old`.  A request is one step, with all that it looks up, loads
and creates on the way (`Lookup`, `Obtain`): `gconfd` does nothing else
meanwhile.  `sync` is the state of `cache_sync()`, which is one step per system
call that changes the disk, since each may fail and the process may end between
any two.  `faults` counts what has gone wrong; `asked` is a history variable, the
entries as the requests have left them.  `dircmp()` orders a pass; the order is
not one (section 5), so a pass takes its directories in any order.

**`GConfSources`, `GConfSync`.**  A source is an open address; what it holds is the
*resource* of the address, because two addresses may lead to one root directory
(`xml:readonly:` and `xml:readwrite:`) and share its cache.  `contents` is what the
resources hold in memory.  `stack[d]` is `GConfSources` of database `d`, `dbs` the
daemon's list, `timer` and `idle` are `sync_timeout` and `sync_idle`.  A request is
one step with its answer and its announcements, which `done` holds until they have
left (`Sent`): `gconfd` does nothing else meanwhile.  Every call of a backend may
fail; `bad` is the set of those that do in a step.  A timer waits `Minute - 1` steps
of `Time`.  `unsaved` and `failed` are history variables: resources with changes
that no sync has saved, and those whose last sync failed.  A failed `g_assert` is
the action `Aborts`.

**`GConfMarkupTree`.**  `mem` is the tree of `MarkupDir`s with `entries_loaded`,
`subdirs_loaded`, `entries_need_save` and `some_subdir_needs_sync`, and whether a
directory is the root of a file of its own; `disk` has the folder and both kinds of
files.  A request is one step with all it loads; `sync` is the recursion of
`markup_dir_sync` with one frame per directory it is in, and every file saved,
unlinked or folder removed is a step that may fail.

**`GConfChangeSet`.**  `sets` holds the program's set and the one that reverts it,
`work` the function that runs: a commit or a reversal makes one call per key, in any
order, and other programs may write between two of them.  `cache` and `notes` are
there because a `GConfClient` reverses from its cache, which a call does not
refresh.  `owed` is a history variable: what was asked for and is not written yet.

**`GConfSettings`.**  `entry` is the entry in the memory of the backend, `main` and
`descs` its elements in the main file and in those of the locales.  Every action is
a call of a program: `Set` and `Unset` over the bus, `SetText`, `Transfer` and `InstallSchemas` by
`gconftool`, then `Save` and `Restart` of the daemon.  The values are structures and
texts of single characters, since quoting is about characters; the five modules of
operators translate the functions that convert them.  `asked` is a history variable:
for each locale, what was last asked for.

## 3. What is checked

Every run is exhaustive.  The bounds are constants of the modules.

| run | instance | what it shows |
|---|---|---|
| `client_coherence` | one application, two unrelated directories with a key each, one with a schema default, two values, `MaxWrites = 3`, failing `AddNotify` calls, under `FairSpec` | `CacheCoherent`: the cached value is the database's, or a queued `Notify` that will not be ignored brings it; `CachedAreWatched`; `NothingUnread`, `ChangesReachApplication`, `CacheConverges`: no change of another program is lost on its way through queue, cache and idle handler |
| `client_overlaps` | three directories inside each other, each added up to twice | `RequestsMatchDaemon`, `WatchedAreCovered` in every order of adding and removing, between every two D-Bus calls |
| `engine_apart` | two programs with one database each, neither of them the default, two exits, engines dropped and opened again | `EngineTableSound`, `PathsAgree` at any interleaving, also with a second exit inside a recovery; `RequestsSurviveExit` |
| `engine_orderly` | two programs on the default database with two sections, two exits, under `FairSpec`; requests change only when there is nothing to recover from | `RequestsExact`: a recovery restores the requests, each once; `RequestsComeBack`: it does so by the signal alone; `ListsAccounted`: the counts of `gconfd` are right and it forgets programs that have left |
| `listeners` | three listeners at the root, a directory, or a key in it; calls nested three deep | `LiveReachable`, `IndicesAccounted`, `TreeMinimal`, `ReferencesCounted`; `RegistrySpec`: the table implements `ListenerRegistry` |
| `xml_store` | three directories, each inside the one before, one key, one failure or crash anywhere except those of section 5 | `StoreSpec`: cache and files implement `ConfigStore`: reads see what was asked, a directory is saved whole, a crash loses what was not saved and nothing else; `EmptyDirsDisappear` |
| `xml_faults` | two directories, a schema name as well, any one failure or crash, under `FairSpec` | `CleanIsOnDisk`: what `cache_clean` may drop is on disk; `SuccessLeavesNothingDirty`; `SyncTerminates`: the loop of `cache_sync` ends, although it starts again after each deletion |
| `sync` | the path file of an installation (mandatory, user, defaults) and a second database over the user's source and the defaults; a key that may have a schema; one source that may not load, any call of the user's backend failing; under `FairSpec` | `WritesAreRead`, `AnnouncementsAreReads`, `ListingsAreReads`: three ways to learn of a value agree; `ChangesAreAnnounced`, to the other database too; `UnsavedIsDue`, `SavedOnceQuiet`: every change has its sync ahead and is saved once changes stop |
| `sync_asserts` | the same | `AssertionsHold` is violated (section 5) |
| `markup` | three directories, each inside the one before, merged or not, one failure or crash anywhere | `UnsavedIsQueued`: the two flags lead a sync to every directory with changes; `SuccessIsSaved`; `StoreSpec`: tree and files implement `ConfigStore`; `EmptyDirsDisappear` |
| `changes` | two keys, one of them watched and with a default; two values, one foreign write, one failing call | `NothingLost`: a commit that fails halfway keeps what it has not written; `SuccessIsWhole`; `ReverseRestores` |
| `settings` | values of all types that are hard to write down, schemas of two locales, files of `gconftool`, three calls, in the XML backend, the markup backend and a merged tree | `ReadsAreSettings`, `ListingsAgree`: a reader of either locale gets what was asked for, by a lookup and in a listing; `TextsRestore`: what is printed is read back; `RestartKeepsReadings` |

### Bounds, and why they are enough

* **Writes (2 or 3).**  A stale cache needs two values in flight for one key:
  one queued and one written after it.  The third write lets another program
  overtake a fill from a get as well.
* **Directories (three, nested).**  `setup_overlaps` treats a directory above,
  one below, and itself; with three levels the middle one is both.  Adding twice
  exercises the add count.
* **Two clients.**  Clients interact only through the store and through what
  `gconfd` lists; with two, one writes what the other watches.  One program is
  enough where the question is about one program's own bookkeeping.
* **Exits (2).**  One for a recovery, the second for an exit within it.
* **Databases (3).**  The default, which always has object number one, and two
  whose numbers depend on who asks first.
* **Listeners (3), frames (3).**  A notification, a removal within it, and a
  notification within the callback of that; three listeners let one call, one be
  removed and one be added in its place.
* **`Uniqueness = {0}`.**  The bits that tell a stale id from a new one all
  agree: the worst case, in which nothing but the index separates listeners.
  The real table counts modulo 256 and is at least as good.
* **`MaxHeld`.**  One request for a section.  `gconfd` lists a program more than
  once for a section only when the program asks more than once; what then goes
  wrong is told in section 5.
* **Directories of the XML backend (three in a chain, or two).**  A lookup that
  goes up stops at a cached directory, one remembered as absent, or one without
  a file; the chain has a middle one that can be any of these while its parent
  and its child are another.  Deleting the lowest can empty both above it.  One
  key with one value tells an empty directory from one that is in use, and a new
  state from an old.
* **`MaxFaults = 1`.**  A sync that fails is followed by others that go well,
  and by all requests, so what a failure leaves behind is examined.  The theorems
  of section 4 hold for any number for the XML backend, and for the markup backend
  as far as `Harmless` goes: with two failures of different kinds it loses entries
  (section 5).
* **Sources (four over three resources), databases (two).**  A source in front that
  cannot be written, one that can, one behind it; and the last two shared with
  another database, which may write where the first may not.  A write reaches the
  other database's readers through a source that is first in one stack and last in
  the other.
* **`Minute = 2`.**  A timer that has just been set, one about to fire, none: it is
  put back from either, and time passes between them.
* **Contents at the start.**  Programs set the values and the names of the sources
  they can write; what is in the others is there from the start: nothing, a value
  that hides the user's, the name of a schema in front of where it can be set, and
  a schema that is none until it is set.
* **Markup directories (three in a chain).**  A directory between two others has a
  flag for itself and one for its subdirectory; deleting the lowest can empty both
  above it.
* **Change sets (two keys).**  A commit that stops after one key of two; one key is
  in the cache, the other is read from `gconfd`.
* **`MaxCalls = 3`.**  Two locales set in turn and one of them again; a schema that
  is overwritten by a value and set once more.  `FloatDigits = 2`: `"%g"` prints six
  digits, so a float of three with room for two is one of seven.
* **Characters.**  The values hold each character that a form treats specially, in
  the place where it does: quotes, backslashes, commas, brackets, blanks.

Choices of the application are constants too, and each flag that is off names
an assumption on the caller: `Overlaps` (it watches directories that include
each other), `EarlyReAdd` (it watches a directory again while an old `Notify`
is queued), `PreloadWatched`, `CallsFail`, `Orderly`, `Unrefs`, `DestroyActs`.
Section 5 tells what the program does where such an assumption, or one of
`Faults` and `DestroyActs`, is needed and not met.

### Fairness

No fairness is assumed of an application's own calls, of other programs'
writes, of exits and starts of the daemon.  What is assumed:

* weak fairness of the steps of a library call: the code is a straight line or
  a loop over a list, and every D-Bus call is answered or times out;
* weak fairness of the steps of a sync: it is a loop within one call of a
  backend;
* weak fairness of `Sent`: a handler returns before anything else happens;
* strong fairness of time (`Time`) and of the timer and the idle handler of a
  database (`Save`): requests that keep coming leave the main loop again and again,
  and an idle handler only runs when they do.  Every write puts the timer back by
  a minute (`gconf-database.c:1022`), so `SavedOnceQuiet` claims a save only if that
  comes to an end: a database written once in less than a minute is never saved;
* strong fairness of dispatching and, in `GConfClient`, of the idle handler: a
  program that keeps making calls is back in its main loop between them, again
  and again, so these steps are enabled over and over but not all the time.  A
  program that never returns to the main loop is not served, as with every GLib
  program.

Deadlock is checked in the client runs, those of the backends, `changes` and
`settings`.  It is not in the engine runs, where all programs may leave and the
daemon with them, nor in those of the listeners, where the table is freed at the
end, nor in `sync`, where `gconfd` stops.

## 4. What is proved

The theorems hold for every value of the constants their assumptions allow: any
number of clients, directories, keys, writes, listeners, sources and failures, and
any nesting.

| theorem | assumption beyond the modules' own | statement |
|---|---|---|
| `TypeCorrect` | | type correctness of `GConfClient` |
| `RequestsAgree` | | `[]RequestsMatchDaemon`, and no two requests of a client overlap |
| `WatchedStayCovered` | no `AddNotify` fails | `[]WatchedAreCovered` |
| `CachedStayWatched` | | `[]CachedAreWatched` |
| `CacheStaysCoherent` | directories do not overlap; none is watched again while its old calls are queued | `[]CacheCoherent` |
| `NothingStaysUnread` | the same; a directory is preloaded only when it is added | `[]NothingUnread` |
| `PathsStayRight` | | `[]PathsAgree`, with the type correctness of `GConfEngine` |
| `TableStaysSound` | `Apart`: each program uses one database besides the default | `[]EngineTableSound` |
| `RequestsSurvive` | `Apart`; one request for a section (`MaxHeld = 1`) | `[]RequestsSurviveExit` |
| `RequestsStayExact` | `Apart`; `Orderly`, no `Unrefs` | `[]RequestsExact` |
| `ListsStayAccounted` | the same, and `MaxHeld = 1` | `[]ListsAccounted` |
| `IndicesStayAccounted` | destroy functions leave the table alone | `[]IndicesAccounted` |
| `LiveStayReachable` | the same | `[]LiveReachable` |
| `TreeStaysMinimal` | the same | `[]TreeMinimal` |
| `ReferencesStayCounted` | the same | `[]ReferencesCounted`, with the type correctness of `GConfListeners` |
| `RegistryImplemented` | the same | `RegistrySpec`: the table implements `ListenerRegistry` |
| `CacheTypeCorrect` | | type correctness of `GConfXmlCache` |
| `CleanStaysOnDisk` | | `[]CleanIsOnDisk` |
| `SuccessMeansClean` | | `SuccessLeavesNothingDirty` |
| `EmptyDirsGo` (`GConfXmlCacheProofs`) | | `EmptyDirsDisappear`: a sync that succeeds, nothing having gone wrong, leaves folders only for directories with entries in or below them |
| `StoreImplemented` | `Harmless`: no stat or read fails, nor the second rename of a write or the one that takes back the first, and no crash falls between the two | `StoreSpec`: the cache and its files implement `ConfigStore` |
| `UnsavedStaysQueued` | `Harmless`: at most one failure or crash; or any number of them, but no crash and no failed unlink, or no failure to make a folder or write a file | `[]UnsavedIsQueued`, with the type correctness of `GConfMarkupTree` |
| `SuccessMeansSaved` | the same | `SuccessIsSaved` |
| `MarkupImplemented` | the same | `StoreSpec`: the tree and its files implement `ConfigStore` |
| `EmptyDirsGo` (`GConfMarkupProofs`) | | `EmptyDirsDisappear` of the markup backend, unless the tree is one file |
| `ChangesStayDue` | | `[]UnsavedIsDue`, with the type correctness of `GConfSync` |
| `SettingsAreRead` | | `[]WritesAreRead` |
| `ListingsAgree` | | `[]ListingsAreReads` |
| `AnnouncedAreRead` | `OneView`: what two sources of a list share is not first read-only and then writable | `[]AnnouncementsAreReads` |
| `ChangesStayAnnounced` | | `ChangesAreAnnounced` |
| `ChangesAreKept` | | `[]NothingLost`, with the type correctness of `GConfChangeSet` |
| `SuccessMeansWritten` | | `SuccessIsWhole` |
| `RevertBringsBack` | | `ReverseRestores` |

The exact assumptions are in the statements; those of the modules say of what there is
that it is finite or a path, and of the marks for what is missing (`NoFile`, `Absent`,
`NoEntry`, ...) that they are nothing else.  How the arguments go:

* **Requests.**  Daemon and client agree because every change of `monitored` is
  in the same step as that of `notifications`.  That two requests never overlap
  follows where a request is made: `DropCovered` has left nothing below the
  directory and `Covered` finds nothing above it, and only the client's own call
  changes its requests.  The type invariant must know that a call in
  `setup_overlaps` has a directory (`OverlapsHasDir`).
* **Coverage.**  Between calls a watched directory has a request at or above it.
  Within a call it may not; the invariant (`Cover`) then says that each
  directory without one is in `todo`, what the re-add loop has still to visit,
  or is below the directory whose overlaps are being set up, which will cover it
  when its own request is made: `gconf_key_is_below` must be transitive.
* **Watched keys.**  The invariant (`Watching`) adds that requests are held for
  watched directories only, that what a call has still to do concerns watched
  directories, and that a queued `Notify` is for a key below its section.
* **Cache.**  `CacheCoherent` is not inductive: a directory that gets a request
  could make old messages deliverable.  The strengthening (`Apart`) says that
  every watched directory has a request of its own, and that one being added is
  apart from all of them and has no message in the queue.  Directories above a
  key form a chain (`AboveIsChain`), so at most one of them watches it, and a
  write appends one deliverable message with the new value after all others.
* **Nothing unread.**  A change that nobody has heard of yet is waited for
  (`UnreadAwaited`): its key is in the queue of the idle handler, or a deliverable
  `Notify` carries a value other than the cached one, so that it cannot be taken for
  no news.  The second case is where coherence is needed: a cached value that is
  stale differs from what the last `Notify` carries, so dispatching the others cannot
  use up the news.  A preload of a directory that is watched already would cache the
  new value and silence the `Notify`; hence that assumption (`PreloadApart`).
* **Paths.**  What a program believes of the daemon is right unless it has missed
  an exit (`Missed`): the signal waits in its queue, or it was dispatched and the
  recovery has not begun.  `Current` says so of each path, except for those the
  recovery has still to ask for.  That takes what `gconfd` gives out (`ServerSound`:
  different numbers to different databases, and one the next asks for is new), what
  belongs to each stage of a call (`CallSound`), that the table is the inverse of the
  paths (`TableSound`), and that a program which hears that `gconfd` is back finds it
  or will hear that it went again (`BackMeansUp`).  None of it needs an assumption.
* **The table of engines.**  With one database besides the default, a number a
  database gets is never that of another engine of the program: the default has
  number one, always, and nothing else has (`ApartSound`).  Hence no engine drops out
  of the table in a recovery, and every engine a recovery is to ask for has a path.
  Section 5 tells what happens to programs with more.
* **Requests after an exit.**  A request that is held is listed by the daemon, is
  among those the recovery has still to add, or is the one the call under way adds
  (`HeldAt`).  With a second exit inside a recovery that is false (section 5), so the
  invariant holds while `exits <= 1`, and `OnceSound` says what one exit can do: it is
  noticed once, and while the program recovers from it the daemon stays.  For orderly
  programs it is an equation (`BalanceAt`): held, and being removed, is listed, to be
  added again, and being added; it holds at any number of exits because nothing is
  asked for while one is missed.
* **Counts.**  `ListsAccounted` adds up a function with `MapThenSumSet`, a recursion.
  That the recursion defines a function, that it adds up to 0 only when all is 0, and
  that changing one entry changes the total by as much (`SumsExist`, `TotalZero`,
  `TotalChanges`) are inductions over the size of a set, made as proofs that no least
  set fails (`LeastSections`); the induction theorems of the library cannot be used,
  as they take an operator.  They need `SectionsAssumption`: sections are finite.
* **Listener table.**  The invariant `IndexInv` says where each live listener
  is: in the list its index leads to and in no other (`Placed`, `Listed`), no
  two with one index (`Distinct`), with an index that is in use and not free
  (`Taken`).  The step that is hard is the end of a removal, which clears the
  array entry of an index that is already free again: nobody may have taken the
  index meanwhile, and that is so because a removal that is not finished is the
  innermost call (`RemovalOnTop`) as long as destroy functions do nothing.
  Section 5 tells what happens when they do.  The tree has the places at or above a
  live listener and, inside a removal, those it has still to prune.  A reference
  count is one for the table and one for each notification that has the listener
  ahead, and what is ahead is referred to, so it is not destroyed.
* **Listener registry.**  The mapping takes the place of a live listener from the list
  it is in, and what each notification owes from the calls of the stack that are
  notifications, the innermost first (`OwedBy`).  That selection recurses over the
  stack; what the proof needs of it, how it grows and shrinks with the stack, is shown
  by the least number that would fail.  Most steps of the table, the pruning and the
  array, are stutters; adding, the first step of a removal, beginning a notification
  and calling the next listener are steps of `ListenerRegistry`.
* **XML backend.**  `CleanIsOnDisk` alone is not inductive: the step that clears
  the dirty flag (`UnlinkOld`) does so because the step before has put the
  entries into the file, and nothing but the sync may have touched either since.
  `PassSound` carries that, and that the directory being handled is cached,
  dirty and no longer to be visited, and that what is still to be visited stays
  in the cache.  `DirtyAhead` is the other half: as long as nothing has failed or
  been deleted, a dirty directory is one the pass has yet to visit, or the one
  in hand.  A sync ends with success when nothing is left to visit and nothing
  has been deleted since the pass began; then nothing is dirty.  What a lookup
  may do is stated once (`Grown`, `SameFiles`): it adds directories that are
  neither loaded nor dirty, and creates no file but an empty one.
* **XML store.**  What requests have made of a directory (`asked`) is at all times what
  the cached directory and its file hold together (`Held`).  Reads see it because what
  is remembered as nonexistent is neither cached nor has entries on disk (`Clear`).
  The directory a sync has in hand is loaded, so that it may be written, and empty when
  it is deleted (`InHand`).  Each step then changes what is asked of one directory, saves
  some as they are asked for, or is a crash (`Moves`).  The failures `Harmless` excludes
  are those of section 5 that do lose entries.
* **XML backend: empty directories.**  A folder without entries in or below it
  (`Hollow`) always has a dirty directory in it or below it (`Tended`); when a sync
  ends with success nothing is dirty (`DirtyAhead`), so there is none.  A request makes
  folders only on the way to a directory that it makes dirty, and removing one makes
  the parent dirty.  The step that is hard clears the dirty flag of a directory that
  has no entries: it was written because its list of subdirectories is not empty, and
  the list names folders only (`Listed`), so there is one below it, hollow itself and
  tended by a directory that this step does not touch (`WrittenIsTended`).  It takes no
  assumption, as the property is about the time before anything has gone wrong; that
  such a sync succeeds is not claimed (section 5 has one that fails).
* **Markup tree.**  Memory is in one of three forms (`MemSound`).  While each directory
  has a folder, what is in memory is closed upwards (`Closed`), what memory and file
  hold together is what was asked (`Held`), a clean directory is as on disk and can be
  found there, and below a child that a listed directory does not have there is
  nothing (`SpreadDir`).  Once the root is kept in one file all of it is loaded
  (`TreeMem`), and after a start nothing is (`FreshMem`).  The flags mark the whole
  way to a directory that needs a sync (`Led`).  `SyncSound` says what a sync in
  progress knows: its frames are the chain from the directory to the root, their
  folders are there, and a subdirectory it has behind it is clean unless something
  failed.
* **Markup tree: loading.**  Loading changes nothing that is asked for, in whatever
  order pieces are loaded (`ListSpread`, `ReadSpread`, `WalkReaches`).  Loading all
  below a merged root (`LoadBelowLoads`) is an induction over depth, made over the
  numbers of a recursive function (`WideningExists`, `WidenedLoads`).
* **Markup tree: failures.**  A directory that could not be saved stays dirty, is not
  found by a start and is in memory only.  That is harmless as long as nothing more
  goes wrong that takes it out of memory with its file left behind, which is what
  `Quiet` says: `Harmless` makes every failed save `Quiet` (`FailureIsQuiet`).  Without
  it the theorems are false.  A step up to which nothing has gone wrong needs no such
  assumption (`HarmlessStep`).
* **Markup tree: empty directories.**  A folder that holds nothing is that of a
  directory being worked on, or its sync has just found that it holds nothing and the
  directory above is about to delete it (`HollowIsTended`); outside a sync there is
  none.  A sync deletes only what it knows to be empty, so a directory that holds
  nothing must be loaded and listed when its own turn comes (`Learnt`): one that a
  request has made is (`NewIsListed`), and one that has lost an entry or a subdirectory
  loads the rest before it returns.
* **Sync.**  `UnsavedIsDue` is inductive with the types (`DueInv`).  A change reaches
  only sources in the stack of its database (`Sound`, one lemma per operation), and
  sets one of the two timers in the same step (`ChangeIsDue`); time and timers keep
  a waiting database waiting (`WaitingKept`); a sync saves or fails each source of the
  databases it is for, and a shutdown is for all that wait (`SyncKeepsDue`).  That the
  sources which load are a list of sources is an assumption TLC evaluates
  (`LoadedAssumption`): it is a selection from a sequence, which the provers cannot
  type.
* **Writes are read.**  The value goes to the first source that may write the key,
  and no source in front of it has one.  Afterwards the first source with a value is
  that one, or one in front that shares what it stores, and then it has the same
  value (`SetIsRead`).
* **Listings.**  Both follow the first value, else the first name of a schema; they
  differ in how they read the schema, with and without its own default, which can
  make no difference because a default is no schema (`ListedDefaultIsRead`).  A listing
  asks whether a key is writable up to the last source that counted, a read up to
  the end (`ListedWritable`), hence the exception in the property.
* **Announcements.**  `AnnouncedInv` adds `OneView` of every stack that is open.  The
  value of an announcement is that of a read by the argument of "Writes are read", for
  an unset by the agreement of a default with a read of a key that has no value
  (`UnsetIsRead`).  Without `OneView` the announced `writable` is wrong: where one list
  names a root directory twice, first read-only and then writable, the value is stored
  through the second and found through the first, which may not write it.
* **Changes.**  What a read finds depends on the sources up to the first with a value
  (`FirstValueSame`).  When `gconf_sources_is_affected` says no, a source in front of
  the first that is modified has a value, and it hides the change (`OthersAreTold`); when it
  says yes the database is told, unless a read fails before its turn.  Each request
  changes no value but in what it counts as modified (`PutKeeps`, `WithoutKeeps`), and
  a recursive unset tells of each key it came by.

* **Change sets.**  What is owed is in the set at all times, also while it is being
  committed, and a commit removes nothing that is owed (`OwedIsKept`): it removes what
  it has been told is written, and nobody changes the set meanwhile.  `CommitSound`
  says of a commit in which nothing has failed yet that what it has behind it is
  written, unless somebody else has written it since, and is what it will remove.
* **Reverting.**  What was set is in the set that reverts, or it is left out rightly: it
  was nothing, is nothing, and the changes would make it nothing (`Noted`, `LeftOut`).
  Committing the changes keeps it so, since of such a key they hold an unset only
  (`WriteReverts`); a key that is changed again later is promised only when the set
  that reverts has it.

What stays with TLC: liveness (`ChangesReachApplication`, `CacheConverges`,
`RequestsComeBack`, `SyncTerminates`, `SavedOnceQuiet`), and all of `GConfSettings`.
Every other property of a passing run is the subject of a theorem.  The operators of `GConfValues` recurse over texts, which the provers cannot follow.

## 5. What the program does differently from what is written

`sync_asserts` is the run that shows the worst of these.  `gconf_sources_set_value`
counts a source as modified before it knows whether its backend has set the value
(`gconf-sources.c:734`).  A set that fails there, for a full disk or a file that
cannot be parsed, comes back to `gconf_database_set` with an error and a modified
source, and `g_assert (modified_sources == NULL)` (`gconf-database.c:1375`) ends the
daemon of the session.

More were met on the way.  They bound the instances above, or are exceptions in
the properties, where the definition says so.

In the client, the engine and the daemon:

* A get that caches a new value before its `Notify` is dispatched keeps the
  listeners from hearing of the change (`gconf-client.c:406`): the entry is
  already equal.  `ChangesReachApplication` counts a read as an announcement.
* After an unset by another program the cache holds the default without the
  mark that it is one (`gconf-dbus.c:2397`), and `get_without_default` returns it.
* A program with two requests for a section (`MaxHeld = 2`) stays listed for it
  when it is gone: only one occurrence is removed (`gconf-database-dbus.c:259`).
* A program that adds a request after `gconfd` was replaced and before it
  dispatches the signal has the request added again by the recovery (the call at
  `gconf-dbus.c:1043` goes through with `needs_reconnect` unset).  It is notified
  twice, and once more than never when it has removed the request.  `Orderly`
  excludes it from `RequestsExact`.
* A program that holds two requests for a section and removes one when `gconfd` was
  replaced loses both: `gconf_engine_notify_remove` forgets the connection first, its
  call runs the recovery, which adds only the other one again, and then takes that
  away (`gconf-dbus.c:1055-1100`).  Hence `MaxHeld = 1` in `RequestsSurvive`.
* A second exit during a recovery leaves an engine out of `engines_by_db`
  (`gconf-dbus.c:2215`), and the recovery after it does not find that engine:
  its requests stay lost.  Hence `exits <= 1` in `RequestsSurviveExit`.
* The last `gconf_engine_unref` leaves the requests of the engine at the daemon,
  as the `FIXME` at `gconf-dbus.c:921` says.  `Unrefs` is off where extra
  requests are counted.

* A `Notify` of an earlier watch of a directory that is watched again replaces a
  fresher cached value, for good (`gconf-client.c:404`), although the cached gets
  "work just like the GConfEngine versions".  Hence `EarlyReAdd`.
* A program with two databases besides the default dies in the recovery when
  `gconfd` numbers them the other way round (`gconf-dbus.c:2214`).  Hence one
  database besides the default for each program.
* A program that dies between sending its first `AddNotify` and `gconfd`'s
  `add_match` for it (`gconf-database-dbus.c:822`) is never reported gone.

In the sources and databases:

* A listing says "not writable" of a key without a value when the first source that
  may write it comes after the last that names its schema (`key_is_writable`,
  `gconf-sources.c:1218`); a lookup says "writable".
* An unset announces the schema's default, also when a source behind that cannot be
  written still has a value, which is what is read.
* A recursive unset that fails anywhere announces nothing, though it has unset what
  it could; a change of a schema name is announced to nobody.
* `prepend_unset_notify` asserts that each key of a recursive unset was unset
  somewhere: it is not when no source may write it.  `gconf_server_load_sources`
  asserts that a source loads.

In the listener table:

* A destroy function that adds a listener (`DestroyActs`) may be given the index
  of the one being removed; `ltable_remove` clears the array entry after it, and
  the new listener cannot be found any more.

In the XML backend:

* A crash between the two renames of a write (`"crash in move"`) leaves a
  directory without `%gconf.xml`, and a start does not look for
  `%gconf.xml.old`: the directory is lost, for all the "Atomic Saving" that
  `xml-backend.c` announces at its line 99.
* When the second rename fails (`"move new"`), the old file is moved back
  whenever there may be one (`xml-dir.c:551`), which after an `unlink` that failed
  can be that of an earlier sync; when that fails too (`"move back"`), the
  directory has no file until the next sync.
* `dir_set_value` returns without setting the value when the file cannot be read
  (`"read"`), and `dir_load_doc` has set no error (`xml-dir.c:1030`): the request
  is acknowledged.
* Any error of the `stat` in `dir_load` (`"stat"`) makes a directory nonexistent,
  and it is remembered as such.
* When a folder cannot be removed, because something else is in it, its file is
  gone and the directory stays dirty: every later sync fails at its `unlink`.
* `dircmp` says that it has "proper semantics", but `/a/z` comes before `/a`, `/a`
  before `/a-b` and `/a-b` before `/a/z`.

* A listing has no directory whose parent was remembered as nonexistent when it was
  created: `cache_add_to_parent` comes before `cache_unset_nonexistent`
  (`xml-cache.c:435`); `testdirlist.c:90` expects it.  Nothing else need go wrong for
  a sync to fail then: the directory above, if it was listed before and has no entries,
  counts as empty, its file is deleted, and its folder cannot be removed.
* A directory that a deletion has made dirty and whose file cannot be read counts as
  empty, and is deleted with its entries (`xml-dir.c:342`), for all the "we play it
  safe and don't touch anything" of `xml-dir.c:1023`.

In the markup backend:

* An empty subdirectory is forgotten and unlinked also when its own save has just
  failed.  If the unlink fails as well, the next sync reports success while the old
  entries are still on disk, and a start brings them back: hence `Harmless`.
* A directory whose own file cannot be written does not keep those below it from
  being saved.  If the process then dies, a start finds no file in the directory above
  and does not look below it (`load_subdirs`): what was saved is gone, and is back when
  the directory above is made again.
* When writing a directory fails, those below it have been written already.
  `ConfigStore` allows that a crash then brings back a mixture (`written`).
* A file that cannot be read or parsed counts as empty, and is overwritten or deleted
  by the next save.  A `.new` file is opened without `O_TRUNC`, so a longer one left
  by a crash keeps its end.
* An error in `other_locales_foreach` is dropped (the test is the wrong way round),
  and `%gconf-tree-LOCALE.xml` files that are no longer needed stay and are read
  again after a restart.  Descriptions in a merged tree are therefore claimed for
  readers of locale C only.  A long description is lost when its locale has a
  default, and a locale with one description only is not kept.

In change sets:

* A read that fails while a set is reversed counts as "no value": the reverse set
  then unsets the key.
* "Create a change set that would revert the given change set"
  (`gconf-changeset.h`): a `GConfClient` reverses from its cache, in which a default
  that came with a `Notify` looks like a value that is set.  `ReverseReverts` states
  what the header says and fails; `ReverseRestores` is what holds.
* The error handler of a commit with `remove_committed` may commit the set again
  and trip over `g_assert (size == 0)`; if it clears the set, freed keys are removed.

In values and their texts:

* The list `[""]` and lists whose text ends in `[]` are read back empty; a string
  of one blank is lost by `--dump`, and strings of white space only by the markup
  backend.  `"%g"` cuts floats to six digits in the encoded text that listings and
  the defaults of schemas use; a lookup has them all.
* Integers beyond 32 bits are cut without an error.  A schema's owner and its empty
  descriptions do not cross the bus in every form.
* The struct of a pair without a first half is read past its end; the XML backend
  drops such a pair.
* In the XML backend, settings of a locale come back when the entry has a schema
  name, or when a schema is set again over a plain value without a save in between;
  a schema set over a saved string leaves the string as a child that a reader may
  find first; a schema of locale `""` is appended once more each time.
* In the markup backend, changing the type of a schema drops the other locales'
  settings.
* `gconftool` applies the default for all locales to C only, dumps a schema only as
  the current locale sees it, and keeps the names of schema keys absolute when it
  dumps below a directory.

## 6. What is left

In the order of what it is worth to the system:

1. **`AddNotify` that takes effect while its answer is lost** (`gconf-dbus.c:1008`):
   a third outcome of the call in `GConfClient` and `GConfEngine`.
2. **Callbacks of `handle_notify`** (`gconf-dbus.c:2390`): the walk over the
   connections of a section while they remove each other.
3. **`clear_cache` and the daemon's clock**: the half-hourly cleanup, which drops
   databases and cached directories, together with `GConfSync`.
4. **The sanity check and the merge tool**, and the locks that the D-Bus build keeps
   only in part.

## 7. What is not modelled, and why

* The CORBA build: not compiled with D-Bus.
* The LDAP backend: read-only, no state but its connection.
* Tests, the wrappers with typed arguments, the validation of key names and the
  commands of `gconftool` that are one call of the library: no state of their own.
* Of the sources: addresses and how they are resolved, and lists of which only a part
  loads when a program, not the daemon, asks for them.
* Of the XML backend: locks, permissions and modification times, the values per
  locale of an entry, the parsing of a file and the copy that is made of one that
  cannot be parsed, a crash within `create_fs_dir` (entries per
  locale are in `GConfXmlEntry`).  The branch of `dir_sync` that
  creates the folder when a temporary file cannot be opened is left out: a cached
  directory has its folder.
* Of the markup backend: locks, permissions and modification times, files that the
  program has not written itself, locales in `GConfMarkupTree` (they are in
  `GConfMarkupEntry`), and folders that someone leaves below a merged tree.
* Of the values: lists and pairs of schemas, pairs with one half, locale lists of more
  than two locales, comparison (`gconf_value_compare` ignores the defaults of schemas
  and the types of empty lists), schemas without a locale.
* Errors as values, logging, localized messages: the models keep *that* a call
  failed where the code acts on it.
* Local engines (`gconf_engine_get_local`): no daemon, hence no interleaving.
* Nested main loops: a listener that runs the main loop inside a notification
  could dispatch a `Notify` in the middle of a flush.
* The order of the listeners in a list, and of the directories in a hash table:
  sets, so that every order is covered.
