---------------------------- MODULE GConfXmlCache ----------------------------
(***************************************************************************)
(* GConfXmlCache: the XML backend (xml-backend.c, xml-cache.c, xml-dir.c).   *)
(* A configuration directory is a folder with a file %gconf.xml that holds    *)
(* its entries.  The cache keeps directories it has looked up, loads their    *)
(* files and lists of subdirectories late, remembers directories that do not  *)
(* exist, and writes changed directories in a sync, which also deletes those  *)
(* that have become useless.                                                 *)
(*                                                                         *)
(* gconfd serves one request at a time, so a request is one step.  A sync is  *)
(* one step per system call that changes the disk, for two reasons: each      *)
(* call may fail (Faults), and the process may end between any two.           *)
(***************************************************************************)
EXTENDS GConfPaths

CONSTANTS
    Dirs,           \* the directories, with every one above each
    Keys,           \* names of entries
    Values,         \* values of an entry
    Schemas,        \* names of schemas an entry may have
    None,           \* no value, no schema
    Uncached,       \* not in the cache
    NoFile,         \* a file that does not exist
    Faults,         \* what may go wrong
    MaxFaults       \* bound: how often it does

(* System calls that fail, and the end of the process: at any moment but     *)
(* between the two renames of a write, or just then.                         *)
FaultKinds == {"stat", "read", "scan", "make", "write", "move old", "move new",
               "move back", "unlink old", "unlink", "rmdir",
               "crash", "crash in move"}

Root == <<>>

ASSUME DirsAssumption ==
    /\ Root \in Dirs
    /\ \A d \in Dirs : d \in Seq(STRING) /\ \A n \in 0..Len(d) : SubSeq(d, 1, n) \in Dirs

ASSUME FaultsAssumption == Faults \subseteq FaultKinds /\ MaxFaults \in Nat

VARIABLES
    mem,        \* Cache.cache: the directories in the cache
    absent,     \* Cache.nonexistent_cache
    disk,       \* per directory: folder, %gconf.xml, and what a write leaves
    sync,       \* cache_sync(), when it runs
    faults,     \* how often something has gone wrong
    asked       \* history: the entries as requests have left them

vars == <<mem, absent, disk, sync, faults, asked>>

Entries == [value : Values \cup {None}, schema : Schemas \cup {None}]
NoEntry == [value |-> None, schema |-> None]

Contents == [Keys -> Entries]
Nothing == [k \in Keys |-> NoEntry]

(* struct _Dir.  A directory starts without its file and its subdirectories. *)
DirStates == [loaded : BOOLEAN, entries : Contents, dirty : BOOLEAN,
              scanned : BOOLEAN, subdirs : SUBSET Dirs]
Blank == [loaded |-> FALSE, entries |-> Nothing, dirty |-> FALSE,
          scanned |-> FALSE, subdirs |-> {}]

Folders == [folder : BOOLEAN, file : Contents \cup {NoFile}, tmp : BOOLEAN,
            old : Contents \cup {NoFile}]
NoFolder == [folder |-> FALSE, file |-> NoFile, tmp |-> FALSE, old |-> NoFile]

(* The marks of what is not there are no values themselves.                   *)
ASSUME MarksAssumption ==
    /\ None \notin Values \cup Schemas
    /\ NoFile \notin Contents
    /\ Uncached \notin DirStates

(* at: the next thing to do; todo: directories of this pass not yet visited;  *)
(* dir: the one being written or deleted; kept: its old file was moved away;  *)
(* for: the directories whose listing made the sync necessary.               *)
Steps == {"none", "visit", "unlink", "rmdir", "write", "move old", "move new",
          "unlink old", "list"}
Syncs == [at : Steps, todo : SUBSET Dirs, dir : Dirs, kept : BOOLEAN,
          failed : BOOLEAN, deleted : BOOLEAN, for : SUBSET Dirs]
NoSync == [at |-> "none", todo |-> {}, dir |-> Root, kept |-> FALSE,
           failed |-> FALSE, deleted |-> FALSE, for |-> {}]

CacheTypeOK ==
    /\ mem \in [Dirs -> DirStates \cup {Uncached}]
    /\ absent \subseteq Dirs
    /\ disk \in [Dirs -> Folders]
    /\ sync \in Syncs
    /\ faults \in 0..MaxFaults

TypeOK == CacheTypeOK /\ asked \in [Dirs -> Contents]

Init ==
    /\ mem = [d \in Dirs |-> Uncached]
    /\ absent = {}
    /\ disk = [d \in Dirs |-> [NoFolder EXCEPT !.folder = (d = Root)]]
    /\ sync = NoSync
    /\ faults = 0
    /\ asked = [d \in Dirs |-> Nothing]

-----------------------------------------------------------------------------

Parent(d) == SubSeq(d, 1, Len(d) - 1)
Above(d) == {e \in Dirs : IsBelow(e, d) /\ e # d}
Children(d) == {c \in Dirs : c # Root /\ Parent(c) = d}

Content(f) == IF f = NoFile THEN Nothing ELSE f

Cached == {d \in Dirs : mem[d] # Uncached}

(* Something of this kind goes wrong.                                        *)
Fails(kind) ==
    /\ kind \in Faults /\ faults < MaxFaults
    /\ faults' = faults + 1

Occurs(kind) == IF kind = "none" THEN UNCHANGED faults ELSE Fails(kind)

(* The directory whose file cannot be examined, if any.  To dir_load() it     *)
(* does not exist, whatever the error.                                       *)
Unseen == {{}} \cup {{d} : d \in {e \in Dirs : disk[e].file # NoFile}}

SeesAllBut(h) == Occurs(IF h = {} THEN "none" ELSE "stat")

-----------------------------------------------------------------------------
(* Looking directories up                                                    *)

Loadable(dk, h, d) ==
    mem[d] = Uncached /\ d \notin absent /\ dk[d].file # NoFile /\ d \notin h

(* cache_add_to_parent() looks the parent up, which loads it, which looks its *)
(* own parent up, ...  and stops at the first that cannot or need not be      *)
(* loaded.                                                                   *)
LoadedWith(dk, h, d) ==
    {e \in Above(d) : \A x \in Above(d) : IsBelow(e, x) => Loadable(dk, h, x)}

StopsAt(dk, h, d) ==
    {e \in Above(d) \ LoadedWith(dk, h, d) :
        \A x \in Above(d) : IsBelow(e, x) => x = e \/ x \in LoadedWith(dk, h, d)}

(* cache_insert(), cache_add_to_parent()                                      *)
Insert(dk, h, d) ==
    [e \in Dirs |->
        IF e = d \/ e \in LoadedWith(dk, h, d) THEN Blank
        ELSE IF e \in StopsAt(dk, h, d) /\ mem[e] # Uncached /\ mem[e].scanned
        THEN [mem[e] EXCEPT !.subdirs = @ \cup {SubSeq(d, 1, Len(e) + 1)}]
        ELSE mem[e]]

Missed(dk, h, d) == {e \in StopsAt(dk, h, d) : mem[e] = Uncached}

(* cache_lookup() without create_if_missing.                                  *)
Lookup(dk, h, d) ==
    IF mem[d] # Uncached
    THEN [mem |-> mem, absent |-> absent, disk |-> dk]
    ELSE IF ~ Loadable(dk, h, d)
    THEN [mem |-> mem, absent |-> absent \cup {d}, disk |-> dk]
    ELSE [mem |-> Insert(dk, h, d), absent |-> absent \cup Missed(dk, h, d), disk |-> dk]

(* create_fs_dir() goes up to the first directory that has a file.            *)
ToMake(dk, d) ==
    {e \in Above(d) \cup {d} :
        \A x \in Above(d) \cup {d} : IsBelow(e, x) => dk[x].file = NoFile}

Make(dk, D) ==
    [e \in Dirs |-> IF e \in D THEN [dk[e] EXCEPT !.folder = TRUE, !.file = Nothing]
                    ELSE dk[e]]

(* cache_lookup() with create_if_missing.  cache_unset_nonexistent() comes     *)
(* after cache_add_to_parent().                                              *)
Obtain(dk, h, d) ==
    IF mem[d] # Uncached \/ Loadable(dk, h, d)
    THEN Lookup(dk, h, d)
    ELSE LET made == Make(dk, ToMake(dk, d)) IN
         [mem |-> Insert(made, h, d),
          absent |-> (absent \cup Missed(made, h, d)) \ (Above(d) \cup {d}),
          disk |-> made]

(* create_fs_dir() when it fails at some directory: what is above it has been *)
(* made, of itself perhaps the folder.                                       *)
HalfMade(dk, d) ==
    UNION {{[Make(dk, {x \in ToMake(dk, d) : x # e /\ IsBelow(x, e)})
                EXCEPT ![e].folder = @ \/ b] : b \in BOOLEAN} : e \in ToMake(dk, d)}

(* dir_load_doc(), when the file can be read.                                 *)
Read(m, f) ==
    IF m.loaded THEN m ELSE [m EXCEPT !.loaded = TRUE, !.entries = Content(f)]

(* dir_rescan_subdirs(), when the folder can be read.                         *)
Scan(m, dk, d) ==
    IF m.scanned THEN m
    ELSE [m EXCEPT !.scanned = TRUE,
                   !.subdirs = {c \in Children(d) : dk[c].file # NoFile}]

(* dir_useless() loads the file and the list, if it can: the outcome by the   *)
(* call that fails.  (It tries twice to read the file, and fails twice.)      *)
Examined(m, dk, d, kind) ==
    CASE kind = "none" -> Scan(Read(m, dk[d].file), dk, d)
      [] kind = "scan" -> [Read(m, dk[d].file) EXCEPT !.scanned = TRUE, !.subdirs = {}]
      [] kind = "read" -> m

Examines(m) ==
    {"none"} \cup (IF m.scanned THEN {} ELSE {"scan"}) \cup (IF m.loaded THEN {} ELSE {"read"})

Useless(m) == m.subdirs = {} /\ m.entries = Nothing

-----------------------------------------------------------------------------
(* Requests                                                                  *)

Idle == sync.at = "none"

Find(creates, h, d) == IF creates THEN Obtain(disk, h, d) ELSE Lookup(disk, h, d)

(* A directory that a request has found, with its file loaded.                *)
Opened(creates, h, d) ==
    LET found == Find(creates, h, d) IN Read(found.mem[d], found.disk[d].file)

(* The request leaves m of the directory, if it has found one.                *)
Request(creates, h, d, m) ==
    LET found == Find(creates, h, d) IN
    /\ Idle
    /\ SeesAllBut(h)
    /\ absent' = found.absent
    /\ disk' = found.disk
    /\ mem' = IF found.mem[d] = Uncached THEN found.mem
              ELSE [found.mem EXCEPT ![d] = m]
    /\ UNCHANGED sync

WithValue(m, k, v) == [m EXCEPT !.entries[k].value = v, !.dirty = TRUE]

(* set_value(), dir_set_value()                                               *)
SetValue(d, k, v) ==
    /\ \E h \in Unseen : Request(TRUE, h, d, WithValue(Opened(TRUE, h, d), k, v))
    /\ asked' = [asked EXCEPT ![d][k].value = v]

(* unset_value(), dir_unset_value(): a directory that does not exist is not    *)
(* created, and one without the value not written.                           *)
UnsetValue(d, k) ==
    /\ \E h \in Unseen :
          LET m == Opened(FALSE, h, d) IN
          Request(FALSE, h, d, IF m.entries[k].value = None THEN m ELSE WithValue(m, k, None))
    /\ asked' = [asked EXCEPT ![d][k].value = None]

(* set_schema(), dir_set_schema(), also to remove the name of the schema.      *)
SetSchema(d, k, s) ==
    /\ \E h \in Unseen :
          Request(TRUE, h, d,
                  [Opened(TRUE, h, d) EXCEPT !.entries[k].schema = s, !.dirty = TRUE])
    /\ asked' = [asked EXCEPT ![d][k].schema = s]

(* query_value(), query_metainfo(), all_entries()                             *)
Query(d) ==
    \E h \in Unseen : Request(FALSE, h, d, Opened(FALSE, h, d))

(* Any of these, when the file cannot be read.                                *)
Unreadable(d) ==
    /\ Idle
    /\ Fails("read")
    /\ \E creates \in BOOLEAN :
          LET found == Find(creates, {}, d) IN
          /\ found.disk = disk /\ found.mem[d] # Uncached /\ ~ found.mem[d].loaded
          /\ mem' = found.mem /\ absent' = found.absent
    /\ UNCHANGED <<disk, sync>>

(* A request that would create the directory, and fails to.                   *)
CannotCreate(d) ==
    /\ Idle
    /\ mem[d] = Uncached /\ disk[d].file = NoFile
    /\ Fails("make")
    /\ disk' \in HalfMade(disk, d)
    /\ UNCHANGED <<mem, absent, sync>>

(* dir_exists() does not read the file.                                       *)
DirExists(d) ==
    /\ Idle
    /\ \E h \in Unseen :
          /\ SeesAllBut(h)
          /\ mem' = Lookup(disk, h, d).mem
          /\ absent' = Lookup(disk, h, d).absent
    /\ UNCHANGED <<disk, sync>>

CleanAny(d) ==
    /\ Idle
    /\ mem[d] # Uncached
    /\ mem' = [mem EXCEPT ![d] = Uncached]
    /\ UNCHANGED <<absent, disk, sync, faults>>

(* cache_clean(): which directories are old enough is left open.              *)
Clean(d) ==
    /\ Idle
    /\ mem[d] # Uncached /\ ~ mem[d].dirty
    /\ mem' = [mem EXCEPT ![d] = Uncached]
    /\ UNCHANGED <<absent, disk, sync, faults>>

-----------------------------------------------------------------------------
(* cache_sync().  dircmp() is to put subdirectories first, but it orders      *)
(* /a/z < /a < /a-b < /a/z in a circle; hence any order.                      *)

BeginSync(for) ==
    /\ Idle
    /\ sync' = [NoSync EXCEPT !.at = "visit", !.todo = Cached, !.for = for]
    /\ UNCHANGED <<mem, absent, disk, faults>>

(* sync_all()                                                                 *)
SyncAll == BeginSync({})

(* all_subdirs() syncs first.                                                 *)
AllSubdirs(d) == BeginSync({d})

At(step) == sync.at = step

VisitClean(d) ==
    /\ At("visit") /\ d \in sync.todo /\ ~ mem[d].dirty
    /\ sync' = [sync EXCEPT !.todo = @ \ {d}]
    /\ UNCHANGED <<mem, absent, disk, faults>>

VisitDirty(d) ==
    /\ At("visit") /\ d \in sync.todo /\ mem[d].dirty
    /\ \E kind \in Examines(mem[d]) :
          LET m == Examined(mem[d], disk, d, kind) IN
          /\ Occurs(kind)
          /\ mem' = [mem EXCEPT ![d] = m]
          /\ sync' = [sync EXCEPT !.todo = @ \ {d}, !.dir = d,
                                  !.at = IF Useless(m) THEN "unlink" ELSE "write"]
    /\ UNCHANGED <<absent, disk>>

(* On with the pass, after a directory that was dirty.                        *)
Back == [sync EXCEPT !.at = "visit", !.dir = Root, !.kept = FALSE]

GiveUp == sync' = [Back EXCEPT !.failed = TRUE]

WithoutDir(m, d) ==
    [m EXCEPT !.dirty = TRUE, !.subdirs = IF m.scanned THEN @ \ {d} ELSE @]

ForgetUnforced(dk, d) ==
    /\ disk' = dk
    /\ mem' = [e \in Dirs |-> IF e = d THEN Uncached
                              ELSE IF e = Parent(d) /\ mem[e] # Uncached THEN WithoutDir(mem[e], d)
                              ELSE mem[e]]
    /\ absent' = absent \cup {d}

(* The directory leaves the cache.  cache_remove_from_parent() has to have the *)
(* parent, and creates it if it must.                                        *)
Forget(dk, d) ==
    LET found == Obtain(dk, {}, Parent(d)) IN
    /\ disk' = found.disk
    /\ mem' = [found.mem EXCEPT ![d] = Uncached, ![Parent(d)] = WithoutDir(@, d)]
    /\ absent' = found.absent \cup {d}

Deleted == sync' = [Back EXCEPT !.deleted = TRUE]

UnlinkFile ==
    LET d == sync.dir IN
    /\ At("unlink") /\ disk[d].file # NoFile
    /\ disk' = [disk EXCEPT ![d].file = NoFile]
    /\ IF d = Root
       THEN /\ Deleted
            /\ mem' = [mem EXCEPT ![d] = Uncached]
            /\ absent' = absent \cup {d}
       ELSE /\ sync' = [sync EXCEPT !.at = "rmdir"]
            /\ UNCHANGED <<mem, absent>>
    /\ UNCHANGED <<faults>>

UnlinkFileFails ==
    /\ At("unlink")
    /\ Occurs(IF disk[sync.dir].file = NoFile THEN "none" ELSE "unlink")
    /\ GiveUp
    /\ UNCHANGED <<mem, absent, disk>>

EmptyFolder(d) ==
    /\ ~ disk[d].tmp /\ disk[d].old = NoFile
    /\ \A c \in Children(d) : ~ disk[c].folder

RemoveFolder ==
    /\ At("rmdir") /\ EmptyFolder(sync.dir)
    /\ Forget([disk EXCEPT ![sync.dir].folder = FALSE], sync.dir)
    /\ Deleted
    /\ UNCHANGED <<faults>>

(* The parent is not there and cannot be made.                                *)
RemoveFolderOfOrphan ==
    LET d == sync.dir
        dk == [disk EXCEPT ![d].folder = FALSE] IN
    /\ At("rmdir") /\ EmptyFolder(d)
    /\ mem[Parent(d)] = Uncached /\ disk[Parent(d)].file = NoFile
    /\ Fails("make")
    /\ disk' \in HalfMade(dk, Parent(d))
    /\ mem' = [mem EXCEPT ![d] = Uncached]
    /\ absent' = absent \cup {d}
    /\ Deleted

RemoveFolderFails ==
    /\ At("rmdir")
    /\ Occurs(IF EmptyFolder(sync.dir) THEN "rmdir" ELSE "none")
    /\ GiveUp
    /\ UNCHANGED <<mem, absent, disk>>

WriteTmp ==
    /\ At("write")
    /\ disk' = [disk EXCEPT ![sync.dir].tmp = TRUE]
    /\ sync' = [sync EXCEPT !.at = "move old"]
    /\ UNCHANGED <<mem, absent, faults>>

WriteTmpForgotten ==
    /\ At("write")
    /\ Fails("write")
    /\ mem' = [mem EXCEPT ![sync.dir].dirty = FALSE]
    /\ GiveUp
    /\ UNCHANGED <<absent, disk>>

(* It may have been opened, or not.                                           *)
WriteTmpFails ==
    /\ At("write")
    /\ Fails("write")
    /\ \E opened \in BOOLEAN : disk' = [disk EXCEPT ![sync.dir].tmp = @ \/ opened]
    /\ GiveUp
    /\ UNCHANGED <<mem, absent>>

MoveOld ==
    LET d == sync.dir
        kept == disk[d].file # NoFile IN
    /\ At("move old")
    /\ disk' = IF kept THEN [disk EXCEPT ![d].old = disk[d].file, ![d].file = NoFile]
               ELSE disk
    /\ sync' = [sync EXCEPT !.at = "move new", !.kept = kept]
    /\ UNCHANGED <<mem, absent, faults>>

MoveOldFails ==
    /\ At("move old") /\ disk[sync.dir].file # NoFile
    /\ Fails("move old")
    /\ GiveUp
    /\ UNCHANGED <<mem, absent, disk>>

Synced(d) == mem' = [mem EXCEPT ![d].dirty = FALSE]

MoveNew ==
    LET d == sync.dir IN
    /\ At("move new")
    /\ disk' = [disk EXCEPT ![d].file = mem[d].entries, ![d].tmp = FALSE]
    /\ IF sync.kept
       THEN sync' = [sync EXCEPT !.at = "unlink old"] /\ UNCHANGED mem
       ELSE sync' = Back /\ Synced(d)
    /\ UNCHANGED <<absent, faults>>

(* The old file is moved back, whenever it may have been put there; or that    *)
(* fails as well.                                                            *)
MoveNewFails ==
    LET d == sync.dir IN
    /\ At("move new")
    /\ \/ /\ Fails("move new")
          /\ disk' = IF disk[d].old = NoFile THEN disk
                     ELSE [disk EXCEPT ![d].file = disk[d].old, ![d].old = NoFile]
       \/ Fails("move back") /\ UNCHANGED disk
    /\ GiveUp
    /\ UNCHANGED <<mem, absent>>

(* An old file that stays is not a failure.                                   *)
UnlinkOld ==
    LET d == sync.dir IN
    /\ At("unlink old")
    /\ \/ UNCHANGED faults /\ disk' = [disk EXCEPT ![d].old = NoFile]
       \/ Fails("unlink old") /\ UNCHANGED disk
    /\ sync' = Back
    /\ Synced(d)
    /\ UNCHANGED <<absent>>

PassEnds == At("visit") /\ sync.todo = {}

NeverAgain == FALSE
AgainUntilDone == sync.failed \/ sync.deleted
Again == ~ sync.failed /\ sync.deleted

(* goto redo                                                                  *)
Redo ==
    /\ PassEnds /\ Again
    /\ sync' = [sync EXCEPT !.todo = Cached, !.failed = FALSE, !.deleted = FALSE]
    /\ UNCHANGED <<mem, absent, disk, faults>>

SyncEnds ==
    /\ PassEnds /\ ~ Again
    /\ sync' = IF sync.for = {} THEN NoSync ELSE [sync EXCEPT !.at = "list"]
    /\ UNCHANGED <<mem, absent, disk, faults>>

(* dir_all_subdirs()                                                          *)
List(d) ==
    LET found == Lookup(disk, {}, d)
        m == found.mem[d] IN
    /\ At("list") /\ d \in sync.for
    /\ absent' = found.absent
    /\ IF m = Uncached
       THEN mem' = found.mem /\ UNCHANGED faults
       ELSE \E kind \in Examines(m) :
               /\ Occurs(kind)
               /\ mem' = [found.mem EXCEPT ![d] = Examined(m, disk, d, kind)]
    /\ sync' = NoSync
    /\ UNCHANGED <<disk>>

-----------------------------------------------------------------------------

(* The process ends, by a crash or an exit, and starts again.                 *)
Crash ==
    /\ Fails(IF At("move new") /\ sync.kept THEN "crash in move" ELSE "crash")
    /\ mem' = [d \in Dirs |-> Uncached]
    /\ absent' = {}
    /\ sync' = NoSync
    /\ asked' = [d \in Dirs |-> Content(disk[d].file)]
    /\ UNCHANGED disk

RequestStep ==
    \E d \in Dirs :
        \/ \E k \in Keys :
              \/ \E v \in Values : SetValue(d, k, v)
              \/ UnsetValue(d, k)
              \/ \E s \in Schemas \cup {None} : SetSchema(d, k, s)
        \/ /\ \/ Query(d) \/ DirExists(d) \/ AllSubdirs(d)
              \/ Unreadable(d) \/ CannotCreate(d)
           /\ UNCHANGED asked

DirStep ==
    \/ UnlinkFile \/ UnlinkFileFails \/ RemoveFolder
    \/ RemoveFolderOfOrphan \/ RemoveFolderFails
    \/ WriteTmp \/ WriteTmpFails \/ MoveOld \/ MoveOldFails
    \/ MoveNew \/ MoveNewFails \/ UnlinkOld

SyncStep ==
    /\ \/ \E d \in Dirs : VisitClean(d) \/ VisitDirty(d) \/ List(d)
       \/ DirStep \/ Redo \/ SyncEnds
    /\ UNCHANGED asked

Next ==
    \/ RequestStep \/ SyncStep
    \/ (SyncAll \/ \E d \in Dirs : Clean(d)) /\ UNCHANGED asked
    \/ Crash

Spec == Init /\ [][Next]_vars

(* A sync is a loop within one call: it goes on.                              *)
FairSpec == Spec /\ WF_vars(SyncStep)

-----------------------------------------------------------------------------

(* What the next read of the directory gives.                                 *)
Seen(d) ==
    IF mem[d] = Uncached THEN IF d \in absent THEN Nothing ELSE Content(disk[d].file)
    ELSE IF mem[d].loaded THEN mem[d].entries ELSE Content(disk[d].file)

(* What is on the disk.  While a file is replaced the old one still counts.    *)
Saved(d) ==
    Content(IF At("move new") /\ sync.kept /\ sync.dir = d THEN disk[d].old
            ELSE disk[d].file)

(* Whatever the backend does with its cache and its files, it is a store whose *)
(* reads see what requests have made of it, whose directories are saved whole,  *)
(* and that loses in a crash what was not saved and nothing else.             *)
Store == INSTANCE ConfigStore
    WITH seen <- [d \in Dirs |-> Seen(d)], saved <- [d \in Dirs |-> Saved(d)],
         written <- [d \in Dirs |-> Saved(d)]

StoreSpec == Store!Spec

(* A directory that is not dirty, and may be dropped by cache_clean() at any   *)
(* time, has on disk what it has in memory, whatever calls have failed.       *)
CleanIsOnDisk ==
    \A d \in Dirs : mem[d] # Uncached /\ mem[d].loaded /\ ~ mem[d].dirty
        => mem[d].entries = Content(disk[d].file)

SyncSucceeds == SyncEnds /\ ~ sync.failed

(* A sync that reports success leaves nothing dirty, although deleting a       *)
(* directory makes its parent dirty, which may have been visited before.      *)
SuccessLeavesNothingDirty ==
    [][SyncSucceeds => \A d \in Dirs : mem[d] # Uncached => ~ mem[d].dirty]_vars

(* "Directories auto-disappear when they're empty": after a successful sync    *)
(* there are folders only for directories with entries in or below them,      *)
(* unless a crash or a failed call has left one.                              *)
EmptyDirsDisappear ==
    [][SyncSucceeds /\ faults = 0 =>
        \A d \in Dirs \ {Root} : disk[d].folder =>
            \E e \in Dirs : IsBelow(d, e) /\ Content(disk[e].file) # Nothing]_vars

(* A sync comes to an end, although it starts again after each deletion.       *)
SyncTerminates == ~ Idle ~> Idle
=============================================================================
