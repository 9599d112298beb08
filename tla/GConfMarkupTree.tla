--------------------------- MODULE GConfMarkupTree ---------------------------
(***************************************************************************)
(* GConfMarkupTree: the markup backend (markup-backend.c, markup-tree.c).    *)
(* A tree of directories in memory, loaded from the disk piece by piece.  A    *)
(* directory is either a folder with a file %gconf.xml for its entries, or     *)
(* the root of a subtree that is kept in one file %gconf-tree.xml; a merged    *)
(* tree becomes one such file when it is saved.  Two flags lead a sync to what  *)
(* it has to save: entries_need_save of a directory, and                       *)
(* some_subdir_needs_sync of all those above it.                              *)
(*                                                                         *)
(* A request is one step.  A sync is one step per file saved and per directory  *)
(* deleted: each may fail, and the process may end between any two.            *)
(***************************************************************************)
EXTENDS GConfPaths, FiniteSets

CONSTANTS
    Dirs,           \* the directories, with every one above each
    Keys,           \* names of entries
    Values,         \* values of an entry
    Schemas,        \* names of schemas an entry may have
    None,           \* no value, no schema
    NoEntry,        \* an entry that does not exist
    Absent,         \* a directory that is not in the tree
    NoFile,         \* a file that does not exist
    Faults,         \* what may go wrong
    MaxFaults       \* bound: how often it does

(* System calls that fail: to make a folder, to make, write or move a new file,    *)
(* to unlink a file, to remove a folder; and the end of the process.             *)
FaultKinds == {"make", "write", "unlink", "rmdir", "crash"}

Root == <<>>

ASSUME TreeAssumption ==
    /\ Root \in Dirs
    /\ \A d \in Dirs : d \in Seq(STRING) /\ \A n \in 0..Len(d) : SubSeq(d, 1, n) \in Dirs
    /\ IsFiniteSet(Dirs)
    /\ Faults \subseteq FaultKinds /\ MaxFaults \in Nat

VARIABLES
    mem,        \* MarkupTree.root: the directories in memory
    merged,     \* MarkupTree.merged
    disk,       \* per directory: its folder and its files
    sync,       \* markup_tree_sync(), when it runs
    faults,     \* how often something has gone wrong
    asked       \* history: the entries as requests have left them

vars == <<mem, merged, disk, sync, faults, asked>>

-----------------------------------------------------------------------------
(* Memory and disk                                                          *)

Entries == [value : Values \cup {None}, schema : Schemas \cup {None}]
Useless == [value |-> None, schema |-> None]

Contents == [Keys -> Entries \cup {NoEntry}]
Nothing == [k \in Keys |-> NoEntry]

(* struct _MarkupDir                                                         *)
DirStates == [
    entries : Contents,
    loaded : BOOLEAN,       \* entries_loaded
    listed : BOOLEAN,       \* subdirs_loaded
    dirty : BOOLEAN,        \* entries_need_save
    below : BOOLEAN,        \* some_subdir_needs_sync
    inside : BOOLEAN,       \* not_in_filesystem
    tree : BOOLEAN]         \* save_as_subtree

Blank == [entries |-> Nothing, loaded |-> FALSE, listed |-> FALSE, dirty |-> FALSE,
          below |-> FALSE, inside |-> FALSE, tree |-> FALSE]

Fresh == [d \in Dirs |-> IF d = Root THEN Blank ELSE Absent]

(* %gconf.xml, and %gconf-tree.xml with the directories in it.                  *)
Subtrees == [Dirs -> Contents \cup {Absent}]
ASSUME MarksAssumption ==
    /\ NoFile \notin Contents \cup Subtrees
    /\ Absent \notin DirStates \cup Contents
    /\ NoEntry \notin Entries

Folders == [folder : BOOLEAN, file : Contents \cup {NoFile},
            sub : Subtrees \cup {NoFile}]
NoFolder == [folder |-> FALSE, file |-> NoFile, sub |-> NoFile]

(* One directory that markup_dir_sync() is working on: the next thing to do,     *)
(* subdirectories seen to, whether one of them failed, and whether entries and   *)
(* subdirectories were deleted.                                              *)
Frames == [dir : Dirs, step : {"save", "subdirs", "delete"}, seen : SUBSET Dirs,
           failed : BOOLEAN, emptied : BOOLEAN, removed : BOOLEAN]
Frame(d) == [dir |-> d, step |-> "save", seen |-> {}, failed |-> FALSE,
             emptied |-> FALSE, removed |-> FALSE]

TypeOK ==
    /\ mem \in [Dirs -> DirStates \cup {Absent}]
    /\ mem[Root] # Absent
    /\ merged \in BOOLEAN
    /\ disk \in [Dirs -> Folders]
    /\ sync \in Seq(Frames)
    /\ faults \in 0..MaxFaults
    /\ asked \in [Dirs -> Contents]

Init ==
    /\ mem = Fresh
    /\ merged = FALSE
    /\ disk = [d \in Dirs |-> [NoFolder EXCEPT !.folder = (d = Root)]]
    /\ sync = <<>>
    /\ faults = 0
    /\ asked = [d \in Dirs |-> Nothing]

Parent(d) == SubSeq(d, 1, Len(d) - 1)
Above(d) == {e \in Dirs : IsBelow(e, d) /\ e # d}
Below(d) == {e \in Dirs : IsBelow(d, e) /\ e # d}
Children(d) == {c \in Dirs : c # Root /\ Parent(c) = d}

In(m) == {d \in Dirs : m[d] # Absent}
NeedsSync(m, d) == m[d].dirty \/ m[d].below

(* Something of this kind goes wrong.                                        *)
Fails(kind) ==
    /\ kind \in Faults /\ faults < MaxFaults
    /\ faults' = faults + 1

(* What is said of a key: an entry without value and schema is as good as none.  *)
Plain(c) == [k \in Keys |-> IF c[k] = Useless THEN NoEntry ELSE c[k]]

-----------------------------------------------------------------------------
(* Loading                                                                  *)

Content(f) == IF f = NoFile THEN Nothing ELSE f

(* A directory on the disk has one of the two files.                          *)
Visible(d) == disk[d].folder /\ (disk[d].file # NoFile \/ disk[d].sub # NoFile)

(* parse_dir_element(): a directory inside the file of a subtree.                *)
ReadDir(sub, e) ==
    IF sub[e] = Absent THEN Absent
    ELSE [Blank EXCEPT !.entries = sub[e], !.loaded = TRUE, !.listed = TRUE, !.inside = TRUE]

(* load_subtree(): the root of the subtree and the directories inside.            *)
LoadSubtree(m, d) ==
    [e \in Dirs |->
        IF e = d THEN [m[d] EXCEPT !.entries = disk[d].sub[d], !.loaded = TRUE,
                                   !.listed = TRUE, !.tree = TRUE]
        ELSE IF IsBelow(d, e) THEN ReadDir(disk[d].sub, e) ELSE m[e]]

(* load_entries()                                                            *)
LoadEntries(m, d) ==
    IF m[d].loaded THEN m
    ELSE IF disk[d].sub # NoFile THEN LoadSubtree(m, d)
    ELSE [m EXCEPT ![d].loaded = TRUE, ![d].entries = Content(disk[d].file)]

(* load_subdirs()                                                            *)
LoadSubdirs(m, d) ==
    IF m[d].listed THEN m
    ELSE IF disk[d].sub # NoFile THEN LoadSubtree(m, d)
    ELSE [e \in Dirs |-> IF e = d THEN [m[d] EXCEPT !.listed = TRUE]
                         ELSE IF e \in Children(d) /\ Visible(e) THEN Blank
                         ELSE m[e]]

(* markup_tree_get_dir_internal(): the directories on the way are listed; with    *)
(* create, a directory that does not exist is made, to be saved even if empty.   *)
Walk(m, d, create) ==
    LET at[n \in 0..Len(d)] ==
            IF n = 0 THEN m
            ELSE LET p == SubSeq(d, 1, n - 1)
                     c == SubSeq(d, 1, n)
                     so == at[n - 1]
                     listed == IF so[p] = Absent THEN so ELSE LoadSubdirs(so, p)
                 IN IF create /\ listed[c] = Absent
                    THEN [listed EXCEPT ![c] = [Blank EXCEPT !.loaded = TRUE, !.listed = TRUE,
                                                            !.dirty = TRUE]]
                    ELSE listed
    IN at[Len(d)]

LoadNames(m, d) == LoadSubdirs(m, d)

LoadAll(m, d) == LoadSubdirs(LoadEntries(m, d), d)

(* recursively_load_subtree(): loads a directory and all below it, and notes that  *)
(* those have no folders of their own any more.                               *)
LoadBelow(m, d) ==
    LET depth == {Len(e) : e \in Below(d) \cup {d}}
        at[n \in 0..Cardinality(depth)] ==
            IF n = 0 THEN m
            ELSE LET so == at[n - 1]
                     level == {e \in Below(d) \cup {d} : Len(e) = Len(d) + n - 1
                                                          /\ so[e] # Absent}
                     whole == [e \in level |-> LoadAll(so, e)]
                 IN [e \in Dirs |->
                        IF \E p \in level : IsBelow(p, e)
                        THEN whole[CHOOSE p \in level : IsBelow(p, e)][e]
                        ELSE so[e]]
        all == at[Cardinality(depth)]
    IN [e \in Dirs |-> IF e \in Below(d) /\ all[e] # Absent
                       THEN [all[e] EXCEPT !.inside = TRUE] ELSE all[e]]

-----------------------------------------------------------------------------
(* Requests                                                                  *)

Idle == sync = <<>>

(* markup_dir_set_entries_need_save(): up to the first directory with a folder.   *)
NeedSave(m, d) ==
    [e \in Dirs |->
        IF IsBelow(e, d) /\ \A x \in Dirs : IsBelow(e, x) /\ IsBelow(x, d) /\ x # e
                                               => m[x].inside
        THEN [m[e] EXCEPT !.dirty = TRUE] ELSE m[e]]

(* markup_dir_queue_sync()                                                   *)
QueueSyncOfParent(m, d) ==
    [e \in Dirs |-> IF d \in Children(e) THEN [m[e] EXCEPT !.below = TRUE] ELSE m[e]]

QueueSync(m, d) ==
    [e \in Dirs |-> IF e \in Above(d) THEN [m[e] EXCEPT !.below = TRUE] ELSE m[e]]

(* markup_dir_ensure_entry(), the change of the entry, and the flags.  An entry    *)
(* that is missing is made first, also to be unset.                             *)
Ensured(m, d, k) ==
    IF m[d].entries[k] # NoEntry THEN m
    ELSE QueueSync(NeedSave([m EXCEPT ![d].entries[k] = Useless], d), d)

Entry(d, k) == Ensured(LoadEntries(Walk(mem, d, TRUE), d), d, k)

Changed(m, d, k, e) == QueueSync(NeedSave([m EXCEPT ![d].entries[k] = e], d), d)

Becomes(m, d) ==
    /\ Idle
    /\ mem' = m
    /\ asked' = [asked EXCEPT ![d] = Plain(m[d].entries)]
    /\ UNCHANGED <<merged, disk, sync, faults>>

SetValue(d, k, v) ==
    LET m == Entry(d, k)
    IN Becomes(Changed(m, d, k, [m[d].entries[k] EXCEPT !.value = v]), d)

SetSchema(d, k, s) ==
    LET m == Entry(d, k)
    IN Becomes(Changed(m, d, k, [m[d].entries[k] EXCEPT !.schema = s]), d)

(* Without a value there is nothing to do.                                     *)
UnsetValue(d, k) ==
    LET m == Entry(d, k)
        e == m[d].entries[k]
    IN Becomes(IF e.value = None THEN m ELSE Changed(m, d, k, [e EXCEPT !.value = None]), d)

(* query_value(), query_metainfo() and all_entries() load the entries of a        *)
(* directory that exists, all_subdirs() its subdirectories, dir_exists() no more  *)
(* than the way to it.                                                        *)
Read(d, what) ==
    LET m == Walk(mem, d, FALSE)
    IN /\ Idle
       /\ mem' = IF m[d] = Absent \/ what = "exists" THEN m
                 ELSE IF what = "entries" THEN LoadEntries(m, d)
                 ELSE LoadSubdirs(m, d)
       /\ UNCHANGED <<merged, disk, sync, faults, asked>>

(* markup_tree_get() for another source of the same tree, which asks for one      *)
(* file.                                                                     *)
Merge ==
    /\ Idle /\ ~ merged
    /\ merged' = TRUE
    /\ UNCHANGED <<mem, disk, sync, faults, asked>>

-----------------------------------------------------------------------------
(* markup_dir_sync()                                                         *)

Top == Head(sync)
Working(step) == sync # <<>> /\ Top.step = step

Proceed(top) == sync' = <<top>> \o Tail(sync)

(* sync_all().                                                               *)
SyncAll ==
    /\ Idle /\ NeedsSync(mem, Root)
    /\ sync' = <<Frame(Root)>>
    /\ UNCHANGED <<mem, merged, disk, faults, asked>>

(* clear_cache() syncs, and drops the tree when that has left nothing to do.       *)
ClearCache ==
    /\ Idle /\ ~ NeedsSync(mem, Root)
    /\ mem' = Fresh
    /\ UNCHANGED <<merged, disk, sync, faults, asked>>

(* The directory with all it needs in memory: the root of a merged tree loads    *)
(* whatever is below it.                                                     *)
Whole(d) == IF merged /\ ~ mem[d].tree
            THEN LoadBelow([mem EXCEPT ![d].tree = TRUE], d) ELSE mem

Writes(m, d) == m[d].dirty \/ (m[d].below /\ m[d].tree)

(* The directories that go to the file: delete_useless_entries().               *)
Covered(m, d) == IF m[d].tree THEN {e \in In(m) : IsBelow(d, e)} ELSE {d}
Cleaned(m, d) ==
    [e \in Dirs |-> IF e \in Covered(m, d)
                    THEN [m[e] EXCEPT !.entries = Plain(m[e].entries)] ELSE m[e]]

(* save_tree() has succeeded.                                                 *)
Store(m, d) ==
    LET sub == [e \in Dirs |-> IF e \in Covered(m, d) THEN m[e].entries ELSE Absent]
    IN [disk EXCEPT ![d].folder = TRUE,
                    ![d].sub = IF m[d].tree THEN sub ELSE @,
                    ![d].file = IF m[d].tree THEN @ ELSE m[d].entries]

(* write_dir() notes that the directories in the file have no folder; only the     *)
(* directory itself has its flags cleared.                                    *)
Stored(m, d) ==
    [e \in Dirs |->
        IF e \notin Covered(m, d) THEN m[e]
        ELSE IF e = d
        THEN [m[d] EXCEPT !.dirty = FALSE, !.below = IF m[d].tree THEN FALSE ELSE @]
        ELSE [m[e] EXCEPT !.inside = TRUE]]

CanMake(d) == disk[d].folder \/ d = Root \/ disk[Parent(d)].folder

Saved(top, m, emptied) ==
    Proceed([top EXCEPT !.step = IF m[top.dir].below /\ ~ m[top.dir].tree
                                 THEN "subdirs" ELSE "delete",
                        !.emptied = emptied])

(* The file of the directory is saved, if anything in it has to be.              *)
Save ==
    LET d == Top.dir
        m == Whole(d)
        c == Cleaned(m, d)
    IN /\ Working("save")
       /\ Writes(m, d) /\ CanMake(d)
       /\ mem' = Stored(c, d)
       /\ disk' = Store(c, d)
       /\ Saved(Top, Stored(c, d), c # m)
       /\ UNCHANGED <<merged, faults, asked>>

NothingToSave ==
    LET m == Whole(Top.dir)
    IN /\ Working("save")
       /\ ~ Writes(m, Top.dir)
       /\ mem' = m
       /\ Saved(Top, m, FALSE)
       /\ UNCHANGED <<merged, disk, faults, asked>>

(* The folder cannot be made, or the new file not made, written and moved.        *)
SaveFails ==
    LET d == Top.dir
        m == Whole(d)
        c == Cleaned(m, d)
    IN /\ Working("save")
       /\ Writes(m, d)
       /\ \/ ~ CanMake(d) /\ UNCHANGED <<disk, faults>>
          \/ CanMake(d) /\ ~ disk[d].folder /\ Fails("make") /\ UNCHANGED disk
          \/ CanMake(d) /\ Fails("write") /\ disk' = [disk EXCEPT ![d].folder = TRUE]
       /\ mem' = c
       /\ Saved(Top, c, c # m)
       /\ UNCHANGED <<merged, asked>>

(* The next subdirectory that needs it, once the folder is there; when there is no   *)
(* other, the flag goes, unless one of them has failed.                          *)
Pending == {c \in Children(Top.dir) \cap In(mem) : c \notin Top.seen /\ NeedsSync(mem, c)}

Descend(c) ==
    /\ Working("subdirs") /\ c \in Pending
    /\ \/ disk' = [disk EXCEPT ![Top.dir].folder = CanMake(Top.dir)] /\ UNCHANGED faults
       \/ ~ disk[Top.dir].folder /\ Fails("make") /\ UNCHANGED disk
    /\ sync' = <<Frame(c), [Top EXCEPT !.seen = @ \cup {c}]>> \o Tail(sync)
    /\ UNCHANGED <<mem, merged, asked>>

SubdirsDoneAnyway ==
    /\ Working("subdirs") /\ Pending = {}
    /\ mem' = [mem EXCEPT ![Top.dir].below = FALSE]
    /\ Proceed([Top EXCEPT !.step = "delete"])
    /\ UNCHANGED <<merged, disk, faults, asked>>

SubdirsDone ==
    /\ Working("subdirs") /\ Pending = {}
    /\ mem' = [mem EXCEPT ![Top.dir].below = Top.failed]
    /\ Proceed([Top EXCEPT !.step = "delete"])
    /\ UNCHANGED <<merged, disk, faults, asked>>

(* delete_useless_subdirs(): a directory that has been loaded and holds nothing.    *)
HoldsNothing(m, e) ==
    /\ m[e] # Absent
    /\ m[e].loaded /\ m[e].listed
    /\ m[e].entries = Nothing
    /\ Children(e) \cap In(m) = {}

Emptied == {e \in Children(Top.dir) : HoldsNothing(mem, e)}

(* Its file is unlinked and its folder removed, which needs it to be empty; it    *)
(* leaves the tree whether that works or not.                                  *)
Without(e, unlinked) ==
    LET rest == IF unlinked THEN [disk[e] EXCEPT !.file = IF mem[e].tree THEN @ ELSE NoFile,
                                                 !.sub = IF mem[e].tree THEN NoFile ELSE @]
                ELSE disk[e]
        bare == /\ rest.file = NoFile /\ rest.sub = NoFile
                /\ \A c \in Children(e) : ~ disk[c].folder
    IN [disk EXCEPT ![e] = IF bare THEN NoFolder ELSE rest]

Delete(e) ==
    /\ Working("delete") /\ ~ mem[Top.dir].tree /\ e \in Emptied
    /\ \/ disk' = Without(e, TRUE) /\ UNCHANGED faults
       \/ disk' = Without(e, FALSE) /\ Fails("unlink")
       \/ /\ Fails("rmdir")
          /\ disk' = [disk EXCEPT ![e] = [Without(e, TRUE)[e] EXCEPT !.folder = disk[e].folder]]
    /\ mem' = [mem EXCEPT ![e] = Absent]
    /\ Proceed([Top EXCEPT !.removed = TRUE])
    /\ UNCHANGED <<merged, asked>>

(* delete_useless_subdirs_recurse(): in a subtree, what holds nothing at any depth.  *)
(* The files that some of them have from before are not read any more.           *)
EmptiedBelow(m, d) ==
    {e \in Below(d) \cap In(m) : \A x \in In(m) : IsBelow(e, x) =>
        m[x].loaded /\ m[x].listed /\ m[x].entries = Nothing}

DeleteBelow ==
    LET gone == EmptiedBelow(mem, Top.dir)
    IN /\ Working("delete") /\ mem[Top.dir].tree /\ gone # {}
       /\ mem' = [e \in Dirs |-> IF e \in gone THEN Absent ELSE mem[e]]
       /\ Proceed([Top EXCEPT !.removed = TRUE])
       /\ UNCHANGED <<merged, disk, faults, asked>>

KnownSoFar(top) == mem

(* A directory that has lost something is loaded as a whole, so that the one above  *)
(* sees whether it holds anything.                                            *)
Known(top) ==
    LET listed == IF top.emptied THEN LoadSubdirs(mem, top.dir) ELSE mem
    IN IF top.removed THEN LoadEntries(listed, top.dir) ELSE listed

(* The end of markup_dir_sync() for the directory, and of the sync for the root.    *)
Return ==
    LET m == Known(Top)
        failed == NeedsSync(m, Top.dir)
        rest == Tail(sync)
    IN /\ Working("delete")
       /\ IF mem[Top.dir].tree THEN EmptiedBelow(mem, Top.dir) = {} ELSE Emptied = {}
       /\ mem' = m
       /\ sync' = IF rest = <<>> THEN <<>>
                  ELSE <<[rest[1] EXCEPT !.failed = @ \/ failed]>> \o Tail(rest)
       /\ UNCHANGED <<merged, disk, faults, asked>>

-----------------------------------------------------------------------------
(* The store as a start of the process would find it, and as it is read now        *)

(* The file a directory is in: that of the first subtree on the way, or its own.    *)
FileOf(d) ==
    LET roots == {e \in Dirs : disk[e].sub # NoFile /\ IsBelow(e, d)}
    IN IF roots = {} THEN d ELSE CHOOSE r \in roots : \A e \in roots : IsBelow(r, e)

ContentIn(d, f) ==
    IF disk[f].sub = NoFile THEN Content(disk[d].file)
    ELSE IF disk[f].sub[d] = Absent THEN Nothing ELSE disk[f].sub[d]

InFile(d) == ContentIn(d, FileOf(d))

(* The entries that are found: all the way to the file has to be visible.         *)
OnDisk(d) ==
    LET f == FileOf(d)
    IN IF \A e \in Dirs \ {Root} : IsBelow(e, f) => Visible(e)
       THEN ContentIn(d, f) ELSE Nothing

InMemory(d) ==
    IF mem[d] # Absent
    THEN IF mem[d].loaded THEN Plain(mem[d].entries) ELSE OnDisk(d)
    ELSE IF \E e \in Above(d) : mem[e] # Absent /\ mem[e].listed
                                /\ \A c \in Children(e) : IsBelow(c, d) => mem[c] = Absent
    THEN Nothing ELSE OnDisk(d)

seen == [d \in Dirs |-> InMemory(d)]
written == [d \in Dirs |-> InFile(d)]
saved == [d \in Dirs |-> OnDisk(d)]

(* The process ends, and another starts.                                       *)
Restarted ==
    /\ mem' = Fresh /\ merged' = FALSE /\ sync' = <<>>
    /\ asked' = saved'

Crash == Fails("crash") /\ UNCHANGED disk /\ Restarted

-----------------------------------------------------------------------------

Request ==
    \/ \E d \in Dirs :
          \/ \E k \in Keys :
                \/ UnsetValue(d, k)
                \/ \E v \in Values : SetValue(d, k, v)
                \/ \E s \in Schemas \cup {None} : SetSchema(d, k, s)
          \/ \E what \in {"entries", "subdirs", "exists"} : Read(d, what)
    \/ Merge
    \/ SyncAll \/ ClearCache

SyncStep ==
    \/ Save \/ NothingToSave \/ SaveFails
    \/ \E d \in Dirs : Descend(d) \/ Delete(d)
    \/ SubdirsDone \/ DeleteBelow \/ Return

Next == Request \/ SyncStep \/ Crash

Spec == Init /\ [][Next]_vars

-----------------------------------------------------------------------------
(* Properties                                                                *)

Store_ == INSTANCE ConfigStore

(* The tree and its files are a store: reads see the last change, and a crash       *)
(* loses only what was not saved.                                             *)
StoreSpec == Store_!Spec

(* What is in memory only is found by the next sync: the flags lead to it.          *)
UnsavedIsQueued == TypeOK /\ (Idle /\ seen # saved => NeedsSync(mem, Root))

(* A sync reports success only when everything has been saved.                    *)
Succeeds == /\ sync # <<>> /\ sync' = <<>> /\ UNCHANGED faults
            /\ ~ NeedsSync(mem, Root)'
SuccessIsSaved == [][Succeeds => seen' = saved']_vars

(* After a successful sync in which nothing has ever failed no folder is left that   *)
(* holds nothing, itself or below, unless the tree is one file.                  *)
EmptyDirsDisappear ==
    [][Succeeds /\ faults = 0 /\ ~ mem[Root].tree =>
        \A d \in Dirs \ {Root} : disk[d].folder =>
            \E e \in Dirs : IsBelow(d, e) /\ saved[e] # Nothing]_vars

=============================================================================
