------------------------ MODULE GConfXmlCacheProofs ------------------------
(***************************************************************************)
(* The cache of the XML backend, for any directories, any entries and any    *)
(* number of failures of any kind: what may be dropped from the cache is on   *)
(* disk, and a sync that reports success leaves nothing dirty.  Without the   *)
(* failures that hide or lose a file, cache and files implement ConfigStore;   *)
(* without any, a sync that succeeds leaves no folder without entries.         *)
(***************************************************************************)
EXTENDS GConfXmlCache, SequenceTheorems, TLAPS

Handling == Steps \ {"none", "visit", "list"}

(* A pass goes over directories that stay cached until they are visited, and  *)
(* handles one at a time, which is dirty until it has been written.           *)
PassSound ==
    /\ sync.todo \subseteq Cached
    /\ sync.at \in {"none", "list"} => sync.todo = {}
    /\ sync.at \in Handling =>
          mem[sync.dir] # Uncached /\ mem[sync.dir].dirty /\ sync.dir \notin sync.todo
    /\ sync.at = "rmdir" => sync.dir # Root
    /\ sync.at = "unlink old" => disk[sync.dir].file = mem[sync.dir].entries

(* As long as nothing has failed or been deleted, what is dirty is still to    *)
(* be visited or is being handled.                                           *)
DirtyAhead ==
    sync.at \notin {"none", "list"} /\ ~ sync.failed /\ ~ sync.deleted =>
        \A d \in Cached : mem[d].dirty =>
            d \in sync.todo \/ (sync.at \in Handling /\ d = sync.dir)

CacheInv == CacheTypeOK /\ CleanIsOnDisk /\ PassSound /\ DirtyAhead

-----------------------------------------------------------------------------
(* Values.                                                                   *)

LEMMA ContentsFacts ==
    /\ Nothing \in Contents /\ NoFile \notin Contents
    /\ \A f \in Contents \cup {NoFile} : Content(f) \in Contents
    /\ \A f \in Contents : Content(f) = f
    /\ Content(NoFile) = Nothing
<1>1. Nothing \in Contents
  BY DEF Nothing, Contents, NoEntry, Entries
<1>2. NoFile \notin Contents
  BY MarksAssumption
<1> QED
  BY <1>1, <1>2 DEF Content

LEMMA StateFacts ==
    /\ Blank \in DirStates
    /\ Uncached \notin DirStates
    /\ Blank.loaded = FALSE /\ Blank.dirty = FALSE
    /\ \A m \in DirStates : /\ m.loaded \in BOOLEAN /\ m.dirty \in BOOLEAN
                            /\ m.entries \in Contents /\ m.subdirs \subseteq Dirs
BY ContentsFacts, MarksAssumption DEF Blank, DirStates

(* Reading and scanning change neither what a directory holds on either side  *)
(* nor whether it is dirty.                                                  *)
Kept(m, n, f) ==
    /\ n \in DirStates
    /\ n.dirty = m.dirty
    /\ (n.loaded = m.loaded /\ n.entries = m.entries) \/ n.entries = Content(f)

LEMMA ReadKeeps ==
    ASSUME NEW m \in DirStates, NEW f \in Contents \cup {NoFile}
    PROVE  Kept(m, Read(m, f), f)
BY ContentsFacts DEF Kept, Read, DirStates

LEMMA ScanKeeps ==
    ASSUME NEW m \in DirStates, NEW dk, NEW d
    PROVE  /\ Scan(m, dk, d) \in DirStates
           /\ Scan(m, dk, d).dirty = m.dirty
           /\ Scan(m, dk, d).entries = m.entries
           /\ Scan(m, dk, d).loaded = m.loaded
BY DEF Scan, DirStates, Children

LEMMA ExaminedKeeps ==
    ASSUME NEW m \in DirStates, NEW dk \in [Dirs -> Folders], NEW d \in Dirs,
           NEW kind \in {"none", "scan", "read"}
    PROVE  Kept(m, Examined(m, dk, d, kind), dk[d].file)
<1> DEFINE f == dk[d].file
           r == Read(m, f)
<1>1. f \in Contents \cup {NoFile}
  BY DEF Folders
<1>2. Kept(m, r, f)
  BY <1>1, ReadKeeps
<1>3. r \in DirStates
  BY <1>2 DEF Kept
<1> HIDE DEF r, f
<1>4. CASE kind = "none"
  <2>1. Examined(m, dk, d, kind) = Scan(r, dk, d)
    BY <1>4 DEF Examined, r, f
  <2>2. Kept(m, Scan(r, dk, d), f)
    BY <1>2, <1>3, ScanKeeps DEF Kept
  <2> QED
    BY <2>1, <2>2 DEF f
<1>5. CASE kind = "scan"
  <2>1. Examined(m, dk, d, kind) = [r EXCEPT !.scanned = TRUE, !.subdirs = {}]
    BY <1>5 DEF Examined, r, f
  <2>2. Kept(m, [r EXCEPT !.scanned = TRUE, !.subdirs = {}], f)
    BY <1>2, <1>3 DEF Kept, DirStates
  <2> QED
    BY <2>1, <2>2 DEF f
<1>6. CASE kind = "read"
  BY <1>6 DEF Examined, Kept
<1> QED
  BY <1>4, <1>5, <1>6

-----------------------------------------------------------------------------
(* Looking directories up.                                                   *)

LEMMA AboveFacts ==
    ASSUME NEW d \in Dirs, NEW e \in Above(d)
    PROVE  /\ Len(e) \in Nat /\ Len(d) \in Nat /\ Len(e) < Len(d)
           /\ SubSeq(d, 1, Len(e) + 1) \in Dirs
<1>1. d \in Seq(STRING) /\ e \in Seq(STRING) /\ IsBelow(e, d) /\ e # d
  BY DirsAssumption DEF Above
<1>2. Len(e) \in Nat /\ Len(d) \in Nat /\ Len(e) <= Len(d)
  BY <1>1 DEF IsBelow
<1>3. Len(e) # Len(d)
  <2>1. SUFFICES ASSUME Len(e) = Len(d) PROVE FALSE
    OBVIOUS
  <2>2. IsBelow(d, e)
    BY <1>1, <2>1 DEF IsBelow
  <2> QED
    BY <1>1, <2>2, BelowAntisymmetric
<1>4. Len(e) + 1 \in 0..Len(d)
  BY <1>2, <1>3
<1> QED
  BY <1>2, <1>3, <1>4, DirsAssumption

LEMMA ParentFacts ==
    ASSUME NEW d \in Dirs, d # Root
    PROVE  Parent(d) \in Dirs /\ Parent(d) # d
<1>1. d \in Seq(STRING) /\ Len(d) \in Nat /\ Len(d) # 0
  BY DirsAssumption DEF Root
<1>2. Len(d) - 1 \in 0..Len(d)
  BY <1>1
<1>3. Parent(d) \in Dirs
  BY <1>2, DirsAssumption DEF Parent
<1>4. Len(Parent(d)) # Len(d)
  <2> DEFINE n == Len(d) - 1
             s == SubSeq(d, 1, n)
  <2>1. n \in Int /\ 1 \in Int /\ \A i \in 1..n : d[i] \in STRING
    BY <1>1
  <2>2. n # Len(d) /\ n - 1 + 1 = n /\ 0 # Len(d)
    BY <1>1
  <2> HIDE DEF n
  <2>3. Len(s) = IF 1 <= n THEN n - 1 + 1 ELSE 0
    BY <2>1, SubSeqProperties
  <2>4. Parent(d) = s
    BY DEF Parent, n
  <2> HIDE DEF s
  <2> QED
    BY <2>2, <2>3, <2>4
<1> QED
  BY <1>3, <1>4

(* A lookup adds directories that are neither loaded nor dirty, and extends    *)
(* lists of subdirectories.                                                  *)
Grown(m) ==
    /\ m \in [Dirs -> DirStates \cup {Uncached}]
    /\ \A e \in Dirs :
          IF mem[e] = Uncached THEN m[e] \in {Uncached, Blank}
          ELSE /\ m[e] \in DirStates /\ m[e].loaded = mem[e].loaded
               /\ m[e].entries = mem[e].entries /\ m[e].dirty = mem[e].dirty

SameFiles(dk, dl) ==
    /\ dl \in [Dirs -> Folders]
    /\ \A e \in Dirs : Content(dl[e].file) = Content(dk[e].file)

LEMMA InsertGrows ==
    ASSUME CacheTypeOK, NEW dk, NEW h, NEW d \in Dirs, mem[d] = Uncached
    PROVE  Grown(Insert(dk, h, d)) /\ Insert(dk, h, d)[d] = Blank
<1>1. ASSUME NEW e \in LoadedWith(dk, h, d) PROVE mem[e] = Uncached
  <2>1. e \in Above(d) /\ IsBelow(e, e)
    BY DirsAssumption, BelowReflexive DEF LoadedWith, Above
  <2>2. Loadable(dk, h, e)
    BY <2>1 DEF LoadedWith
  <2> QED
    BY <2>2 DEF Loadable
<1>2. ASSUME NEW e \in Dirs, e \in StopsAt(dk, h, d), mem[e] # Uncached, mem[e].scanned
      PROVE  /\ [mem[e] EXCEPT !.subdirs = @ \cup {SubSeq(d, 1, Len(e) + 1)}] \in DirStates
             /\ [mem[e] EXCEPT !.subdirs = @ \cup {SubSeq(d, 1, Len(e) + 1)}].loaded = mem[e].loaded
             /\ [mem[e] EXCEPT !.subdirs = @ \cup {SubSeq(d, 1, Len(e) + 1)}].entries = mem[e].entries
             /\ [mem[e] EXCEPT !.subdirs = @ \cup {SubSeq(d, 1, Len(e) + 1)}].dirty = mem[e].dirty
  <2>1. SubSeq(d, 1, Len(e) + 1) \in Dirs
    BY <1>2, AboveFacts DEF StopsAt
  <2>2. mem[e] \in DirStates
    BY <1>2 DEF CacheTypeOK
  <2> QED
    BY <2>1, <2>2 DEF DirStates
<1>3. ASSUME NEW e \in Dirs
      PROVE  /\ Insert(dk, h, d)[e] \in DirStates \cup {Uncached}
             /\ IF mem[e] = Uncached THEN Insert(dk, h, d)[e] \in {Uncached, Blank}
                ELSE /\ Insert(dk, h, d)[e] \in DirStates
                     /\ Insert(dk, h, d)[e].loaded = mem[e].loaded
                     /\ Insert(dk, h, d)[e].entries = mem[e].entries
                     /\ Insert(dk, h, d)[e].dirty = mem[e].dirty
  <2>1. CASE e = d \/ e \in LoadedWith(dk, h, d)
    <3>1. Insert(dk, h, d)[e] = Blank
      BY <2>1 DEF Insert
    <3> QED
      BY <1>1, <2>1, <3>1, StateFacts
  <2>2. CASE /\ ~ (e = d \/ e \in LoadedWith(dk, h, d))
             /\ e \in StopsAt(dk, h, d) /\ mem[e] # Uncached /\ mem[e].scanned
    <3>1. Insert(dk, h, d)[e] = [mem[e] EXCEPT !.subdirs = @ \cup {SubSeq(d, 1, Len(e) + 1)}]
      BY <2>2 DEF Insert
    <3> QED
      BY <1>2, <2>2, <3>1
  <2>3. CASE /\ ~ (e = d \/ e \in LoadedWith(dk, h, d))
             /\ ~ (e \in StopsAt(dk, h, d) /\ mem[e] # Uncached /\ mem[e].scanned)
    <3>1. Insert(dk, h, d)[e] = mem[e]
      BY <2>3 DEF Insert
    <3> QED
      BY <3>1 DEF CacheTypeOK
  <2> QED
    BY <2>1, <2>2, <2>3
<1>4. Insert(dk, h, d) = [e \in Dirs |-> Insert(dk, h, d)[e]]
  BY DEF Insert
<1>5. Insert(dk, h, d)[d] = Blank
  BY DEF Insert
<1> QED
  BY <1>3, <1>4, <1>5 DEF Grown

LEMMA MakeKeepsFiles ==
    ASSUME NEW dk \in [Dirs -> Folders], NEW D \in SUBSET Dirs,
           \A e \in D : dk[e].file = NoFile
    PROVE  SameFiles(dk, Make(dk, D))
<1>1. ASSUME NEW e \in Dirs
      PROVE  /\ Make(dk, D)[e] \in Folders
             /\ Content(Make(dk, D)[e].file) = Content(dk[e].file)
  <2>1. CASE e \in D
    <3>1. Make(dk, D)[e] = [dk[e] EXCEPT !.folder = TRUE, !.file = Nothing]
      BY <2>1 DEF Make
    <3>2. dk[e] \in Folders
      OBVIOUS
    <3>3. Make(dk, D)[e] \in Folders /\ Make(dk, D)[e].file = Nothing
      BY <3>1, <3>2, ContentsFacts DEF Folders
    <3> QED
      BY <2>1, <3>3, ContentsFacts
  <2>2. CASE e \notin D
    BY <2>2 DEF Make
  <2> QED
    BY <2>1, <2>2
<1>2. Make(dk, D) = [e \in Dirs |-> Make(dk, D)[e]]
  BY DEF Make
<1> QED
  BY <1>1, <1>2 DEF SameFiles

LEMMA ToMakeFacts ==
    ASSUME NEW dk, NEW d \in Dirs
    PROVE  ToMake(dk, d) \subseteq Dirs /\ \A e \in ToMake(dk, d) : dk[e].file = NoFile
<1>1. ASSUME NEW e \in ToMake(dk, d) PROVE e \in Dirs /\ dk[e].file = NoFile
  <2>1. e \in Above(d) \cup {d} /\ e \in Dirs
    BY DEF ToMake, Above
  <2>2. IsBelow(e, e)
    BY <2>1, DirsAssumption, BelowReflexive
  <2> QED
    BY <2>1, <2>2 DEF ToMake
<1> QED
  BY <1>1

LEMMA HalfMadeKeepsFiles ==
    ASSUME NEW dk \in [Dirs -> Folders], NEW d \in Dirs, NEW dl \in HalfMade(dk, d)
    PROVE  SameFiles(dk, dl)
<1>1. PICK e \in ToMake(dk, d), b \in BOOLEAN :
         dl = [Make(dk, {x \in ToMake(dk, d) : x # e /\ IsBelow(x, e)})
                  EXCEPT ![e].folder = @ \/ b]
  BY DEF HalfMade
<1> DEFINE made == Make(dk, {x \in ToMake(dk, d) : x # e /\ IsBelow(x, e)})
<1>2. SameFiles(dk, made)
  BY MakeKeepsFiles, ToMakeFacts
<1>3. dl = [made EXCEPT ![e].folder = @ \/ b]
  BY <1>1
<1>4. e \in Dirs
  BY ToMakeFacts
<1> HIDE DEF made
<1>5. dl \in [Dirs -> Folders] /\ \A x \in Dirs : dl[x].file = made[x].file
  BY <1>2, <1>3, <1>4 DEF SameFiles, Folders
<1> QED
  BY <1>2, <1>5 DEF SameFiles

(* What a lookup finds.                                                      *)
Sound(found, dk) ==
    /\ Grown(found.mem)
    /\ found.absent \subseteq Dirs
    /\ SameFiles(dk, found.disk)

LEMMA LookupIsSound ==
    ASSUME CacheTypeOK, NEW dk \in [Dirs -> Folders], NEW h, NEW d \in Dirs
    PROVE  Sound(Lookup(dk, h, d), dk)
<1>0. Grown(mem) /\ SameFiles(dk, dk)
  BY DEF Grown, CacheTypeOK, SameFiles
<1>1. CASE mem[d] # Uncached
  BY <1>0, <1>1 DEF Lookup, Sound, CacheTypeOK
<1>2. CASE mem[d] = Uncached /\ ~ Loadable(dk, h, d)
  BY <1>0, <1>2 DEF Lookup, Sound, CacheTypeOK
<1>3. CASE mem[d] = Uncached /\ Loadable(dk, h, d)
  <2>1. Missed(dk, h, d) \subseteq Dirs
    BY DEF Missed, StopsAt, Above
  <2> QED
    BY <1>0, <1>3, <2>1, InsertGrows DEF Lookup, Sound, CacheTypeOK
<1> QED
  BY <1>1, <1>2, <1>3

LEMMA ObtainIsSound ==
    ASSUME CacheTypeOK, NEW dk \in [Dirs -> Folders], NEW h, NEW d \in Dirs
    PROVE  Sound(Obtain(dk, h, d), dk) /\ Obtain(dk, h, d).mem[d] # Uncached
<1>1. CASE mem[d] # Uncached
  BY <1>1, LookupIsSound DEF Obtain, Lookup
<1>2. CASE mem[d] = Uncached /\ Loadable(dk, h, d)
  <2>1. Obtain(dk, h, d) = Lookup(dk, h, d)
    BY <1>2 DEF Obtain
  <2>2. Lookup(dk, h, d).mem = Insert(dk, h, d)
    BY <1>2 DEF Lookup
  <2> QED
    BY <1>2, <2>1, <2>2, LookupIsSound, InsertGrows, StateFacts
<1>3. CASE mem[d] = Uncached /\ ~ Loadable(dk, h, d)
  <2> DEFINE made == Make(dk, ToMake(dk, d))
  <2>1. /\ Obtain(dk, h, d).mem = Insert(made, h, d)
        /\ Obtain(dk, h, d).absent = (absent \cup Missed(made, h, d)) \ (Above(d) \cup {d})
        /\ Obtain(dk, h, d).disk = made
    BY <1>3 DEF Obtain
  <2>2. SameFiles(dk, made)
    BY ToMakeFacts, MakeKeepsFiles
  <2>3. Missed(made, h, d) \subseteq Dirs
    BY DEF Missed, StopsAt, Above
  <2> HIDE DEF made
  <2>4. Grown(Insert(made, h, d)) /\ Insert(made, h, d)[d] = Blank
    BY <1>3, InsertGrows
  <2> QED
    BY <2>1, <2>2, <2>3, <2>4, StateFacts DEF Sound, CacheTypeOK
<1> QED
  BY <1>1, <1>2, <1>3

-----------------------------------------------------------------------------
(* The invariant, kept by every step.                                        *)

LEMMA InitCache == Init => CacheInv
<1> SUFFICES ASSUME Init PROVE CacheInv
  OBVIOUS
<1>1. NoFolder \in Folders /\ [NoFolder EXCEPT !.folder = TRUE] \in Folders
  BY DEF NoFolder, Folders
<1>2. NoSync \in Syncs
  BY DirsAssumption DEF NoSync, Syncs, Steps
<1>3. disk \in [Dirs -> Folders]
  <2>1. ASSUME NEW d \in Dirs PROVE [NoFolder EXCEPT !.folder = (d = Root)] \in Folders
    BY DEF NoFolder, Folders
  <2> QED
    BY <2>1 DEF Init
<1>4. CacheTypeOK
  BY <1>2, <1>3, FaultsAssumption DEF Init, CacheTypeOK
<1> QED
  BY <1>4 DEF Init, CacheInv, CleanIsOnDisk, PassSound, DirtyAhead, NoSync, Handling

(* Another directory than the one a step is about.                           *)
OnDisk(m, f) == m # Uncached /\ m.loaded /\ ~ m.dirty => m.entries = Content(f)

(* Failures are counted.                                                     *)
LEMMA FaultsCounted ==
    ASSUME CacheTypeOK, NEW kind, Occurs(kind) \/ Fails(kind) \/ UNCHANGED faults
    PROVE  faults' \in 0..MaxFaults
BY FaultsAssumption DEF CacheTypeOK, Occurs, Fails

(* A step outside a sync, or that ends one: what it finds, and perhaps one      *)
(* directory changed.                                                        *)
LEMMA FindingKeeps ==
    ASSUME CacheInv, sync.at \in {"none", "list"}, NEW found, Sound(found, disk),
           absent' = found.absent, disk' = found.disk, sync' \in {sync, NoSync},
           faults' \in 0..MaxFaults, NEW d \in Dirs, NEW m,
           mem' = IF found.mem[d] = Uncached THEN found.mem ELSE [found.mem EXCEPT ![d] = m],
           found.mem[d] # Uncached => m \in DirStates /\ OnDisk(m, found.disk[d].file)
    PROVE  CacheInv'
<1>1. CacheTypeOK /\ CleanIsOnDisk /\ PassSound
  BY DEF CacheInv
<1>2. /\ found.mem \in [Dirs -> DirStates \cup {Uncached}]
      /\ SameFiles(disk, disk')
  BY DEF Sound, Grown
<1>3. NoSync \in Syncs
  BY DirsAssumption DEF NoSync, Syncs, Steps
<1>4. CacheTypeOK'
  BY <1>1, <1>2, <1>3 DEF CacheTypeOK, Sound, SameFiles
<1>5. CleanIsOnDisk'
  <2>1. ASSUME NEW e \in Dirs PROVE OnDisk(found.mem[e], disk'[e].file)
    <3>1. Content(disk'[e].file) = Content(disk[e].file)
      BY <1>2 DEF SameFiles
    <3>2. CASE mem[e] = Uncached
      BY <3>2, StateFacts DEF Sound, Grown, OnDisk
    <3>3. CASE mem[e] # Uncached
      BY <1>1, <3>1, <3>3 DEF Sound, Grown, OnDisk, CleanIsOnDisk
    <3> QED
      BY <3>2, <3>3
  <2>2. ASSUME NEW e \in Dirs PROVE OnDisk(mem'[e], disk'[e].file)
    BY <1>2, <2>1
  <2> QED
    BY <2>2 DEF OnDisk, CleanIsOnDisk
<1>6. sync'.at \in {"none", "list"} /\ sync'.todo = {}
  <2>1. CASE sync' = sync
    BY <1>1, <2>1 DEF PassSound
  <2>2. CASE sync' = NoSync
    BY <2>2 DEF NoSync
  <2> QED
    BY <2>1, <2>2
<1>7. PassSound' /\ DirtyAhead'
  BY <1>6 DEF PassSound, DirtyAhead, Handling
<1> QED
  BY <1>4, <1>5, <1>7 DEF CacheInv

(* The same, of a step that changes no directory but for what it finds.       *)
LEMMA FoundOnlyKeeps ==
    ASSUME CacheInv, sync.at \in {"none", "list"}, NEW found, Sound(found, disk),
           mem' = found.mem, absent' = found.absent, disk' = found.disk,
           sync' \in {sync, NoSync}, faults' \in 0..MaxFaults
    PROVE  CacheInv'
<1>1. found.mem \in [Dirs -> DirStates \cup {Uncached}]
  BY DEF Sound, Grown
<1>2. Root \in Dirs
  BY DirsAssumption
<1>3. mem' = IF found.mem[Root] = Uncached THEN found.mem
             ELSE [found.mem EXCEPT ![Root] = found.mem[Root]]
  BY <1>1
<1>4. found.mem[Root] # Uncached =>
         found.mem[Root] \in DirStates /\ OnDisk(found.mem[Root], found.disk[Root].file)
  <2>1. Content(found.disk[Root].file) = Content(disk[Root].file)
    BY <1>2 DEF Sound, SameFiles
  <2>2. CASE mem[Root] = Uncached
    BY <1>2, <2>2, StateFacts DEF Sound, Grown, OnDisk
  <2>3. CASE mem[Root] # Uncached
    BY <1>2, <2>1, <2>3 DEF Sound, Grown, OnDisk, CacheInv, CleanIsOnDisk
  <2> QED
    BY <2>2, <2>3
<1> QED
  BY <1>2, <1>3, <1>4, FindingKeeps

LEMMA LookupOnlyKeeps ==
    ASSUME CacheInv, sync.at \in {"none", "list"}, NEW h, NEW d \in Dirs,
           mem' = Lookup(disk, h, d).mem, absent' = Lookup(disk, h, d).absent,
           UNCHANGED disk, sync' \in {sync, NoSync}, faults' \in 0..MaxFaults
    PROVE  CacheInv'
<1>1. Sound(Lookup(disk, h, d), disk)
  BY LookupIsSound DEF CacheInv, CacheTypeOK
<1>2. Lookup(disk, h, d).disk = disk
  BY DEF Lookup
<1> QED
  BY <1>1, <1>2, FoundOnlyKeeps

LEMMA BeginSyncKeeps ==
    ASSUME CacheInv, NEW for \in SUBSET Dirs, BeginSync(for)
    PROVE  CacheInv'
<1>1. sync' = [NoSync EXCEPT !.at = "visit", !.todo = Cached, !.for = for]
  BY DEF BeginSync
<1>2. sync' \in Syncs
  BY <1>1, DirsAssumption DEF NoSync, Syncs, Steps, Cached
<1>3. sync'.at = "visit" /\ sync'.todo = Cached
  BY <1>1 DEF NoSync
<1> QED
  BY <1>2, <1>3
     DEF BeginSync, CacheInv, CacheTypeOK, CleanIsOnDisk, PassSound, DirtyAhead, Handling, Cached

LEMMA FindIsSound ==
    ASSUME CacheTypeOK, NEW creates \in BOOLEAN, NEW h, NEW d \in Dirs
    PROVE  Sound(Find(creates, h, d), disk)
BY LookupIsSound, ObtainIsSound DEF Find, CacheTypeOK

LEMMA OpenedIsOnDisk ==
    ASSUME CacheInv, NEW creates \in BOOLEAN, NEW h, NEW d \in Dirs,
           Find(creates, h, d).mem[d] # Uncached
    PROVE  /\ Opened(creates, h, d) \in DirStates
           /\ OnDisk(Opened(creates, h, d), Find(creates, h, d).disk[d].file)
<1> DEFINE found == Find(creates, h, d)
           f == found.disk[d].file
<1>1. Sound(found, disk)
  BY FindIsSound DEF CacheInv
<1>2. Opened(creates, h, d) = Read(found.mem[d], f)
  BY DEF Opened
<1>3. found.mem[d] # Uncached
  OBVIOUS
<1> HIDE DEF found
<1>4. f \in Contents \cup {NoFile} /\ Content(f) = Content(disk[d].file)
  BY <1>1 DEF Sound, SameFiles, Folders
<1>5. found.mem[d] \in DirStates
  BY <1>1, <1>3 DEF Sound, Grown
<1>6. OnDisk(found.mem[d], f)
  <2>1. CASE mem[d] = Uncached
    BY <1>1, <1>3, <2>1, StateFacts DEF Sound, Grown, OnDisk
  <2>2. CASE mem[d] # Uncached
    BY <1>1, <1>4, <2>2 DEF Sound, Grown, OnDisk, CacheInv, CleanIsOnDisk
  <2> QED
    BY <2>1, <2>2
<1> HIDE DEF f
<1>7. Kept(found.mem[d], Read(found.mem[d], f), f)
  BY <1>4, <1>5, ReadKeeps
<1> QED
  BY <1>2, <1>3, <1>6, <1>7 DEF Kept, OnDisk, found, f

LEMMA RequestKeeps ==
    ASSUME CacheInv, NEW creates \in BOOLEAN, NEW h, NEW d \in Dirs, NEW m,
           Request(creates, h, d, m),
           Find(creates, h, d).mem[d] # Uncached =>
               m \in DirStates /\ OnDisk(m, Find(creates, h, d).disk[d].file)
    PROVE  CacheInv'
<1> DEFINE found == Find(creates, h, d)
<1>1. Sound(found, disk)
  BY FindIsSound DEF CacheInv
<1>2. faults' \in 0..MaxFaults
  BY FaultsCounted DEF Request, SeesAllBut, CacheInv
<1>3. /\ sync.at \in {"none", "list"} /\ sync' = sync
      /\ absent' = found.absent /\ disk' = found.disk
      /\ mem' = IF found.mem[d] = Uncached THEN found.mem ELSE [found.mem EXCEPT ![d] = m]
  BY DEF Request, Idle
<1>4. found.mem[d] # Uncached => m \in DirStates /\ OnDisk(m, found.disk[d].file)
  OBVIOUS
<1> HIDE DEF found
<1> QED
  BY <1>1, <1>2, <1>3, <1>4, FindingKeeps

LEMMA ChangedStates ==
    ASSUME NEW m \in DirStates, NEW k \in Keys
    PROVE  /\ \A v \in Values \cup {None} :
                  WithValue(m, k, v) \in DirStates /\ WithValue(m, k, v).dirty
           /\ \A s \in Schemas \cup {None} :
                  /\ [m EXCEPT !.entries[k].schema = s, !.dirty = TRUE] \in DirStates
                  /\ [m EXCEPT !.entries[k].schema = s, !.dirty = TRUE].dirty
<1>1. m.entries \in [Keys -> Entries] /\ m.entries[k] \in Entries
  BY DEF DirStates, Contents
<1>2. ASSUME NEW v \in Values \cup {None}
      PROVE  WithValue(m, k, v) \in DirStates /\ WithValue(m, k, v).dirty
  <2>1. [m.entries EXCEPT ![k].value = v] \in Contents
    BY <1>1 DEF Entries, Contents
  <2> QED
    BY <2>1 DEF WithValue, DirStates
<1>3. ASSUME NEW s \in Schemas \cup {None}
      PROVE  /\ [m EXCEPT !.entries[k].schema = s, !.dirty = TRUE] \in DirStates
             /\ [m EXCEPT !.entries[k].schema = s, !.dirty = TRUE].dirty
  <2>1. [m.entries EXCEPT ![k].schema = s] \in Contents
    BY <1>1 DEF Entries, Contents
  <2> QED
    BY <2>1 DEF DirStates
<1> QED
  BY <1>2, <1>3

LEMMA RequestStepKeeps == CacheInv /\ RequestStep => CacheInv'
<1> SUFFICES ASSUME CacheInv, RequestStep PROVE CacheInv'
  OBVIOUS
<1>1. ASSUME NEW d \in Dirs, NEW k \in Keys, NEW v \in Values, SetValue(d, k, v)
      PROVE  CacheInv'
  <2>1. PICK h \in Unseen : Request(TRUE, h, d, WithValue(Opened(TRUE, h, d), k, v))
    BY <1>1 DEF SetValue
  <2>2. Find(TRUE, h, d).mem[d] # Uncached =>
          /\ WithValue(Opened(TRUE, h, d), k, v) \in DirStates
          /\ WithValue(Opened(TRUE, h, d), k, v).dirty
    BY OpenedIsOnDisk, ChangedStates
  <2> QED
    BY <2>1, <2>2, RequestKeeps DEF OnDisk
<1>2. ASSUME NEW d \in Dirs, NEW k \in Keys, UnsetValue(d, k) PROVE CacheInv'
  <2>1. PICK h \in Unseen :
          LET m == Opened(FALSE, h, d) IN
          Request(FALSE, h, d, IF m.entries[k].value = None THEN m ELSE WithValue(m, k, None))
    BY <1>2 DEF UnsetValue
  <2> DEFINE m == Opened(FALSE, h, d)
             n == IF m.entries[k].value = None THEN m ELSE WithValue(m, k, None)
             found == Find(FALSE, h, d)
  <2>2. found.mem[d] # Uncached => m \in DirStates /\ OnDisk(m, found.disk[d].file)
    BY OpenedIsOnDisk
  <2>3. Request(FALSE, h, d, n)
    BY <2>1
  <2> HIDE DEF m
  <2>4. m \in DirStates => WithValue(m, k, None) \in DirStates /\ WithValue(m, k, None).dirty
    BY ChangedStates
  <2>5. found.mem[d] # Uncached => n \in DirStates /\ OnDisk(n, found.disk[d].file)
    BY <2>2, <2>4 DEF OnDisk
  <2> HIDE DEF n
  <2> QED
    BY <2>3, <2>5, RequestKeeps
<1>3. ASSUME NEW d \in Dirs, NEW k \in Keys, NEW s \in Schemas \cup {None}, SetSchema(d, k, s)
      PROVE  CacheInv'
  <2>1. PICK h \in Unseen :
          Request(TRUE, h, d, [Opened(TRUE, h, d) EXCEPT !.entries[k].schema = s, !.dirty = TRUE])
    BY <1>3 DEF SetSchema
  <2> DEFINE n == [Opened(TRUE, h, d) EXCEPT !.entries[k].schema = s, !.dirty = TRUE]
  <2>2. Find(TRUE, h, d).mem[d] # Uncached => n \in DirStates /\ n.dirty
    BY OpenedIsOnDisk, ChangedStates
  <2>3. Request(TRUE, h, d, n)
    BY <2>1
  <2> HIDE DEF n
  <2> QED
    BY <2>2, <2>3, RequestKeeps DEF OnDisk
<1>4. ASSUME NEW d \in Dirs, Query(d) PROVE CacheInv'
  BY <1>4, OpenedIsOnDisk, RequestKeeps DEF Query
<1>5. ASSUME NEW d \in Dirs, DirExists(d) PROVE CacheInv'
  <2>1. PICK h \in Unseen : /\ SeesAllBut(h)
                            /\ mem' = Lookup(disk, h, d).mem
                            /\ absent' = Lookup(disk, h, d).absent
    BY <1>5 DEF DirExists
  <2>2. faults' \in 0..MaxFaults
    BY <2>1, FaultsCounted DEF SeesAllBut, CacheInv
  <2> QED
    BY <1>5, <2>1, <2>2, LookupOnlyKeeps DEF DirExists, Idle
<1>6. ASSUME NEW d \in Dirs, AllSubdirs(d) PROVE CacheInv'
  BY <1>6, BeginSyncKeeps DEF AllSubdirs
<1>7. ASSUME NEW d \in Dirs, Unreadable(d) PROVE CacheInv'
  <2>1. PICK creates \in BOOLEAN :
          LET found == Find(creates, {}, d) IN
          found.disk = disk /\ mem' = found.mem /\ absent' = found.absent
    BY <1>7 DEF Unreadable
  <2>2. faults' \in 0..MaxFaults
    BY <1>7, FaultsCounted DEF Unreadable, CacheInv
  <2>3. Sound(Find(creates, {}, d), disk)
    BY FindIsSound DEF CacheInv
  <2> QED
    BY <1>7, <2>1, <2>2, <2>3, FoundOnlyKeeps DEF Unreadable, Idle
<1>8. ASSUME NEW d \in Dirs, CannotCreate(d) PROVE CacheInv'
  <2>1. faults' \in 0..MaxFaults
    BY <1>8, FaultsCounted DEF CannotCreate, CacheInv
  <2>2. SameFiles(disk, disk')
    BY <1>8, HalfMadeKeepsFiles DEF CannotCreate, CacheInv, CacheTypeOK
  <2> QED
    BY <1>8, <2>1, <2>2
       DEF CannotCreate, CacheInv, CacheTypeOK, CleanIsOnDisk, PassSound, DirtyAhead,
           Idle, Handling, Cached, SameFiles
<1> QED
  BY <1>1, <1>2, <1>3, <1>4, <1>5, <1>6, <1>7, <1>8 DEF RequestStep

(* A step that handles a directory, and touches no other.                     *)
LEMMA HandlingKeeps ==
    ASSUME CacheInv, sync.at \in Handling, NEW d, d = sync.dir,
           mem' \in [Dirs -> DirStates \cup {Uncached}], absent' \subseteq Dirs,
           disk' \in [Dirs -> Folders], sync' \in Syncs, faults' \in 0..MaxFaults,
           \A e \in Dirs \ {d} : mem'[e] = mem[e] /\ disk'[e] = disk[e],
           OnDisk(mem'[d], disk'[d].file), sync'.todo = sync.todo,
           \/ /\ sync'.at = "visit"
              /\ \/ sync'.failed \/ sync'.deleted
                 \/ /\ sync'.failed = sync.failed /\ sync'.deleted = sync.deleted
                    /\ ~ mem'[d].dirty
           \/ /\ sync'.at \in Handling /\ sync'.dir = d
              /\ sync'.failed = sync.failed /\ sync'.deleted = sync.deleted
              /\ mem'[d] # Uncached /\ mem'[d].dirty
              /\ sync'.at = "rmdir" => d # Root
              /\ sync'.at = "unlink old" => disk'[d].file = mem'[d].entries
    PROVE  CacheInv'
<1>1. d \in Dirs /\ d \notin sync.todo /\ sync.todo \subseteq Cached
  BY DEF CacheInv, CacheTypeOK, Syncs, PassSound
<1>2. CacheTypeOK'
  BY DEF CacheTypeOK
<1>3. CleanIsOnDisk'
  <2>1. ASSUME NEW e \in Dirs PROVE OnDisk(mem'[e], disk'[e].file)
    BY DEF OnDisk, CacheInv, CleanIsOnDisk
  <2> QED
    BY <2>1 DEF OnDisk, CleanIsOnDisk
<1>4. sync'.todo \subseteq Cached'
  BY <1>1 DEF Cached
<1>5. PassSound'
  BY <1>1, <1>4 DEF PassSound, Handling
<1>6. DirtyAhead'
  BY <1>1 DEF DirtyAhead, Cached, CacheInv, Handling
<1> QED
  BY <1>2, <1>3, <1>5, <1>6 DEF CacheInv

(* What is known of the directory that is being handled.                      *)
LEMMA HandledFacts ==
    ASSUME CacheInv, sync.at \in Handling
    PROVE  /\ sync.dir \in Dirs
           /\ mem[sync.dir] \in DirStates /\ mem[sync.dir].dirty
           /\ disk[sync.dir] \in Folders
           /\ mem \in [Dirs -> DirStates \cup {Uncached}]
           /\ disk \in [Dirs -> Folders]
           /\ absent \subseteq Dirs
           /\ sync \in Syncs
BY DEF CacheInv, CacheTypeOK, PassSound, Syncs

LEMMA NextSyncs ==
    ASSUME sync \in Syncs
    PROVE  /\ Back \in Syncs /\ Back.at = "visit" /\ Back.todo = sync.todo
           /\ Back.failed = sync.failed /\ Back.deleted = sync.deleted
           /\ [Back EXCEPT !.failed = TRUE] \in Syncs
           /\ [Back EXCEPT !.failed = TRUE].at = "visit"
           /\ [Back EXCEPT !.failed = TRUE].todo = sync.todo
           /\ [Back EXCEPT !.failed = TRUE].failed
           /\ [Back EXCEPT !.deleted = TRUE] \in Syncs
           /\ [Back EXCEPT !.deleted = TRUE].at = "visit"
           /\ [Back EXCEPT !.deleted = TRUE].todo = sync.todo
           /\ [Back EXCEPT !.deleted = TRUE].deleted
BY DirsAssumption DEF Back, Syncs, Steps

(* A step that fails leaves the directory dirty; it may leave files.          *)
LEMMA GiveUpKeeps ==
    ASSUME CacheInv, sync.at \in Handling, GiveUp, UNCHANGED <<mem, absent>>,
           disk' \in [Dirs -> Folders], faults' \in 0..MaxFaults,
           \A e \in Dirs \ {sync.dir} : disk'[e] = disk[e]
    PROVE  CacheInv'
<1>1. OnDisk(mem'[sync.dir], disk'[sync.dir].file)
  BY HandledFacts DEF OnDisk
<1>2. sync' \in Syncs /\ sync'.at = "visit" /\ sync'.todo = sync.todo /\ sync'.failed
  BY NextSyncs DEF GiveUp, CacheInv, CacheTypeOK
<1> QED
  BY <1>1, <1>2, HandledFacts, HandlingKeeps

LEMMA GiveUpOnlyKeeps ==
    ASSUME CacheInv, sync.at \in Handling, GiveUp, UNCHANGED <<mem, absent, disk>>,
           faults' \in 0..MaxFaults
    PROVE  CacheInv'
BY HandledFacts, GiveUpKeeps

LEMMA WriteKeeps ==
    ASSUME CacheInv,
           \/ WriteTmp \/ WriteTmpFails \/ MoveOld \/ MoveOldFails
           \/ MoveNew \/ MoveNewFails \/ UnlinkOld
    PROVE  CacheInv'
<1> DEFINE d == sync.dir
<1>1. ASSUME WriteTmp PROVE CacheInv'
  <2>1. sync.at \in Handling
    BY <1>1 DEF WriteTmp, At, Handling, Steps
  <2>2. disk' \in [Dirs -> Folders] /\ \A e \in Dirs \ {d} : disk'[e] = disk[e]
    BY <1>1, <2>1, HandledFacts DEF WriteTmp, Folders
  <2>3. /\ sync' \in Syncs /\ sync'.at = "move old" /\ sync'.dir = d /\ sync'.todo = sync.todo
        /\ sync'.failed = sync.failed /\ sync'.deleted = sync.deleted
    BY <1>1, <2>1, HandledFacts DEF WriteTmp, Syncs, Steps
  <2>4. OnDisk(mem'[d], disk'[d].file)
    BY <1>1, <2>1, HandledFacts DEF WriteTmp, OnDisk
  <2>5. UNCHANGED <<mem, absent, faults>> /\ faults \in 0..MaxFaults
    BY <1>1 DEF WriteTmp, CacheInv, CacheTypeOK
  <2>6. sync'.at \in Handling
    BY <2>3 DEF Handling, Steps
  <2> QED
    BY <2>1, <2>2, <2>3, <2>4, <2>5, <2>6, HandledFacts, HandlingKeeps, StateFacts
<1>2. ASSUME WriteTmpFails PROVE CacheInv'
  <2>1. sync.at \in Handling
    BY <1>2 DEF WriteTmpFails, At, Handling, Steps
  <2>2. disk' \in [Dirs -> Folders] /\ \A e \in Dirs \ {d} : disk'[e] = disk[e]
    BY <1>2, <2>1, HandledFacts DEF WriteTmpFails, Folders
  <2>3. faults' \in 0..MaxFaults
    BY <1>2, FaultsCounted DEF WriteTmpFails, CacheInv
  <2> QED
    BY <1>2, <2>1, <2>2, <2>3, GiveUpKeeps DEF WriteTmpFails
<1>3. ASSUME MoveOld PROVE CacheInv'
  <2>1. sync.at \in Handling
    BY <1>3 DEF MoveOld, At, Handling, Steps
  <2>2. disk' \in [Dirs -> Folders] /\ \A e \in Dirs \ {d} : disk'[e] = disk[e]
    <3>1. [disk EXCEPT ![d].old = disk[d].file, ![d].file = NoFile] \in [Dirs -> Folders]
      BY <2>1, HandledFacts DEF Folders
    <3> QED
      BY <1>3, <2>1, <3>1, HandledFacts DEF MoveOld
  <2>3. /\ sync' \in Syncs /\ sync'.at = "move new" /\ sync'.dir = d /\ sync'.todo = sync.todo
        /\ sync'.failed = sync.failed /\ sync'.deleted = sync.deleted
    BY <1>3, <2>1, HandledFacts DEF MoveOld, Syncs, Steps
  <2>4. OnDisk(mem'[d], disk'[d].file)
    BY <1>3, <2>1, HandledFacts DEF MoveOld, OnDisk
  <2>5. UNCHANGED <<mem, absent, faults>> /\ faults \in 0..MaxFaults
    BY <1>3 DEF MoveOld, CacheInv, CacheTypeOK
  <2>6. sync'.at \in Handling
    BY <2>3 DEF Handling, Steps
  <2> QED
    BY <2>1, <2>2, <2>3, <2>4, <2>5, <2>6, HandledFacts, HandlingKeeps, StateFacts
<1>4. ASSUME MoveOldFails PROVE CacheInv'
  <2>1. sync.at \in Handling
    BY <1>4 DEF MoveOldFails, At, Handling, Steps
  <2>2. faults' \in 0..MaxFaults
    BY <1>4, FaultsCounted DEF MoveOldFails, CacheInv
  <2> QED
    BY <1>4, <2>1, <2>2, GiveUpOnlyKeeps DEF MoveOldFails
<1>5. ASSUME MoveNew PROVE CacheInv'
  <2>1. sync.at \in Handling
    BY <1>5 DEF MoveNew, At, Handling, Steps
  <2>2. disk' = [disk EXCEPT ![d].file = mem[d].entries, ![d].tmp = FALSE]
    BY <1>5 DEF MoveNew
  <2>3. mem[d].entries \in Contents
    BY <2>1, HandledFacts, StateFacts
  <2>4. /\ disk' \in [Dirs -> Folders] /\ disk'[d].file = mem[d].entries
        /\ \A e \in Dirs \ {d} : disk'[e] = disk[e]
    BY <2>1, <2>2, <2>3, HandledFacts DEF Folders
  <2>5. UNCHANGED <<absent, faults>> /\ faults \in 0..MaxFaults
    BY <1>5 DEF MoveNew, CacheInv, CacheTypeOK
  <2>6. CASE sync.kept
    <3>1. sync' = [sync EXCEPT !.at = "unlink old"] /\ mem' = mem
      BY <1>5, <2>6 DEF MoveNew
    <3>2. /\ sync' \in Syncs /\ sync'.at = "unlink old" /\ sync'.dir = d
          /\ sync'.todo = sync.todo
          /\ sync'.failed = sync.failed /\ sync'.deleted = sync.deleted
      BY <2>1, <3>1, HandledFacts DEF Syncs, Steps
    <3>3. OnDisk(mem'[d], disk'[d].file)
      BY <2>1, <3>1, HandledFacts DEF OnDisk
    <3>4. sync'.at \in Handling
      BY <3>2 DEF Handling, Steps
    <3> QED
      BY <2>1, <2>4, <2>5, <3>1, <3>2, <3>3, <3>4, HandledFacts, HandlingKeeps, StateFacts
  <2>7. CASE ~ sync.kept
    <3>1. sync' = Back /\ mem' = [mem EXCEPT ![d].dirty = FALSE]
      BY <1>5, <2>7 DEF MoveNew, Synced
    <3>2. /\ mem' \in [Dirs -> DirStates \cup {Uncached}] /\ ~ mem'[d].dirty
          /\ mem'[d].entries = mem[d].entries
          /\ \A e \in Dirs \ {d} : mem'[e] = mem[e]
      BY <2>1, <3>1, HandledFacts DEF DirStates
    <3>3. OnDisk(mem'[d], disk'[d].file)
      BY <2>3, <2>4, <3>2, ContentsFacts DEF OnDisk
    <3> QED
      BY <2>1, <2>4, <2>5, <3>1, <3>2, <3>3, HandledFacts, NextSyncs, HandlingKeeps
  <2> QED
    BY <2>6, <2>7
<1>6. ASSUME MoveNewFails PROVE CacheInv'
  <2>1. sync.at \in Handling
    BY <1>6 DEF MoveNewFails, At, Handling, Steps
  <2>2. disk' \in [Dirs -> Folders] /\ \A e \in Dirs \ {d} : disk'[e] = disk[e]
    <3>1. [disk EXCEPT ![d].file = disk[d].old, ![d].old = NoFile] \in [Dirs -> Folders]
      BY <2>1, HandledFacts DEF Folders
    <3> QED
      BY <1>6, <2>1, <3>1, HandledFacts DEF MoveNewFails
  <2>3. faults' \in 0..MaxFaults
    BY <1>6, FaultsCounted DEF MoveNewFails, CacheInv
  <2> QED
    BY <1>6, <2>1, <2>2, <2>3, GiveUpKeeps DEF MoveNewFails
<1>7. ASSUME UnlinkOld PROVE CacheInv'
  <2>1. sync.at \in Handling /\ disk[d].file = mem[d].entries
    BY <1>7 DEF UnlinkOld, At, Handling, Steps, CacheInv, PassSound
  <2>2. disk' \in {disk, [disk EXCEPT ![d].old = NoFile]}
    BY <1>7 DEF UnlinkOld
  <2>3. /\ disk' \in [Dirs -> Folders] /\ disk'[d].file = disk[d].file
        /\ \A e \in Dirs \ {d} : disk'[e] = disk[e]
    BY <2>1, <2>2, HandledFacts DEF Folders
  <2>4. sync' = Back /\ mem' = [mem EXCEPT ![d].dirty = FALSE] /\ absent' = absent
    BY <1>7 DEF UnlinkOld, Synced
  <2>5. faults' \in 0..MaxFaults
    BY <1>7, FaultsCounted DEF UnlinkOld, CacheInv
  <2>6. /\ mem' \in [Dirs -> DirStates \cup {Uncached}] /\ ~ mem'[d].dirty
        /\ mem'[d].entries = mem[d].entries
        /\ \A e \in Dirs \ {d} : mem'[e] = mem[e]
    BY <2>1, <2>4, HandledFacts DEF DirStates
  <2>7. mem[d].entries \in Contents
    BY <2>1, HandledFacts, StateFacts
  <2>8. OnDisk(mem'[d], disk'[d].file)
    BY <2>1, <2>3, <2>6, <2>7, ContentsFacts DEF OnDisk
  <2> QED
    BY <2>1, <2>3, <2>4, <2>5, <2>6, <2>8, HandledFacts, NextSyncs, HandlingKeeps
<1> QED
  BY <1>1, <1>2, <1>3, <1>4, <1>5, <1>6, <1>7

(* A directory is deleted: it leaves the cache, and its parent becomes dirty,   *)
(* if there is one.                                                          *)
LEMMA DeletedKeeps ==
    ASSUME CacheInv, sync.at = "rmdir", Deleted, NEW m, Grown(m),
           SameFiles(disk, disk'), absent' \subseteq Dirs, faults' \in 0..MaxFaults,
           mem' \in [Dirs -> DirStates \cup {Uncached}], mem'[sync.dir] = Uncached,
           \A e \in Dirs \ {sync.dir} :
              mem'[e] = m[e] \/ (mem'[e] \in DirStates /\ mem'[e].dirty)
    PROVE  CacheInv'
<1>1. sync.at \in Handling
  BY DEF Handling, Steps
<1>2. sync' \in Syncs /\ sync'.at = "visit" /\ sync'.todo = sync.todo /\ sync'.deleted
  BY NextSyncs DEF Deleted, CacheInv, CacheTypeOK
<1>3. CacheTypeOK'
  BY <1>2 DEF CacheTypeOK, SameFiles
<1>4. CleanIsOnDisk'
  <2>1. ASSUME NEW e \in Dirs, mem'[e] = m[e] PROVE OnDisk(mem'[e], disk'[e].file)
    <3>1. Content(disk'[e].file) = Content(disk[e].file)
      BY DEF SameFiles
    <3>2. CASE mem[e] = Uncached
      BY <2>1, <3>2, StateFacts DEF Grown, OnDisk
    <3>3. CASE mem[e] # Uncached
      BY <2>1, <3>1, <3>3 DEF Grown, OnDisk, CacheInv, CleanIsOnDisk
    <3> QED
      BY <3>2, <3>3
  <2>2. ASSUME NEW e \in Dirs PROVE OnDisk(mem'[e], disk'[e].file)
    <3>1. CASE e = sync.dir
      BY <3>1 DEF OnDisk
    <3>2. CASE e # sync.dir
      BY <2>1, <3>2 DEF OnDisk
    <3> QED
      BY <3>1, <3>2
  <2> QED
    BY <2>2 DEF OnDisk, CleanIsOnDisk
<1>5. sync'.todo \subseteq Cached'
  <2>1. ASSUME NEW e \in sync.todo PROVE e \in Dirs /\ mem'[e] # Uncached
    <3>1. e \in Dirs /\ mem[e] # Uncached /\ e # sync.dir
      BY <1>1, <2>1 DEF CacheInv, CacheTypeOK, Syncs, PassSound, Cached
    <3>2. m[e] \in DirStates
      BY <3>1 DEF Grown
    <3> QED
      BY <3>1, <3>2, StateFacts
  <2> QED
    BY <1>2, <2>1 DEF Cached
<1> QED
  BY <1>2, <1>3, <1>4, <1>5 DEF CacheInv, PassSound, DirtyAhead, Handling

LEMMA DeleteKeeps ==
    ASSUME CacheInv,
           \/ UnlinkFile \/ UnlinkFileFails
           \/ RemoveFolder \/ RemoveFolderOfOrphan \/ RemoveFolderFails
    PROVE  CacheInv'
<1> DEFINE d == sync.dir
           dk == [disk EXCEPT ![d].folder = FALSE]
<1>1. ASSUME UnlinkFile PROVE CacheInv'
  <2>1. sync.at \in Handling
    BY <1>1 DEF UnlinkFile, At, Handling, Steps
  <2>2. disk' = [disk EXCEPT ![d].file = NoFile]
    BY <1>1 DEF UnlinkFile
  <2>3. disk' \in [Dirs -> Folders] /\ \A e \in Dirs \ {d} : disk'[e] = disk[e]
    BY <2>1, <2>2, HandledFacts DEF Folders
  <2>4. UNCHANGED faults /\ faults \in 0..MaxFaults
    BY <1>1 DEF UnlinkFile, CacheInv, CacheTypeOK
  <2>5. CASE d = Root
    <3>1. Deleted /\ mem' = [mem EXCEPT ![d] = Uncached] /\ absent' = absent \cup {d}
      BY <1>1, <2>5 DEF UnlinkFile
    <3>2. /\ sync' \in Syncs /\ sync'.at = "visit" /\ sync'.todo = sync.todo
          /\ sync'.deleted
      BY <3>1, NextSyncs DEF Deleted, CacheInv, CacheTypeOK
    <3>3. /\ mem' \in [Dirs -> DirStates \cup {Uncached}] /\ mem'[d] = Uncached
          /\ \A e \in Dirs \ {d} : mem'[e] = mem[e]
      BY <2>1, <3>1, HandledFacts
    <3>4. absent' \subseteq Dirs
      BY <2>1, <3>1, HandledFacts
    <3>5. OnDisk(mem'[d], disk'[d].file)
      BY <3>3 DEF OnDisk
    <3> QED
      BY <2>1, <2>3, <2>4, <3>2, <3>3, <3>4, <3>5, HandlingKeeps
  <2>6. CASE d # Root
    <3>1. sync' = [sync EXCEPT !.at = "rmdir"] /\ UNCHANGED <<mem, absent>>
      BY <1>1, <2>6 DEF UnlinkFile
    <3>2. /\ sync' \in Syncs /\ sync'.at = "rmdir" /\ sync'.dir = d /\ sync'.todo = sync.todo
          /\ sync'.failed = sync.failed /\ sync'.deleted = sync.deleted
      BY <2>1, <3>1, HandledFacts DEF Syncs, Steps
    <3>3. OnDisk(mem'[d], disk'[d].file)
      BY <2>1, <3>1, HandledFacts DEF OnDisk
    <3>4. sync'.at \in Handling
      BY <3>2 DEF Handling, Steps
    <3> QED
      BY <2>1, <2>3, <2>4, <2>6, <3>1, <3>2, <3>3, <3>4, HandledFacts, HandlingKeeps, StateFacts
  <2> QED
    BY <2>5, <2>6
<1>2. ASSUME UnlinkFileFails PROVE CacheInv'
  <2>1. sync.at \in Handling
    BY <1>2 DEF UnlinkFileFails, At, Handling, Steps
  <2>2. faults' \in 0..MaxFaults
    BY <1>2, FaultsCounted DEF UnlinkFileFails, CacheInv
  <2> QED
    BY <1>2, <2>1, <2>2, GiveUpOnlyKeeps DEF UnlinkFileFails
<1>3. ASSUME RemoveFolderFails PROVE CacheInv'
  <2>1. sync.at \in Handling
    BY <1>3 DEF RemoveFolderFails, At, Handling, Steps
  <2>2. faults' \in 0..MaxFaults
    BY <1>3, FaultsCounted DEF RemoveFolderFails, CacheInv
  <2> QED
    BY <1>3, <2>1, <2>2, GiveUpOnlyKeeps DEF RemoveFolderFails
<1>4. ASSUME sync.at = "rmdir"
      PROVE  /\ d \in Dirs /\ d # Root /\ Parent(d) \in Dirs /\ Parent(d) # d
             /\ SameFiles(disk, dk)
  <2>1. sync.at \in Handling
    BY <1>4 DEF Handling, Steps
  <2>2. d \in Dirs /\ d # Root
    BY <1>4, <2>1, HandledFacts DEF CacheInv, PassSound
  <2>3. SameFiles(disk, dk)
    BY <2>1, HandledFacts DEF SameFiles, Folders
  <2> QED
    BY <2>2, <2>3, ParentFacts
<1>5. ASSUME RemoveFolder PROVE CacheInv'
  <2>1. sync.at = "rmdir" /\ Forget(dk, d) /\ Deleted /\ UNCHANGED faults
    BY <1>5 DEF RemoveFolder, At
  <2> DEFINE p == Parent(d)
             found == Obtain(dk, {}, p)
  <2>2. /\ disk' = found.disk /\ absent' = found.absent \cup {d}
        /\ mem' = [found.mem EXCEPT ![d] = Uncached, ![p] = WithoutDir(@, d)]
    BY <2>1 DEF Forget
  <2>3. d \in Dirs /\ p \in Dirs /\ p # d /\ SameFiles(disk, dk)
    BY <1>4, <2>1
  <2>4. dk \in [Dirs -> Folders]
    BY <2>3 DEF SameFiles
  <2> HIDE DEF p, dk
  <2>5. Sound(found, dk) /\ found.mem[p] # Uncached
    BY <2>3, <2>4, ObtainIsSound DEF CacheInv
  <2> HIDE DEF found
  <2>6. found.mem \in [Dirs -> DirStates \cup {Uncached}] /\ found.mem[p] \in DirStates
    BY <2>3, <2>5 DEF Sound, Grown
  <2>7. WithoutDir(found.mem[p], d) \in DirStates /\ WithoutDir(found.mem[p], d).dirty
    BY <2>6 DEF WithoutDir, DirStates
  <2>8. /\ mem' \in [Dirs -> DirStates \cup {Uncached}] /\ mem'[d] = Uncached
        /\ mem'[p] \in DirStates /\ mem'[p].dirty
        /\ \A e \in Dirs \ {d} : e # p => mem'[e] = found.mem[e]
    BY <2>2, <2>3, <2>6, <2>7
  <2>9. SameFiles(disk, disk')
    BY <2>2, <2>3, <2>5 DEF Sound, SameFiles
  <2>10. absent' \subseteq Dirs /\ faults' \in 0..MaxFaults
    BY <2>1, <2>2, <2>3, <2>5 DEF Sound, CacheInv, CacheTypeOK
  <2>11. Grown(found.mem)
    BY <2>5 DEF Sound
  <2> HIDE DEF d
  <2>12. \A e \in Dirs \ {d} :
            mem'[e] = found.mem[e] \/ (mem'[e] \in DirStates /\ mem'[e].dirty)
    BY <2>8
  <2> QED
    BY <2>1, <2>8, <2>9, <2>10, <2>11, <2>12, DeletedKeeps DEF d
<1>6. ASSUME RemoveFolderOfOrphan PROVE CacheInv'
  <2>1. /\ sync.at = "rmdir" /\ Deleted /\ disk' \in HalfMade(dk, Parent(d))
        /\ mem' = [mem EXCEPT ![d] = Uncached] /\ absent' = absent \cup {d}
    BY <1>6 DEF RemoveFolderOfOrphan, At
  <2>2. d \in Dirs /\ Parent(d) \in Dirs /\ SameFiles(disk, dk)
    BY <1>4, <2>1
  <2>3. dk \in [Dirs -> Folders]
    BY <2>2 DEF SameFiles
  <2> HIDE DEF dk
  <2>4. SameFiles(dk, disk')
    BY <2>1, <2>2, <2>3, HalfMadeKeepsFiles
  <2>5. SameFiles(disk, disk')
    BY <2>2, <2>4 DEF SameFiles
  <2>6. Grown(mem)
    BY DEF Grown, CacheInv, CacheTypeOK
  <2>7. faults' \in 0..MaxFaults
    BY <1>6, FaultsCounted DEF RemoveFolderOfOrphan, CacheInv
  <2>8. /\ mem' \in [Dirs -> DirStates \cup {Uncached}] /\ mem'[d] = Uncached
        /\ absent' \subseteq Dirs /\ \A e \in Dirs \ {d} : mem'[e] = mem[e]
    BY <2>1, <2>2 DEF CacheInv, CacheTypeOK
  <2> QED
    BY <2>1, <2>5, <2>6, <2>7, <2>8, DeletedKeeps
<1> QED
  BY <1>1, <1>2, <1>3, <1>5, <1>6

LEMMA VisitKeeps ==
    ASSUME CacheInv, NEW d \in Dirs, VisitClean(d) \/ VisitDirty(d)
    PROVE  CacheInv'
<1>1. d \in sync.todo /\ sync.at = "visit" /\ sync \in Syncs /\ mem[d] \in DirStates
  BY DEF VisitClean, VisitDirty, At, CacheInv, CacheTypeOK, PassSound, Cached
<1>2. CASE VisitClean(d)
  <2>1. sync' = [sync EXCEPT !.todo = @ \ {d}] /\ UNCHANGED <<mem, absent, disk, faults>>
    BY <1>2 DEF VisitClean
  <2>2. /\ sync' \in Syncs /\ sync'.at = "visit" /\ sync'.todo = sync.todo \ {d}
        /\ sync'.failed = sync.failed /\ sync'.deleted = sync.deleted
    BY <1>1, <2>1 DEF Syncs
  <2>3. ~ mem[d].dirty
    BY <1>2 DEF VisitClean
  <2> QED
    BY <1>1, <2>1, <2>2, <2>3
       DEF CacheInv, CacheTypeOK, CleanIsOnDisk, PassSound, DirtyAhead, Handling, Cached
<1>3. CASE VisitDirty(d)
  <2>1. PICK kind \in Examines(mem[d]) :
           LET m == Examined(mem[d], disk, d, kind) IN
           /\ Occurs(kind)
           /\ mem' = [mem EXCEPT ![d] = m]
           /\ sync' = [sync EXCEPT !.todo = @ \ {d}, !.dir = d,
                                   !.at = IF Useless(m) THEN "unlink" ELSE "write"]
    BY <1>3 DEF VisitDirty
  <2> DEFINE m == Examined(mem[d], disk, d, kind)
  <2>2. mem[d].dirty /\ UNCHANGED <<absent, disk>>
    BY <1>3 DEF VisitDirty
  <2>3. kind \in {"none", "scan", "read"}
    BY DEF Examines
  <2>4. m \in DirStates /\ m.dirty
    BY <1>1, <2>2, <2>3, ExaminedKeeps DEF Kept, CacheInv, CacheTypeOK
  <2>5. faults' \in 0..MaxFaults
    BY <2>1, FaultsCounted DEF CacheInv
  <2>6. mem' = [mem EXCEPT ![d] = m]
    BY <2>1
  <2>7. /\ sync' \in Syncs /\ sync'.at \in {"unlink", "write"} /\ sync'.dir = d
        /\ sync'.todo = sync.todo \ {d}
        /\ sync'.failed = sync.failed /\ sync'.deleted = sync.deleted
    BY <1>1, <2>1 DEF Syncs, Steps
  <2> HIDE DEF m
  <2>8. /\ mem' \in [Dirs -> DirStates \cup {Uncached}]
        /\ mem'[d] = m /\ \A e \in Dirs \ {d} : mem'[e] = mem[e]
    BY <2>4, <2>6 DEF CacheInv, CacheTypeOK
  <2>9. CacheTypeOK'
    BY <2>2, <2>5, <2>7, <2>8 DEF CacheInv, CacheTypeOK
  <2>10. CleanIsOnDisk'
    BY <2>2, <2>4, <2>8 DEF CacheInv, CleanIsOnDisk
  <2>11. PassSound'
    <3>1. sync'.todo \subseteq Cached'
      BY <2>7, <2>8 DEF CacheInv, PassSound, Cached
    <3>2. mem'[d] # Uncached /\ mem'[d].dirty /\ d \notin sync'.todo
      BY <2>4, <2>7, <2>8, StateFacts
    <3> QED
      BY <2>7, <3>1, <3>2 DEF PassSound
  <2>12. DirtyAhead'
    BY <1>1, <2>7, <2>8 DEF CacheInv, DirtyAhead, Handling, Steps, Cached
  <2> QED
    BY <2>9, <2>10, <2>11, <2>12 DEF CacheInv
<1> QED
  BY <1>2, <1>3

LEMMA ListKeeps ==
    ASSUME CacheInv, NEW d \in Dirs, List(d)
    PROVE  CacheInv'
<1> DEFINE found == Lookup(disk, {}, d)
<1>1. /\ sync.at = "list" /\ sync' = NoSync /\ absent' = found.absent /\ disk' = disk
      /\ IF found.mem[d] = Uncached
         THEN mem' = found.mem /\ UNCHANGED faults
         ELSE \E kind \in Examines(found.mem[d]) :
                 /\ Occurs(kind)
                 /\ mem' = [found.mem EXCEPT ![d] = Examined(found.mem[d], disk, d, kind)]
  BY DEF List, At
<1>2. Sound(found, disk) /\ found.disk = disk
  BY LookupIsSound DEF Lookup, CacheInv, CacheTypeOK
<1> HIDE DEF found
<1>3. CASE found.mem[d] = Uncached
  <2>1. faults' \in 0..MaxFaults
    BY <1>1, <1>3 DEF CacheInv, CacheTypeOK
  <2> QED
    BY <1>1, <1>2, <1>3, <2>1, FoundOnlyKeeps
<1>4. CASE found.mem[d] # Uncached
  <2>1. PICK kind \in Examines(found.mem[d]) :
           /\ Occurs(kind)
           /\ mem' = [found.mem EXCEPT ![d] = Examined(found.mem[d], disk, d, kind)]
    BY <1>1, <1>4
  <2> DEFINE m == Examined(found.mem[d], disk, d, kind)
  <2>2. kind \in {"none", "scan", "read"}
    BY DEF Examines
  <2>3. found.mem[d] \in DirStates
    BY <1>2, <1>4 DEF Sound, Grown
  <2>4. Kept(found.mem[d], m, disk[d].file)
    BY <2>2, <2>3, ExaminedKeeps DEF CacheInv, CacheTypeOK
  <2>5. OnDisk(found.mem[d], disk[d].file)
    <3>1. CASE mem[d] = Uncached
      BY <1>2, <1>4, <3>1, StateFacts DEF Sound, Grown, OnDisk
    <3>2. CASE mem[d] # Uncached
      BY <1>2, <3>2 DEF Sound, Grown, OnDisk, CacheInv, CleanIsOnDisk
    <3> QED
      BY <3>1, <3>2
  <2>6. mem' = [found.mem EXCEPT ![d] = m]
    BY <2>1
  <2>7. faults' \in 0..MaxFaults
    BY <2>1, FaultsCounted DEF CacheInv
  <2> HIDE DEF m
  <2>8. m \in DirStates /\ OnDisk(m, disk[d].file)
    BY <1>4, <2>4, <2>5 DEF Kept, OnDisk
  <2> QED
    BY <1>1, <1>2, <1>4, <2>6, <2>7, <2>8, FindingKeeps
<1> QED
  BY <1>3, <1>4

LEMMA PassKeeps ==
    ASSUME CacheInv, Redo \/ SyncEnds
    PROVE  CacheInv'
<1>1. /\ sync.at = "visit" /\ sync.todo = {} /\ sync \in Syncs
      /\ UNCHANGED <<mem, absent, disk, faults>>
  BY DEF Redo, SyncEnds, PassEnds, At, CacheInv, CacheTypeOK
<1>2. CASE Redo
  <2>1. sync' = [sync EXCEPT !.todo = Cached, !.failed = FALSE, !.deleted = FALSE]
    BY <1>2 DEF Redo
  <2>2. sync' \in Syncs /\ sync'.at = "visit" /\ sync'.todo = Cached
    BY <1>1, <2>1 DEF Syncs, Cached
  <2> QED
    BY <1>1, <2>2
       DEF CacheInv, CacheTypeOK, CleanIsOnDisk, PassSound, DirtyAhead, Handling, Cached
<1>3. CASE SyncEnds
  <2>1. sync' \in {NoSync, [sync EXCEPT !.at = "list"]}
    BY <1>3 DEF SyncEnds
  <2>2. sync' \in Syncs /\ sync'.at \in {"none", "list"} /\ sync'.todo = {}
    <3>1. CASE sync' = NoSync
      BY <3>1, DirsAssumption DEF NoSync, Syncs, Steps
    <3>2. CASE sync' = [sync EXCEPT !.at = "list"]
      BY <1>1, <3>2 DEF Syncs, Steps
    <3> QED
      BY <2>1, <3>1, <3>2
  <2> QED
    BY <1>1, <2>2
       DEF CacheInv, CacheTypeOK, CleanIsOnDisk, PassSound, DirtyAhead, Handling, Cached
<1> QED
  BY <1>2, <1>3

LEMMA CleanKeeps ==
    ASSUME CacheInv, NEW d \in Dirs, Clean(d)
    PROVE  CacheInv'
<1>1. /\ sync.at = "none" /\ mem' = [mem EXCEPT ![d] = Uncached]
      /\ UNCHANGED <<absent, disk, sync, faults>>
  BY DEF Clean, Idle
<1>2. /\ mem' \in [Dirs -> DirStates \cup {Uncached}]
      /\ \A e \in Dirs : mem'[e] \in {mem[e], Uncached}
  BY <1>1 DEF CacheInv, CacheTypeOK
<1> QED
  BY <1>1, <1>2
     DEF CacheInv, CacheTypeOK, CleanIsOnDisk, PassSound, DirtyAhead, Handling, Cached

LEMMA CrashKeeps ==
    ASSUME CacheInv, Crash
    PROVE  CacheInv'
<1>1. mem' = [d \in Dirs |-> Uncached] /\ absent' = {} /\ sync' = NoSync /\ disk' = disk
  BY DEF Crash
<1>2. faults' \in 0..MaxFaults
  BY FaultsCounted DEF Crash, CacheInv
<1>3. NoSync \in Syncs /\ NoSync.at = "none" /\ NoSync.todo = {}
  BY DirsAssumption DEF NoSync, Syncs, Steps
<1> QED
  BY <1>1, <1>2, <1>3
     DEF CacheInv, CacheTypeOK, CleanIsOnDisk, PassSound, DirtyAhead, Handling, Cached

LEMMA NextCache == CacheInv /\ [Next]_vars => CacheInv'
<1> SUFFICES ASSUME CacheInv, [Next]_vars PROVE CacheInv'
  OBVIOUS
<1>1. CASE RequestStep
  BY <1>1, RequestStepKeeps
<1>2. CASE SyncStep
  BY <1>2, VisitKeeps, ListKeeps, DeleteKeeps, WriteKeeps, PassKeeps DEF SyncStep, DirStep
<1>3. CASE SyncAll
  BY <1>3, BeginSyncKeeps DEF SyncAll
<1>4. CASE \E d \in Dirs : Clean(d)
  BY <1>4, CleanKeeps
<1>5. CASE Crash
  BY <1>5, CrashKeeps
<1>6. CASE UNCHANGED vars
  BY <1>6 DEF vars, CacheInv, CacheTypeOK, CleanIsOnDisk, PassSound, DirtyAhead, Cached
<1> QED
  BY <1>1, <1>2, <1>3, <1>4, <1>5, <1>6 DEF Next

(* The history of the requests has its type.                                  *)
LEMMA NextAsked == TypeOK /\ [Next]_vars => asked' \in [Dirs -> Contents]
<1> SUFFICES ASSUME TypeOK, [Next]_vars PROVE asked' \in [Dirs -> Contents]
  OBVIOUS
<1>1. asked \in [Dirs -> Contents] /\ CacheTypeOK
  BY DEF TypeOK
<1>2. ASSUME NEW d \in Dirs, NEW k \in Keys, NEW v \in Values \cup {None},
             asked' = [asked EXCEPT ![d][k].value = v]
      PROVE  asked' \in [Dirs -> Contents]
  <2>1. asked[d] \in [Keys -> Entries] /\ asked[d][k] \in Entries
    BY <1>1 DEF Contents
  <2>2. [asked[d][k] EXCEPT !.value = v] \in Entries
    BY <2>1 DEF Entries
  <2> DEFINE c == asked[d]
  <2>3. [c EXCEPT ![k].value = v] \in Contents
    BY <2>1, <2>2 DEF Contents
  <2>4. asked' = [asked EXCEPT ![d] = [c EXCEPT ![k].value = v]]
    BY <1>1, <1>2
  <2> HIDE DEF c
  <2> QED
    BY <1>1, <2>3, <2>4
<1>3. ASSUME NEW d \in Dirs, NEW k \in Keys, NEW s \in Schemas \cup {None},
             asked' = [asked EXCEPT ![d][k].schema = s]
      PROVE  asked' \in [Dirs -> Contents]
  <2>1. asked[d] \in [Keys -> Entries] /\ asked[d][k] \in Entries
    BY <1>1 DEF Contents
  <2>2. [asked[d][k] EXCEPT !.schema = s] \in Entries
    BY <2>1 DEF Entries
  <2> DEFINE c == asked[d]
  <2>3. [c EXCEPT ![k].schema = s] \in Contents
    BY <2>1, <2>2 DEF Contents
  <2>4. asked' = [asked EXCEPT ![d] = [c EXCEPT ![k].schema = s]]
    BY <1>1, <1>3
  <2> HIDE DEF c
  <2> QED
    BY <1>1, <2>3, <2>4
<1>4. CASE RequestStep
  BY <1>1, <1>2, <1>3, <1>4 DEF RequestStep, SetValue, UnsetValue, SetSchema
<1>5. CASE Crash
  <2>1. \A d \in Dirs : disk[d].file \in Contents \cup {NoFile}
    BY <1>1 DEF CacheTypeOK, Folders
  <2> QED
    BY <1>5, <2>1, ContentsFacts DEF Crash
<1> QED
  BY <1>1, <1>4, <1>5 DEF Next, SyncStep, vars

-----------------------------------------------------------------------------

(* Every variable has its type: in particular what failed calls leave in the   *)
(* cache and in the folders is again a directory.                            *)
THEOREM CacheTypeCorrect == Spec => []TypeOK
<1>1. Init => TypeOK /\ CacheInv
  BY InitCache, ContentsFacts DEF TypeOK, CacheInv, Init
<1>2. TypeOK /\ CacheInv /\ [Next]_vars => (TypeOK /\ CacheInv)'
  BY NextCache, NextAsked DEF TypeOK, CacheInv
<1> QED
  BY <1>1, <1>2, PTL DEF Spec

(* Whatever calls fail and whenever the process ends, cache_clean() drops only *)
(* directories whose entries are on disk: nothing that was set is forgotten.   *)
THEOREM CleanStaysOnDisk == Spec => []CleanIsOnDisk
<1>1. Init => CacheInv
  BY InitCache
<1>2. CacheInv /\ [Next]_vars => CacheInv'
  BY NextCache
<1>3. CacheInv => CleanIsOnDisk
  BY DEF CacheInv
<1> QED
  BY <1>1, <1>2, <1>3, PTL DEF Spec

(* A sync that reports success has written all that was dirty, however many    *)
(* parents the deletions have made dirty behind it.                          *)
THEOREM SuccessMeansClean == Spec => SuccessLeavesNothingDirty
<1>1. Init => CacheInv
  BY InitCache
<1>2. CacheInv /\ [Next]_vars => CacheInv'
  BY NextCache
<1>3. CacheInv => (SyncSucceeds => \A d \in Dirs : mem[d] # Uncached => ~ mem[d].dirty)
  <2> SUFFICES ASSUME CacheInv, SyncSucceeds, NEW d \in Dirs, mem[d] # Uncached
               PROVE  ~ mem[d].dirty
    OBVIOUS
  <2>1. sync.at = "visit" /\ sync.todo = {} /\ ~ sync.failed /\ ~ sync.deleted
    BY DEF SyncSucceeds, SyncEnds, PassEnds, At, Again, CacheInv, CacheTypeOK, Syncs
  <2> QED
    BY <2>1 DEF CacheInv, DirtyAhead, Handling, Cached
<1> QED
  BY <1>1, <1>2, <1>3, PTL DEF Spec, SuccessLeavesNothingDirty

-----------------------------------------------------------------------------
(* The store that the cache and its files implement.                          *)

(* What a cached directory and its file hold together.                        *)
Held(m, f) == IF m # Uncached /\ m.loaded THEN m.entries ELSE Content(f)

(* What is remembered as nonexistent is neither cached nor has entries on disk. *)
Clear(m, a, dk) == \A e \in a : e \in Dirs /\ m[e] = Uncached /\ Content(dk[e].file) = Nothing

(* The directory that a sync has in hand is loaded, for its file is read before   *)
(* anything is written; it is deleted only when it has no entries.              *)
InHand ==
    sync.at \in Handling =>
        /\ mem[sync.dir].loaded
        /\ sync.at \in {"unlink", "rmdir"} => mem[sync.dir].entries = Nothing
        /\ sync.at = "rmdir" => disk[sync.dir].file = NoFile

StoreInv ==
    /\ TypeOK /\ CacheInv
    /\ \A d \in Dirs : asked[d] = Held(mem[d], disk[d].file)
    /\ Clear(mem, absent, disk)
    /\ InHand

(* The failures that lose nothing.                                            *)
Harmless == Faults \cap {"stat", "read", "move new", "move back", "crash in move"} = {}

LEMMA HarmlessFaults ==
    ASSUME Harmless
    PROVE  /\ ~ Fails("stat") /\ ~ Fails("read") /\ ~ Fails("move new")
           /\ ~ Fails("move back") /\ ~ Fails("crash in move")
           /\ \A h \in Unseen : SeesAllBut(h) => h = {}
           /\ \A m : \A kind \in Examines(m) : Occurs(kind) => kind \in {"none", "scan"}
<1>1. /\ "stat" \notin Faults /\ "read" \notin Faults /\ "move new" \notin Faults
      /\ "move back" \notin Faults /\ "crash in move" \notin Faults
  BY DEF Harmless
<1>2. /\ ~ Fails("stat") /\ ~ Fails("read") /\ ~ Fails("move new")
      /\ ~ Fails("move back") /\ ~ Fails("crash in move")
  BY <1>1 DEF Fails
<1>3. \A h \in Unseen : SeesAllBut(h) => h = {}
  BY <1>2 DEF SeesAllBut, Occurs
<1>4. \A m : \A kind \in Examines(m) : Occurs(kind) => kind \in {"none", "scan"}
  BY <1>2 DEF Examines, Occurs
<1> QED BY <1>2, <1>3, <1>4

(* What is stopped at while parents are loaded cannot be loaded.                *)
LEMMA StopsAtFacts ==
    ASSUME NEW dk, NEW h, NEW d \in Dirs, NEW e \in StopsAt(dk, h, d)
    PROVE  e \in Dirs /\ e # d /\ e \notin LoadedWith(dk, h, d) /\ ~ Loadable(dk, h, e)
<1>1. e \in Above(d) /\ e \notin LoadedWith(dk, h, d) /\ e \in Dirs /\ e # d
  BY DEF StopsAt, Above
<1>2. \A x \in Above(d) : IsBelow(e, x) => x = e \/ x \in LoadedWith(dk, h, d)
  BY DEF StopsAt
<1>3. \A x \in LoadedWith(dk, h, d) : Loadable(dk, h, x)
  <2> TAKE x \in LoadedWith(dk, h, d)
  <2>1. x \in Above(d) /\ x \in Dirs
    BY DEF LoadedWith, Above
  <2>2. IsBelow(x, x)
    BY <2>1, DirsAssumption, BelowReflexive
  <2> QED BY <2>1, <2>2 DEF LoadedWith
<1>4. ASSUME Loadable(dk, h, e) PROVE FALSE
  <2>1. \A x \in Above(d) : IsBelow(e, x) => Loadable(dk, h, x)
    BY <1>2, <1>3, <1>4
  <2> QED BY <1>1, <2>1 DEF LoadedWith
<1> QED BY <1>1, <1>4

LEMMA NotLoadable ==
    ASSUME NEW dk, NEW e, Clear(mem, absent, dk), mem[e] = Uncached, ~ Loadable(dk, {}, e)
    PROVE  Content(dk[e].file) = Nothing
BY ContentsFacts DEF Clear, Loadable

LEMMA InsertIsClear ==
    ASSUME NEW dk, NEW d \in Dirs, Clear(mem, absent, dk), mem[d] = Uncached
    PROVE  Clear(Insert(dk, {}, d), (absent \cup Missed(dk, {}, d)) \ {d}, dk)
<1> SUFFICES ASSUME NEW e \in (absent \cup Missed(dk, {}, d)) \ {d}
             PROVE  e \in Dirs /\ Insert(dk, {}, d)[e] = Uncached /\ Content(dk[e].file) = Nothing
  BY DEF Clear
<1>1. CASE e \in absent
  <2>1. e \in Dirs /\ mem[e] = Uncached /\ Content(dk[e].file) = Nothing
    BY <1>1 DEF Clear
  <2>2. e \notin LoadedWith(dk, {}, d)
    <3>1. ASSUME e \in LoadedWith(dk, {}, d) PROVE FALSE
      <4>1. e \in Above(d) /\ IsBelow(e, e)
        BY <2>1, <3>1, DirsAssumption, BelowReflexive DEF LoadedWith
      <4>2. Loadable(dk, {}, e)
        BY <3>1, <4>1 DEF LoadedWith
      <4> QED BY <1>1, <4>2 DEF Loadable
    <3> QED BY <3>1
  <2>3. Insert(dk, {}, d)[e] = mem[e]
    BY <2>1, <2>2 DEF Insert
  <2> QED BY <2>1, <2>3
<1>2. CASE e \in Missed(dk, {}, d)
  <2>1. e \in StopsAt(dk, {}, d) /\ mem[e] = Uncached
    BY <1>2 DEF Missed
  <2>2. e \in Dirs /\ e # d /\ e \notin LoadedWith(dk, {}, d) /\ ~ Loadable(dk, {}, e)
    BY <2>1, StopsAtFacts
  <2>3. Insert(dk, {}, d)[e] = mem[e]
    BY <2>1, <2>2 DEF Insert
  <2> QED BY <2>1, <2>2, <2>3, NotLoadable
<1> QED BY <1>1, <1>2

LEMMA LookupIsClear ==
    ASSUME NEW dk, NEW d \in Dirs, Clear(mem, absent, dk)
    PROVE  /\ Clear(Lookup(dk, {}, d).mem, Lookup(dk, {}, d).absent, dk)
           /\ Lookup(dk, {}, d).mem[d] = Uncached => Content(dk[d].file) = Nothing
<1>1. CASE mem[d] # Uncached
  BY <1>1 DEF Lookup
<1>2. CASE mem[d] = Uncached /\ ~ Loadable(dk, {}, d)
  BY <1>2, NotLoadable DEF Lookup, Clear
<1>3. CASE mem[d] = Uncached /\ Loadable(dk, {}, d)
  <2>1. /\ Lookup(dk, {}, d).mem = Insert(dk, {}, d)
        /\ Lookup(dk, {}, d).absent = absent \cup Missed(dk, {}, d)
    BY <1>3 DEF Lookup
  <2>2. d \notin absent \cup Missed(dk, {}, d)
    BY <1>3, StopsAtFacts DEF Loadable, Missed
  <2>3. Insert(dk, {}, d)[d] = Blank
    BY DEF Insert
  <2>4. Clear(Insert(dk, {}, d), (absent \cup Missed(dk, {}, d)) \ {d}, dk)
    BY <1>3, InsertIsClear
  <2>5. (absent \cup Missed(dk, {}, d)) \ {d} = absent \cup Missed(dk, {}, d)
    BY <2>2
  <2> QED BY <2>1, <2>3, <2>4, <2>5, StateFacts
<1> QED BY <1>1, <1>2, <1>3

LEMMA ObtainIsClear ==
    ASSUME NEW dk \in [Dirs -> Folders], NEW d \in Dirs, Clear(mem, absent, dk)
    PROVE  Clear(Obtain(dk, {}, d).mem, Obtain(dk, {}, d).absent, Obtain(dk, {}, d).disk)
<1>1. CASE mem[d] # Uncached \/ Loadable(dk, {}, d)
  <2>1. Obtain(dk, {}, d) = Lookup(dk, {}, d) /\ Lookup(dk, {}, d).disk = dk
    BY <1>1 DEF Obtain, Lookup
  <2> QED BY <2>1, LookupIsClear
<1>2. CASE mem[d] = Uncached /\ ~ Loadable(dk, {}, d)
  <2> DEFINE made == Make(dk, ToMake(dk, d))
  <2>1. /\ Obtain(dk, {}, d).mem = Insert(made, {}, d)
        /\ Obtain(dk, {}, d).absent = (absent \cup Missed(made, {}, d)) \ (Above(d) \cup {d})
        /\ Obtain(dk, {}, d).disk = made
    BY <1>2 DEF Obtain
  <2>2. SameFiles(dk, made)
    BY ToMakeFacts, MakeKeepsFiles
  <2> HIDE DEF made
  <2>3. Clear(mem, absent, made)
    BY <2>2 DEF Clear, SameFiles
  <2>4. Clear(Insert(made, {}, d), (absent \cup Missed(made, {}, d)) \ {d}, made)
    BY <1>2, <2>3, InsertIsClear
  <2> QED BY <2>1, <2>4 DEF Clear
<1> QED BY <1>1, <1>2

(* A lookup changes nothing that is held.                                      *)
LEMMA FindingHolds ==
    ASSUME NEW found, NEW dk, Sound(found, dk), NEW e \in Dirs
    PROVE  Held(found.mem[e], found.disk[e].file) = Held(mem[e], dk[e].file)
<1>1. Content(found.disk[e].file) = Content(dk[e].file) /\ Grown(found.mem)
  BY DEF Sound, SameFiles
<1>2. CASE mem[e] = Uncached
  <2>1. found.mem[e] \in {Uncached, Blank}
    BY <1>1, <1>2 DEF Grown
  <2> QED BY <1>1, <1>2, <2>1, StateFacts DEF Held
<1>3. CASE mem[e] # Uncached
  <2>1. found.mem[e] # Uncached
    BY <1>1, <1>3, StateFacts DEF Grown
  <2> QED BY <1>1, <1>3, <2>1 DEF Grown, Held
<1> QED BY <1>2, <1>3

(* How a step looks to the store: one directory is asked for other entries, some *)
(* are saved, or the process ends.                                            *)
Moves ==
    \/ /\ \E d \in Dirs, c \in Contents : asked' = [asked EXCEPT ![d] = c]
       /\ \A e \in Dirs : Saved(e)' = Saved(e)
    \/ asked' = asked /\ \A e \in Dirs : Saved(e)' \in {Saved(e), asked[e]}
    \/ /\ asked' = [d \in Dirs |-> Saved(d)]
       /\ \A e \in Dirs : Saved(e)' = Saved(e)

(* A step outside a sync, or that ends one.                                    *)
LEMMA FindingStores ==
    ASSUME StoreInv, (TypeOK /\ CacheInv)', sync.at \in {"none", "list"},
           sync' \in {sync, NoSync}, NEW found, Sound(found, disk),
           Clear(found.mem, found.absent, found.disk),
           absent' = found.absent, disk' = found.disk,
           NEW d \in Dirs, NEW m, NEW c \in Contents,
           mem' = IF found.mem[d] = Uncached THEN found.mem ELSE [found.mem EXCEPT ![d] = m],
           asked' = [asked EXCEPT ![d] = c],
           c = IF found.mem[d] = Uncached THEN asked[d] ELSE Held(m, disk'[d].file)
    PROVE  StoreInv' /\ Moves
<1>1. found.mem \in [Dirs -> DirStates \cup {Uncached}] /\ asked \in [Dirs -> Contents]
  BY DEF Sound, Grown, StoreInv, TypeOK
<1>2. \A e \in Dirs : asked[e] = Held(found.mem[e], disk'[e].file)
  BY FindingHolds DEF StoreInv
<1>3. \A e \in Dirs : asked'[e] = Held(mem'[e], disk'[e].file)
  <2>1. CASE found.mem[d] = Uncached
    BY <1>1, <1>2, <2>1
  <2>2. CASE found.mem[d] # Uncached
    BY <1>1, <1>2, <2>2
  <2> QED BY <2>1, <2>2
<1>4. \A e \in found.absent : mem'[e] = found.mem[e]
  BY <1>1 DEF Clear
<1>5. Clear(mem, absent, disk)'
  BY <1>4 DEF Clear
<1>6. sync'.at \in {"none", "list"}
  BY DEF NoSync
<1>7. InHand'
  BY <1>6 DEF InHand, Handling
<1>8. \A e \in Dirs : Saved(e)' = Saved(e)
  BY <1>6 DEF Saved, At, Sound, SameFiles
<1>9. StoreInv'
  BY <1>3, <1>5, <1>7 DEF StoreInv
<1> QED BY <1>8, <1>9 DEF Moves

(* The same, when no entry is asked for or changed.                            *)
LEMMA FoundOnlyStores ==
    ASSUME StoreInv, (TypeOK /\ CacheInv)', sync.at \in {"none", "list"},
           sync' \in {sync, NoSync}, NEW found, Sound(found, disk),
           Clear(found.mem, found.absent, found.disk),
           absent' = found.absent, disk' = found.disk, UNCHANGED asked,
           NEW d \in Dirs, NEW m,
           mem' = IF found.mem[d] = Uncached THEN found.mem ELSE [found.mem EXCEPT ![d] = m],
           found.mem[d] # Uncached =>
               Held(m, disk'[d].file) = Held(found.mem[d], disk'[d].file)
    PROVE  StoreInv' /\ Moves
<1>1. asked \in [Dirs -> Contents]
  BY DEF StoreInv, TypeOK
<1>2. asked[d] = Held(found.mem[d], disk'[d].file)
  BY FindingHolds DEF StoreInv
<1>3. asked[d] \in Contents /\ asked' = [asked EXCEPT ![d] = asked[d]]
  BY <1>1
<1>4. asked[d] = IF found.mem[d] = Uncached THEN asked[d] ELSE Held(m, disk'[d].file)
  BY <1>2
<1> QED BY <1>3, <1>4, FindingStores

LEMMA LookupOnlyStores ==
    ASSUME StoreInv, (TypeOK /\ CacheInv)', sync.at \in {"none", "list"},
           sync' \in {sync, NoSync}, NEW d \in Dirs, UNCHANGED <<disk, asked>>,
           mem' = Lookup(disk, {}, d).mem, absent' = Lookup(disk, {}, d).absent
    PROVE  StoreInv' /\ Moves
<1> DEFINE found == Lookup(disk, {}, d)
<1>1. Sound(found, disk) /\ found.disk = disk
  BY LookupIsSound DEF Lookup, StoreInv, CacheInv, CacheTypeOK
<1>2. Clear(found.mem, found.absent, found.disk)
  BY <1>1, LookupIsClear DEF StoreInv
<1>3. mem' = found.mem /\ absent' = found.absent /\ disk' = found.disk
  BY <1>1
<1>4. found.mem \in [Dirs -> DirStates \cup {Uncached}]
  BY <1>1 DEF Sound, Grown
<1> HIDE DEF found
<1>5. mem' = IF found.mem[d] = Uncached THEN found.mem
             ELSE [found.mem EXCEPT ![d] = found.mem[d]]
  BY <1>3, <1>4
<1> QED BY <1>1, <1>2, <1>3, <1>5, FoundOnlyStores

(* What a request finds, and opens.                                            *)
LEMMA FindIsClear ==
    ASSUME StoreInv, NEW creates \in BOOLEAN, NEW d \in Dirs
    PROVE  LET found == Find(creates, {}, d)
           IN /\ Sound(found, disk) /\ Clear(found.mem, found.absent, found.disk)
              /\ ~ creates => found.disk = disk
              /\ ~ creates /\ found.mem[d] = Uncached => asked[d] = Nothing
              /\ creates => found.mem[d] # Uncached
<1>1. CacheTypeOK /\ Clear(mem, absent, disk) /\ disk \in [Dirs -> Folders]
  BY DEF StoreInv, TypeOK, CacheTypeOK
<1>2. Sound(Find(creates, {}, d), disk)
  BY <1>1, FindIsSound
<1>3. CASE creates
  <2>1. Find(creates, {}, d) = Obtain(disk, {}, d)
    BY <1>3 DEF Find
  <2> QED BY <1>1, <1>2, <1>3, <2>1, ObtainIsClear, ObtainIsSound
<1>4. CASE ~ creates
  <2> DEFINE found == Lookup(disk, {}, d)
  <2>1. Find(creates, {}, d) = found /\ found.disk = disk
    BY <1>4 DEF Find, Lookup
  <2>2. /\ Clear(found.mem, found.absent, disk)
        /\ found.mem[d] = Uncached => Content(disk[d].file) = Nothing
    BY <1>1, LookupIsClear
  <2>3. Held(found.mem[d], found.disk[d].file) = asked[d]
    BY <1>2, <2>1, FindingHolds DEF StoreInv
  <2> HIDE DEF found
  <2>4. found.mem[d] = Uncached => asked[d] = Nothing
    BY <2>1, <2>2, <2>3 DEF Held
  <2> QED BY <1>2, <1>4, <2>1, <2>2, <2>4
<1> QED BY <1>3, <1>4

LEMMA OpenedIsAsked ==
    ASSUME StoreInv, NEW creates \in BOOLEAN, NEW d \in Dirs,
           Find(creates, {}, d).mem[d] # Uncached
    PROVE  LET m == Opened(creates, {}, d)
           IN m \in DirStates /\ m.loaded /\ m.entries = asked[d]
<1> DEFINE found == Find(creates, {}, d)
           f == found.disk[d].file
<1>1. Sound(found, disk) /\ found.mem[d] # Uncached
  BY FindIsClear
<1>2. Opened(creates, {}, d) = Read(found.mem[d], f)
  BY DEF Opened
<1>3. asked[d] = Held(found.mem[d], f)
  BY <1>1, FindingHolds DEF StoreInv
<1> HIDE DEF found
<1>4. found.mem[d] \in DirStates /\ f \in Contents \cup {NoFile}
  BY <1>1 DEF Sound, Grown, SameFiles, Folders
<1> HIDE DEF f
<1>5. Read(found.mem[d], f) \in DirStates
  BY <1>4, ReadKeeps DEF Kept
<1>6. Read(found.mem[d], f).loaded /\ Read(found.mem[d], f).entries = asked[d]
  BY <1>1, <1>3, <1>4 DEF Read, Held, DirStates
<1> QED BY <1>2, <1>5, <1>6

LEMMA RequestStores ==
    ASSUME StoreInv, (TypeOK /\ CacheInv)', NEW creates \in BOOLEAN, NEW d \in Dirs, NEW m,
           NEW c \in Contents, Request(creates, {}, d, m), asked' = [asked EXCEPT ![d] = c],
           Find(creates, {}, d).mem[d] # Uncached =>
               m \in DirStates /\ m.loaded /\ m.entries = c,
           Find(creates, {}, d).mem[d] = Uncached => c = asked[d]
    PROVE  StoreInv' /\ Moves
<1> DEFINE found == Find(creates, {}, d)
<1>1. Sound(found, disk) /\ Clear(found.mem, found.absent, found.disk)
  BY FindIsClear
<1>2. /\ sync.at \in {"none", "list"} /\ sync' = sync
      /\ absent' = found.absent /\ disk' = found.disk
      /\ mem' = IF found.mem[d] = Uncached THEN found.mem ELSE [found.mem EXCEPT ![d] = m]
  BY DEF Request, Idle
<1>3. c = IF found.mem[d] = Uncached THEN asked[d] ELSE Held(m, disk'[d].file)
  <2> HIDE DEF found
  <2>1. CASE found.mem[d] = Uncached
    BY <2>1 DEF found
  <2>2. CASE found.mem[d] # Uncached
    <3>1. m \in DirStates /\ m.loaded /\ m.entries = c
      BY <2>2 DEF found
    <3> QED BY <2>2, <3>1, StateFacts DEF Held
  <2> QED BY <2>1, <2>2
<1> HIDE DEF found
<1> QED BY <1>1, <1>2, <1>3, FindingStores

(* Changing an entry of what is opened, as what is asked for changes.            *)
LEMMA ChangedValue ==
    ASSUME NEW m \in DirStates, m.loaded, NEW k \in Keys, NEW v \in Values \cup {None}
    PROVE  LET n == WithValue(m, k, v)
               c == [m.entries EXCEPT ![k].value = v]
           IN n \in DirStates /\ n.loaded /\ n.entries = c /\ c \in Contents
<1>1. m.entries \in [Keys -> Entries] /\ m.entries[k] \in Entries
  BY DEF DirStates, Contents
<1>2. [m.entries EXCEPT ![k].value = v] \in Contents
  BY <1>1 DEF Entries, Contents
<1> QED BY <1>2 DEF WithValue, DirStates

LEMMA RequestStepStores ==
    ASSUME Harmless, StoreInv, (TypeOK /\ CacheInv)', RequestStep
    PROVE  StoreInv' /\ Moves
<1>0. /\ asked \in [Dirs -> Contents] /\ CacheTypeOK /\ disk \in [Dirs -> Folders]
      /\ TRUE \in BOOLEAN /\ FALSE \in BOOLEAN
  BY DEF StoreInv, TypeOK, CacheTypeOK
<1>1. ASSUME NEW d \in Dirs, NEW k \in Keys, NEW v \in Values, SetValue(d, k, v)
      PROVE  StoreInv' /\ Moves
  <2> DEFINE m == Opened(TRUE, {}, d)
             c == [asked[d] EXCEPT ![k].value = v]
  <2>1. Request(TRUE, {}, d, WithValue(m, k, v)) /\ asked' = [asked EXCEPT ![d][k].value = v]
    BY <1>1, HarmlessFaults DEF SetValue, Request
  <2>2. Find(TRUE, {}, d).mem[d] # Uncached
    BY FindIsClear
  <2>3. m \in DirStates /\ m.loaded /\ m.entries = asked[d]
    BY <2>2, OpenedIsAsked
  <2> HIDE DEF m
  <2>4. /\ WithValue(m, k, v) \in DirStates /\ WithValue(m, k, v).loaded
        /\ WithValue(m, k, v).entries = c /\ c \in Contents
    <3>1. v \in Values \cup {None}
      OBVIOUS
    <3>2. /\ WithValue(m, k, v) \in DirStates /\ WithValue(m, k, v).loaded
          /\ WithValue(m, k, v).entries = [m.entries EXCEPT ![k].value = v]
          /\ [m.entries EXCEPT ![k].value = v] \in Contents
      BY <2>3, <3>1, ChangedValue
    <3> QED BY <2>3, <3>2
  <2>5. asked' = [asked EXCEPT ![d] = c]
    BY <1>0, <2>1
  <2> HIDE DEF c
  <2> QED BY <1>0, <2>1, <2>2, <2>4, <2>5, RequestStores
<1>2. ASSUME NEW d \in Dirs, NEW k \in Keys, UnsetValue(d, k)
      PROVE  StoreInv' /\ Moves
  <2> DEFINE m == Opened(FALSE, {}, d)
             n == IF m.entries[k].value = None THEN m ELSE WithValue(m, k, None)
             c == [asked[d] EXCEPT ![k].value = None]
             found == Find(FALSE, {}, d)
  <2>1. Request(FALSE, {}, d, n) /\ asked' = [asked EXCEPT ![d][k].value = None]
    BY <1>2, HarmlessFaults DEF UnsetValue, Request
  <2>2. asked' = [asked EXCEPT ![d] = c]
    BY <1>0, <2>1
  <2>3. asked[d] \in [Keys -> Entries] /\ asked[d][k] \in Entries
    BY <1>0 DEF Contents
  <2>4. asked[d][k].value = None => c = asked[d]
    <3>1. ASSUME asked[d][k].value = None
          PROVE  [asked[d][k] EXCEPT !.value = None] = asked[d][k]
      BY <2>3, <3>1 DEF Entries
    <3> QED BY <2>3, <3>1
  <2>5. [asked[d][k] EXCEPT !.value = None] \in Entries
    BY <2>3 DEF Entries
  <2>6. c \in Contents
    BY <2>3, <2>5 DEF Contents
  <2>7. ASSUME found.mem[d] # Uncached
        PROVE  n \in DirStates /\ n.loaded /\ n.entries = c
    <3>1. m \in DirStates /\ m.loaded /\ m.entries = asked[d]
      BY <2>7, OpenedIsAsked
    <3> HIDE DEF m, found
    <3>2. /\ WithValue(m, k, None) \in DirStates /\ WithValue(m, k, None).loaded
          /\ WithValue(m, k, None).entries = c
      <4>1. None \in Values \cup {None}
        OBVIOUS
      <4>2. /\ WithValue(m, k, None) \in DirStates /\ WithValue(m, k, None).loaded
            /\ WithValue(m, k, None).entries = [m.entries EXCEPT ![k].value = None]
        BY <3>1, <4>1, ChangedValue
      <4> QED BY <3>1, <4>2
    <3> HIDE DEF c
    <3> QED BY <2>4, <3>1, <3>2
  <2>8. ASSUME found.mem[d] = Uncached PROVE c = asked[d]
    <3>1. asked[d] = Nothing
      BY <2>8, FindIsClear
    <3>2. asked[d][k].value = None
      BY <3>1 DEF Nothing, NoEntry
    <3> QED BY <2>4, <3>2
  <2> HIDE DEF n, c
  <2> QED BY <1>0, <2>1, <2>2, <2>6, <2>7, <2>8, RequestStores
<1>3. ASSUME NEW d \in Dirs, NEW k \in Keys, NEW s \in Schemas \cup {None}, SetSchema(d, k, s)
      PROVE  StoreInv' /\ Moves
  <2> DEFINE m == Opened(TRUE, {}, d)
             n == [m EXCEPT !.entries[k].schema = s, !.dirty = TRUE]
             c == [asked[d] EXCEPT ![k].schema = s]
  <2>1. Request(TRUE, {}, d, n) /\ asked' = [asked EXCEPT ![d][k].schema = s]
    BY <1>3, HarmlessFaults DEF SetSchema, Request
  <2>2. Find(TRUE, {}, d).mem[d] # Uncached
    BY FindIsClear
  <2>3. m \in DirStates /\ m.loaded /\ m.entries = asked[d]
    BY <2>2, OpenedIsAsked
  <2> HIDE DEF m
  <2>4. n \in DirStates /\ n.loaded /\ n.entries = c /\ c \in Contents
    <3>1. m.entries \in [Keys -> Entries] /\ m.entries[k] \in Entries
      BY <2>3 DEF DirStates, Contents
    <3>2. [m.entries EXCEPT ![k].schema = s] \in Contents
      BY <3>1 DEF Entries, Contents
    <3> QED BY <2>3, <3>2 DEF DirStates
  <2>5. asked' = [asked EXCEPT ![d] = c]
    BY <1>0, <2>1
  <2> HIDE DEF c, n
  <2> QED BY <1>0, <2>1, <2>2, <2>4, <2>5, RequestStores
<1>4. ASSUME NEW d \in Dirs, Query(d), UNCHANGED asked
      PROVE  StoreInv' /\ Moves
  <2>1. Request(FALSE, {}, d, Opened(FALSE, {}, d))
    BY <1>4, HarmlessFaults DEF Query, Request
  <2>2. asked' = [asked EXCEPT ![d] = asked[d]] /\ asked[d] \in Contents
    BY <1>0, <1>4
  <2> QED BY <1>0, <2>1, <2>2, OpenedIsAsked, RequestStores
<1>5. ASSUME NEW d \in Dirs, DirExists(d), UNCHANGED asked
      PROVE  StoreInv' /\ Moves
  <2>1. /\ sync.at = "none" /\ UNCHANGED <<disk, sync>>
        /\ mem' = Lookup(disk, {}, d).mem /\ absent' = Lookup(disk, {}, d).absent
    BY <1>5, HarmlessFaults DEF DirExists, Idle
  <2> QED BY <1>5, <2>1, LookupOnlyStores
<1>6. ASSUME NEW d \in Dirs, CannotCreate(d), UNCHANGED asked
      PROVE  StoreInv' /\ Moves
  <2>1. SameFiles(disk, disk')
    BY <1>0, <1>6, HalfMadeKeepsFiles DEF CannotCreate
  <2>2. sync.at = "none" /\ UNCHANGED <<mem, absent, sync>>
    BY <1>6 DEF CannotCreate, Idle
  <2>3. \A e \in Dirs : Held(mem[e], disk'[e].file) = Held(mem[e], disk[e].file)
    BY <2>1 DEF SameFiles, Held
  <2>4. Clear(mem, absent, disk')
    BY <2>1 DEF StoreInv, Clear, SameFiles
  <2>5. \A e \in Dirs : Saved(e)' = Saved(e)
    BY <2>1, <2>2 DEF Saved, At, SameFiles
  <2>6. InHand'
    BY <2>2 DEF InHand, Handling
  <2>7. StoreInv'
    BY <1>6, <2>2, <2>3, <2>4, <2>6 DEF StoreInv
  <2> QED BY <1>6, <2>5, <2>7 DEF Moves
<1>7. ASSUME NEW d \in Dirs, AllSubdirs(d), UNCHANGED asked
      PROVE  StoreInv' /\ Moves
  <2>1. UNCHANGED <<mem, absent, disk>> /\ sync.at = "none" /\ sync'.at = "visit"
    BY <1>7 DEF AllSubdirs, BeginSync, Idle, NoSync
  <2>2. \A e \in Dirs : Saved(e)' = Saved(e)
    BY <2>1 DEF Saved, At
  <2>3. InHand'
    BY <2>1 DEF InHand, Handling
  <2> QED BY <1>7, <2>1, <2>2, <2>3 DEF StoreInv, Moves
<1>8. ASSUME NEW d \in Dirs, Unreadable(d) PROVE FALSE
  BY <1>8, HarmlessFaults DEF Unreadable
<1> QED
  BY <1>1, <1>2, <1>3, <1>4, <1>5, <1>6, <1>7, <1>8 DEF RequestStep

-----------------------------------------------------------------------------
(* A sync, as the store sees it.                                               *)

LEMMA HandledHeld ==
    ASSUME StoreInv, sync.at \in Handling
    PROVE  /\ sync.dir \in Dirs /\ mem[sync.dir] \in DirStates /\ mem[sync.dir] # Uncached
           /\ mem[sync.dir].loaded /\ mem[sync.dir].entries = asked[sync.dir]
           /\ asked[sync.dir] \in Contents
           /\ sync.dir \notin absent
<1>1. /\ sync.dir \in Dirs /\ mem[sync.dir] \in DirStates /\ mem[sync.dir].loaded
      /\ asked \in [Dirs -> Contents]
  BY HandledFacts DEF StoreInv, InHand, TypeOK
<1>2. mem[sync.dir] # Uncached
  BY <1>1, StateFacts
<1> QED BY <1>1, <1>2 DEF StoreInv, Held, Clear

(* A step that handles a directory, and touches no other.                       *)
LEMMA HandlingStores ==
    ASSUME StoreInv, (TypeOK /\ CacheInv)', sync.at \in Handling, UNCHANGED asked,
           NEW d, d = sync.dir,
           \A e \in Dirs \ {d} : mem'[e] = mem[e] /\ disk'[e] = disk[e],
           Held(mem'[d], disk'[d].file) = asked[d],
           \/ absent' = absent
           \/ /\ absent' = absent \cup {d}
              /\ mem'[d] = Uncached /\ Content(disk'[d].file) = Nothing,
           InHand', sync'.at = "visit" \/ sync'.dir = d,
           Saved(d)' \in {Saved(d), asked[d]}
    PROVE  StoreInv' /\ Moves
<1>1. d \in Dirs /\ d \notin absent
  BY HandledHeld
<1>2. \A e \in Dirs : asked'[e] = Held(mem'[e], disk'[e].file)
  BY <1>1 DEF StoreInv
<1>3. Clear(mem, absent, disk)'
  BY <1>1 DEF StoreInv, Clear
<1>4. StoreInv'
  BY <1>2, <1>3 DEF StoreInv
<1>5. \A e \in Dirs \ {d} : Saved(e)' = Saved(e)
  BY DEF Saved, At
<1>6. \A e \in Dirs : Saved(e)' \in {Saved(e), asked[e]}
  BY <1>5
<1> QED BY <1>4, <1>6 DEF Moves

LEMMA GiveUpStores ==
    ASSUME StoreInv, (TypeOK /\ CacheInv)', sync.at \in Handling, sync.at # "move new",
           GiveUp, UNCHANGED <<mem, absent, asked>>,
           \A e \in Dirs \ {sync.dir} : disk'[e] = disk[e],
           disk'[sync.dir].file = disk[sync.dir].file
    PROVE  StoreInv' /\ Moves
<1>1. sync'.at = "visit"
  BY NextSyncs DEF GiveUp, StoreInv, CacheInv, CacheTypeOK
<1>2. InHand'
  BY <1>1 DEF InHand, Handling
<1>3. PICK d : d = sync.dir
  OBVIOUS
<1>4. Saved(d)' = Saved(d)
  <2>1. Saved(d) = Content(disk[d].file)
    BY DEF Saved, At
  <2>2. Saved(d)' = Content(disk'[d].file)
    BY <1>1 DEF Saved, At
  <2> QED
    BY <1>3, <2>1, <2>2
<1>5. Held(mem'[d], disk'[d].file) = asked[d]
  BY <1>3, HandledHeld DEF StoreInv, Held
<1> QED BY <1>1, <1>2, <1>3, <1>4, <1>5, HandlingStores

LEMMA WriteStores ==
    ASSUME Harmless, StoreInv, (TypeOK /\ CacheInv)', UNCHANGED asked,
           \/ WriteTmp \/ WriteTmpFails \/ MoveOld \/ MoveOldFails
           \/ MoveNew \/ MoveNewFails \/ UnlinkOld
    PROVE  StoreInv' /\ Moves
<1>0. disk \in [Dirs -> Folders] /\ mem \in [Dirs -> DirStates \cup {Uncached}] /\ sync \in Syncs
  BY DEF StoreInv, TypeOK, CacheTypeOK
<1>1. PICK d : d = sync.dir
  OBVIOUS
<1>2. ASSUME sync.at \in Handling
      PROVE  /\ d \in Dirs /\ mem[d] \in DirStates /\ mem[d] # Uncached /\ mem[d].loaded
             /\ mem[d].entries = asked[d] /\ asked[d] \in Contents /\ disk[d] \in Folders
             /\ asked[d] # NoFile /\ Content(asked[d]) = asked[d]
  BY <1>0, <1>1, <1>2, HandledHeld, ContentsFacts
<1>3. CASE WriteTmp
  <2>1. /\ sync.at = "write" /\ sync.at \in Handling
        /\ disk' = [disk EXCEPT ![d].tmp = TRUE] /\ UNCHANGED <<mem, absent>>
        /\ sync'.at = "move old" /\ sync'.dir = d
    BY <1>0, <1>1, <1>3 DEF WriteTmp, At, Handling, Steps, Syncs
  <2>2. disk'[d].file = disk[d].file /\ \A e \in Dirs \ {d} : disk'[e] = disk[e]
    BY <1>0, <1>2, <2>1 DEF Folders
  <2>3. InHand'
    BY <1>2, <2>1 DEF InHand
  <2>4. Saved(d)' = Saved(d)
    BY <2>1, <2>2 DEF Saved, At
  <2>5. Held(mem'[d], disk'[d].file) = asked[d]
    BY <1>2, <2>1 DEF Held
  <2> QED BY <1>1, <2>1, <2>2, <2>3, <2>4, <2>5, HandlingStores
<1>4. CASE WriteTmpFails
  <2>1. /\ sync.at = "write" /\ sync.at \in Handling /\ GiveUp /\ UNCHANGED <<mem, absent>>
    BY <1>4 DEF WriteTmpFails, At, Handling, Steps
  <2>2. disk'[d].file = disk[d].file /\ \A e \in Dirs \ {d} : disk'[e] = disk[e]
    BY <1>0, <1>1, <1>2, <1>4, <2>1 DEF WriteTmpFails, Folders
  <2> QED BY <1>1, <2>1, <2>2, GiveUpStores
<1>5. CASE MoveOld
  <2> DEFINE kept == disk[d].file # NoFile
  <2>1. /\ sync.at = "move old" /\ sync.at \in Handling /\ UNCHANGED <<mem, absent>>
        /\ disk' = IF kept THEN [disk EXCEPT ![d].old = disk[d].file, ![d].file = NoFile] ELSE disk
        /\ sync'.at = "move new" /\ sync'.dir = d /\ sync'.kept = kept
    BY <1>0, <1>1, <1>5 DEF MoveOld, At, Handling, Steps, Syncs
  <2>2. /\ \A e \in Dirs \ {d} : disk'[e] = disk[e]
        /\ kept => disk'[d].old = disk[d].file
        /\ ~ kept => disk'[d].file = disk[d].file
    <3> HIDE DEF kept
    <3> QED BY <1>0, <1>2, <2>1 DEF Folders
  <2>3. InHand'
    BY <1>2, <2>1 DEF InHand
  <2>4. Saved(d)' = Saved(d)
    <3>1. Saved(d) = Content(disk[d].file)
      BY <2>1 DEF Saved, At
    <3>2. Saved(d)' = Content(IF kept THEN disk'[d].old ELSE disk'[d].file)
      <4>1. Saved(d)' = Content(IF sync'.at = "move new" /\ sync'.kept /\ sync'.dir = d
                                THEN disk'[d].old ELSE disk'[d].file)
        BY DEF Saved, At
      <4>2. CASE kept
        BY <2>1, <4>1, <4>2
      <4>3. CASE ~ kept
        BY <2>1, <4>1, <4>3
      <4> QED BY <4>2, <4>3
    <3> HIDE DEF kept
    <3> QED BY <2>2, <3>1, <3>2
  <2>5. Held(mem'[d], disk'[d].file) = asked[d]
    BY <1>2, <2>1 DEF Held
  <2> QED BY <1>1, <2>1, <2>2, <2>3, <2>4, <2>5, HandlingStores
<1>6. CASE MoveOldFails
  <2>1. sync.at = "move old" /\ sync.at \in Handling /\ GiveUp /\ UNCHANGED <<mem, absent, disk>>
    BY <1>6 DEF MoveOldFails, At, Handling, Steps
  <2> QED BY <2>1, GiveUpStores
<1>7. CASE MoveNew
  <2>1. /\ sync.at = "move new" /\ sync.at \in Handling /\ absent' = absent
        /\ disk' = [disk EXCEPT ![d].file = mem[d].entries, ![d].tmp = FALSE]
    BY <1>1, <1>7 DEF MoveNew, At, Handling, Steps
  <2>2. disk'[d].file = asked[d] /\ \A e \in Dirs \ {d} : disk'[e] = disk[e]
    BY <1>0, <1>2, <2>1 DEF Folders
  <2>3. \/ sync'.at = "unlink old" /\ sync'.dir = d /\ mem' = mem
        \/ sync'.at = "visit" /\ mem' = [mem EXCEPT ![d].dirty = FALSE]
    <3>1. CASE sync.kept
      <4>1. sync' = [sync EXCEPT !.at = "unlink old"] /\ mem' = mem
        BY <1>7, <3>1 DEF MoveNew
      <4>2. sync'.at = "unlink old" /\ sync'.dir = d
        BY <1>0, <1>1, <4>1 DEF Syncs
      <4> QED BY <4>1, <4>2
    <3>2. CASE ~ sync.kept
      BY <1>0, <1>1, <1>7, <3>2, NextSyncs DEF MoveNew, Synced
    <3> QED BY <3>1, <3>2
  <2>4. /\ mem'[d] \in DirStates /\ mem'[d].loaded /\ mem'[d].entries = asked[d]
        /\ \A e \in Dirs \ {d} : mem'[e] = mem[e]
    BY <1>0, <1>2, <2>1, <2>3 DEF DirStates
  <2>5. InHand'
    BY <2>3, <2>4 DEF InHand, Handling
  <2>6. Saved(d)' = asked[d]
    BY <1>2, <2>1, <2>2, <2>3 DEF Saved, At
  <2>7. Held(mem'[d], disk'[d].file) = asked[d]
    BY <2>4, StateFacts DEF Held
  <2> QED BY <1>1, <2>1, <2>2, <2>3, <2>4, <2>5, <2>6, <2>7, HandlingStores
<1>8. CASE MoveNewFails
  BY <1>8, HarmlessFaults DEF MoveNewFails
<1>9. CASE UnlinkOld
  <2>1. /\ sync.at = "unlink old" /\ sync.at \in Handling /\ absent' = absent
        /\ disk' \in {disk, [disk EXCEPT ![d].old = NoFile]}
        /\ sync' = Back /\ mem' = [mem EXCEPT ![d].dirty = FALSE]
    BY <1>1, <1>9 DEF UnlinkOld, Synced, At, Handling, Steps
  <2>2. disk'[d].file = disk[d].file /\ \A e \in Dirs \ {d} : disk'[e] = disk[e]
    BY <1>0, <1>2, <2>1 DEF Folders
  <2>3. sync'.at = "visit"
    BY <1>0, <2>1, NextSyncs
  <2>4. /\ mem'[d] \in DirStates /\ mem'[d].loaded /\ mem'[d].entries = asked[d]
        /\ \A e \in Dirs \ {d} : mem'[e] = mem[e]
    BY <1>0, <1>2, <2>1 DEF DirStates
  <2>5. InHand'
    BY <2>3 DEF InHand, Handling
  <2>6. Saved(d)' = Saved(d)
    BY <2>1, <2>2, <2>3 DEF Saved, At
  <2>7. Held(mem'[d], disk'[d].file) = asked[d]
    BY <2>4, StateFacts DEF Held
  <2> QED BY <1>1, <2>1, <2>2, <2>3, <2>4, <2>5, <2>6, <2>7, HandlingStores
<1> QED BY <1>3, <1>4, <1>5, <1>6, <1>7, <1>8, <1>9

(* A directory is deleted: nothing is left of it, and its parent is found again.  *)
LEMMA DeletedStores ==
    ASSUME StoreInv, (TypeOK /\ CacheInv)', UNCHANGED asked, sync.at = "rmdir",
           sync'.at = "visit", NEW d, d = sync.dir, NEW p \in Dirs, p # d,
           NEW found, NEW dk, SameFiles(disk, dk), dk[d].file = disk[d].file,
           Sound(found, dk), Clear(found.mem, found.absent, found.disk),
           disk' = found.disk, absent' = found.absent \cup {d},
           mem'[d] = Uncached, \A e \in Dirs \ {d} : e # p => mem'[e] = found.mem[e],
           \/ mem'[p] = found.mem[p]
           \/ /\ found.mem[p] # Uncached /\ mem'[p] # Uncached
              /\ mem'[p].loaded = found.mem[p].loaded
              /\ mem'[p].entries = found.mem[p].entries
    PROVE  StoreInv' /\ Moves
<1>1. sync.at \in Handling
  BY DEF Handling, Steps
<1>2. /\ d \in Dirs /\ asked[d] = Nothing /\ disk[d].file = NoFile
  BY <1>1, HandledHeld DEF StoreInv, InHand
<1>3. \A e \in Dirs : Content(disk'[e].file) = Content(disk[e].file)
  BY DEF Sound, SameFiles
<1>4. \A e \in Dirs : asked[e] = Held(found.mem[e], disk'[e].file)
  <2> TAKE e \in Dirs
  <2>1. Held(found.mem[e], found.disk[e].file) = Held(mem[e], dk[e].file)
    BY FindingHolds
  <2>2. Held(mem[e], dk[e].file) = Held(mem[e], disk[e].file)
    BY DEF SameFiles, Held
  <2> QED BY <2>1, <2>2 DEF StoreInv
<1>5. \A e \in Dirs : asked[e] = Held(mem'[e], disk'[e].file)
  <2> TAKE e \in Dirs
  <2>1. CASE e = d
    BY <1>2, <1>3, <2>1, ContentsFacts DEF Held
  <2>2. CASE e = p
    BY <1>4, <2>2 DEF Held
  <2>3. CASE e # d /\ e # p
    BY <1>4, <2>3
  <2> QED BY <2>1, <2>2, <2>3
<1>6. Clear(mem, absent, disk)'
  <2> SUFFICES ASSUME NEW e \in absent'
               PROVE  e \in Dirs /\ mem'[e] = Uncached /\ Content(disk'[e].file) = Nothing
    BY DEF Clear
  <2>1. CASE e = d
    BY <1>2, <1>3, <2>1, ContentsFacts
  <2>2. CASE e # d
    <3>1. e \in Dirs /\ found.mem[e] = Uncached /\ Content(disk'[e].file) = Nothing
      BY <2>2 DEF Clear
    <3> QED BY <2>2, <3>1
  <2> QED BY <2>1, <2>2
<1>7. InHand'
  BY DEF InHand, Handling
<1>8. \A e \in Dirs : Saved(e)' = Saved(e)
  BY <1>3 DEF Saved, At
<1>9. StoreInv'
  BY <1>5, <1>6, <1>7 DEF StoreInv
<1> QED BY <1>8, <1>9 DEF Moves

LEMMA DeleteStores ==
    ASSUME Harmless, StoreInv, (TypeOK /\ CacheInv)', UNCHANGED asked,
           \/ UnlinkFile \/ UnlinkFileFails
           \/ RemoveFolder \/ RemoveFolderOfOrphan \/ RemoveFolderFails
    PROVE  StoreInv' /\ Moves
<1>0. disk \in [Dirs -> Folders] /\ mem \in [Dirs -> DirStates \cup {Uncached}] /\ sync \in Syncs
  BY DEF StoreInv, TypeOK, CacheTypeOK
<1>1. PICK d : d = sync.dir
  OBVIOUS
<1> DEFINE dk == [disk EXCEPT ![d].folder = FALSE]
           p == Parent(d)
<1>2. CASE UnlinkFile
  <2>1. /\ sync.at = "unlink" /\ sync.at \in Handling
        /\ disk' = [disk EXCEPT ![d].file = NoFile]
    BY <1>1, <1>2 DEF UnlinkFile, At, Handling, Steps
  <2>2. /\ d \in Dirs /\ mem[d] # Uncached /\ mem[d].loaded /\ mem[d].entries = Nothing
        /\ asked[d] = Nothing
    BY <1>1, <2>1, HandledHeld DEF StoreInv, InHand
  <2>3. disk'[d].file = NoFile /\ \A e \in Dirs \ {d} : disk'[e] = disk[e]
    BY <1>0, <2>1, <2>2 DEF Folders
  <2>4. CASE d = Root
    <3>1. /\ sync' = [Back EXCEPT !.deleted = TRUE] /\ mem' = [mem EXCEPT ![d] = Uncached]
          /\ absent' = absent \cup {d}
      BY <1>1, <1>2, <2>4 DEF UnlinkFile, Deleted
    <3>2. sync'.at = "visit"
      BY <1>0, <3>1, NextSyncs
    <3>3. mem'[d] = Uncached /\ \A e \in Dirs \ {d} : mem'[e] = mem[e]
      BY <1>0, <2>2, <3>1
    <3>4. InHand'
      BY <3>2 DEF InHand, Handling
    <3>5. Saved(d)' = asked[d]
      BY <2>2, <2>3, <3>2, ContentsFacts DEF Saved, At
    <3>6. Held(mem'[d], disk'[d].file) = asked[d] /\ Content(disk'[d].file) = Nothing
      BY <2>2, <2>3, <3>3, ContentsFacts DEF Held
    <3> QED BY <1>1, <2>1, <2>3, <3>1, <3>2, <3>3, <3>4, <3>5, <3>6, HandlingStores
  <2>5. CASE d # Root
    <3>1. sync' = [sync EXCEPT !.at = "rmdir"] /\ UNCHANGED <<mem, absent>>
      BY <1>1, <1>2, <2>5 DEF UnlinkFile
    <3>2. sync'.at = "rmdir" /\ sync'.dir = d
      BY <1>0, <1>1, <3>1 DEF Syncs
    <3>3. InHand'
      BY <2>2, <2>3, <3>1, <3>2 DEF InHand
    <3>4. Saved(d)' = asked[d]
      BY <2>2, <2>3, <3>2, ContentsFacts DEF Saved, At
    <3>5. Held(mem'[d], disk'[d].file) = asked[d]
      BY <2>2, <3>1 DEF Held
    <3> QED BY <1>1, <2>1, <2>3, <3>1, <3>2, <3>3, <3>4, <3>5, HandlingStores
  <2> QED BY <2>4, <2>5
<1>3. CASE UnlinkFileFails
  <2>1. sync.at = "unlink" /\ sync.at \in Handling /\ GiveUp /\ UNCHANGED <<mem, absent, disk>>
    BY <1>3 DEF UnlinkFileFails, At, Handling, Steps
  <2> QED BY <2>1, GiveUpStores
<1>4. CASE RemoveFolderFails
  <2>1. sync.at = "rmdir" /\ sync.at \in Handling /\ GiveUp /\ UNCHANGED <<mem, absent, disk>>
    BY <1>4 DEF RemoveFolderFails, At, Handling, Steps
  <2> QED BY <2>1, GiveUpStores
<1>5. ASSUME sync.at = "rmdir", Deleted
      PROVE  /\ d \in Dirs /\ p \in Dirs /\ p # d /\ SameFiles(disk, dk)
             /\ dk \in [Dirs -> Folders] /\ dk[d].file = disk[d].file
             /\ sync'.at = "visit" /\ CacheTypeOK /\ Clear(mem, absent, dk)
  <2>1. sync.at \in Handling
    BY <1>5 DEF Handling, Steps
  <2>2. d \in Dirs /\ d # Root
    BY <1>1, <1>5, <2>1, HandledFacts DEF StoreInv, CacheInv, PassSound
  <2>3. dk \in [Dirs -> Folders] /\ \A e \in Dirs : dk[e].file = disk[e].file
    BY <1>0, <2>2 DEF Folders
  <2>4. Clear(mem, absent, dk)
    <3> HIDE DEF dk
    <3> QED BY <2>3 DEF StoreInv, Clear
  <2>5. SameFiles(disk, dk)
    <3> HIDE DEF dk
    <3> QED BY <2>3 DEF SameFiles
  <2>6. sync'.at = "visit"
    BY <1>0, <1>5, NextSyncs DEF Deleted
  <2> QED BY <2>2, <2>3, <2>4, <2>5, <2>6, ParentFacts DEF StoreInv, TypeOK
<1>6. CASE RemoveFolder
  <2> DEFINE found == Obtain(dk, {}, p)
  <2>1. /\ sync.at = "rmdir" /\ Deleted
        /\ disk' = found.disk /\ absent' = found.absent \cup {d}
        /\ mem' = [found.mem EXCEPT ![d] = Uncached, ![p] = WithoutDir(@, d)]
    BY <1>1, <1>6 DEF RemoveFolder, Forget, At
  <2>2. /\ d \in Dirs /\ p \in Dirs /\ p # d /\ SameFiles(disk, dk)
        /\ dk \in [Dirs -> Folders] /\ dk[d].file = disk[d].file
        /\ sync'.at = "visit" /\ CacheTypeOK /\ Clear(mem, absent, dk)
    BY <1>5, <2>1
  <2> HIDE DEF p, dk
  <2>3. Sound(found, dk) /\ found.mem[p] # Uncached /\ Clear(found.mem, found.absent, found.disk)
    BY <2>2, ObtainIsSound, ObtainIsClear
  <2> HIDE DEF found
  <2>4. found.mem \in [Dirs -> DirStates \cup {Uncached}] /\ found.mem[p] \in DirStates
    BY <2>2, <2>3 DEF Sound, Grown
  <2>5. /\ WithoutDir(found.mem[p], d) \in DirStates
        /\ WithoutDir(found.mem[p], d).loaded = found.mem[p].loaded
        /\ WithoutDir(found.mem[p], d).entries = found.mem[p].entries
    BY <2>4 DEF WithoutDir, DirStates
  <2>6. /\ mem'[d] = Uncached /\ mem'[p] = WithoutDir(found.mem[p], d)
        /\ \A e \in Dirs \ {d} : e # p => mem'[e] = found.mem[e]
    BY <2>1, <2>2, <2>4
  <2>7. mem'[p] # Uncached
    BY <2>5, <2>6, StateFacts
  <2> QED
    BY <1>1, <2>1, <2>2, <2>3, <2>5, <2>6, <2>7, DeletedStores
<1>7. CASE RemoveFolderOfOrphan
  <2>1. /\ sync.at = "rmdir" /\ Deleted /\ disk' \in HalfMade(dk, p)
        /\ mem' = [mem EXCEPT ![d] = Uncached] /\ absent' = absent \cup {d}
    BY <1>1, <1>7 DEF RemoveFolderOfOrphan, At
  <2>2. /\ d \in Dirs /\ p \in Dirs /\ p # d /\ SameFiles(disk, dk)
        /\ dk \in [Dirs -> Folders] /\ dk[d].file = disk[d].file
        /\ sync'.at = "visit" /\ CacheTypeOK /\ Clear(mem, absent, dk)
    BY <1>5, <2>1
  <2> HIDE DEF p, dk
  <2>3. SameFiles(dk, disk')
    BY <2>1, <2>2, HalfMadeKeepsFiles
  <2> DEFINE found == [mem |-> mem, absent |-> absent, disk |-> disk']
  <2>4. Clear(mem, absent, disk')
    BY <2>2, <2>3 DEF Clear, SameFiles
  <2>5. Grown(mem) /\ absent \subseteq Dirs
    BY <2>2 DEF Grown, CacheTypeOK
  <2>6. Sound(found, dk) /\ Clear(found.mem, found.absent, found.disk)
    BY <2>3, <2>4, <2>5 DEF Sound
  <2>7. mem'[d] = Uncached /\ \A e \in Dirs \ {d} : mem'[e] = mem[e]
    BY <1>0, <2>1, <2>2
  <2>8. /\ disk' = found.disk /\ absent' = found.absent \cup {d} /\ mem'[p] = found.mem[p]
        /\ \A e \in Dirs \ {d} : e # p => mem'[e] = found.mem[e]
    BY <2>1, <2>2, <2>7
  <2> HIDE DEF found
  <2> QED
    BY <1>1, <2>1, <2>2, <2>6, <2>7, <2>8, DeletedStores
<1> QED BY <1>2, <1>3, <1>4, <1>6, <1>7

(* The pass, and the listing after it.                                         *)
LEMMA VisitStores ==
    ASSUME Harmless, StoreInv, (TypeOK /\ CacheInv)', UNCHANGED asked,
           NEW d \in Dirs, VisitClean(d) \/ VisitDirty(d)
    PROVE  StoreInv' /\ Moves
<1>0. /\ disk \in [Dirs -> Folders] /\ mem \in [Dirs -> DirStates \cup {Uncached}]
      /\ sync \in Syncs /\ sync.at = "visit" /\ d \in sync.todo /\ mem[d] \in DirStates
  BY DEF StoreInv, TypeOK, CacheTypeOK, CacheInv, PassSound, Cached, VisitClean, VisitDirty, At
<1>1. CASE VisitClean(d)
  <2>1. UNCHANGED <<mem, absent, disk>> /\ sync'.at = "visit"
    BY <1>0, <1>1 DEF VisitClean, Syncs
  <2>2. \A e \in Dirs : Saved(e)' = Saved(e)
    BY <1>0, <2>1 DEF Saved, At
  <2>3. InHand'
    BY <2>1 DEF InHand, Handling
  <2> QED BY <2>1, <2>2, <2>3 DEF StoreInv, Moves
<1>2. CASE VisitDirty(d)
  <2>1. PICK kind \in {"none", "scan"} :
           LET m == Examined(mem[d], disk, d, kind) IN
           /\ mem' = [mem EXCEPT ![d] = m]
           /\ sync' = [sync EXCEPT !.todo = @ \ {d}, !.dir = d,
                                   !.at = IF Useless(m) THEN "unlink" ELSE "write"]
    BY <1>2, HarmlessFaults DEF VisitDirty
  <2> DEFINE m == Examined(mem[d], disk, d, kind)
  <2>2. UNCHANGED <<absent, disk>>
    BY <1>2 DEF VisitDirty
  <2>3. Kept(mem[d], m, disk[d].file)
    BY <1>0, ExaminedKeeps
  <2>4. m.loaded /\ m.entries = Held(mem[d], disk[d].file)
    <3> DEFINE r == Read(mem[d], disk[d].file)
    <3>1. r \in DirStates
      BY <1>0, ReadKeeps DEF Kept, Folders
    <3>2. r.loaded /\ r.entries = Held(mem[d], disk[d].file)
      BY <1>0, StateFacts DEF Read, Held, DirStates
    <3> HIDE DEF r
    <3>3. Scan(r, disk, d).loaded = r.loaded /\ Scan(r, disk, d).entries = r.entries
      BY <3>1, ScanKeeps
    <3>4. /\ [r EXCEPT !.scanned = TRUE, !.subdirs = {}].loaded = r.loaded
          /\ [r EXCEPT !.scanned = TRUE, !.subdirs = {}].entries = r.entries
      BY <3>1 DEF DirStates
    <3>5. m \in {Scan(r, disk, d), [r EXCEPT !.scanned = TRUE, !.subdirs = {}]}
      BY DEF Examined, r
    <3> HIDE DEF m
    <3> QED BY <3>2, <3>3, <3>4, <3>5
  <2>5. /\ mem' = [mem EXCEPT ![d] = m]
        /\ sync'.dir = d /\ sync'.at \in {"unlink", "write"}
        /\ sync'.at = "unlink" => m.entries = Nothing
    BY <1>0, <2>1 DEF Syncs, Useless
  <2> HIDE DEF m
  <2>6. mem'[d] = m /\ m # Uncached /\ \A e \in Dirs \ {d} : mem'[e] = mem[e]
    BY <1>0, <2>3, <2>5, StateFacts DEF Kept
  <2>7. \A e \in Dirs : asked'[e] = Held(mem'[e], disk'[e].file)
    <3>1. asked[d] = Held(mem[d], disk[d].file)
      BY DEF StoreInv
    <3>2. Held(m, disk[d].file) = asked[d]
      BY <2>4, <2>6, <3>1 DEF Held
    <3> QED BY <2>2, <2>6, <3>2 DEF StoreInv
  <2>8. d \notin absent
    BY <1>0, StateFacts DEF StoreInv, Clear
  <2>9. Clear(mem, absent, disk)'
    BY <2>2, <2>6, <2>8 DEF StoreInv, Clear
  <2>10. InHand'
    BY <2>4, <2>5, <2>6 DEF InHand
  <2>11. \A e \in Dirs : Saved(e)' = Saved(e)
    BY <1>0, <2>2, <2>5 DEF Saved, At
  <2>12. StoreInv'
    BY <2>7, <2>9, <2>10 DEF StoreInv
  <2> QED BY <2>11, <2>12 DEF Moves
<1> QED BY <1>1, <1>2

LEMMA ListStores ==
    ASSUME Harmless, StoreInv, (TypeOK /\ CacheInv)', UNCHANGED asked, NEW d \in Dirs, List(d)
    PROVE  StoreInv' /\ Moves
<1> DEFINE found == Lookup(disk, {}, d)
<1>1. /\ sync.at = "list" /\ sync' = NoSync /\ absent' = found.absent /\ disk' = disk
      /\ IF found.mem[d] = Uncached
         THEN mem' = found.mem
         ELSE \E kind \in {"none", "scan"} :
                 mem' = [found.mem EXCEPT ![d] = Examined(found.mem[d], disk, d, kind)]
  BY HarmlessFaults DEF List, At
<1>2. Sound(found, disk) /\ found.disk = disk /\ Clear(found.mem, found.absent, found.disk)
  BY LookupIsSound, LookupIsClear DEF Lookup, StoreInv, CacheInv, CacheTypeOK
<1>3. disk \in [Dirs -> Folders]
  BY DEF StoreInv, TypeOK, CacheTypeOK
<1>4. CASE found.mem[d] = Uncached
  BY <1>1, <1>4, LookupOnlyStores
<1>5. CASE found.mem[d] # Uncached
  <2> HIDE DEF found
  <2>1. PICK kind \in {"none", "scan"} :
            mem' = [found.mem EXCEPT ![d] = Examined(found.mem[d], disk, d, kind)]
    BY <1>1, <1>5
  <2> DEFINE m == Examined(found.mem[d], disk, d, kind)
  <2>2. found.mem[d] \in DirStates
    BY <1>2, <1>5 DEF Sound, Grown
  <2>3. Kept(found.mem[d], m, disk[d].file)
    BY <1>3, <2>2, ExaminedKeeps
  <2>4. m \in DirStates /\ found.mem[d].loaded => m.loaded /\ m.entries = found.mem[d].entries
    BY <1>5, <2>2, <2>3
       DEF Kept, Examined, Read, Scan, DirStates
  <2>5. Held(m, disk[d].file) = Held(found.mem[d], disk[d].file)
    <3> DEFINE f == disk[d].file
               r == Read(found.mem[d], f)
    <3>1. f \in Contents \cup {NoFile}
      BY <1>3 DEF Folders
    <3> HIDE DEF f
    <3>2. r \in DirStates /\ r.loaded /\ r.entries = Held(found.mem[d], f)
      BY <1>5, <2>2, <3>1, ReadKeeps DEF Kept, Read, Held, DirStates
    <3> HIDE DEF r
    <3>3. Scan(r, disk, d).loaded = r.loaded /\ Scan(r, disk, d).entries = r.entries
      BY <3>2, ScanKeeps
    <3>4. /\ [r EXCEPT !.scanned = TRUE, !.subdirs = {}].loaded = r.loaded
          /\ [r EXCEPT !.scanned = TRUE, !.subdirs = {}].entries = r.entries
      BY <3>2 DEF DirStates
    <3>5. m \in {Scan(r, disk, d), [r EXCEPT !.scanned = TRUE, !.subdirs = {}]}
      BY DEF Examined, r, f
    <3>6. m # Uncached
      BY <2>3, StateFacts DEF Kept
    <3> HIDE DEF m
    <3>7. m.loaded /\ m.entries = Held(found.mem[d], f)
      BY <3>2, <3>3, <3>4, <3>5
    <3> QED BY <3>6, <3>7 DEF Held, f
  <2>6. mem' = IF found.mem[d] = Uncached THEN found.mem ELSE [found.mem EXCEPT ![d] = m]
    BY <1>5, <2>1
  <2> HIDE DEF m
  <2> QED
    BY <1>1, <1>2, <2>5, <2>6, FoundOnlyStores
<1> QED BY <1>4, <1>5

LEMMA StoreStep ==
    ASSUME Harmless, StoreInv, (TypeOK /\ CacheInv)', [Next]_vars
    PROVE  StoreInv' /\ Moves
<1>1. CASE RequestStep
  BY <1>1, RequestStepStores
<1>2. ASSUME NEW d \in Dirs, VisitClean(d) \/ VisitDirty(d), UNCHANGED asked
      PROVE  StoreInv' /\ Moves
  BY <1>2, VisitStores
<1>3. ASSUME NEW d \in Dirs, List(d), UNCHANGED asked PROVE StoreInv' /\ Moves
  BY <1>3, ListStores
<1>4. CASE DirStep /\ UNCHANGED asked
  BY <1>4, DeleteStores, WriteStores DEF DirStep
<1>5. ASSUME UNCHANGED <<mem, absent, disk, asked>>, sync.at # "move new",
             sync'.at \in {"none", "visit", "list"}
      PROVE  StoreInv' /\ Moves
  <2>1. \A e \in Dirs : Saved(e)' = Saved(e)
    BY <1>5 DEF Saved, At
  <2>2. InHand'
    BY <1>5 DEF InHand, Handling
  <2> QED BY <1>5, <2>1, <2>2 DEF StoreInv, Moves
<1>6. CASE (Redo \/ SyncEnds \/ SyncAll) /\ UNCHANGED asked
  <2>1. sync \in Syncs
    BY DEF StoreInv, TypeOK, CacheTypeOK
  <2>2. UNCHANGED <<mem, absent, disk, asked>> /\ sync.at # "move new"
    BY <1>6 DEF Redo, SyncEnds, PassEnds, At, SyncAll, BeginSync, Idle
  <2>3. CASE Redo
    <3>1. sync.at = "visit"
      BY <2>3 DEF Redo, PassEnds, At
    <3>2. sync' = [sync EXCEPT !.todo = Cached, !.failed = FALSE, !.deleted = FALSE]
      BY <2>3 DEF Redo
    <3>3. sync'.at = "visit"
      BY <2>1, <3>1, <3>2 DEF Syncs
    <3> QED BY <1>5, <2>2, <3>3
  <2>4. CASE SyncEnds
    <3>1. sync' = NoSync \/ sync' = [sync EXCEPT !.at = "list"]
      BY <2>4 DEF SyncEnds
    <3>2. sync'.at \in {"none", "list"}
      BY <2>1, <3>1 DEF Syncs, NoSync
    <3> QED BY <1>5, <2>2, <3>2
  <2>5. CASE SyncAll
    <3>1. sync'.at = "visit"
      BY <2>5 DEF SyncAll, BeginSync, NoSync
    <3> QED BY <1>5, <2>2, <3>1
  <2> QED BY <1>6, <2>3, <2>4, <2>5
<1>7. ASSUME NEW d \in Dirs, Clean(d), UNCHANGED asked PROVE StoreInv' /\ Moves
  <2>1. /\ sync.at = "none" /\ mem' = [mem EXCEPT ![d] = Uncached] /\ mem[d] # Uncached
        /\ ~ mem[d].dirty /\ UNCHANGED <<absent, disk, sync>>
    BY <1>7 DEF Clean, Idle
  <2>2. mem'[d] = Uncached /\ \A e \in Dirs \ {d} : mem'[e] = mem[e]
    BY <2>1 DEF StoreInv, TypeOK, CacheTypeOK
  <2>3. asked[d] = Content(disk[d].file)
    BY <2>1 DEF StoreInv, CacheInv, CleanIsOnDisk, Held
  <2>4. \A e \in Dirs : asked'[e] = Held(mem'[e], disk'[e].file)
    BY <1>7, <2>1, <2>2, <2>3 DEF StoreInv, Held
  <2>5. Clear(mem, absent, disk)'
    BY <2>1, <2>2 DEF StoreInv, Clear
  <2>6. InHand' /\ \A e \in Dirs : Saved(e)' = Saved(e)
    BY <2>1 DEF InHand, Handling, Saved, At
  <2> QED BY <1>7, <2>4, <2>5, <2>6 DEF StoreInv, Moves
<1>8. CASE Crash
  <2>1. ~ (At("move new") /\ sync.kept)
    BY <1>8, HarmlessFaults DEF Crash
  <2>2. /\ mem' = [d \in Dirs |-> Uncached] /\ absent' = {} /\ sync' = NoSync /\ disk' = disk
        /\ asked' = [d \in Dirs |-> Content(disk[d].file)]
    BY <1>8 DEF Crash
  <2>3. \A e \in Dirs : Saved(e) = Content(disk[e].file) /\ Saved(e)' = Content(disk[e].file)
    BY <2>1, <2>2 DEF Saved, At, NoSync
  <2>4. InHand' /\ Clear(mem, absent, disk)'
    BY <2>2 DEF InHand, Handling, Clear, NoSync
  <2>5. \A e \in Dirs : asked'[e] = Held(mem'[e], disk'[e].file)
    BY <2>2 DEF Held
  <2>6. asked' = [d \in Dirs |-> Saved(d)]
    BY <2>2, <2>3
  <2> QED BY <2>3, <2>4, <2>5, <2>6 DEF StoreInv, Moves
<1>9. CASE UNCHANGED vars
  <2>1. UNCHANGED <<mem, absent, disk, sync, asked>>
    BY <1>9 DEF vars
  <2>2. InHand' /\ \A e \in Dirs : Saved(e)' = Saved(e)
    BY <2>1 DEF StoreInv, InHand, Saved, At
  <2> QED BY <2>1, <2>2 DEF StoreInv, Moves
<1> QED
  BY <1>1, <1>2, <1>3, <1>4, <1>6, <1>7, <1>8, <1>9 DEF Next, SyncStep

(* What reads see is what is asked for.                                        *)
LEMMA SeenIsAsked == StoreInv => [d \in Dirs |-> Seen(d)] = asked
<1> SUFFICES ASSUME StoreInv PROVE [d \in Dirs |-> Seen(d)] = asked
  OBVIOUS
<1>1. \A d \in Dirs : Seen(d) = asked[d]
  BY DEF StoreInv, Seen, Held, Clear
<1>2. asked = [d \in Dirs |-> asked[d]]
  BY DEF StoreInv, TypeOK
<1> QED BY <1>1, <1>2

(* The cache and its files, with a sync taken call by call, are a store: reads see *)
(* what requests have made of it, directories are saved whole, and a crash loses  *)
(* what was not saved and nothing else.  Any call may fail any number of times    *)
(* but those that hide or lose a file: a stat, a read, and the second rename of a  *)
(* write or the one that takes back the first, with a crash between the two.      *)
THEOREM StoreImplemented ==
    ASSUME Harmless
    PROVE  Spec => StoreSpec
<1>1. Init => StoreInv /\ Store!Init
  <2> SUFFICES ASSUME Init PROVE StoreInv /\ Store!Init
    OBVIOUS
  <2>1. TypeOK /\ CacheInv
    BY InitCache, ContentsFacts DEF TypeOK, CacheInv, Init
  <2>2. /\ \A d \in Dirs : mem[d] = Uncached /\ asked[d] = Nothing /\ Content(disk[d].file) = Nothing
        /\ absent = {} /\ sync.at = "none"
    BY ContentsFacts DEF Init, NoFolder, NoSync
  <2>3. StoreInv
    BY <2>1, <2>2 DEF StoreInv, Held, Clear, InHand, Handling
  <2>4. \A d \in Dirs : Saved(d) = Nothing
    BY <2>2 DEF Saved, At
  <2>5. asked = [d \in Dirs |-> Nothing]
    BY DEF Init
  <2>6. [d \in Dirs |-> Saved(d)] = asked /\ [d \in Dirs |-> Seen(d)] = asked
    BY <2>3, <2>4, <2>5, SeenIsAsked
  <2> QED BY <2>3, <2>5, <2>6 DEF Store!Init
<1>2. StoreInv /\ [Next]_vars => StoreInv' /\ [Store!Next]_(Store!vars)
  <2> SUFFICES ASSUME StoreInv, [Next]_vars PROVE StoreInv' /\ Store!Next
    OBVIOUS
  <2>1. (TypeOK /\ CacheInv)'
    BY NextCache, NextAsked DEF StoreInv, TypeOK, CacheInv
  <2>2. StoreInv' /\ Moves
    BY <2>1, StoreStep
  <2> DEFINE seen == [d \in Dirs |-> Seen(d)]
             saved == [d \in Dirs |-> Saved(d)]
  <2>3. seen = asked /\ seen' = asked'
    <3>1. (StoreInv => seen = asked)'
      BY SeenIsAsked, PTL
    <3> QED BY <2>2, <3>1, SeenIsAsked
  <2>4. (\A e \in Dirs : Saved(e)' = Saved(e)) => saved' = saved
    OBVIOUS
  <2>5. \A e \in Dirs : saved[e] = Saved(e) /\ saved'[e] = Saved(e)'
    OBVIOUS
  <2>6. CASE \E d \in Dirs, c \in Contents :
                asked' = [asked EXCEPT ![d] = c] /\ \A e \in Dirs : Saved(e)' = Saved(e)
    <3> HIDE DEF seen
    <3>1. \E d \in Dirs, c \in Contents : Store!Change(d, c)
      BY <2>3, <2>4, <2>6 DEF Store!Change, seen
    <3> QED BY <2>2, <3>1 DEF Store!Next
  <2>7. CASE asked' = asked /\ \A e \in Dirs : Saved(e)' \in {Saved(e), asked[e]}
    <3>1. Store!Save
      BY <2>3, <2>5, <2>7 DEF Store!Save
    <3> QED BY <2>2, <3>1 DEF Store!Next
  <2>8. CASE asked' = saved /\ \A e \in Dirs : Saved(e)' = Saved(e)
    <3>1. Store!Crash
      BY <2>3, <2>4, <2>8 DEF Store!Crash
    <3> QED BY <2>2, <3>1 DEF Store!Next
  <2> QED BY <2>2, <2>6, <2>7, <2>8 DEF Moves
<1> QED
  BY <1>1, <1>2, PTL DEF Spec, StoreSpec, Store!Spec

-----------------------------------------------------------------------------
(* Empty directories, as long as nothing has gone wrong.                      *)

(* A folder with no entries in or below it.                                   *)
Hollow(dk, d) ==
    /\ d # Root /\ dk[d].folder
    /\ \A e \in Dirs : IsBelow(d, e) => Content(dk[e].file) = Nothing

(* The sync is to visit the directory or one below it.                        *)
Tended(m, d) == \E e \in Dirs : IsBelow(d, e) /\ m[e] # Uncached /\ m[e].dirty

Foldered(dk) == \A e \in Dirs : dk[e].file # NoFile => dk[e].folder

(* A list of subdirectories names folders, and directories that are gone.      *)
Lists(n, dk, e, gone) ==
    /\ dk[e].folder
    /\ \A c \in n.subdirs : c \in Children(e) /\ (dk[c].folder \/ c \in gone)
    /\ n.scanned \/ n.subdirs = {}

Listed(m, dk, gone) ==
    \A e \in Dirs \ gone : m[e] # Uncached => Lists(m[e], dk, e, gone)

(* What is written has entries or subdirectories; a folder is removed without  *)
(* its file.                                                                 *)
HandTidy ==
    /\ sync.at \in {"write", "move old", "move new", "unlink old"} => ~ Useless(mem[sync.dir])
    /\ sync.at = "rmdir" => disk[sync.dir].file = NoFile

AllTended == \A d \in Dirs : Hollow(disk, d) => Tended(mem, d)

TidyParts == Foldered(disk) /\ Listed(mem, disk, {}) /\ HandTidy /\ AllTended

Tidy == faults = 0 => TidyParts

LEMMA DirOrder ==
    /\ \A d \in Dirs : IsBelow(d, d)
    /\ \A d, e, f \in Dirs : IsBelow(d, e) /\ IsBelow(e, f) => IsBelow(d, f)
    /\ \A d, e \in Dirs : IsBelow(d, e) /\ IsBelow(e, d) => d = e
<1>1. \A d \in Dirs : d \in Seq(STRING)
  BY DirsAssumption
<1>2. \A d \in Dirs : IsBelow(d, d)
  BY <1>1, BelowReflexive
<1>3. \A d, e, f \in Dirs : IsBelow(d, e) /\ IsBelow(e, f) => IsBelow(d, f)
  BY <1>1, BelowTransitive
<1>4. \A d, e \in Dirs : IsBelow(d, e) /\ IsBelow(e, d) => d = e
  BY <1>1, BelowAntisymmetric
<1> QED BY <1>2, <1>3, <1>4

(* The paths on the way to a directory.                                       *)
LEMMA PrefixFacts ==
    ASSUME NEW d \in Dirs, NEW n \in 0..Len(d), NEW p, p = SubSeq(d, 1, n)
    PROVE  p \in Dirs /\ Len(p) = n /\ (\A i \in 1..n : p[i] = d[i]) /\ IsBelow(p, d)
<1>1. d \in Seq(STRING) /\ p \in Dirs
  BY DirsAssumption
<1>2. Len(p) = n /\ \A i \in 1..n : p[i] = d[i]
  BY <1>1
<1>3. n <= Len(d)
  BY <1>1
<1> QED BY <1>1, <1>2, <1>3 DEF IsBelow

(* The child of a directory on the way to one below it.                        *)
LEMMA OnTheWay ==
    ASSUME NEW d \in Dirs, NEW e \in Above(d)
    PROVE  /\ SubSeq(d, 1, Len(e) + 1) \in Children(e)
           /\ IsBelow(SubSeq(d, 1, Len(e) + 1), d) /\ IsBelow(e, SubSeq(d, 1, Len(e) + 1))
           /\ SubSeq(d, 1, Len(e) + 1) # e
<1>1. PICK n : n = Len(e)
  OBVIOUS
<1>2. PICK c : c = SubSeq(d, 1, n + 1)
  OBVIOUS
<1>3. n \in Nat /\ Len(d) \in Nat /\ n < Len(d) /\ e \in Dirs /\ IsBelow(e, d)
  BY <1>1, AboveFacts DEF Above
<1>4. n + 1 \in 0..Len(d)
  BY <1>3
<1>5. c \in Dirs /\ Len(c) = n + 1 /\ (\A i \in 1..n + 1 : c[i] = d[i]) /\ IsBelow(c, d)
  BY <1>2, <1>4, PrefixFacts
<1>6. c # e /\ c # Root
  <2>1. Len(c) # Len(e) /\ Len(c) # 0
    BY <1>1, <1>3, <1>5
  <2>2. c # e
    BY <2>1
  <2>3. c # Root
    <3>1. SUFFICES ASSUME c = Root PROVE FALSE
      OBVIOUS
    <3>2. Len(c) = 0
      BY <3>1 DEF Root
    <3> QED BY <2>1, <3>2
  <2> QED BY <2>2, <2>3
<1>7. e \in Seq(STRING) /\ c \in Seq(STRING) /\ \A i \in 1..n : e[i] = c[i]
  <2>1. e \in Seq(STRING) /\ c \in Seq(STRING)
    BY <1>3, <1>5, DirsAssumption
  <2>2. \A i \in 1..n : e[i] = d[i]
    BY <1>1, <1>3 DEF IsBelow
  <2>3. \A i \in 1..n : i \in 1..n + 1
    BY <1>3
  <2>4. \A i \in 1..n : e[i] = c[i]
    BY <1>5, <2>2, <2>3
  <2> QED BY <2>1, <2>4
<1>8. IsBelow(e, c)
  BY <1>1, <1>3, <1>5, <1>7 DEF IsBelow
<1>9. Parent(c) = e
  <2>1. PICK p : p = SubSeq(c, 1, n)
    OBVIOUS
  <2>2. n \in 0..Len(c)
    BY <1>3, <1>5
  <2>3. p \in Dirs /\ Len(p) = n /\ \A i \in 1..n : p[i] = c[i]
    BY <1>5, <2>1, <2>2, PrefixFacts
  <2>4. p \in Seq(STRING)
    BY <2>3, DirsAssumption
  <2>5. p = e
    BY <1>1, <1>7, <2>3, <2>4
  <2>6. Len(c) - 1 = n
    BY <1>3, <1>5
  <2> QED BY <2>1, <2>5, <2>6 DEF Parent
<1> QED BY <1>1, <1>2, <1>5, <1>6, <1>8, <1>9 DEF Children

(* A directory is above the parent of another when it is above that one.        *)
LEMMA AboveParent ==
    ASSUME NEW d \in Dirs, d # Root
    PROVE  /\ Parent(d) \in Dirs /\ IsBelow(Parent(d), d) /\ Parent(d) # d
           /\ \A e \in Dirs : IsBelow(e, d) /\ e # d => IsBelow(e, Parent(d))
<1>1. PICK p : p = Parent(d)
  OBVIOUS
<1>2. PICK n : n = Len(d) - 1
  OBVIOUS
<1>3. d \in Seq(STRING) /\ Len(d) \in Nat /\ Len(d) # 0
  BY DirsAssumption DEF Root
<1>4. n \in 0..Len(d) /\ n + 1 = Len(d)
  BY <1>2, <1>3
<1>5. p = SubSeq(d, 1, n)
  BY <1>1, <1>2 DEF Parent
<1>6. p \in Dirs /\ Len(p) = n /\ (\A i \in 1..n : p[i] = d[i]) /\ IsBelow(p, d)
  BY <1>4, <1>5, PrefixFacts
<1>7. p # d
  BY <1>1, ParentFacts
<1>8. ASSUME NEW e \in Dirs, IsBelow(e, d), e # d PROVE IsBelow(e, p)
  <2>1. e \in Above(d)
    BY <1>8 DEF Above
  <2>2. Len(e) \in Nat /\ Len(e) <= n
    BY <1>4, <2>1, AboveFacts
  <2>3. \A i \in 1..Len(e) : e[i] = p[i]
    BY <1>4, <1>6, <1>8, <2>2 DEF IsBelow
  <2> QED BY <1>6, <2>2, <2>3 DEF IsBelow
<1> QED BY <1>1, <1>6, <1>7, <1>8

LEMMA ChildIsBelow ==
    ASSUME NEW d \in Dirs, NEW c \in Children(d)
    PROVE  c \in Dirs /\ c # Root /\ IsBelow(d, c) /\ c # d /\ Parent(c) = d
BY AboveParent DEF Children

-----------------------------------------------------------------------------

LEMMA InsertLists ==
    ASSUME CacheTypeOK, NEW dk, NEW h, NEW d \in Dirs, NEW gone, d \notin gone, mem[d] = Uncached,
           Foldered(dk), Listed(mem, dk, gone), dk[d].file # NoFile
    PROVE  Listed(Insert(dk, h, d), dk, gone)
<1> SUFFICES ASSUME NEW e \in Dirs \ gone, Insert(dk, h, d)[e] # Uncached
             PROVE  Lists(Insert(dk, h, d)[e], dk, e, gone)
  BY DEF Listed
<1>1. ASSUME NEW x \in LoadedWith(dk, h, d) PROVE x \in Dirs /\ dk[x].file # NoFile
  <2>1. x \in Above(d) /\ x \in Dirs
    BY DEF LoadedWith, Above
  <2>2. Loadable(dk, h, x)
    BY <2>1, DirOrder DEF LoadedWith
  <2> QED BY <2>1, <2>2 DEF Loadable
<1>2. CASE e = d \/ e \in LoadedWith(dk, h, d)
  <2>1. Insert(dk, h, d)[e] = Blank /\ dk[e].folder
    BY <1>1, <1>2 DEF Insert, Foldered
  <2> QED BY <2>1 DEF Lists, Blank
<1>3. CASE /\ ~ (e = d \/ e \in LoadedWith(dk, h, d))
           /\ e \in StopsAt(dk, h, d) /\ mem[e] # Uncached /\ mem[e].scanned
  <2>1. PICK c : c = SubSeq(d, 1, Len(e) + 1)
    OBVIOUS
  <2>2. Insert(dk, h, d)[e] = [mem[e] EXCEPT !.subdirs = @ \cup {c}]
    BY <1>3, <2>1 DEF Insert
  <2>3. e \in Above(d)
    BY <1>3 DEF StopsAt
  <2>4. c \in Children(e) /\ IsBelow(c, d) /\ IsBelow(e, c) /\ c # e /\ c \in Dirs
    BY <2>1, <2>3, OnTheWay DEF Children
  <2>5. c = d \/ c \in LoadedWith(dk, h, d)
    BY <1>3, <2>4 DEF StopsAt, Above
  <2>6. dk[c].folder
    BY <1>1, <2>4, <2>5 DEF Foldered
  <2>7. Lists(mem[e], dk, e, gone)
    BY <1>3 DEF Listed
  <2>8. mem[e] \in DirStates
    BY <1>3 DEF CacheTypeOK
  <2> QED BY <1>3, <2>2, <2>4, <2>6, <2>7, <2>8 DEF Lists, DirStates
<1>4. CASE /\ ~ (e = d \/ e \in LoadedWith(dk, h, d))
           /\ ~ (e \in StopsAt(dk, h, d) /\ mem[e] # Uncached /\ mem[e].scanned)
  <2>1. Insert(dk, h, d)[e] = mem[e]
    BY <1>4 DEF Insert
  <2> QED BY <2>1 DEF Listed
<1> QED BY <1>2, <1>3, <1>4

(* What a lookup, perhaps of a directory that has to be made, finds and makes.    *)
Finds(found, dk, d, gone) ==
    /\ Foldered(found.disk)
    /\ Listed(found.mem, found.disk, gone)
    /\ \A x \in Dirs : found.disk[x].folder => dk[x].folder \/ IsBelow(x, d)

LEMMA LookupFinds ==
    ASSUME CacheTypeOK, NEW dk, NEW h, NEW d \in Dirs, NEW gone, d \notin gone,
           Foldered(dk), Listed(mem, dk, gone)
    PROVE  Finds(Lookup(dk, h, d), dk, d, gone) /\ Lookup(dk, h, d).disk = dk
<1>1. Lookup(dk, h, d).disk = dk
  BY DEF Lookup
<1>2. Listed(Lookup(dk, h, d).mem, dk, gone)
  <2>1. CASE mem[d] # Uncached \/ ~ Loadable(dk, h, d)
    BY <2>1 DEF Lookup
  <2>2. CASE mem[d] = Uncached /\ Loadable(dk, h, d)
    <3>1. Lookup(dk, h, d).mem = Insert(dk, h, d) /\ dk[d].file # NoFile
      BY <2>2 DEF Lookup, Loadable
    <3> QED BY <2>2, <3>1, InsertLists
  <2> QED BY <2>1, <2>2
<1> QED BY <1>1, <1>2 DEF Finds

LEMMA ObtainFinds ==
    ASSUME CacheTypeOK, NEW dk \in [Dirs -> Folders], NEW h, NEW d \in Dirs, NEW gone, d \notin gone,
           Foldered(dk), Listed(mem, dk, gone)
    PROVE  Finds(Obtain(dk, h, d), dk, d, gone)
<1>1. CASE mem[d] # Uncached \/ Loadable(dk, h, d)
  BY <1>1, LookupFinds DEF Obtain
<1>2. CASE ~ (mem[d] # Uncached \/ Loadable(dk, h, d))
  <2>1. PICK made : made = Make(dk, ToMake(dk, d))
    OBVIOUS
  <2>2. Obtain(dk, h, d).mem = Insert(made, h, d) /\ Obtain(dk, h, d).disk = made
    BY <1>2, <2>1 DEF Obtain
  <2>3. ASSUME NEW x \in Dirs
        PROVE  IF x \in ToMake(dk, d)
               THEN made[x].folder /\ made[x].file = Nothing /\ IsBelow(x, d)
               ELSE made[x] = dk[x]
    <3>1. CASE x \in ToMake(dk, d)
      <4>1. made[x] = [dk[x] EXCEPT !.folder = TRUE, !.file = Nothing] /\ dk[x] \in Folders
        BY <2>1, <3>1 DEF Make
      <4>2. IsBelow(x, d)
        BY <3>1, DirOrder DEF ToMake, Above
      <4> QED BY <3>1, <4>1, <4>2 DEF Folders
    <3>2. CASE x \notin ToMake(dk, d)
      BY <2>1, <3>2 DEF Make
    <3> QED BY <3>1, <3>2
  <2>4. Foldered(made)
    BY <2>3 DEF Foldered
  <2>5. Listed(mem, made, gone)
    <3>1. \A x \in Dirs : dk[x].folder => made[x].folder
      BY <2>3
    <3> QED BY <3>1 DEF Listed, Lists, Children
  <2>6. made[d].file # NoFile
    <3>1. dk[d].file = NoFile => d \in ToMake(dk, d)
      BY DirOrder DEF ToMake, Above
    <3> QED BY <2>3, <3>1, ContentsFacts
  <2>7. Listed(Insert(made, h, d), made, gone)
    BY <1>2, <2>4, <2>5, <2>6, InsertLists
  <2> QED BY <2>2, <2>3, <2>4, <2>7 DEF Finds
<1> QED BY <1>1, <1>2

-----------------------------------------------------------------------------

(* A step that leaves what it finds, and perhaps one directory changed.          *)
LEMMA FindingTidies ==
    ASSUME CacheInv, TidyParts, sync.at \in {"none", "list"}, NEW found, NEW d \in Dirs, NEW m,
           Sound(found, disk), Finds(found, disk, d, {}),
           disk' = found.disk, sync' \in {sync, NoSync},
           mem' = IF found.mem[d] = Uncached THEN found.mem ELSE [found.mem EXCEPT ![d] = m],
           found.mem[d] # Uncached =>
               m \in DirStates /\ Lists(m, found.disk, d, {}) /\ (found.mem[d].dirty => m.dirty),
           found.disk = disk \/ (found.mem[d] # Uncached /\ m.dirty)
    PROVE  TidyParts'
<1>1. /\ Foldered(disk) /\ Listed(mem, disk, {}) /\ AllTended
      /\ Foldered(found.disk) /\ Listed(found.mem, found.disk, {})
      /\ \A x \in Dirs : found.disk[x].folder => disk[x].folder \/ IsBelow(x, d)
  BY DEF TidyParts, Finds
<1>2. /\ found.mem \in [Dirs -> DirStates \cup {Uncached}]
      /\ \A e \in Dirs : mem[e] # Uncached =>
            found.mem[e] \in DirStates /\ found.mem[e].dirty = mem[e].dirty
      /\ \A e \in Dirs : Content(found.disk[e].file) = Content(disk[e].file)
  BY DEF Sound, Grown, SameFiles
<1>3. \A e \in Dirs : mem'[e] = IF e = d /\ found.mem[d] # Uncached THEN m ELSE found.mem[e]
  BY <1>2
<1>4. Foldered(disk')
  BY <1>1
<1>5. Listed(mem', disk', {})
  BY <1>1, <1>3 DEF Listed
<1>6. HandTidy'
  <2>1. sync'.at \in {"none", "list"}
    BY DEF NoSync
  <2> QED BY <2>1 DEF HandTidy
<1>7. ASSUME NEW x \in Dirs, Hollow(disk', x) PROVE Tended(mem', x)
  <2>1. CASE disk[x].folder
    <3>1. Hollow(disk, x)
      BY <1>2, <1>7, <2>1 DEF Hollow
    <3>2. PICK e \in Dirs : IsBelow(x, e) /\ mem[e] # Uncached /\ mem[e].dirty
      BY <1>1, <3>1 DEF AllTended, Tended
    <3>3. found.mem[e] \in DirStates /\ found.mem[e].dirty
      BY <1>2, <3>2
    <3>4. mem'[e] # Uncached /\ mem'[e].dirty
      BY <1>3, <3>3, StateFacts
    <3> QED BY <3>2, <3>4 DEF Tended
  <2>2. CASE ~ disk[x].folder
    <3>1. IsBelow(x, d) /\ found.mem[d] # Uncached /\ m.dirty
      BY <1>1, <1>7, <2>2 DEF Hollow
    <3>2. mem'[d] # Uncached /\ mem'[d].dirty
      BY <1>3, <3>1, StateFacts
    <3> QED BY <3>1, <3>2 DEF Tended
  <2> QED BY <2>1, <2>2
<1>8. AllTended'
  BY <1>7 DEF AllTended
<1> QED BY <1>4, <1>5, <1>6, <1>8 DEF TidyParts

LEMMA ReadTidies ==
    ASSUME NEW m \in DirStates, NEW f
    PROVE  /\ Read(m, f).subdirs = m.subdirs /\ Read(m, f).scanned = m.scanned
           /\ Read(m, f).dirty = m.dirty
BY DEF Read, DirStates

(* What a request leaves of the directory it has found: the list as it is, and   *)
(* never the directory clean that was dirty.                                  *)
Leaves(m, n) ==
    /\ m \in DirStates /\ m.subdirs = n.subdirs /\ m.scanned = n.scanned
    /\ n.dirty => m.dirty

LEMMA OpenedLeaves ==
    ASSUME CacheInv, NEW creates \in BOOLEAN, NEW h, NEW d \in Dirs,
           Find(creates, h, d).mem[d] # Uncached
    PROVE  Leaves(Opened(creates, h, d), Find(creates, h, d).mem[d])
<1>1. Opened(creates, h, d) \in DirStates
  BY OpenedIsOnDisk
<1>2. Find(creates, h, d).mem[d] \in DirStates
  BY FindIsSound DEF CacheInv, Sound, Grown
<1> QED BY <1>1, <1>2, ReadTidies DEF Opened, Leaves

LEMMA ChangedLeaves ==
    ASSUME NEW m \in DirStates, NEW n, Leaves(m, n), NEW k \in Keys
    PROVE  /\ \A v \in Values \cup {None} :
                  Leaves(WithValue(m, k, v), n) /\ WithValue(m, k, v).dirty
           /\ \A s \in Schemas \cup {None} :
                  /\ Leaves([m EXCEPT !.entries[k].schema = s, !.dirty = TRUE], n)
                  /\ [m EXCEPT !.entries[k].schema = s, !.dirty = TRUE].dirty
<1>1. ASSUME NEW v \in Values \cup {None}
      PROVE  Leaves(WithValue(m, k, v), n) /\ WithValue(m, k, v).dirty
  <2>1. WithValue(m, k, v) \in DirStates /\ WithValue(m, k, v).dirty
    BY ChangedStates
  <2>2. WithValue(m, k, v).subdirs = m.subdirs /\ WithValue(m, k, v).scanned = m.scanned
    BY DEF WithValue, DirStates
  <2> QED BY <2>1, <2>2 DEF Leaves
<1>2. ASSUME NEW s \in Schemas \cup {None}
      PROVE  /\ Leaves([m EXCEPT !.entries[k].schema = s, !.dirty = TRUE], n)
             /\ [m EXCEPT !.entries[k].schema = s, !.dirty = TRUE].dirty
  <2> DEFINE c == [m EXCEPT !.entries[k].schema = s, !.dirty = TRUE]
  <2>1. c \in DirStates /\ c.dirty
    BY ChangedStates
  <2>2. c.subdirs = m.subdirs /\ c.scanned = m.scanned
    BY DEF DirStates
  <2> HIDE DEF c
  <2>3. Leaves(c, n) /\ c.dirty
    BY <2>1, <2>2 DEF Leaves
  <2> QED BY <2>3 DEF c
<1> QED BY <1>1, <1>2

LEMMA RequestTidies ==
    ASSUME CacheInv, TidyParts, NEW creates \in BOOLEAN, NEW h, NEW d \in Dirs, NEW m,
           Request(creates, h, d, m),
           Find(creates, h, d).mem[d] # Uncached =>
               Leaves(m, Find(creates, h, d).mem[d]) /\ (creates => m.dirty)
    PROVE  TidyParts'
<1> DEFINE found == Find(creates, h, d)
<1>1. Sound(found, disk)
  BY FindIsSound DEF CacheInv
<1>2. Foldered(disk) /\ Listed(mem, disk, {}) /\ CacheTypeOK /\ disk \in [Dirs -> Folders]
  BY DEF TidyParts, CacheInv, CacheTypeOK
<1>3. Finds(found, disk, d, {}) /\ (~ creates => found.disk = disk)
  BY <1>2, LookupFinds, ObtainFinds DEF Find
<1>4. creates => found.mem[d] # Uncached
  BY <1>2, ObtainIsSound DEF Find
<1>5. /\ sync.at \in {"none", "list"} /\ sync' = sync /\ disk' = found.disk
      /\ mem' = IF found.mem[d] = Uncached THEN found.mem ELSE [found.mem EXCEPT ![d] = m]
  BY DEF Request, Idle
<1>6. found.mem[d] # Uncached => Leaves(m, found.mem[d]) /\ (creates => m.dirty)
  OBVIOUS
<1> HIDE DEF found
<1>7. found.mem[d] # Uncached =>
         m \in DirStates /\ Lists(m, found.disk, d, {}) /\ (found.mem[d].dirty => m.dirty)
  BY <1>3, <1>6 DEF Leaves, Finds, Listed, Lists
<1>8. found.disk = disk \/ (found.mem[d] # Uncached /\ m.dirty)
  BY <1>3, <1>4, <1>6
<1> QED BY <1>1, <1>3, <1>5, <1>7, <1>8, FindingTidies

(* A step with which nothing goes wrong.                                      *)
LEMMA NothingWrong ==
    ASSUME CacheInv, faults' = 0, NEW kind
    PROVE  ~ Fails(kind) /\ (Occurs(kind) => kind = "none" /\ faults = 0)
<1>1. faults \in Nat
  BY FaultsAssumption DEF CacheInv, CacheTypeOK
<1>2. ~ Fails(kind)
  BY <1>1 DEF Fails
<1> QED BY <1>2 DEF Occurs

LEMMA SyncBeginsTidy ==
    ASSUME TidyParts, NEW for, BeginSync(for)
    PROVE  TidyParts'
<1>1. sync'.at = "visit" /\ UNCHANGED <<mem, disk>>
  BY DEF BeginSync, NoSync
<1> QED BY <1>1 DEF TidyParts, HandTidy, AllTended, Foldered, Listed

LEMMA RequestStepTidies ==
    ASSUME CacheInv, TidyParts, RequestStep, faults' = 0
    PROVE  TidyParts'
<1>1. ASSUME NEW d \in Dirs, NEW k \in Keys, NEW v \in Values, SetValue(d, k, v)
      PROVE  TidyParts'
  <2>1. PICK h \in Unseen : Request(TRUE, h, d, WithValue(Opened(TRUE, h, d), k, v))
    BY <1>1 DEF SetValue
  <2>2. Find(TRUE, h, d).mem[d] # Uncached =>
          /\ Leaves(WithValue(Opened(TRUE, h, d), k, v), Find(TRUE, h, d).mem[d])
          /\ WithValue(Opened(TRUE, h, d), k, v).dirty
    <3>1. SUFFICES ASSUME Find(TRUE, h, d).mem[d] # Uncached
                   PROVE  /\ Leaves(WithValue(Opened(TRUE, h, d), k, v), Find(TRUE, h, d).mem[d])
                          /\ WithValue(Opened(TRUE, h, d), k, v).dirty
      OBVIOUS
    <3>2. PICK m, n : m = Opened(TRUE, h, d) /\ n = Find(TRUE, h, d).mem[d]
      OBVIOUS
    <3>3. Leaves(m, n)
      BY <3>1, <3>2, OpenedLeaves
    <3>4. m \in DirStates
      BY <3>3 DEF Leaves
    <3>5. Leaves(WithValue(m, k, v), n) /\ WithValue(m, k, v).dirty
      BY <3>3, <3>4, ChangedLeaves
    <3> QED BY <3>2, <3>5
  <2> QED BY <2>1, <2>2, RequestTidies
<1>2. ASSUME NEW d \in Dirs, NEW k \in Keys, UnsetValue(d, k) PROVE TidyParts'
  <2>1. PICK h \in Unseen :
          LET m == Opened(FALSE, h, d) IN
          Request(FALSE, h, d, IF m.entries[k].value = None THEN m ELSE WithValue(m, k, None))
    BY <1>2 DEF UnsetValue
  <2> DEFINE m == Opened(FALSE, h, d)
             n == IF m.entries[k].value = None THEN m ELSE WithValue(m, k, None)
             found == Find(FALSE, h, d)
  <2>2. found.mem[d] # Uncached => Leaves(m, found.mem[d])
    BY OpenedLeaves
  <2>3. Request(FALSE, h, d, n)
    BY <2>1
  <2> HIDE DEF m
  <2>4. found.mem[d] # Uncached => Leaves(WithValue(m, k, None), found.mem[d])
    <3>1. PICK f : f = found.mem[d]
      OBVIOUS
    <3>2. ASSUME Leaves(m, f) PROVE Leaves(WithValue(m, k, None), f)
      <4>1. m \in DirStates
        BY <3>2 DEF Leaves
      <4> QED BY <3>2, <4>1, ChangedLeaves
    <3> QED BY <2>2, <3>1, <3>2
  <2>5. found.mem[d] # Uncached => Leaves(n, found.mem[d])
    BY <2>2, <2>4
  <2> HIDE DEF n
  <2> QED BY <2>3, <2>5, RequestTidies
<1>3. ASSUME NEW d \in Dirs, NEW k \in Keys, NEW s \in Schemas \cup {None}, SetSchema(d, k, s)
      PROVE  TidyParts'
  <2>1. PICK h \in Unseen :
          Request(TRUE, h, d, [Opened(TRUE, h, d) EXCEPT !.entries[k].schema = s, !.dirty = TRUE])
    BY <1>3 DEF SetSchema
  <2> DEFINE n == [Opened(TRUE, h, d) EXCEPT !.entries[k].schema = s, !.dirty = TRUE]
  <2>2. Find(TRUE, h, d).mem[d] # Uncached => Leaves(n, Find(TRUE, h, d).mem[d]) /\ n.dirty
    <3>1. PICK m, f : m = Opened(TRUE, h, d) /\ f = Find(TRUE, h, d).mem[d]
      OBVIOUS
    <3>2. ASSUME f # Uncached PROVE Leaves(m, f) /\ m \in DirStates
      BY <3>1, <3>2, OpenedLeaves DEF Leaves
    <3>3. n = [m EXCEPT !.entries[k].schema = s, !.dirty = TRUE]
      BY <3>1
    <3> HIDE DEF n
    <3>4. ASSUME f # Uncached PROVE Leaves(n, f) /\ n.dirty
      <4>1. /\ Leaves([m EXCEPT !.entries[k].schema = s, !.dirty = TRUE], f)
            /\ [m EXCEPT !.entries[k].schema = s, !.dirty = TRUE].dirty
        BY <3>2, <3>4, ChangedLeaves
      <4> QED BY <3>3, <4>1
    <3> QED BY <3>1, <3>4
  <2>3. Request(TRUE, h, d, n)
    BY <2>1
  <2> HIDE DEF n
  <2> QED BY <2>2, <2>3, RequestTidies
<1>4. ASSUME NEW d \in Dirs, Query(d) PROVE TidyParts'
  BY <1>4, OpenedLeaves, RequestTidies DEF Query
<1>5. ASSUME NEW d \in Dirs, DirExists(d) PROVE TidyParts'
  <2>1. PICK h \in Unseen : mem' = Lookup(disk, h, d).mem
    BY <1>5 DEF DirExists
  <2>2. sync.at \in {"none", "list"} /\ disk' = disk /\ sync' = sync
    BY <1>5 DEF DirExists, Idle
  <2>3. CacheTypeOK /\ disk \in [Dirs -> Folders] /\ Foldered(disk) /\ Listed(mem, disk, {})
    BY DEF CacheInv, CacheTypeOK, TidyParts
  <2>4. PICK found : found = Lookup(disk, h, d)
    OBVIOUS
  <2>5. Sound(found, disk) /\ Finds(found, disk, d, {}) /\ found.disk = disk
    BY <2>3, <2>4, LookupIsSound, LookupFinds
  <2>6. PICK m : m = found.mem[d]
    OBVIOUS
  <2>7. found.mem \in [Dirs -> DirStates \cup {Uncached}]
    BY <2>5 DEF Sound, Grown
  <2>8. mem' = IF found.mem[d] = Uncached THEN found.mem ELSE [found.mem EXCEPT ![d] = m]
    BY <2>1, <2>4, <2>6, <2>7
  <2>9. found.mem[d] # Uncached =>
           m \in DirStates /\ Lists(m, found.disk, d, {}) /\ (found.mem[d].dirty => m.dirty)
    BY <2>5, <2>6, <2>7 DEF Finds, Listed
  <2> QED BY <2>2, <2>5, <2>8, <2>9, FindingTidies
<1>6. ASSUME NEW d \in Dirs, AllSubdirs(d) PROVE TidyParts'
  BY <1>6, SyncBeginsTidy DEF AllSubdirs
<1>7. ASSUME NEW d \in Dirs, Unreadable(d) \/ CannotCreate(d) PROVE FALSE
  BY <1>7, NothingWrong DEF Unreadable, CannotCreate
<1> QED BY <1>1, <1>2, <1>3, <1>4, <1>5, <1>6, <1>7 DEF RequestStep

-----------------------------------------------------------------------------

(* A step that changes of the disk and the cache at most the directory in hand.   *)
LEMMA HandStepTidies ==
    ASSUME CacheInv, TidyParts, NEW d \in Dirs,
           mem' \in [Dirs -> DirStates \cup {Uncached}], disk' \in [Dirs -> Folders],
           \A e \in Dirs \ {d} : mem'[e] = mem[e] /\ disk'[e] = disk[e],
           disk'[d].folder = disk[d].folder,
           disk'[d].file # NoFile => disk'[d].folder,
           mem'[d] # Uncached => Lists(mem'[d], disk, d, {}),
           HandTidy',
           \/ mem'[d] # Uncached /\ mem'[d].dirty
           \/ \A x \in Dirs : IsBelow(x, d) => ~ Hollow(disk', x) \/ Tended(mem', x)
    PROVE  TidyParts'
<1>1. \A e \in Dirs : disk'[e].folder = disk[e].folder
  OBVIOUS
<1>2. Foldered(disk')
  BY <1>1 DEF Foldered, TidyParts
<1>3. Listed(mem', disk', {})
  BY <1>1 DEF Listed, Lists, Children, TidyParts
<1>4. ASSUME NEW x \in Dirs, Hollow(disk', x) PROVE Tended(mem', x)
  <2>1. CASE IsBelow(x, d)
    BY <1>4, <2>1 DEF Tended
  <2>2. CASE ~ IsBelow(x, d)
    <3>1. Hollow(disk, x)
      BY <1>1, <1>4, <2>2 DEF Hollow
    <3>2. PICK e \in Dirs : IsBelow(x, e) /\ mem[e] # Uncached /\ mem[e].dirty
      BY <3>1 DEF TidyParts, AllTended, Tended
    <3> QED BY <2>2, <3>2 DEF Tended
  <2> QED BY <2>1, <2>2
<1>5. AllTended'
  BY <1>4 DEF AllTended
<1> QED BY <1>2, <1>3, <1>5 DEF TidyParts

LEMMA NothingMoves ==
    ASSUME TidyParts, UNCHANGED <<mem, disk>>, HandTidy'
    PROVE  TidyParts'
BY DEF TidyParts, AllTended, Foldered, Listed

(* The list of a directory that has been examined names folders.                 *)
LEMMA ExaminedTidies ==
    ASSUME NEW n \in DirStates, NEW d \in Dirs, Foldered(disk), Lists(n, disk, d, {})
    PROVE  /\ Lists(Examined(n, disk, d, "none"), disk, d, {})
           /\ Examined(n, disk, d, "none").dirty = n.dirty
<1>1. PICK r : r = Read(n, disk[d].file)
  OBVIOUS
<1>2. /\ Examined(n, disk, d, "none") = Scan(r, disk, d)
      /\ r.subdirs = n.subdirs /\ r.scanned = n.scanned /\ r.dirty = n.dirty
  BY <1>1, ReadTidies DEF Examined
<1>3. r = n \/ r = [n EXCEPT !.loaded = TRUE, !.entries = Content(disk[d].file)]
  BY <1>1 DEF Read
<1>4. CASE n.scanned
  BY <1>2, <1>4 DEF Scan, Lists
<1>5. CASE ~ n.scanned
  <2>1. Scan(r, disk, d) = [r EXCEPT !.scanned = TRUE,
                                     !.subdirs = {c \in Children(d) : disk[c].file # NoFile}]
    BY <1>2, <1>5 DEF Scan
  <2>2. /\ Scan(r, disk, d).subdirs = {c \in Children(d) : disk[c].file # NoFile}
        /\ Scan(r, disk, d).scanned /\ Scan(r, disk, d).dirty = r.dirty
    BY <1>3, <2>1 DEF DirStates
  <2> QED BY <1>2, <2>2 DEF Lists, Foldered, Children
<1> QED BY <1>4, <1>5

LEMMA VisitTidies ==
    ASSUME CacheInv, TidyParts, faults' = 0, NEW d \in Dirs, VisitClean(d) \/ VisitDirty(d)
    PROVE  TidyParts'
<1>1. /\ d \in sync.todo /\ sync.at = "visit" /\ sync \in Syncs /\ mem[d] \in DirStates
      /\ mem[d] # Uncached /\ mem \in [Dirs -> DirStates \cup {Uncached}]
      /\ disk \in [Dirs -> Folders]
  BY DEF VisitClean, VisitDirty, At, CacheInv, CacheTypeOK, PassSound, Cached
<1>2. CASE VisitClean(d)
  <2>1. sync'.at = "visit" /\ UNCHANGED <<mem, disk>>
    BY <1>1, <1>2 DEF VisitClean, Syncs
  <2> QED BY <2>1, NothingMoves DEF HandTidy
<1>3. CASE VisitDirty(d)
  <2> DEFINE m == Examined(mem[d], disk, d, "none")
  <2>1. PICK kind \in Examines(mem[d]) :
           LET n == Examined(mem[d], disk, d, kind) IN
           /\ Occurs(kind)
           /\ mem' = [mem EXCEPT ![d] = n]
           /\ sync' = [sync EXCEPT !.todo = @ \ {d}, !.dir = d,
                                   !.at = IF Useless(n) THEN "unlink" ELSE "write"]
    BY <1>3 DEF VisitDirty
  <2>2. kind = "none"
    BY <2>1, NothingWrong
  <2>3. mem' = [mem EXCEPT ![d] = m] /\ disk' = disk /\ mem[d].dirty
    BY <1>3, <2>1, <2>2 DEF VisitDirty
  <2>4. sync'.dir = d /\ sync'.at = IF Useless(m) THEN "unlink" ELSE "write"
    BY <1>1, <2>1, <2>2 DEF Syncs
  <2>5. Foldered(disk) /\ Lists(mem[d], disk, d, {})
    BY <1>1 DEF TidyParts, Listed
  <2>6. m \in DirStates
    BY <1>1, ExaminedKeeps DEF Kept
  <2>7. Lists(m, disk, d, {}) /\ m.dirty
    BY <1>1, <2>3, <2>5, ExaminedTidies
  <2> HIDE DEF m
  <2>8. /\ mem' \in [Dirs -> DirStates \cup {Uncached}] /\ mem'[d] = m
        /\ \A e \in Dirs \ {d} : mem'[e] = mem[e]
    BY <1>1, <2>3, <2>6
  <2>9. HandTidy'
    BY <2>4, <2>8 DEF HandTidy
  <2>10. mem'[d] # Uncached /\ mem'[d].dirty
    BY <2>6, <2>7, <2>8, StateFacts
  <2>11. disk'[d].file # NoFile => disk'[d].folder
    BY <2>3, <2>5 DEF Foldered
  <2> QED BY <1>1, <2>3, <2>7, <2>8, <2>9, <2>10, <2>11, HandStepTidies
<1> QED BY <1>2, <1>3

LEMMA ListTidies ==
    ASSUME CacheInv, TidyParts, faults' = 0, NEW d \in Dirs, List(d)
    PROVE  TidyParts'
<1>1. PICK found : found = Lookup(disk, {}, d)
  OBVIOUS
<1>2. CacheTypeOK /\ disk \in [Dirs -> Folders] /\ Foldered(disk) /\ Listed(mem, disk, {})
  BY DEF CacheInv, CacheTypeOK, TidyParts
<1>3. Sound(found, disk) /\ Finds(found, disk, d, {}) /\ found.disk = disk
  BY <1>1, <1>2, LookupIsSound, LookupFinds
<1>4. found.mem \in [Dirs -> DirStates \cup {Uncached}] /\ Listed(found.mem, disk, {})
  BY <1>3 DEF Sound, Grown, Finds
<1>5. /\ sync.at \in {"none", "list"} /\ sync' = NoSync /\ disk' = disk
      /\ IF found.mem[d] = Uncached
         THEN mem' = found.mem
         ELSE \E kind \in Examines(found.mem[d]) :
                 /\ Occurs(kind)
                 /\ mem' = [found.mem EXCEPT ![d] = Examined(found.mem[d], disk, d, kind)]
  BY <1>1 DEF List, At
<1>6. PICK m : m = Examined(found.mem[d], disk, d, "none")
  OBVIOUS
<1>7. mem' = IF found.mem[d] = Uncached THEN found.mem ELSE [found.mem EXCEPT ![d] = m]
  BY <1>5, <1>6, NothingWrong
<1>8. found.mem[d] # Uncached =>
         m \in DirStates /\ Lists(m, found.disk, d, {}) /\ (found.mem[d].dirty => m.dirty)
  <2>1. SUFFICES ASSUME found.mem[d] # Uncached
                 PROVE  m \in DirStates /\ Lists(m, disk, d, {}) /\ m.dirty = found.mem[d].dirty
    BY <1>3
  <2>2. found.mem[d] \in DirStates /\ Lists(found.mem[d], disk, d, {})
    BY <1>4, <2>1 DEF Listed
  <2>3. m \in DirStates
    BY <1>2, <1>6, <2>2, ExaminedKeeps DEF Kept
  <2> QED BY <1>2, <1>6, <2>2, <2>3, ExaminedTidies
<1> QED BY <1>3, <1>5, <1>7, <1>8, FindingTidies

(* The directory that a sync has in hand.                                      *)
LEMMA InHandFacts ==
    ASSUME CacheInv, TidyParts, sync.at \in Handling, NEW d, d = sync.dir
    PROVE  /\ d \in Dirs /\ mem[d] \in DirStates /\ mem[d] # Uncached /\ mem[d].dirty
           /\ Lists(mem[d], disk, d, {}) /\ disk[d].folder
           /\ mem \in [Dirs -> DirStates \cup {Uncached}]
           /\ disk \in [Dirs -> Folders] /\ sync \in Syncs
<1>1. d \in Dirs /\ mem[d] \in DirStates /\ mem[d].dirty /\ mem[d] # Uncached
  BY HandledFacts, StateFacts
<1>2. Lists(mem[d], disk, d, {})
  BY <1>1 DEF TidyParts, Listed
<1> QED BY <1>1, <1>2, HandledFacts DEF Lists

(* When a directory without entries is written, it has subdirectories, and what    *)
(* is to tend them is to tend it, too.                                         *)
LEMMA WrittenIsTended ==
    ASSUME CacheInv, TidyParts, NEW d \in Dirs, ~ Useless(mem[d]), mem[d] \in DirStates,
           Lists(mem[d], disk, d, {}),
           \A e \in Dirs \ {d} : mem'[e] = mem[e] /\ disk'[e] = disk[e],
           disk'[d].file = mem[d].entries
    PROVE  \A x \in Dirs : IsBelow(x, d) => ~ Hollow(disk', x) \/ Tended(mem', x)
<1> SUFFICES ASSUME NEW x \in Dirs, IsBelow(x, d), Hollow(disk', x)
             PROVE  Tended(mem', x)
  OBVIOUS
<1>1. mem[d].entries = Nothing
  <2>1. Content(disk'[d].file) = Nothing
    BY DEF Hollow
  <2> QED BY <2>1, ContentsFacts DEF DirStates
<1>2. PICK c \in Children(d) : disk[c].folder
  <2>1. mem[d].subdirs # {}
    BY <1>1 DEF Useless
  <2> QED BY <2>1 DEF Lists
<1>3. c \in Dirs /\ c # Root /\ IsBelow(d, c) /\ c # d
  BY ChildIsBelow
<1>4. \A e \in Dirs : IsBelow(c, e) => e # d /\ IsBelow(x, e)
  BY <1>3, DirOrder
<1>5. Hollow(disk, c)
  <2>1. \A e \in Dirs : IsBelow(c, e) => Content(disk[e].file) = Nothing
    BY <1>4 DEF Hollow
  <2> QED BY <1>2, <1>3, <2>1 DEF Hollow
<1>6. PICK e \in Dirs : IsBelow(c, e) /\ mem[e] # Uncached /\ mem[e].dirty
  BY <1>3, <1>5 DEF TidyParts, AllTended, Tended
<1> QED BY <1>4, <1>6 DEF Tended

LEMMA WriteTidies ==
    ASSUME CacheInv, TidyParts, faults' = 0,
           \/ WriteTmp \/ WriteTmpFails \/ MoveOld \/ MoveOldFails
           \/ MoveNew \/ MoveNewFails \/ UnlinkOld
    PROVE  TidyParts'
<1>1. PICK d : d = sync.dir
  OBVIOUS
<1>2. sync.at \in {"write", "move old", "move new", "unlink old"} /\ sync.at \in Handling
  BY DEF WriteTmp, WriteTmpFails, MoveOld, MoveOldFails, MoveNew, MoveNewFails, UnlinkOld,
         At, Handling, Steps
<1>3. /\ d \in Dirs /\ mem[d] \in DirStates /\ mem[d] # Uncached /\ mem[d].dirty
      /\ Lists(mem[d], disk, d, {}) /\ disk[d].folder
      /\ mem \in [Dirs -> DirStates \cup {Uncached}]
      /\ disk \in [Dirs -> Folders] /\ sync \in Syncs
  BY <1>1, <1>2, InHandFacts
<1>4. ~ Useless(mem[d])
  BY <1>1, <1>2 DEF TidyParts, HandTidy
<1>5. CASE WriteTmp
  <2>1. disk' = [disk EXCEPT ![d].tmp = TRUE] /\ mem' = mem
    BY <1>1, <1>5 DEF WriteTmp
  <2>2. sync'.at = "move old" /\ sync'.dir = d
    BY <1>1, <1>3, <1>5 DEF WriteTmp, Syncs
  <2>3. /\ disk' \in [Dirs -> Folders] /\ disk'[d].folder
        /\ \A e \in Dirs \ {d} : disk'[e] = disk[e]
    BY <1>3, <2>1 DEF Folders
  <2>4. HandTidy'
    BY <1>4, <2>1, <2>2 DEF HandTidy
  <2> QED BY <1>3, <2>1, <2>3, <2>4, HandStepTidies
<1>6. CASE MoveOld
  <2>1. /\ disk' \in {[disk EXCEPT ![d].old = disk[d].file, ![d].file = NoFile], disk}
        /\ mem' = mem
    BY <1>1, <1>6 DEF MoveOld
  <2>2. sync'.at = "move new" /\ sync'.dir = d
    BY <1>1, <1>3, <1>6 DEF MoveOld, Syncs
  <2>3. /\ disk' \in [Dirs -> Folders] /\ disk'[d].folder
        /\ \A e \in Dirs \ {d} : disk'[e] = disk[e]
    BY <1>3, <2>1 DEF Folders
  <2>4. HandTidy'
    BY <1>4, <2>1, <2>2 DEF HandTidy
  <2> QED BY <1>3, <2>1, <2>3, <2>4, HandStepTidies
<1>7. CASE MoveNew
  <2>1. disk' = [disk EXCEPT ![d].file = mem[d].entries, ![d].tmp = FALSE]
    BY <1>1, <1>7 DEF MoveNew
  <2>2. mem[d].entries \in Contents
    BY <1>3, StateFacts
  <2>3. /\ disk' \in [Dirs -> Folders] /\ disk'[d].folder /\ disk'[d].file = mem[d].entries
        /\ \A e \in Dirs \ {d} : disk'[e] = disk[e]
    BY <1>3, <2>1, <2>2 DEF Folders
  <2>4. CASE sync.kept
    <3>1. mem' = mem /\ sync'.at = "unlink old" /\ sync'.dir = d
      BY <1>1, <1>3, <1>7, <2>4 DEF MoveNew, Syncs
    <3>2. HandTidy'
      BY <1>4, <3>1 DEF HandTidy
    <3> QED BY <1>3, <2>3, <3>1, <3>2, HandStepTidies
  <2>5. CASE ~ sync.kept
    <3>1. mem' = [mem EXCEPT ![d].dirty = FALSE] /\ sync'.at = "visit"
      BY <1>1, <1>3, <1>7, <2>5 DEF MoveNew, Synced, Back, Syncs
    <3>2. /\ mem' \in [Dirs -> DirStates \cup {Uncached}]
          /\ mem'[d].subdirs = mem[d].subdirs /\ mem'[d].scanned = mem[d].scanned
          /\ \A e \in Dirs \ {d} : mem'[e] = mem[e]
      BY <1>3, <3>1 DEF DirStates
    <3>3. Lists(mem'[d], disk, d, {})
      BY <1>3, <3>2 DEF Lists
    <3>4. \A x \in Dirs : IsBelow(x, d) => ~ Hollow(disk', x) \/ Tended(mem', x)
      BY <1>3, <1>4, <2>3, <3>2, WrittenIsTended
    <3>5. HandTidy'
      BY <3>1 DEF HandTidy
    <3> QED BY <1>3, <2>3, <3>2, <3>3, <3>4, <3>5, HandStepTidies
  <2> QED BY <2>4, <2>5
<1>8. CASE UnlinkOld
  <2>1. mem' = [mem EXCEPT ![d].dirty = FALSE] /\ sync'.at = "visit"
    BY <1>1, <1>3, <1>8 DEF UnlinkOld, Synced, Back, Syncs
  <2>2. disk' \in {[disk EXCEPT ![d].old = NoFile], disk}
    BY <1>1, <1>8 DEF UnlinkOld
  <2>3. /\ disk' \in [Dirs -> Folders] /\ disk'[d].folder /\ disk'[d].file = disk[d].file
        /\ \A e \in Dirs \ {d} : disk'[e] = disk[e]
    BY <1>3, <2>2 DEF Folders
  <2>4. disk[d].file = mem[d].entries
    BY <1>1, <1>8 DEF UnlinkOld, At, CacheInv, PassSound
  <2>5. /\ mem' \in [Dirs -> DirStates \cup {Uncached}]
        /\ mem'[d].subdirs = mem[d].subdirs /\ mem'[d].scanned = mem[d].scanned
        /\ \A e \in Dirs \ {d} : mem'[e] = mem[e]
    BY <1>3, <2>1 DEF DirStates
  <2>6. Lists(mem'[d], disk, d, {})
    BY <1>3, <2>5 DEF Lists
  <2>7. \A x \in Dirs : IsBelow(x, d) => ~ Hollow(disk', x) \/ Tended(mem', x)
    BY <1>3, <1>4, <2>3, <2>4, <2>5, WrittenIsTended
  <2>8. HandTidy'
    BY <2>1 DEF HandTidy
  <2> QED BY <1>3, <2>3, <2>5, <2>6, <2>7, <2>8, HandStepTidies
<1>9. CASE WriteTmpFails \/ MoveOldFails \/ MoveNewFails
  BY <1>9, NothingWrong DEF WriteTmpFails, MoveOldFails, MoveNewFails
<1> QED BY <1>5, <1>6, <1>7, <1>8, <1>9

LEMMA UnlinkTidies ==
    ASSUME CacheInv, TidyParts, UnlinkFile
    PROVE  TidyParts'
<1>1. PICK d : d = sync.dir
  OBVIOUS
<1>2. sync.at = "unlink" /\ sync.at \in Handling
  BY DEF UnlinkFile, At, Handling, Steps
<1>3. /\ d \in Dirs /\ mem[d] \in DirStates /\ mem[d] # Uncached /\ mem[d].dirty
      /\ Lists(mem[d], disk, d, {}) /\ disk[d].folder
      /\ mem \in [Dirs -> DirStates \cup {Uncached}]
      /\ disk \in [Dirs -> Folders] /\ sync \in Syncs
  BY <1>1, <1>2, InHandFacts
<1>4. disk' = [disk EXCEPT ![d].file = NoFile]
  BY <1>1 DEF UnlinkFile
<1>5. /\ disk' \in [Dirs -> Folders] /\ disk'[d].folder /\ disk'[d].file = NoFile
      /\ \A e \in Dirs \ {d} : disk'[e] = disk[e]
  BY <1>3, <1>4 DEF Folders
<1>6. CASE d = Root
  <2>1. mem' = [mem EXCEPT ![d] = Uncached] /\ sync'.at = "visit"
    BY <1>1, <1>3, <1>6 DEF UnlinkFile, Deleted, Back, Syncs
  <2>2. /\ mem' \in [Dirs -> DirStates \cup {Uncached}] /\ mem'[d] = Uncached
        /\ \A e \in Dirs \ {d} : mem'[e] = mem[e]
    BY <1>3, <2>1
  <2>3. \A x \in Dirs : IsBelow(x, d) => ~ Hollow(disk', x)
    <3>1. \A x \in Dirs : Len(x) \in Nat /\ x \in Seq(STRING)
      BY DirsAssumption
    <3>2. \A x \in Dirs : IsBelow(Root, x)
      BY <3>1 DEF IsBelow, Root
    <3> QED BY <1>3, <1>6, <3>2, DirOrder DEF Hollow
  <2>4. HandTidy'
    BY <2>1 DEF HandTidy
  <2> QED BY <1>3, <1>5, <2>2, <2>3, <2>4, HandStepTidies
<1>7. CASE d # Root
  <2>1. mem' = mem /\ sync'.at = "rmdir" /\ sync'.dir = d
    BY <1>1, <1>3, <1>7 DEF UnlinkFile, Syncs
  <2>2. HandTidy'
    BY <1>5, <2>1 DEF HandTidy
  <2> QED BY <1>3, <1>5, <2>1, <2>2, HandStepTidies
<1> QED BY <1>6, <1>7

LEMMA RemoveTidies ==
    ASSUME CacheInv, TidyParts, RemoveFolder
    PROVE  TidyParts'
<1>1. PICK d : d = sync.dir
  OBVIOUS
<1>2. sync.at = "rmdir" /\ sync.at \in Handling
  BY DEF RemoveFolder, At, Handling, Steps
<1>3. /\ d \in Dirs /\ mem[d] \in DirStates /\ disk \in [Dirs -> Folders] /\ sync \in Syncs
  BY <1>1, <1>2, InHandFacts
<1>4. d # Root /\ disk[d].file = NoFile
  BY <1>1, <1>2 DEF CacheInv, PassSound, TidyParts, HandTidy
<1>5. PICK dk : dk = [disk EXCEPT ![d].folder = FALSE]
  OBVIOUS
<1>6. PICK p : p = Parent(d)
  OBVIOUS
<1>7. PICK found : found = Obtain(dk, {}, p)
  OBVIOUS
<1>8. /\ disk' = found.disk /\ sync'.at = "visit"
      /\ mem' = [found.mem EXCEPT ![d] = Uncached, ![p] = WithoutDir(@, d)]
  BY <1>1, <1>3, <1>5, <1>6, <1>7 DEF RemoveFolder, Forget, Deleted, Back, Syncs
<1>9. /\ p \in Dirs /\ p # d
      /\ \A e \in Dirs : IsBelow(e, d) /\ e # d => IsBelow(e, p)
  BY <1>3, <1>4, <1>6, AboveParent
<1>10. /\ dk \in [Dirs -> Folders] /\ ~ dk[d].folder
       /\ \A e \in Dirs : dk[e].file = disk[e].file /\ (e # d => dk[e] = disk[e])
  BY <1>3, <1>5 DEF Folders
<1>11. Foldered(dk) /\ Listed(mem, dk, {d})
  <2>1. Foldered(dk)
    BY <1>4, <1>10 DEF Foldered, TidyParts
  <2>2. Listed(mem, dk, {d})
    BY <1>10 DEF Listed, Lists, Children, TidyParts
  <2> QED BY <2>1, <2>2
<1>12. Sound(found, dk) /\ found.mem[p] # Uncached /\ Finds(found, dk, p, {d})
  BY <1>7, <1>9, <1>10, <1>11, ObtainIsSound, ObtainFinds DEF CacheInv
<1>13. /\ found.mem \in [Dirs -> DirStates \cup {Uncached}] /\ found.mem[p] \in DirStates
       /\ \A e \in Dirs : mem[e] # Uncached =>
             found.mem[e] \in DirStates /\ found.mem[e].dirty = mem[e].dirty
       /\ \A e \in Dirs : Content(found.disk[e].file) = Content(disk[e].file)
  BY <1>9, <1>10, <1>12 DEF Sound, Grown, SameFiles
<1>14. PICK w : w = WithoutDir(found.mem[p], d)
  OBVIOUS
<1>15. /\ w \in DirStates /\ w.dirty /\ w.scanned = found.mem[p].scanned
       /\ w.subdirs = IF w.scanned THEN found.mem[p].subdirs \ {d} ELSE found.mem[p].subdirs
  BY <1>13, <1>14 DEF WithoutDir, DirStates
<1>16. /\ mem'[d] = Uncached /\ mem'[p] = w
       /\ \A e \in Dirs : e # d /\ e # p => mem'[e] = found.mem[e]
  BY <1>3, <1>8, <1>9, <1>13, <1>14
<1>17. /\ Foldered(found.disk) /\ Listed(found.mem, found.disk, {d})
       /\ \A x \in Dirs : found.disk[x].folder => dk[x].folder \/ IsBelow(x, p)
  BY <1>12 DEF Finds
<1>18. Foldered(disk')
  BY <1>8, <1>17
<1>19. ASSUME NEW e \in Dirs, mem'[e] # Uncached PROVE Lists(mem'[e], disk', e, {})
  <2>1. e # d
    BY <1>16, <1>19
  <2>2. CASE e = p
    <3>1. Lists(found.mem[p], found.disk, p, {d})
      BY <1>9, <1>12, <1>17 DEF Listed
    <3> QED BY <1>8, <1>15, <1>16, <2>2, <3>1 DEF Lists
  <2>3. CASE e # p
    <3>1. mem'[e] = found.mem[e] /\ Lists(found.mem[e], found.disk, e, {d})
      BY <1>16, <1>17, <1>19, <2>1, <2>3 DEF Listed
    <3>2. d \notin Children(e)
      BY <1>6, <2>3 DEF Children
    <3> QED BY <1>8, <3>1, <3>2 DEF Lists
  <2> QED BY <2>2, <2>3
<1>20. ASSUME NEW x \in Dirs, Hollow(disk', x) PROVE Tended(mem', x)
  <2>1. CASE IsBelow(x, p)
    BY <1>9, <1>15, <1>16, <2>1, StateFacts DEF Tended
  <2>2. CASE ~ IsBelow(x, p)
    <3>1. dk[x].folder /\ x # d
      BY <1>8, <1>10, <1>17, <1>20, <2>2 DEF Hollow
    <3>2. Hollow(disk, x)
      BY <1>8, <1>10, <1>13, <1>20, <3>1 DEF Hollow
    <3>3. PICK e \in Dirs : IsBelow(x, e) /\ mem[e] # Uncached /\ mem[e].dirty
      BY <3>2 DEF TidyParts, AllTended, Tended
    <3>4. e # d /\ e # p
      BY <1>9, <2>2, <3>1, <3>3
    <3>5. mem'[e] # Uncached /\ mem'[e].dirty
      BY <1>13, <1>16, <3>3, <3>4, StateFacts
    <3> QED BY <3>3, <3>5 DEF Tended
  <2> QED BY <2>1, <2>2
<1>21. HandTidy'
  BY <1>8 DEF HandTidy
<1>22. Listed(mem, disk, {})' /\ AllTended'
  BY <1>19, <1>20 DEF Listed, AllTended
<1> QED BY <1>18, <1>21, <1>22 DEF TidyParts

LEMMA DeleteTidies ==
    ASSUME CacheInv, TidyParts, faults' = 0,
           \/ UnlinkFile \/ UnlinkFileFails \/ RemoveFolder
           \/ RemoveFolderOfOrphan \/ RemoveFolderFails
    PROVE  TidyParts'
<1>1. CASE UnlinkFileFails \/ RemoveFolderFails
  <2>1. sync'.at = "visit" /\ UNCHANGED <<mem, disk>>
    BY <1>1, NextSyncs DEF UnlinkFileFails, RemoveFolderFails, GiveUp, CacheInv, CacheTypeOK
  <2> QED BY <2>1, NothingMoves DEF HandTidy
<1>2. CASE RemoveFolderOfOrphan
  BY <1>2, NothingWrong DEF RemoveFolderOfOrphan
<1> QED BY <1>1, <1>2, UnlinkTidies, RemoveTidies

LEMMA InitTidy == Init => Tidy
<1> SUFFICES ASSUME Init PROVE TidyParts
  BY DEF Tidy
<1>1. /\ \A d \in Dirs : mem[d] = Uncached /\ disk[d].file = NoFile /\ (disk[d].folder <=> d = Root)
      /\ sync.at = "none"
  BY DEF Init, NoFolder, NoSync
<1> QED BY <1>1 DEF TidyParts, Foldered, Listed, HandTidy, AllTended, Hollow

LEMMA NextTidy == CacheInv /\ Tidy /\ [Next]_vars => Tidy'
<1> SUFFICES ASSUME CacheInv, Tidy, [Next]_vars, faults' = 0 PROVE TidyParts'
  BY DEF Tidy
<1>1. faults \in Nat
  BY FaultsAssumption DEF CacheInv, CacheTypeOK
<1>2. faults = 0
  <2>1. \A kind : Occurs(kind) => faults = 0
    BY NothingWrong
  <2>2. \A kind : ~ Fails(kind)
    BY NothingWrong
  <2>3. CASE RequestStep
    <3>1. \A creates, h, d, m : Request(creates, h, d, m) => faults = 0
      BY <2>1 DEF Request, SeesAllBut
    <3> QED BY <2>1, <2>2, <2>3, <3>1
            DEF RequestStep, SetValue, UnsetValue, SetSchema, Query, DirExists, SeesAllBut,
                AllSubdirs, BeginSync, Unreadable, CannotCreate
  <2>4. CASE SyncStep
    <3>1. CASE \E d \in Dirs : VisitClean(d) \/ VisitDirty(d) \/ List(d)
      BY <2>1, <3>1 DEF VisitClean, VisitDirty, List
    <3>2. CASE Redo \/ SyncEnds
      BY <3>2 DEF Redo, SyncEnds
    <3>3. CASE DirStep
      BY <2>1, <2>2, <3>3
         DEF DirStep, UnlinkFile, UnlinkFileFails, RemoveFolder, RemoveFolderOfOrphan,
             RemoveFolderFails, WriteTmp, WriteTmpFails, MoveOld, MoveOldFails, MoveNew,
             MoveNewFails, UnlinkOld
    <3> QED BY <2>4, <3>1, <3>2, <3>3 DEF SyncStep
  <2>5. CASE SyncAll \/ \E d \in Dirs : Clean(d)
    BY <2>5 DEF SyncAll, BeginSync, Clean
  <2>6. CASE Crash
    BY <2>2, <2>6 DEF Crash
  <2>7. CASE UNCHANGED vars
    BY <2>7 DEF vars
  <2> QED BY <2>3, <2>4, <2>5, <2>6, <2>7 DEF Next
<1>3. TidyParts
  BY <1>2 DEF Tidy
<1>4. CASE RequestStep
  BY <1>3, <1>4, RequestStepTidies
<1>5. CASE SyncStep
  <2>1. CASE Redo \/ SyncEnds
    <3>1. sync \in Syncs /\ UNCHANGED <<mem, disk>>
      BY <2>1 DEF Redo, SyncEnds, CacheInv, CacheTypeOK
    <3>2. sync'.at \in {"visit", "none", "list"}
      <4>1. CASE Redo
        BY <3>1, <4>1 DEF Redo, PassEnds, At, Syncs
      <4>2. CASE SyncEnds /\ sync.for = {}
        BY <4>2 DEF SyncEnds, NoSync
      <4>3. CASE SyncEnds /\ sync.for # {}
        BY <3>1, <4>3 DEF SyncEnds, Syncs
      <4> QED BY <2>1, <4>1, <4>2, <4>3
    <3> QED BY <1>3, <3>1, <3>2, NothingMoves DEF HandTidy
  <2> QED BY <1>3, <1>5, <2>1, VisitTidies, ListTidies, WriteTidies, DeleteTidies
          DEF SyncStep, DirStep
<1>6. CASE SyncAll
  BY <1>3, <1>6, SyncBeginsTidy DEF SyncAll
<1>7. ASSUME NEW d \in Dirs, Clean(d) PROVE TidyParts'
  <2>1. /\ sync.at = "none" /\ sync' = sync /\ disk' = disk
        /\ mem' = [mem EXCEPT ![d] = Uncached] /\ ~ mem[d].dirty
    BY <1>7 DEF Clean, Idle
  <2>2. mem'[d] = Uncached /\ \A e \in Dirs \ {d} : mem'[e] = mem[e]
    BY <2>1 DEF CacheInv, CacheTypeOK
  <2>3. HandTidy' /\ Foldered(disk)' /\ Listed(mem, disk, {})'
    BY <1>3, <2>1, <2>2 DEF HandTidy, TidyParts, Foldered, Listed
  <2>4. ASSUME NEW x \in Dirs, Hollow(disk', x) PROVE Tended(mem', x)
    <3>1. PICK e \in Dirs : IsBelow(x, e) /\ mem[e] # Uncached /\ mem[e].dirty
      BY <1>3, <2>1, <2>4 DEF TidyParts, AllTended, Tended
    <3> QED BY <2>1, <2>2, <3>1 DEF Tended
  <2> QED BY <2>3, <2>4 DEF TidyParts, AllTended
<1>8. CASE Crash
  BY <1>8, NothingWrong DEF Crash
<1>9. CASE UNCHANGED vars
  BY <1>3, <1>9, NothingMoves DEF vars, TidyParts, HandTidy
<1> QED BY <1>4, <1>5, <1>6, <1>7, <1>8, <1>9 DEF Next

(* As long as nothing has gone wrong, a sync that succeeds leaves folders only    *)
(* for directories with entries in or below them, whatever was set and unset      *)
(* before, in whatever order the directories were visited.                       *)
THEOREM EmptyDirsGo == Spec => EmptyDirsDisappear
<1>1. Init => CacheInv /\ Tidy
  BY InitCache, InitTidy
<1>2. (CacheInv /\ Tidy) /\ [Next]_vars => (CacheInv /\ Tidy)'
  BY NextCache, NextTidy
<1>3. (CacheInv /\ Tidy) =>
         (SyncSucceeds /\ faults = 0 =>
            \A d \in Dirs \ {Root} : disk[d].folder =>
                \E e \in Dirs : IsBelow(d, e) /\ Content(disk[e].file) # Nothing)
  <2> SUFFICES ASSUME CacheInv, Tidy, SyncSucceeds, faults = 0,
                      NEW d \in Dirs \ {Root}, disk[d].folder,
                      \A e \in Dirs : IsBelow(d, e) => Content(disk[e].file) = Nothing
               PROVE  FALSE
    OBVIOUS
  <2>1. sync.at = "visit" /\ sync.todo = {} /\ ~ sync.failed /\ ~ sync.deleted
    BY DEF SyncSucceeds, SyncEnds, PassEnds, At, Again, CacheInv, CacheTypeOK, Syncs
  <2>2. \A e \in Dirs : mem[e] # Uncached => ~ mem[e].dirty
    BY <2>1 DEF CacheInv, DirtyAhead, Handling, Cached
  <2>3. Hollow(disk, d)
    BY DEF Hollow
  <2> QED BY <2>2, <2>3 DEF Tidy, TidyParts, AllTended, Tended
<1> QED BY <1>1, <1>2, <1>3, PTL DEF Spec, EmptyDirsDisappear
=============================================================================
