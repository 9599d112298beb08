------------------------- MODULE GConfMarkupProofs -------------------------
(***************************************************************************)
(* The markup backend, for any directories, entries and values: the flags     *)
(* lead a sync to everything that is not saved, the tree and its files         *)
(* implement ConfigStore, and as long as nothing goes wrong no folder is left    *)
(* without entries.                                                         *)
(***************************************************************************)
EXTENDS GConfMarkupTree, SequenceTheorems, FiniteSetTheorems, WellFoundedInduction, TLAPS

(* Something has gone wrong, and nothing more will that loses what is in memory only, *)
(* or keeps the file of a directory that is deleted.                             *)
Quiet == faults # 0 /\ (faults = MaxFaults \/ Faults \cap {"crash", "unlink"} = {})

(* A directory that could not be saved makes up for it as long as that is so.    *)
Harmless ==
    \/ MaxFaults <= 1
    \/ Faults \cap {"crash", "unlink"} = {}
    \/ Faults \cap {"make", "write"} = {}

(* A step in such a program, or one up to which nothing has gone wrong.            *)
HarmlessStep == Harmless \/ faults' = 0

-----------------------------------------------------------------------------
(* The disk                                                                  *)

NoSub == disk[Root].sub = NoFile
SubContent(d) == IF disk[Root].sub[d] = Absent THEN Nothing ELSE disk[Root].sub[d]

(* No file has an entry that says nothing.  Only the root is ever kept as one file, *)
(* which has all directories above each one in it.                             *)
DiskSound ==
    /\ \A d \in Dirs : Plain(Content(disk[d].file)) = Content(disk[d].file)
    /\ \A d \in Dirs \ {Root} : disk[d].sub = NoFile
    /\ ~ NoSub => /\ disk[Root].sub[Root] # Absent
                  /\ \A d \in Dirs : disk[Root].sub[d] # Absent =>
                        /\ Plain(disk[Root].sub[d]) = disk[Root].sub[d]
                        /\ \A e \in Above(d) : disk[Root].sub[e] # Absent

(* All the way to the directory can be found.                                  *)
WayVisible(d) == \A e \in Dirs \ {Root} : IsBelow(e, d) => Visible(e)

(* Nothing is left in the files of a directory and those below it.               *)
Bare(c) == \A x \in Dirs : IsBelow(c, x) => Content(disk[x].file) = Nothing

-----------------------------------------------------------------------------
(* Memory, while each directory has a folder                                   *)

(* What memory and files hold together of a directory.                          *)
Held(m, d) == IF m[d] # Absent /\ m[d].loaded THEN Plain(m[d].entries)
              ELSE Content(disk[d].file)

Closed(m) == \A d \in Dirs : m[d] # Absent =>
                \A e \in Above(d) : m[e] # Absent /\ m[e].listed

(* Entries in a file can be found, unless they are below a directory that could    *)
(* not be saved; that one is in memory then.                                   *)
Reached(m) ==
    \A x \in Dirs : Content(disk[x].file) # Nothing =>
        \A e \in Dirs \ {Root} : IsBelow(e, x) => Visible(e) \/ (m[e] # Absent /\ Quiet)

SpreadDir(m, d) ==
    /\ d # Root => ~ m[d].tree /\ ~ m[d].inside
    /\ m[d].dirty => m[d].loaded
    /\ ~ m[d].dirty /\ m[d].loaded => m[d].entries = Content(disk[d].file)
    /\ ~ m[d].dirty /\ d # Root => Visible(d)
    /\ ~ m[d].loaded \/ ~ m[d].listed => WayVisible(d)
    /\ m[d].listed => \A c \in Children(d) : m[c] = Absent => Bare(c)

Pieces(m) ==
    /\ NoSub
    /\ Closed(m) /\ Reached(m)
    /\ \A d \in Dirs : m[d] # Absent => SpreadDir(m, d)
    /\ \A d \in Dirs : asked[d] = Held(m, d)

SpreadMem(m) == ~ m[Root].tree /\ Pieces(m)

(* The flags lead to a directory that has to be saved.                            *)
LedTo(m, d) == NeedsSync(m, d) => \A e \in Above(d) : m[e].below
Led(m) == \A d \in Dirs : m[d] # Absent => LedTo(m, d)

(* Memory, when the root has one file, or is to get one: all is loaded.            *)
TreeMem(m) ==
    /\ m[Root].tree
    /\ Closed(m)
    /\ \A d \in Dirs : m[d] # Absent => m[d].loaded /\ m[d].listed /\ (d # Root => ~ m[d].tree)
    /\ \A d \in Dirs : asked[d] = IF m[d] # Absent THEN Plain(m[d].entries) ELSE Nothing
    /\ NoSub => Quiet
    /\ ~ NeedsSync(m, Root) => ~ NoSub /\ \A d \in Dirs : asked[d] = SubContent(d)

(* Nothing of that file has been read yet.                                      *)
FreshMem(m) == m = Fresh /\ ~ NoSub /\ \A d \in Dirs : asked[d] = SubContent(d)

MemSound(m) == SpreadMem(m) \/ TreeMem(m) \/ FreshMem(m)

-----------------------------------------------------------------------------
(* A sync                                                                    *)

(* The frames lead from the directory being worked on to the root.               *)
StackSound ==
    sync # <<>> =>
        /\ Len(Top.dir) = Len(sync) - 1
        /\ \A i \in 1..Len(sync) : sync[i].dir = SubSeq(Top.dir, 1, Len(sync) - i)
        /\ \A i \in 2..Len(sync) : /\ sync[i].step = "subdirs"
                                   /\ sync[i - 1].dir \in sync[i].seen
                                   /\ disk[sync[i].dir].folder \/ Quiet
        /\ mem[Top.dir] # Absent
        /\ ~ mem[Root].tree => NoSub

(* What the frames know of what has been saved.                                 *)
FrameSound(i) ==
    LET f == sync[i]
    IN /\ f.step = "save" => NeedsSync(mem, f.dir) /\ f.seen = {}
       /\ f.step # "save" => (mem[f.dir].dirty => Quiet) /\ (merged => mem[Root].tree)
       /\ f.step = "subdirs" => ~ mem[Root].tree /\ mem[f.dir].below
       /\ f.failed => Quiet
       /\ f.step = "delete" => (mem[f.dir].below => Quiet)
       /\ f.step = "subdirs" /\ ~ f.failed =>
             \A c \in f.seen \cap Children(f.dir) :
                mem[c] # Absent /\ (i = 1 \/ sync[i - 1].dir # c) => ~ NeedsSync(mem, c)

SyncSound == StackSound /\ \A i \in 1..Len(sync) : FrameSound(i)

MarkupInv ==
    /\ TypeOK /\ DiskSound
    /\ MemSound(mem) /\ (SpreadMem(mem) => Led(mem)) /\ (FreshMem(mem) => Idle)
    /\ SyncSound

-----------------------------------------------------------------------------
(* Paths                                                                     *)

LEMMA PathFacts ==
    ASSUME NEW d \in Dirs
    PROVE  /\ d \in Seq(STRING) /\ Len(d) \in Nat
           /\ Root \in Dirs /\ Len(Root) = 0
           /\ IsBelow(Root, d) /\ IsBelow(d, d)
           /\ IsBelow(d, Root) => d = Root
           /\ Len(d) = 0 => d = Root
           /\ \A n \in 0..Len(d) : /\ SubSeq(d, 1, n) \in Dirs
                                   /\ Len(SubSeq(d, 1, n)) = n
                                   /\ \A i \in 1..n : SubSeq(d, 1, n)[i] = d[i]
           /\ SubSeq(d, 1, Len(d)) = d
<1>1. d \in Seq(STRING) /\ Root \in Dirs /\ \A n \in 0..Len(d) : SubSeq(d, 1, n) \in Dirs
  BY TreeAssumption
<1>2. Len(d) \in Nat /\ Len(Root) = 0
  BY <1>1 DEF Root
<1>3. Len(d) = 0 => d = Root
  BY <1>1, <1>2, EmptySeq DEF Root
<1>4. \A n \in 0..Len(d) : /\ Len(SubSeq(d, 1, n)) = n
                           /\ \A i \in 1..n : SubSeq(d, 1, n)[i] = d[i]
  BY <1>1, <1>2
<1>5. IsBelow(Root, d) /\ IsBelow(d, d) /\ (IsBelow(d, Root) => d = Root)
  BY <1>1, <1>2, <1>3 DEF IsBelow
<1>6. SubSeq(d, 1, Len(d)) = d
  BY <1>1
<1> QED BY <1>1, <1>2, <1>3, <1>4, <1>5, <1>6

(* A directory above another is a beginning of it.                              *)
LEMMA BelowIsPrefix ==
    ASSUME NEW e \in Dirs, NEW d \in Dirs
    PROVE  IsBelow(e, d) <=> Len(e) <= Len(d) /\ e = SubSeq(d, 1, Len(e))
<1>1. /\ e \in Seq(STRING) /\ d \in Seq(STRING) /\ Len(e) \in Nat /\ Len(d) \in Nat
  BY PathFacts
<1>2. ASSUME Len(e) <= Len(d), NEW p, p = SubSeq(d, 1, Len(e))
      PROVE  p \in Seq(STRING) /\ Len(p) = Len(e) /\ \A i \in 1..Len(e) : p[i] = d[i]
  BY <1>1, <1>2
<1>3. ASSUME IsBelow(e, d) PROVE Len(e) <= Len(d) /\ e = SubSeq(d, 1, Len(e))
  <2> DEFINE p == SubSeq(d, 1, Len(e))
  <2>1. Len(e) <= Len(d) /\ \A i \in 1..Len(e) : e[i] = d[i]
    BY <1>3 DEF IsBelow
  <2>2. p \in Seq(STRING) /\ Len(p) = Len(e) /\ \A i \in 1..Len(e) : p[i] = d[i]
    BY <1>2, <2>1
  <2> HIDE DEF p
  <2>3. p = e
    BY <1>1, <2>1, <2>2, SeqEqual
  <2> QED BY <2>1, <2>3 DEF p
<1>4. ASSUME Len(e) <= Len(d), e = SubSeq(d, 1, Len(e)) PROVE IsBelow(e, d)
  BY <1>1, <1>2, <1>4 DEF IsBelow
<1> QED BY <1>3, <1>4

LEMMA BelowOrder ==
    ASSUME NEW a \in Dirs, NEW b \in Dirs, NEW c \in Dirs, IsBelow(a, b)
    PROVE  /\ IsBelow(b, c) => IsBelow(a, c)
           /\ IsBelow(b, a) => a = b
           /\ a # b => Len(a) < Len(b) /\ b # Root
<1>1. /\ a \in Seq(STRING) /\ b \in Seq(STRING) /\ c \in Seq(STRING)
      /\ Len(a) \in Nat /\ Len(b) \in Nat /\ Len(Root) = 0
  BY PathFacts
<1>2. IsBelow(b, c) => IsBelow(a, c)
  BY <1>1, BelowTransitive
<1>3. IsBelow(b, a) => a = b
  BY <1>1, BelowAntisymmetric
<1>4. ASSUME a # b PROVE Len(a) < Len(b)
  <2>1. a = SubSeq(b, 1, Len(a)) /\ SubSeq(b, 1, Len(b)) = b
    BY BelowIsPrefix, PathFacts
  <2>2. Len(a) # Len(b)
    BY <1>4, <2>1
  <2>3. Len(a) <= Len(b)
    BY DEF IsBelow
  <2> QED BY <1>1, <2>2, <2>3
<1> QED BY <1>1, <1>2, <1>3, <1>4

(* The directories above a directory are comparable.                            *)
LEMMA AboveAreChain ==
    ASSUME NEW a \in Dirs, NEW b \in Dirs, NEW d \in Dirs, IsBelow(a, d), IsBelow(b, d)
    PROVE  IsBelow(a, b) \/ IsBelow(b, a)
BY PathFacts, AboveIsChain

LEMMA ChildFacts ==
    ASSUME NEW p \in Dirs, NEW c \in Children(p)
    PROVE  /\ c \in Dirs /\ c # Root /\ Len(c) = Len(p) + 1
           /\ IsBelow(p, c) /\ p # c /\ p \in Above(c) /\ c \in Below(p)
           /\ \A e \in Dirs : IsBelow(e, c) <=> e = c \/ IsBelow(e, p)
           /\ \A q \in Dirs : c \in Children(q) => q = p
           /\ \A e \in Above(c) : e = p \/ e \in Above(p)
<1>1. c \in Dirs /\ c # Root /\ p = SubSeq(c, 1, Len(c) - 1)
  BY DEF Children, Parent
<1>2. Len(c) \in Nat /\ Len(c) # 0 /\ Len(p) \in Nat
  BY <1>1, PathFacts
<1>3. Len(p) = Len(c) - 1
  <2>1. Len(c) - 1 \in 0..Len(c)
    BY <1>2
  <2> QED BY <1>1, <2>1, PathFacts
<1>4. IsBelow(p, c) /\ p # c
  <2>1. Len(p) <= Len(c) /\ p = SubSeq(c, 1, Len(p)) /\ Len(p) # Len(c)
    BY <1>1, <1>2, <1>3
  <2> QED BY <1>1, <2>1, BelowIsPrefix
<1>5. ASSUME NEW e \in Dirs, IsBelow(e, c), e # c PROVE IsBelow(e, p)
  <2>1. Len(e) <= Len(p) /\ Len(e) \in Nat
    <3>1. Len(e) \in Nat /\ Len(e) < Len(c)
      BY <1>1, <1>5, BelowOrder, PathFacts
    <3> QED BY <1>2, <1>3, <3>1
  <2>2. ~ IsBelow(p, e) \/ e = p
    <3>1. ASSUME IsBelow(p, e) PROVE e = p
      BY <2>1, <3>1, BelowOrder, PathFacts
    <3> QED BY <3>1
  <2> QED BY <1>1, <1>4, <1>5, <2>2, AboveAreChain, PathFacts
<1>6. \A e \in Dirs : IsBelow(e, c) <=> e = c \/ IsBelow(e, p)
  BY <1>1, <1>4, <1>5, BelowOrder, PathFacts
<1>7. \A q \in Dirs : c \in Children(q) => q = p
  BY <1>1 DEF Children, Parent
<1> QED BY <1>1, <1>2, <1>3, <1>4, <1>6, <1>7 DEF Above, Below

(* The child of a directory on the way to one below it.                         *)
LEMMA ChildTowards ==
    ASSUME NEW d \in Dirs, NEW p \in Above(d)
    PROVE  \E c \in Children(p) : IsBelow(c, d)
<1> DEFINE c == SubSeq(d, 1, Len(p) + 1)
<1>1. p \in Dirs /\ IsBelow(p, d) /\ p # d
  BY DEF Above
<1>2. Len(p) \in Nat /\ Len(d) \in Nat /\ Len(p) < Len(d) /\ d \in Seq(STRING)
  BY <1>1, BelowOrder, PathFacts
<1>3. c \in Dirs /\ Len(c) = Len(p) + 1
  BY <1>2, PathFacts
<1>4. IsBelow(c, d)
  <2>1. Len(c) <= Len(d)
    BY <1>2, <1>3
  <2>2. c = SubSeq(d, 1, Len(c))
    BY <1>3
  <2> HIDE DEF c
  <2> QED BY <1>3, <2>1, <2>2, BelowIsPrefix
<1>5. p = SubSeq(d, 1, Len(p))
  BY <1>1, BelowIsPrefix
<1>6. SubSeq(c, 1, Len(c) - 1) = SubSeq(d, 1, Len(p))
  BY <1>2, <1>3
<1> HIDE DEF c
<1>7. c # Root
  BY <1>2, <1>3, PathFacts
<1> QED BY <1>3, <1>4, <1>5, <1>6, <1>7 DEF Children, Parent

-----------------------------------------------------------------------------
(* Entries and files                                                         *)

LEMMA EntryFacts ==
    /\ Useless \in Entries /\ Useless # NoEntry
    /\ Nothing \in Contents /\ Plain(Nothing) = Nothing
    /\ \A c \in Contents : Plain(c) \in Contents /\ Plain(Plain(c)) = Plain(c)
    /\ NoFile \notin Contents /\ NoFile \notin Subtrees /\ Absent \notin Contents
    /\ Content(NoFile) = Nothing /\ \A c \in Contents : Content(c) = c
<1>1. Useless \in Entries /\ Useless # NoEntry
  BY MarksAssumption DEF Useless, Entries
<1>2. Nothing \in Contents /\ Plain(Nothing) = Nothing
  BY <1>1 DEF Nothing, Contents, Plain
<1>3. ASSUME NEW c \in Contents PROVE Plain(c) \in Contents /\ Plain(Plain(c)) = Plain(c)
  BY <1>1 DEF Contents, Plain
<1>4. NoFile \notin Contents /\ NoFile \notin Subtrees /\ Absent \notin Contents
  BY MarksAssumption
<1> QED BY <1>1, <1>2, <1>3, <1>4 DEF Content

LEMMA StateFacts ==
    /\ Blank \in DirStates /\ Absent \notin DirStates /\ Blank # Absent
    /\ Fresh \in [Dirs -> DirStates \cup {Absent}] /\ Fresh[Root] = Blank
    /\ \A d \in Dirs \ {Root} : Fresh[d] = Absent
    /\ NoFolder \in Folders
<1>1. Blank \in DirStates
  BY EntryFacts DEF Blank, DirStates
<1>2. Absent \notin DirStates
  BY MarksAssumption
<1>3. Root \in Dirs
  BY TreeAssumption
<1> QED BY <1>1, <1>2, <1>3 DEF Fresh, NoFolder, Folders

LEMMA DiskFacts ==
    ASSUME disk \in [Dirs -> Folders], NEW d \in Dirs
    PROVE  /\ disk[d].file \in Contents \cup {NoFile} /\ disk[d].sub \in Subtrees \cup {NoFile}
           /\ disk[d].folder \in BOOLEAN /\ Content(disk[d].file) \in Contents
<1>1. disk[d] \in Folders
  OBVIOUS
<1>2. disk[d].file \in Contents \cup {NoFile} /\ disk[d].sub \in Subtrees \cup {NoFile}
      /\ disk[d].folder \in BOOLEAN
  BY <1>1 DEF Folders
<1> QED BY <1>2, EntryFacts

-----------------------------------------------------------------------------
(* Failures                                                                  *)

LEMMA QuietFacts ==
    ASSUME faults \in 0..MaxFaults
    PROVE  /\ Quiet => ~ Fails("crash") /\ ~ Fails("unlink")
           /\ \A kind : Quiet /\ Fails(kind) => Quiet'
           /\ Quiet /\ faults' = faults => Quiet'
           /\ HarmlessStep /\ (Fails("make") \/ Fails("write")) => Quiet'
<1>1. MaxFaults \in Nat
  BY TreeAssumption
<1> QED BY <1>1 DEF Quiet, Fails, Harmless, HarmlessStep

-----------------------------------------------------------------------------
(* Loading                                                                   *)

Based == disk \in [Dirs -> Folders] /\ asked \in [Dirs -> Contents] /\ DiskSound
Typed(m) == m \in [Dirs -> DirStates \cup {Absent}] /\ m[Root] # Absent
Sound(m) == Typed(m) /\ MemSound(m)

(* Loading adds to what is in memory and leaves what requests have made.           *)
Grown(m, r) ==
    \A e \in Dirs :
        IF m[e] # Absent
        THEN /\ r[e] # Absent
             /\ r[e].dirty = m[e].dirty /\ r[e].below = m[e].below
             /\ m[e].listed => r[e].listed
             /\ m[e].loaded => r[e].loaded /\ r[e].entries = m[e].entries
        ELSE r[e] # Absent => ~ NeedsSync(r, e)

LEMMA GrownReflexive ==
    ASSUME NEW m PROVE Grown(m, m)
BY DEF Grown

LEMMA GrownTransitive ==
    ASSUME NEW m, NEW r, NEW q, Grown(m, r), Grown(r, q)
    PROVE  Grown(m, q)
BY DEF Grown, NeedsSync

LEMMA GrownLed ==
    ASSUME NEW m, NEW r, Closed(m), Led(m), Grown(m, r)
    PROVE  Led(r)
<1> SUFFICES ASSUME NEW d \in Dirs, r[d] # Absent, NeedsSync(r, d), NEW e \in Above(d)
             PROVE  r[e].below
  BY DEF Led, LedTo
<1>1. m[d] # Absent /\ NeedsSync(m, d)
  BY DEF Grown, NeedsSync
<1>2. e \in Dirs /\ m[e] # Absent /\ m[e].below
  BY <1>1 DEF Closed, Led, LedTo, Above
<1> QED BY <1>2 DEF Grown

LEMMA MemFacts ==
    ASSUME NEW m, Typed(m), NEW d \in Dirs, m[d] # Absent
    PROVE  /\ m[d] \in DirStates /\ m[d].entries \in Contents
           /\ m[d].loaded \in BOOLEAN /\ m[d].listed \in BOOLEAN
           /\ m[d].dirty \in BOOLEAN /\ m[d].below \in BOOLEAN
           /\ m[d].inside \in BOOLEAN /\ m[d].tree \in BOOLEAN
<1>1. m[d] \in DirStates
  BY DEF Typed
<1> QED BY <1>1 DEF DirStates

(* What a subdirectory that is not in memory holds, is not in a directory's listing. *)
LEMMA HiddenIsBare ==
    ASSUME NEW m, Closed(m), Reached(m), NEW c \in Dirs \ {Root}, m[c] = Absent, ~ Visible(c)
    PROVE  Bare(c)
BY DEF Reached, Bare

LEMMA ListSpread ==
    ASSUME Based, NEW m, Typed(m), Pieces(m), NEW p \in Dirs, m[p] # Absent, ~ m[p].listed,
           NEW r, r = LoadSubdirs(m, p)
    PROVE  Typed(r) /\ Pieces(r) /\ Grown(m, r) /\ r[Root].tree = m[Root].tree /\ r[p].listed
<1>1. disk[p].sub = NoFile
  BY DEF Based, DiskSound, Pieces, NoSub
<1>2. r = [e \in Dirs |-> IF e = p THEN [m[p] EXCEPT !.listed = TRUE]
                          ELSE IF e \in Children(p) /\ Visible(e) THEN Blank
                          ELSE m[e]]
  BY <1>1 DEF LoadSubdirs
<1>3. \A c \in Children(p) : m[c] = Absent
  BY ChildFacts DEF Pieces, Closed
<1>4. r[p] \in DirStates
      /\ r[p].listed /\ r[p].loaded = m[p].loaded /\ r[p].entries = m[p].entries
      /\ r[p].dirty = m[p].dirty /\ r[p].below = m[p].below
      /\ r[p].inside = m[p].inside /\ r[p].tree = m[p].tree
  <2>1. m[p] \in DirStates /\ r[p] = [m[p] EXCEPT !.listed = TRUE]
    BY <1>2, MemFacts
  <2> QED BY <2>1 DEF DirStates
<1>5. r[p] # Absent
  BY <1>4, StateFacts
<1>6. \A e \in Dirs \ {p} : \/ r[e] = m[e]
                            \/ r[e] = Blank /\ e \in Children(p) /\ Visible(e) /\ m[e] = Absent
  BY <1>2, <1>3
<1>7. \A e \in Children(p) : r[e] = IF Visible(e) THEN Blank ELSE Absent
  BY <1>2, <1>3, ChildFacts
<1>8. r \in [Dirs -> DirStates \cup {Absent}]
  BY <1>2, <1>4, StateFacts DEF Typed
<1>9. /\ ~ Blank.loaded /\ ~ Blank.listed /\ ~ Blank.dirty /\ ~ Blank.below
      /\ ~ Blank.inside /\ ~ Blank.tree
  BY DEF Blank
<1> HIDE DEF LoadSubdirs
<1>10. Typed(r)
  BY <1>4, <1>5, <1>6, <1>8, StateFacts, TreeAssumption DEF Typed
<1>11. Grown(m, r)
  BY <1>4, <1>5, <1>6, <1>9 DEF Grown, NeedsSync
<1>12. Closed(r)
  <2> SUFFICES ASSUME NEW d \in Dirs, r[d] # Absent, NEW e \in Above(d)
               PROVE  r[e] # Absent /\ r[e].listed
    BY DEF Closed
  <2>1. CASE m[d] # Absent
    <3>1. m[e] # Absent /\ m[e].listed
      BY <2>1 DEF Pieces, Closed
    <3> QED BY <3>1, <1>11 DEF Grown, Above
  <2>2. CASE m[d] = Absent
    <3>1. d \in Children(p)
      BY <1>6, <2>2
    <3>2. e = p \/ e \in Above(p)
      BY <3>1, ChildFacts
    <3>3. e \in Above(p) => m[e] # Absent /\ m[e].listed
      BY DEF Pieces, Closed
    <3> QED BY <1>4, <1>5, <1>11, <3>2, <3>3 DEF Grown, Above
  <2> QED BY <2>1, <2>2
<1>13. Reached(r)
  BY <1>11 DEF Pieces, Reached, Grown
<1>14. ASSUME NEW d \in Dirs, r[d] # Absent PROVE SpreadDir(r, d)
  <2>1. CASE d = p
    <3>1. SpreadDir(m, p) /\ WayVisible(p)
      BY DEF Pieces, SpreadDir
    <3>2. ASSUME NEW c \in Children(p), r[c] = Absent PROVE Bare(c)
      <4>1. ~ Visible(c) /\ m[c] = Absent /\ c \in Dirs \ {Root}
        BY <1>3, <1>7, <3>2, StateFacts, ChildFacts
      <4> QED BY <4>1, HiddenIsBare DEF Pieces
    <3> QED BY <1>4, <2>1, <3>1, <3>2 DEF SpreadDir
  <2>2. CASE d # p /\ r[d] = m[d]
    <3>1. SpreadDir(m, d)
      BY <1>14, <2>2 DEF Pieces
    <3>2. ASSUME NEW c \in Children(d), r[c] = Absent PROVE m[c] = Absent
      BY <1>11, <3>2, ChildFacts DEF Grown
    <3> QED BY <2>2, <3>1, <3>2 DEF SpreadDir
  <2>3. CASE d # p /\ r[d] = Blank /\ d \in Children(p) /\ Visible(d)
    <3>1. WayVisible(p)
      BY DEF Pieces, SpreadDir
    <3>2. WayVisible(d)
      BY <2>3, <3>1, ChildFacts DEF WayVisible
    <3> QED BY <1>9, <2>3, <3>2 DEF SpreadDir
  <2> QED BY <1>6, <1>14, <2>1, <2>2, <2>3
<1>15. ASSUME NEW d \in Dirs PROVE asked[d] = Held(r, d)
  <2>1. asked[d] = Held(m, d)
    BY DEF Pieces
  <2>2. Held(r, d) = Held(m, d)
    <3>1. CASE d = p
      BY <1>4, <1>5, <3>1 DEF Held
    <3>2. CASE d # p
      BY <1>6, <1>9, <3>2 DEF Held
    <3> QED BY <3>1, <3>2
  <2> QED BY <2>1, <2>2
<1>16. r[Root].tree = m[Root].tree /\ NoSub
  <2>1. Root \in Dirs /\ m[Root] # Absent
    BY TreeAssumption DEF Typed
  <2>2. p # Root => r[Root] = m[Root]
    BY <1>6, <2>1
  <2> QED BY <1>4, <2>2 DEF Pieces
<1> QED BY <1>4, <1>10, <1>11, <1>12, <1>13, <1>14, <1>15, <1>16 DEF Pieces

LEMMA ReadSpread ==
    ASSUME Based, NEW m, Typed(m), Pieces(m), NEW p \in Dirs, m[p] # Absent, ~ m[p].loaded,
           NEW r, r = LoadEntries(m, p)
    PROVE  Typed(r) /\ Pieces(r) /\ Grown(m, r) /\ r[Root].tree = m[Root].tree /\ r[p].loaded
<1>1. disk[p].sub = NoFile
  BY DEF Based, DiskSound, Pieces, NoSub
<1>2. r = [m EXCEPT ![p].loaded = TRUE, ![p].entries = Content(disk[p].file)]
  BY <1>1 DEF LoadEntries
<1>3. Content(disk[p].file) \in Contents /\ Plain(Content(disk[p].file)) = Content(disk[p].file)
  BY DiskFacts DEF Based, DiskSound
<1>4. r[p] \in DirStates
      /\ r[p].loaded /\ r[p].listed = m[p].listed /\ r[p].entries = Content(disk[p].file)
      /\ r[p].dirty = m[p].dirty /\ r[p].below = m[p].below
      /\ r[p].inside = m[p].inside /\ r[p].tree = m[p].tree
  <2>1. m[p] \in DirStates
    BY MemFacts
  <2>2. r[p] = [m[p] EXCEPT !.loaded = TRUE, !.entries = Content(disk[p].file)]
    BY <1>2 DEF Typed
  <2> QED BY <1>3, <2>1, <2>2 DEF DirStates
<1>5. r[p] # Absent
  BY <1>4, StateFacts
<1>6. \A e \in Dirs \ {p} : r[e] = m[e]
  BY <1>2 DEF Typed
<1>7. r \in [Dirs -> DirStates \cup {Absent}]
  <2>1. r = [e \in Dirs |-> r[e]]
    BY <1>2 DEF Typed
  <2> QED BY <1>4, <1>6, <2>1 DEF Typed
<1> HIDE DEF LoadEntries
<1>10. Typed(r)
  BY <1>5, <1>6, <1>7, TreeAssumption DEF Typed
<1>11. Grown(m, r)
  BY <1>4, <1>5, <1>6 DEF Grown
<1>12. Closed(r)
  BY <1>4, <1>5, <1>6 DEF Pieces, Closed, Above
<1>13. Reached(r)
  BY <1>11 DEF Pieces, Reached, Grown
<1>14. ASSUME NEW d \in Dirs, r[d] # Absent PROVE SpreadDir(r, d)
  <2>1. m[d] # Absent /\ SpreadDir(m, d) /\ r[d].listed = m[d].listed
    BY <1>4, <1>6, <1>14 DEF Pieces
  <2>2. r[d].listed => \A c \in Children(d) : r[c] = Absent => Bare(c)
    BY <1>5, <1>6, <2>1, ChildFacts DEF SpreadDir
  <2>3. CASE d = p
    BY <1>4, <2>1, <2>2, <2>3 DEF SpreadDir
  <2>4. CASE d # p
    BY <1>6, <2>1, <2>2, <2>4 DEF SpreadDir
  <2> QED BY <2>3, <2>4
<1>15. ASSUME NEW d \in Dirs PROVE asked[d] = Held(r, d)
  <2>1. asked[d] = Held(m, d)
    BY DEF Pieces
  <2>2. CASE d = p
    BY <1>3, <1>4, <1>5, <2>1, <2>2 DEF Held
  <2>3. CASE d # p
    BY <1>6, <2>1, <2>3 DEF Held
  <2> QED BY <2>2, <2>3
<1>16. r[Root].tree = m[Root].tree /\ NoSub
  BY <1>4, <1>6, TreeAssumption DEF Pieces
<1> QED BY <1>4, <1>10, <1>11, <1>12, <1>13, <1>14, <1>15, <1>16 DEF Pieces

(* The one file of the root.                                                     *)
LEMMA ReadFresh ==
    ASSUME Based, FreshMem(Fresh), NEW r, r = LoadSubtree(Fresh, Root)
    PROVE  Typed(r) /\ TreeMem(r) /\ Grown(Fresh, r)
<1> DEFINE sub == disk[Root].sub
<1>1. sub \in [Dirs -> Contents \cup {Absent}] /\ Root \in Dirs
  <2>1. sub \in Subtrees
    BY TreeAssumption, DiskFacts DEF Based, FreshMem, NoSub
  <2> QED BY <2>1, TreeAssumption DEF Subtrees
<1>2. /\ sub[Root] \in Contents /\ Plain(sub[Root]) = sub[Root]
      /\ \A d \in Dirs : sub[d] # Absent =>
            /\ sub[d] \in Contents /\ Plain(sub[d]) = sub[d]
            /\ \A e \in Above(d) : sub[e] # Absent
  BY <1>1 DEF Based, DiskSound, FreshMem
<1> HIDE DEF sub
<1>3. Fresh[Root] = Blank /\ Blank \in DirStates
  BY StateFacts
<1>4. /\ r[Root] \in DirStates
      /\ r[Root].entries = sub[Root] /\ r[Root].loaded /\ r[Root].listed /\ r[Root].tree
      /\ r[Root].dirty = FALSE /\ r[Root].below = FALSE
  <2>1. r[Root] = [Blank EXCEPT !.entries = sub[Root], !.loaded = TRUE, !.listed = TRUE,
                                !.tree = TRUE]
    BY <1>1, <1>3 DEF LoadSubtree, sub
  <2> QED BY <1>2, <1>3, <2>1 DEF DirStates, Blank
<1>5. \A d \in Dirs \ {Root} : r[d] = ReadDir(sub, d)
  BY PathFacts DEF LoadSubtree, sub
<1>6. \A d \in Dirs \ {Root} :
         IF sub[d] = Absent THEN r[d] = Absent
         ELSE /\ r[d] \in DirStates
              /\ r[d].entries = sub[d] /\ r[d].loaded /\ r[d].listed /\ ~ r[d].tree
              /\ ~ r[d].dirty /\ ~ r[d].below
  <2> SUFFICES ASSUME NEW d \in Dirs \ {Root}, sub[d] # Absent
               PROVE  /\ r[d] \in DirStates
                      /\ r[d].entries = sub[d] /\ r[d].loaded /\ r[d].listed /\ ~ r[d].tree
                      /\ ~ r[d].dirty /\ ~ r[d].below
    BY <1>5 DEF ReadDir
  <2>1. r[d] = [Blank EXCEPT !.entries = sub[d], !.loaded = TRUE, !.listed = TRUE,
                             !.inside = TRUE]
    BY <1>5 DEF ReadDir
  <2> QED BY <1>2, <1>3, <2>1 DEF DirStates, Blank
<1>7. \A d \in Dirs : IF sub[d] = Absent THEN r[d] = Absent
                      ELSE r[d] # Absent /\ r[d].entries = sub[d]
  BY <1>2, <1>4, <1>6, StateFacts, EntryFacts
<1>8. r \in [Dirs -> DirStates \cup {Absent}]
  <2>1. r = [d \in Dirs |-> r[d]]
    BY DEF LoadSubtree
  <2> QED BY <1>4, <1>6, <2>1
<1>9. Typed(r)
  BY <1>4, <1>8, StateFacts DEF Typed
<1>10. Closed(r)
  BY <1>2, <1>4, <1>6, <1>7 DEF Closed, Above
<1>11. ASSUME NEW d \in Dirs PROVE asked[d] = IF r[d] # Absent THEN Plain(r[d].entries) ELSE Nothing
  <2>1. asked[d] = IF sub[d] = Absent THEN Nothing ELSE sub[d]
    BY DEF FreshMem, SubContent, sub
  <2> QED BY <1>2, <1>7, <2>1
<1>12. Grown(Fresh, r)
  <2>1. ~ Blank.loaded /\ ~ Blank.listed /\ ~ Blank.dirty /\ ~ Blank.below
    BY DEF Blank
  <2>2. r[Root] # Absent /\ Fresh[Root] # Absent
    BY <1>3, <1>4, StateFacts
  <2>3. \A d \in Dirs \ {Root} : Fresh[d] = Absent /\ (r[d] # Absent => ~ NeedsSync(r, d))
    BY <1>6, StateFacts DEF NeedsSync
  <2>4. Fresh[Root].dirty = r[Root].dirty /\ Fresh[Root].below = r[Root].below
        /\ ~ Fresh[Root].loaded /\ ~ Fresh[Root].listed
    <3>1. Blank.dirty = FALSE /\ Blank.below = FALSE
      BY DEF Blank
    <3> QED BY <1>3, <1>4, <2>1, <3>1
  <2> HIDE DEF Fresh
  <2> QED BY <2>2, <2>3, <2>4 DEF Grown
<1>13. TreeMem(r)
  <2>1. ~ NoSub /\ \A d \in Dirs : asked[d] = SubContent(d)
    BY DEF FreshMem
  <2> QED BY <1>4, <1>6, <1>7, <1>10, <1>11, <2>1 DEF TreeMem
<1> QED BY <1>9, <1>12, <1>13

LEMMA FreshRoot ==
    ASSUME FreshMem(Fresh), Based
    PROVE  \A d \in Dirs : Fresh[d] # Absent =>
              d = Root /\ disk[d].sub # NoFile /\ ~ Fresh[d].loaded /\ ~ Fresh[d].listed
BY StateFacts DEF FreshMem, NoSub, Blank

LEMMA LoadSubdirsKeeps ==
    ASSUME Based, NEW m, Sound(m), NEW p \in Dirs, m[p] # Absent,
           NEW r, r = LoadSubdirs(m, p)
    PROVE  /\ Sound(r) /\ Grown(m, r) /\ r[p] # Absent /\ r[p].listed
           /\ SpreadMem(m) => SpreadMem(r)
           /\ TreeMem(m) => r = m
<1>1. CASE m[p].listed
  BY <1>1, GrownReflexive DEF LoadSubdirs
<1>2. CASE ~ m[p].listed /\ SpreadMem(m)
  BY <1>2, ListSpread DEF Sound, MemSound, Grown, TreeMem, SpreadMem
<1>3. CASE ~ m[p].listed /\ FreshMem(m)
  <2>1. m = Fresh /\ FreshMem(Fresh)
    BY <1>3 DEF FreshMem
  <2>2. p = Root /\ r = LoadSubtree(Fresh, Root)
    BY <1>3, <2>1, FreshRoot DEF LoadSubdirs
  <2>3. Typed(r) /\ TreeMem(r) /\ Grown(Fresh, r)
    BY <2>1, <2>2, ReadFresh
  <2>4. ~ SpreadMem(m) /\ ~ TreeMem(m)
    BY <2>1, StateFacts DEF FreshMem, SpreadMem, Pieces, TreeMem, Blank
  <2> QED BY <2>1, <2>2, <2>3, <2>4 DEF Sound, MemSound, Typed, TreeMem
<1>4. CASE ~ m[p].listed /\ TreeMem(m)
  BY <1>4 DEF TreeMem
<1> QED BY <1>1, <1>2, <1>3, <1>4 DEF Sound, MemSound

LEMMA LoadEntriesKeeps ==
    ASSUME Based, NEW m, Sound(m), NEW p \in Dirs, m[p] # Absent,
           NEW r, r = LoadEntries(m, p)
    PROVE  /\ Sound(r) /\ Grown(m, r) /\ r[p] # Absent /\ r[p].loaded
           /\ SpreadMem(m) => SpreadMem(r)
           /\ TreeMem(m) => r = m
<1>1. CASE m[p].loaded
  BY <1>1, GrownReflexive DEF LoadEntries
<1>2. CASE ~ m[p].loaded /\ SpreadMem(m)
  BY <1>2, ReadSpread DEF Sound, MemSound, Grown, TreeMem, SpreadMem
<1>3. CASE ~ m[p].loaded /\ FreshMem(m)
  <2>1. m = Fresh /\ FreshMem(Fresh)
    BY <1>3 DEF FreshMem
  <2>2. p = Root /\ r = LoadSubtree(Fresh, Root)
    BY <1>3, <2>1, FreshRoot DEF LoadEntries
  <2>3. Typed(r) /\ TreeMem(r) /\ Grown(Fresh, r)
    BY <2>1, <2>2, ReadFresh
  <2>4. ~ SpreadMem(m) /\ ~ TreeMem(m)
    BY <2>1, StateFacts DEF FreshMem, SpreadMem, Pieces, TreeMem, Blank
  <2> QED BY <2>1, <2>2, <2>3, <2>4 DEF Sound, MemSound, Typed, TreeMem
<1>4. CASE ~ m[p].loaded /\ TreeMem(m)
  BY <1>4 DEF TreeMem
<1> QED BY <1>1, <1>2, <1>3, <1>4 DEF Sound, MemSound

-----------------------------------------------------------------------------
(* The way to a directory                                                    *)

(* Induction, as the least number of a set.                                   *)
LEMMA LeastNumber ==
    ASSUME NEW T \in SUBSET Nat, T # {}
    PROVE  \E n \in T : \A m \in T : n <= m
<1>1. IsWellFoundedOn(OpToRel(<, Nat), Nat)
  BY NatLessThanWellFounded
<1>2. \A m, n \in Nat : <<m, n>> \in OpToRel(<, Nat) <=> m < n
  BY DEF OpToRel
<1> DEFINE R == OpToRel(<, Nat)
<1> HIDE DEF R
<1>3. PICK n \in T : \A m \in T : ~ (<<m, n>> \in R)
  BY <1>1, WFMin DEF R
<1>4. \A m \in T : ~ (m < n)
  BY <1>2, <1>3 DEF R
<1> QED
  BY <1>4

(* A set of numbers up to some number that has the first, and with each the next,  *)
(* has them all.                                                              *)
LEMMA AllSteps ==
    ASSUME NEW N \in Nat, NEW P, 0 \in P, \A n \in 1..N : n - 1 \in P => n \in P
    PROVE  \A n \in 0..N : n \in P
<1> DEFINE T == {n \in 0..N : n \notin P}
<1>1. SUFFICES T = {}
  OBVIOUS
<1>2. SUFFICES ASSUME T # {} PROVE FALSE
  OBVIOUS
<1>3. PICK n \in T : \A m \in T : n <= m
  <2>1. T \in SUBSET Nat
    OBVIOUS
  <2> HIDE DEF T
  <2> QED BY <1>2, <2>1, LeastNumber
<1>4. n \in 1..N
  OBVIOUS
<1>5. n - 1 \in 0..N /\ n - 1 \notin T
  BY <1>3, <1>4
<1> QED BY <1>4, <1>5

Mems == [Dirs -> DirStates \cup {Absent}]

(* Steps one after the other have a result.                                    *)
LEMMA StepsExist ==
    ASSUME NEW N \in Nat, NEW s \in Mems, NEW step \in [(1..N) \X Mems -> Mems]
    PROVE  \E g \in [0..N -> Mems] : g[0] = s /\ \A n \in 1..N : g[n] = step[<<n, g[n - 1]>>]
<1> DEFINE Right(g, k) == g[0] = s /\ \A n \in 1..k : g[n] = step[<<n, g[n - 1]>>]
           P == {k \in 0..N : \E g \in [0..N -> Mems] : Right(g, k)}
<1>1. 0 \in P
  <2> DEFINE g == [n \in 0..N |-> s]
  <2>1. g \in [0..N -> Mems] /\ Right(g, 0) /\ 0 \in 0..N
    OBVIOUS
  <2> HIDE DEF g
  <2> QED BY <2>1
<1>2. ASSUME NEW k \in 1..N, k - 1 \in P PROVE k \in P
  <2>1. PICK g \in [0..N -> Mems] : Right(g, k - 1)
    BY <1>2
  <2>2. k \in 0..N /\ k - 1 \in 0..N
    OBVIOUS
  <2>3. step[<<k, g[k - 1]>>] \in Mems
    BY <2>2
  <2> DEFINE h == [g EXCEPT ![k] = step[<<k, g[k - 1]>>]]
  <2>4. h \in [0..N -> Mems] /\ h[k] = step[<<k, g[k - 1]>>] /\ \A n \in 0..N \ {k} : h[n] = g[n]
    BY <2>2, <2>3
  <2> HIDE DEF h
  <2>5. Right(h, k)
    <3>1. h[0] = s
      BY <2>1, <2>4
    <3>2. ASSUME NEW n \in 1..k PROVE h[n] = step[<<n, h[n - 1]>>]
      <4>1. n - 1 \in 0..N \ {k} /\ h[n - 1] = g[n - 1]
        BY <2>4
      <4>2. CASE n = k
        BY <2>4, <4>1, <4>2
      <4>3. CASE n # k
        <5>1. n \in 1..k - 1 /\ n \in 0..N \ {k}
          BY <4>3
        <5> QED BY <2>1, <2>4, <4>1, <5>1
      <4> QED BY <4>2, <4>3
    <3> QED BY <3>1, <3>2
  <2> QED BY <2>2, <2>4, <2>5
<1> HIDE DEF P
<1>3. N \in P
  BY <1>1, <1>2, AllSteps
<1> QED BY <1>3 DEF P

LEMMA LoadsTyped ==
    ASSUME Based, NEW s \in Mems, NEW p \in Dirs, s[p] # Absent
    PROVE  /\ LoadSubdirs(s, p) \in Mems /\ LoadSubdirs(s, p)[p] # Absent
           /\ LoadEntries(s, p) \in Mems /\ LoadEntries(s, p)[p] # Absent
<1>1. s[p] \in DirStates
  BY DEF Mems
<1>2. Blank \in DirStates /\ Absent \notin DirStates
  BY StateFacts
<1>3. CASE disk[p].sub # NoFile
  <2> DEFINE sub == disk[p].sub
             r == LoadSubtree(s, p)
  <2>1. p = Root
    BY <1>3 DEF Based, DiskSound
  <2>2. sub \in [Dirs -> Contents \cup {Absent}] /\ sub[p] \in Contents
    BY <1>3, <2>1, DiskFacts DEF Based, DiskSound, NoSub, Subtrees
  <2> HIDE DEF sub
  <2>3. [s[p] EXCEPT !.entries = sub[p], !.loaded = TRUE, !.listed = TRUE, !.tree = TRUE]
          \in DirStates
    BY <1>1, <2>2 DEF DirStates
  <2>4. \A e \in Dirs : ReadDir(sub, e) \in DirStates \cup {Absent}
    <3> SUFFICES ASSUME NEW e \in Dirs, sub[e] # Absent PROVE ReadDir(sub, e) \in DirStates
      BY DEF ReadDir
    <3>1. sub[e] \in Contents
      BY <2>2
    <3> QED BY <1>2, <3>1 DEF ReadDir, DirStates
  <2>5. r \in Mems /\ r[p] \in DirStates
    BY <2>3, <2>4 DEF LoadSubtree, Mems, sub
  <2> HIDE DEF r
  <2> QED BY <1>2, <1>3, <2>5 DEF LoadSubdirs, LoadEntries, r
<1>4. CASE disk[p].sub = NoFile
  <2>1. Content(disk[p].file) \in Contents
    BY DiskFacts DEF Based
  <2>2. [s[p] EXCEPT !.loaded = TRUE, !.entries = Content(disk[p].file)] \in DirStates
    BY <1>1, <2>1 DEF DirStates
  <2>3. [s EXCEPT ![p].loaded = TRUE, ![p].entries = Content(disk[p].file)]
        = [s EXCEPT ![p] = [s[p] EXCEPT !.loaded = TRUE, !.entries = Content(disk[p].file)]]
    BY <1>1 DEF Mems
  <2>4. [s[p] EXCEPT !.listed = TRUE] \in DirStates
    BY <1>1 DEF DirStates
  <2>5. LoadEntries(s, p) \in Mems /\ LoadEntries(s, p)[p] # Absent
    <3> DEFINE f == Content(disk[p].file)
               x == [s[p] EXCEPT !.loaded = TRUE, !.entries = f]
    <3> HIDE DEF x
    <3>1. LoadEntries(s, p) = s \/ LoadEntries(s, p) = [s EXCEPT ![p] = x]
      BY <1>4, <2>3 DEF LoadEntries, x
    <3>2. x \in DirStates
      BY <2>2 DEF x
    <3> QED BY <1>1, <1>2, <3>1, <3>2 DEF Mems
  <2>6. LoadSubdirs(s, p) \in Mems /\ LoadSubdirs(s, p)[p] # Absent
    <3> DEFINE x == [s[p] EXCEPT !.listed = TRUE]
    <3> HIDE DEF x
    <3>1. LoadSubdirs(s, p) = s
          \/ LoadSubdirs(s, p) = [e \in Dirs |-> IF e = p THEN x
                                                ELSE IF e \in Children(p) /\ Visible(e) THEN Blank
                                                ELSE s[e]]
      BY <1>4 DEF LoadSubdirs, x
    <3>2. x \in DirStates
      BY <2>4 DEF x
    <3> QED BY <1>1, <1>2, <3>1, <3>2 DEF Mems
  <2> QED BY <2>5, <2>6
<1> QED BY <1>3, <1>4

(* A directory that has just been made.                                         *)
Made == [Blank EXCEPT !.loaded = TRUE, !.listed = TRUE, !.dirty = TRUE]

LEMMA MadeFacts ==
    /\ Made \in DirStates /\ Made # Absent
    /\ Made.loaded /\ Made.listed /\ Made.dirty = TRUE /\ Made.below = FALSE
    /\ ~ Made.inside /\ ~ Made.tree /\ Made.entries = Nothing
<1>1. Made \in DirStates
  BY StateFacts DEF Made, DirStates
<1> QED BY <1>1, StateFacts DEF Made, Blank

LEMMA MakeKeeps ==
    ASSUME Based, NEW m, Sound(m), NEW p \in Dirs, m[p] # Absent, m[p].listed,
           NEW c \in Children(p), m[c] = Absent, NEW r, r = [m EXCEPT ![c] = Made]
    PROVE  /\ Sound(r) /\ r[c] = Made /\ \A e \in Dirs \ {c} : r[e] = m[e]
           /\ Closed(m)
           /\ SpreadMem(m) => SpreadMem(r)
           /\ TreeMem(m) => TreeMem(r)
<1>1. c \in Dirs /\ c # Root
  BY ChildFacts
<1>2. r[c] = Made /\ \A e \in Dirs \ {c} : r[e] = m[e]
  BY <1>1 DEF Sound, Typed
<1>3. r \in Mems
  BY MadeFacts DEF Sound, Typed, Mems
<1>4. Typed(r)
  BY <1>1, <1>2, <1>3, TreeAssumption DEF Typed, Sound, Mems
<1>5. \A e \in Dirs : m[e] # Absent => r[e] = m[e]
  BY <1>2
<1>6. ~ FreshMem(m)
  BY FreshRoot DEF FreshMem
<1>7. Closed(m)
  BY <1>6 DEF Sound, MemSound, SpreadMem, Pieces, TreeMem
<1>10. Closed(r)
  <2> SUFFICES ASSUME NEW d \in Dirs, r[d] # Absent, NEW e \in Above(d)
               PROVE  r[e] # Absent /\ r[e].listed
    BY DEF Closed
  <2>1. CASE d = c
    <3>1. e \in Dirs /\ (e = p \/ e \in Above(p))
      BY <2>1, ChildFacts DEF Above
    <3>2. m[e] # Absent /\ m[e].listed
      BY <1>7, <3>1 DEF Closed
    <3> QED BY <1>5, <3>1, <3>2
  <2>2. CASE d # c
    <3>1. e \in Dirs /\ m[e] # Absent /\ m[e].listed
      BY <1>2, <1>7, <2>2 DEF Closed, Above
    <3> QED BY <1>5, <3>1
  <2> QED BY <2>1, <2>2
<1>11. ASSUME SpreadMem(m) PROVE SpreadMem(r)
  <2>1. SpreadDir(m, p)
    BY <1>11 DEF SpreadMem, Pieces
  <2>2. Bare(c)
    BY <2>1 DEF SpreadDir
  <2>3. ASSUME NEW d \in Dirs, r[d] # Absent PROVE SpreadDir(r, d)
    <3>1. CASE d = c
      <4>1. \A x \in Children(c) : Bare(x)
        BY <1>1, <2>2, ChildFacts, BelowOrder DEF Bare
      <4> QED BY <1>2, <3>1, <4>1, MadeFacts DEF SpreadDir
    <3>2. CASE d # c
      <4>1. r[d] = m[d] /\ SpreadDir(m, d)
        BY <1>2, <1>11, <2>3, <3>2 DEF SpreadMem, Pieces
      <4>2. \A x \in Children(d) : r[x] = Absent => m[x] = Absent
        BY <1>2, MadeFacts, ChildFacts
      <4> QED BY <4>1, <4>2 DEF SpreadDir
    <3> QED BY <3>1, <3>2
  <2>4. Reached(r)
    BY <1>5, <1>11 DEF SpreadMem, Pieces, Reached
  <2>5. ASSUME NEW d \in Dirs PROVE asked[d] = Held(r, d)
    <3>1. asked[d] = Held(m, d)
      BY <1>11 DEF SpreadMem, Pieces
    <3>2. CASE d = c
      <4>1. Content(disk[c].file) = Nothing
        BY <1>1, <2>2, PathFacts DEF Bare
      <4> QED BY <1>2, <3>1, <3>2, <4>1, MadeFacts, EntryFacts DEF Held
    <3>3. CASE d # c
      BY <1>2, <3>1, <3>3 DEF Held
    <3> QED BY <3>2, <3>3
  <2>6. ~ r[Root].tree /\ NoSub
    BY <1>1, <1>2, <1>11, TreeAssumption DEF SpreadMem, Pieces
  <2> QED BY <1>10, <2>3, <2>4, <2>5, <2>6 DEF SpreadMem, Pieces
<1>12. ASSUME TreeMem(m) PROVE TreeMem(r)
  <2>1. r[Root] = m[Root]
    BY <1>1, <1>2, TreeAssumption
  <2>2. \A d \in Dirs : r[d] # Absent => r[d].loaded /\ r[d].listed /\ (d # Root => ~ r[d].tree)
    BY <1>2, <1>12, MadeFacts DEF TreeMem
  <2>3. ASSUME NEW d \in Dirs
        PROVE  asked[d] = IF r[d] # Absent THEN Plain(r[d].entries) ELSE Nothing
    BY <1>2, <1>12, MadeFacts, EntryFacts DEF TreeMem
  <2> QED BY <1>10, <1>12, <2>1, <2>2, <2>3 DEF TreeMem, NeedsSync
<1> QED BY <1>2, <1>4, <1>6, <1>7, <1>11, <1>12 DEF Sound, MemSound

(* What the way to a directory does: with create, all that is new is on that way, and *)
(* the directory itself is, or nothing is.                                        *)
GrownTo(m, r, d) ==
    \A e \in Dirs :
        IF m[e] # Absent
        THEN /\ r[e] # Absent
             /\ r[e].dirty = m[e].dirty /\ r[e].below = m[e].below
             /\ m[e].listed => r[e].listed
             /\ m[e].loaded => r[e].loaded /\ r[e].entries = m[e].entries
        ELSE r[e] # Absent /\ NeedsSync(r, e) => IsBelow(e, d) /\ r[e].listed

Reaches(m, r, d, create) ==
    /\ Sound(r) /\ GrownTo(m, r, d)
    /\ SpreadMem(m) => SpreadMem(r)
    /\ TreeMem(m) => TreeMem(r)
    /\ ~ create => Grown(m, r)
    /\ create => /\ r[d] # Absent
                 /\ \/ Grown(m, r)
                    \/ r[d] = Made /\ \A c \in Children(d) : r[c] = Absent

Onward(so, d, n, create) ==
    LET p == SubSeq(d, 1, n - 1)
        c == SubSeq(d, 1, n)
        listed == IF so[p] = Absent THEN so ELSE LoadSubdirs(so, p)
    IN IF create /\ listed[c] = Absent THEN [listed EXCEPT ![c] = Made] ELSE listed

LEMMA GrownIsGrownTo ==
    ASSUME NEW m, NEW r, NEW d, Grown(m, r)
    PROVE  GrownTo(m, r, d)
BY DEF Grown, GrownTo

LEMMA ReachesNext ==
    ASSUME Based, NEW m, NEW create \in BOOLEAN, NEW d \in Dirs, NEW n \in 1..Len(d), NEW so,
           Reaches(m, so, SubSeq(d, 1, n - 1), create)
    PROVE  Reaches(m, Onward(so, d, n, create), SubSeq(d, 1, n), create)
<1> DEFINE p == SubSeq(d, 1, n - 1)
           c == SubSeq(d, 1, n)
           listed == IF so[p] = Absent THEN so ELSE LoadSubdirs(so, p)
           r == Onward(so, d, n, create)
<1>1. p \in Dirs /\ c \in Children(p)
  <2>1. Len(d) \in Nat /\ n - 1 \in 0..Len(d) /\ n \in 0..Len(d) /\ d \in Seq(STRING)
    BY PathFacts
  <2>2. p \in Dirs /\ c \in Dirs /\ Len(c) = n /\ c # Root
    BY <2>1, PathFacts
  <2>3. SubSeq(c, 1, Len(c) - 1) = p
    BY <2>1, <2>2
  <2> QED BY <2>2, <2>3 DEF Children, Parent
<1>2. r = IF create /\ listed[c] = Absent THEN [listed EXCEPT ![c] = Made] ELSE listed
  BY DEF Onward
<1> HIDE DEF p, c, r
<1>3. c \in Dirs /\ c # Root /\ IsBelow(p, c)
  BY <1>1, ChildFacts
<1>4. Sound(listed) /\ Grown(so, listed) /\ (so[p] # Absent => listed[p] # Absent /\ listed[p].listed)
      /\ (SpreadMem(so) => SpreadMem(listed)) /\ (TreeMem(so) => TreeMem(listed))
  BY <1>1, LoadSubdirsKeeps, GrownReflexive DEF Reaches, p
<1>5. Sound(so) /\ GrownTo(m, so, p)
      /\ (SpreadMem(m) => SpreadMem(so)) /\ (TreeMem(m) => TreeMem(so))
  BY DEF Reaches, p
<1> HIDE DEF listed
<1>6. GrownTo(m, listed, c)
  <2> SUFFICES ASSUME NEW e \in Dirs, m[e] = Absent, listed[e] # Absent, NeedsSync(listed, e)
               PROVE  IsBelow(e, c) /\ listed[e].listed
    BY <1>4, <1>5 DEF GrownTo, Grown
  <2>1. so[e] # Absent /\ NeedsSync(so, e)
    BY <1>4 DEF Grown, NeedsSync
  <2>2. IsBelow(e, p) /\ so[e].listed
    BY <1>5, <2>1 DEF GrownTo
  <2>3. listed[e].listed
    BY <1>4, <2>1, <2>2 DEF Grown
  <2> QED BY <1>1, <1>3, <2>2, <2>3, BelowOrder
<1>7. CASE ~ create
  <2>1. r = listed
    BY <1>2, <1>7
  <2>2. Grown(m, so)
    BY <1>7 DEF Reaches, p
  <2>3. Grown(m, r)
    BY <1>4, <2>1, <2>2, GrownTransitive
  <2> QED BY <1>4, <1>5, <1>6, <1>7, <2>1, <2>3 DEF Reaches, r, c
<1>8. CASE create /\ listed[c] # Absent
  <2>1. r = listed
    BY <1>2, <1>8
  <2>2. Grown(m, so)
    <3> SUFFICES ASSUME so[p] = Made, \A x \in Children(p) : so[x] = Absent PROVE FALSE
      BY <1>8 DEF Reaches, p
    <3>1. listed = so
      BY MadeFacts DEF LoadSubdirs, listed
    <3> QED BY <1>1, <1>8, <3>1
  <2>3. Grown(m, r)
    BY <1>4, <2>1, <2>2, GrownTransitive
  <2> QED BY <1>4, <1>5, <1>6, <1>8, <2>1, <2>3 DEF Reaches, r, c
<1>9. CASE create /\ listed[c] = Absent
  <2>1. r = [listed EXCEPT ![c] = Made]
    BY <1>2, <1>9
  <2>2. listed[p] # Absent /\ listed[p].listed
    BY <1>4, <1>9 DEF Reaches, p
  <2>3. /\ Sound(r) /\ r[c] = Made /\ \A e \in Dirs \ {c} : r[e] = listed[e]
        /\ \A x \in Children(c) : r[x] = Absent
        /\ SpreadMem(listed) => SpreadMem(r)
        /\ TreeMem(listed) => TreeMem(r)
    <3> HIDE DEF Made, Children, SpreadMem, TreeMem, Sound, Based
    <3>1. Sound(listed) /\ p \in Dirs /\ c \in Children(p) /\ listed[c] = Absent
      BY <1>1, <1>4, <1>9
    <3>2. Sound(r) /\ r[c] = Made
      BY <2>1, <2>2, <3>1, MakeKeeps
    <3>3. \A e \in Dirs \ {c} : r[e] = listed[e]
      BY <2>1, <2>2, <3>1, MakeKeeps
    <3>4. ASSUME NEW x \in Children(c) PROVE r[x] = Absent
      <4>1. Closed(listed)
        BY <2>1, <2>2, <3>1, MakeKeeps
      <4>2. x \in Dirs /\ x # c /\ listed[x] = Absent
        BY <1>3, <3>1, <4>1, ChildFacts DEF Closed
      <4> QED BY <3>3, <4>2
    <3>5. (SpreadMem(listed) => SpreadMem(r)) /\ (TreeMem(listed) => TreeMem(r))
      BY <2>1, <2>2, <3>1, MakeKeeps
    <3> QED BY <3>2, <3>3, <3>4, <3>5
  <2>4. GrownTo(m, r, c)
    <3>1. m[c] = Absent
      BY <1>3, <1>6, <1>9 DEF GrownTo
    <3>2. ASSUME NEW e \in Dirs, e # c PROVE r[e] = listed[e] /\ (NeedsSync(r, e) <=> NeedsSync(listed, e))
      BY <2>3, <3>2 DEF NeedsSync
    <3>3. IsBelow(c, c)
      BY <1>3, PathFacts
    <3>4. r[c].listed
      BY <2>3, MadeFacts
    <3> QED BY <1>6, <2>3, <3>1, <3>2, <3>3, <3>4 DEF GrownTo
  <2> QED BY <1>4, <1>5, <1>9, <2>3, <2>4, MadeFacts DEF Reaches, r, c
<1> QED BY <1>7, <1>8, <1>9 DEF r, c

Walking(m, d, create, g) ==
    [n \in 0..Len(d) |-> IF n = 0 THEN m ELSE Onward(g[n - 1], d, n, create)]

LEMMA WalkIsWalking ==
    ASSUME NEW m, NEW d, NEW create
    PROVE  Walk(m, d, create) = (CHOOSE g : g = Walking(m, d, create, g))[Len(d)]
BY DEF Walk, Walking, Onward, Made

LEMMA OnwardTyped ==
    ASSUME Based, NEW s \in Mems, NEW d \in Dirs, NEW n \in 1..Len(d), NEW create
    PROVE  Onward(s, d, n, create) \in Mems
<1> DEFINE p == SubSeq(d, 1, n - 1)
           c == SubSeq(d, 1, n)
           listed == IF s[p] = Absent THEN s ELSE LoadSubdirs(s, p)
<1>1. p \in Dirs /\ c \in Dirs
  <2>1. Len(d) \in Nat /\ n - 1 \in 0..Len(d) /\ n \in 0..Len(d)
    BY PathFacts
  <2> QED BY <2>1, PathFacts
<1>2. Onward(s, d, n, create) = listed \/ Onward(s, d, n, create) = [listed EXCEPT ![c] = Made]
  BY DEF Onward
<1> HIDE DEF p, c
<1>3. listed \in Mems
  BY <1>1, LoadsTyped
<1> HIDE DEF listed
<1> QED BY <1>1, <1>2, <1>3, MadeFacts DEF Mems

LEMMA WalkingExists ==
    ASSUME Based, NEW m \in Mems, NEW d \in Dirs, NEW create
    PROVE  \E g : g = Walking(m, d, create, g)
<1> DEFINE N == Len(d)
           step == [x \in (1..N) \X Mems |-> Onward(x[2], d, x[1], create)]
<1>1. N \in Nat
  BY PathFacts
<1>2. step \in [(1..N) \X Mems -> Mems]
  BY OnwardTyped
<1> HIDE DEF step
<1>3. PICK g \in [0..N -> Mems] : g[0] = m /\ \A n \in 1..N : g[n] = step[<<n, g[n - 1]>>]
  <2> HIDE DEF N
  <2> QED BY <1>1, <1>2, StepsExist
<1>4. ASSUME NEW n \in 1..N PROVE g[n] = Onward(g[n - 1], d, n, create)
  <2>1. g[n - 1] \in Mems
    BY <1>1
  <2>2. <<n, g[n - 1]>> \in (1..N) \X Mems
    BY <2>1
  <2>3. step[<<n, g[n - 1]>>] = Onward(g[n - 1], d, n, create)
    BY <2>2 DEF step
  <2> QED BY <1>3, <2>3
<1>5. g = [n \in 0..N |-> IF n = 0 THEN m ELSE Onward(g[n - 1], d, n, create)]
  <2>1. \A n \in 0..N : n # 0 => n \in 1..N
    OBVIOUS
  <2> QED BY <1>3, <1>4, <2>1
<1> QED BY <1>5 DEF Walking

LEMMA WalkReaches ==
    ASSUME Based, NEW m, Sound(m), NEW d \in Dirs, NEW create \in BOOLEAN
    PROVE  Reaches(m, Walk(m, d, create), d, create)
<1> DEFINE at == CHOOSE g : g = Walking(m, d, create, g)
           P == {n \in 0..Len(d) : Reaches(m, at[n], SubSeq(d, 1, n), create)}
<1>1. at = Walking(m, d, create, at)
  BY WalkingExists DEF Sound, Typed, Mems
<1> HIDE DEF at
<1>2. Len(d) \in Nat /\ SubSeq(d, 1, 0) = Root /\ SubSeq(d, 1, Len(d)) = d
  <2>1. Len(d) \in Nat /\ 0 \in 0..Len(d)
    BY PathFacts
  <2> QED BY <2>1, PathFacts
<1>3. at[0] = m /\ \A n \in 1..Len(d) : at[n] = Onward(at[n - 1], d, n, create)
  <2>1. \A n \in 0..Len(d) : at[n] = IF n = 0 THEN m ELSE Onward(at[n - 1], d, n, create)
    BY <1>1 DEF Walking
  <2>2. 0 \in 0..Len(d) /\ \A n \in 1..Len(d) : n \in 0..Len(d) /\ n # 0
    BY <1>2
  <2> QED BY <2>1, <2>2
<1>4. 0 \in P
  <2>1. Reaches(m, m, Root, create)
    BY GrownReflexive, GrownIsGrownTo DEF Reaches, Sound, Typed
  <2>2. Reaches(m, at[0], SubSeq(d, 1, 0), create)
    BY <1>2, <1>3, <2>1
  <2> QED BY <1>2, <2>2
<1>5. ASSUME NEW n \in 1..Len(d), n - 1 \in P PROVE n \in P
  <2>1. Reaches(m, at[n - 1], SubSeq(d, 1, n - 1), create)
    BY <1>5
  <2>2. Reaches(m, at[n], SubSeq(d, 1, n), create)
    BY <1>3, <2>1, ReachesNext
  <2> QED BY <2>2
<1>6. Len(d) \in P
  <2> HIDE DEF P
  <2>1. \A n \in 0..Len(d) : n \in P
    BY <1>2, <1>4, <1>5, AllSteps
  <2> QED BY <1>2, <2>1
<1>7. Walk(m, d, create) = at[Len(d)]
  BY WalkIsWalking DEF at
<1> QED BY <1>2, <1>6, <1>7

-----------------------------------------------------------------------------
(* The whole tree                                                            *)

(* A directory that is loaded as a whole.                                       *)
Completed(m, r, p) ==
    /\ r[p] \in DirStates /\ r[p].loaded /\ r[p].listed
    /\ r[p].entries = IF m[p].loaded THEN m[p].entries ELSE Content(disk[p].file)
    /\ r[p].dirty = m[p].dirty /\ r[p].below = m[p].below
    /\ r[p].inside = m[p].inside /\ r[p].tree = m[p].tree

Leveled(m, r, P) ==
    /\ \A p \in P : Completed(m, r, p)
    /\ \A e \in Dirs \ P :
          r[e] = IF \E p \in P : ~ m[p].listed /\ e \in Children(p) /\ Visible(e)
                 THEN Blank ELSE m[e]

LEMMA LevelSpread ==
    ASSUME Based, NEW m, Typed(m), Pieces(m), NEW P \in SUBSET In(m),
           NEW r \in Mems, Leveled(m, r, P)
    PROVE  Typed(r) /\ Pieces(r) /\ Grown(m, r) /\ r[Root].tree = m[Root].tree
<1>1. \A p \in P : p \in Dirs /\ m[p] # Absent
  BY DEF In
<1>2. \A p \in P : Completed(m, r, p) /\ r[p] # Absent
  BY StateFacts DEF Leveled, Completed
<1>3. \A p \in P : ~ m[p].listed => \A c \in Children(p) : m[c] = Absent
  <2> SUFFICES ASSUME NEW p \in P, ~ m[p].listed, NEW c \in Children(p), m[c] # Absent
               PROVE  FALSE
    OBVIOUS
  <2>1. c \in Dirs /\ p \in Above(c)
    BY <1>1, ChildFacts
  <2> QED BY <2>1 DEF Pieces, Closed
<1>4. \A e \in Dirs \ P : \/ r[e] = m[e]
                          \/ /\ r[e] = Blank /\ Visible(e) /\ m[e] = Absent
                             /\ \E p \in P : ~ m[p].listed /\ e \in Children(p)
  BY <1>3 DEF Leveled
<1>5. \A p \in P : ~ m[p].listed => \A c \in Children(p) : Visible(c) => r[c] # Absent
  <2> SUFFICES ASSUME NEW p \in P, ~ m[p].listed, NEW c \in Children(p), Visible(c)
               PROVE  r[c] # Absent
    OBVIOUS
  <2>1. c \in Dirs /\ c \notin P
    BY <1>1, <1>3, ChildFacts
  <2> QED BY <2>1, StateFacts DEF Leveled
<1>9. /\ ~ Blank.loaded /\ ~ Blank.listed /\ ~ Blank.dirty /\ ~ Blank.below
      /\ ~ Blank.inside /\ ~ Blank.tree
  BY DEF Blank
<1>11. Grown(m, r)
  <2> SUFFICES ASSUME NEW e \in Dirs
               PROVE  IF m[e] # Absent
                      THEN /\ r[e] # Absent
                           /\ r[e].dirty = m[e].dirty /\ r[e].below = m[e].below
                           /\ m[e].listed => r[e].listed
                           /\ m[e].loaded => r[e].loaded /\ r[e].entries = m[e].entries
                      ELSE r[e] # Absent => ~ NeedsSync(r, e)
    BY DEF Grown
  <2>1. CASE e \in P
    BY <1>1, <1>2, <2>1 DEF Completed
  <2>2. CASE e \notin P
    BY <1>4, <1>9, <2>2 DEF NeedsSync
  <2> QED BY <2>1, <2>2
<1>10. Typed(r)
  BY <1>11, TreeAssumption DEF Typed, Mems, Grown
<1>12. Closed(r)
  <2> SUFFICES ASSUME NEW d \in Dirs, r[d] # Absent, NEW e \in Above(d)
               PROVE  r[e] # Absent /\ r[e].listed
    BY DEF Closed
  <2>0. e \in Dirs
    BY DEF Above
  <2>1. CASE m[d] # Absent
    BY <1>11, <2>0, <2>1 DEF Pieces, Closed, Grown
  <2>2. CASE m[d] = Absent
    <3>1. PICK p \in P : d \in Children(p)
      BY <1>1, <1>4, <2>2
    <3>2. e = p \/ e \in Above(p)
      BY <1>1, <3>1, ChildFacts
    <3>3. e \in Above(p) => m[e] # Absent /\ m[e].listed
      BY <1>1 DEF Pieces, Closed
    <3> QED BY <1>2, <1>11, <2>0, <3>2, <3>3 DEF Grown, Completed
  <2> QED BY <2>1, <2>2
<1>13. Reached(r)
  BY <1>11 DEF Pieces, Reached, Grown
<1>14. ASSUME NEW d \in Dirs, r[d] # Absent PROVE SpreadDir(r, d)
  <2>1. CASE d \in P
    <3>1. SpreadDir(m, d) /\ Completed(m, r, d)
      BY <1>1, <1>2, <2>1 DEF Pieces
    <3>2. ASSUME NEW c \in Children(d), r[c] = Absent PROVE Bare(c)
      <4>1. c \in Dirs \ {Root} /\ m[c] = Absent
        BY <1>11, <3>2, ChildFacts DEF Grown
      <4>2. CASE m[d].listed
        BY <3>1, <4>1, <4>2 DEF SpreadDir
      <4>3. CASE ~ m[d].listed
        BY <1>5, <2>1, <3>2, <4>1, <4>3, HiddenIsBare DEF Pieces
      <4> QED BY <4>2, <4>3
    <3> QED BY <3>1, <3>2 DEF SpreadDir, Completed
  <2>2. CASE d \notin P /\ r[d] = m[d]
    <3>1. SpreadDir(m, d)
      BY <1>14, <2>2 DEF Pieces
    <3>2. ASSUME NEW c \in Children(d), r[c] = Absent PROVE m[c] = Absent
      BY <1>11, <3>2, ChildFacts DEF Grown
    <3> QED BY <2>2, <3>1, <3>2 DEF SpreadDir
  <2>3. CASE d \notin P /\ r[d] # m[d]
    <3>1. PICK p \in P : ~ m[p].listed /\ d \in Children(p) /\ Visible(d) /\ r[d] = Blank
      BY <1>4, <2>3
    <3>2. WayVisible(p)
      BY <1>1, <3>1 DEF Pieces, SpreadDir
    <3>3. WayVisible(d)
      BY <1>1, <3>1, <3>2, ChildFacts DEF WayVisible
    <3> QED BY <1>9, <3>1, <3>3 DEF SpreadDir
  <2> QED BY <2>1, <2>2, <2>3
<1>15. ASSUME NEW d \in Dirs PROVE asked[d] = Held(r, d)
  <2>1. asked[d] = Held(m, d)
    BY DEF Pieces
  <2>2. CASE d \in P
    <3>1. Plain(Content(disk[d].file)) = Content(disk[d].file)
      BY DEF Based, DiskSound
    <3> QED BY <1>1, <1>2, <2>1, <2>2, <3>1 DEF Held, Completed
  <2>3. CASE d \notin P
    BY <1>4, <1>9, <2>1, <2>3 DEF Held
  <2> QED BY <2>2, <2>3
<1>16. r[Root].tree = m[Root].tree /\ NoSub
  <2>1. Root \in Dirs /\ m[Root] # Absent
    BY TreeAssumption DEF Typed
  <2> QED BY <1>2, <1>4, <2>1 DEF Pieces, Completed
<1> QED BY <1>10, <1>11, <1>12, <1>13, <1>14, <1>15, <1>16 DEF Pieces

(* One directory.                                                             *)
LEMMA LoadAllCompletes ==
    ASSUME Based, NoSub, NEW m \in Mems, NEW p \in Dirs, m[p] # Absent,
           NEW r, r = LoadAll(m, p)
    PROVE  /\ Completed(m, r, p)
           /\ \A e \in Dirs \ {p} :
                r[e] = IF ~ m[p].listed /\ e \in Children(p) /\ Visible(e) THEN Blank ELSE m[e]
<1> DEFINE s == LoadEntries(m, p)
<1>1. disk[p].sub = NoFile
  BY DEF Based, DiskSound, NoSub
<1>2. m[p] \in DirStates
  BY DEF Mems
<1>3. Content(disk[p].file) \in Contents
  BY DiskFacts DEF Based
<1>4. s = IF m[p].loaded THEN m
          ELSE [m EXCEPT ![p].loaded = TRUE, ![p].entries = Content(disk[p].file)]
  BY <1>1 DEF LoadEntries
<1>5. /\ s[p] \in DirStates /\ s[p].loaded /\ s[p].listed = m[p].listed
      /\ s[p].entries = IF m[p].loaded THEN m[p].entries ELSE Content(disk[p].file)
      /\ s[p].dirty = m[p].dirty /\ s[p].below = m[p].below
      /\ s[p].inside = m[p].inside /\ s[p].tree = m[p].tree
  <2>1. CASE m[p].loaded
    BY <1>2, <1>4, <2>1
  <2>2. CASE ~ m[p].loaded
    <3>1. s[p] = [m[p] EXCEPT !.loaded = TRUE, !.entries = Content(disk[p].file)]
      BY <1>4, <2>2 DEF Mems
    <3> QED BY <1>2, <1>3, <2>2, <3>1 DEF DirStates
  <2> QED BY <2>1, <2>2
<1>6. \A e \in Dirs \ {p} : s[e] = m[e]
  BY <1>4 DEF Mems
<1>7. r = LoadSubdirs(s, p)
  BY DEF LoadAll
<1> HIDE DEF s
<1>8. r = IF s[p].listed THEN s
          ELSE [e \in Dirs |-> IF e = p THEN [s[p] EXCEPT !.listed = TRUE]
                               ELSE IF e \in Children(p) /\ Visible(e) THEN Blank ELSE s[e]]
  BY <1>1, <1>7 DEF LoadSubdirs
<1>9. CASE s[p].listed
  BY <1>5, <1>6, <1>8, <1>9 DEF Completed
<1>10. CASE ~ s[p].listed
  <2>1. r[p] = [s[p] EXCEPT !.listed = TRUE]
    BY <1>8, <1>10
  <2>2. \A e \in Dirs \ {p} : r[e] = IF e \in Children(p) /\ Visible(e) THEN Blank ELSE s[e]
    BY <1>8, <1>10
  <2>3. Completed(m, r, p)
    BY <1>5, <2>1 DEF Completed, DirStates
  <2> QED BY <1>5, <1>6, <1>10, <2>2, <2>3
<1> QED BY <1>9, <1>10

(* One level of recursively_load_subtree().                                      *)
Level(so, n) == {e \in Below(Root) \cup {Root} : Len(e) = Len(Root) + n - 1 /\ so[e] # Absent}

Widened(so, n) ==
    LET level == Level(so, n)
        whole == [e \in level |-> LoadAll(so, e)]
    IN [e \in Dirs |-> IF \E p \in level : IsBelow(p, e)
                       THEN whole[CHOOSE p \in level : IsBelow(p, e)][e]
                       ELSE so[e]]

Depth == {Len(e) : e \in Below(Root) \cup {Root}}

Widening(m, g) ==
    [n \in 0..Cardinality(Depth) |-> IF n = 0 THEN m ELSE Widened(g[n - 1], n)]

LEMMA LoadBelowIsWidening ==
    ASSUME NEW m
    PROVE  LoadBelow(m, Root) =
              LET all == (CHOOSE g : g = Widening(m, g))[Cardinality(Depth)]
              IN [e \in Dirs |-> IF e \in Below(Root) /\ all[e] # Absent
                                 THEN [all[e] EXCEPT !.inside = TRUE] ELSE all[e]]
BY DEF LoadBelow, Widening, Widened, Level, Depth

LEMMA DepthFacts ==
    /\ Cardinality(Depth) \in Nat
    /\ \A e \in Dirs : Len(e) < Cardinality(Depth)
    /\ Below(Root) \cup {Root} = Dirs
    /\ Below(Root) = Dirs \ {Root}
<1>1. Below(Root) \cup {Root} = Dirs /\ Below(Root) = Dirs \ {Root}
  BY PathFacts, TreeAssumption DEF Below
<1>2. Depth = {Len(e) : e \in Dirs}
  BY <1>1 DEF Depth
<1>3. IsFiniteSet(Depth)
  <2> DEFINE f == [e \in Dirs |-> Len(e)]
  <2>1. f \in Surjection(Dirs, Depth)
    BY <1>2 DEF Surjection
  <2> QED BY <2>1, TreeAssumption, FS_Surjection
<1>4. ASSUME NEW e \in Dirs PROVE Len(e) < Cardinality(Depth)
  <2>1. Len(e) \in Nat
    BY PathFacts
  <2>2. 0..Len(e) \subseteq Depth
    <3> SUFFICES ASSUME NEW n \in 0..Len(e) PROVE n \in Depth
      OBVIOUS
    <3>1. SubSeq(e, 1, n) \in Dirs /\ Len(SubSeq(e, 1, n)) = n
      BY PathFacts
    <3> QED BY <1>2, <3>1
  <2>3. Cardinality(0..Len(e)) = Len(e) + 1
    <3>1. 0 \in Int /\ Len(e) \in Int
      BY <2>1
    <3> QED BY <2>1, <3>1, FS_Interval
  <2>4. Cardinality(0..Len(e)) <= Cardinality(Depth)
    BY <1>3, <2>2, FS_Subset
  <2>5. Cardinality(Depth) \in Nat
    BY <1>3, FS_CardinalityType
  <2> QED BY <2>1, <2>3, <2>4, <2>5
<1>5. Cardinality(Depth) \in Nat
  BY <1>3, FS_CardinalityType
<1> QED BY <1>1, <1>4, <1>5

LEMMA LevelFacts ==
    ASSUME NEW so \in Mems, NEW n \in Nat
    PROVE  /\ Level(so, n) = {e \in Dirs : Len(e) = n - 1 /\ so[e] # Absent}
           /\ \A e \in Dirs, p \in Level(so, n), q \in Level(so, n) :
                IsBelow(p, e) /\ IsBelow(q, e) => p = q
<1>1. Level(so, n) = {e \in Dirs : Len(e) = n - 1 /\ so[e] # Absent}
  BY DepthFacts, PathFacts, TreeAssumption DEF Level
<1>2. ASSUME NEW e \in Dirs, NEW p \in Dirs, NEW q \in Dirs, Len(p) = Len(q),
             IsBelow(p, e), IsBelow(q, e)
      PROVE  p = q
  <2>1. Len(p) \in Nat
    BY PathFacts
  <2>2. IsBelow(p, q) \/ IsBelow(q, p)
    BY <1>2, AboveAreChain
  <2> QED BY <1>2, <2>1, <2>2, BelowOrder
<1> QED BY <1>1, <1>2

LEMMA WidenedTyped ==
    ASSUME Based, NEW so \in Mems, NEW n \in Nat
    PROVE  Widened(so, n) \in Mems
<1> DEFINE level == Level(so, n)
           whole == [e \in level |-> LoadAll(so, e)]
<1>1. \A p \in level : p \in Dirs /\ so[p] # Absent
  BY LevelFacts
<1>2. \A p \in level : LoadAll(so, p) \in Mems
  BY <1>1, LoadsTyped DEF LoadAll
<1> HIDE DEF level
<1>3. \A p \in level : whole[p] \in Mems
  BY <1>2
<1> HIDE DEF whole
<1>4. ASSUME NEW e \in Dirs
      PROVE  (IF \E p \in level : IsBelow(p, e)
              THEN whole[CHOOSE p \in level : IsBelow(p, e)][e] ELSE so[e])
             \in DirStates \cup {Absent}
  <2>1. CASE \E p \in level : IsBelow(p, e)
    <3> DEFINE q == CHOOSE p \in level : IsBelow(p, e)
    <3>1. q \in level
      BY <2>1
    <3> HIDE DEF q
    <3>2. whole[q][e] \in DirStates \cup {Absent}
      BY <1>3, <3>1 DEF Mems
    <3> QED BY <2>1, <3>2 DEF q
  <2>2. CASE ~ \E p \in level : IsBelow(p, e)
    BY <2>2 DEF Mems
  <2> QED BY <2>1, <2>2
<1> QED BY <1>4 DEF Widened, Mems, level, whole

LEMMA WidenedIsLeveled ==
    ASSUME Based, NEW so \in Mems, NoSub, Closed(so), NEW n \in Nat
    PROVE  Leveled(so, Widened(so, n), Level(so, n))
<1> DEFINE level == Level(so, n)
           whole == [e \in level |-> LoadAll(so, e)]
           r == Widened(so, n)
<1>1. \A p \in level : p \in Dirs /\ so[p] # Absent
  BY LevelFacts
<1>2. \A e \in Dirs : r[e] = IF \E p \in level : IsBelow(p, e)
                            THEN whole[CHOOSE p \in level : IsBelow(p, e)][e] ELSE so[e]
  BY DEF Widened
<1>3. \A e \in Dirs, p \in level : IsBelow(p, e) => r[e] = LoadAll(so, p)[e]
  <2> SUFFICES ASSUME NEW e \in Dirs, NEW p \in level, IsBelow(p, e)
               PROVE  r[e] = LoadAll(so, p)[e]
    OBVIOUS
  <2> DEFINE q == CHOOSE x \in level : IsBelow(x, e)
  <2>1. q \in level /\ IsBelow(q, e)
    OBVIOUS
  <2>2. q = p
    BY <2>1, LevelFacts
  <2>3. r[e] = whole[q][e]
    BY <1>2
  <2> HIDE DEF q, r, level
  <2> QED BY <2>2, <2>3
<1>4. \A e \in Dirs : (~ \E p \in level : IsBelow(p, e)) => r[e] = so[e]
  BY <1>2
<1> HIDE DEF level, whole, r
<1>5. ASSUME NEW p \in level PROVE Completed(so, r, p)
  <2>1. Completed(so, LoadAll(so, p), p)
    BY <1>1, LoadAllCompletes
  <2>2. r[p] = LoadAll(so, p)[p]
    BY <1>1, <1>3, PathFacts
  <2> QED BY <2>1, <2>2 DEF Completed
<1>6. ASSUME NEW e \in Dirs \ level
      PROVE  r[e] = IF \E p \in level : ~ so[p].listed /\ e \in Children(p) /\ Visible(e)
                    THEN Blank ELSE so[e]
  <2>1. CASE \E p \in level : IsBelow(p, e)
    <3>1. PICK p \in level : IsBelow(p, e)
      BY <2>1
    <3>2. r[e] = IF ~ so[p].listed /\ e \in Children(p) /\ Visible(e) THEN Blank ELSE so[e]
      BY <1>1, <1>3, <1>6, <3>1, LoadAllCompletes
    <3>3. \A q \in level : e \in Children(q) => q = p
      <4> SUFFICES ASSUME NEW q \in level, e \in Children(q) PROVE q = p
        OBVIOUS
      <4>1. q \in Dirs /\ IsBelow(q, e)
        BY <1>1, ChildFacts
      <4> QED BY <3>1, <4>1, LevelFacts DEF level
    <3> QED BY <3>2, <3>3
  <2>2. CASE ~ \E p \in level : IsBelow(p, e)
    <3>1. \A p \in level : e \notin Children(p)
      BY <1>1, <2>2, ChildFacts
    <3> QED BY <1>4, <2>2, <3>1
  <2> QED BY <2>1, <2>2
<1> QED BY <1>5, <1>6 DEF Leveled, level, r

LEMMA WideningExists ==
    ASSUME Based, NEW m \in Mems
    PROVE  \E g : g = Widening(m, g)
<1> DEFINE N == Cardinality(Depth)
           step == [x \in (1..N) \X Mems |-> Widened(x[2], x[1])]
<1>1. N \in Nat
  BY DepthFacts
<1>2. step \in [(1..N) \X Mems -> Mems]
  BY WidenedTyped
<1> HIDE DEF step
<1>3. PICK g \in [0..N -> Mems] : g[0] = m /\ \A n \in 1..N : g[n] = step[<<n, g[n - 1]>>]
  <2> HIDE DEF N
  <2> QED BY <1>1, <1>2, StepsExist
<1>4. ASSUME NEW n \in 1..N PROVE g[n] = Widened(g[n - 1], n)
  <2>1. g[n - 1] \in Mems
    BY <1>1
  <2>2. <<n, g[n - 1]>> \in (1..N) \X Mems
    BY <2>1
  <2>3. step[<<n, g[n - 1]>>] = Widened(g[n - 1], n)
    BY <2>2 DEF step
  <2> QED BY <1>3, <2>3
<1>5. g = [n \in 0..N |-> IF n = 0 THEN m ELSE Widened(g[n - 1], n)]
  <2>1. \A n \in 0..N : n # 0 => n \in 1..N
    OBVIOUS
  <2> QED BY <1>3, <1>4, <2>1
<1> QED BY <1>5 DEF Widening

(* The levels from the root to this one have been loaded.                        *)
LoadedTo(m, so, n) ==
    /\ Typed(so) /\ Pieces(so) /\ Grown(m, so)
    /\ so[Root].tree = m[Root].tree
    /\ \A d \in Dirs : so[d] # Absent /\ Len(d) < n => so[d].loaded /\ so[d].listed

LEMMA WidenedLoads ==
    ASSUME Based, NEW m, NEW so, NEW n \in Nat \ {0}, LoadedTo(m, so, n - 1)
    PROVE  LoadedTo(m, Widened(so, n), n)
<1> DEFINE r == Widened(so, n)
           P == Level(so, n)
<1>1. so \in Mems /\ NoSub /\ Closed(so) /\ Typed(so) /\ Pieces(so)
  BY DEF LoadedTo, Typed, Mems, Pieces
<1>2. r \in Mems /\ Leveled(so, r, P)
  BY <1>1, WidenedTyped, WidenedIsLeveled
<1>3. P = {e \in Dirs : Len(e) = n - 1 /\ so[e] # Absent}
  BY <1>1, LevelFacts
<1>4. P \in SUBSET In(so)
  BY <1>3 DEF In
<1> HIDE DEF r, P
<1>5. Typed(r) /\ Pieces(r) /\ Grown(so, r) /\ r[Root].tree = so[Root].tree
  BY <1>1, <1>2, <1>4, LevelSpread
<1>6. Grown(m, r)
  BY <1>5, GrownTransitive DEF LoadedTo
<1>7. ASSUME NEW d \in Dirs, r[d] # Absent, Len(d) < n PROVE r[d].loaded /\ r[d].listed
  <2>0. Len(d) \in Nat
    BY PathFacts
  <2>1. CASE so[d] # Absent /\ Len(d) < n - 1
    BY <1>5, <2>1 DEF LoadedTo, Grown
  <2>2. CASE so[d] # Absent /\ Len(d) = n - 1
    BY <1>2, <1>3, <2>2 DEF Leveled, Completed
  <2>3. CASE so[d] = Absent
    <3>1. PICK p \in P : d \in Children(p)
      <4>1. d \notin P
        BY <1>3, <2>3
      <4> QED BY <1>2, <1>7, <2>3, <4>1 DEF Leveled
    <3>2. Len(d) = n
      BY <1>3, <3>1, ChildFacts
    <3> QED BY <1>7, <2>0, <3>2
  <2> QED BY <1>7, <2>0, <2>1, <2>2, <2>3
<1> QED BY <1>5, <1>6, <1>7 DEF LoadedTo, r

(* The last directory in memory on the way to one that is not.                    *)
LEMMA LastInMemory ==
    ASSUME NEW m, Typed(m), NEW d \in Dirs, m[d] = Absent
    PROVE  \E p \in Dirs : /\ m[p] # Absent
                           /\ \E c \in Children(p) : m[c] = Absent /\ IsBelow(c, d)
<1> DEFINE T == {n \in 0..Len(d) : m[SubSeq(d, 1, n)] = Absent}
<1>1. Len(d) \in Nat /\ Len(d) \in T
  <2>1. Len(d) \in Nat /\ SubSeq(d, 1, Len(d)) = d
    BY PathFacts
  <2>2. m[SubSeq(d, 1, Len(d))] = Absent
    BY <2>1
  <2>3. Len(d) \in 0..Len(d)
    BY <2>1
  <2> QED BY <2>1, <2>2, <2>3
<1>2. T \in SUBSET Nat
  OBVIOUS
<1>3. PICK n \in T : \A k \in T : n <= k
  <2> HIDE DEF T
  <2> QED BY <1>1, <1>2, LeastNumber
<1>4. n \in 0..Len(d) /\ m[SubSeq(d, 1, n)] = Absent /\ \A k \in 0..Len(d) : k < n => k \notin T
  BY <1>3
<1>5. n # 0
  <2>1. 0 \in 0..Len(d)
    BY <1>1
  <2>2. SubSeq(d, 1, 0) = Root
    BY <2>1, PathFacts
  <2> QED BY <1>4, <2>2 DEF Typed
<1> DEFINE p == SubSeq(d, 1, n - 1)
           c == SubSeq(d, 1, n)
<1>6. n - 1 \in 0..Len(d) /\ n - 1 < n
  BY <1>1, <1>4, <1>5
<1>7. m[p] # Absent
  BY <1>4, <1>6
<1>8. p \in Dirs /\ c \in Children(p) /\ IsBelow(c, d)
  <2>1. d \in Seq(STRING)
    BY PathFacts
  <2>2. p \in Dirs /\ c \in Dirs /\ Len(c) = n /\ c # Root
    BY <1>4, <1>5, <1>6, PathFacts
  <2>3. SubSeq(c, 1, Len(c) - 1) = p
    BY <1>1, <1>4, <1>5, <2>1, <2>2
  <2>4. Len(c) <= Len(d) /\ c = SubSeq(d, 1, Len(c))
    BY <1>1, <1>4, <2>2
  <2> HIDE DEF c, p
  <2>5. IsBelow(c, d)
    BY <2>2, <2>4, BelowIsPrefix
  <2> QED BY <2>2, <2>3, <2>5 DEF Children, Parent
<1>9. m[c] = Absent
  BY <1>4
<1> HIDE DEF p, c
<1> QED BY <1>7, <1>8, <1>9

(* What is not in memory when all of it is loaded has nothing in its file.         *)
LEMMA AbsentHoldsNothing ==
    ASSUME NEW m, Typed(m), Pieces(m), \A d \in Dirs : m[d] # Absent => m[d].listed,
           NEW d \in Dirs, m[d] = Absent
    PROVE  Content(disk[d].file) = Nothing
<1>1. PICK p \in Dirs : /\ m[p] # Absent
                       /\ \E c \in Children(p) : m[c] = Absent /\ IsBelow(c, d)
  BY LastInMemory
<1>2. PICK c \in Children(p) : m[c] = Absent /\ IsBelow(c, d)
  BY <1>1
<1>3. SpreadDir(m, p) /\ m[p].listed
  BY <1>1 DEF Pieces
<1>4. Bare(c)
  BY <1>2, <1>3 DEF SpreadDir
<1> QED BY <1>2, <1>4 DEF Bare

(* Memory is one tree, all of it loaded.                                         *)
Laden(m) ==
    /\ m[Root].tree
    /\ Closed(m)
    /\ \A d \in Dirs : m[d] # Absent => m[d].loaded /\ m[d].listed /\ (d # Root => ~ m[d].tree)
    /\ \A d \in Dirs : asked[d] = IF m[d] # Absent THEN Plain(m[d].entries) ELSE Nothing

LEMMA LoadBelowLoads ==
    ASSUME Based, NEW m, Typed(m), SpreadMem(m),
           NEW r, r = LoadBelow([m EXCEPT ![Root].tree = TRUE], Root)
    PROVE  Typed(r) /\ Laden(r) /\ Grown(m, r)
<1> DEFINE m0 == [m EXCEPT ![Root].tree = TRUE]
           N == Cardinality(Depth)
           at == CHOOSE g : g = Widening(m0, g)
           all == at[N]
<1>1. Root \in Dirs /\ m[Root] \in DirStates /\ N \in Nat
  BY TreeAssumption, DepthFacts DEF Typed
<1>2. /\ m0 \in Mems /\ m0[Root] \in DirStates /\ m0[Root].tree
      /\ m0[Root].entries = m[Root].entries /\ m0[Root].loaded = m[Root].loaded
      /\ m0[Root].listed = m[Root].listed
      /\ m0[Root].dirty = m[Root].dirty /\ m0[Root].below = m[Root].below
      /\ \A d \in Dirs \ {Root} : m0[d] = m[d]
  <2>1. m0[Root] = [m[Root] EXCEPT !.tree = TRUE] /\ \A d \in Dirs \ {Root} : m0[d] = m[d]
    BY <1>1 DEF Typed
  <2>2. m0 = [d \in Dirs |-> m0[d]]
    BY DEF Typed
  <2> HIDE DEF m0
  <2>3. m0[Root] \in DirStates
    BY <1>1, <2>1 DEF DirStates
  <2>4. m0 \in Mems
    BY <2>1, <2>2, <2>3 DEF Mems, Typed
  <2> QED BY <1>1, <2>1, <2>3, <2>4 DEF DirStates
<1> HIDE DEF m0
<1>3. Typed(m0) /\ Pieces(m0) /\ Grown(m, m0)
  <2>1. Typed(m0)
    BY <1>2, StateFacts DEF Typed, Mems
  <2>2. Grown(m, m0)
    BY <1>1, <1>2, <2>1 DEF Grown, Typed
  <2>3. \A d \in Dirs : m0[d] # Absent <=> m[d] # Absent
    BY <1>1, <1>2, <2>1 DEF Typed
  <2>4. Pieces(m)
    BY DEF SpreadMem
  <2>5. Closed(m0) /\ Reached(m0)
    BY <1>2, <2>3, <2>4 DEF Pieces, Closed, Reached, Above
  <2>6. ASSUME NEW d \in Dirs, m0[d] # Absent PROVE SpreadDir(m0, d)
    <3>1. m[d] # Absent /\ SpreadDir(m, d)
      BY <2>3, <2>4, <2>6 DEF Pieces
    <3>2. \A c \in Children(d) : m0[c] = Absent => m[c] = Absent
      BY <2>3, ChildFacts
    <3>3. CASE d = Root
      BY <1>2, <3>1, <3>2, <3>3 DEF SpreadDir
    <3>4. CASE d # Root
      BY <1>2, <3>1, <3>2, <3>4 DEF SpreadDir
    <3> QED BY <3>3, <3>4
  <2>7. ASSUME NEW d \in Dirs PROVE asked[d] = Held(m0, d)
    <3>1. asked[d] = Held(m, d)
      BY <2>4 DEF Pieces
    <3>2. Held(m0, d) = Held(m, d)
      <4>1. CASE d = Root
        BY <1>2, <2>3, <4>1 DEF Held
      <4>2. CASE d # Root
        BY <1>2, <4>2 DEF Held
      <4> QED BY <4>1, <4>2
    <3> QED BY <3>1, <3>2
  <2> QED BY <2>1, <2>2, <2>4, <2>5, <2>6, <2>7 DEF Pieces
<1>4. at = Widening(m0, at)
  BY <1>2, WideningExists
<1>5. r = [e \in Dirs |-> IF e \in Dirs \ {Root} /\ all[e] # Absent
                          THEN [all[e] EXCEPT !.inside = TRUE] ELSE all[e]]
  <2>1. r = LoadBelow(m0, Root)
    BY DEF m0
  <2>2. LoadBelow(m0, Root) =
           [e \in Dirs |-> IF e \in Below(Root) /\ all[e] # Absent
                           THEN [all[e] EXCEPT !.inside = TRUE] ELSE all[e]]
    BY LoadBelowIsWidening
  <2>3. Below(Root) = Dirs \ {Root}
    BY DepthFacts
  <2> HIDE DEF all
  <2> QED BY <2>1, <2>2, <2>3
<1> HIDE DEF at
<1>6. at[0] = m0 /\ \A n \in 1..N : at[n] = Widened(at[n - 1], n)
  <2>1. \A n \in 0..N : at[n] = IF n = 0 THEN m0 ELSE Widened(at[n - 1], n)
    BY <1>4 DEF Widening
  <2>2. 0 \in 0..N /\ \A n \in 1..N : n \in 0..N /\ n # 0
    BY <1>1
  <2> QED BY <2>1, <2>2
<1> DEFINE P == {n \in 0..N : LoadedTo(m0, at[n], n)}
<1>7. 0 \in P
  <2>1. \A d \in Dirs : ~ (Len(d) < 0)
    BY PathFacts
  <2>2. LoadedTo(m0, m0, 0)
    BY <1>3, <2>1, GrownReflexive DEF LoadedTo
  <2> QED BY <1>1, <1>6, <2>2
<1>8. ASSUME NEW n \in 1..N, n - 1 \in P PROVE n \in P
  <2>1. LoadedTo(m0, at[n - 1], n - 1) /\ n \in Nat \ {0} /\ n \in 0..N
    BY <1>8
  <2>2. LoadedTo(m0, at[n], n)
    BY <1>6, <2>1, WidenedLoads
  <2> QED BY <2>1, <2>2
<1>9. LoadedTo(m0, all, N)
  <2> HIDE DEF P, N
  <2>1. \A n \in 0..N : n \in P
    BY <1>1, <1>7, <1>8, AllSteps
  <2>2. N \in P
    BY <1>1, <2>1
  <2> QED BY <2>2 DEF P
<1> HIDE DEF all, P, N
<1>10. /\ Typed(all) /\ Pieces(all) /\ Grown(m0, all) /\ all[Root].tree
       /\ \A d \in Dirs : all[d] # Absent => all[d].loaded /\ all[d].listed
  BY <1>2, <1>9, DepthFacts DEF LoadedTo, N
<1>11. /\ \A d \in Dirs : all[d] = Absent => r[d] = Absent
       /\ \A d \in Dirs : all[d] # Absent =>
             /\ r[d] \in DirStates /\ r[d] # Absent
             /\ r[d].entries = all[d].entries
             /\ r[d].loaded = all[d].loaded /\ r[d].listed = all[d].listed
             /\ r[d].dirty = all[d].dirty /\ r[d].below = all[d].below
             /\ r[d].tree = all[d].tree
  <2>1. \A d \in Dirs : all[d] = Absent => r[d] = Absent
    BY <1>5
  <2>2. ASSUME NEW d \in Dirs, all[d] # Absent
        PROVE  /\ r[d] \in DirStates /\ r[d] # Absent
               /\ r[d].entries = all[d].entries
               /\ r[d].loaded = all[d].loaded /\ r[d].listed = all[d].listed
               /\ r[d].dirty = all[d].dirty /\ r[d].below = all[d].below
               /\ r[d].tree = all[d].tree
    <3>1. all[d] \in DirStates
      BY <1>10, <2>2, MemFacts
    <3>2. r[d] = [all[d] EXCEPT !.inside = TRUE] \/ r[d] = all[d]
      BY <1>5, <2>2
    <3>3. r[d] \in DirStates
      BY <3>1, <3>2 DEF DirStates
    <3>4. r[d] # Absent
      BY <3>3, StateFacts
    <3> QED BY <3>1, <3>2, <3>3, <3>4 DEF DirStates
  <2> QED BY <2>1, <2>2
<1>12. Typed(r)
  <2>1. r = [d \in Dirs |-> r[d]]
    BY <1>5
  <2> QED BY <1>1, <1>10, <1>11, <2>1 DEF Typed
<1>13. Closed(r)
  BY <1>10, <1>11 DEF Closed, Pieces, Above
<1>14. ASSUME NEW d \in Dirs PROVE asked[d] = IF r[d] # Absent THEN Plain(r[d].entries) ELSE Nothing
  <2>1. asked[d] = Held(all, d)
    BY <1>10 DEF Pieces
  <2>2. CASE all[d] # Absent
    BY <1>10, <1>11, <2>1, <2>2 DEF Held
  <2>3. CASE all[d] = Absent
    BY <1>10, <1>11, <2>1, <2>3, AbsentHoldsNothing DEF Held
  <2> QED BY <2>2, <2>3
<1>15. Grown(m, r)
  <2>1. Grown(all, r)
    <3>1. \A d \in Dirs : all[d] = Absent => r[d] = Absent
      BY <1>11
    <3> QED BY <1>11, <3>1 DEF Grown
  <2> QED BY <1>3, <1>10, <2>1, GrownTransitive
<1>16. \A d \in Dirs : r[d] # Absent => r[d].loaded /\ r[d].listed /\ (d # Root => ~ r[d].tree)
  BY <1>10, <1>11 DEF Pieces, SpreadDir
<1>17. r[Root].tree
  BY <1>1, <1>10, <1>11 DEF Typed
<1> QED BY <1>12, <1>13, <1>14, <1>15, <1>16, <1>17 DEF Laden

-----------------------------------------------------------------------------
(* A change of an entry                                                      *)

(* The entries of a directory are changed, and the way to it is marked.           *)
Marked(m, r, d, c) ==
    /\ r \in Mems
    /\ r[d] # Absent /\ r[d].entries = c /\ r[d].dirty
    /\ r[d].loaded = m[d].loaded /\ r[d].listed = m[d].listed /\ r[d].below = m[d].below
    /\ r[d].inside = m[d].inside /\ r[d].tree = m[d].tree
    /\ \A e \in Above(d) :
          /\ r[e] # Absent /\ r[e].below
          /\ m[e].dirty => r[e].dirty
          /\ ~ m[d].inside => r[e].dirty = m[e].dirty
          /\ r[e].entries = m[e].entries
          /\ r[e].loaded = m[e].loaded /\ r[e].listed = m[e].listed
          /\ r[e].inside = m[e].inside /\ r[e].tree = m[e].tree
    /\ \A e \in Dirs : ~ IsBelow(e, d) => r[e] = m[e]

LEMMA MarkedTwice ==
    ASSUME NEW m, NEW s, NEW r, NEW d \in Dirs, NEW b, NEW c,
           Marked(m, s, d, b), Marked(s, r, d, c)
    PROVE  Marked(m, r, d, c)
BY DEF Marked

LEMMA ChangeMarks ==
    ASSUME NEW m \in Mems, Closed(m), NEW d \in Dirs, m[d] # Absent, NEW c \in Contents,
           NEW r, r = QueueSync(NeedSave([m EXCEPT ![d].entries = c], d), d)
    PROVE  Marked(m, r, d, c)
<1> DEFINE s == [m EXCEPT ![d].entries = c]
           t == NeedSave(s, d)
<1>1. m[d] \in DirStates /\ \A e \in Above(d) : e \in Dirs /\ m[e] \in DirStates /\ e # d /\ IsBelow(e, d)
  BY DEF Mems, Closed, Above
<1>2. /\ s[d] \in DirStates /\ s[d].entries = c
      /\ s[d].loaded = m[d].loaded /\ s[d].listed = m[d].listed /\ s[d].below = m[d].below
      /\ s[d].inside = m[d].inside /\ s[d].tree = m[d].tree
      /\ \A e \in Dirs \ {d} : s[e] = m[e]
  <2>1. s[d] = [m[d] EXCEPT !.entries = c] /\ \A e \in Dirs \ {d} : s[e] = m[e]
    BY DEF Mems
  <2> HIDE DEF s
  <2>2. s[d] \in DirStates
    BY <1>1, <2>1 DEF DirStates
  <2> QED BY <1>1, <2>1, <2>2 DEF DirStates
<1> HIDE DEF s
<1>3. t[d] = [s[d] EXCEPT !.dirty = TRUE]
  <2>1. IsBelow(d, d)
    BY PathFacts
  <2>2. \A x \in Dirs : IsBelow(d, x) /\ IsBelow(x, d) /\ x # d => s[x].inside
    BY BelowOrder
  <2> QED BY <2>1, <2>2 DEF NeedSave
<1>4. \A e \in Dirs : ~ IsBelow(e, d) => t[e] = s[e]
  BY DEF NeedSave
<1>5. \A e \in Above(d) : \/ t[e] = s[e]
                          \/ t[e] = [s[e] EXCEPT !.dirty = TRUE] /\ m[d].inside
  <2> SUFFICES ASSUME NEW e \in Above(d)
               PROVE  \/ t[e] = s[e]
                      \/ t[e] = [s[e] EXCEPT !.dirty = TRUE] /\ m[d].inside
    OBVIOUS
  <2>1. IsBelow(e, d) /\ IsBelow(d, d) /\ e \in Dirs /\ e # d
    BY <1>1, PathFacts
  <2>2. CASE m[d].inside
    BY <2>1, <2>2 DEF NeedSave
  <2>3. CASE ~ m[d].inside
    <3>1. ~ \A x \in Dirs : IsBelow(e, x) /\ IsBelow(x, d) /\ x # e => s[x].inside
      BY <1>2, <2>1, <2>3
    <3> QED BY <2>1, <3>1 DEF NeedSave
  <2> QED BY <2>2, <2>3
<1> HIDE DEF t
<1>6. r = [e \in Dirs |-> IF e \in Above(d) THEN [t[e] EXCEPT !.below = TRUE] ELSE t[e]]
  BY DEF QueueSync, s, t
<1>7. r[d] = t[d]
  BY <1>6 DEF Above
<1>8. /\ r[d] \in DirStates /\ r[d].entries = c /\ r[d].dirty
      /\ r[d].loaded = m[d].loaded /\ r[d].listed = m[d].listed /\ r[d].below = m[d].below
      /\ r[d].inside = m[d].inside /\ r[d].tree = m[d].tree
  BY <1>2, <1>3, <1>7 DEF DirStates
<1>9. ASSUME NEW e \in Above(d)
      PROVE  /\ r[e] \in DirStates /\ r[e].below
             /\ m[e].dirty => r[e].dirty
             /\ ~ m[d].inside => r[e].dirty = m[e].dirty
             /\ r[e].entries = m[e].entries
             /\ r[e].loaded = m[e].loaded /\ r[e].listed = m[e].listed
             /\ r[e].inside = m[e].inside /\ r[e].tree = m[e].tree
  <2>1. s[e] = m[e] /\ m[e] \in DirStates /\ r[e] = [t[e] EXCEPT !.below = TRUE]
    BY <1>1, <1>2, <1>6
  <2>2. CASE t[e] = s[e]
    BY <2>1, <2>2 DEF DirStates
  <2>3. CASE t[e] = [s[e] EXCEPT !.dirty = TRUE] /\ m[d].inside
    <3>1. r[e] = [m[e] EXCEPT !.dirty = TRUE, !.below = TRUE]
      BY <2>1, <2>3 DEF DirStates
    <3> QED BY <2>1, <2>3, <3>1 DEF DirStates
  <2> QED BY <1>5, <2>2, <2>3
<1>10. \A e \in Dirs : ~ IsBelow(e, d) => r[e] = m[e]
  <2> SUFFICES ASSUME NEW e \in Dirs, ~ IsBelow(e, d) PROVE r[e] = m[e]
    OBVIOUS
  <2>1. e # d /\ e \notin Above(d)
    BY PathFacts DEF Above
  <2> QED BY <1>2, <1>4, <1>6, <2>1
<1>11. r \in Mems
  <2>1. \A e \in Dirs : r[e] \in DirStates \cup {Absent}
    <3> SUFFICES ASSUME NEW e \in Dirs PROVE r[e] \in DirStates \cup {Absent}
      OBVIOUS
    <3>1. e = d \/ e \in Above(d) \/ ~ IsBelow(e, d)
      BY DEF Above
    <3> QED BY <1>8, <1>9, <1>10, <3>1 DEF Mems
  <2>2. r = [e \in Dirs |-> r[e]]
    BY <1>6
  <2> QED BY <2>1, <2>2 DEF Mems
<1> QED BY <1>8, <1>9, <1>10, <1>11, StateFacts DEF Marked

LEMMA MarkedKeeps ==
    ASSUME Based, NEW m, Sound(m), NEW d \in Dirs, m[d] # Absent, m[d].loaded,
           NEW c \in Contents, NEW r, Marked(m, r, d, c),
           asked' = [asked EXCEPT ![d] = Plain(c)], UNCHANGED <<disk, faults>>
    PROVE  Typed(r) /\ MemSound(r)' /\ (SpreadMem(r)' => SpreadMem(m))
<1>1. ~ FreshMem(m)
  BY FreshRoot DEF FreshMem
<1>2. Closed(m) /\ (SpreadMem(m) \/ TreeMem(m))
  BY <1>1 DEF Sound, MemSound, SpreadMem, Pieces, TreeMem
<1>3. \A e \in Dirs : r[e] # Absent <=> m[e] # Absent
  <2> SUFFICES ASSUME NEW e \in Dirs PROVE r[e] # Absent <=> m[e] # Absent
    OBVIOUS
  <2>1. CASE ~ IsBelow(e, d)
    BY <2>1 DEF Marked
  <2>2. CASE IsBelow(e, d)
    BY <1>2, <2>2 DEF Marked, Closed, Above
  <2> QED BY <2>1, <2>2
<1>4. Typed(r)
  BY <1>3, TreeAssumption DEF Typed, Mems, Marked, Sound
<1>5. \A e \in Dirs : m[e] # Absent =>
         /\ r[e].loaded = m[e].loaded /\ r[e].listed = m[e].listed /\ r[e].tree = m[e].tree
         /\ r[e].inside = m[e].inside
         /\ e # d => r[e].entries = m[e].entries
  BY DEF Marked, Above
<1>6. Closed(r)
  BY <1>2, <1>3, <1>5 DEF Closed, Above
<1>7. r[Root].tree = m[Root].tree
  BY <1>5, TreeAssumption DEF Sound, Typed
<1>8. Closed(r)'
  BY <1>6 DEF Closed, Above
<1>9. asked'[d] = Plain(c) /\ \A e \in Dirs \ {d} : asked'[e] = asked[e]
  BY DEF Based
<1>10. ASSUME TreeMem(m) PROVE TreeMem(r)'
  <2>1. \A e \in Dirs : r[e] # Absent => r[e].loaded /\ r[e].listed /\ (e # Root => ~ r[e].tree)
    BY <1>3, <1>5, <1>10 DEF TreeMem
  <2>2. \A e \in Dirs : asked'[e] = IF r[e] # Absent THEN Plain(r[e].entries) ELSE Nothing
    <3> SUFFICES ASSUME NEW e \in Dirs
                 PROVE  asked'[e] = IF r[e] # Absent THEN Plain(r[e].entries) ELSE Nothing
      OBVIOUS
    <3>1. CASE e = d
      BY <1>9, <3>1 DEF Marked
    <3>2. CASE e # d
      <4>1. asked[e] = IF m[e] # Absent THEN Plain(m[e].entries) ELSE Nothing
        BY <1>10 DEF TreeMem
      <4> QED BY <1>3, <1>5, <1>9, <3>2, <4>1
    <3> QED BY <3>1, <3>2
  <2>3. NeedsSync(r, Root)
    <3>1. d = Root \/ Root \in Above(d)
      BY PathFacts DEF Above
    <3> QED BY <3>1 DEF Marked, NeedsSync
  <2>4. NoSub' => Quiet'
    BY <1>10 DEF TreeMem, NoSub, Quiet
  <2> QED BY <1>7, <1>8, <1>10, <2>1, <2>2, <2>3, <2>4 DEF TreeMem, NeedsSync
<1>11. ASSUME SpreadMem(m) PROVE SpreadMem(r)'
  <2>1. ~ r[Root].tree /\ NoSub' /\ Reached(r)'
    BY <1>3, <1>7, <1>11 DEF SpreadMem, Pieces, Reached, NoSub, Visible, Quiet
  <2>2. ASSUME NEW e \in Dirs, r[e] # Absent PROVE SpreadDir(r, e)'
    <3>1. m[e] # Absent /\ SpreadDir(m, e)
      BY <1>3, <1>11, <2>2 DEF SpreadMem, Pieces
    <3>2. \A x \in Children(e) : r[x] = Absent <=> m[x] = Absent
      BY <1>3, ChildFacts
    <3>3. SpreadDir(r, e)
      <4>1. CASE e = d
        BY <1>5, <3>1, <3>2, <4>1 DEF SpreadDir, Marked
      <4>2. CASE e \in Above(d)
        <5>1. ~ m[d].inside
          <6>1. d # Root
            BY <4>2, PathFacts DEF Above
          <6> QED BY <1>11, <6>1 DEF SpreadMem, Pieces, SpreadDir
        <5>2. r[e].dirty = m[e].dirty /\ r[e].entries = m[e].entries
          BY <4>2, <5>1 DEF Marked
        <5> QED BY <1>5, <3>1, <3>2, <5>2 DEF SpreadDir
      <4>3. CASE ~ IsBelow(e, d)
        <5>1. r[e] = m[e]
          BY <4>3 DEF Marked
        <5> QED BY <3>1, <3>2, <5>1 DEF SpreadDir
      <4> QED BY <4>1, <4>2, <4>3 DEF Above
    <3> QED BY <3>3 DEF SpreadDir, Visible, WayVisible, Bare, Children
  <2>3. ASSUME NEW e \in Dirs PROVE asked'[e] = Held(r, e)'
    <3>1. asked[e] = Held(m, e)
      BY <1>11 DEF SpreadMem, Pieces
    <3>2. Held(r, e)' = Held(r, e)
      BY DEF Held
    <3>3. CASE e = d
      BY <1>3, <1>5, <1>9, <3>2, <3>3 DEF Held, Marked
    <3>4. CASE e # d
      BY <1>3, <1>5, <1>9, <3>1, <3>2, <3>4 DEF Held
    <3> QED BY <3>3, <3>4
  <2> QED BY <1>8, <2>1, <2>2, <2>3 DEF SpreadMem, Pieces
<1>12. SpreadMem(r)' => SpreadMem(m)
  BY <1>2, <1>7 DEF SpreadMem, TreeMem
<1> QED BY <1>2, <1>4, <1>10, <1>11, <1>12 DEF MemSound

-----------------------------------------------------------------------------
(* Requests                                                                  *)

LEMMA InvFacts ==
    ASSUME MarkupInv
    PROVE  Based /\ Sound(mem) /\ Typed(mem)
BY DEF MarkupInv, TypeOK, Based, Sound, Typed

(* A request leaves the disk and no sync is running.                              *)
LEMMA IdleKeeps ==
    ASSUME MarkupInv, Idle, NEW r, Typed(r), mem' = r, MemSound(r)', SpreadMem(r)' => Led(r),
           asked' \in [Dirs -> Contents], merged' \in BOOLEAN, UNCHANGED <<disk, sync, faults>>
    PROVE  MarkupInv'
<1>1. TypeOK'
  BY DEF MarkupInv, TypeOK, Typed
<1>2. DiskSound'
  BY DEF MarkupInv, DiskSound, NoSub
<1>3. SyncSound' /\ Idle'
  BY DEF Idle, SyncSound, StackSound
<1>4. MemSound(mem)' /\ (SpreadMem(mem)' => Led(mem)')
  <2>1. MemSound(mem)' <=> MemSound(r)'
    BY DEF MemSound, SpreadMem, Pieces, Closed, Reached, SpreadDir, Held, TreeMem, FreshMem, NeedsSync
  <2>2. SpreadMem(mem)' <=> SpreadMem(r)'
    BY DEF SpreadMem, Pieces, Closed, Reached, SpreadDir, Held
  <2>3. Led(mem)' <=> Led(r)
    BY DEF Led, LedTo, NeedsSync, Above
  <2> QED BY <2>1, <2>2, <2>3
<1> QED BY <1>1, <1>2, <1>3, <1>4 DEF MarkupInv

LEMMA Entered ==
    ASSUME Based, NEW m, Sound(m), NEW d \in Dirs, NEW l, l = LoadEntries(Walk(m, d, TRUE), d)
    PROVE  /\ Sound(l) /\ GrownTo(m, l, d) /\ l[d] # Absent /\ l[d].loaded
           /\ SpreadMem(l) => SpreadMem(m)
           /\ (\E k \in Keys : l[d].entries[k] # NoEntry) => Grown(m, l)
<1> DEFINE w == Walk(m, d, TRUE)
<1>1. Reaches(m, w, d, TRUE)
  BY WalkReaches
<1> HIDE DEF w
<1>2. l = LoadEntries(w, d)
  BY DEF w
<1>3. Sound(w) /\ w[d] # Absent /\ GrownTo(m, w, d) /\ (TreeMem(m) => TreeMem(w))
      /\ (Grown(m, w) \/ w[d] = Made)
  BY <1>1 DEF Reaches
<1>4. Sound(l) /\ Grown(w, l) /\ l[d] # Absent /\ l[d].loaded /\ (TreeMem(w) => l = w)
  BY <1>2, <1>3, LoadEntriesKeeps
<1>5. GrownTo(m, l, d)
  BY <1>3, <1>4 DEF GrownTo, Grown, NeedsSync
<1>6. SpreadMem(l) => SpreadMem(m)
  BY <1>3, <1>4 DEF Sound, MemSound, SpreadMem, Pieces, TreeMem, FreshMem
<1>7. ASSUME NEW k \in Keys, l[d].entries[k] # NoEntry PROVE Grown(m, l)
  <2>1. Grown(m, w)
    <3> SUFFICES ASSUME w[d] = Made PROVE FALSE
      BY <1>3
    <3>1. l[d].entries = Nothing
      BY <1>3, <1>4, MadeFacts DEF Grown
    <3> QED BY <1>7, <3>1 DEF Nothing
  <2> QED BY <1>4, <2>1, GrownTransitive
<1> QED BY <1>4, <1>5, <1>6, <1>7

LEMMA ChangeKeeps ==
    ASSUME MarkupInv, Idle, NEW d \in Dirs, NEW l, l = LoadEntries(Walk(mem, d, TRUE), d),
           NEW c \in Contents, NEW r, Marked(l, r, d, c), Becomes(r, d)
    PROVE  MarkupInv'
<1>1. Based /\ Sound(mem)
  BY InvFacts
<1>2. Sound(l) /\ GrownTo(mem, l, d) /\ l[d] # Absent /\ l[d].loaded /\ (SpreadMem(l) => SpreadMem(mem))
  BY <1>1, Entered
<1>3. asked' = [asked EXCEPT ![d] = Plain(c)] /\ mem' = r /\ UNCHANGED <<merged, disk, sync, faults>>
  BY DEF Becomes, Marked
<1>4. Typed(r) /\ MemSound(r)' /\ (SpreadMem(r)' => SpreadMem(l))
  BY <1>1, <1>2, <1>3, MarkedKeeps
<1>5. asked' \in [Dirs -> Contents]
  BY <1>1, <1>3, EntryFacts DEF Based
<1>6. ASSUME SpreadMem(r)' PROVE Led(r)
  <2>1. Led(mem) /\ Closed(mem)
    BY <1>2, <1>4, <1>6 DEF MarkupInv, SpreadMem, Pieces
  <2> SUFFICES ASSUME NEW e \in Dirs, r[e] # Absent, NeedsSync(r, e), NEW x \in Above(e)
               PROVE  r[x].below
    BY DEF Led, LedTo
  <2>2. x \in Dirs /\ IsBelow(x, e) /\ x # e
    BY DEF Above
  <2>3. CASE IsBelow(e, d)
    <3>1. x \in Above(d)
      BY <2>2, <2>3, BelowOrder DEF Above
    <3> QED BY <3>1 DEF Marked
  <2>4. CASE ~ IsBelow(e, d)
    <3>1. r[e] = l[e] /\ NeedsSync(l, e)
      BY <2>4 DEF Marked, NeedsSync
    <3>2. mem[e] # Absent /\ NeedsSync(mem, e)
      BY <1>2, <2>4, <3>1 DEF GrownTo, NeedsSync
    <3>3. mem[x] # Absent /\ mem[x].below
      BY <2>1, <3>2 DEF Closed, Led, LedTo
    <3>4. l[x].below
      BY <1>2, <2>2, <3>3 DEF GrownTo
    <3>5. CASE x \in Above(d)
      BY <3>5 DEF Marked
    <3>6. CASE x = d
      BY <3>4, <3>6 DEF Marked
    <3>7. CASE ~ IsBelow(x, d)
      BY <2>2, <3>4, <3>7 DEF Marked
    <3> QED BY <2>2, <3>5, <3>6, <3>7 DEF Above
  <2> QED BY <2>3, <2>4
<1>7. merged' \in BOOLEAN
  BY <1>3 DEF MarkupInv, TypeOK
<1> QED BY <1>3, <1>4, <1>5, <1>6, <1>7, IdleKeeps

(* markup_dir_ensure_entry()                                                    *)
LEMMA EntryMarks ==
    ASSUME MarkupInv, NEW d \in Dirs, NEW k \in Keys,
           NEW l, l = LoadEntries(Walk(mem, d, TRUE), d), NEW m, m = Entry(d, k)
    PROVE  /\ m \in Mems /\ Closed(m) /\ m[d] # Absent
           /\ m[d].entries \in Contents /\ m[d].entries[k] \in Entries
           /\ (m = l /\ Grown(mem, l) /\ Sound(l) /\ l[d].loaded)
              \/ \E c \in Contents : Marked(l, m, d, c)
<1>1. Based /\ Sound(mem)
  BY InvFacts
<1>2. /\ Sound(l) /\ l[d] # Absent /\ l[d].loaded
      /\ (\E x \in Keys : l[d].entries[x] # NoEntry) => Grown(mem, l)
  BY <1>1, Entered
<1>3. l \in Mems /\ Closed(l) /\ l[d].entries \in Contents
  <2>1. ~ FreshMem(l)
    BY <1>1, <1>2, FreshRoot DEF FreshMem
  <2> QED BY <1>2, <2>1, MemFacts DEF Sound, Typed, Mems, MemSound, SpreadMem, Pieces, TreeMem
<1>4. m = Ensured(l, d, k)
  BY DEF Entry
<1>5. CASE l[d].entries[k] # NoEntry
  <2>1. m = l
    BY <1>4, <1>5 DEF Ensured
  <2>2. l[d].entries[k] \in Entries
    BY <1>3, <1>5 DEF Contents
  <2> QED BY <1>2, <1>3, <1>5, <2>1, <2>2
<1>6. CASE l[d].entries[k] = NoEntry
  <2> DEFINE c == [l[d].entries EXCEPT ![k] = Useless]
  <2>1. c \in Contents /\ c[k] = Useless /\ Useless \in Entries
    BY <1>3, EntryFacts DEF Contents
  <2>2. [l EXCEPT ![d].entries[k] = Useless] = [l EXCEPT ![d].entries = c]
    OBVIOUS
  <2> HIDE DEF c
  <2>3. m = QueueSync(NeedSave([l EXCEPT ![d].entries = c], d), d)
    BY <1>4, <1>6, <2>2 DEF Ensured
  <2>4. Marked(l, m, d, c)
    BY <1>2, <1>3, <2>1, <2>3, ChangeMarks
  <2>5. Closed(m)
    <3> SUFFICES ASSUME NEW e \in Dirs, m[e] # Absent, NEW x \in Above(e)
                 PROVE  m[x] # Absent /\ m[x].listed
      BY DEF Closed
    <3>1. x \in Dirs /\ IsBelow(x, e) /\ x # e
      BY DEF Above
    <3>2. l[e] # Absent
      <4>1. CASE IsBelow(e, d)
        BY <1>2, <1>3, <4>1 DEF Closed, Above
      <4>2. CASE ~ IsBelow(e, d)
        BY <2>4, <4>2 DEF Marked
      <4> QED BY <4>1, <4>2
    <3>3. l[x] # Absent /\ l[x].listed
      BY <1>3, <3>2 DEF Closed
    <3>4. x = d \/ x \in Above(d) \/ ~ IsBelow(x, d)
      BY <3>1 DEF Above
    <3> QED BY <2>4, <3>1, <3>3, <3>4 DEF Marked
  <2> QED BY <2>1, <2>4, <2>5 DEF Marked
<1> QED BY <1>5, <1>6

LEMMA ChangedMarks ==
    ASSUME MarkupInv, Idle, NEW d \in Dirs, NEW k \in Keys, NEW m, m = Entry(d, k),
           NEW e \in Entries, NEW r, r = Changed(m, d, k, e), Becomes(r, d)
    PROVE  MarkupInv'
<1> DEFINE l == LoadEntries(Walk(mem, d, TRUE), d)
           c == [m[d].entries EXCEPT ![k] = e]
<1>1. /\ m \in Mems /\ Closed(m) /\ m[d] # Absent /\ m[d].entries \in Contents
      /\ m = l \/ \E b \in Contents : Marked(l, m, d, b)
  BY EntryMarks
<1>2. c \in Contents
  BY <1>1 DEF Contents
<1>3. [m EXCEPT ![d].entries[k] = e] = [m EXCEPT ![d].entries = c]
  OBVIOUS
<1> HIDE DEF c
<1>4. Marked(m, r, d, c)
  BY <1>1, <1>2, <1>3, ChangeMarks DEF Changed
<1> HIDE DEF l
<1>5. Marked(l, r, d, c)
  BY <1>1, <1>4, MarkedTwice
<1> QED BY <1>2, <1>5, ChangeKeeps DEF l

LEMMA SameMem ==
    ASSUME NEW r, UNCHANGED <<disk, asked, faults>>
    PROVE  (MemSound(r)' <=> MemSound(r)) /\ (SpreadMem(r)' <=> SpreadMem(r))
<1>1. SpreadMem(r)' <=> SpreadMem(r)
  <2>1. NoSub' = NoSub /\ Quiet' = Quiet
    BY DEF NoSub, Quiet
  <2>2. Closed(r)' <=> Closed(r)
    BY DEF Closed, Above
  <2>3. Reached(r)' <=> Reached(r)
    BY <2>1 DEF Reached, Visible
  <2>4. \A d \in Dirs : SpreadDir(r, d)' <=> SpreadDir(r, d)
    BY DEF SpreadDir, Visible, WayVisible, Bare, Children
  <2>5. \A d \in Dirs : Held(r, d)' = Held(r, d)
    BY DEF Held
  <2> QED BY <2>1, <2>2, <2>3, <2>4, <2>5 DEF SpreadMem, Pieces
<1>2. TreeMem(r)' <=> TreeMem(r)
  BY DEF TreeMem, Closed, Above, NoSub, Quiet, NeedsSync, SubContent
<1>3. FreshMem(r)' <=> FreshMem(r)
  BY DEF FreshMem, NoSub, SubContent, Fresh
<1> QED BY <1>1, <1>2, <1>3 DEF MemSound

LEMMA GrownKeeps ==
    ASSUME MarkupInv, Idle, NEW r, Sound(r), Grown(mem, r), mem' = r,
           SpreadMem(r) => SpreadMem(mem), UNCHANGED <<merged, asked, disk, sync, faults>>
    PROVE  MarkupInv'
<1>1. Typed(r) /\ MemSound(r)' /\ (SpreadMem(r)' <=> SpreadMem(r))
  BY SameMem DEF Sound
<1>2. SpreadMem(r)' => Led(r)
  BY <1>1, GrownLed DEF MarkupInv, SpreadMem, Pieces
<1>3. asked' \in [Dirs -> Contents] /\ merged' \in BOOLEAN
  BY DEF MarkupInv, TypeOK
<1> QED BY <1>1, <1>2, <1>3, IdleKeeps

LEMMA UnsetKeeps ==
    ASSUME MarkupInv, NEW d \in Dirs, NEW k \in Keys, UnsetValue(d, k)
    PROVE  MarkupInv'
<1> DEFINE l == LoadEntries(Walk(mem, d, TRUE), d)
           m == Entry(d, k)
           e == m[d].entries[k]
           r == IF e.value = None THEN m ELSE Changed(m, d, k, [e EXCEPT !.value = None])
<1>1. Idle /\ Becomes(r, d)
  BY DEF UnsetValue, Becomes
<1>2. /\ m[d].entries[k] \in Entries
      /\ (m = l /\ Grown(mem, l) /\ Sound(l) /\ l[d] # Absent /\ l[d].loaded)
         \/ \E c \in Contents : Marked(l, m, d, c)
  BY EntryMarks
<1>3. CASE e.value # None
  <2>1. [e EXCEPT !.value = None] \in Entries
    BY <1>2 DEF Entries
  <2>2. Becomes(Changed(m, d, k, [e EXCEPT !.value = None]), d)
    BY <1>1, <1>3
  <2> HIDE DEF m, l
  <2>3. m = Entry(d, k)
    BY DEF m
  <2> QED BY <1>1, <2>1, <2>2, <2>3, ChangedMarks
<1>4. CASE e.value = None
  <2> HIDE DEF m, l
  <2>1. Becomes(m, d)
    BY <1>1, <1>4
  <2>2. ASSUME NEW c \in Contents, Marked(l, m, d, c) PROVE MarkupInv'
    BY <1>1, <2>1, <2>2, ChangeKeeps DEF l
  <2>3. ASSUME m = l, Grown(mem, l), Sound(l), l[d] # Absent, l[d].loaded PROVE MarkupInv'
    <3>1. Based
      BY InvFacts
    <3>2. ~ FreshMem(l)
      BY <2>3, <3>1, FreshRoot DEF FreshMem
    <3>3. asked[d] = Plain(l[d].entries)
      BY <2>3, <3>2 DEF Sound, MemSound, SpreadMem, Pieces, TreeMem, Held
    <3>4. mem' = l /\ asked' = asked /\ UNCHANGED <<merged, disk, sync, faults>>
      BY <2>1, <2>3, <3>1, <3>3 DEF Becomes, Based
    <3>5. SpreadMem(l) => SpreadMem(mem)
      BY InvFacts, Entered DEF l
    <3> QED BY <1>1, <2>3, <3>4, <3>5, GrownKeeps
  <2> QED BY <1>2, <2>2, <2>3
<1> QED BY <1>3, <1>4

LEMMA SetKeeps ==
    ASSUME MarkupInv, NEW d \in Dirs, NEW k \in Keys
    PROVE  /\ \A v \in Values : SetValue(d, k, v) => MarkupInv'
           /\ \A s \in Schemas \cup {None} : SetSchema(d, k, s) => MarkupInv'
<1> DEFINE m == Entry(d, k)
<1>1. m[d].entries[k] \in Entries
  BY EntryMarks
<1>2. ASSUME NEW v \in Values, SetValue(d, k, v) PROVE MarkupInv'
  <2> DEFINE e == [m[d].entries[k] EXCEPT !.value = v]
  <2>1. Becomes(Changed(m, d, k, e), d) /\ Idle
    BY <1>2 DEF SetValue, Becomes
  <2>2. e \in Entries
    BY <1>1 DEF Entries
  <2> HIDE DEF e
  <2> QED BY <2>1, <2>2, ChangedMarks
<1>3. ASSUME NEW s \in Schemas \cup {None}, SetSchema(d, k, s) PROVE MarkupInv'
  <2> DEFINE e == [m[d].entries[k] EXCEPT !.schema = s]
  <2>1. Becomes(Changed(m, d, k, e), d) /\ Idle
    BY <1>3 DEF SetSchema, Becomes
  <2>2. e \in Entries
    BY <1>1 DEF Entries
  <2> HIDE DEF e
  <2> QED BY <2>1, <2>2, ChangedMarks
<1> QED BY <1>2, <1>3

(* What a reading request does to memory.                                       *)
LEMMA ReadGrows ==
    ASSUME MarkupInv, NEW d \in Dirs, NEW what, Read(d, what)
    PROVE  /\ Sound(mem') /\ Grown(mem, mem')
           /\ SpreadMem(mem') => SpreadMem(mem)
<1> DEFINE m == Walk(mem, d, FALSE)
<1>1. Based /\ Sound(mem)
  BY InvFacts
<1>2. Reaches(mem, m, d, FALSE)
  BY <1>1, WalkReaches
<1> HIDE DEF m
<1>3. Sound(m) /\ Grown(mem, m) /\ (TreeMem(mem) => TreeMem(m))
  BY <1>2 DEF Reaches
<1>4. \/ mem' = m
      \/ m[d] # Absent /\ mem' = LoadEntries(m, d)
      \/ m[d] # Absent /\ mem' = LoadSubdirs(m, d)
  BY DEF Read, m
<1>5. Sound(mem') /\ Grown(m, mem') /\ (TreeMem(m) => mem' = m)
  BY <1>1, <1>3, <1>4, GrownReflexive, LoadEntriesKeeps, LoadSubdirsKeeps
<1>6. Grown(mem, mem')
  BY <1>3, <1>5, GrownTransitive
<1>7. SpreadMem(mem') => SpreadMem(mem)
  BY <1>1, <1>3, <1>5 DEF Sound, MemSound, SpreadMem, Pieces, TreeMem, FreshMem
<1> QED BY <1>5, <1>6, <1>7

LEMMA ReadKeeps ==
    ASSUME MarkupInv, NEW d \in Dirs, NEW what, Read(d, what)
    PROVE  MarkupInv'
<1>1. Idle /\ UNCHANGED <<merged, asked, disk, sync, faults>>
  BY DEF Read
<1> DEFINE r == mem'
<1>2. Sound(r) /\ Grown(mem, r) /\ (SpreadMem(r) => SpreadMem(mem))
  BY ReadGrows
<1> HIDE DEF r
<1>3. mem' = r
  BY DEF r
<1> QED BY <1>1, <1>2, <1>3, GrownKeeps

(* A process that starts, with a folder for each directory.                        *)
LEMMA FreshSpreads ==
    ASSUME Based, NoSub, UNCHANGED disk,
           \A d \in Dirs : Content(disk[d].file) # Nothing => WayVisible(d),
           \A d \in Dirs : asked'[d] = Content(disk[d].file)
    PROVE  SpreadMem(Fresh)'
<1>1. /\ ~ Blank.loaded /\ ~ Blank.listed /\ ~ Blank.dirty /\ ~ Blank.below
      /\ ~ Blank.inside /\ ~ Blank.tree
  BY DEF Blank
<1>2. /\ Root \in Dirs /\ Fresh[Root] = Blank /\ Blank # Absent
      /\ \A d \in Dirs \ {Root} : Fresh[d] = Absent
  BY StateFacts, TreeAssumption
<1> DEFINE m == Fresh
<1> HIDE DEF m
<1>3. m[Root] = Blank /\ \A d \in Dirs \ {Root} : m[d] = Absent
  BY <1>2 DEF m
<1>4. ~ m[Root].tree /\ NoSub'
  BY <1>1, <1>3 DEF NoSub
<1>5. Closed(m)
  BY <1>3, PathFacts DEF Closed, Above
<1>6. Reached(m)'
  BY DEF Reached, WayVisible, Visible
<1>7. ASSUME NEW d \in Dirs, m[d] # Absent PROVE SpreadDir(m, d)'
  <2>1. d = Root /\ m[d] = Blank
    BY <1>3, <1>7
  <2>2. WayVisible(Root)'
    BY PathFacts DEF WayVisible
  <2> QED BY <1>1, <2>1, <2>2 DEF SpreadDir
<1>8. ASSUME NEW d \in Dirs PROVE asked'[d] = Held(m, d)'
  BY <1>1, <1>3 DEF Held
<1>9. SpreadMem(m)'
  BY <1>4, <1>5, <1>6, <1>7, <1>8 DEF SpreadMem, Pieces, Closed, Above
<1> QED BY <1>9 DEF m

LEMMA FreshLed == Led(Fresh)
BY StateFacts, PathFacts DEF Led, LedTo, Above

(* When nothing needs to be saved.                                              *)
LEMMA CleanFacts ==
    ASSUME MarkupInv, ~ NeedsSync(mem, Root), SpreadMem(mem)
    PROVE  /\ \A d \in Dirs : asked[d] = Content(disk[d].file)
           /\ \A d \in Dirs : Content(disk[d].file) # Nothing => WayVisible(d)
<1>1. Led(mem) /\ Pieces(mem) /\ Based
  BY InvFacts DEF MarkupInv, SpreadMem
<1>2. ASSUME NEW d \in Dirs, mem[d] # Absent PROVE ~ NeedsSync(mem, d) /\ SpreadDir(mem, d)
  <2>1. d = Root \/ Root \in Above(d)
    BY PathFacts DEF Above
  <2> QED BY <1>1, <1>2, <2>1 DEF Led, LedTo, NeedsSync, Pieces
<1>3. ASSUME NEW d \in Dirs PROVE asked[d] = Content(disk[d].file)
  <2>1. asked[d] = Held(mem, d)
    BY <1>1 DEF Pieces
  <2>2. Plain(Content(disk[d].file)) = Content(disk[d].file)
    BY <1>1 DEF Based, DiskSound
  <2> QED BY <1>2, <2>1, <2>2 DEF Held, SpreadDir, NeedsSync
<1>4. ASSUME NEW d \in Dirs, Content(disk[d].file) # Nothing PROVE WayVisible(d)
  <2> SUFFICES ASSUME NEW e \in Dirs \ {Root}, IsBelow(e, d) PROVE Visible(e)
    BY DEF WayVisible
  <2>1. Visible(e) \/ mem[e] # Absent
    BY <1>1, <1>4 DEF Pieces, Reached
  <2> QED BY <1>2, <2>1 DEF SpreadDir, NeedsSync
<1> QED BY <1>3, <1>4

LEMMA ClearKeeps ==
    ASSUME MarkupInv, ClearCache
    PROVE  MarkupInv'
<1>1. Idle /\ ~ NeedsSync(mem, Root) /\ mem' = Fresh /\ UNCHANGED <<merged, disk, sync, faults, asked>>
  BY DEF ClearCache
<1>2. Based /\ Sound(mem)
  BY InvFacts
<1>3. MemSound(Fresh)'
  <2>1. CASE SpreadMem(mem)
    <3>1. NoSub
      BY <2>1 DEF SpreadMem, Pieces
    <3>2. \A d \in Dirs : asked'[d] = Content(disk[d].file)
      BY <1>1, <2>1, CleanFacts
    <3>3. \A d \in Dirs : Content(disk[d].file) # Nothing => WayVisible(d)
      BY <1>1, <2>1, CleanFacts
    <3> QED BY <1>1, <1>2, <3>1, <3>2, <3>3, FreshSpreads DEF MemSound
  <2>2. CASE TreeMem(mem) \/ FreshMem(mem)
    <3>1. ~ NoSub /\ \A d \in Dirs : asked[d] = SubContent(d)
      BY <1>1, <2>2 DEF TreeMem, FreshMem
    <3>2. FreshMem(Fresh)'
      BY <1>1, <3>1 DEF FreshMem, NoSub, SubContent, Fresh
    <3> QED BY <3>2 DEF MemSound
  <2> QED BY <1>2, <2>1, <2>2 DEF Sound, MemSound
<1>4. Typed(Fresh)
  BY StateFacts DEF Typed
<1>5. asked' \in [Dirs -> Contents] /\ merged' \in BOOLEAN
  BY <1>1 DEF MarkupInv, TypeOK
<1> DEFINE r == Fresh
<1> HIDE DEF r
<1>6. Typed(r) /\ MemSound(r)' /\ mem' = r /\ Led(r)
  BY <1>1, <1>3, <1>4, FreshLed DEF r
<1> QED BY <1>1, <1>5, <1>6, IdleKeeps

LEMMA MergeKeeps ==
    ASSUME MarkupInv, Merge
    PROVE  MarkupInv'
<1>1. Idle /\ merged' = TRUE /\ UNCHANGED <<mem, disk, sync, faults, asked>>
  BY DEF Merge
<1>2. PICK r : r = mem
  OBVIOUS
<1>3. Typed(r) /\ mem' = r /\ MemSound(r)' /\ (SpreadMem(r)' => Led(r))
  <2>1. Typed(r) /\ mem' = r /\ MemSound(r) /\ (SpreadMem(r) => Led(r))
    BY <1>1, <1>2, InvFacts DEF MarkupInv
  <2> QED BY <1>1, <2>1, SameMem
<1>4. asked' \in [Dirs -> Contents]
  BY <1>1 DEF MarkupInv, TypeOK
<1>5. merged' \in BOOLEAN
  BY <1>1
<1> QED BY <1>1, <1>3, <1>4, <1>5, IdleKeeps

LEMMA SyncAllKeeps ==
    ASSUME MarkupInv, SyncAll
    PROVE  MarkupInv'
<1>1. /\ Idle /\ NeedsSync(mem, Root) /\ sync' = <<Frame(Root)>>
      /\ UNCHANGED <<mem, merged, disk, faults, asked>>
  BY DEF SyncAll
<1>2. Based /\ Sound(mem) /\ Root \in Dirs /\ mem[Root] # Absent
  BY InvFacts, TreeAssumption DEF Typed
<1>3. /\ Frame(Root) \in Frames
      /\ Frame(Root).dir = Root /\ Frame(Root).step = "save" /\ Frame(Root).failed = FALSE
      /\ Frame(Root).seen = {}
  BY <1>2 DEF Frame, Frames
<1>4. TypeOK'
  BY <1>1, <1>3 DEF MarkupInv, TypeOK
<1>5. DiskSound'
  BY <1>1 DEF MarkupInv, DiskSound, NoSub
<1>6. ~ FreshMem(mem)
  <2>1. ~ Blank.dirty /\ ~ Blank.below
    BY DEF Blank
  <2> QED BY <1>1, <2>1, StateFacts DEF FreshMem, NeedsSync
<1>7. MemSound(mem)' /\ (SpreadMem(mem)' => Led(mem)') /\ ~ FreshMem(mem)'
  <2>1. (MemSound(mem)' <=> MemSound(mem)) /\ (SpreadMem(mem)' <=> SpreadMem(mem))
    BY <1>1 DEF MemSound, SpreadMem, Pieces, Closed, Reached, SpreadDir, Held, TreeMem, FreshMem,
                NeedsSync, NoSub, Quiet, Visible, WayVisible, Bare, SubContent
  <2>2. Led(mem)' <=> Led(mem)
    BY <1>1 DEF Led, LedTo, NeedsSync
  <2>3. ~ FreshMem(mem)'
    BY <1>1, <1>6 DEF FreshMem, NoSub, SubContent
  <2> QED BY <1>2, <2>1, <2>2, <2>3 DEF MarkupInv, Sound
<1>8. Len(sync') = 1 /\ sync'[1] = Frame(Root) /\ Head(sync') = Frame(Root)
  BY <1>1
<1>9. SyncSound'
  <2>1. Top' = Frame(Root)
    BY <1>8 DEF Top
  <2>2. SubSeq(Root, 1, 0) = Root /\ Len(Root) = 0
    <3>1. 0 \in 0..Len(Root)
      BY PathFacts, <1>2
    <3> QED BY <1>2, <3>1, PathFacts
  <2>3. ~ mem[Root].tree => NoSub
    BY <1>2, <1>6 DEF Sound, MemSound, SpreadMem, Pieces, TreeMem
  <2>4. StackSound'
    <3>1. \A i \in 1..Len(sync') : i = 1
      BY <1>8
    <3>2. \A i \in 2..Len(sync') : FALSE
      BY <1>8
    <3>3. \A i \in 1..Len(sync') : sync'[i].dir = SubSeq(Top'.dir, 1, Len(sync') - i)
      <4>1. SubSeq(Top'.dir, 1, 0) = Root /\ sync'[1].dir = Root
        BY <1>3, <1>8, <2>1, <2>2
      <4>2. Len(sync') - 1 = 0
        BY <1>8
      <4> QED BY <3>1, <4>1, <4>2
    <3> QED BY <1>1, <1>2, <1>3, <1>8, <2>1, <2>2, <2>3, <3>2, <3>3 DEF StackSound, NoSub
  <2>5. \A i \in 1..Len(sync') : FrameSound(i)'
    <3>1. \A i \in 1..Len(sync') : i = 1
      BY <1>8
    <3>2. FrameSound(1)'
      BY <1>1, <1>3, <1>8 DEF FrameSound, NeedsSync
    <3> QED BY <3>1, <3>2
  <2> QED BY <2>4, <2>5 DEF SyncSound
<1> QED BY <1>4, <1>5, <1>7, <1>9 DEF MarkupInv

LEMMA RequestKeeps ==
    ASSUME MarkupInv, Request
    PROVE  MarkupInv'
<1>1. ASSUME NEW d \in Dirs, NEW k \in Keys, UnsetValue(d, k) PROVE MarkupInv'
  BY <1>1, UnsetKeeps
<1>2. ASSUME NEW d \in Dirs, NEW k \in Keys, NEW v \in Values, SetValue(d, k, v) PROVE MarkupInv'
  BY <1>2, SetKeeps
<1>3. ASSUME NEW d \in Dirs, NEW k \in Keys, NEW s \in Schemas \cup {None}, SetSchema(d, k, s)
      PROVE  MarkupInv'
  BY <1>3, SetKeeps
<1>4. ASSUME NEW d \in Dirs, NEW what \in {"entries", "subdirs", "exists"}, Read(d, what)
      PROVE  MarkupInv'
  BY <1>4, ReadKeeps
<1> QED BY <1>1, <1>2, <1>3, <1>4, MergeKeeps, SyncAllKeeps, ClearKeeps DEF Request

-----------------------------------------------------------------------------
(* What a start would find, and what is read                                    *)

LEMMA OnDiskFacts ==
    ASSUME Based, NEW d \in Dirs
    PROVE  /\ OnDisk(d) = IF NoSub THEN IF WayVisible(d) THEN Content(disk[d].file) ELSE Nothing
                          ELSE SubContent(d)
           /\ InFile(d) = IF NoSub THEN Content(disk[d].file) ELSE SubContent(d)
<1> DEFINE roots == {e \in Dirs : disk[e].sub # NoFile /\ IsBelow(e, d)}
<1>1. \A e \in Dirs \ {Root} : disk[e].sub = NoFile
  BY DEF Based, DiskSound
<1>2. CASE NoSub
  <2>1. \A e \in Dirs : disk[e].sub = NoFile
    BY <1>1, <1>2 DEF NoSub
  <2>2. roots = {}
    BY <2>1
  <2>3. FileOf(d) = d
    BY <2>2 DEF FileOf
  <2> QED BY <1>2, <2>1, <2>3 DEF OnDisk, InFile, ContentIn, WayVisible
<1>3. CASE ~ NoSub
  <2>1. Root \in Dirs /\ IsBelow(Root, d) /\ disk[Root].sub # NoFile /\ IsBelow(Root, Root)
    BY <1>3, PathFacts, TreeAssumption DEF NoSub
  <2>2. roots = {Root}
    BY <1>1, <2>1
  <2> DEFINE first == CHOOSE r \in roots : \A e \in roots : IsBelow(r, e)
  <2>3. first = Root
    BY <2>1, <2>2
  <2>4. FileOf(d) = Root
    BY <2>2, <2>3 DEF FileOf
  <2>5. \A e \in Dirs \ {Root} : ~ IsBelow(e, Root)
    BY PathFacts
  <2> QED BY <1>3, <2>1, <2>4, <2>5 DEF OnDisk, InFile, ContentIn, SubContent, NoSub
<1> QED BY <1>2, <1>3

LEMMA SeenIsAsked ==
    ASSUME MarkupInv
    PROVE  seen = asked
<1>1. Based /\ Sound(mem) /\ Typed(mem)
  BY InvFacts
<1> SUFFICES ASSUME NEW d \in Dirs PROVE InMemory(d) = asked[d]
  BY <1>1 DEF seen, Based
<1>2. CASE SpreadMem(mem)
  <2>1. NoSub /\ Closed(mem) /\ Reached(mem) /\ asked[d] = Held(mem, d)
        /\ \A e \in Dirs : mem[e] # Absent => SpreadDir(mem, e)
    BY <1>2 DEF SpreadMem, Pieces
  <2>2. OnDisk(d) = IF WayVisible(d) THEN Content(disk[d].file) ELSE Nothing
    BY <1>1, <2>1, OnDiskFacts
  <2>3. CASE mem[d] # Absent
    BY <2>1, <2>2, <2>3 DEF InMemory, Held, SpreadDir
  <2>4. CASE mem[d] = Absent
    <3>1. asked[d] = Content(disk[d].file)
      BY <2>1, <2>4 DEF Held
    <3>2. CASE \E e \in Above(d) : mem[e] # Absent /\ mem[e].listed
                                   /\ \A c \in Children(e) : IsBelow(c, d) => mem[c] = Absent
      <4>1. PICK e \in Above(d) : mem[e] # Absent /\ mem[e].listed
                                  /\ \A c \in Children(e) : IsBelow(c, d) => mem[c] = Absent
        BY <3>2
      <4>2. e \in Dirs
        BY DEF Above
      <4>3. PICK c \in Children(e) : IsBelow(c, d)
        BY ChildTowards
      <4>4. Bare(c)
        BY <2>1, <4>1, <4>2, <4>3 DEF SpreadDir
      <4>5. Content(disk[d].file) = Nothing
        BY <4>3, <4>4 DEF Bare
      <4> QED BY <2>4, <3>1, <3>2, <4>5 DEF InMemory
    <3>3. CASE ~ \E e \in Above(d) : mem[e] # Absent /\ mem[e].listed
                                     /\ \A c \in Children(e) : IsBelow(c, d) => mem[c] = Absent
      <4>1. PICK p \in Dirs : /\ mem[p] # Absent
                              /\ \E c \in Children(p) : mem[c] = Absent /\ IsBelow(c, d)
        BY <1>1, <2>4, LastInMemory
      <4>2. PICK c \in Children(p) : mem[c] = Absent /\ IsBelow(c, d)
        BY <4>1
      <4>3. c \in Dirs /\ IsBelow(p, d) /\ p # d
        BY <2>4, <4>1, <4>2, ChildFacts, BelowOrder
      <4>4. \A x \in Children(p) : IsBelow(x, d) => x = c
        <5> SUFFICES ASSUME NEW x \in Children(p), IsBelow(x, d) PROVE x = c
          OBVIOUS
        <5>1. x \in Dirs /\ Len(x) = Len(c) /\ (IsBelow(x, c) \/ IsBelow(c, x))
          BY <4>2, <4>3, ChildFacts, AboveAreChain
        <5>2. Len(x) \in Nat /\ Len(c) \in Nat
          BY <4>3, <5>1, PathFacts
        <5> QED BY <4>3, <5>1, <5>2, BelowOrder
      <4>5. ~ mem[p].listed
        BY <3>3, <4>1, <4>2, <4>3, <4>4 DEF Above
      <4>6. WayVisible(p)
        BY <2>1, <4>1, <4>5 DEF SpreadDir
      <4>7. ASSUME Content(disk[d].file) # Nothing PROVE WayVisible(d)
        <5> SUFFICES ASSUME NEW e \in Dirs \ {Root}, IsBelow(e, d) PROVE Visible(e)
          BY DEF WayVisible
        <5>1. IsBelow(e, c) \/ IsBelow(c, e)
          BY <4>2, <4>3, AboveAreChain
        <5>2. CASE IsBelow(e, p)
          BY <4>6, <5>2 DEF WayVisible
        <5>3. CASE IsBelow(c, e)
          <6>1. mem[e] = Absent
            <7>1. e = c \/ c \in Above(e)
              BY <4>3, <5>3 DEF Above
            <7> QED BY <2>1, <4>2, <7>1 DEF Closed
          <6> QED BY <2>1, <4>7, <6>1 DEF Reached
        <5> QED BY <4>2, <4>3, <5>1, <5>2, <5>3, ChildFacts, PathFacts
      <4>8. OnDisk(d) = Content(disk[d].file)
        BY <2>2, <4>7
      <4> QED BY <2>4, <3>1, <3>3, <4>8 DEF InMemory
    <3> QED BY <3>2, <3>3
  <2> QED BY <2>3, <2>4
<1>3. CASE TreeMem(mem)
  <2>1. asked[d] = IF mem[d] # Absent THEN Plain(mem[d].entries) ELSE Nothing
    BY <1>3 DEF TreeMem
  <2>2. CASE mem[d] # Absent
    BY <1>3, <2>1, <2>2 DEF InMemory, TreeMem
  <2>3. CASE mem[d] = Absent
    <3>1. PICK p \in Dirs : /\ mem[p] # Absent
                            /\ \E c \in Children(p) : mem[c] = Absent /\ IsBelow(c, d)
      BY <1>1, <2>3, LastInMemory
    <3>2. PICK c \in Children(p) : mem[c] = Absent /\ IsBelow(c, d)
      BY <3>1
    <3>3. c \in Dirs /\ p \in Above(d)
      <4>1. c \in Dirs /\ IsBelow(p, c)
        BY <3>1, <3>2, ChildFacts
      <4> QED BY <2>3, <3>1, <3>2, <4>1, BelowOrder DEF Above
    <3>4. \A x \in Children(p) : IsBelow(x, d) => x = c
      <4> SUFFICES ASSUME NEW x \in Children(p), IsBelow(x, d) PROVE x = c
        OBVIOUS
      <4>1. x \in Dirs /\ Len(x) = Len(c) /\ (IsBelow(x, c) \/ IsBelow(c, x))
        BY <3>1, <3>2, <3>3, ChildFacts, AboveAreChain
      <4>2. Len(x) \in Nat /\ Len(c) \in Nat
        BY <3>3, <4>1, PathFacts
      <4> QED BY <3>3, <4>1, <4>2, BelowOrder
    <3>5. mem[p].listed
      BY <1>3, <3>1 DEF TreeMem
    <3> QED BY <2>1, <2>3, <3>1, <3>2, <3>3, <3>4, <3>5 DEF InMemory
  <2> QED BY <2>2, <2>3
<1>4. CASE FreshMem(mem)
  <2>1. mem = Fresh /\ asked[d] = OnDisk(d)
    BY <1>1, <1>4, OnDiskFacts DEF FreshMem
  <2>2. \A e \in Dirs : mem[e] # Absent => ~ mem[e].loaded /\ ~ mem[e].listed
    BY <1>1, <1>4, FreshRoot, <2>1 DEF FreshMem
  <2>3. \A e \in Above(d) : e \in Dirs
    BY DEF Above
  <2> QED BY <2>1, <2>2, <2>3 DEF InMemory
<1> QED BY <1>1, <1>2, <1>3, <1>4 DEF Sound, MemSound

LEMMA CleanIsSaved ==
    ASSUME MarkupInv, ~ NeedsSync(mem, Root)
    PROVE  seen = saved
<1>1. Based /\ Sound(mem) /\ seen = asked
  BY InvFacts, SeenIsAsked
<1> SUFFICES ASSUME NEW d \in Dirs PROVE asked[d] = OnDisk(d)
  BY <1>1 DEF saved, Based
<1>2. CASE SpreadMem(mem)
  <2>1. NoSub
    BY <1>2 DEF SpreadMem, Pieces
  <2>2. asked[d] = Content(disk[d].file) /\ (Content(disk[d].file) # Nothing => WayVisible(d))
    BY <1>2, CleanFacts
  <2> QED BY <1>1, <2>1, <2>2, OnDiskFacts
<1>3. CASE TreeMem(mem) \/ FreshMem(mem)
  <2>1. ~ NoSub /\ asked[d] = SubContent(d)
    BY <1>3 DEF TreeMem, FreshMem
  <2> QED BY <1>1, <2>1, OnDiskFacts
<1> QED BY <1>1, <1>2, <1>3 DEF Sound, MemSound

LEMMA CrashKeeps ==
    ASSUME MarkupInv, Crash
    PROVE  MarkupInv'
<1>1. /\ mem' = Fresh /\ merged' = FALSE /\ sync' = <<>> /\ disk' = disk
      /\ asked' = saved'
  BY DEF Crash, Restarted
<1>2. Based /\ Sound(mem)
  BY InvFacts
<1>3. ~ Quiet /\ faults' \in 0..MaxFaults
  <2>1. faults \in 0..MaxFaults /\ MaxFaults \in Nat
    BY TreeAssumption DEF MarkupInv, TypeOK
  <2> QED BY <2>1 DEF Quiet, Crash, Fails
<1>4. saved' = saved
  <2>1. \A d \in Dirs : OnDisk(d)' = OnDisk(d)
    BY <1>1 DEF OnDisk, FileOf, ContentIn, Visible
  <2> QED BY <2>1 DEF saved
<1>5. \A d \in Dirs : asked'[d] = OnDisk(d)
  BY <1>1, <1>4 DEF saved
<1>6. MemSound(Fresh)'
  <2>1. CASE NoSub
    <3>1. SpreadMem(mem)
      BY <1>2, <1>3, <2>1 DEF Sound, MemSound, TreeMem, FreshMem
    <3>2. \A d \in Dirs : Content(disk[d].file) # Nothing => WayVisible(d)
      BY <1>3, <3>1 DEF SpreadMem, Pieces, Reached, WayVisible
    <3>3. \A d \in Dirs : asked'[d] = Content(disk[d].file)
      BY <1>2, <1>5, <2>1, <3>2, OnDiskFacts
    <3> QED BY <1>1, <1>2, <2>1, <3>2, <3>3, FreshSpreads DEF MemSound
  <2>2. CASE ~ NoSub
    <3>1. \A d \in Dirs : asked'[d] = SubContent(d)
      BY <1>2, <1>5, <2>2, OnDiskFacts
    <3>2. FreshMem(Fresh)'
      BY <1>1, <2>2, <3>1 DEF FreshMem, NoSub, SubContent, Fresh
    <3> QED BY <3>2 DEF MemSound
  <2> QED BY <2>1, <2>2
<1>7. \A d \in Dirs : asked'[d] \in Contents
  <2> SUFFICES ASSUME NEW d \in Dirs PROVE OnDisk(d) \in Contents
    BY <1>5
  <2>1. CASE NoSub
    BY <1>2, <2>1, OnDiskFacts, DiskFacts, EntryFacts DEF Based
  <2>2. CASE ~ NoSub
    <3>1. disk[Root].sub \in [Dirs -> Contents \cup {Absent}]
      BY <1>2, <2>2, DiskFacts, TreeAssumption DEF Based, NoSub, Subtrees
    <3>2. SubContent(d) \in Contents
      BY <3>1, EntryFacts DEF SubContent
    <3> QED BY <1>2, <2>2, <3>2, OnDiskFacts
  <2> QED BY <2>1, <2>2
<1>8. TypeOK'
  <2>1. asked' \in [Dirs -> Contents]
    BY <1>1, <1>4, <1>7 DEF saved
  <2>2. sync' \in Seq(Frames)
    BY <1>1
  <2>3. mem' \in [Dirs -> DirStates \cup {Absent}] /\ mem'[Root] # Absent
    BY <1>1, StateFacts
  <2>4. disk' \in [Dirs -> Folders]
    BY <1>1, <1>2 DEF Based
  <2> QED BY <1>1, <1>3, <2>1, <2>2, <2>3, <2>4 DEF TypeOK
<1>9. DiskSound'
  BY <1>1, <1>2 DEF Based, DiskSound, NoSub
<1>10. SyncSound' /\ Idle'
  BY <1>1 DEF SyncSound, StackSound, Idle
<1>11. MemSound(mem)' /\ Led(mem)'
  <2> DEFINE r == Fresh
  <2> HIDE DEF r
  <2>1. mem' = r /\ MemSound(r)' /\ Led(r)
    BY <1>1, <1>6, FreshLed DEF r
  <2>2. Led(mem)'
    BY <2>1 DEF Led, LedTo, NeedsSync, Above
  <2>3. MemSound(mem)'
    BY <2>1 DEF MemSound, SpreadMem, Pieces, Closed, Reached, SpreadDir, Held, TreeMem, FreshMem,
                NeedsSync
  <2> QED BY <2>2, <2>3
<1> QED BY <1>8, <1>9, <1>10, <1>11 DEF MarkupInv

-----------------------------------------------------------------------------
(* A running sync                                                            *)

LEMMA FrameFacts ==
    ASSUME NEW f \in Frames
    PROVE  /\ f.dir \in Dirs /\ f.step \in {"save", "subdirs", "delete"}
           /\ f.seen \in SUBSET Dirs /\ f.failed \in BOOLEAN
           /\ f.emptied \in BOOLEAN /\ f.removed \in BOOLEAN
BY DEF Frames

LEMMA RunningFacts ==
    ASSUME MarkupInv, sync # <<>>
    PROVE  /\ sync \in Seq(Frames) /\ Len(sync) \in Nat \ {0}
           /\ \A i \in 1..Len(sync) : sync[i] \in Frames
           /\ Top = sync[1] /\ Top \in Frames /\ Top.dir \in Dirs /\ mem[Top.dir] # Absent
           /\ Len(Top.dir) = Len(sync) - 1
           /\ Len(sync) = 1 <=> Top.dir = Root
           /\ Based /\ Typed(mem) /\ Closed(mem)
           /\ mem[Root].tree => TreeMem(mem) /\ Len(sync) = 1
           /\ ~ mem[Root].tree => SpreadMem(mem) /\ Led(mem) /\ NoSub
<1>1. sync \in Seq(Frames) /\ Based /\ Sound(mem)
  BY InvFacts DEF MarkupInv, TypeOK
<1>2. Len(sync) \in Nat \ {0} /\ \A i \in 1..Len(sync) : sync[i] \in Frames
  BY <1>1
<1>3. Top = sync[1] /\ 1 \in 1..Len(sync)
  BY <1>1, <1>2 DEF Top
<1>4. Top \in Frames /\ Top.dir \in Dirs
  BY <1>2, <1>3, FrameFacts
<1>5. mem[Top.dir] # Absent /\ Len(Top.dir) = Len(sync) - 1
  BY DEF MarkupInv, SyncSound, StackSound
<1>6. Len(sync) = 1 <=> Top.dir = Root
  <2>1. Len(Root) = 0 /\ (Len(Top.dir) = 0 => Top.dir = Root)
    BY <1>4, PathFacts
  <2>2. Top.dir = Root => Len(Top.dir) = 0
    BY <2>1
  <2> DEFINE n == Len(sync)
             k == Len(Top.dir)
  <2>3. n \in Nat \ {0} /\ k = n - 1
    BY <1>2, <1>5
  <2>4. n = 1 <=> k = 0
    <3> HIDE DEF n, k
    <3> QED BY <2>3
  <2> QED BY <2>1, <2>2, <2>4
<1>7. ~ FreshMem(mem)
  BY DEF MarkupInv, Idle
<1>8. Closed(mem) /\ (SpreadMem(mem) \/ TreeMem(mem))
  BY <1>1, <1>7 DEF Sound, MemSound, SpreadMem, Pieces, TreeMem
<1>9. mem[Root].tree => Len(sync) = 1
  <2> SUFFICES ASSUME mem[Root].tree, Len(sync) # 1 PROVE FALSE
    OBVIOUS
  <2>1. 2 \in 2..Len(sync) /\ 2 \in 1..Len(sync)
    <3> DEFINE n == Len(sync)
    <3>1. n \in Nat \ {0} /\ n # 1
      BY <1>2
    <3> HIDE DEF n
    <3>2. 2 \in 2..n /\ 2 \in 1..n
      BY <3>1
    <3> QED BY <3>2 DEF n
  <2>2. sync[2].step = "subdirs"
    BY <2>1 DEF MarkupInv, SyncSound, StackSound
  <2>3. FrameSound(2)
    BY <2>1 DEF MarkupInv, SyncSound
  <2> QED BY <2>2, <2>3 DEF FrameSound
<1>10. ~ mem[Root].tree => SpreadMem(mem) /\ Led(mem) /\ NoSub
  BY <1>8 DEF TreeMem, SpreadMem, Pieces, MarkupInv
<1>11. mem[Root].tree => TreeMem(mem)
  BY <1>8 DEF SpreadMem
<1> QED BY <1>1, <1>2, <1>3, <1>4, <1>5, <1>6, <1>8, <1>9, <1>10, <1>11 DEF Sound

(* The frames below the first are of the directories above.                        *)
LEMMA OuterFacts ==
    ASSUME MarkupInv, sync # <<>>, NEW i \in 2..Len(sync)
    PROVE  /\ i \in 1..Len(sync) /\ i - 1 \in 1..Len(sync) /\ sync[i] \in Frames
           /\ sync[i].dir \in Above(Top.dir) /\ sync[i].dir = SubSeq(Top.dir, 1, Len(sync) - i)
           /\ Len(sync[i].dir) = Len(sync) - i
           /\ sync[i].step = "subdirs" /\ sync[i - 1].dir \in sync[i].seen
           /\ disk[sync[i].dir].folder \/ Quiet
           /\ FrameSound(i) /\ ~ mem[Root].tree
<1>1. /\ Len(sync) \in Nat \ {0} /\ \A n \in 1..Len(sync) : sync[n] \in Frames
      /\ Top.dir \in Dirs /\ Len(Top.dir) = Len(sync) - 1
  BY RunningFacts
<1>2. i \in 1..Len(sync) /\ i - 1 \in 1..Len(sync)
  BY <1>1
<1>3. /\ sync[i].dir = SubSeq(Top.dir, 1, Len(sync) - i)
      /\ sync[i].step = "subdirs" /\ sync[i - 1].dir \in sync[i].seen
      /\ disk[sync[i].dir].folder \/ Quiet
  BY <1>2 DEF MarkupInv, SyncSound, StackSound
<1>4. FrameSound(i)
  BY <1>2 DEF MarkupInv, SyncSound
<1>5. Len(sync) - i \in 0..Len(Top.dir) /\ Len(sync) - i < Len(Top.dir)
  BY <1>1
<1>6. SubSeq(Top.dir, 1, Len(sync) - i) \in Dirs /\ Len(SubSeq(Top.dir, 1, Len(sync) - i)) = Len(sync) - i
  BY <1>1, <1>5, PathFacts
<1>7. sync[i].dir \in Dirs /\ Len(sync[i].dir) = Len(sync) - i
  BY <1>3, <1>6
<1>8. IsBelow(sync[i].dir, Top.dir) /\ sync[i].dir # Top.dir
  <2> DEFINE p == sync[i].dir
  <2>1. p = SubSeq(Top.dir, 1, Len(p)) /\ Len(p) <= Len(Top.dir) /\ Len(p) # Len(Top.dir)
    BY <1>3, <1>5, <1>7
  <2> QED BY <1>1, <1>7, <2>1, BelowIsPrefix
<1>9. ~ mem[Root].tree
  BY <1>3, <1>4 DEF FrameSound
<1> QED BY <1>1, <1>2, <1>3, <1>4, <1>7, <1>8, <1>9 DEF Above

LEMMA ProceedFacts ==
    ASSUME sync \in Seq(Frames), sync # <<>>, NEW top \in Frames, Proceed(top)
    PROVE  /\ sync' \in Seq(Frames) /\ Len(sync') = Len(sync) /\ sync' # <<>>
           /\ Top' = top /\ sync'[1] = top
           /\ \A i \in 2..Len(sync) : sync'[i] = sync[i]
<1>1. sync' = <<top>> \o Tail(sync) /\ Len(sync) \in Nat \ {0}
  BY DEF Proceed
<1>2. sync' \in Seq(Frames) /\ Len(sync') = Len(sync) /\ sync'[1] = top
  BY <1>1
<1>3. \A i \in 2..Len(sync) : sync'[i] = sync[i]
  BY <1>1
<1> QED BY <1>1, <1>2, <1>3 DEF Top

(* A step of the first frame.                                                   *)
LEMMA TopKeepsSync ==
    ASSUME MarkupInv, sync # <<>>, NEW top \in Frames, top.dir = Top.dir, Proceed(top),
           Closed(mem'), mem'[Top.dir] # Absent,
           \A e \in Dirs : ~ IsBelow(Top.dir, e) /\ mem'[e] # Absent =>
                /\ mem'[e].dirty => mem[e] # Absent /\ mem[e].dirty
                /\ mem'[e].below => mem[e] # Absent /\ mem[e].below
                /\ e \in Above(Top.dir) => mem'[e].below = mem[e].below,
           Len(sync) > 1 => (mem'[Root].tree <=> mem[Root].tree),
           ~ mem'[Root].tree => NoSub',
           \A e \in Above(Top.dir) : disk[e].folder => disk'[e].folder,
           Quiet => Quiet', merged' = merged, FrameSound(1)'
    PROVE  SyncSound'
<1> DEFINE d == Top.dir
<1>1. /\ sync \in Seq(Frames) /\ Len(sync) \in Nat \ {0} /\ d \in Dirs
      /\ Len(d) = Len(sync) - 1 /\ Top = sync[1]
  BY RunningFacts
<1>2. /\ sync' \in Seq(Frames) /\ Len(sync') = Len(sync) /\ sync' # <<>>
      /\ Top' = top /\ sync'[1] = top
      /\ \A i \in 2..Len(sync) : sync'[i] = sync[i]
  BY <1>1, ProceedFacts
<1>3. \A i \in 1..Len(sync) : sync'[i].dir = sync[i].dir
  <2> SUFFICES ASSUME NEW i \in 1..Len(sync) PROVE sync'[i].dir = sync[i].dir
    OBVIOUS
  <2>1. i = 1 \/ i \in 2..Len(sync)
    BY <1>1
  <2> QED BY <1>1, <1>2, <2>1
<1>4. StackSound'
  <2>1. \A i \in 1..Len(sync') : sync'[i].dir = SubSeq(Top'.dir, 1, Len(sync') - i)
    <3> SUFFICES ASSUME NEW i \in 1..Len(sync)
                 PROVE  sync[i].dir = SubSeq(d, 1, Len(sync) - i)
      BY <1>2, <1>3
    <3> QED BY DEF MarkupInv, SyncSound, StackSound
  <2>2. \A i \in 2..Len(sync') : /\ sync'[i].step = "subdirs"
                                 /\ sync'[i - 1].dir \in sync'[i].seen
                                 /\ disk'[sync'[i].dir].folder \/ Quiet'
    <3> SUFFICES ASSUME NEW i \in 2..Len(sync)
                 PROVE  /\ sync'[i].step = "subdirs"
                        /\ sync'[i - 1].dir \in sync'[i].seen
                        /\ disk'[sync'[i].dir].folder \/ Quiet'
      BY <1>2
    <3>1. sync'[i] = sync[i] /\ sync'[i - 1].dir = sync[i - 1].dir
      BY <1>2, <1>3, OuterFacts
    <3> QED BY <3>1, OuterFacts
  <2> QED BY <1>1, <1>2, <2>1, <2>2 DEF StackSound
<1>5. ASSUME NEW i \in 1..Len(sync') PROVE FrameSound(i)'
  <2>1. CASE i = 1
    BY <2>1
  <2>2. CASE i # 1
    <3>1. i \in 2..Len(sync) /\ i - 1 \in 1..Len(sync)
      BY <1>1, <1>2, <2>2
    <3> DEFINE f == sync[i]
    <3>2. /\ f \in Frames /\ f.dir \in Above(d) /\ Len(f.dir) = Len(sync) - i /\ f.step = "subdirs"
          /\ FrameSound(i) /\ ~ mem[Root].tree
      BY <3>1, OuterFacts
    <3>3. sync'[i] = f /\ sync'[i - 1].dir = sync[i - 1].dir
      BY <1>2, <1>3, <3>1
    <3>4. f.dir \in Dirs /\ IsBelow(f.dir, d) /\ f.dir # d /\ ~ IsBelow(d, f.dir)
      BY <1>1, <3>2, BelowOrder DEF Above
    <3>5. mem'[f.dir] # Absent
      BY <1>1, <3>2 DEF Closed
    <3>6. ~ mem'[Root].tree
      BY <1>1, <3>1, <3>2
    <3>7. mem'[f.dir].below = mem[f.dir].below /\ (mem'[f.dir].dirty => mem[f.dir].dirty)
      BY <3>2, <3>4, <3>5
    <3>8. ASSUME ~ f.failed, NEW c \in f.seen \cap Children(f.dir), mem'[c] # Absent,
                 sync[i - 1].dir # c
          PROVE  ~ NeedsSync(mem', c)
      <4>1. mem[c] # Absent => ~ NeedsSync(mem, c)
        BY <3>1, <3>2, <3>8 DEF FrameSound
      <4>2. c \in Dirs /\ Len(c) = Len(f.dir) + 1
        BY <3>4, ChildFacts
      <4>3. ~ IsBelow(d, c)
        <5> SUFFICES ASSUME IsBelow(d, c) PROVE FALSE
          OBVIOUS
        <5>1. IsBelow(d, f.dir) \/ d = c
          BY <1>1, <3>4, ChildFacts
        <5>2. d = c
          BY <3>4, <5>1
        <5>3. i = 2
          BY <1>1, <3>1, <3>2, <4>2, <5>2
        <5> QED BY <1>1, <3>8, <5>2, <5>3
      <4> QED BY <3>8, <4>1, <4>2, <4>3 DEF NeedsSync
    <3> HIDE DEF f
    <3> QED BY <2>2, <3>2, <3>3, <3>6, <3>7, <3>8 DEF FrameSound, f, Children
  <2> QED BY <2>1, <2>2
<1> QED BY <1>4, <1>5 DEF SyncSound

(* What has to be shown of a step of a sync.                                     *)
LEMMA StepKeeps ==
    ASSUME MarkupInv, sync # <<>>, Typed(mem'), disk' \in [Dirs -> Folders], sync' \in Seq(Frames),
           faults' \in 0..MaxFaults, UNCHANGED <<merged, asked>>,
           DiskSound', (SpreadMem(mem)' /\ Led(mem)') \/ TreeMem(mem)', SyncSound'
    PROVE  MarkupInv'
<1>1. TypeOK'
  BY DEF MarkupInv, TypeOK, Typed
<1>2. ~ FreshMem(mem)'
  <2>1. SpreadMem(mem)' => NoSub'
    BY DEF SpreadMem, Pieces
  <2>2. ~ Fresh[Root].tree
    BY StateFacts DEF Blank
  <2>3. TreeMem(mem)' => mem' # Fresh
    BY <2>2 DEF TreeMem
  <2> QED BY <2>1, <2>3 DEF FreshMem
<1>3. MemSound(mem)' /\ (SpreadMem(mem)' => Led(mem)')
  BY DEF MemSound, SpreadMem, TreeMem
<1> QED BY <1>1, <1>2, <1>3 DEF MarkupInv

LEMMA SubdirsDoneKeeps ==
    ASSUME MarkupInv, SubdirsDone
    PROVE  MarkupInv'
<1> DEFINE d == Top.dir
           top == [Top EXCEPT !.step = "delete"]
<1>1. /\ sync # <<>> /\ Top.step = "subdirs" /\ Pending = {}
      /\ mem' = [mem EXCEPT ![d].below = Top.failed] /\ Proceed(top)
      /\ UNCHANGED <<merged, disk, faults, asked>>
  BY DEF SubdirsDone, Working
<1>2. /\ sync \in Seq(Frames) /\ Len(sync) \in Nat \ {0} /\ Top = sync[1] /\ Top \in Frames
      /\ d \in Dirs /\ mem[d] # Absent /\ Based /\ Typed(mem) /\ Closed(mem)
      /\ ~ mem[Root].tree => SpreadMem(mem) /\ Led(mem) /\ NoSub
  BY <1>1, RunningFacts
<1>3. FrameSound(1)
  <2>1. 1 \in 1..Len(sync)
    BY <1>2
  <2> QED BY <2>1 DEF MarkupInv, SyncSound
<1>4. /\ ~ mem[Root].tree /\ mem[d].below /\ SpreadMem(mem) /\ Led(mem) /\ NoSub
      /\ mem[d].dirty => Quiet
      /\ merged => mem[Root].tree
      /\ Top.failed => Quiet
  BY <1>1, <1>2, <1>3 DEF FrameSound
<1>5. ~ Top.failed => \A c \in Children(d) : mem[c] # Absent => ~ NeedsSync(mem, c)
  <2> SUFFICES ASSUME ~ Top.failed, NEW c \in Children(d), mem[c] # Absent
               PROVE  ~ NeedsSync(mem, c)
    OBVIOUS
  <2>1. c \in Dirs
    BY <1>2, ChildFacts
  <2>2. c \notin Top.seen => ~ NeedsSync(mem, c)
    BY <1>1, <2>1 DEF Pending, In
  <2>3. c \in Top.seen => ~ NeedsSync(mem, c)
    BY <1>1, <1>2, <1>3 DEF FrameSound
  <2> QED BY <2>2, <2>3
<1>6. /\ mem'[d] \in DirStates /\ mem'[d].below = Top.failed /\ mem'[d].dirty = mem[d].dirty
      /\ mem'[d].entries = mem[d].entries /\ mem'[d].loaded = mem[d].loaded
      /\ mem'[d].listed = mem[d].listed /\ mem'[d].inside = mem[d].inside
      /\ mem'[d].tree = mem[d].tree
      /\ \A e \in Dirs \ {d} : mem'[e] = mem[e]
  <2>1. mem[d] \in DirStates /\ Top.failed \in BOOLEAN
    BY <1>2, MemFacts, FrameFacts
  <2>2. mem'[d] = [mem[d] EXCEPT !.below = Top.failed]
    BY <1>1, <1>2 DEF Typed
  <2>3. \A e \in Dirs \ {d} : mem'[e] = mem[e]
    BY <1>1, <1>2 DEF Typed
  <2>4. mem'[d] \in DirStates
    BY <2>1, <2>2 DEF DirStates
  <2> QED BY <2>1, <2>2, <2>3, <2>4 DEF DirStates
<1>7. mem'[d] # Absent
  BY <1>6, StateFacts
<1>8. Typed(mem')
  <2>1. mem' = [e \in Dirs |-> mem'[e]]
    BY <1>1, <1>2 DEF Typed
  <2>2. \A e \in Dirs : mem'[e] \in DirStates \cup {Absent}
    BY <1>2, <1>6 DEF Typed
  <2>3. mem'[Root] # Absent
    BY <1>2, <1>6, <1>7, TreeAssumption DEF Typed
  <2>4. mem' \in [Dirs -> DirStates \cup {Absent}]
    BY <2>1, <2>2
  <2> QED BY <2>3, <2>4 DEF Typed
<1>9. top \in Frames /\ top.dir = d /\ top.step = "delete" /\ top.failed = Top.failed
  BY <1>2 DEF Frames
<1>10. sync' \in Seq(Frames) /\ sync'[1] = top
  BY <1>1, <1>2, <1>9, ProceedFacts
<1>11. \A e \in Dirs : mem'[e] # Absent <=> mem[e] # Absent
  BY <1>2, <1>6, <1>7
<1> HIDE DEF d, top
<1>12. SpreadMem(mem)'
  <2>1. ~ mem'[Root].tree /\ NoSub'
    BY <1>1, <1>4, <1>6, TreeAssumption DEF NoSub
  <2>2. Closed(mem)'
    BY <1>2, <1>6, <1>11 DEF Closed, Above
  <2>3. Reached(mem)'
    <3>1. Reached(mem)
      BY <1>4 DEF SpreadMem, Pieces
    <3> QED BY <1>1, <1>11, <3>1 DEF Reached, Visible, Quiet
  <2>4. ASSUME NEW e \in Dirs, mem'[e] # Absent PROVE SpreadDir(mem, e)'
    <3>1. SpreadDir(mem, e)
      BY <1>4, <1>11, <2>4 DEF SpreadMem, Pieces
    <3>2. \A c \in Children(e) : mem'[c] = Absent <=> mem[c] = Absent
      BY <1>11, ChildFacts
    <3>3. CASE e = d
      BY <1>1, <1>6, <3>1, <3>2, <3>3 DEF SpreadDir, Visible, WayVisible, Bare
    <3>4. CASE e # d
      BY <1>1, <1>6, <3>1, <3>2, <3>4 DEF SpreadDir, Visible, WayVisible, Bare
    <3> QED BY <3>3, <3>4
  <2>5. ASSUME NEW e \in Dirs PROVE asked'[e] = Held(mem, e)'
    <3>1. asked[e] = Held(mem, e)
      BY <1>4 DEF SpreadMem, Pieces
    <3>2. CASE e = d
      BY <1>1, <1>2, <1>6, <1>7, <3>1, <3>2 DEF Held
    <3>3. CASE e # d
      BY <1>1, <1>6, <3>1, <3>3 DEF Held
    <3> QED BY <3>2, <3>3
  <2> QED BY <2>1, <2>2, <2>3, <2>4, <2>5 DEF SpreadMem, Pieces
<1>13. Led(mem)'
  <2> SUFFICES ASSUME NEW e \in Dirs, mem'[e] # Absent, NeedsSync(mem', e), NEW x \in Above(e)
               PROVE  mem'[x].below
    BY DEF Led, LedTo
  <2>1. x \in Dirs /\ x # e /\ IsBelow(x, e)
    BY DEF Above
  <2>2. NeedsSync(mem, e) /\ mem[e] # Absent
    BY <1>4, <1>6, <1>11 DEF NeedsSync
  <2>3. mem[x].below
    BY <1>4, <2>2 DEF Led, LedTo
  <2>4. CASE x # d
    BY <1>6, <2>1, <2>3, <2>4
  <2>5. CASE x = d
    <3> SUFFICES ASSUME ~ Top.failed PROVE FALSE
      BY <1>6, <2>5
    <3>1. PICK c \in Children(d) : IsBelow(c, e)
      BY <2>5, ChildTowards
    <3>2. c \in Dirs /\ (c = e \/ c \in Above(e))
      BY <1>2, <3>1, ChildFacts DEF Above
    <3>3. mem[c] # Absent /\ NeedsSync(mem, c)
      BY <1>2, <1>4, <2>2, <3>2 DEF Closed, Led, LedTo, NeedsSync
    <3> QED BY <1>5, <3>1, <3>3
  <2> QED BY <2>4, <2>5
<1>14. SyncSound'
  <2>1. FrameSound(1)'
    <3>1. Quiet' = Quiet /\ merged' = merged /\ mem'[Root].tree = mem[Root].tree
      BY <1>1, <1>6, TreeAssumption DEF Quiet
    <3> QED BY <1>4, <1>6, <1>9, <1>10, <3>1 DEF FrameSound
  <2>2. Closed(mem')
    BY <1>12 DEF SpreadMem, Pieces, Closed, Above
  <2>3. \A e \in Dirs : ~ IsBelow(d, e) => mem'[e] = mem[e]
    BY <1>2, <1>6, PathFacts
  <2>4. \A e \in Above(d) : mem'[e] = mem[e] /\ e \in Dirs
    BY <1>6 DEF Above
  <2>5. (mem'[Root].tree <=> mem[Root].tree) /\ NoSub' /\ (Quiet => Quiet')
    BY <1>1, <1>4, <1>6, TreeAssumption DEF Quiet, NoSub
  <2> QED BY <1>1, <1>7, <1>9, <2>1, <2>2, <2>3, <2>4, <2>5, TopKeepsSync DEF d
<1>15. DiskSound' /\ disk' \in [Dirs -> Folders] /\ faults' \in 0..MaxFaults
  BY <1>1 DEF MarkupInv, DiskSound, NoSub, TypeOK
<1> QED BY <1>1, <1>8, <1>10, <1>12, <1>13, <1>14, <1>15, StepKeeps

LEMMA TopSound ==
    ASSUME MarkupInv, sync # <<>>
    PROVE  FrameSound(1)
<1>1. 1 \in 1..Len(sync)
  <2>1. Len(sync) \in Nat \ {0}
    BY RunningFacts
  <2> QED BY <2>1
<1> QED BY <1>1 DEF MarkupInv, SyncSound

LEMMA DeleteBelowKeeps ==
    ASSUME MarkupInv, DeleteBelow
    PROVE  MarkupInv'
<1> DEFINE gone == EmptiedBelow(mem, Top.dir)
           top == [Top EXCEPT !.removed = TRUE]
<1>1. /\ sync # <<>> /\ Top.step = "delete" /\ mem[Top.dir].tree
      /\ mem' = [e \in Dirs |-> IF e \in gone THEN Absent ELSE mem[e]] /\ Proceed(top)
      /\ UNCHANGED <<merged, disk, faults, asked>>
  BY DEF DeleteBelow, Working
<1>2. /\ sync \in Seq(Frames) /\ Len(sync) \in Nat \ {0} /\ Top = sync[1] /\ Top \in Frames
      /\ Top.dir \in Dirs /\ mem[Top.dir] # Absent /\ Based /\ Typed(mem) /\ Closed(mem)
      /\ mem[Root].tree => TreeMem(mem) /\ Len(sync) = 1
      /\ ~ mem[Root].tree => SpreadMem(mem)
      /\ Len(sync) = 1 <=> Top.dir = Root
  BY <1>1, RunningFacts
<1>3. TreeMem(mem) /\ Top.dir = Root /\ mem[Root].tree /\ Len(sync) = 1
  BY <1>1, <1>2 DEF SpreadMem, Pieces, SpreadDir
<1>4. FrameSound(1)
  BY <1>1, TopSound
<1>5. \A e \in gone : /\ e \in Dirs \ {Root} /\ mem[e] # Absent /\ mem[e].entries = Nothing
                      /\ \A x \in Dirs : IsBelow(e, x) /\ mem[x] # Absent => x \in gone
  <2> SUFFICES ASSUME NEW e \in gone
               PROVE  /\ e \in Dirs \ {Root} /\ mem[e] # Absent /\ mem[e].entries = Nothing
                      /\ \A x \in Dirs : IsBelow(e, x) /\ mem[x] # Absent => x \in gone
    OBVIOUS
  <2>1. e \in Dirs \ {Root} /\ mem[e] # Absent
        /\ \A x \in In(mem) : IsBelow(e, x) => mem[x].loaded /\ mem[x].listed /\ mem[x].entries = Nothing
    BY <1>3 DEF EmptiedBelow, Below, In
  <2>2. mem[e].entries = Nothing
    BY <2>1, PathFacts DEF In
  <2>3. ASSUME NEW x \in Dirs, IsBelow(e, x), mem[x] # Absent PROVE x \in gone
    <3>1. x # Root /\ IsBelow(Root, x)
      BY <2>1, <2>3, PathFacts
    <3>2. \A y \in In(mem) : IsBelow(x, y) => mem[y].loaded /\ mem[y].listed /\ mem[y].entries = Nothing
      BY <2>1, <2>3, BelowOrder DEF In
    <3> QED BY <1>3, <2>3, <3>1, <3>2 DEF EmptiedBelow, Below, In
  <2> QED BY <2>1, <2>2, <2>3
<1> HIDE DEF gone
<1>6. \A e \in Dirs : mem'[e] = IF e \in gone THEN Absent ELSE mem[e]
  BY <1>1
<1>7. mem'[Root] = mem[Root] /\ Root \in Dirs
  BY <1>5, <1>6, TreeAssumption
<1>8. Typed(mem')
  <2>1. mem' \in [Dirs -> DirStates \cup {Absent}]
    BY <1>1, <1>2 DEF Typed
  <2> QED BY <1>2, <1>7, <2>1 DEF Typed
<1>9. top \in Frames /\ top.dir = Top.dir /\ top.step = "delete" /\ top.failed = Top.failed
  BY <1>1, <1>2 DEF Frames
<1>10. sync' \in Seq(Frames) /\ sync'[1] = top
  BY <1>1, <1>2, <1>9, ProceedFacts
<1> HIDE DEF top
<1>11. Closed(mem')
  <2> SUFFICES ASSUME NEW e \in Dirs, mem'[e] # Absent, NEW x \in Above(e)
               PROVE  mem'[x] # Absent /\ mem'[x].listed
    BY DEF Closed
  <2>1. x \in Dirs /\ IsBelow(x, e)
    BY DEF Above
  <2>2. mem[e] # Absent /\ e \notin gone
    BY <1>6
  <2>3. mem[x] # Absent /\ mem[x].listed
    BY <1>2, <2>2 DEF Closed
  <2>4. x \notin gone
    BY <1>5, <2>1, <2>2
  <2> QED BY <1>6, <2>1, <2>3, <2>4
<1>12. TreeMem(mem)'
  <2>1. Closed(mem)' /\ mem'[Root].tree
    BY <1>3, <1>7, <1>11 DEF Closed, Above
  <2>2. \A e \in Dirs : mem'[e] # Absent =>
           mem'[e].loaded /\ mem'[e].listed /\ (e # Root => ~ mem'[e].tree)
    BY <1>3, <1>6 DEF TreeMem
  <2>3. ASSUME NEW e \in Dirs
        PROVE  asked'[e] = IF mem'[e] # Absent THEN Plain(mem'[e].entries) ELSE Nothing
    <3>1. asked'[e] = IF mem[e] # Absent THEN Plain(mem[e].entries) ELSE Nothing
      BY <1>1, <1>3 DEF TreeMem
    <3> QED BY <1>5, <1>6, <3>1, EntryFacts
  <2>4. /\ NoSub' => Quiet'
        /\ ~ NeedsSync(mem', Root) => ~ NoSub' /\ \A e \in Dirs : asked'[e] = SubContent(e)'
    BY <1>1, <1>3, <1>7 DEF TreeMem, NoSub, Quiet, NeedsSync, SubContent
  <2> QED BY <2>1, <2>2, <2>3, <2>4 DEF TreeMem, NeedsSync
<1>13. SyncSound'
  <2>1. FrameSound(1)'
    <3>1. Quiet' = Quiet /\ merged' = merged
      BY <1>1 DEF Quiet
    <3> QED BY <1>1, <1>2, <1>3, <1>4, <1>7, <1>9, <1>10, <3>1 DEF FrameSound
  <2>2. \A e \in Dirs : mem'[e] # Absent => mem'[e] = mem[e]
    BY <1>6
  <2>3. mem'[Top.dir] # Absent /\ (Len(sync) > 1 => FALSE) /\ (~ mem'[Root].tree => NoSub')
        /\ (Quiet => Quiet')
    BY <1>1, <1>2, <1>3, <1>7 DEF Quiet
  <2>4. \A e \in Above(Top.dir) : FALSE
    BY <1>3, PathFacts DEF Above
  <2> QED BY <1>1, <1>9, <1>11, <2>1, <2>2, <2>3, <2>4, TopKeepsSync
<1>14. DiskSound' /\ disk' \in [Dirs -> Folders] /\ faults' \in 0..MaxFaults
  BY <1>1 DEF MarkupInv, DiskSound, NoSub, TypeOK
<1> QED BY <1>1, <1>8, <1>10, <1>12, <1>13, <1>14, StepKeeps

(* The directory being saved, loaded as a whole first when the tree is merged.     *)
LEMMA WholeFacts ==
    ASSUME MarkupInv, Working("save"), NEW d, d = Top.dir, NEW m, m = Whole(d)
    PROVE  /\ Typed(m) /\ Closed(m) /\ m[d] # Absent /\ m[d].loaded \in BOOLEAN
           /\ NeedsSync(m, d)
           /\ \/ /\ ~ mem[Root].tree /\ m = mem /\ SpreadMem(m) /\ Led(m) /\ NoSub
                 /\ ~ m[d].tree /\ ~ merged
              \/ /\ d = Root /\ Len(sync) = 1 /\ m[d].tree /\ Laden(m)
<1>1. sync # <<>> /\ Top.step = "save"
  BY DEF Working
<1>2. /\ Len(sync) \in Nat \ {0} /\ Top = sync[1]
      /\ d \in Dirs /\ mem[d] # Absent /\ Based /\ Typed(mem) /\ Closed(mem)
      /\ mem[Root].tree => TreeMem(mem) /\ Len(sync) = 1
      /\ ~ mem[Root].tree => SpreadMem(mem) /\ Led(mem) /\ NoSub
      /\ Len(sync) = 1 <=> d = Root
  BY <1>1, RunningFacts
<1>3. NeedsSync(mem, d)
  BY <1>1, <1>2, TopSound DEF FrameSound
<1>4. CASE mem[Root].tree
  <2>1. d = Root /\ m = mem /\ TreeMem(mem) /\ Len(sync) = 1
    BY <1>2, <1>4 DEF Whole
  <2>2. Laden(m)
    BY <2>1 DEF TreeMem, Laden
  <2> QED BY <1>2, <1>3, <1>4, <2>1, <2>2, MemFacts
<1>5. CASE ~ mem[Root].tree /\ merged
  <2>1. d = Root
    <3> SUFFICES ASSUME d # Root PROVE FALSE
      OBVIOUS
    <3> DEFINE n == Len(sync)
    <3>1. n \in Nat \ {0} /\ n # 1
      BY <1>2
    <3>2. n \in 2..n
      <4> HIDE DEF n
      <4> QED BY <3>1
    <3>3. sync[n].step = "subdirs" /\ FrameSound(n)
      BY <1>1, <3>2, OuterFacts
    <3> QED BY <1>5, <3>3 DEF FrameSound
  <2>2. m = LoadBelow([mem EXCEPT ![Root].tree = TRUE], Root)
    BY <1>5, <2>1 DEF Whole
  <2>3. Typed(m) /\ Laden(m) /\ Grown(mem, m)
    BY <1>2, <1>5, <2>2, LoadBelowLoads
  <2>4. NeedsSync(m, d) /\ m[d] # Absent
    BY <1>2, <1>3, <2>3 DEF Grown, NeedsSync
  <2>5. m[d].loaded \in BOOLEAN
    BY <1>2, <2>3, <2>4, MemFacts
  <2> QED BY <1>2, <2>1, <2>3, <2>4, <2>5 DEF Laden
<1>6. CASE ~ mem[Root].tree /\ ~ merged
  <2>1. m = mem
    BY <1>6 DEF Whole
  <2>2. ~ m[d].tree
    BY <1>2, <1>6, <2>1 DEF SpreadMem, Pieces, SpreadDir
  <2> QED BY <1>2, <1>3, <1>6, <2>1, <2>2, MemFacts
<1> QED BY <1>4, <1>5, <1>6

LEMMA NothingToSaveKeeps ==
    ASSUME MarkupInv, NothingToSave
    PROVE  MarkupInv'
<1> DEFINE d == Top.dir
           m == Whole(Top.dir)
           top == [Top EXCEPT !.step = IF m[Top.dir].below /\ ~ m[Top.dir].tree
                                       THEN "subdirs" ELSE "delete", !.emptied = FALSE]
<1>1. /\ Working("save") /\ sync # <<>> /\ Top.step = "save" /\ ~ Writes(m, d)
      /\ mem' = m /\ Proceed(top) /\ UNCHANGED <<merged, disk, faults, asked>>
  BY DEF NothingToSave, Working, Saved
<1> HIDE DEF m
<1>2. NeedsSync(m, d) /\ m = mem /\ ~ mem[Root].tree /\ SpreadMem(mem) /\ Led(mem) /\ NoSub
      /\ ~ m[d].tree /\ ~ merged /\ m[d].below /\ ~ m[d].dirty
  <2>1. /\ NeedsSync(m, d)
        /\ \/ /\ ~ mem[Root].tree /\ m = mem /\ SpreadMem(m) /\ Led(m) /\ NoSub
              /\ ~ m[d].tree /\ ~ merged
           \/ m[d].tree
    BY <1>1, WholeFacts DEF m
  <2> QED BY <1>1, <2>1 DEF Writes, NeedsSync
<1>3. /\ sync \in Seq(Frames) /\ Top \in Frames /\ d \in Dirs /\ mem[d] # Absent
      /\ Typed(mem) /\ Closed(mem) /\ Top = sync[1]
  BY <1>1, RunningFacts
<1>4. FrameSound(1)
  BY <1>1, TopSound
<1>5. top = [Top EXCEPT !.step = "subdirs", !.emptied = FALSE]
  BY <1>2
<1> HIDE DEF top
<1>6. top \in Frames /\ top.dir = d /\ top.step = "subdirs" /\ top.failed = Top.failed
      /\ top.seen = Top.seen
  BY <1>3, <1>5 DEF Frames
<1>7. sync' \in Seq(Frames) /\ sync'[1] = top
  BY <1>1, <1>3, <1>6, ProceedFacts
<1>8. mem' = mem
  BY <1>1, <1>2
<1>9. SpreadMem(mem)' /\ Led(mem)'
  <2>1. PICK r : r = mem
    OBVIOUS
  <2>2. SpreadMem(r)' /\ Led(r) /\ mem' = r
    BY <1>1, <1>2, <1>8, <2>1, SameMem
  <2> QED BY <2>2 DEF SpreadMem, Pieces, Closed, Reached, SpreadDir, Held, Led, LedTo, NeedsSync, Above
<1>10. SyncSound'
  <2>1. FrameSound(1)'
    <3>1. Quiet' = Quiet /\ merged' = merged
      BY <1>1 DEF Quiet
    <3> QED BY <1>1, <1>2, <1>3, <1>4, <1>6, <1>7, <1>8, <3>1 DEF FrameSound
  <2>2. NoSub' /\ (Quiet => Quiet')
    BY <1>1, <1>2 DEF NoSub, Quiet
  <2> QED BY <1>1, <1>3, <1>6, <1>8, <2>1, <2>2, TopKeepsSync DEF d
<1>11. DiskSound' /\ disk' \in [Dirs -> Folders] /\ faults' \in 0..MaxFaults /\ Typed(mem')
  BY <1>1, <1>3, <1>8 DEF MarkupInv, DiskSound, NoSub, TypeOK
<1> QED BY <1>1, <1>7, <1>9, <1>10, <1>11, StepKeeps

(* What is in memory when a directory is done with.                               *)
LEMMA KnownGrows ==
    ASSUME MarkupInv, sync # <<>>, NEW m, m = Known(Top)
    PROVE  /\ Sound(m) /\ Grown(mem, m)
           /\ SpreadMem(mem) => SpreadMem(m)
           /\ TreeMem(mem) => m = mem
           /\ Top.emptied => m[Top.dir].listed
           /\ Top.removed => m[Top.dir].loaded
<1> DEFINE listed == IF Top.emptied THEN LoadSubdirs(mem, Top.dir) ELSE mem
<1>1. Based /\ Sound(mem) /\ Top.dir \in Dirs /\ mem[Top.dir] # Absent
  BY InvFacts, RunningFacts
<1>2. /\ Sound(listed) /\ Grown(mem, listed) /\ listed[Top.dir] # Absent
      /\ SpreadMem(mem) => SpreadMem(listed)
      /\ TreeMem(mem) => listed = mem
      /\ Top.emptied => listed[Top.dir].listed
  BY <1>1, LoadSubdirsKeeps, GrownReflexive
<1>3. m = IF Top.removed THEN LoadEntries(listed, Top.dir) ELSE listed
  BY DEF Known
<1> HIDE DEF listed
<1>4. /\ Sound(m) /\ Grown(listed, m)
      /\ SpreadMem(listed) => SpreadMem(m)
      /\ TreeMem(listed) => m = listed
      /\ Top.removed => m[Top.dir].loaded
  BY <1>1, <1>2, <1>3, LoadEntriesKeeps, GrownReflexive
<1>5. Grown(mem, m)
  BY <1>2, <1>4, GrownTransitive
<1>6. Top.emptied => m[Top.dir].listed
  BY <1>1, <1>2, <1>4 DEF Grown
<1> QED BY <1>2, <1>4, <1>5, <1>6

(* A beginning of a beginning.                                                  *)
LEMMA PrefixOfPrefix ==
    ASSUME NEW d \in Dirs, NEW n \in 0..Len(d), NEW k \in 0..n
    PROVE  SubSeq(SubSeq(d, 1, n), 1, k) = SubSeq(d, 1, k)
<1>1. d \in Seq(STRING) /\ Len(d) \in Nat
  BY PathFacts
<1> QED BY <1>1

LEMMA ReturnStack ==
    ASSUME sync \in Seq(Frames), NEW n, n = Len(sync), n > 1, NEW f \in Frames,
           sync' = <<f>> \o Tail(Tail(sync))
    PROVE  /\ sync' \in Seq(Frames) /\ Len(sync') = n - 1 /\ sync' # <<>>
           /\ sync'[1] = f /\ Top' = f
           /\ \A i \in 2..n - 1 : sync'[i] = sync[i + 1]
<1>1. n \in Nat
  OBVIOUS
<1> DEFINE s == Tail(Tail(sync))
<1>2. s \in Seq(Frames) /\ Len(s) = n - 2 /\ \A i \in 1..n - 2 : s[i] = sync[i + 2]
  <2> DEFINE t == Tail(sync)
  <2>1. t \in Seq(Frames) /\ Len(t) = n - 1 /\ \A i \in 1..n - 1 : t[i] = sync[i + 1]
    BY <1>1
  <2> HIDE DEF t
  <2>2. Tail(t) \in Seq(Frames) /\ Len(Tail(t)) = n - 2 /\ \A i \in 1..n - 2 : Tail(t)[i] = t[i + 1]
    BY <1>1, <2>1
  <2> QED BY <1>1, <2>1, <2>2 DEF t
<1> HIDE DEF s
<1>3. sync' = <<f>> \o s
  BY DEF s
<1>4. sync' \in Seq(Frames) /\ Len(sync') = n - 1 /\ sync'[1] = f
  BY <1>1, <1>2, <1>3
<1>5. \A i \in 2..n - 1 : sync'[i] = s[i - 1]
  BY <1>1, <1>2, <1>3
<1>6. \A i \in 2..n - 1 : sync'[i] = sync[i + 1]
  <2> SUFFICES ASSUME NEW i \in 2..n - 1 PROVE sync'[i] = sync[i + 1]
    OBVIOUS
  <2>1. i - 1 \in 1..n - 2 /\ (i - 1) + 2 = i + 1
    BY <1>1
  <2>2. s[i - 1] = sync[(i - 1) + 2]
    BY <1>2, <2>1
  <2> QED BY <1>5, <2>1, <2>2
<1> QED BY <1>1, <1>4, <1>6 DEF Top

(* The frame of the directory above goes on.                                      *)
LEMMA ReturnFrame ==
    ASSUME MarkupInv, Return, NEW n, n = Len(sync), NEW d, d = Top.dir, NEW m, m = Known(Top)
    PROVE  /\ n = 1 => sync' = <<>>
           /\ n # 1 =>
                 /\ n > 1 /\ 2 \in 2..n /\ 2 \in 1..n
                 /\ sync[2] \in Frames /\ sync[2].dir \in Above(d)
                 /\ sync[2].dir = SubSeq(d, 1, n - 2) /\ Len(sync[2].dir) = n - 2
                 /\ FrameSound(2) /\ ~ mem[Root].tree
                 /\ \E f \in Frames :
                       /\ f.dir = sync[2].dir /\ f.step = "subdirs" /\ f.seen = sync[2].seen
                       /\ f.failed = (sync[2].failed \/ NeedsSync(m, d))
                       /\ sync' \in Seq(Frames) /\ Len(sync') = n - 1 /\ sync' # <<>>
                       /\ sync'[1] = f /\ Top' = f
                       /\ \A i \in 2..n - 1 : sync'[i] = sync[i + 1]
<1>1. /\ sync # <<>> /\ mem' = m
      /\ sync' = IF Tail(sync) = <<>> THEN <<>>
                 ELSE <<[Tail(sync)[1] EXCEPT !.failed = @ \/ NeedsSync(m, d)]>> \o Tail(Tail(sync))
  BY DEF Return, Working
<1>2. /\ sync \in Seq(Frames) /\ n \in Nat \ {0} /\ Top \in Frames
      /\ d \in Dirs /\ mem[d] # Absent
  BY <1>1, RunningFacts
<1>3. Sound(m) /\ Grown(mem, m)
  BY <1>1, KnownGrows
<1>4. CASE n = 1
  <2>1. Tail(sync) = <<>>
    <3> DEFINE t == Tail(sync)
    <3>1. t \in Seq(Frames) /\ Len(t) = 0
      <4>1. sync \in Seq(Frames) /\ sync # <<>> /\ Len(sync) = 1
        BY <1>1, <1>2, <1>4
      <4>2. Tail(sync) \in Seq(Frames) /\ Len(Tail(sync)) = Len(sync) - 1
        BY <4>1
      <4> QED BY <4>1, <4>2
    <3> HIDE DEF t
    <3>2. t = <<>>
      BY <3>1, EmptySeq
    <3> QED BY <3>2 DEF t
  <2>2. sync' = <<>>
    BY <1>1, <2>1
  <2> QED BY <1>4, <2>2
<1>5. CASE n # 1
  <2> DEFINE f == [sync[2] EXCEPT !.failed = @ \/ NeedsSync(m, d)]
             up == sync[2].dir
  <2>1. n > 1 /\ 2 \in 2..n /\ 2 \in 1..n
    BY <1>2, <1>5
  <2>2. Tail(sync) # <<>> /\ Tail(sync)[1] = sync[2]
    <3> DEFINE t == Tail(sync)
    <3>1. Len(t) = n - 1 /\ \A i \in 1..n - 1 : t[i] = sync[i + 1]
      BY <1>1, <1>2
    <3> HIDE DEF t
    <3>2. 1 \in 1..n - 1 /\ 1 + 1 = 2 /\ n - 1 # 0
      BY <1>2, <2>1
    <3>3. t # <<>>
      BY <3>1, <3>2
    <3>4. t[1] = sync[2]
      BY <3>1, <3>2
    <3> QED BY <3>3, <3>4 DEF t
  <2>3. /\ sync[2] \in Frames /\ up \in Above(d) /\ up = SubSeq(d, 1, n - 2) /\ Len(up) = n - 2
        /\ sync[2].step = "subdirs" /\ FrameSound(2) /\ ~ mem[Root].tree
    BY <1>1, <2>1, OuterFacts
  <2>4. m[d] \in DirStates /\ NeedsSync(m, d) \in BOOLEAN
    <3>1. m[d] \in DirStates /\ m[d].dirty \in BOOLEAN /\ m[d].below \in BOOLEAN
      BY <1>2, <1>3, MemFacts DEF Grown, Sound
    <3> QED BY <3>1 DEF NeedsSync
  <2>5. /\ f \in Frames /\ f.dir = up /\ f.step = "subdirs" /\ f.seen = sync[2].seen
        /\ f.failed = (sync[2].failed \/ NeedsSync(m, d))
    BY <2>3, <2>4 DEF Frames
  <2>6. sync' = <<f>> \o Tail(Tail(sync))
    BY <1>1, <2>2
  <2> HIDE DEF f
  <2>7. /\ sync' \in Seq(Frames) /\ Len(sync') = n - 1 /\ sync' # <<>>
        /\ sync'[1] = f /\ Top' = f
        /\ \A i \in 2..n - 1 : sync'[i] = sync[i + 1]
    BY <1>2, <2>1, <2>5, <2>6, ReturnStack
  <2> QED BY <1>5, <2>1, <2>3, <2>5, <2>7
<1> QED BY <1>4, <1>5

LEMMA ReturnKeeps ==
    ASSUME MarkupInv, Return
    PROVE  MarkupInv'
<1> DEFINE d == Top.dir
           n == Len(sync)
<1>1. PICK m : m = Known(Top)
  OBVIOUS
<1>2. /\ sync # <<>> /\ Top.step = "delete" /\ mem' = m
      /\ sync' = IF Tail(sync) = <<>> THEN <<>>
                 ELSE <<[Tail(sync)[1] EXCEPT !.failed = @ \/ NeedsSync(m, d)]>> \o Tail(Tail(sync))
      /\ UNCHANGED <<merged, disk, faults, asked>>
  BY <1>1 DEF Return, Working
<1>3. /\ sync \in Seq(Frames) /\ n \in Nat \ {0} /\ Top = sync[1] /\ Top \in Frames
      /\ \A i \in 1..n : sync[i] \in Frames
      /\ d \in Dirs /\ mem[d] # Absent /\ Len(d) = n - 1
      /\ Based /\ Typed(mem) /\ Closed(mem)
      /\ mem[Root].tree => TreeMem(mem) /\ n = 1
      /\ ~ mem[Root].tree => SpreadMem(mem) /\ Led(mem) /\ NoSub
  BY <1>2, RunningFacts
<1>4. Sound(m) /\ Grown(mem, m) /\ (SpreadMem(mem) => SpreadMem(m)) /\ (TreeMem(mem) => m = mem)
  BY <1>1, <1>2, KnownGrows
<1>5. FrameSound(1)
  BY <1>2, TopSound
<1>6. (SpreadMem(mem)' /\ Led(mem)') \/ TreeMem(mem)'
  <2>1. CASE mem[Root].tree
    <3>1. TreeMem(mem) /\ mem' = mem
      BY <1>2, <1>3, <1>4, <2>1
    <3> QED BY <1>2, <3>1 DEF TreeMem, Closed, NoSub, Quiet, NeedsSync, SubContent
  <2>2. CASE ~ mem[Root].tree
    <3>1. SpreadMem(m)' /\ Led(m)
      BY <1>2, <1>3, <1>4, <2>2, SameMem, GrownLed
    <3> QED BY <1>2, <3>1 DEF SpreadMem, Pieces, Closed, Reached, SpreadDir, Held, Led, LedTo,
                              NeedsSync, Above
  <2> QED BY <2>1, <2>2
<1>7. DiskSound' /\ disk' \in [Dirs -> Folders] /\ faults' \in 0..MaxFaults /\ Typed(mem')
  BY <1>2, <1>4 DEF MarkupInv, DiskSound, NoSub, TypeOK, Sound
<1>8. CASE n = 1
  <2>1. sync' = <<>>
    BY <1>1, <1>2, <1>8, ReturnFrame
  <2>2. SyncSound' /\ sync' \in Seq(Frames)
    BY <2>1 DEF SyncSound, StackSound
  <2> QED BY <1>2, <1>6, <1>7, <2>2, StepKeeps
<1>9. CASE n # 1
  <2> DEFINE up == sync[2].dir
  <2>0. n = Len(sync) /\ n # 1
    BY <1>9
  <2> HIDE DEF n, d
  <2>1. n > 1 /\ 2 \in 2..n /\ 2 \in 1..n
    BY <1>1, <1>3, <2>0, ReturnFrame DEF d
  <2>3. /\ sync[2] \in Frames /\ up \in Above(d) /\ up = SubSeq(d, 1, n - 2) /\ Len(up) = n - 2
        /\ FrameSound(2) /\ ~ mem[Root].tree
    BY <1>1, <1>3, <2>0, ReturnFrame DEF d
  <2>5. PICK f \in Frames :
           /\ f.dir = up /\ f.step = "subdirs" /\ f.seen = sync[2].seen
           /\ f.failed = (sync[2].failed \/ NeedsSync(m, d))
           /\ sync' \in Seq(Frames) /\ Len(sync') = n - 1 /\ sync' # <<>>
           /\ sync'[1] = f /\ Top' = f
           /\ \A i \in 2..n - 1 : sync'[i] = sync[i + 1]
    BY <1>1, <1>3, <2>0, ReturnFrame DEF d
  <2> USE DEF n, d
  <2>8. \A i \in 1..n - 1 : sync'[i].dir = sync[i + 1].dir /\ i + 1 \in 2..n
    <3> SUFFICES ASSUME NEW i \in 1..n - 1 PROVE sync'[i].dir = sync[i + 1].dir /\ i + 1 \in 2..n
      OBVIOUS
    <3>1. i = 1 \/ i \in 2..n - 1
      BY <1>3
    <3>2. i = 1 => i + 1 = 2
      OBVIOUS
    <3>3. i + 1 \in 2..n
      BY <1>3
    <3> HIDE DEF n
    <3> QED BY <2>5, <3>1, <3>2, <3>3
  <2>9. \A e \in Dirs : mem[e] # Absent =>
           m[e] # Absent /\ m[e].dirty = mem[e].dirty /\ m[e].below = mem[e].below
    BY <1>4 DEF Grown
  <2>10. \A e \in Dirs : m[e] # Absent /\ NeedsSync(m, e) => mem[e] # Absent /\ NeedsSync(mem, e)
    BY <1>4 DEF Grown, NeedsSync
  <2>11. Quiet' = Quiet /\ merged' = merged /\ ~ mem'[Root].tree
    BY <1>2, <1>3, <1>4, <2>3 DEF Quiet, SpreadMem
  <2>12. StackSound'
    <3>1. \A i \in 1..Len(sync') : sync'[i].dir = SubSeq(Top'.dir, 1, Len(sync') - i)
      <4> SUFFICES ASSUME NEW i \in 1..n - 1 PROVE sync'[i].dir = SubSeq(up, 1, n - 1 - i)
        BY <2>5
      <4>1. sync'[i].dir = SubSeq(d, 1, n - (i + 1))
        BY <1>2, <2>8, OuterFacts
      <4>2. n - 2 \in 0..Len(d) /\ n - 1 - i \in 0..n - 2 /\ n - (i + 1) = n - 1 - i
        BY <1>3, <2>1
      <4>3. SubSeq(SubSeq(d, 1, n - 2), 1, n - 1 - i) = SubSeq(d, 1, n - 1 - i)
        BY <1>3, <4>2, PrefixOfPrefix
      <4> QED BY <2>3, <4>1, <4>2, <4>3
    <3>2. \A i \in 2..Len(sync') : /\ sync'[i].step = "subdirs"
                                   /\ sync'[i - 1].dir \in sync'[i].seen
                                   /\ disk'[sync'[i].dir].folder \/ Quiet'
      <4> SUFFICES ASSUME NEW i \in 2..n - 1
                   PROVE  /\ sync'[i].step = "subdirs"
                          /\ sync'[i - 1].dir \in sync'[i].seen
                          /\ disk'[sync'[i].dir].folder \/ Quiet'
        BY <2>5
      <4>1. sync'[i] = sync[i + 1] /\ i \in 1..n - 1 /\ i - 1 \in 1..n - 1 /\ i + 1 \in 2..n
            /\ (i - 1) + 1 = i /\ (i + 1) - 1 = i
        BY <1>3, <2>5
      <4>2. sync'[i - 1].dir = sync[i].dir
        BY <2>8, <4>1
      <4>3. /\ sync[i + 1].step = "subdirs" /\ sync[(i + 1) - 1].dir \in sync[i + 1].seen
            /\ disk[sync[i + 1].dir].folder \/ Quiet
        BY <1>2, <4>1, OuterFacts
      <4> QED BY <1>2, <2>11, <4>1, <4>2, <4>3
    <3>3. Len(Top'.dir) = Len(sync') - 1
      BY <1>3, <2>3, <2>5
    <3>4. mem'[Top'.dir] # Absent
      <4>1. up \in Dirs /\ mem[up] # Absent
        BY <1>3, <2>3 DEF Closed, Above
      <4> QED BY <1>2, <2>5, <2>9, <4>1
    <3>5. NoSub'
      BY <1>2, <1>3, <2>3 DEF NoSub
    <3> HIDE DEF n
    <3> QED BY <3>1, <3>2, <3>3, <3>4, <3>5 DEF StackSound
  <2>13. ASSUME NEW i \in 1..Len(sync') PROVE FrameSound(i)'
    <3> DEFINE g == sync[i + 1]
    <3>1. i \in 1..n - 1 /\ i + 1 \in 2..n
      BY <2>5, <2>8
    <3>2. /\ g \in Frames /\ g.dir \in Above(d) /\ g.step = "subdirs" /\ FrameSound(i + 1)
          /\ Len(g.dir) = n - (i + 1)
      BY <1>2, <3>1, OuterFacts
    <3>3. /\ sync'[i].dir = g.dir /\ sync'[i].step = "subdirs" /\ sync'[i].seen = g.seen
          /\ i # 1 => sync'[i] = g /\ sync'[i - 1].dir = sync[i].dir
      <4>1. CASE i = 1
        <5>1. g = sync[2]
          BY <4>1
        <5> QED BY <2>3, <2>5, <4>1, <5>1
      <4>2. CASE i # 1
        <5>1. i \in 2..n - 1 /\ i - 1 \in 1..n - 1 /\ (i - 1) + 1 = i
          BY <1>3, <3>1, <4>2
        <5>2. sync'[i] = g
          BY <2>5, <5>1
        <5>3. sync'[i - 1].dir = sync[i].dir
          BY <2>8, <5>1
        <5> QED BY <3>2, <5>2, <5>3
      <4> QED BY <4>1, <4>2
    <3>4. g.dir \in Dirs /\ mem[g.dir] # Absent
      BY <1>3, <3>2 DEF Closed, Above
    <3>5. /\ mem'[g.dir].dirty = mem[g.dir].dirty /\ mem'[g.dir].below = mem[g.dir].below
      BY <1>2, <2>9, <3>4
    <3>6. /\ mem[g.dir].dirty => Quiet
          /\ merged => mem[Root].tree
          /\ mem[g.dir].below
          /\ g.failed => Quiet
          /\ ~ g.failed => \A c \in g.seen \cap Children(g.dir) :
                mem[c] # Absent /\ sync[i].dir # c => ~ NeedsSync(mem, c)
      <4>1. (i + 1) - 1 = i /\ i + 1 # 1
        BY <3>1
      <4> QED BY <3>2, <4>1 DEF FrameSound
    <3>7. sync'[i].failed => Quiet
      <4>1. CASE i = 1
        <5>1. NeedsSync(m, d) => Quiet
          BY <1>2, <1>3, <1>5, <2>9 DEF FrameSound, NeedsSync
        <5>2. g = sync[2]
          BY <4>1
        <5> QED BY <2>5, <3>6, <4>1, <5>1, <5>2
      <4>2. CASE i # 1
        BY <3>3, <3>6, <4>2
      <4> QED BY <4>1, <4>2
    <3>8. ASSUME ~ sync'[i].failed, NEW c \in g.seen \cap Children(g.dir), mem'[c] # Absent,
                 i = 1 \/ sync[i].dir # c
          PROVE  ~ NeedsSync(mem', c)
      <4>0. c \in Dirs
        BY <3>4, ChildFacts
      <4>1. ~ g.failed
        <5>1. CASE i = 1
          <6>1. g = sync[2]
            BY <5>1
          <6> QED BY <2>5, <3>8, <5>1, <6>1
        <5>2. CASE i # 1
          BY <3>3, <3>8, <5>2
        <5> QED BY <5>1, <5>2
      <4>2. CASE sync[i].dir # c
        <5>1. mem[c] # Absent => ~ NeedsSync(mem, c)
          BY <3>6, <4>1, <4>2
        <5> QED BY <1>2, <2>10, <3>8, <4>0, <5>1
      <4>3. CASE i = 1 /\ sync[1].dir = c
        <5>1. ~ NeedsSync(m, d)
          BY <2>5, <3>8, <4>3
        <5>2. c = d
          BY <1>3, <4>3
        <5>3. ~ NeedsSync(m, c)
          BY <5>1, <5>2
        <5> QED BY <1>2, <5>3 DEF NeedsSync
      <4> QED BY <3>8, <4>2, <4>3
    <3> HIDE DEF g, n
    <3>9. \A c \in sync'[i].seen \cap Children(sync'[i].dir) :
             ~ sync'[i].failed /\ mem'[c] # Absent /\ (i = 1 \/ sync'[i - 1].dir # c)
                => ~ NeedsSync(mem', c)
      BY <3>3, <3>8
    <3>10. NeedsSync(mem, sync[i].dir)' = NeedsSync(mem', sync'[i].dir)
           /\ \A c \in Dirs : NeedsSync(mem, c)' = NeedsSync(mem', c)
      BY DEF NeedsSync
    <3> QED BY <2>3, <2>11, <3>3, <3>5, <3>6, <3>7, <3>9, <3>10 DEF FrameSound, NeedsSync
  <2>14. SyncSound'
    BY <2>12, <2>13 DEF SyncSound
  <2> QED BY <1>2, <1>6, <1>7, <2>5, <2>14, StepKeeps
<1> QED BY <1>8, <1>9

(* A folder may be made: nothing that was visible is lost.                         *)
LEMMA FolderKeeps ==
    ASSUME Based, NEW d \in Dirs, NEW b \in BOOLEAN, disk[d].folder => b,
           disk' = [disk EXCEPT ![d].folder = b], asked' = asked, Quiet => Quiet'
    PROVE  /\ disk' \in [Dirs -> Folders] /\ DiskSound' /\ NoSub' = NoSub
           /\ disk'[d].folder = b
           /\ \A e \in Dirs : /\ disk[e].folder => disk'[e].folder
                              /\ disk'[e].file = disk[e].file /\ disk'[e].sub = disk[e].sub
                              /\ Visible(e) => Visible(e)'
           /\ \A r : SpreadMem(r) => SpreadMem(r)'
<1>1. disk[d] \in Folders /\ disk'[d] = [disk[d] EXCEPT !.folder = b]
      /\ \A e \in Dirs \ {d} : disk'[e] = disk[e]
  BY DEF Based
<1>2. disk'[d] \in Folders /\ disk'[d].folder = b
      /\ disk'[d].file = disk[d].file /\ disk'[d].sub = disk[d].sub
  BY <1>1 DEF Folders
<1>3. disk' \in [Dirs -> Folders]
  <2>1. disk' = [e \in Dirs |-> disk'[e]]
    BY DEF Based
  <2> QED BY <1>1, <1>2, <2>1 DEF Based
<1>4. \A e \in Dirs : /\ disk[e].folder => disk'[e].folder
                      /\ disk'[e].file = disk[e].file /\ disk'[e].sub = disk[e].sub
  BY <1>1, <1>2
<1>5. \A e \in Dirs : Visible(e) => Visible(e)'
  BY <1>4 DEF Visible
<1>6. Root \in Dirs
  BY TreeAssumption
<1>7. NoSub' = NoSub
  BY <1>4, <1>6 DEF NoSub
<1>8. DiskSound'
  BY <1>4, <1>6, <1>7 DEF Based, DiskSound
<1>9. ASSUME NEW r, SpreadMem(r) PROVE SpreadMem(r)'
  <2>1. ~ r[Root].tree /\ NoSub' /\ Closed(r)
    BY <1>7, <1>9 DEF SpreadMem, Pieces
  <2>2. Reached(r)'
    <3>1. Reached(r)
      BY <1>9 DEF SpreadMem, Pieces
    <3> QED BY <1>4, <1>5, <3>1 DEF Reached
  <2>3. \A e \in Dirs : (WayVisible(e) => WayVisible(e)') /\ (Bare(e) => Bare(e)')
    BY <1>4, <1>5 DEF WayVisible, Bare
  <2>4. ASSUME NEW e \in Dirs, r[e] # Absent PROVE SpreadDir(r, e)'
    <3>1. SpreadDir(r, e)
      BY <1>9, <2>4 DEF SpreadMem, Pieces
    <3>2. \A c \in Children(e) : c \in Dirs
      BY ChildFacts
    <3> QED BY <1>4, <1>5, <2>3, <3>1, <3>2 DEF SpreadDir
  <2>5. \A e \in Dirs : asked'[e] = Held(r, e)'
    BY <1>4, <1>9 DEF SpreadMem, Pieces, Held
  <2>6. Closed(r)'
    BY <2>1 DEF Closed, Above
  <2> QED BY <2>1, <2>2, <2>4, <2>5, <2>6 DEF SpreadMem, Pieces
<1> QED BY <1>2, <1>3, <1>4, <1>5, <1>7, <1>8, <1>9

LEMMA DescendStack ==
    ASSUME sync \in Seq(Frames), sync # <<>>, NEW n, n = Len(sync), NEW f \in Frames, NEW g \in Frames,
           sync' = <<f, g>> \o Tail(sync)
    PROVE  /\ sync' \in Seq(Frames) /\ Len(sync') = n + 1 /\ sync' # <<>>
           /\ sync'[1] = f /\ Top' = f /\ sync'[2] = g
           /\ \A i \in 3..n + 1 : sync'[i] = sync[i - 1]
<1>1. n \in Nat \ {0}
  OBVIOUS
<1> DEFINE t == Tail(sync)
<1>2. t \in Seq(Frames) /\ Len(t) = n - 1 /\ \A i \in 1..n - 1 : t[i] = sync[i + 1]
  BY <1>1
<1> HIDE DEF t
<1>3. sync' = <<f, g>> \o t
  BY DEF t
<1>4. sync' \in Seq(Frames) /\ Len(sync') = n + 1 /\ sync'[1] = f /\ sync'[2] = g
  BY <1>1, <1>2, <1>3
<1>5. \A i \in 3..n + 1 : sync'[i] = t[i - 2]
  BY <1>1, <1>2, <1>3
<1>6. \A i \in 3..n + 1 : sync'[i] = sync[i - 1]
  <2> SUFFICES ASSUME NEW i \in 3..n + 1 PROVE sync'[i] = sync[i - 1]
    OBVIOUS
  <2>1. i - 2 \in 1..n - 1 /\ (i - 2) + 1 = i - 1
    BY <1>1
  <2>2. t[i - 2] = sync[(i - 2) + 1]
    BY <1>2, <2>1
  <2> QED BY <1>5, <2>1, <2>2
<1> QED BY <1>1, <1>4, <1>6 DEF Top

LEMMA DescendKeeps ==
    ASSUME HarmlessStep, MarkupInv, NEW c \in Dirs, Descend(c)
    PROVE  MarkupInv'
<1> DEFINE d == Top.dir
           n == Len(sync)
           f == Frame(c)
           g == [Top EXCEPT !.seen = @ \cup {c}]
<1>1. /\ sync # <<>> /\ Top.step = "subdirs" /\ c \in Pending
      /\ \/ disk' = [disk EXCEPT ![d].folder = CanMake(d)] /\ UNCHANGED faults
         \/ ~ disk[d].folder /\ Fails("make") /\ UNCHANGED disk
      /\ sync' = <<f, g>> \o Tail(sync)
      /\ UNCHANGED <<mem, merged, asked>>
  BY DEF Descend, Working
<1>2. /\ sync \in Seq(Frames) /\ n \in Nat \ {0} /\ Top = sync[1] /\ Top \in Frames
      /\ \A i \in 1..n : sync[i] \in Frames
      /\ d \in Dirs /\ mem[d] # Absent /\ Len(d) = n - 1 /\ (n = 1 <=> d = Root)
      /\ Based /\ Typed(mem) /\ Closed(mem)
      /\ ~ mem[Root].tree => SpreadMem(mem) /\ Led(mem) /\ NoSub
  BY <1>1, RunningFacts
<1>3. FrameSound(1)
  BY <1>1, TopSound
<1>4. /\ ~ mem[Root].tree /\ SpreadMem(mem) /\ Led(mem) /\ NoSub /\ ~ merged
      /\ mem[d].below /\ (mem[d].dirty => Quiet) /\ (Top.failed => Quiet)
  BY <1>1, <1>2, <1>3 DEF FrameSound
<1>5. /\ c \in Children(d) /\ c \in Dirs /\ mem[c] # Absent /\ c \notin Top.seen /\ NeedsSync(mem, c)
      /\ Len(c) = n /\ Parent(c) = d /\ c # d
  <2>1. c \in Children(d) /\ mem[c] # Absent /\ c \notin Top.seen /\ NeedsSync(mem, c)
    BY <1>1 DEF Pending, In
  <2>2. Len(c) = Len(d) + 1 /\ c # d
    BY <1>2, <2>1, ChildFacts
  <2> QED BY <1>2, <2>1, <2>2 DEF Children
<1>6. (Quiet => Quiet') /\ faults' \in 0..MaxFaults /\ (Fails("make") => Quiet')
  <2>1. faults \in 0..MaxFaults /\ MaxFaults \in Nat
    BY TreeAssumption DEF MarkupInv, TypeOK
  <2> QED BY <1>1, <2>1, QuietFacts DEF Fails
<1>7. disk'[d].folder \/ Quiet'
  <2>1. CASE disk' = [disk EXCEPT ![d].folder = CanMake(d)] /\ UNCHANGED faults
    <3>1. disk'[d].folder = CanMake(d)
      BY <1>2, <2>1 DEF Based, Folders
    <3>2. CASE CanMake(d)
      BY <3>1, <3>2
    <3>3. CASE ~ CanMake(d)
      <4>1. d # Root /\ ~ disk[Parent(d)].folder
        BY <3>3 DEF CanMake
      <4>2. n # 1
        BY <1>2, <4>1
      <4>3. 2 \in 2..n
        <5> HIDE DEF n
        <5> QED BY <1>2, <4>2
      <4>4. sync[2].dir = SubSeq(d, 1, n - 2) /\ (disk[sync[2].dir].folder \/ Quiet)
        BY <1>1, <4>3, OuterFacts
      <4>5. Parent(d) = SubSeq(d, 1, n - 2)
        BY <1>2 DEF Parent
      <4> QED BY <1>6, <4>1, <4>4, <4>5
    <3> QED BY <3>2, <3>3
  <2>2. CASE Fails("make")
    BY <1>6, <2>2
  <2> QED BY <1>1, <2>1, <2>2
<1>8. PICK r : r = mem
  OBVIOUS
<1>9. /\ disk' \in [Dirs -> Folders] /\ DiskSound' /\ NoSub'
      /\ \A e \in Dirs : disk[e].folder => disk'[e].folder
      /\ SpreadMem(r)'
  <2>1. CASE disk' = [disk EXCEPT ![d].folder = CanMake(d)]
    <3> DEFINE b == CanMake(d)
    <3>1. b \in BOOLEAN
      BY DEF CanMake
    <3>2. disk[d].folder => b
      BY DEF CanMake
    <3>3. disk' = [disk EXCEPT ![d].folder = b]
      BY <2>1
    <3> HIDE DEF b
    <3> QED BY <1>1, <1>2, <1>4, <1>6, <1>8, <3>1, <3>2, <3>3, FolderKeeps
  <2>2. CASE disk' = disk
    <3> DEFINE b == disk[d].folder
    <3>1. b \in BOOLEAN
      BY <1>2, DiskFacts DEF Based
    <3>2. disk' = [disk EXCEPT ![d].folder = b]
      BY <1>2, <2>2 DEF Based, Folders
    <3> HIDE DEF b
    <3>3. disk[d].folder => b
      BY DEF b
    <3> QED BY <1>1, <1>2, <1>4, <1>6, <1>8, <3>1, <3>2, <3>3, FolderKeeps
  <2> QED BY <1>1, <2>1, <2>2
<1>10. SpreadMem(mem)' /\ Led(mem)'
  <2>1. mem' = r
    BY <1>1, <1>8
  <2>2. Led(r)
    BY <1>4, <1>8
  <2> QED BY <1>9, <2>1, <2>2 DEF SpreadMem, Pieces, Closed, Reached, SpreadDir, Held, Led, LedTo,
                                  NeedsSync, Above
<1>11. /\ f \in Frames /\ f.dir = c /\ f.step = "save" /\ f.seen = {} /\ f.failed = FALSE
       /\ g \in Frames /\ g.dir = d /\ g.step = "subdirs" /\ g.seen = Top.seen \cup {c}
       /\ g.failed = Top.failed
  <2>1. f \in Frames /\ f.dir = c /\ f.step = "save" /\ f.seen = {} /\ f.failed = FALSE
    BY DEF Frame, Frames
  <2>2. g \in Frames /\ g.dir = d /\ g.step = "subdirs" /\ g.seen = Top.seen \cup {c}
        /\ g.failed = Top.failed
    <3>1. Top \in Frames /\ Top.step = "subdirs"
      BY <1>1, <1>2
    <3> QED BY <3>1 DEF Frames
  <2> QED BY <2>1, <2>2
<1> HIDE DEF f, g
<1>12. /\ sync' \in Seq(Frames) /\ Len(sync') = n + 1 /\ sync' # <<>>
       /\ sync'[1] = f /\ Top' = f /\ sync'[2] = g
       /\ \A i \in 3..n + 1 : sync'[i] = sync[i - 1]
  <2> HIDE DEF n
  <2>1. n = Len(sync)
    BY DEF n
  <2> QED BY <1>1, <1>2, <1>11, <2>1, DescendStack
<1>13. \A i \in 2..n + 1 : sync'[i].dir = sync[i - 1].dir /\ i - 1 \in 1..n
  <2> SUFFICES ASSUME NEW i \in 2..n + 1 PROVE sync'[i].dir = sync[i - 1].dir /\ i - 1 \in 1..n
    OBVIOUS
  <2>1. i - 1 \in 1..n /\ (i = 2 \/ i \in 3..n + 1)
    BY <1>2
  <2>2. i = 2 => i - 1 = 1
    OBVIOUS
  <2> HIDE DEF n, d
  <2> QED BY <1>2, <1>11, <1>12, <2>1, <2>2 DEF d
<1>14. StackSound'
  <2>1. ASSUME NEW i \in 1..n + 1 PROVE sync'[i].dir = SubSeq(c, 1, n + 1 - i)
    <3>1. CASE i = 1
      <4>1. n + 1 - i = Len(c)
        BY <1>2, <1>5, <3>1
      <4>2. SubSeq(c, 1, Len(c)) = c
        BY <1>5, PathFacts
      <4> QED BY <1>11, <1>12, <3>1, <4>1, <4>2
    <3>2. CASE i # 1
      <4>1. i \in 2..n + 1 /\ i - 1 \in 1..n /\ n - (i - 1) = n + 1 - i
            /\ n - 1 \in 0..Len(c) /\ n + 1 - i \in 0..n - 1
        BY <1>2, <1>5, <3>2
      <4>2. sync'[i].dir = sync[i - 1].dir
        BY <1>13, <4>1
      <4>3. sync[i - 1].dir = SubSeq(d, 1, n - (i - 1))
        BY <1>1, <4>1 DEF MarkupInv, SyncSound, StackSound
      <4>4. d = SubSeq(c, 1, n - 1)
        BY <1>5 DEF Parent
      <4>5. SubSeq(SubSeq(c, 1, n - 1), 1, n + 1 - i) = SubSeq(c, 1, n + 1 - i)
        BY <1>5, <4>1, PrefixOfPrefix
      <4> QED BY <4>1, <4>2, <4>3, <4>4, <4>5
    <3> QED BY <3>1, <3>2
  <2>2. ASSUME NEW i \in 2..n + 1
        PROVE  /\ sync'[i].step = "subdirs"
               /\ sync'[i - 1].dir \in sync'[i].seen
               /\ disk'[sync'[i].dir].folder \/ Quiet'
    <3>1. CASE i = 2
      <4>1. sync'[i] = g /\ sync'[i - 1] = f
        BY <1>12, <3>1
      <4> QED BY <1>7, <1>11, <4>1
    <3>2. CASE i # 2
      <4>1. i \in 3..n + 1 /\ i - 1 \in 2..n /\ i - 1 \in 2..n + 1
        BY <1>2, <3>2
      <4>2. sync'[i] = sync[i - 1] /\ sync'[i - 1].dir = sync[(i - 1) - 1].dir
        BY <1>12, <1>13, <4>1
      <4>3. /\ sync[i - 1].step = "subdirs" /\ sync[(i - 1) - 1].dir \in sync[i - 1].seen
            /\ disk[sync[i - 1].dir].folder \/ Quiet
            /\ sync[i - 1].dir \in Above(d)
        BY <1>1, <4>1, OuterFacts
      <4>4. sync[i - 1].dir \in Dirs
        BY <4>3 DEF Above
      <4> QED BY <1>6, <1>9, <4>2, <4>3, <4>4
    <3> QED BY <3>1, <3>2
  <2>3. Len(Top'.dir) = Len(sync') - 1 /\ mem'[Top'.dir] # Absent /\ Top'.dir = c
    BY <1>1, <1>2, <1>5, <1>11, <1>12
  <2>4. Len(sync') = n + 1 /\ NoSub'
    BY <1>9, <1>12
  <2> HIDE DEF n
  <2>5. ASSUME NEW i \in 1..Len(sync') PROVE sync'[i].dir = SubSeq(Top'.dir, 1, Len(sync') - i)
    <3>1. i \in 1..n + 1 /\ Len(sync') - i = n + 1 - i
      BY <1>2, <1>12, <2>4
    <3>2. sync'[i].dir = SubSeq(c, 1, n + 1 - i)
      BY <2>1, <3>1
    <3> QED BY <2>3, <3>1, <3>2
  <2>6. \A i \in 2..Len(sync') : /\ sync'[i].step = "subdirs"
                                 /\ sync'[i - 1].dir \in sync'[i].seen
                                 /\ disk'[sync'[i].dir].folder \/ Quiet'
    BY <2>2, <2>4
  <2> QED BY <2>3, <2>4, <2>5, <2>6 DEF StackSound
<1>15. ASSUME NEW i \in 1..Len(sync') PROVE FrameSound(i)'
  <2>1. CASE i = 1
    <3>1. NeedsSync(mem, c)'
      BY <1>1, <1>5 DEF NeedsSync
    <3> QED BY <1>11, <1>12, <2>1, <3>1 DEF FrameSound, NeedsSync
  <2>2. CASE i = 2
    <3>1. /\ sync'[i].dir = d /\ sync'[i].step = "subdirs" /\ sync'[i].seen = Top.seen \cup {c}
          /\ sync'[i].failed = Top.failed /\ sync'[i - 1].dir = c
      BY <1>11, <1>12, <2>2
    <3>2. ASSUME ~ Top.failed, NEW x \in (Top.seen \cup {c}) \cap Children(d), mem[x] # Absent, x # c
          PROVE  ~ NeedsSync(mem, x)
      BY <1>1, <1>2, <1>3, <3>2 DEF FrameSound
    <3> QED BY <1>1, <1>4, <1>6, <2>2, <3>1, <3>2 DEF FrameSound, NeedsSync
  <2>3. CASE i # 1 /\ i # 2
    <3>1. i \in 3..n + 1 /\ i - 1 \in 2..n /\ i - 1 \in 2..n + 1
      BY <1>2, <1>12, <2>3
    <3> DEFINE h == sync[i - 1]
    <3>2. sync'[i] = h /\ sync'[i - 1].dir = sync[(i - 1) - 1].dir
      BY <1>12, <1>13, <3>1
    <3>3. h.step = "subdirs" /\ FrameSound(i - 1) /\ i - 1 # 1
      BY <1>1, <3>1, OuterFacts
    <3>4. /\ mem[h.dir].dirty => Quiet
          /\ mem[h.dir].below
          /\ h.failed => Quiet
          /\ ~ h.failed => \A x \in h.seen \cap Children(h.dir) :
                mem[x] # Absent /\ sync[(i - 1) - 1].dir # x => ~ NeedsSync(mem, x)
      BY <3>3 DEF FrameSound
    <3> HIDE DEF h, n
    <3> QED BY <1>1, <1>4, <1>6, <2>3, <3>2, <3>3, <3>4 DEF FrameSound, NeedsSync
  <2> QED BY <2>1, <2>2, <2>3
<1>16. SyncSound' /\ Typed(mem')
  BY <1>1, <1>2, <1>14, <1>15 DEF SyncSound
<1> QED BY <1>1, <1>6, <1>9, <1>10, <1>12, <1>16, StepKeeps

(* The directories above the one being worked on are those of the other frames.    *)
LEMMA AboveIsFrame ==
    ASSUME MarkupInv, sync # <<>>, NEW e \in Above(Top.dir)
    PROVE  \E i \in 2..Len(sync) : sync[i].dir = e
<1> DEFINE d == Top.dir
           n == Len(sync)
           k == Len(e)
<1>1. n \in Nat \ {0} /\ d \in Dirs /\ Len(d) = n - 1
  BY RunningFacts
<1>2. e \in Dirs /\ IsBelow(e, d) /\ e # d
  BY DEF Above
<1>3. e = SubSeq(d, 1, k) /\ k \in Nat
  BY <1>1, <1>2, BelowIsPrefix, PathFacts
<1>4. k < n - 1
  BY <1>1, <1>2, BelowOrder
<1> HIDE DEF k, d, n
<1>5. n - k \in 2..n /\ n - (n - k) = k
  BY <1>1, <1>3, <1>4
<1>6. sync[n - k].dir = SubSeq(d, 1, n - (n - k))
  BY <1>5, OuterFacts DEF n, d
<1> QED BY <1>3, <1>5, <1>6 DEF n

LEMMA AboveIsKept ==
    ASSUME MarkupInv, sync # <<>>, NEW e \in Above(Top.dir), e # Root
    PROVE  mem[e] # Absent /\ (Visible(e) \/ Quiet)
<1>1. PICK i \in 2..Len(sync) : sync[i].dir = e
  BY AboveIsFrame
<1>2. sync[i].step = "subdirs" /\ FrameSound(i) /\ ~ mem[Root].tree /\ e \in Dirs
  BY <1>1, OuterFacts DEF Above
<1>3. mem[e].dirty => Quiet
  BY <1>1, <1>2 DEF FrameSound
<1>4. SpreadMem(mem) /\ Closed(mem) /\ Top.dir \in Dirs /\ mem[Top.dir] # Absent
  BY <1>2, RunningFacts
<1>5. mem[e] # Absent
  BY <1>4 DEF Closed
<1>6. SpreadDir(mem, e)
  BY <1>2, <1>4, <1>5 DEF SpreadMem, Pieces
<1> QED BY <1>3, <1>5, <1>6 DEF SpreadDir

(* The frame of a directory whose file has been seen to.                          *)
LEMMA SavedFrame ==
    ASSUME MarkupInv, Working("save"), NEW r, NEW b \in BOOLEAN, Saved(Top, r, b)
    PROVE  \E top \in Frames :
              /\ top.dir = Top.dir /\ top.seen = {} /\ top.failed = Top.failed /\ top.emptied = b
              /\ top.step = IF r[Top.dir].below /\ ~ r[Top.dir].tree THEN "subdirs" ELSE "delete"
              /\ Proceed(top) /\ sync' \in Seq(Frames) /\ sync'[1] = top
<1> DEFINE s == IF r[Top.dir].below /\ ~ r[Top.dir].tree THEN "subdirs" ELSE "delete"
           top == [Top EXCEPT !.step = s, !.emptied = b]
<1>1. sync # <<>> /\ Top.step = "save" /\ Proceed(top)
  BY DEF Working, Saved
<1>2. sync \in Seq(Frames) /\ Top \in Frames /\ Top.seen = {}
  BY <1>1, RunningFacts, TopSound DEF FrameSound
<1>3. s \in {"save", "subdirs", "delete"}
  OBVIOUS
<1> HIDE DEF s
<1>4. top \in Frames /\ top.dir = Top.dir /\ top.step = s /\ top.failed = Top.failed /\ top.seen = {}
      /\ top.emptied = b
  BY <1>2, <1>3 DEF Frames
<1> HIDE DEF top
<1>5. sync' \in Seq(Frames) /\ sync'[1] = top
  BY <1>1, <1>2, <1>4, ProceedFacts
<1> QED BY <1>1, <1>4, <1>5 DEF s

(* A directory with a folder of its own is saved.                                 *)
LEMMA SavedAlone ==
    ASSUME MarkupInv, Save, NEW d, d = Top.dir,
           Whole(d) = mem, ~ mem[Root].tree, ~ mem[d].tree,
           NEW P, P = Plain(mem[d].entries), NEW c, c = Cleaned(mem, d)
    PROVE  /\ mem[d].dirty /\ Saved(Top, mem', c # mem)
           /\ c[d].entries = P /\ P \in Contents /\ Plain(P) = P /\ Content(P) = P /\ P # NoFile
           /\ \A e \in Dirs \ {d} : mem'[e] = mem[e]
           /\ mem'[d] \in DirStates /\ mem'[d].below = mem[d].below /\ ~ mem'[d].dirty
           /\ mem'[d].entries = P /\ mem'[d].loaded /\ mem'[d].listed = mem[d].listed
           /\ mem'[d].inside = mem[d].inside /\ ~ mem'[d].tree
           /\ mem'[d] # Absent /\ Typed(mem')
           /\ \A e \in Dirs \ {d} : disk'[e] = disk[e]
           /\ disk' \in [Dirs -> Folders]
           /\ \A e \in Dirs : disk'[e].sub = disk[e].sub /\ (disk[e].folder => disk'[e].folder)
           /\ \A e \in Dirs : Visible(e) => Visible(e)'
           /\ Visible(d)'
           /\ \A e \in Dirs : Content(disk'[e].file) = IF e = d THEN P ELSE Content(disk[e].file)
           /\ \A e \in Dirs : mem'[e] # Absent <=> mem[e] # Absent
<1>1. /\ Working("save") /\ sync # <<>> /\ Top.step = "save" /\ Writes(mem, d)
      /\ mem' = Stored(c, d) /\ disk' = Store(c, d) /\ Saved(Top, mem', c # mem)
      /\ UNCHANGED <<merged, faults, asked>>
  BY DEF Save, Working
<1>2. /\ d \in Dirs /\ mem[d] # Absent /\ Based /\ Typed(mem) /\ Closed(mem)
      /\ SpreadMem(mem) /\ Led(mem) /\ NoSub
  BY <1>1, RunningFacts
<1>3. mem[d].dirty
  BY <1>1 DEF Writes
<1>4. SpreadDir(mem, d) /\ mem[d].loaded
  BY <1>2, <1>3 DEF SpreadMem, Pieces, SpreadDir
<1>5. mem[d] \in DirStates /\ P \in Contents /\ Plain(P) = P /\ Content(P) = P /\ P # NoFile
  BY <1>2, MemFacts, EntryFacts
<1>6. /\ c[d] = [mem[d] EXCEPT !.entries = P]
      /\ \A e \in Dirs \ {d} : c[e] = mem[e]
  BY <1>2 DEF Cleaned, Covered
<1>7. c[d].tree = FALSE /\ c[d].entries = P
  BY <1>5, <1>6 DEF DirStates
<1>8. Covered(c, d) = {d}
  BY <1>7 DEF Covered
<1>9. /\ mem'[d] = [c[d] EXCEPT !.dirty = FALSE, !.below = c[d].below]
      /\ \A e \in Dirs \ {d} : mem'[e] = mem[e]
      /\ mem' = [e \in Dirs |-> mem'[e]]
  BY <1>1, <1>2, <1>6, <1>7, <1>8 DEF Stored
<1>10. /\ mem'[d] \in DirStates /\ mem'[d].below = mem[d].below /\ ~ mem'[d].dirty
       /\ mem'[d].entries = P /\ mem'[d].loaded /\ mem'[d].listed = mem[d].listed
       /\ mem'[d].inside = mem[d].inside /\ ~ mem'[d].tree
  <2>1. c[d] \in DirStates /\ c[d].below = mem[d].below /\ c[d].listed = mem[d].listed
        /\ c[d].loaded = mem[d].loaded /\ c[d].inside = mem[d].inside
    BY <1>5, <1>6 DEF DirStates
  <2> QED BY <1>4, <1>7, <1>9, <2>1 DEF DirStates
<1>11. mem'[d] # Absent
  BY <1>10, StateFacts
<1>12. Typed(mem')
  <2>1. \A e \in Dirs : mem'[e] \in DirStates \cup {Absent}
    BY <1>2, <1>9, <1>10 DEF Typed
  <2>2. mem' \in [Dirs -> DirStates \cup {Absent}]
    BY <1>9, <2>1
  <2>3. mem'[Root] # Absent
    BY <1>2, <1>9, <1>11, TreeAssumption DEF Typed
  <2> QED BY <2>2, <2>3 DEF Typed
<1>13. /\ disk'[d] = [disk[d] EXCEPT !.folder = TRUE, !.file = P]
       /\ \A e \in Dirs \ {d} : disk'[e] = disk[e]
       /\ disk' \in [Dirs -> Folders]
  <2>1. disk \in [Dirs -> Folders] /\ disk[d] \in Folders
    BY <1>2 DEF Based
  <2>2. disk' = [disk EXCEPT ![d] = [disk[d] EXCEPT !.folder = TRUE, !.file = P]]
    BY <1>1, <1>2, <1>7, <2>1 DEF Store, Folders
  <2>3. [disk[d] EXCEPT !.folder = TRUE, !.file = P] \in Folders
    BY <1>5, <2>1 DEF Folders
  <2> QED BY <1>2, <2>1, <2>2, <2>3
<1>14. /\ \A e \in Dirs : disk'[e].sub = disk[e].sub /\ (disk[e].folder => disk'[e].folder)
       /\ \A e \in Dirs : Visible(e) => Visible(e)'
       /\ Visible(d)'
       /\ \A e \in Dirs : Content(disk'[e].file) = IF e = d THEN P ELSE Content(disk[e].file)
  <2>1. disk[d] \in Folders
    BY <1>2 DEF Based
  <2>2. disk'[d].folder = TRUE /\ disk'[d].file = P /\ disk'[d].sub = disk[d].sub
    BY <1>13, <2>1 DEF Folders
  <2>3. \A e \in Dirs : disk'[e].sub = disk[e].sub /\ (disk[e].folder => disk'[e].folder)
    BY <1>13, <2>2
  <2>4. Visible(d)'
    BY <1>5, <2>2 DEF Visible
  <2>5. \A e \in Dirs : Visible(e) => Visible(e)'
    BY <1>13, <2>4 DEF Visible
  <2> QED BY <1>5, <1>13, <2>2, <2>3, <2>4, <2>5
<1>15. \A e \in Dirs : mem'[e] # Absent <=> mem[e] # Absent
  BY <1>2, <1>9, <1>11
<1> QED BY <1>1, <1>3, <1>5, <1>7, <1>9, <1>10, <1>11, <1>12, <1>13, <1>14, <1>15

LEMMA SaveSpreadKeeps ==
    ASSUME MarkupInv, Save, NEW d, d = Top.dir,
           Whole(d) = mem, ~ mem[Root].tree, ~ mem[d].tree, ~ merged
    PROVE  /\ MarkupInv' /\ NoSub /\ NoSub'
           /\ \A x \in Dirs : /\ Visible(x) => Visible(x)'
                             /\ Content(disk'[x].file) \in {Content(disk[x].file), asked[x]}
<1> DEFINE P == Plain(mem[d].entries)
           c == Cleaned(mem, d)
<1>1. /\ Working("save") /\ sync # <<>> /\ Top.step = "save"
      /\ Saved(Top, mem', c # mem)
      /\ UNCHANGED <<merged, faults, asked>>
  BY SavedAlone DEF Save, Working
<1>2. /\ d \in Dirs /\ mem[d] # Absent /\ Based /\ Typed(mem) /\ Closed(mem)
      /\ SpreadMem(mem) /\ Led(mem) /\ NoSub
  BY <1>1, RunningFacts
<1>3. /\ mem[d].dirty /\ P \in Contents /\ Plain(P) = P /\ Content(P) = P /\ P # NoFile
      /\ \A e \in Dirs \ {d} : mem'[e] = mem[e]
      /\ mem'[d] \in DirStates /\ mem'[d].below = mem[d].below /\ ~ mem'[d].dirty
      /\ mem'[d].entries = P /\ mem'[d].loaded /\ mem'[d].listed = mem[d].listed
      /\ mem'[d].inside = mem[d].inside /\ ~ mem'[d].tree
      /\ mem'[d] # Absent /\ Typed(mem') /\ disk' \in [Dirs -> Folders]
      /\ \A e \in Dirs : disk'[e].sub = disk[e].sub /\ (disk[e].folder => disk'[e].folder)
      /\ \A e \in Dirs : Visible(e) => Visible(e)'
      /\ Visible(d)'
      /\ \A e \in Dirs : Content(disk'[e].file) = IF e = d THEN P ELSE Content(disk[e].file)
      /\ \A e \in Dirs : mem'[e] # Absent <=> mem[e] # Absent
  BY SavedAlone
<1> HIDE DEF P, c
<1>4. SpreadDir(mem, d) /\ mem[d].loaded
  BY <1>2, <1>3 DEF SpreadMem, Pieces, SpreadDir
<1>16. DiskSound' /\ NoSub' /\ Quiet' = Quiet
  <2>1. DiskSound /\ NoSub
    BY <1>2 DEF Based
  <2>2. Root \in Dirs
    BY TreeAssumption
  <2>3. NoSub'
    BY <1>3, <2>1, <2>2 DEF NoSub
  <2>4. \A e \in Dirs : Plain(Content(disk'[e].file)) = Content(disk'[e].file)
    BY <1>3, <2>1 DEF DiskSound
  <2>5. \A e \in Dirs \ {Root} : disk'[e].sub = NoFile
    BY <1>3, <2>1 DEF DiskSound
  <2> QED BY <1>1, <2>3, <2>4, <2>5 DEF DiskSound, Quiet
<1>17. Closed(mem')
  <2> SUFFICES ASSUME NEW e \in Dirs, mem'[e] # Absent, NEW x \in Above(e)
               PROVE  mem'[x] # Absent /\ mem'[x].listed
    BY DEF Closed
  <2>1. x \in Dirs
    BY DEF Above
  <2>2. mem[x] # Absent /\ mem[x].listed
    BY <1>2, <1>3 DEF Closed
  <2> QED BY <1>3, <2>1, <2>2
<1>18. Reached(mem)'
  <2> SUFFICES ASSUME NEW x \in Dirs, Content(disk'[x].file) # Nothing,
                      NEW e \in Dirs \ {Root}, IsBelow(e, x)
               PROVE  Visible(e)' \/ (mem'[e] # Absent /\ Quiet')
    BY DEF Reached
  <2>1. CASE x # d
    BY <1>2, <1>3, <1>16, <2>1 DEF SpreadMem, Pieces, Reached
  <2>2. CASE x = d /\ e = d
    BY <1>3, <2>2
  <2>3. CASE x = d /\ e # d
    <3>1. e \in Above(Top.dir)
      BY <2>3 DEF Above
    <3>2. mem[e] # Absent /\ (Visible(e) \/ Quiet)
      BY <1>1, <3>1, AboveIsKept
    <3> QED BY <1>3, <1>16, <3>2
  <2> QED BY <2>1, <2>2, <2>3
<1>19. ASSUME NEW e \in Dirs, mem'[e] # Absent PROVE SpreadDir(mem, e)'
  <2>1. SpreadDir(mem, e) /\ mem[e] # Absent
    BY <1>2, <1>3, <1>19 DEF SpreadMem, Pieces
  <2>2. WayVisible(e) => WayVisible(e)'
    BY <1>3 DEF WayVisible
  <2>3. ASSUME NEW y \in Children(e), mem'[y] = Absent, mem[e].listed PROVE Bare(y)'
    <3>1. y \in Dirs
      BY ChildFacts
    <3>2. mem[y] = Absent /\ Bare(y)
      BY <1>3, <2>1, <2>3, <3>1 DEF SpreadDir
    <3>3. ~ IsBelow(y, d)
      BY <1>2, <3>1, <3>2 DEF Closed, Above
    <3> QED BY <1>3, <3>2, <3>3 DEF Bare
  <2>4. CASE e = d
    BY <1>3, <1>4, <2>1, <2>2, <2>3, <2>4 DEF SpreadDir
  <2>5. CASE e # d
    BY <1>3, <2>1, <2>2, <2>3, <2>5 DEF SpreadDir
  <2> QED BY <2>4, <2>5
<1>20. ASSUME NEW e \in Dirs PROVE asked'[e] = Held(mem, e)'
  <2>1. asked'[e] = Held(mem, e)
    BY <1>1, <1>2 DEF SpreadMem, Pieces
  <2>2. CASE e = d
    BY <1>2, <1>3, <1>4, <2>1, <2>2 DEF Held, P
  <2>3. CASE e # d
    BY <1>3, <2>1, <2>3 DEF Held
  <2> QED BY <2>2, <2>3
<1>21. SpreadMem(mem)'
  <2>1. ~ mem'[Root].tree
    BY <1>3, TreeAssumption
  <2>2. Closed(mem)'
    BY <1>17 DEF Closed, Above
  <2> QED BY <1>16, <1>18, <1>19, <1>20, <2>1, <2>2 DEF SpreadMem, Pieces
<1>22. \A e \in Dirs : /\ mem'[e].below = mem[e].below
                       /\ mem'[e].dirty => mem[e].dirty
  BY <1>3
<1>23. Led(mem)'
  BY <1>2, <1>3, <1>22 DEF Led, LedTo, NeedsSync, Above
<1>24. PICK top \in Frames :
              /\ top.dir = Top.dir /\ top.seen = {} /\ top.failed = Top.failed
              /\ top.step = IF mem'[Top.dir].below /\ ~ mem'[Top.dir].tree
                            THEN "subdirs" ELSE "delete"
              /\ Proceed(top) /\ sync' \in Seq(Frames) /\ sync'[1] = top
  <2>1. PICK r : r = mem'
    OBVIOUS
  <2>2. PICK b \in BOOLEAN : b <=> c # mem
    OBVIOUS
  <2>3. Saved(Top, r, b)
    BY <1>1, <2>1, <2>2 DEF Saved
  <2> QED BY <1>1, <2>1, <2>3, SavedFrame
<1>25. FrameSound(1)'
  <2>1. FrameSound(1) /\ Top = sync[1]
    BY <1>1, TopSound, RunningFacts
  <2>2. Top.failed => Quiet
    BY <2>1 DEF FrameSound
  <2>3. ~ mem'[Root].tree /\ ~ merged'
    BY <1>1, <1>21 DEF SpreadMem
  <2> QED BY <1>3, <1>16, <1>24, <2>2, <2>3 DEF FrameSound
<1>26. SyncSound'
  <2>1. \A e \in Above(Top.dir) : e \in Dirs /\ (disk[e].folder => disk'[e].folder)
    BY <1>3 DEF Above
  <2>2. mem'[Root].tree <=> mem[Root].tree
    BY <1>2, <1>21 DEF SpreadMem
  <2> QED BY <1>1, <1>3, <1>16, <1>17, <1>22, <1>24, <1>25, <2>1, <2>2, TopKeepsSync
<1>27. faults' \in 0..MaxFaults
  BY <1>1 DEF MarkupInv, TypeOK
<1>28. MarkupInv'
  BY <1>1, <1>3, <1>16, <1>21, <1>23, <1>24, <1>26, <1>27, StepKeeps
<1>29. asked[d] = P
  BY <1>2, <1>4 DEF SpreadMem, Pieces, Held, P
<1> QED BY <1>2, <1>3, <1>16, <1>28, <1>29

(* The whole tree is saved in one file.                                          *)
LEMMA SaveTreeKeeps ==
    ASSUME MarkupInv, Save, Top.dir = Root, NEW m, m = Whole(Root), Typed(m), Laden(m),
           Len(sync) = 1
    PROVE  MarkupInv' /\ ~ NoSub' /\ \A x \in Dirs : SubContent(x)' = asked[x]
<1> DEFINE c == Cleaned(m, Root)
           sub == [e \in Dirs |-> IF m[e] # Absent THEN Plain(m[e].entries) ELSE Absent]
<1>1. /\ Working("save") /\ sync # <<>> /\ Top.step = "save"
      /\ mem' = Stored(c, Root) /\ disk' = Store(c, Root) /\ Saved(Top, mem', c # m)
      /\ UNCHANGED <<merged, faults, asked>>
  BY DEF Save, Working
<1>2. /\ Root \in Dirs /\ m[Root] # Absent /\ m[Root] \in DirStates /\ Based /\ m[Root].tree
      /\ \A e \in Dirs : IsBelow(Root, e)
  BY <1>1, RunningFacts, MemFacts, TreeAssumption, PathFacts DEF Typed, Laden
<1>3. \A e \in Dirs : c[e] = IF m[e] # Absent THEN [m[e] EXCEPT !.entries = Plain(m[e].entries)]
                             ELSE Absent
  BY <1>2 DEF Cleaned, Covered, In
<1>4. \A e \in Dirs : m[e] # Absent =>
         /\ m[e] \in DirStates /\ Plain(m[e].entries) \in Contents
         /\ Plain(Plain(m[e].entries)) = Plain(m[e].entries) /\ Plain(m[e].entries) # Absent
  BY MemFacts, EntryFacts
<1> HIDE DEF c
<1>5. \A e \in Dirs : m[e] # Absent =>
         /\ c[e] \in DirStates /\ c[e] # Absent /\ c[e].entries = Plain(m[e].entries)
         /\ c[e].loaded = m[e].loaded /\ c[e].listed = m[e].listed /\ c[e].tree = m[e].tree
  <2> SUFFICES ASSUME NEW e \in Dirs, m[e] # Absent
               PROVE  /\ c[e] \in DirStates /\ c[e] # Absent /\ c[e].entries = Plain(m[e].entries)
                      /\ c[e].loaded = m[e].loaded /\ c[e].listed = m[e].listed
                      /\ c[e].tree = m[e].tree
    OBVIOUS
  <2>1. c[e] = [m[e] EXCEPT !.entries = Plain(m[e].entries)]
    BY <1>3
  <2>2. c[e] \in DirStates
    BY <1>4, <2>1 DEF DirStates
  <2> QED BY <1>4, <2>1, <2>2, StateFacts DEF DirStates
<1>6. Covered(c, Root) = {e \in Dirs : m[e] # Absent}
  BY <1>2, <1>3, <1>5 DEF Covered, In
<1>7. /\ mem' = [e \in Dirs |-> mem'[e]]
      /\ \A e \in Dirs : m[e] = Absent => mem'[e] = Absent
      /\ mem'[Root] = [c[Root] EXCEPT !.dirty = FALSE, !.below = FALSE]
      /\ \A e \in Dirs \ {Root} : m[e] # Absent => mem'[e] = [c[e] EXCEPT !.inside = TRUE]
  BY <1>1, <1>2, <1>3, <1>5, <1>6 DEF Stored
<1>8. \A e \in Dirs : m[e] # Absent =>
         /\ mem'[e] \in DirStates /\ mem'[e] # Absent /\ mem'[e].entries = Plain(m[e].entries)
         /\ mem'[e].loaded = m[e].loaded /\ mem'[e].listed = m[e].listed
         /\ mem'[e].tree = m[e].tree
  <2> SUFFICES ASSUME NEW e \in Dirs, m[e] # Absent
               PROVE  /\ mem'[e] \in DirStates /\ mem'[e] # Absent
                      /\ mem'[e].entries = Plain(m[e].entries)
                      /\ mem'[e].loaded = m[e].loaded /\ mem'[e].listed = m[e].listed
                      /\ mem'[e].tree = m[e].tree
    OBVIOUS
  <2>1. c[e] \in DirStates /\ c[e].entries = Plain(m[e].entries)
        /\ c[e].loaded = m[e].loaded /\ c[e].listed = m[e].listed /\ c[e].tree = m[e].tree
    BY <1>5
  <2>2. mem'[e] \in DirStates
    <3>1. CASE e = Root
      BY <1>7, <2>1, <3>1 DEF DirStates
    <3>2. CASE e # Root
      <4>1. mem'[e] = [c[e] EXCEPT !.inside = TRUE]
        BY <1>7, <3>2
      <4> QED BY <2>1, <4>1 DEF DirStates
    <3> QED BY <3>1, <3>2
  <2>3. CASE e = Root
    BY <1>7, <2>1, <2>2, <2>3, StateFacts DEF DirStates
  <2>4. CASE e # Root
    BY <1>7, <2>1, <2>2, <2>4, StateFacts DEF DirStates
  <2> QED BY <2>3, <2>4
<1>9. \A e \in Dirs : mem'[e] # Absent <=> m[e] # Absent
  BY <1>7, <1>8
<1>10. /\ ~ mem'[Root].dirty /\ ~ mem'[Root].below /\ mem'[Root].tree
  <2>1. c[Root] \in DirStates
    BY <1>2, <1>5
  <2> QED BY <1>2, <1>7, <1>8, <2>1 DEF DirStates
<1>11. Typed(mem')
  <2>1. \A e \in Dirs : mem'[e] \in DirStates \cup {Absent}
    BY <1>8, <1>9
  <2>2. mem' \in [Dirs -> DirStates \cup {Absent}]
    BY <1>7, <2>1
  <2> QED BY <1>2, <1>9, <2>2 DEF Typed
<1>12. sub \in Subtrees /\ sub # NoFile
  <2>1. sub \in Subtrees
    BY <1>4 DEF Subtrees
  <2> QED BY <2>1, EntryFacts
<1>13. /\ disk'[Root].sub = sub /\ disk'[Root].file = disk[Root].file
       /\ \A e \in Dirs \ {Root} : disk'[e] = disk[e]
       /\ disk' \in [Dirs -> Folders]
  <2>1. disk \in [Dirs -> Folders] /\ disk[Root] \in Folders
    BY <1>2 DEF Based
  <2>2. sub = [e \in Dirs |-> IF e \in Covered(c, Root) THEN c[e].entries ELSE Absent]
    BY <1>5, <1>6
  <2> HIDE DEF sub
  <2>3. disk' = [disk EXCEPT ![Root] = [disk[Root] EXCEPT !.folder = TRUE, !.sub = sub]]
    BY <1>1, <1>2, <1>5, <2>1, <2>2 DEF Store, Folders
  <2>4. [disk[Root] EXCEPT !.folder = TRUE, !.sub = sub] \in Folders
    BY <1>12, <2>1 DEF Folders
  <2> QED BY <1>2, <2>1, <2>3, <2>4 DEF Folders
<1>14. \A e \in Dirs : sub[e] = IF m[e] # Absent THEN Plain(m[e].entries) ELSE Absent
  OBVIOUS
<1> HIDE DEF sub
<1>15. \A e \in Dirs : sub[e] # Absent <=> m[e] # Absent
  BY <1>4, <1>14
<1>16. ~ NoSub'
  BY <1>12, <1>13 DEF NoSub
<1>17. DiskSound'
  <2>1. DiskSound
    BY <1>2 DEF Based
  <2>2. \A e \in Dirs : disk'[e].file = disk[e].file
    BY <1>13
  <2>3. ASSUME NEW e \in Dirs, sub[e] # Absent
        PROVE  Plain(sub[e]) = sub[e] /\ \A x \in Above(e) : sub[x] # Absent
    <3>1. m[e] # Absent /\ Plain(sub[e]) = sub[e]
      BY <1>4, <1>14, <1>15, <2>3
    <3>2. \A x \in Above(e) : x \in Dirs /\ m[x] # Absent
      BY <3>1 DEF Laden, Closed, Above
    <3> QED BY <1>15, <3>1, <3>2
  <2>4. \A e \in Dirs : Plain(Content(disk'[e].file)) = Content(disk'[e].file)
    BY <2>1, <2>2 DEF DiskSound
  <2>5. \A e \in Dirs \ {Root} : disk'[e].sub = NoFile
    BY <1>13, <2>1 DEF DiskSound
  <2>6. disk'[Root].sub[Root] # Absent
    BY <1>2, <1>13, <1>15
  <2>7. \A e \in Dirs : disk'[Root].sub[e] # Absent =>
           /\ Plain(disk'[Root].sub[e]) = disk'[Root].sub[e]
           /\ \A x \in Above(e) : disk'[Root].sub[x] # Absent
    BY <1>13, <2>3
  <2> QED BY <2>4, <2>5, <2>6, <2>7 DEF DiskSound, Above
<1>18. Closed(mem')
  <2> SUFFICES ASSUME NEW e \in Dirs, mem'[e] # Absent, NEW x \in Above(e)
               PROVE  mem'[x] # Absent /\ mem'[x].listed
    BY DEF Closed
  <2>1. x \in Dirs
    BY DEF Above
  <2>2. m[x] # Absent /\ m[x].listed
    BY <1>9 DEF Laden, Closed
  <2> QED BY <1>8, <1>9, <2>1, <2>2
<1>19. TreeMem(mem)'
  <2>1. Closed(mem)'
    BY <1>18 DEF Closed, Above
  <2>2. \A e \in Dirs : mem'[e] # Absent =>
           mem'[e].loaded /\ mem'[e].listed /\ (e # Root => ~ mem'[e].tree)
    BY <1>8, <1>9 DEF Laden
  <2>3. ASSUME NEW e \in Dirs
        PROVE  /\ asked'[e] = IF mem'[e] # Absent THEN Plain(mem'[e].entries) ELSE Nothing
               /\ asked'[e] = IF sub[e] = Absent THEN Nothing ELSE sub[e]
    <3>1. asked'[e] = IF m[e] # Absent THEN Plain(m[e].entries) ELSE Nothing
      BY <1>1 DEF Laden
    <3> QED BY <1>4, <1>8, <1>9, <1>14, <1>15, <3>1
  <2>4. \A e \in Dirs : asked'[e] = SubContent(e)'
    BY <1>13, <2>3 DEF SubContent
  <2> QED BY <1>10, <1>16, <2>1, <2>2, <2>3, <2>4 DEF TreeMem, NeedsSync
<1>20. PICK top \in Frames :
              /\ top.dir = Root /\ top.seen = {} /\ top.failed = Top.failed /\ top.step = "delete"
              /\ Proceed(top) /\ sync' \in Seq(Frames) /\ sync'[1] = top
  <2>1. PICK r : r = mem'
    OBVIOUS
  <2>2. PICK b \in BOOLEAN : b <=> c # m
    OBVIOUS
  <2>3. Saved(Top, r, b)
    BY <1>1, <2>1, <2>2 DEF Saved
  <2>4. PICK top \in Frames :
              /\ top.dir = Top.dir /\ top.seen = {} /\ top.failed = Top.failed
              /\ top.step = IF r[Top.dir].below /\ ~ r[Top.dir].tree THEN "subdirs" ELSE "delete"
              /\ Proceed(top) /\ sync' \in Seq(Frames) /\ sync'[1] = top
    BY <1>1, <2>3, SavedFrame
  <2> QED BY <1>10, <2>1, <2>4
<1>21. (Quiet <=> Quiet') /\ faults' \in 0..MaxFaults
  BY <1>1 DEF MarkupInv, TypeOK, Quiet
<1>22. FrameSound(1)'
  <2>1. FrameSound(1) /\ Top = sync[1]
    BY <1>1, TopSound, RunningFacts
  <2>2. Top.failed => Quiet
    BY <2>1 DEF FrameSound
  <2> QED BY <1>10, <1>20, <1>21, <2>2 DEF FrameSound
<1>23. SyncSound'
  <2>1. \A e \in Above(Root) : FALSE
    BY PathFacts DEF Above
  <2> QED BY <1>1, <1>2, <1>8, <1>10, <1>18, <1>20, <1>21, <1>22, <2>1, TopKeepsSync
<1>24. MarkupInv'
  BY <1>1, <1>11, <1>13, <1>17, <1>19, <1>20, <1>21, <1>23, StepKeeps
<1>25. \A x \in Dirs : SubContent(x)' = asked[x]
  BY <1>1, <1>10, <1>19 DEF TreeMem, NeedsSync
<1> QED BY <1>16, <1>24, <1>25

LEMMA SaveKeeps ==
    ASSUME MarkupInv, Save
    PROVE  /\ MarkupInv'
           /\ \/ /\ NoSub /\ NoSub'
                 /\ \A x \in Dirs :
                       /\ Visible(x) => Visible(x)'
                       /\ Content(disk'[x].file) \in {Content(disk[x].file), asked[x]}
              \/ ~ NoSub' /\ \A x \in Dirs : SubContent(x)' = asked[x]
<1>1. Working("save")
  BY DEF Save
<1>2. PICK d, m : d = Top.dir /\ m = Whole(d)
  OBVIOUS
<1>3. CASE ~ mem[Root].tree /\ m = mem /\ ~ m[d].tree /\ ~ merged
  BY <1>2, <1>3, SaveSpreadKeeps
<1>4. CASE d = Root /\ Len(sync) = 1 /\ Typed(m) /\ Laden(m)
  BY <1>2, <1>4, SaveTreeKeeps
<1>5. /\ Typed(m)
      /\ \/ ~ mem[Root].tree /\ m = mem /\ ~ m[d].tree /\ ~ merged
         \/ d = Root /\ Len(sync) = 1 /\ Laden(m)
  BY <1>1, <1>2, WholeFacts
<1> QED BY <1>3, <1>4, <1>5

(* Only one that will not be lost any more can fail to be saved.                   *)
LEMMA FailureIsQuiet ==
    ASSUME HarmlessStep, MarkupInv, SaveFails
    PROVE  /\ Quiet' /\ (Quiet => Quiet') /\ faults' \in 0..MaxFaults
           /\ \E b \in BOOLEAN : /\ disk[Top.dir].folder => b
                                 /\ disk' = [disk EXCEPT ![Top.dir].folder = b]
<1> DEFINE d == Top.dir
<1>1. /\ sync # <<>>
      /\ \/ ~ CanMake(d) /\ UNCHANGED <<disk, faults>>
         \/ CanMake(d) /\ ~ disk[d].folder /\ Fails("make") /\ UNCHANGED disk
         \/ CanMake(d) /\ Fails("write") /\ disk' = [disk EXCEPT ![d].folder = TRUE]
  BY DEF SaveFails, Working
<1>2. /\ Len(sync) \in Nat \ {0} /\ d \in Dirs /\ Based /\ Len(d) = Len(sync) - 1
      /\ (Len(sync) = 1 <=> d = Root)
  BY <1>1, RunningFacts
<1>3. faults \in 0..MaxFaults /\ MaxFaults \in Nat
  BY TreeAssumption DEF MarkupInv, TypeOK
<1>4. Quiet'
  <2>1. CASE ~ CanMake(d) /\ UNCHANGED <<disk, faults>>
    <3>1. d # Root /\ ~ disk[Parent(d)].folder
      BY <2>1 DEF CanMake
    <3> DEFINE n == Len(sync)
    <3>2. n \in Nat \ {0} /\ n # 1 /\ Len(d) = n - 1
      BY <1>2, <3>1
    <3>3. 2 \in 2..n
      <4> HIDE DEF n
      <4> QED BY <3>2
    <3>4. sync[2].dir = SubSeq(d, 1, n - 2) /\ (disk[sync[2].dir].folder \/ Quiet)
      BY <1>1, <3>3, OuterFacts
    <3>5. Parent(d) = SubSeq(d, 1, n - 2)
      BY <3>2 DEF Parent
    <3>6. Quiet
      BY <3>1, <3>4, <3>5
    <3> QED BY <1>3, <2>1, <3>6, QuietFacts
  <2>2. CASE Fails("make") \/ Fails("write")
    BY <1>3, <2>2, QuietFacts
  <2> QED BY <1>1, <2>1, <2>2
<1>5. faults' \in 0..MaxFaults
  BY <1>1, <1>3 DEF Fails
<1>6. \E b \in BOOLEAN : (disk[d].folder => b) /\ disk' = [disk EXCEPT ![d].folder = b]
  <2>1. CASE disk' = disk
    <3>1. disk[d].folder \in BOOLEAN
      BY <1>2, DiskFacts DEF Based
    <3>2. disk' = [disk EXCEPT ![d].folder = disk[d].folder]
      BY <1>2, <2>1 DEF Based, Folders
    <3> QED BY <3>1, <3>2
  <2>2. CASE disk' = [disk EXCEPT ![d].folder = TRUE]
    BY <2>2
  <2> QED BY <1>1, <2>1, <2>2
<1> QED BY <1>4, <1>5, <1>6

(* Useless entries go, and the rest stays as it was.                              *)
LEMMA CleanedFacts ==
    ASSUME NEW m, Typed(m), NEW d \in Dirs, m[d] # Absent, NEW r, r = Cleaned(m, d)
    PROVE  /\ Typed(r)
           /\ \A e \in Dirs : /\ r[e] # Absent <=> m[e] # Absent
                              /\ m[e] # Absent =>
                                    /\ r[e].loaded = m[e].loaded /\ r[e].listed = m[e].listed
                                    /\ r[e].dirty = m[e].dirty /\ r[e].below = m[e].below
                                    /\ r[e].inside = m[e].inside /\ r[e].tree = m[e].tree
                                    /\ Plain(r[e].entries) = Plain(m[e].entries)
                              /\ ~ m[d].tree /\ e # d => r[e] = m[e]
<1>1. \A e \in Covered(m, d) : m[e] # Absent
  BY DEF Covered, In
<1>2. /\ r = [e \in Dirs |-> r[e]]
      /\ \A e \in Dirs : m[e] = Absent => r[e] = Absent
      /\ \A e \in Dirs : ~ m[d].tree /\ e # d => r[e] = m[e]
  BY <1>1 DEF Cleaned, Covered
<1>3. \A e \in Dirs : r[e] = m[e] \/ r[e] = [m[e] EXCEPT !.entries = Plain(m[e].entries)]
  BY DEF Cleaned
<1>4. ASSUME NEW e \in Dirs, m[e] # Absent
      PROVE  /\ r[e] \in DirStates /\ r[e] # Absent
             /\ r[e].loaded = m[e].loaded /\ r[e].listed = m[e].listed
             /\ r[e].dirty = m[e].dirty /\ r[e].below = m[e].below
             /\ r[e].inside = m[e].inside /\ r[e].tree = m[e].tree
             /\ Plain(r[e].entries) = Plain(m[e].entries)
  <2>1. m[e] \in DirStates /\ Plain(m[e].entries) \in Contents
        /\ Plain(Plain(m[e].entries)) = Plain(m[e].entries)
    BY <1>4, MemFacts, EntryFacts
  <2>2. CASE r[e] = m[e]
    BY <1>4, <2>1, <2>2
  <2>3. CASE r[e] = [m[e] EXCEPT !.entries = Plain(m[e].entries)]
    <3>1. r[e] \in DirStates
      BY <2>1, <2>3 DEF DirStates
    <3> QED BY <2>1, <2>3, <3>1, StateFacts DEF DirStates
  <2> QED BY <1>3, <2>2, <2>3
<1>5. Typed(r)
  <2>1. \A e \in Dirs : r[e] \in DirStates \cup {Absent}
    BY <1>2, <1>4
  <2>2. r \in [Dirs -> DirStates \cup {Absent}]
    BY <1>2, <2>1
  <2> QED BY <1>4, <2>2, TreeAssumption DEF Typed
<1> QED BY <1>2, <1>4, <1>5

LEMMA SaveFailsKeeps ==
    ASSUME HarmlessStep, MarkupInv, SaveFails
    PROVE  MarkupInv'
<1>1. PICK d, m : d = Top.dir /\ m = Whole(d)
  OBVIOUS
<1>2. PICK r : r = Cleaned(m, d)
  OBVIOUS
<1>3. /\ Working("save") /\ sync # <<>> /\ Top.step = "save" /\ mem' = r /\ Saved(Top, r, r # m)
      /\ UNCHANGED <<merged, asked>>
  BY <1>1, <1>2 DEF SaveFails, Working
<1>4. /\ d \in Dirs /\ Based /\ Typed(mem) /\ Closed(mem) /\ sync \in Seq(Frames)
      /\ Len(sync) \in Nat \ {0} /\ Top = sync[1] /\ mem[d] # Absent
      /\ ~ mem[Root].tree => SpreadMem(mem) /\ Led(mem) /\ NoSub
  BY <1>1, <1>3, RunningFacts
<1>5. /\ Typed(m) /\ Closed(m) /\ m[d] # Absent /\ NeedsSync(m, d)
      /\ \/ /\ ~ mem[Root].tree /\ m = mem /\ SpreadMem(m) /\ Led(m) /\ NoSub
            /\ ~ m[d].tree /\ ~ merged
         \/ /\ d = Root /\ Len(sync) = 1 /\ m[d].tree /\ Laden(m)
  BY <1>1, <1>3, WholeFacts
<1>6. /\ Typed(r)
      /\ \A e \in Dirs : /\ r[e] # Absent <=> m[e] # Absent
                         /\ m[e] # Absent =>
                               /\ r[e].loaded = m[e].loaded /\ r[e].listed = m[e].listed
                               /\ r[e].dirty = m[e].dirty /\ r[e].below = m[e].below
                               /\ r[e].inside = m[e].inside /\ r[e].tree = m[e].tree
                               /\ Plain(r[e].entries) = Plain(m[e].entries)
                         /\ ~ m[d].tree /\ e # d => r[e] = m[e]
  BY <1>2, <1>4, <1>5, CleanedFacts
<1>7. Quiet' /\ (Quiet => Quiet') /\ faults' \in 0..MaxFaults
  BY FailureIsQuiet
<1>8. PICK b \in BOOLEAN : /\ disk[d].folder => b
                           /\ disk' = [disk EXCEPT ![d].folder = b]
  BY <1>1, FailureIsQuiet
<1>9. /\ disk' \in [Dirs -> Folders] /\ DiskSound' /\ NoSub' = NoSub
      /\ \A e \in Dirs : disk[e].folder => disk'[e].folder
      /\ SpreadMem(r) => SpreadMem(r)'
  BY <1>3, <1>4, <1>7, <1>8, FolderKeeps
<1>10. Closed(r)
  <2> SUFFICES ASSUME NEW e \in Dirs, r[e] # Absent, NEW x \in Above(e)
               PROVE  r[x] # Absent /\ r[x].listed
    BY DEF Closed
  <2>1. x \in Dirs
    BY DEF Above
  <2>2. m[x] # Absent /\ m[x].listed
    BY <1>5, <1>6 DEF Closed
  <2> QED BY <1>6, <2>1, <2>2
<1>11. Closed(mem')
  BY <1>3, <1>10 DEF Closed
<1>12. PICK top \in Frames :
              /\ top.dir = d /\ top.seen = {}
              /\ top.step = IF r[d].below /\ ~ r[d].tree THEN "subdirs" ELSE "delete"
              /\ Proceed(top) /\ sync' \in Seq(Frames) /\ sync'[1] = top
  <2>1. PICK f \in BOOLEAN : f <=> r # m
    OBVIOUS
  <2>2. Saved(Top, r, f)
    BY <1>3, <2>1 DEF Saved
  <2> QED BY <1>1, <1>3, <2>2, SavedFrame
<1>13. r[d] # Absent /\ r[Root].tree = m[Root].tree /\ r[d].tree = m[d].tree /\ m[Root] # Absent
  BY <1>5, <1>6, TreeAssumption DEF Typed
<1>14. CASE ~ mem[Root].tree /\ m = mem /\ SpreadMem(m) /\ Led(m) /\ NoSub /\ ~ m[d].tree /\ ~ merged
  <2>1. SpreadMem(r)
    <3>1. m[d].dirty
      BY <1>1, <1>14 DEF SaveFails, Writes
    <3>2. Reached(r)
      BY <1>6, <1>14 DEF SpreadMem, Pieces, Reached
    <3>3. ASSUME NEW e \in Dirs, r[e] # Absent PROVE SpreadDir(r, e)
      <4>1. SpreadDir(m, e)
        BY <1>6, <1>14, <3>3 DEF SpreadMem, Pieces
      <4>2. \A c \in Children(e) : r[c] = Absent <=> m[c] = Absent
        BY <1>6, ChildFacts
      <4>3. CASE e = d
        BY <1>5, <1>6, <3>1, <4>1, <4>2, <4>3 DEF SpreadDir
      <4>4. CASE e # d
        BY <1>6, <1>14, <4>1, <4>2, <4>4 DEF SpreadDir
      <4> QED BY <4>3, <4>4
    <3>4. \A e \in Dirs : asked[e] = Held(r, e)
      BY <1>6, <1>14 DEF SpreadMem, Pieces, Held
    <3> QED BY <1>10, <1>13, <1>14, <3>2, <3>3, <3>4 DEF SpreadMem, Pieces
  <2>2. Led(r)
    BY <1>6, <1>14 DEF Led, LedTo, NeedsSync, Above, Closed, SpreadMem, Pieces
  <2>3. SpreadMem(mem)' /\ Led(mem)'
    BY <1>3, <1>9, <2>1, <2>2 DEF SpreadMem, Pieces, Closed, Reached, SpreadDir, Held, Led, LedTo,
                                  NeedsSync, Above
  <2>4. FrameSound(1)'
    BY <1>3, <1>7, <1>12, <1>13, <1>14 DEF FrameSound, SpreadMem
  <2>5. SyncSound'
    <3>1. \A e \in Above(Top.dir) : disk[e].folder => disk'[e].folder
      BY <1>9 DEF Above
    <3> QED BY <1>1, <1>3, <1>6, <1>7, <1>9, <1>11, <1>12, <1>13, <1>14, <2>4, <3>1, TopKeepsSync
  <2> QED BY <1>3, <1>6, <1>7, <1>9, <1>12, <2>3, <2>5, StepKeeps
<1>15. CASE d = Root /\ Len(sync) = 1 /\ m[d].tree /\ Laden(m)
  <2>1. TreeMem(mem)'
    <3>1. Closed(mem)' /\ r[Root].tree
      BY <1>11, <1>13, <1>15 DEF Closed, Above
    <3>2. \A e \in Dirs : r[e] # Absent => r[e].loaded /\ r[e].listed /\ (e # Root => ~ r[e].tree)
      BY <1>6, <1>15 DEF Laden
    <3>3. \A e \in Dirs : asked'[e] = IF r[e] # Absent THEN Plain(r[e].entries) ELSE Nothing
      BY <1>3, <1>6, <1>15 DEF Laden
    <3>4. NeedsSync(r, Root)
      <4>1. NeedsSync(m, d) /\ d = Root /\ r[d].dirty = m[d].dirty /\ r[d].below = m[d].below
        BY <1>4, <1>5, <1>6, <1>15
      <4> QED BY <4>1 DEF NeedsSync
    <3> QED BY <1>3, <1>7, <3>1, <3>2, <3>3, <3>4 DEF TreeMem, NeedsSync
  <2>2. FrameSound(1)'
    BY <1>3, <1>7, <1>12, <1>13, <1>15 DEF FrameSound
  <2>3. SyncSound'
    <3>1. \A e \in Above(Root) : FALSE
      BY PathFacts, TreeAssumption DEF Above
    <3>2. \A e \in Dirs : IsBelow(Root, e)
      BY PathFacts
    <3> QED BY <1>1, <1>3, <1>7, <1>11, <1>12, <1>13, <1>15, <2>2, <3>1, <3>2, TopKeepsSync
  <2> QED BY <1>3, <1>6, <1>7, <1>9, <1>12, <2>1, <2>3, StepKeeps
<1> QED BY <1>5, <1>14, <1>15

(* A directory is deleted that holds nothing: its file goes, if that works, and its  *)
(* folder perhaps.                                                           *)
LEMMA DeletedFiles ==
    ASSUME Based, NEW e \in Dirs, mem[e] # Absent, ~ mem[e].tree, disk[e].sub = NoFile, Delete(e)
    PROVE  /\ disk' \in [Dirs -> Folders]
           /\ \A x \in Dirs \ {e} : disk'[x] = disk[x]
           /\ disk'[e].sub = NoFile
           /\ disk'[e].file = NoFile \/ (disk'[e].file = disk[e].file /\ Fails("unlink"))
           /\ UNCHANGED faults \/ Fails("unlink") \/ Fails("rmdir")
<1>1. disk \in [Dirs -> Folders] /\ disk[e] \in Folders
  BY DEF Based
<1>2. ASSUME NEW u \in BOOLEAN
      PROVE  /\ Without(e, u) \in [Dirs -> Folders]
             /\ \A x \in Dirs \ {e} : Without(e, u)[x] = disk[x]
             /\ Without(e, u)[e] \in Folders /\ Without(e, u)[e].sub = NoFile
             /\ Without(e, u)[e].file = IF u THEN NoFile ELSE disk[e].file
  <2> DEFINE rest == IF u THEN [disk[e] EXCEPT !.file = IF mem[e].tree THEN @ ELSE NoFile,
                                               !.sub = IF mem[e].tree THEN NoFile ELSE @]
                     ELSE disk[e]
             bare == /\ rest.file = NoFile /\ rest.sub = NoFile
                     /\ \A c \in Children(e) : ~ disk[c].folder
  <2>1. rest \in Folders /\ rest.sub = NoFile /\ rest.file = IF u THEN NoFile ELSE disk[e].file
    <3>1. CASE u
      <4>1. rest = [disk[e] EXCEPT !.file = NoFile, !.sub = disk[e].sub]
        BY <3>1
      <4> QED BY <1>1, <3>1, <4>1 DEF Folders
    <3>2. CASE ~ u
      BY <1>1, <3>2
    <3> QED BY <3>1, <3>2
  <2>2. Without(e, u) = [disk EXCEPT ![e] = IF bare THEN NoFolder ELSE rest]
    BY DEF Without
  <2>3. bare => rest.file = NoFile
    OBVIOUS
  <2> HIDE DEF rest, bare
  <2>4. PICK new : new = IF bare THEN NoFolder ELSE rest
    OBVIOUS
  <2>5. new \in Folders /\ new.sub = NoFile /\ new.file = IF u THEN NoFile ELSE disk[e].file
    BY <2>1, <2>3, <2>4, StateFacts DEF NoFolder
  <2>6. Without(e, u) = [disk EXCEPT ![e] = new]
    BY <2>2, <2>4
  <2> QED BY <1>1, <2>5, <2>6
<1>3. CASE disk' = Without(e, TRUE) /\ UNCHANGED faults
  BY <1>2, <1>3
<1>4. CASE disk' = Without(e, FALSE) /\ Fails("unlink")
  BY <1>2, <1>4
<1>5. CASE /\ Fails("rmdir")
           /\ disk' = [disk EXCEPT ![e] = [Without(e, TRUE)[e] EXCEPT !.folder = disk[e].folder]]
  <2> DEFINE old == Without(e, TRUE)[e]
             new == [old EXCEPT !.folder = disk[e].folder]
  <2>1. old \in Folders /\ old.sub = NoFile /\ old.file = NoFile
    BY <1>2
  <2> HIDE DEF old
  <2>2. new \in Folders /\ new.sub = NoFile /\ new.file = NoFile
    BY <1>1, <2>1 DEF Folders
  <2>3. disk' = [disk EXCEPT ![e] = new]
    BY <1>5 DEF old
  <2> HIDE DEF new
  <2> QED BY <1>1, <1>5, <2>2, <2>3
<1> QED BY <1>3, <1>4, <1>5 DEF Delete

LEMMA DeletedFacts ==
    ASSUME MarkupInv, NEW e \in Dirs, Delete(e), NEW d, d = Top.dir
    PROVE  /\ d \in Dirs /\ e \in Children(d) /\ e # Root /\ mem[e] # Absent
           /\ ~ mem[Root].tree /\ SpreadMem(mem) /\ Led(mem) /\ NoSub
           /\ \A x \in Dirs : IsBelow(e, x) /\ x # e => mem[x] = Absent
           /\ asked[e] = Nothing
           /\ disk' \in [Dirs -> Folders] /\ \A x \in Dirs \ {e} : disk'[x] = disk[x]
           /\ disk'[e].sub = NoFile
           /\ \A x \in Dirs : IsBelow(e, x) => Content(disk'[x].file) = Nothing
           /\ disk'[e].file \in {NoFile, disk[e].file}
           /\ (Quiet => Quiet') /\ faults' \in 0..MaxFaults
<1>1. /\ sync # <<>> /\ Top.step = "delete" /\ ~ mem[d].tree
      /\ e \in Children(d) /\ mem[e] # Absent /\ mem[e].loaded /\ mem[e].listed
      /\ mem[e].entries = Nothing /\ Children(e) \cap In(mem) = {}
  BY DEF Delete, Working, Emptied, HoldsNothing
<1>2. /\ d \in Dirs /\ mem[d] # Absent /\ Based /\ Typed(mem) /\ Closed(mem) /\ Top = sync[1]
      /\ mem[Root].tree => TreeMem(mem) /\ Len(sync) = 1
      /\ ~ mem[Root].tree => SpreadMem(mem) /\ Led(mem) /\ NoSub
      /\ Len(sync) = 1 <=> d = Root
  BY <1>1, RunningFacts
<1>3. ~ mem[Root].tree
  BY <1>1, <1>2
<1>4. e # Root /\ d \in Above(e) /\ \A c \in Children(e) : mem[c] = Absent /\ c \in Dirs
  BY <1>1, <1>2, ChildFacts DEF In
<1>5. SpreadDir(mem, e)
  BY <1>1, <1>2, <1>3 DEF SpreadMem, Pieces
<1>6. ~ mem[e].tree /\ disk[e].sub = NoFile
  BY <1>2, <1>4, <1>5 DEF SpreadDir, Based, DiskSound
<1>7. /\ disk' \in [Dirs -> Folders]
      /\ \A x \in Dirs \ {e} : disk'[x] = disk[x]
      /\ disk'[e].sub = NoFile
      /\ disk'[e].file = NoFile \/ (disk'[e].file = disk[e].file /\ Fails("unlink"))
      /\ UNCHANGED faults \/ Fails("unlink") \/ Fails("rmdir")
  BY <1>1, <1>2, <1>6, DeletedFiles
<1>8. ASSUME NEW x \in Dirs, IsBelow(e, x), x # e
      PROVE  mem[x] = Absent /\ Content(disk[x].file) = Nothing
  <2>1. PICK c \in Children(e) : IsBelow(c, x)
    BY <1>8, ChildTowards DEF Above
  <2>2. c = x \/ c \in Above(x)
    BY <1>4, <2>1 DEF Above
  <2>3. mem[x] = Absent
    BY <1>2, <1>4, <2>1, <2>2 DEF Closed
  <2>4. Bare(c)
    BY <1>1, <1>4, <1>5, <2>1 DEF SpreadDir
  <2> QED BY <2>1, <2>3, <2>4 DEF Bare
<1>9. faults \in 0..MaxFaults /\ MaxFaults \in Nat
  BY TreeAssumption DEF MarkupInv, TypeOK
<1>10. (Quiet => Quiet') /\ faults' \in 0..MaxFaults /\ (Fails("unlink") => ~ Quiet)
  <2>1. Quiet => Quiet'
    BY <1>7, <1>9, QuietFacts
  <2>2. Fails("unlink") => ~ Quiet
    BY <1>9, QuietFacts
  <2>3. faults' \in 0..MaxFaults
    BY <1>7, <1>9 DEF Fails
  <2> QED BY <2>1, <2>2, <2>3
<1>11. Content(disk'[e].file) = Nothing
  <2>1. CASE disk'[e].file = NoFile
    BY <2>1, EntryFacts
  <2>2. CASE disk'[e].file = disk[e].file /\ ~ Quiet
    <3>1. ~ mem[d].below
      BY <1>1, <1>2, <2>2, TopSound DEF FrameSound
    <3>2. ~ mem[e].dirty
      BY <1>1, <1>2, <1>3, <1>4, <3>1 DEF Led, LedTo, NeedsSync
    <3> QED BY <1>1, <1>5, <2>2, <3>2 DEF SpreadDir
  <2> QED BY <1>7, <1>10, <2>1, <2>2
<1>12. asked[e] = Nothing
  <2>1. asked[e] = Held(mem, e)
    BY <1>2, <1>3 DEF SpreadMem, Pieces
  <2> QED BY <1>1, <2>1, EntryFacts DEF Held
<1> QED BY <1>1, <1>2, <1>3, <1>4, <1>7, <1>8, <1>10, <1>11, <1>12

LEMMA DeleteKeeps ==
    ASSUME MarkupInv, NEW e \in Dirs, Delete(e)
    PROVE  MarkupInv'
<1> DEFINE top == [Top EXCEPT !.removed = TRUE]
<1>1. PICK d : d = Top.dir
  OBVIOUS
<1>2. /\ sync # <<>> /\ Top.step = "delete" /\ mem' = [mem EXCEPT ![e] = Absent] /\ Proceed(top)
      /\ UNCHANGED <<merged, asked>>
  BY DEF Delete, Working
<1>3. /\ d \in Dirs /\ e \in Children(d) /\ e # Root /\ mem[e] # Absent
      /\ ~ mem[Root].tree /\ SpreadMem(mem) /\ Led(mem) /\ NoSub
      /\ \A x \in Dirs : IsBelow(e, x) /\ x # e => mem[x] = Absent
      /\ asked[e] = Nothing
      /\ disk' \in [Dirs -> Folders] /\ \A x \in Dirs \ {e} : disk'[x] = disk[x]
      /\ disk'[e].sub = NoFile
      /\ \A x \in Dirs : IsBelow(e, x) => Content(disk'[x].file) = Nothing
      /\ disk'[e].file \in {NoFile, disk[e].file}
      /\ (Quiet => Quiet') /\ faults' \in 0..MaxFaults
  BY <1>1, DeletedFacts
<1>4. /\ sync \in Seq(Frames) /\ Len(sync) \in Nat \ {0} /\ Top = sync[1] /\ Top \in Frames
      /\ mem[d] # Absent /\ Based /\ Typed(mem) /\ Closed(mem)
  BY <1>1, <1>2, RunningFacts
<1>5. /\ mem'[e] = Absent /\ \A x \in Dirs \ {e} : mem'[x] = mem[x]
      /\ mem' \in [Dirs -> DirStates \cup {Absent}]
  BY <1>2, <1>4 DEF Typed
<1>6. Typed(mem') /\ Root \in Dirs
  BY <1>3, <1>4, <1>5, TreeAssumption DEF Typed
<1>7. \A x \in Dirs : mem'[x] # Absent => /\ x # e /\ mem'[x] = mem[x] /\ mem[x] # Absent
                                          /\ ~ IsBelow(e, x)
  BY <1>3, <1>5
<1>8. d # e /\ IsBelow(d, e) /\ \A x \in Above(d) : x # e /\ x \in Dirs
  <2>1. d # e /\ IsBelow(d, e)
    BY <1>3, ChildFacts
  <2>2. ASSUME NEW x \in Above(d) PROVE x # e /\ x \in Dirs
    BY <1>3, <2>1, BelowOrder DEF Above
  <2> QED BY <2>1, <2>2
<1>9. Closed(mem')
  <2> SUFFICES ASSUME NEW x \in Dirs, mem'[x] # Absent, NEW y \in Above(x)
               PROVE  mem'[y] # Absent /\ mem'[y].listed
    BY DEF Closed
  <2>1. y \in Dirs /\ IsBelow(y, x)
    BY DEF Above
  <2>2. mem[y] # Absent /\ mem[y].listed /\ y # e
    BY <1>4, <1>7, <2>1 DEF Closed
  <2> QED BY <1>5, <2>1, <2>2
<1>10. \A x \in Dirs : Content(disk'[x].file) = IF IsBelow(e, x) THEN Nothing
                                                ELSE Content(disk[x].file)
  BY <1>3, PathFacts
<1>11. /\ NoSub'
       /\ DiskSound'
  <2>1. DiskSound
    BY <1>4 DEF Based
  <2>2. NoSub'
    BY <1>3, <1>6 DEF NoSub
  <2>3. \A x \in Dirs : Plain(Content(disk'[x].file)) = Content(disk'[x].file)
    BY <1>10, <2>1, EntryFacts DEF DiskSound
  <2>4. \A x \in Dirs \ {Root} : disk'[x].sub = NoFile
    BY <1>3, <2>1 DEF DiskSound
  <2> QED BY <2>2, <2>3, <2>4 DEF DiskSound
<1>12. \A x \in Dirs : ~ IsBelow(e, x) => (Visible(x)' <=> Visible(x))
  <2>1. IsBelow(e, e)
    BY PathFacts
  <2>2. \A x \in Dirs : ~ IsBelow(e, x) => disk'[x] = disk[x]
    BY <1>3, <2>1
  <2> QED BY <2>2 DEF Visible
<1>13. \A x \in Dirs, y \in Dirs : IsBelow(y, x) /\ ~ IsBelow(e, x) => ~ IsBelow(e, y)
  BY BelowOrder
<1>14. SpreadMem(mem)'
  <2>1. ~ mem'[Root].tree
    BY <1>3, <1>5, <1>6
  <2>2. Closed(mem)'
    BY <1>9 DEF Closed, Above
  <2>3. Reached(mem)'
    <3> SUFFICES ASSUME NEW x \in Dirs, Content(disk'[x].file) # Nothing,
                        NEW y \in Dirs \ {Root}, IsBelow(y, x)
                 PROVE  Visible(y)' \/ (mem'[y] # Absent /\ Quiet')
      BY DEF Reached
    <3>1. ~ IsBelow(e, x) /\ Content(disk[x].file) # Nothing
      BY <1>10
    <3>2. ~ IsBelow(e, y) /\ y # e
      BY <1>13, <3>1, PathFacts
    <3>3. Visible(y) \/ (mem[y] # Absent /\ Quiet)
      BY <1>3, <3>1 DEF SpreadMem, Pieces, Reached
    <3> QED BY <1>3, <1>5, <1>12, <3>2, <3>3
  <2>4. ASSUME NEW x \in Dirs, mem'[x] # Absent PROVE SpreadDir(mem, x)'
    <3>1. /\ mem'[x] = mem[x] /\ mem[x] # Absent /\ ~ IsBelow(e, x) /\ SpreadDir(mem, x)
      BY <1>3, <1>7, <2>4 DEF SpreadMem, Pieces
    <3>2. WayVisible(x) => WayVisible(x)'
      BY <1>12, <1>13, <3>1 DEF WayVisible
    <3>3. ASSUME NEW c \in Children(x), mem'[c] = Absent, mem[x].listed PROVE Bare(c)'
      <4>1. c \in Dirs
        BY ChildFacts
      <4>2. CASE c = e
        BY <1>3, <4>2 DEF Bare
      <4>3. CASE c # e
        <5>1. Bare(c)
          BY <1>5, <3>1, <3>3, <4>1, <4>3 DEF SpreadDir
        <5> QED BY <1>10, <5>1 DEF Bare
      <4> QED BY <4>2, <4>3
    <3>4. Content(disk'[x].file) = Content(disk[x].file) /\ (Visible(x) => Visible(x)')
      BY <1>10, <1>12, <3>1
    <3> QED BY <3>1, <3>2, <3>3, <3>4 DEF SpreadDir
  <2>5. ASSUME NEW x \in Dirs PROVE asked'[x] = Held(mem, x)'
    <3>1. asked'[x] = Held(mem, x) /\ asked'[e] = Nothing
      BY <1>2, <1>3 DEF SpreadMem, Pieces
    <3>2. CASE x = e
      BY <1>3, <1>5, <3>1, <3>2, PathFacts DEF Held
    <3>3. CASE x # e
      BY <1>3, <1>5, <3>1, <3>3 DEF Held
    <3> QED BY <3>2, <3>3
  <2> QED BY <1>11, <2>1, <2>2, <2>3, <2>4, <2>5 DEF SpreadMem, Pieces
<1>15. Led(mem)'
  <2> SUFFICES ASSUME NEW x \in Dirs, mem'[x] # Absent, NeedsSync(mem', x), NEW y \in Above(x)
               PROVE  mem'[y].below
    BY DEF Led, LedTo
  <2>1. y \in Dirs /\ IsBelow(y, x) /\ mem[x] # Absent /\ NeedsSync(mem, x) /\ y # e
    BY <1>7 DEF Above, NeedsSync
  <2>2. mem[y].below
    BY <1>3, <2>1 DEF Led, LedTo
  <2> QED BY <1>5, <2>1, <2>2
<1>16. top \in Frames /\ top.dir = Top.dir /\ top.step = "delete" /\ top.failed = Top.failed
  BY <1>2, <1>4 DEF Frames
<1> HIDE DEF top
<1>17. sync' \in Seq(Frames) /\ sync'[1] = top
  BY <1>2, <1>4, <1>16, ProceedFacts
<1>18. FrameSound(1)'
  <2>1. FrameSound(1) /\ mem'[d] = mem[d] /\ mem'[Root] = mem[Root]
    BY <1>2, <1>3, <1>5, <1>6, <1>8, TopSound
  <2> QED BY <1>1, <1>2, <1>3, <1>4, <1>16, <1>17, <2>1 DEF FrameSound
<1>19. SyncSound'
  <2>1. \A x \in Above(Top.dir) : disk[x].folder => disk'[x].folder
    BY <1>1, <1>3, <1>8
  <2>2. \A x \in Above(Top.dir) : mem'[x] = mem[x]
    BY <1>1, <1>5, <1>8
  <2>3. mem'[Top.dir] # Absent /\ (mem'[Root].tree <=> mem[Root].tree)
    BY <1>1, <1>3, <1>4, <1>5, <1>6, <1>8
  <2> QED BY <1>2, <1>3, <1>7, <1>9, <1>11, <1>16, <1>18, <2>1, <2>2, <2>3, TopKeepsSync
<1> QED BY <1>2, <1>3, <1>6, <1>11, <1>14, <1>15, <1>17, <1>19, StepKeeps

LEMMA InitKeeps ==
    ASSUME Init
    PROVE  MarkupInv
<1>1. disk = [d \in Dirs |-> [NoFolder EXCEPT !.folder = (d = Root)]]
  BY DEF Init
<1>2. \A d \in Dirs : disk[d] \in Folders /\ disk[d].file = NoFile /\ disk[d].sub = NoFile
  BY <1>1, StateFacts DEF NoFolder, Folders
<1>3. disk \in [Dirs -> Folders] /\ Root \in Dirs
  BY <1>1, <1>2, TreeAssumption
<1>4. DiskSound /\ NoSub
  BY <1>2, <1>3, EntryFacts DEF DiskSound, NoSub
<1>5. asked \in [Dirs -> Contents]
  BY EntryFacts DEF Init
<1>6. Based /\ mem = Fresh /\ sync = <<>>
  BY <1>3, <1>4, <1>5 DEF Based, Init
<1>7. TypeOK
  <2>1. mem \in [Dirs -> DirStates \cup {Absent}] /\ mem[Root] # Absent
    BY <1>6, StateFacts
  <2>2. merged \in BOOLEAN /\ sync \in Seq(Frames)
    <3>1. merged = FALSE
      BY DEF Init
    <3>2. <<>> \in Seq(Frames)
      OBVIOUS
    <3> QED BY <1>6, <3>1, <3>2
  <2>3. faults \in 0..MaxFaults
    BY TreeAssumption DEF Init
  <2> QED BY <1>3, <1>5, <2>1, <2>2, <2>3 DEF TypeOK
<1>8. SpreadMem(mem)
  <2>1. /\ ~ Blank.loaded /\ ~ Blank.listed /\ ~ Blank.dirty /\ ~ Blank.tree
    BY DEF Blank
  <2>2. mem[Root] = Blank /\ \A d \in Dirs \ {Root} : mem[d] = Absent
    BY <1>6, StateFacts
  <2>3. \A d \in Dirs : Content(disk[d].file) = Nothing /\ asked[d] = Nothing
    BY <1>2, EntryFacts DEF Init
  <2>4. Closed(mem) /\ Reached(mem)
    BY <2>2, <2>3, PathFacts DEF Closed, Above, Reached
  <2>5. ASSUME NEW d \in Dirs, mem[d] # Absent PROVE SpreadDir(mem, d)
    <3>1. WayVisible(Root)
      BY PathFacts DEF WayVisible
    <3> QED BY <2>1, <2>2, <2>5, <3>1 DEF SpreadDir
  <2>6. \A d \in Dirs : asked[d] = Held(mem, d)
    BY <2>1, <2>2, <2>3 DEF Held
  <2> QED BY <1>3, <1>4, <2>1, <2>2, <2>4, <2>5, <2>6 DEF SpreadMem, Pieces
<1>9. SyncSound /\ Led(mem)
  BY <1>6, FreshLed DEF SyncSound, StackSound
<1> QED BY <1>4, <1>6, <1>7, <1>8, <1>9 DEF MarkupInv, MemSound, FreshMem, Idle

LEMMA StutterKeeps ==
    ASSUME MarkupInv, UNCHANGED vars
    PROVE  MarkupInv'
<1>1. UNCHANGED <<mem, merged, disk, sync, faults, asked>>
  BY DEF vars
<1>2. PICK r : r = mem
  OBVIOUS
<1>3. (MemSound(r)' <=> MemSound(r)) /\ (SpreadMem(r)' <=> SpreadMem(r))
  BY <1>1, SameMem
<1>4. (MemSound(mem)' <=> MemSound(mem)) /\ (SpreadMem(mem)' <=> SpreadMem(mem))
  BY <1>1, <1>2, <1>3 DEF MemSound, SpreadMem, Pieces, Closed, Reached, SpreadDir, Held, TreeMem,
                          FreshMem, NeedsSync
<1>5. Led(mem)' <=> Led(mem)
  BY <1>1 DEF Led, LedTo, NeedsSync, Above
<1>6. (TypeOK' <=> TypeOK) /\ (DiskSound' <=> DiskSound)
  BY <1>1 DEF TypeOK, DiskSound, NoSub
<1>7. FreshMem(mem) /\ Idle => Idle'
  BY <1>1 DEF Idle
<1>8. FreshMem(mem)' <=> FreshMem(mem)
  BY <1>1 DEF FreshMem, NoSub, SubContent
<1>9. StackSound' <=> StackSound
  <2>1. Top' = Top /\ Quiet' = Quiet /\ NoSub' = NoSub
    BY <1>1 DEF Top, Quiet, NoSub
  <2> QED BY <1>1, <2>1 DEF StackSound
<1>10. \A i : FrameSound(i)' <=> FrameSound(i)
  BY <1>1 DEF FrameSound, NeedsSync, Quiet
<1>11. SyncSound' <=> SyncSound
  BY <1>1, <1>9, <1>10 DEF SyncSound
<1> QED BY <1>1, <1>4, <1>5, <1>6, <1>7, <1>8, <1>11 DEF MarkupInv, Idle

LEMMA NextKeeps ==
    ASSUME HarmlessStep, MarkupInv, Next
    PROVE  MarkupInv'
<1>1. CASE Request
  BY <1>1, RequestKeeps
<1>2. CASE SyncStep
  <2>1. CASE Save
    BY <2>1, SaveKeeps
  <2>2. CASE NothingToSave
    BY <2>2, NothingToSaveKeeps
  <2>3. CASE SaveFails
    BY <2>3, SaveFailsKeeps
  <2>4. CASE \E d \in Dirs : Descend(d)
    BY <2>4, DescendKeeps
  <2>5. CASE \E d \in Dirs : Delete(d)
    BY <2>5, DeleteKeeps
  <2>6. CASE SubdirsDone
    BY <2>6, SubdirsDoneKeeps
  <2>7. CASE DeleteBelow
    BY <2>7, DeleteBelowKeeps
  <2>8. CASE Return
    BY <2>8, ReturnKeeps
  <2> QED BY <1>2, <2>1, <2>2, <2>3, <2>4, <2>5, <2>6, <2>7, <2>8 DEF SyncStep
<1>3. CASE Crash
  BY <1>3, CrashKeeps
<1> QED BY <1>1, <1>2, <1>3 DEF Next

LEMMA MarkupInvHolds ==
    ASSUME Harmless
    PROVE  Spec => []MarkupInv
<1>1. Init => MarkupInv
  BY InitKeeps
<1>2. MarkupInv /\ [Next]_vars => MarkupInv'
  BY NextKeeps, StutterKeeps DEF HarmlessStep
<1> QED BY <1>1, <1>2, PTL DEF Spec

-----------------------------------------------------------------------------
(* The store                                                                 *)

(* What one step may do to the store.                                            *)
Moves == [Store_!Next]_(Store_!vars)

(* What is found on the disk, and what is read, in the next state as in this one.    *)
FilesSay ==
    \A d \in Dirs : /\ OnDisk(d) = IF NoSub THEN IF WayVisible(d) THEN Content(disk[d].file)
                                             ELSE Nothing
                                 ELSE SubContent(d)
                    /\ InFile(d) = IF NoSub THEN Content(disk[d].file) ELSE SubContent(d)

LEMMA NextFacts ==
    /\ MarkupInv => seen = asked /\ FilesSay
    /\ MarkupInv' => seen' = asked' /\ FilesSay'
<1>1. MarkupInv => seen = asked
  BY SeenIsAsked
<1>2. MarkupInv => FilesSay
  BY InvFacts, OnDiskFacts DEF FilesSay
<1>3. (MarkupInv => seen = asked)'
  BY <1>1, PTL
<1>4. (MarkupInv => FilesSay)'
  BY <1>2, PTL
<1> QED BY <1>1, <1>2, <1>3, <1>4

LEMMA SameDiskMoves ==
    ASSUME MarkupInv, MarkupInv', UNCHANGED disk,
           \/ UNCHANGED asked
           \/ \E d \in Dirs, c \in Contents : asked' = [asked EXCEPT ![d] = c]
    PROVE  Moves
<1>1. seen = asked /\ seen' = asked'
  BY NextFacts
<1>2. written' = written /\ saved' = saved
  <2>1. \A d \in Dirs : OnDisk(d)' = OnDisk(d) /\ InFile(d)' = InFile(d)
    BY DEF OnDisk, InFile, FileOf, ContentIn, Visible
  <2> QED BY <2>1 DEF saved, written
<1>3. CASE UNCHANGED asked
  BY <1>1, <1>2, <1>3 DEF Moves, Store_!vars
<1>4. CASE \E d \in Dirs, c \in Contents : asked' = [asked EXCEPT ![d] = c]
  BY <1>1, <1>2, <1>4 DEF Moves, Store_!Next, Store_!Change
<1> QED BY <1>3, <1>4

(* Files are written or emptied as they were asked to be, and what can be found     *)
(* stays so.                                                                 *)
LEMMA FilesMove ==
    ASSUME MarkupInv, MarkupInv', asked' = asked, NoSub, NoSub',
           \A x \in Dirs : Content(disk'[x].file) \in {Content(disk[x].file), asked[x]},
           \A x \in Dirs : (WayVisible(x) => WayVisible(x)') \/ Content(disk'[x].file) = Nothing
    PROVE  Moves
<1>1. seen = asked /\ seen' = asked' /\ FilesSay /\ FilesSay'
  BY NextFacts
<1>2. ASSUME NEW x \in Dirs
      PROVE  /\ written[x] = Content(disk[x].file) /\ written'[x] = Content(disk'[x].file)
             /\ saved[x] = IF WayVisible(x) THEN written[x] ELSE Nothing
             /\ saved'[x] = IF WayVisible(x)' THEN written'[x] ELSE Nothing
  <2>1. /\ OnDisk(x) = IF WayVisible(x) THEN Content(disk[x].file) ELSE Nothing
        /\ InFile(x) = Content(disk[x].file)
    BY <1>1 DEF FilesSay
  <2>2. /\ OnDisk(x)' = IF WayVisible(x)' THEN Content(disk'[x].file) ELSE Nothing
        /\ InFile(x)' = Content(disk'[x].file)
    BY <1>1 DEF FilesSay
  <2> QED BY <2>1, <2>2 DEF written, saved
<1>3. \A x \in Dirs : written'[x] \in {written[x], seen[x]} /\ saved'[x] \in {saved[x], written'[x]}
  BY <1>1, <1>2
<1> QED BY <1>1, <1>3 DEF Moves, Store_!Next, Store_!Save

(* Only a folder is made.                                                        *)
LEMMA FolderMoves ==
    ASSUME MarkupInv, MarkupInv', asked' = asked, Quiet => Quiet',
           NEW d \in Dirs, NEW b \in BOOLEAN, disk[d].folder => b,
           disk' = [disk EXCEPT ![d].folder = b]
    PROVE  Moves
<1>1. /\ NoSub' = NoSub
      /\ \A e \in Dirs : /\ disk'[e].file = disk[e].file /\ disk'[e].sub = disk[e].sub
                         /\ Visible(e) => Visible(e)'
  BY InvFacts, FolderKeeps
<1>2. CASE NoSub
  BY <1>1, <1>2, FilesMove DEF WayVisible
<1>3. CASE ~ NoSub
  <2>1. seen = asked /\ seen' = asked' /\ FilesSay /\ FilesSay' /\ Root \in Dirs
    BY NextFacts, TreeAssumption
  <2>2. \A x \in Dirs : SubContent(x)' = SubContent(x)
    BY <1>1, <2>1 DEF SubContent
  <2>3. \A x \in Dirs : OnDisk(x)' = OnDisk(x) /\ InFile(x)' = InFile(x)
    BY <1>1, <1>3, <2>1, <2>2 DEF FilesSay
  <2>4. written' = written /\ saved' = saved
    BY <2>3 DEF written, saved
  <2> QED BY <2>1, <2>4 DEF Moves, Store_!vars
<1> QED BY <1>2, <1>3

LEMMA StepMoves ==
    ASSUME HarmlessStep, MarkupInv, MarkupInv', SyncStep
    PROVE  Moves
<1>1. asked' = asked /\ sync # <<>>
  BY DEF SyncStep, Save, NothingToSave, SaveFails, Descend, Delete, SubdirsDone, DeleteBelow, Return,
         Working
<1>2. Top.dir \in Dirs /\ Based
  BY <1>1, RunningFacts
<1>3. CASE NothingToSave \/ SubdirsDone \/ DeleteBelow \/ Return
  <2>1. UNCHANGED disk
    BY <1>3 DEF NothingToSave, SubdirsDone, DeleteBelow, Return
  <2> QED BY <1>1, <2>1, SameDiskMoves
<1>4. CASE Save
  <2>1. CASE /\ NoSub /\ NoSub'
             /\ \A x \in Dirs : /\ Visible(x) => Visible(x)'
                                /\ Content(disk'[x].file) \in {Content(disk[x].file), asked[x]}
    BY <1>1, <2>1, FilesMove DEF WayVisible
  <2>2. CASE ~ NoSub' /\ \A x \in Dirs : SubContent(x)' = asked[x]
    <3>1. seen = asked /\ seen' = asked' /\ FilesSay'
      BY NextFacts
    <3>2. \A x \in Dirs : OnDisk(x)' = asked[x] /\ InFile(x)' = asked[x]
      BY <2>2, <3>1 DEF FilesSay
    <3>3. \A x \in Dirs : written'[x] = asked[x] /\ saved'[x] = asked[x]
      BY <3>2 DEF written, saved
    <3> QED BY <1>1, <3>1, <3>3 DEF Moves, Store_!Next, Store_!Save
  <2> QED BY <1>4, <2>1, <2>2, SaveKeeps
<1>5. CASE SaveFails
  <2>1. PICK b \in BOOLEAN : /\ disk[Top.dir].folder => b
                             /\ disk' = [disk EXCEPT ![Top.dir].folder = b]
    BY <1>5, FailureIsQuiet
  <2>2. Quiet => Quiet'
    BY <1>5, FailureIsQuiet
  <2> QED BY <1>1, <1>2, <2>1, <2>2, FolderMoves
<1>6. ASSUME NEW c \in Dirs, Descend(c) PROVE Moves
  <2> DEFINE d == Top.dir
  <2>1. CASE disk' = [disk EXCEPT ![d].folder = CanMake(d)] /\ UNCHANGED faults
    <3>1. PICK b \in BOOLEAN : b <=> CanMake(d)
      OBVIOUS
    <3>2. CanMake(d) \in BOOLEAN /\ (disk[d].folder => CanMake(d)) /\ (Quiet => Quiet')
      BY <2>1 DEF CanMake, Quiet
    <3> QED BY <1>1, <1>2, <2>1, <3>1, <3>2, FolderMoves
  <2>2. CASE UNCHANGED disk
    BY <1>1, <2>2, SameDiskMoves
  <2> QED BY <1>6, <2>1, <2>2 DEF Descend
<1>7. ASSUME NEW e \in Dirs, Delete(e) PROVE Moves
  <2>1. PICK d : d = Top.dir
    OBVIOUS
  <2>2. /\ e # Root /\ SpreadMem(mem) /\ NoSub
        /\ asked[e] = Nothing
        /\ \A x \in Dirs \ {e} : disk'[x] = disk[x]
        /\ \A x \in Dirs : IsBelow(e, x) => Content(disk'[x].file) = Nothing
    BY <1>7, <2>1, DeletedFacts
  <2>3. NoSub'
    BY <2>2, TreeAssumption DEF NoSub
  <2>4. \A x \in Dirs : Content(disk'[x].file) \in {Content(disk[x].file), asked[x]}
    BY <2>2, PathFacts
  <2>5. ASSUME NEW x \in Dirs, ~ IsBelow(e, x), WayVisible(x) PROVE WayVisible(x)'
    BY <2>2, <2>5 DEF WayVisible, Visible
  <2> QED BY <1>1, <2>2, <2>3, <2>4, <2>5, FilesMove
<1> QED BY <1>3, <1>4, <1>5, <1>6, <1>7 DEF SyncStep

LEMMA RequestMoves ==
    ASSUME MarkupInv, MarkupInv', Request
    PROVE  Moves
<1>1. UNCHANGED disk
  BY DEF Request, UnsetValue, SetValue, SetSchema, Becomes, Read, Merge, SyncAll, ClearCache
<1>2. UNCHANGED asked \/ \E d \in Dirs : \E c : asked' = [asked EXCEPT ![d] = c]
  BY DEF Request, UnsetValue, SetValue, SetSchema, Becomes, Read, Merge, SyncAll, ClearCache
<1>3. CASE UNCHANGED asked
  BY <1>1, <1>3, SameDiskMoves
<1>4. CASE \E d \in Dirs : \E c : asked' = [asked EXCEPT ![d] = c]
  <2>0. PICK d \in Dirs : \E c : asked' = [asked EXCEPT ![d] = c]
    BY <1>4
  <2>1. PICK c : asked' = [asked EXCEPT ![d] = c]
    BY <2>0
  <2>2. asked \in [Dirs -> Contents] /\ asked' \in [Dirs -> Contents]
    BY DEF MarkupInv, TypeOK
  <2>3. c \in Contents
    BY <2>1, <2>2
  <2> QED BY <1>1, <2>1, <2>3, SameDiskMoves
<1> QED BY <1>2, <1>3, <1>4

LEMMA CrashMoves ==
    ASSUME MarkupInv, MarkupInv', Crash
    PROVE  Moves
<1>1. seen = asked /\ seen' = asked' /\ asked' = saved' /\ UNCHANGED disk
  BY NextFacts DEF Crash, Restarted
<1>2. written' = written /\ saved' = saved
  <2>1. \A d \in Dirs : OnDisk(d)' = OnDisk(d) /\ InFile(d)' = InFile(d)
    BY <1>1 DEF OnDisk, InFile, FileOf, ContentIn, Visible
  <2> QED BY <2>1 DEF saved, written
<1> QED BY <1>1, <1>2 DEF Moves, Store_!Next, Store_!Crash

(* What reads find that a start of the process would not find is queued to be saved  *)
(* by the next sync: markup_dir_set_entries_need_save() and markup_dir_queue_sync()  *)
(* mark every directory on the way to a change, and only what has been saved, or    *)
(* must be gone, is unmarked.                                                 *)
THEOREM UnsavedStaysQueued ==
    ASSUME Harmless
    PROVE  Spec => []UnsavedIsQueued
<1>1. MarkupInv => UnsavedIsQueued
  BY CleanIsSaved DEF UnsavedIsQueued, MarkupInv
<1> QED BY <1>1, MarkupInvHolds, PTL

(* markup_tree_sync() reports success only when the files hold all that reads find.  *)
THEOREM SuccessMeansSaved ==
    ASSUME Harmless
    PROVE  Spec => SuccessIsSaved
<1>1. MarkupInv => NeedsSync(mem, Root) \/ seen = saved
  BY CleanIsSaved
<1>2. (MarkupInv => NeedsSync(mem, Root) \/ seen = saved)'
  BY <1>1, PTL
<1>3. MarkupInv' => (Succeeds => seen' = saved')
  BY <1>2 DEF Succeeds
<1> QED BY <1>3, MarkupInvHolds, PTL DEF SuccessIsSaved

(* The tree in memory and its files are the store of ConfigStore: a read finds the   *)
(* last change, a file holds what was last asked of its directory, and a crash       *)
(* loses no more than what was not saved.                                       *)
THEOREM MarkupImplemented ==
    ASSUME Harmless
    PROVE  Spec => StoreSpec
<1>1. Init => Store_!Init
  <2> SUFFICES ASSUME Init PROVE Store_!Init
    OBVIOUS
  <2>1. MarkupInv
    BY InitKeeps
  <2>2. seen = asked /\ FilesSay /\ asked = [d \in Dirs |-> Nothing]
    BY <2>1, NextFacts DEF Init
  <2>3. \A d \in Dirs : disk[d].file = NoFile /\ disk[d].sub = NoFile
    BY StateFacts DEF Init, NoFolder
  <2>4. NoSub /\ \A d \in Dirs : Content(disk[d].file) = Nothing
    BY <2>3, TreeAssumption, EntryFacts DEF NoSub
  <2>5. \A d \in Dirs : OnDisk(d) = Nothing /\ InFile(d) = Nothing
    BY <2>2, <2>4 DEF FilesSay
  <2> QED BY <2>2, <2>5 DEF Store_!Init, written, saved
<1>2. MarkupInv /\ MarkupInv' /\ [Next]_vars => Moves
  <2> SUFFICES ASSUME MarkupInv, MarkupInv', [Next]_vars PROVE Moves
    OBVIOUS
  <2>1. CASE UNCHANGED vars
    BY <2>1, SameDiskMoves DEF vars
  <2> QED BY <2>1, StepMoves, RequestMoves, CrashMoves DEF Next, HarmlessStep
<1>3. Spec => Store_!Init /\ [][Store_!Next]_(Store_!vars)
  BY <1>1, <1>2, MarkupInvHolds, PTL DEF Spec, Moves
<1> QED BY <1>3 DEF StoreSpec, Store_!Spec

-----------------------------------------------------------------------------
(* Empty directories, as long as nothing has gone wrong                         *)

(* A folder with nothing in its files and those below.                            *)
Hollow(d) == d # Root /\ disk[d].folder /\ Bare(d)

(* A directory that is new, or has lost its last entry, has been listed: a request   *)
(* has made it, or has asked for its entries.                                    *)
NewIsListed(m) ==
    \A d \in Dirs \ {Root} :
        m[d] # Absent /\ m[d].dirty /\ (m[d].entries = Nothing \/ ~ disk[d].folder) => m[d].listed

(* A folder that holds nothing is that of a directory being worked on, or is about   *)
(* to be deleted by it.                                                        *)
Spent(m, x) == HoldsNothing(m, x) /\ ~ NeedsSync(m, x)
Tended(m, x, d) ==
    m[x] # Absent /\ (IsBelow(x, d) \/ (IsBelow(Parent(x), d) /\ Spent(m, x)))
HollowIsTended == \A x \in Dirs : Hollow(x) => sync # <<>> /\ Tended(mem, x, Top.dir)

(* A directory that holds nothing is loaded as a whole, or will be before its sync   *)
(* returns, since it has lost something.                                        *)
Learnt(m, top) ==
    top.dir # Root /\ Bare(top.dir) =>
        IF top.step = "save" THEN m[top.dir].loaded /\ m[top.dir].listed
        ELSE /\ m[top.dir].listed \/ top.emptied
             /\ \/ m[top.dir].loaded \/ top.removed
                \/ \E c \in Children(top.dir) : m[c] # Absent /\ Bare(c)

Tidy == NewIsListed(mem) /\ HollowIsTended /\ (sync # <<>> => Learnt(mem, Top))

LEMMA SpreadOnly ==
    ASSUME NEW m, MemSound(m), NoSub, faults = 0
    PROVE  SpreadMem(m)
BY DEF MemSound, TreeMem, FreshMem, Quiet

(* A sync in which nothing has gone wrong, before the root has its one file.         *)
LEMMA UntroubledFacts ==
    ASSUME MarkupInv, faults = 0, NoSub, sync # <<>>
    PROVE  /\ ~ Quiet /\ SpreadMem(mem) /\ Led(mem) /\ Closed(mem) /\ Typed(mem) /\ Based
           /\ Top \in Frames /\ Top.dir \in Dirs /\ mem[Top.dir] # Absent
           /\ FrameSound(1) /\ Top = sync[1] /\ sync \in Seq(Frames)
           /\ \A x \in Dirs : mem[x] # Absent => SpreadDir(mem, x)
           /\ \A x \in Dirs : mem[x] # Absent => ~ mem[x].tree
<1>1. ~ Quiet
  BY DEF Quiet
<1>2. /\ sync \in Seq(Frames) /\ Top = sync[1] /\ Top \in Frames /\ Top.dir \in Dirs /\ mem[Top.dir] # Absent
      /\ Based /\ Typed(mem) /\ Closed(mem)
      /\ mem[Root].tree => TreeMem(mem)
      /\ ~ mem[Root].tree => SpreadMem(mem) /\ Led(mem) /\ NoSub
  BY RunningFacts
<1>3. ~ mem[Root].tree
  BY <1>1, <1>2 DEF TreeMem
<1>4. FrameSound(1)
  BY TopSound
<1> QED BY <1>1, <1>2, <1>3, <1>4 DEF SpreadMem, Pieces, SpreadDir

LEMMA GrownListed ==
    ASSUME NEW m, SpreadMem(m), NewIsListed(m), NEW r, NEW d,
           Grown(m, r) \/ GrownTo(m, r, d)
    PROVE  NewIsListed(r)
<1> SUFFICES ASSUME NEW x \in Dirs \ {Root}, r[x] # Absent, r[x].dirty,
                    r[x].entries = Nothing \/ ~ disk[x].folder
             PROVE  r[x].listed
  BY DEF NewIsListed
<1>1. CASE m[x] # Absent
  <2>1. r[x].dirty = m[x].dirty /\ (m[x].listed => r[x].listed)
        /\ (m[x].loaded => r[x].entries = m[x].entries)
    BY <1>1 DEF Grown, GrownTo
  <2>2. m[x].loaded
    BY <1>1, <2>1 DEF SpreadMem, Pieces, SpreadDir
  <2> QED BY <1>1, <2>1, <2>2 DEF NewIsListed
<1>2. CASE m[x] = Absent
  BY <1>2 DEF Grown, GrownTo, NeedsSync
<1> QED BY <1>1, <1>2

LEMMA MarkedListed ==
    ASSUME NEW l, SpreadMem(l), NewIsListed(l), NEW d \in Dirs, l[d] # Absent,
           NEW c, c # Nothing, NEW r, Marked(l, r, d, c)
    PROVE  NewIsListed(r)
<1> SUFFICES ASSUME NEW x \in Dirs \ {Root}, r[x] # Absent, r[x].dirty,
                    r[x].entries = Nothing \/ ~ disk[x].folder
             PROVE  r[x].listed
  BY DEF NewIsListed
<1>1. CASE x = d
  <2>1. ~ disk[d].folder /\ r[d].listed = l[d].listed
    BY <1>1 DEF Marked
  <2>2. l[d].dirty
    BY <1>1, <2>1 DEF SpreadMem, Pieces, SpreadDir, Visible
  <2> QED BY <1>1, <2>1, <2>2 DEF NewIsListed
<1>2. CASE x \in Above(d)
  <2>1. l[x] # Absent
    BY <1>2 DEF SpreadMem, Pieces, Closed
  <2>2. d # Root
    BY <1>2, PathFacts DEF Above
  <2>3. ~ l[d].inside
    BY <2>2 DEF SpreadMem, Pieces, SpreadDir
  <2>4. r[x].dirty = l[x].dirty /\ r[x].entries = l[x].entries /\ r[x].listed = l[x].listed
    BY <1>2, <2>3 DEF Marked
  <2> QED BY <2>1, <2>4 DEF NewIsListed
<1>3. CASE ~ IsBelow(x, d)
  BY <1>3 DEF Marked, NewIsListed
<1> QED BY <1>1, <1>2, <1>3 DEF Above

(* A request that sets or unsets something.                                      *)
LEMMA EntryListed ==
    ASSUME MarkupInv, faults = 0, NoSub, NewIsListed(mem), NEW d \in Dirs, NEW k \in Keys,
           NEW m, m = Entry(d, k),
           NEW r, r = m \/ \E e \in Entries : r = Changed(m, d, k, e)
    PROVE  NewIsListed(r)
<1> DEFINE l == LoadEntries(Walk(mem, d, TRUE), d)
<1>1. Based /\ Sound(mem)
  BY InvFacts
<1>2. SpreadMem(mem)
  BY <1>1, SpreadOnly DEF Sound
<1>3. Sound(l) /\ GrownTo(mem, l, d) /\ l[d] # Absent
  BY <1>1, Entered
<1>4. /\ m \in Mems /\ Closed(m) /\ m[d] # Absent
      /\ m[d].entries \in Contents /\ m[d].entries[k] \in Entries
      /\ m = l \/ \E c \in Contents : Marked(l, m, d, c)
  BY EntryMarks
<1> HIDE DEF l
<1>5. SpreadMem(l) /\ NewIsListed(l)
  BY <1>2, <1>3, SpreadOnly, GrownListed DEF Sound
<1>6. NoEntry \notin Entries /\ Nothing[k] = NoEntry
  BY MarksAssumption DEF Nothing
<1>7. CASE r = m
  <2>1. CASE m = l
    BY <1>5, <1>7, <2>1
  <2>2. ASSUME NEW c \in Contents, Marked(l, m, d, c) PROVE NewIsListed(r)
    <3>1. c # Nothing
      BY <1>4, <1>6, <2>2 DEF Marked
    <3> QED BY <1>3, <1>5, <1>7, <2>2, <3>1, MarkedListed
  <2> QED BY <1>4, <2>1, <2>2
<1>8. ASSUME NEW e \in Entries, r = Changed(m, d, k, e) PROVE NewIsListed(r)
  <2> DEFINE c == [m[d].entries EXCEPT ![k] = e]
  <2>1. c \in Contents /\ c # Nothing
    <3>1. c \in Contents /\ c[k] = e
      BY <1>4 DEF Contents
    <3> QED BY <1>6, <3>1
  <2>2. [m EXCEPT ![d].entries[k] = e] = [m EXCEPT ![d].entries = c]
    OBVIOUS
  <2> HIDE DEF c
  <2>3. Marked(m, r, d, c)
    BY <1>4, <1>8, <2>1, <2>2, ChangeMarks DEF Changed
  <2>4. Marked(l, r, d, c)
    BY <1>4, <2>3, MarkedTwice
  <2> QED BY <1>3, <1>5, <2>1, <2>4, MarkedListed
<1> QED BY <1>7, <1>8

LEMMA RequestTidy ==
    ASSUME MarkupInv, faults = 0, NoSub, Tidy, Request
    PROVE  Tidy'
<1>1. Idle /\ UNCHANGED disk /\ (sync' = <<>> \/ sync' = <<Frame(Root)>>)
  BY DEF Request, UnsetValue, SetValue, SetSchema, Becomes, Read, Merge, SyncAll, ClearCache, Idle
<1>2. HollowIsTended'
  <2>1. \A x \in Dirs : ~ Hollow(x)
    BY <1>1 DEF Tidy, HollowIsTended, Idle
  <2>2. \A x \in Dirs : ~ Hollow(x)'
    BY <1>1, <2>1 DEF Hollow, Bare
  <2> QED BY <2>2 DEF HollowIsTended
<1>3. sync' # <<>> => Learnt(mem, Top)'
  <2>1. ASSUME sync' # <<>> PROVE Top'.dir = Root
    BY <1>1, <2>1 DEF Top, Frame
  <2> QED BY <2>1 DEF Learnt
<1>4. PICK r : r = mem'
  OBVIOUS
<1>5. NewIsListed(r)
  <2>1. NewIsListed(mem) /\ Sound(mem) /\ SpreadMem(mem)
    BY InvFacts, SpreadOnly DEF Tidy, Sound
  <2>2. ASSUME NEW d \in Dirs, NEW k \in Keys, UnsetValue(d, k) PROVE NewIsListed(r)
    <3> DEFINE m == Entry(d, k)
               e == m[d].entries[k]
               f == [e EXCEPT !.value = None]
    <3>1. r = IF e.value = None THEN m ELSE Changed(m, d, k, f)
      BY <1>4, <2>2 DEF UnsetValue, Becomes
    <3>2. f \in Entries
      <4>1. e \in Entries
        BY EntryMarks
      <4> HIDE DEF e
      <4> QED BY <4>1 DEF Entries
    <3> HIDE DEF f, m
    <3>3. m = Entry(d, k)
      BY DEF m
    <3>4. r = m \/ r = Changed(m, d, k, f)
      BY <3>1
    <3> QED BY <2>1, <3>2, <3>3, <3>4, EntryListed
  <2>3. ASSUME NEW d \in Dirs, NEW k \in Keys, NEW v \in Values, SetValue(d, k, v) PROVE NewIsListed(r)
    <3> DEFINE m == Entry(d, k)
               e == m[d].entries[k]
               f == [e EXCEPT !.value = v]
    <3>1. r = Changed(m, d, k, f)
      BY <1>4, <2>3 DEF SetValue, Becomes
    <3>2. f \in Entries
      <4>1. e \in Entries
        BY EntryMarks
      <4> HIDE DEF e
      <4> QED BY <4>1 DEF Entries
    <3> HIDE DEF f, m
    <3>3. m = Entry(d, k)
      BY DEF m
    <3> QED BY <2>1, <3>1, <3>2, <3>3, EntryListed
  <2>4. ASSUME NEW d \in Dirs, NEW k \in Keys, NEW s \in Schemas \cup {None}, SetSchema(d, k, s)
        PROVE  NewIsListed(r)
    <3> DEFINE m == Entry(d, k)
               e == m[d].entries[k]
               f == [e EXCEPT !.schema = s]
    <3>1. r = Changed(m, d, k, f)
      BY <1>4, <2>4 DEF SetSchema, Becomes
    <3>2. f \in Entries
      <4>1. e \in Entries
        BY EntryMarks
      <4> HIDE DEF e
      <4> QED BY <4>1 DEF Entries
    <3> HIDE DEF f, m
    <3>3. m = Entry(d, k)
      BY DEF m
    <3> QED BY <2>1, <3>1, <3>2, <3>3, EntryListed
  <2>5. ASSUME NEW d \in Dirs, NEW what, Read(d, what) PROVE NewIsListed(r)
    BY <1>4, <2>1, <2>5, ReadGrows, GrownListed
  <2>6. CASE Merge \/ SyncAll
    BY <1>4, <2>1, <2>6 DEF Merge, SyncAll
  <2>7. CASE ClearCache
    BY <1>4, <2>7, StateFacts DEF ClearCache, NewIsListed
  <2> QED BY <2>2, <2>3, <2>4, <2>5, <2>6, <2>7 DEF Request
<1>6. NewIsListed(mem)'
  BY <1>1, <1>4, <1>5 DEF NewIsListed
<1> QED BY <1>2, <1>3, <1>6 DEF Tidy

LEMMA TendedFrame ==
    ASSUME NEW m, NEW r, NEW x \in Dirs, NEW d \in Dirs, Tended(m, x, d),
           r[x] = m[x], \A c \in Dirs : c # x /\ r[c] # Absent => m[c] # Absent
    PROVE  Tended(r, x, d)
<1>1. HoldsNothing(m, x) => HoldsNothing(r, x)
  BY DEF HoldsNothing, In
<1> QED BY <1>1 DEF Tended, Spent, NeedsSync

(* The frame that goes on.                                                      *)
LEMMA ProceedTop ==
    ASSUME MarkupInv, sync # <<>>, NEW top \in Frames, Proceed(top)
    PROVE  sync' # <<>> /\ Top' = top
BY RunningFacts, ProceedFacts

LEMMA NothingToSaveTidy ==
    ASSUME MarkupInv, faults = 0, NoSub, Tidy, NothingToSave
    PROVE  Tidy'
<1>1. PICK d : d = Top.dir
  OBVIOUS
<1>2. PICK m : m = Whole(d)
  OBVIOUS
<1> DEFINE top == [Top EXCEPT !.step = IF m[d].below /\ ~ m[d].tree THEN "subdirs" ELSE "delete",
                              !.emptied = FALSE]
<1>3. /\ Working("save") /\ sync # <<>> /\ Top.step = "save" /\ ~ Writes(m, d)
      /\ mem' = m /\ Proceed(top) /\ UNCHANGED disk
  BY <1>1, <1>2 DEF NothingToSave, Working, Saved
<1>4. m = mem
  <2>1. ~ mem[Root].tree
    BY <1>3, UntroubledFacts, TreeAssumption DEF SpreadMem
  <2>2. NeedsSync(m, d) /\ (m = mem \/ m[d].tree)
    BY <1>1, <1>2, <1>3, WholeFacts
  <2> QED BY <1>3, <2>2 DEF Writes, NeedsSync
<1>5. Top \in Frames /\ d \in Dirs
  BY <1>1, <1>3, UntroubledFacts
<1>6. top \in Frames /\ top.dir = d /\ top.step # "save"
  BY <1>1, <1>5 DEF Frames
<1> HIDE DEF top
<1>7. sync' # <<>> /\ Top' = top
  BY <1>3, <1>6, ProceedTop
<1>8. mem' = mem
  BY <1>3, <1>4
<1>9. NewIsListed(mem)'
  BY <1>3, <1>8 DEF Tidy, NewIsListed
<1>10. HollowIsTended'
  BY <1>1, <1>3, <1>6, <1>7, <1>8
  DEF Tidy, HollowIsTended, Hollow, Bare, Tended, Spent, HoldsNothing, NeedsSync, In
<1>11. Learnt(mem, Top)'
  <2>1. Learnt(mem, Top)
    BY <1>3 DEF Tidy
  <2>2. d # Root /\ Bare(d) => mem[d].loaded /\ mem[d].listed
    BY <1>1, <1>3, <2>1 DEF Learnt
  <2> QED BY <1>3, <1>6, <1>7, <1>8, <2>2 DEF Learnt, Bare
<1> QED BY <1>9, <1>10, <1>11 DEF Tidy

LEMMA SubdirsDoneTidy ==
    ASSUME MarkupInv, faults = 0, NoSub, Tidy, SubdirsDone
    PROVE  Tidy'
<1> DEFINE top == [Top EXCEPT !.step = "delete"]
<1>1. PICK d : d = Top.dir
  OBVIOUS
<1>2. /\ sync # <<>> /\ Top.step = "subdirs" /\ Proceed(top) /\ UNCHANGED disk
      /\ mem' = [mem EXCEPT ![d].below = Top.failed]
  BY <1>1 DEF SubdirsDone, Working
<1>3. Top \in Frames /\ d \in Dirs /\ Typed(mem) /\ mem[d] # Absent
  BY <1>1, <1>2, UntroubledFacts
<1>4. top \in Frames /\ top.dir = d /\ top.step = "delete" /\ top.emptied = Top.emptied
      /\ top.removed = Top.removed
  BY <1>1, <1>3 DEF Frames
<1> HIDE DEF top
<1>5. sync' # <<>> /\ Top' = top
  BY <1>2, <1>4, ProceedTop
<1>6. /\ mem'[d] # Absent /\ mem'[d].entries = mem[d].entries /\ mem'[d].dirty = mem[d].dirty
      /\ mem'[d].loaded = mem[d].loaded /\ mem'[d].listed = mem[d].listed
      /\ \A x \in Dirs \ {d} : mem'[x] = mem[x]
  <2>1. mem[d] \in DirStates
    BY <1>3 DEF Typed
  <2>2. mem'[d] = [mem[d] EXCEPT !.below = Top.failed] /\ \A x \in Dirs \ {d} : mem'[x] = mem[x]
    BY <1>2, <1>3 DEF Typed
  <2>3. Top.failed \in BOOLEAN
    BY <1>3, FrameFacts
  <2>4. mem'[d] \in DirStates
    BY <2>1, <2>2, <2>3 DEF DirStates
  <2> QED BY <2>1, <2>2, <2>4, StateFacts DEF DirStates
<1>7. NewIsListed(mem)'
  <2> SUFFICES ASSUME NEW x \in Dirs \ {Root}, mem'[x] # Absent, mem'[x].dirty,
                      mem'[x].entries = Nothing \/ ~ disk[x].folder
               PROVE  mem'[x].listed
    BY <1>2 DEF NewIsListed
  <2>1. NewIsListed(mem)
    BY DEF Tidy
  <2>2. CASE x = d
    BY <1>3, <1>6, <2>1, <2>2 DEF NewIsListed
  <2>3. CASE x # d
    BY <1>6, <2>1, <2>3 DEF NewIsListed
  <2> QED BY <2>2, <2>3
<1>8. HollowIsTended'
  <2> SUFFICES ASSUME NEW x \in Dirs, Hollow(x)' PROVE Tended(mem', x, d)
    BY <1>4, <1>5 DEF HollowIsTended, Tended, Spent, HoldsNothing, NeedsSync, In
  <2>1. Tended(mem, x, d)
    BY <1>1, <1>2 DEF Tidy, HollowIsTended, Hollow, Bare
  <2>2. CASE x = d
    BY <1>3, <1>6, <2>2, PathFacts DEF Tended
  <2>3. CASE x # d
    <3>1. mem'[x] = mem[x]
      BY <1>6, <2>3
    <3>2. \A c \in Dirs : mem'[c] # Absent => mem[c] # Absent
      BY <1>3, <1>6
    <3> DEFINE r == mem'
    <3>3. r[x] = mem[x] /\ \A c \in Dirs : c # x /\ r[c] # Absent => mem[c] # Absent
      BY <3>1, <3>2
    <3> HIDE DEF r
    <3>4. Tended(r, x, d)
      BY <1>3, <2>1, <3>3, TendedFrame
    <3> QED BY <3>4 DEF r
  <2> QED BY <2>2, <2>3
<1>9. Learnt(mem, Top)'
  <2>1. Learnt(mem, Top) /\ \A c \in Children(d) : c \in Dirs
    BY <1>2, <1>3, ChildFacts DEF Tidy
  <2>2. \A c \in Dirs : mem'[c] # Absent <=> mem[c] # Absent
    BY <1>3, <1>6
  <2> QED BY <1>1, <1>2, <1>4, <1>5, <1>6, <2>1, <2>2 DEF Learnt, Bare
<1> QED BY <1>7, <1>8, <1>9 DEF Tidy

LEMMA DescendTidy ==
    ASSUME MarkupInv, faults = 0, faults' = 0, NoSub, Tidy, NEW c \in Dirs, Descend(c)
    PROVE  Tidy'
<1>1. PICK d : d = Top.dir
  OBVIOUS
<1> DEFINE f == Frame(c)
           g == [Top EXCEPT !.seen = @ \cup {c}]
<1>2. /\ sync # <<>> /\ c \in Pending /\ UNCHANGED mem
      /\ disk' = [disk EXCEPT ![d].folder = CanMake(d)]
      /\ sync' = <<f, g>> \o Tail(sync)
  BY <1>1 DEF Descend, Working, Fails
<1>3. /\ Top \in Frames /\ d \in Dirs /\ Closed(mem) /\ Based /\ mem[d] # Absent
      /\ \A x \in Dirs : mem[x] # Absent => SpreadDir(mem, x)
      /\ sync \in Seq(Frames)
  BY <1>1, <1>2, UntroubledFacts
<1>4. /\ c \in Children(d) /\ c # Root /\ mem[c] # Absent /\ NeedsSync(mem, c)
      /\ IsBelow(d, c) /\ ~ IsBelow(c, d)
  <2>1. c \in Children(d) /\ mem[c] # Absent /\ NeedsSync(mem, c)
    BY <1>1, <1>2 DEF Pending, In
  <2>2. c # Root /\ IsBelow(d, c) /\ c # d
    BY <1>3, <2>1, ChildFacts
  <2> QED BY <1>3, <2>1, <2>2, BelowOrder
<1>5. /\ f \in Frames /\ f.dir = c /\ f.step = "save"
      /\ g \in Frames
  BY <1>3 DEF Frame, Frames
<1> HIDE DEF f, g
<1>6. sync' # <<>> /\ Top' = f
  BY <1>2, <1>3, <1>5, DescendStack
<1>7. /\ \A x \in Dirs : disk'[x].file = disk[x].file /\ (disk[x].folder => disk'[x].folder)
      /\ \A x \in Dirs \ {d} : disk'[x] = disk[x]
  <2>1. disk[d] \in Folders /\ disk'[d] = [disk[d] EXCEPT !.folder = CanMake(d)]
        /\ \A x \in Dirs \ {d} : disk'[x] = disk[x]
    BY <1>2, <1>3 DEF Based
  <2>2. disk'[d].file = disk[d].file /\ disk'[d].folder = CanMake(d)
    BY <2>1 DEF Folders
  <2> QED BY <2>1, <2>2 DEF CanMake
<1>8. \A x \in Dirs : Bare(x)' <=> Bare(x)
  BY <1>7 DEF Bare
<1>9. NewIsListed(mem)'
  BY <1>2, <1>7 DEF Tidy, NewIsListed
<1>10. \A x \in Dirs : Hollow(x) => Tended(mem, x, d)
  BY <1>1 DEF Tidy, HollowIsTended
<1>11. HollowIsTended'
  <2> SUFFICES ASSUME NEW x \in Dirs, Hollow(x)' PROVE Tended(mem, x, c)
    BY <1>2, <1>5, <1>6 DEF HollowIsTended, Tended, Spent, HoldsNothing, NeedsSync, In
  <2>1. CASE x = d
    BY <1>3, <1>4, <2>1 DEF Tended
  <2>2. CASE x # d
    <3>1. Hollow(x)
      BY <1>7, <1>8, <2>2 DEF Hollow
    <3>2. Tended(mem, x, d) /\ x # Root
      BY <1>10, <3>1 DEF Hollow
    <3>3. Parent(x) \in Dirs
      <4>1. Len(x) - 1 \in 0..Len(x)
        BY <3>2, PathFacts
      <4> QED BY <4>1, PathFacts DEF Parent
    <3>4. /\ IsBelow(x, d) => IsBelow(x, c)
          /\ IsBelow(Parent(x), d) => IsBelow(Parent(x), c)
      BY <1>3, <1>4, <3>3, BelowOrder
    <3> QED BY <3>2, <3>4 DEF Tended
  <2> QED BY <2>1, <2>2
<1>12. Learnt(mem, Top)'
  <2>1. ASSUME Bare(c) PROVE mem[c].loaded /\ mem[c].listed
    <3>1. ~ Tended(mem, c, d)
      BY <1>4 DEF Tended, Spent
    <3>2. ~ disk[c].folder
      BY <1>4, <1>10, <2>1, <3>1 DEF Hollow
    <3>3. mem[c].dirty
      BY <1>3, <1>4, <3>2 DEF SpreadDir, Visible
    <3> QED BY <1>3, <1>4, <3>2, <3>3 DEF SpreadDir, Tidy, NewIsListed
  <2> QED BY <1>2, <1>5, <1>6, <1>8, <2>1 DEF Learnt
<1> QED BY <1>9, <1>11, <1>12 DEF Tidy

LEMMA SaveTidy ==
    ASSUME MarkupInv, faults = 0, NoSub, NoSub', Tidy, Save
    PROVE  Tidy'
<1>1. PICK d : d = Top.dir
  OBVIOUS
<1>2. PICK m : m = Whole(d)
  OBVIOUS
<1>3. Working("save") /\ sync # <<>>
  BY DEF Save, Working
<1>4. Top \in Frames /\ d \in Dirs /\ Closed(mem) /\ mem[d] # Absent /\ ~ mem[d].tree
      /\ ~ mem[Root].tree
  BY <1>1, <1>3, UntroubledFacts DEF SpreadMem
<1>5. m = mem
  <2>1. CASE d = Root /\ Len(sync) = 1 /\ Typed(m) /\ Laden(m)
    BY <1>1, <1>2, <2>1, SaveTreeKeeps
  <2> QED BY <1>1, <1>2, <1>3, <2>1, WholeFacts
<1>6. PICK P, c : P = Plain(mem[d].entries) /\ c = Cleaned(mem, d)
  OBVIOUS
<1>7. /\ mem[d].dirty /\ Saved(Top, mem', c # mem)
      /\ c[d].entries = P
      /\ \A e \in Dirs \ {d} : mem'[e] = mem[e]
      /\ ~ mem'[d].dirty /\ mem'[d].loaded /\ mem'[d].listed = mem[d].listed
      /\ mem'[d] # Absent
      /\ \A e \in Dirs \ {d} : disk'[e] = disk[e]
      /\ \A e \in Dirs : Content(disk'[e].file) = IF e = d THEN P ELSE Content(disk[e].file)
      /\ \A e \in Dirs : mem'[e] # Absent <=> mem[e] # Absent
  <2>1. Whole(d) = mem /\ ~ mem[Root].tree /\ ~ mem[d].tree
    BY <1>2, <1>4, <1>5
  <2> QED BY <1>1, <1>6, <2>1, SavedAlone
<1>8. PICK b \in BOOLEAN : b <=> c # mem
  OBVIOUS
<1>9. PICK top \in Frames :
         /\ top.dir = d /\ top.emptied = b
         /\ top.step = IF mem'[d].below /\ ~ mem'[d].tree THEN "subdirs" ELSE "delete"
         /\ Proceed(top)
  <2>1. PICK r : r = mem'
    OBVIOUS
  <2>2. Saved(Top, r, b)
    BY <1>7, <1>8, <2>1 DEF Saved
  <2> QED BY <1>1, <1>3, <2>1, <2>2, SavedFrame
<1>10. sync' # <<>> /\ Top' = top
  BY <1>3, <1>9, ProceedTop
<1>11. NewIsListed(mem)'
  <2> SUFFICES ASSUME NEW x \in Dirs \ {Root}, mem'[x] # Absent, mem'[x].dirty,
                      mem'[x].entries = Nothing \/ ~ disk'[x].folder
               PROVE  mem'[x].listed
    BY DEF NewIsListed
  <2>1. x # d
    BY <1>7
  <2> QED BY <1>7, <2>1 DEF Tidy, NewIsListed
<1>12. HollowIsTended'
  <2> SUFFICES ASSUME NEW x \in Dirs, Hollow(x)' PROVE Tended(mem', x, d)
    BY <1>9, <1>10 DEF HollowIsTended, Tended, Spent, HoldsNothing, NeedsSync, In
  <2>1. CASE IsBelow(x, d)
    BY <1>4, <1>7, <2>1 DEF Tended, Closed, Above
  <2>2. CASE ~ IsBelow(x, d)
    <3>1. x # d
      BY <2>2, PathFacts
    <3>2. Hollow(x)
      BY <1>7, <2>2, <3>1 DEF Hollow, Bare
    <3>3. Tended(mem, x, d)
      BY <1>1, <3>2 DEF Tidy, HollowIsTended
    <3>4. PICK r : r = mem'
      OBVIOUS
    <3>5. Tended(r, x, d)
      BY <1>4, <1>7, <3>1, <3>3, <3>4, TendedFrame
    <3> QED BY <3>4, <3>5
  <2> QED BY <2>1, <2>2
<1>13. Learnt(mem, Top)'
  <2> SUFFICES ASSUME d # Root, Bare(d)'
               PROVE  mem'[d].loaded /\ (mem'[d].listed \/ b)
    BY <1>9, <1>10 DEF Learnt
  <2>1. P = Nothing
    BY <1>4, <1>7, PathFacts DEF Bare
  <2>2. CASE mem[d].entries = Nothing
    BY <1>4, <1>7, <2>2 DEF Tidy, NewIsListed
  <2>3. CASE mem[d].entries # Nothing
    <3>1. c # mem
      BY <1>7, <2>1, <2>3
    <3> QED BY <1>7, <1>8, <3>1
  <2> QED BY <1>7, <2>2, <2>3
<1> QED BY <1>11, <1>12, <1>13 DEF Tidy

(* The file and the folder of the directory are gone.                              *)
LEMMA DeleteTidy ==
    ASSUME MarkupInv, faults = 0, faults' = 0, NoSub, Tidy, NEW e \in Dirs, Delete(e)
    PROVE  Tidy'
<1> DEFINE top == [Top EXCEPT !.removed = TRUE]
<1>1. PICK d : d = Top.dir
  OBVIOUS
<1>2. /\ sync # <<>> /\ Top.step = "delete" /\ mem' = [mem EXCEPT ![e] = Absent] /\ Proceed(top)
      /\ disk' = Without(e, TRUE) /\ mem[e].loaded /\ mem[e].listed /\ mem[e].entries = Nothing
      /\ Children(e) \cap In(mem) = {}
  BY DEF Delete, Working, Fails, Emptied, HoldsNothing
<1>3. /\ d \in Dirs /\ e \in Children(d) /\ e # Root /\ mem[e] # Absent
      /\ \A x \in Dirs : IsBelow(e, x) /\ x # e => mem[x] = Absent
      /\ \A x \in Dirs \ {e} : disk'[x] = disk[x]
      /\ \A x \in Dirs : IsBelow(e, x) => Content(disk'[x].file) = Nothing
  BY <1>1, DeletedFacts
<1>4. /\ Top \in Frames /\ Typed(mem) /\ Led(mem) /\ Based /\ ~ Quiet /\ FrameSound(1) /\ Top = sync[1]
      /\ SpreadDir(mem, e) /\ ~ mem[e].tree
  BY <1>2, <1>3, UntroubledFacts
<1>5. top \in Frames /\ top.dir = d /\ top.step = "delete" /\ top.emptied = Top.emptied /\ top.removed
  BY <1>1, <1>2, <1>4 DEF Frames
<1> HIDE DEF top
<1>6. sync' # <<>> /\ Top' = top
  BY <1>2, <1>5, ProceedTop
<1>7. /\ mem'[e] = Absent /\ \A x \in Dirs \ {e} : mem'[x] = mem[x]
      /\ d # e
  BY <1>2, <1>3, <1>4, ChildFacts DEF Typed
<1>8. ~ mem[e].dirty
  <2>1. ~ mem[d].below
    BY <1>1, <1>2, <1>4 DEF FrameSound
  <2>2. d \in Above(e)
    BY <1>3, ChildFacts
  <2> QED BY <1>3, <1>4, <2>1, <2>2 DEF Led, LedTo, NeedsSync
<1>9. \A c \in Children(e) : c \in Dirs /\ c # Root /\ mem[c] = Absent /\ Bare(c)
  BY <1>2, <1>3, <1>4, ChildFacts DEF SpreadDir, In
<1>10. \A x \in Dirs : IsBelow(e, x) => Content(disk[x].file) = Nothing
  <2> SUFFICES ASSUME NEW x \in Dirs, IsBelow(e, x) PROVE Content(disk[x].file) = Nothing
    OBVIOUS
  <2>1. CASE x = e
    BY <1>2, <1>4, <1>8, <2>1 DEF SpreadDir
  <2>2. CASE x # e
    <3>1. PICK c \in Children(e) : IsBelow(c, x)
      BY <2>2, ChildTowards DEF Above
    <3> QED BY <1>9, <3>1 DEF Bare
  <2> QED BY <2>1, <2>2
<1>11. \A x \in Dirs : Bare(x)' <=> Bare(x)
  <2>1. \A x \in Dirs : Content(disk'[x].file) = Content(disk[x].file)
    BY <1>3, <1>10, PathFacts
  <2> QED BY <2>1 DEF Bare
<1>12. \A c \in Children(e) : ~ disk[c].folder
  BY <1>9 DEF Tidy, HollowIsTended, Hollow, Tended
<1>13. disk'[e] = NoFolder
  <2> DEFINE rest == [disk[e] EXCEPT !.file = IF mem[e].tree THEN @ ELSE NoFile,
                                     !.sub = IF mem[e].tree THEN NoFile ELSE @]
  <2>1. disk[e] \in Folders /\ disk[e].sub = NoFile /\ disk \in [Dirs -> Folders]
    BY <1>3, <1>4 DEF Based, DiskSound
  <2>2. rest.file = NoFile /\ rest.sub = NoFile
    BY <1>4, <2>1 DEF Folders
  <2>3. Without(e, TRUE) = [disk EXCEPT ![e] = NoFolder]
    BY <1>12, <2>2 DEF Without
  <2> QED BY <1>2, <2>1, <2>3
<1>14. NewIsListed(mem)'
  <2> SUFFICES ASSUME NEW x \in Dirs \ {Root}, mem'[x] # Absent, mem'[x].dirty,
                      mem'[x].entries = Nothing \/ ~ disk'[x].folder
               PROVE  mem'[x].listed
    BY DEF NewIsListed
  <2>1. x # e
    BY <1>7
  <2> QED BY <1>3, <1>7, <2>1 DEF Tidy, NewIsListed
<1>15. HollowIsTended'
  <2> SUFFICES ASSUME NEW x \in Dirs, Hollow(x)' PROVE Tended(mem', x, d)
    BY <1>5, <1>6 DEF HollowIsTended, Tended, Spent, HoldsNothing, NeedsSync, In
  <2>1. x # e
    BY <1>13 DEF Hollow, NoFolder
  <2>2. Hollow(x)
    BY <1>3, <1>11, <2>1 DEF Hollow
  <2>3. Tended(mem, x, d)
    BY <1>1, <2>2 DEF Tidy, HollowIsTended
  <2>4. PICK r : r = mem'
    OBVIOUS
  <2>5. Tended(r, x, d)
    BY <1>3, <1>7, <2>1, <2>3, <2>4, TendedFrame
  <2> QED BY <2>4, <2>5
<1>16. Learnt(mem, Top)'
  <2> SUFFICES ASSUME d # Root, Bare(d)' PROVE mem'[d].listed \/ top.emptied
    BY <1>5, <1>6 DEF Learnt
  <2>1. Bare(d) /\ mem'[d] = mem[d]
    BY <1>3, <1>7, <1>11
  <2> QED BY <1>1, <1>2, <1>5, <2>1 DEF Tidy, Learnt
<1> QED BY <1>14, <1>15, <1>16 DEF Tidy

(* A directory that is done: what is left of its folder and those below is gone from  *)
(* the disk, or it holds nothing itself.                                         *)
LEMMA DoneFacts ==
    ASSUME MarkupInv, faults = 0, NoSub, Tidy, Return, NEW d, d = Top.dir, NEW m, m = Known(Top)
    PROVE  /\ SpreadMem(m) /\ Grown(mem, m)
           /\ \A c \in Dirs : mem[c] = Absent /\ Bare(c) => m[c] = Absent
           /\ \A x \in Children(d) : ~ Hollow(x)
           /\ Hollow(d) => HoldsNothing(m, d) /\ ~ NeedsSync(m, d)
<1>1. /\ sync # <<>> /\ Top.step = "delete"
      /\ IF mem[d].tree THEN EmptiedBelow(mem, d) = {} ELSE Emptied = {}
  BY DEF Return, Working
<1>2. /\ Top \in Frames /\ d \in Dirs /\ Closed(mem) /\ Led(mem) /\ Typed(mem) /\ mem[d] # Absent
      /\ SpreadMem(mem) /\ ~ Quiet /\ FrameSound(1) /\ Top = sync[1] /\ Based
      /\ \A x \in Dirs : mem[x] # Absent => SpreadDir(mem, x)
      /\ ~ mem[d].tree
  BY <1>1, UntroubledFacts
<1>3. SpreadMem(m) /\ Grown(mem, m)
      /\ (Top.emptied => m[d].listed) /\ (Top.removed => m[d].loaded)
  BY <1>1, <1>2, KnownGrows
<1>4. ~ mem[d].dirty /\ ~ mem[d].below
  BY <1>1, <1>2 DEF FrameSound
<1>5. \A x \in Dirs : Hollow(x) => Tended(mem, x, d)
  BY DEF Tidy, HollowIsTended
<1>6. \A x \in Dirs : m[x] # Absent => SpreadDir(m, x)
  BY <1>3 DEF SpreadMem, Pieces
<1>7. ASSUME NEW c \in Dirs, mem[c] = Absent, Bare(c) PROVE m[c] = Absent
  <2> SUFFICES ASSUME m[c] # Absent PROVE FALSE
    OBVIOUS
  <2>1. c # Root /\ ~ m[c].dirty
    BY <1>2, <1>3, <1>7 DEF Grown, NeedsSync, Typed
  <2>2. Hollow(c)
    BY <1>6, <1>7, <2>1 DEF SpreadDir, Visible, Hollow
  <2> QED BY <1>5, <1>7, <2>2 DEF Tended
<1>8. ASSUME NEW x \in Children(d) PROVE ~ Hollow(x)
  <2>1. x \in Dirs /\ ~ IsBelow(x, d)
    <3>1. x \in Dirs /\ IsBelow(d, x) /\ d # x
      BY <1>2, ChildFacts
    <3> QED BY <1>2, <3>1, BelowOrder
  <2>2. Hollow(x) => HoldsNothing(mem, x)
    BY <1>5, <2>1 DEF Tended, Spent
  <2> QED BY <1>1, <1>2, <2>2 DEF Emptied
<1>9. ASSUME Hollow(d) PROVE HoldsNothing(m, d) /\ ~ NeedsSync(m, d)
  <2>1. d # Root /\ Bare(d) /\ Content(disk[d].file) = Nothing
    BY <1>2, <1>9, PathFacts DEF Hollow, Bare
  <2>2. \A c \in Children(d) : c \in Dirs /\ d \in Above(c) /\ c # Root /\ Bare(c)
    <3> SUFFICES ASSUME NEW c \in Children(d) PROVE c \in Dirs /\ d \in Above(c) /\ c # Root /\ Bare(c)
      OBVIOUS
    <3>1. c \in Dirs /\ d \in Above(c) /\ c # Root /\ IsBelow(d, c)
      BY <1>2, ChildFacts
    <3>2. \A x \in Dirs : IsBelow(c, x) => IsBelow(d, x)
      BY <1>2, <3>1, BelowOrder
    <3> QED BY <2>1, <3>1, <3>2 DEF Bare
  <2>3. ASSUME NEW c \in Children(d) PROVE mem[c] = Absent
    <3> SUFFICES ASSUME mem[c] # Absent PROVE FALSE
      OBVIOUS
    <3>1. ~ mem[c].dirty
      BY <1>2, <1>4, <2>2 DEF Led, LedTo, NeedsSync
    <3>2. Hollow(c)
      BY <1>2, <2>2, <3>1 DEF SpreadDir, Visible, Hollow
    <3> QED BY <1>8, <3>2
  <2>4. mem[d].listed \/ Top.emptied
    BY <1>1, <2>1 DEF Tidy, Learnt
  <2>5. mem[d].loaded \/ Top.removed
    BY <1>1, <2>1, <2>3 DEF Tidy, Learnt
  <2>6. m[d] # Absent /\ m[d].listed /\ m[d].loaded /\ ~ m[d].dirty /\ ~ m[d].below
    BY <1>2, <1>3, <1>4, <2>4, <2>5 DEF Grown
  <2>7. m[d].entries = Nothing
    BY <1>2, <1>6, <2>1, <2>6 DEF SpreadDir
  <2>8. Children(d) \cap In(m) = {}
    BY <1>7, <2>2, <2>3 DEF In
  <2> QED BY <2>6, <2>7, <2>8 DEF HoldsNothing, NeedsSync
<1> QED BY <1>3, <1>7, <1>8, <1>9

LEMMA ReturnTidy ==
    ASSUME MarkupInv, faults = 0, NoSub, Tidy, Return
    PROVE  Tidy'
<1>1. PICK d, m, n : d = Top.dir /\ m = Known(Top) /\ n = Len(sync)
  OBVIOUS
<1>2. /\ sync # <<>> /\ mem' = m /\ UNCHANGED disk
  BY <1>1 DEF Return, Working
<1>3. /\ d \in Dirs /\ SpreadMem(mem) /\ mem[d] # Absent /\ Len(d) = n - 1
      /\ n = 1 <=> d = Root
  BY <1>1, <1>2, RunningFacts, UntroubledFacts
<1>4. /\ SpreadMem(m) /\ Grown(mem, m)
      /\ \A c \in Dirs : mem[c] = Absent /\ Bare(c) => m[c] = Absent
      /\ \A x \in Children(d) : ~ Hollow(x)
      /\ Hollow(d) => HoldsNothing(m, d) /\ ~ NeedsSync(m, d)
  BY <1>1, DoneFacts
<1>5. NewIsListed(mem)'
  <2>1. NewIsListed(m)
    BY <1>3, <1>4, GrownListed DEF Tidy
  <2> QED BY <1>2, <2>1 DEF NewIsListed
<1>6. \A x \in Dirs : (Hollow(x)' <=> Hollow(x)) /\ (Bare(x)' <=> Bare(x))
  BY <1>2 DEF Hollow, Bare
<1>7. ASSUME NEW x \in Dirs, Hollow(x)
      PROVE  /\ mem[x] # Absent /\ x # Root /\ Parent(x) \in Dirs /\ Parent(x) # d
             /\ IsBelow(x, d) \/ (IsBelow(Parent(x), d) /\ Spent(mem, x))
  <2>1. x # Root /\ Tended(mem, x, d)
    BY <1>1, <1>7 DEF Tidy, HollowIsTended, Hollow
  <2>2. Parent(x) # d
    BY <1>4, <1>7, <2>1 DEF Children
  <2>3. Parent(x) \in Dirs
    <3>1. Len(x) - 1 \in 0..Len(x)
      BY <2>1, PathFacts
    <3> QED BY <3>1, PathFacts DEF Parent
  <2> QED BY <2>1, <2>2, <2>3 DEF Tended
<1>8. CASE n = 1
  <2>1. sync' = <<>>
    BY <1>1, <1>8, ReturnFrame
  <2>2. \A x \in Dirs : ~ Hollow(x)
    <3> SUFFICES ASSUME NEW x \in Dirs, Hollow(x) PROVE FALSE
      OBVIOUS
    <3>1. d = Root
      BY <1>3, <1>8
    <3> QED BY <1>7, <3>1, PathFacts
  <2> QED BY <1>5, <1>6, <2>1, <2>2 DEF Tidy, HollowIsTended
<1>9. CASE n # 1
  <2>1. PICK f \in Frames : f.dir = sync[2].dir /\ f.step = "subdirs" /\ sync' # <<>> /\ Top' = f
    BY <1>1, <1>9, ReturnFrame
  <2>2. PICK u : u = f.dir
    OBVIOUS
  <2>3. u \in Above(d) /\ u = SubSeq(d, 1, n - 2)
    BY <1>1, <1>9, <2>1, <2>2, ReturnFrame
  <2>4. d \in Children(u) /\ u \in Dirs /\ d # Root
    <3>1. d # Root /\ u \in Dirs
      BY <1>3, <1>9, <2>3 DEF Above
    <3>2. Parent(d) = u
      <4>1. n \in Nat
        BY <1>1, <1>2, RunningFacts
      <4>2. (n - 1) - 1 = n - 2
        BY <4>1
      <4> QED BY <1>3, <2>3, <4>2 DEF Parent
    <3> QED BY <1>3, <3>1, <3>2 DEF Children
  <2>5. \A e \in Dirs : IsBelow(e, d) <=> e = d \/ IsBelow(e, u)
    BY <2>4, ChildFacts
  <2>6. HollowIsTended'
    <3> SUFFICES ASSUME NEW x \in Dirs, Hollow(x) PROVE Tended(m, x, u)
      BY <1>2, <1>6, <2>1, <2>2 DEF HollowIsTended, Tended, Spent, HoldsNothing, NeedsSync, In
    <3>1. m[x] # Absent
      BY <1>4, <1>7 DEF Grown
    <3>2. CASE x = d
      <4>1. IsBelow(Parent(x), u)
        BY <2>4, <3>2, PathFacts DEF Children
      <4> QED BY <1>4, <3>1, <3>2, <4>1 DEF Tended, Spent
    <3>3. CASE x # d /\ IsBelow(x, d)
      BY <2>5, <3>1, <3>3 DEF Tended
    <3>4. CASE ~ IsBelow(x, d)
      <4>1. mem[x] # Absent /\ IsBelow(Parent(x), u) /\ Spent(mem, x)
        BY <1>7, <2>5, <3>4
      <4>2. \A c \in Children(x) : m[c] = Absent
        <5> SUFFICES ASSUME NEW c \in Children(x) PROVE m[c] = Absent
          OBVIOUS
        <5>1. c \in Dirs /\ IsBelow(x, c)
          BY ChildFacts
        <5>2. mem[c] = Absent
          BY <4>1, <5>1 DEF Spent, HoldsNothing, In
        <5>3. Bare(c)
          BY <5>1, BelowOrder DEF Hollow, Bare
        <5> QED BY <1>4, <5>1, <5>2, <5>3
      <4>3. Spent(m, x)
        BY <1>4, <3>1, <4>1, <4>2 DEF Spent, HoldsNothing, NeedsSync, Grown, In
      <4> QED BY <3>1, <4>1, <4>3 DEF Tended
    <3> QED BY <3>2, <3>3, <3>4
  <2>7. Learnt(mem, Top)'
    <3> SUFFICES ASSUME u # Root, Bare(u)'
                 PROVE  mem'[u].listed /\ \E c \in Children(u) : mem'[c] # Absent /\ Bare(c)'
      BY <2>1, <2>2 DEF Learnt
    <3>0. Bare(u)
      BY <1>6, <2>4
    <3>1. m[d] # Absent
      BY <1>3, <1>4 DEF Grown
    <3>2. m[u].listed
      BY <1>3, <1>4, <2>3, <3>1 DEF SpreadMem, Pieces, Closed
    <3>3. Bare(d)
      <4>1. IsBelow(u, d)
        BY <2>3 DEF Above
      <4> QED BY <1>3, <2>4, <3>0, <4>1, BelowOrder DEF Bare
    <3> QED BY <1>2, <1>3, <1>6, <2>4, <3>1, <3>2, <3>3
  <2> QED BY <1>5, <2>6, <2>7 DEF Tidy
<1> QED BY <1>8, <1>9

(* Nothing is hollow once a sync is done, up to the first thing that goes wrong.       *)
TidyInv == faults \in Nat /\ (faults = 0 => MarkupInv /\ (NoSub => Tidy))

LEMMA InitTidy ==
    ASSUME Init
    PROVE  TidyInv
<1>1. MarkupInv /\ faults = 0 /\ sync = <<>>
  BY InitKeeps DEF Init
<1>2. NewIsListed(mem)
  BY StateFacts DEF Init, NewIsListed
<1>3. \A d \in Dirs \ {Root} : ~ disk[d].folder
  BY StateFacts DEF Init, NoFolder, Folders
<1>4. Tidy
  BY <1>1, <1>2, <1>3 DEF Tidy, HollowIsTended, Hollow
<1> QED BY <1>1, <1>4 DEF TidyInv

(* A tree in one file stays in one file.                                          *)
LEMMA SubStays ==
    ASSUME MarkupInv, faults = 0, faults' = 0, Next, NoSub'
    PROVE  NoSub
<1>1. CASE UNCHANGED disk
  BY <1>1 DEF NoSub
<1>2. CASE Save
  BY <1>2, SaveKeeps
<1>3. ASSUME NEW c \in Dirs, Descend(c) PROVE NoSub
  <2>1. sync # <<>> /\ Top.step = "subdirs"
    BY <1>3 DEF Descend, Working
  <2>2. ~ mem[Root].tree
    BY <2>1, TopSound, RunningFacts DEF FrameSound
  <2> QED BY <2>1, <2>2, RunningFacts
<1>4. ASSUME NEW e \in Dirs, Delete(e) PROVE NoSub
  <2>1. PICK d : d = Top.dir
    OBVIOUS
  <2> QED BY <1>4, <2>1, DeletedFacts
<1>5. ~ SaveFails
  BY FailureIsQuiet DEF HarmlessStep, Quiet
<1>6. ~ Crash
  BY DEF Crash, Fails
<1>7. CASE Request
  <2>1. UNCHANGED disk
    BY <1>7 DEF Request, UnsetValue, SetValue, SetSchema, Becomes, Read, Merge, SyncAll, ClearCache
  <2> QED BY <1>1, <2>1
<1>8. CASE SyncStep
  <2>1. CASE NothingToSave \/ SubdirsDone \/ DeleteBelow \/ Return
    <3>1. UNCHANGED disk
      BY <2>1 DEF NothingToSave, SubdirsDone, DeleteBelow, Return
    <3> QED BY <1>1, <3>1
  <2> QED BY <1>2, <1>3, <1>4, <1>5, <1>8, <2>1 DEF SyncStep
<1> QED BY <1>6, <1>7, <1>8 DEF Next

LEMMA NextTidy ==
    ASSUME MarkupInv, faults = 0, faults' = 0, NoSub, NoSub', Tidy, Next
    PROVE  Tidy'
<1>1. CASE Request
  BY <1>1, RequestTidy
<1>2. CASE Save
  BY <1>2, SaveTidy
<1>3. CASE NothingToSave
  BY <1>3, NothingToSaveTidy
<1>4. ASSUME NEW c \in Dirs, Descend(c) PROVE Tidy'
  BY <1>4, DescendTidy
<1>5. ASSUME NEW e \in Dirs, Delete(e) PROVE Tidy'
  BY <1>5, DeleteTidy
<1>6. CASE SubdirsDone
  BY <1>6, SubdirsDoneTidy
<1>7. CASE Return
  BY <1>7, ReturnTidy
<1>8. ~ SaveFails /\ ~ Crash
  BY FailureIsQuiet DEF HarmlessStep, Quiet, Crash, Fails
<1>9. ~ DeleteBelow
  <2> SUFFICES ASSUME DeleteBelow PROVE FALSE
    OBVIOUS
  <2>1. sync # <<>> /\ mem[Top.dir].tree
    BY DEF DeleteBelow, Working
  <2> QED BY <2>1, UntroubledFacts
<1> QED BY <1>1, <1>2, <1>3, <1>4, <1>5, <1>6, <1>7, <1>8, <1>9 DEF Next, SyncStep

LEMMA StutterTidy ==
    ASSUME Tidy, UNCHANGED vars
    PROVE  Tidy'
<1>1. Top' = Top
  BY DEF Top, vars
<1>2. \A x \in Dirs : (Hollow(x)' <=> Hollow(x)) /\ (Bare(x)' <=> Bare(x))
  BY DEF Hollow, Bare, vars
<1>3. NewIsListed(mem)'
  BY DEF Tidy, NewIsListed, vars
<1>4. HollowIsTended'
  BY <1>1, <1>2 DEF Tidy, HollowIsTended, Tended, Spent, HoldsNothing, NeedsSync, In, vars
<1>5. sync' # <<>> => Learnt(mem, Top)'
  BY <1>1 DEF Tidy, Learnt, Bare, vars
<1> QED BY <1>3, <1>4, <1>5 DEF Tidy

LEMMA TidyKeeps ==
    ASSUME TidyInv, [Next]_vars
    PROVE  TidyInv'
<1>1. faults' = faults \/ faults' = faults + 1
  <2>1. CASE Request
    BY <2>1 DEF Request, UnsetValue, SetValue, SetSchema, Becomes, Read, Merge, SyncAll, ClearCache
  <2>2. CASE SyncStep
    BY <2>2 DEF SyncStep, Save, NothingToSave, SaveFails, Descend, Delete, SubdirsDone, DeleteBelow,
                Return, Fails
  <2>3. CASE Crash \/ UNCHANGED vars
    BY <2>3 DEF Crash, Fails, vars
  <2> QED BY <2>1, <2>2, <2>3 DEF Next
<1>2. faults' \in Nat
  BY <1>1 DEF TidyInv
<1>3. ASSUME faults' = 0 PROVE MarkupInv' /\ (NoSub' => Tidy')
  <2>1. faults = 0 /\ MarkupInv /\ (NoSub => Tidy)
    BY <1>1, <1>3 DEF TidyInv
  <2>2. MarkupInv'
    BY <1>3, <2>1, NextKeeps, StutterKeeps DEF HarmlessStep
  <2>3. CASE Next
    BY <1>3, <2>1, <2>2, <2>3, SubStays, NextTidy
  <2>4. CASE UNCHANGED vars
    <3>1. NoSub' => NoSub
      BY <2>4 DEF NoSub, vars
    <3> QED BY <2>1, <2>2, <2>4, <3>1, StutterTidy
  <2> QED BY <2>3, <2>4
<1> QED BY <1>2, <1>3 DEF TidyInv

(* delete_useless_subdirs(): a directory that has become empty, or has lost the last   *)
(* of its subdirectories, is loaded as a whole and removed by the one above in the   *)
(* same sync.  When that succeeds and nothing has ever failed, each folder that is    *)
(* left has entries, in itself or below, that a start would find.                 *)
THEOREM EmptyDirsGo == Spec => EmptyDirsDisappear
<1>1. Init => TidyInv
  BY InitTidy
<1>2. TidyInv /\ [Next]_vars => TidyInv'
  BY TidyKeeps
<1>3. ASSUME TidyInv, TidyInv', [Next]_vars, Succeeds, faults = 0, ~ mem[Root].tree,
             NEW d \in Dirs \ {Root}, disk[d].folder
      PROVE  \E e \in Dirs : IsBelow(d, e) /\ saved[e] # Nothing
  <2>1. /\ sync # <<>> /\ sync' = <<>> /\ faults' = 0 /\ MarkupInv
    BY <1>3 DEF Succeeds, TidyInv
  <2>2. SpreadMem(mem) /\ NoSub /\ ~ Quiet
    BY <1>3, <2>1, RunningFacts DEF Quiet
  <2>3. UNCHANGED disk
    <3>1. CASE Return \/ UNCHANGED vars
      BY <3>1 DEF Return, vars
    <3>2. CASE Request
      BY <2>1, <3>2 DEF Request, UnsetValue, SetValue, SetSchema, Becomes, Read, Merge, SyncAll,
                        ClearCache, Idle
    <3>3. CASE Crash
      BY <2>1, <3>3 DEF Crash, Fails, TidyInv
    <3>4. ASSUME NEW top, Proceed(top) PROVE FALSE
      <4>1. Len(sync') # 0
        BY <2>1, <3>4, RunningFacts DEF Proceed
      <4> QED BY <2>1, <4>1
    <3>5. ASSUME NEW c \in Dirs, Descend(c) PROVE FALSE
      BY <2>1, <3>5, RunningFacts DEF Descend
    <3>6. ASSUME SyncStep, ~ Return, \A c \in Dirs : ~ Descend(c) PROVE \E top : Proceed(top)
      BY <3>6 DEF SyncStep, Save, NothingToSave, SaveFails, Saved, Delete, SubdirsDone, DeleteBelow
    <3> QED BY <1>3, <3>1, <3>2, <3>3, <3>4, <3>5, <3>6 DEF Next
  <2>4. NoSub' /\ Tidy'
    BY <1>3, <2>1, <2>2, <2>3 DEF NoSub, TidyInv
  <2>5. ~ Hollow(d)'
    BY <2>1, <2>4 DEF Tidy, HollowIsTended
  <2>6. ~ Bare(d)
    BY <1>3, <2>3, <2>5 DEF Hollow, Bare
  <2>7. PICK e \in Dirs : IsBelow(d, e) /\ Content(disk[e].file) # Nothing
    BY <2>6 DEF Bare
  <2>8. WayVisible(e)
    BY <2>2, <2>7 DEF SpreadMem, Pieces, Reached, WayVisible
  <2>9. OnDisk(e) = Content(disk[e].file)
    BY <2>1, <2>2, <2>8, InvFacts, OnDiskFacts
  <2> QED BY <2>7, <2>9 DEF saved
<1>4. TidyInv /\ TidyInv' /\ [Next]_vars =>
         (Succeeds /\ faults = 0 /\ ~ mem[Root].tree =>
            \A d \in Dirs \ {Root} : disk[d].folder =>
                \E e \in Dirs : IsBelow(d, e) /\ saved[e] # Nothing)
  BY <1>3
<1> QED BY <1>1, <1>2, <1>4, PTL DEF Spec, EmptyDirsDisappear
=============================================================================
