------------------------ MODULE GConfChangeSetProofs ------------------------
(***************************************************************************)
(* Theorems about GConfChangeSet, for any keys and values and any number of   *)
(* failures and of writes by others: commits lose no change, success is        *)
(* success for all of them, and a set that reverts brings back what was set.    *)
(***************************************************************************)
EXTENDS GConfChangeSet, SequenceTheorems, TLAPS

(* What is owed is in the set, also while it is being committed; what a commit   *)
(* will remove is no longer owed.                                             *)
OwedIsKept ==
    /\ \A k \in DOMAIN owed : k \in DOMAIN sets["changes"] /\ sets["changes"][k] = owed[k]
    /\ Committing /\ work.set = "changes" => work.done \cap DOMAIN owed = {}

(* What a commit has behind it is written, unless somebody else has written it    *)
(* since, and is what it will remove.                                         *)
CommitSound ==
    Committing /\ ~ work.failed =>
        /\ work.left \subseteq DOMAIN sets[work.set]
        /\ \A k \in (DOMAIN sets[work.set] \ work.left) \ work.apart :
              store[k] = sets[work.set][k]
        /\ work.remove => work.done = DOMAIN sets[work.set] \ work.left

ChangeInv == TypeOK /\ OwedIsKept /\ CommitSound

-----------------------------------------------------------------------------
(* Change sets                                                               *)

LEMMA SetFacts ==
    ASSUME NEW f
    PROVE  f \in ChangeSets <=> /\ DOMAIN f \subseteq Keys
                                /\ f = [k \in DOMAIN f |-> f[k]]
                                /\ \A k \in DOMAIN f : f[k] \in Changes
  BY DEF ChangeSets

LEMMA WithSound ==
    ASSUME NEW f \in ChangeSets, NEW k \in Keys, NEW x \in Changes
    PROVE  /\ With(f, k, x) \in ChangeSets
           /\ DOMAIN With(f, k, x) = DOMAIN f \cup {k}
           /\ With(f, k, x)[k] = x
           /\ \A j \in DOMAIN f : j # k => With(f, k, x)[j] = f[j]
<1>1. DOMAIN f \subseteq Keys /\ \A j \in DOMAIN f : f[j] \in Changes
  BY SetFacts
<1>2. With(f, k, x) \in [DOMAIN f \cup {k} -> Changes]
  BY <1>1 DEF With
<1>3. DOMAIN f \cup {k} \in SUBSET Keys
  BY <1>1
<1> QED
  BY <1>2, <1>3 DEF With, ChangeSets

LEMMA MinusSound ==
    ASSUME NEW f \in ChangeSets, NEW ks
    PROVE  /\ Minus(f, ks) \in ChangeSets
           /\ DOMAIN Minus(f, ks) = DOMAIN f \ ks
           /\ \A j \in DOMAIN f \ ks : Minus(f, ks)[j] = f[j]
<1>1. DOMAIN f \subseteq Keys /\ \A j \in DOMAIN f : f[j] \in Changes
  BY SetFacts
<1>2. Minus(f, ks) \in [DOMAIN f \ ks -> Changes]
  BY <1>1 DEF Minus
<1>3. DOMAIN f \ ks \in SUBSET Keys
  BY <1>1
<1> QED
  BY <1>2, <1>3 DEF Minus, ChangeSets

LEMMA EmptySound == Empty \in ChangeSets /\ DOMAIN Empty = {}
<1>1. Empty \in [{} -> Changes]
  BY DEF Empty
<1> QED
  BY <1>1 DEF ChangeSets
-----------------------------------------------------------------------------
(* Types                                                                     *)

Befores(b) == /\ DOMAIN b \subseteq Keys
              /\ \A k \in DOMAIN b : b[k] \in [value : Changes, plain : BOOLEAN]

LEMMA BeforeTyped ==
    ASSUME NEW b, Befores(b)
    PROVE  /\ \A ks : Befores(Minus(b, ks))
           /\ \A k \in Keys, x \in [value : Changes, plain : BOOLEAN] : Befores(With(b, k, x))
           /\ Befores(Empty)
<1>1. ASSUME NEW ks PROVE Befores(Minus(b, ks))
  BY DEF Befores, Minus
<1>2. ASSUME NEW k \in Keys, NEW x \in [value : Changes, plain : BOOLEAN]
      PROVE  Befores(With(b, k, x))
  BY DEF Befores, With
<1>3. Befores(Empty)
  BY DEF Befores, Empty
<1> QED
  BY <1>1, <1>2, <1>3

LEMMA DefaultTyped == \A k \in Keys : Default[k] \in Changes
  BY ChangeSetAssumption DEF Changes

LEMMA WriteTyped ==
    ASSUME TypeOK, NEW k \in Keys, NEW c \in Changes, Write(k, c)
    PROVE  /\ store' \in [Keys -> Changes] /\ notes' \in Seq([key : Keys, value : Changes])
           /\ store'[k] = c /\ \A j \in Keys : j # k => store'[j] = store[j]
<1>1. store \in [Keys -> Changes] /\ notes \in Seq([key : Keys, value : Changes])
  BY DEF TypeOK
<1>2. store' = [store EXCEPT ![k] = c]
  BY DEF Write
<1> DEFINE note == [key |-> k, value |-> IF c = NoValue THEN Default[k] ELSE c]
<1>3. note \in [key : Keys, value : Changes]
  BY DefaultTyped
<1>4. notes' = Append(notes, note) \/ notes' = notes
  BY DEF Write
<1>5. notes' \in Seq([key : Keys, value : Changes])
  <2> DEFINE S == [key : Keys, value : Changes]
  <2>1. note \in S /\ notes \in Seq(S) /\ (notes' = Append(notes, note) \/ notes' = notes)
    BY <1>1, <1>3, <1>4
  <2>2. notes' \in Seq(S)
    <3> HIDE DEF note, S
    <3> QED BY <2>1, AppendProperties
  <2> QED BY <2>2
<1> QED
  BY <1>1, <1>2, <1>5

LEMMA ReadTyped ==
    ASSUME TypeOK, NEW k \in Keys
    PROVE  /\ Read(k) \in CacheEntries
           /\ WithoutDefault(Read(k)) \in Changes
           /\ Caches(k) => cache' \in [Keys -> CacheEntries \cup {NotCached}]
<1>1. cache[k] # NotCached => cache[k] \in CacheEntries
  BY DEF TypeOK
<1>2. [value |-> Effective(k), default |-> store[k] = NoValue] \in CacheEntries
  <2>1. Effective(k) \in Changes
    BY DefaultTyped DEF TypeOK, Effective
  <2> QED BY <2>1 DEF CacheEntries
<1>3. Read(k) \in CacheEntries
  BY <1>1, <1>2 DEF Read
<1>4. WithoutDefault(Read(k)) \in Changes
  BY <1>3 DEF WithoutDefault, CacheEntries, Changes
<1>5. Caches(k) => cache' \in [Keys -> CacheEntries \cup {NotCached}]
  BY <1>3 DEF Caches, TypeOK
<1> QED
  BY <1>3, <1>4, <1>5

LEMMA CountsTyped ==
    /\ \A i \in 0..MaxFailures : i < MaxFailures => i + 1 \in 0..MaxFailures
    /\ \A i \in 0..MaxForeign : i < MaxForeign => i + 1 \in 0..MaxForeign
  BY ChangeSetAssumption

LEMMA IdleFacts ==
    /\ Idle \in Works /\ Idle.kind = "none" /\ Idle.left = {} /\ Idle.done = {}
  BY DEF Idle, Works, Names

(* The sets while nothing is done with them.                                   *)
LEMMA SetsTyped ==
    ASSUME TypeOK, NEW name \in Names
    PROVE  /\ sets[name] \in ChangeSets /\ DOMAIN sets[name] \in SUBSET Keys
           /\ \A k \in DOMAIN sets[name] : sets[name][k] \in Changes
           /\ \A f \in ChangeSets : [sets EXCEPT ![name] = f] \in [Names -> ChangeSets]
<1>1. sets \in [Names -> ChangeSets]
  BY DEF TypeOK
<1> QED
  BY <1>1, SetFacts

-----------------------------------------------------------------------------
(* The steps                                                                 *)

LEMMA NotifyStep ==
    ASSUME ChangeInv, Notify
    PROVE  ChangeInv'
<1>1. Head(notes) \in [key : Keys, value : Changes] /\ Tail(notes) \in Seq([key : Keys, value : Changes])
  BY HeadTailProperties DEF Notify, ChangeInv, TypeOK
<1>2. [value |-> Head(notes).value, default |-> FALSE] \in CacheEntries
  BY <1>1 DEF CacheEntries
<1>3. cache' \in [Keys -> CacheEntries \cup {NotCached}]
  BY <1>1, <1>2 DEF Notify, ChangeInv, TypeOK
<1>4. notes' \in Seq([key : Keys, value : Changes])
        /\ UNCHANGED <<store, sets, work, foreign, failures, owed, before>>
  BY <1>1 DEF Notify
<1> QED
  BY <1>3, <1>4 DEF ChangeInv, TypeOK, OwedIsKept, CommitSound, Committing

LEMMA OtherWritesStep ==
    ASSUME ChangeInv, NEW k \in Keys, NEW c \in Changes, OtherWrites(k, c)
    PROVE  ChangeInv'
<1>1. /\ store' \in [Keys -> Changes] /\ notes' \in Seq([key : Keys, value : Changes])
      /\ \A j \in Keys : j # k => store'[j] = store[j]
  BY WriteTyped DEF OtherWrites, ChangeInv
<1>2. foreign' \in 0..MaxForeign
  BY CountsTyped DEF OtherWrites, ChangeInv, TypeOK
<1>3. Befores(before')
  BY BeforeTyped DEF OtherWrites, ChangeInv, TypeOK, Befores
<1>4. /\ work' \in Works /\ work'.kind = work.kind /\ work'.set = work.set
      /\ work'.left = work.left /\ work'.done = work.done /\ work'.failed = work.failed
      /\ work'.remove = work.remove
      /\ Committing => work'.apart = work.apart \cup {k}
  BY DEF OtherWrites, ChangeInv, TypeOK, Works
<1>5. UNCHANGED <<cache, sets, failures, owed>>
  BY DEF OtherWrites
<1>6. TypeOK'
  BY <1>1, <1>2, <1>3, <1>4, <1>5 DEF ChangeInv, TypeOK, Befores
<1>7. OwedIsKept'
  BY <1>4, <1>5 DEF ChangeInv, OwedIsKept, Committing
<1>8. CommitSound'
  <2>1. Committing => DOMAIN sets[work.set] \subseteq Keys
    BY SetsTyped DEF ChangeInv, TypeOK, Works
  <2> QED BY <1>1, <1>4, <1>5, <2>1 DEF ChangeInv, CommitSound, Committing
<1> QED
  BY <1>6, <1>7, <1>8 DEF ChangeInv

(* No commit runs before the step or after it.                                 *)
LEMMA NoCommit ==
    ASSUME work = Idle \/ Reading, work' = work \/ ~ Committing'
    PROVE  CommitSound' /\ ~ Committing'
  BY IdleFacts DEF CommitSound, Committing, Reading

LEMMA ChangeStep ==
    ASSUME ChangeInv, NEW k \in Keys, NEW c \in Changes, Change(k, c)
    PROVE  ChangeInv'
<1>1. /\ work = Idle /\ UNCHANGED <<store, notes, cache, work, foreign, failures>>
      /\ sets' = [sets EXCEPT !["changes"] = With(sets["changes"], k, c)]
      /\ owed' = With(owed, k, c)
      /\ before' \in {before, Minus(before, {k})}
  BY DEF Change
<1>2. Befores(before')
  BY <1>1, BeforeTyped DEF ChangeInv, TypeOK, Befores
<1>3. sets["changes"] \in ChangeSets /\ owed \in ChangeSets /\ sets \in [Names -> ChangeSets]
  BY DEF ChangeInv, TypeOK, Names
<1>4. With(sets["changes"], k, c) \in ChangeSets /\ With(owed, k, c) \in ChangeSets
  BY <1>3, WithSound
<1>5. sets' \in [Names -> ChangeSets] /\ sets'["changes"] = With(sets["changes"], k, c)
  BY <1>1, <1>3, <1>4 DEF Names
<1>6. TypeOK'
  BY <1>1, <1>2, <1>4, <1>5 DEF ChangeInv, TypeOK, Befores
<1>7. CommitSound' /\ ~ Committing'
  BY <1>1, NoCommit
<1>8. OwedIsKept'
  <2>1. /\ DOMAIN owed' = DOMAIN owed \cup {k} /\ owed'[k] = c
        /\ \A j \in DOMAIN owed : j # k => owed'[j] = owed[j]
    BY <1>1, <1>3, WithSound
  <2>2. /\ DOMAIN sets'["changes"] = DOMAIN sets["changes"] \cup {k} /\ sets'["changes"][k] = c
        /\ \A j \in DOMAIN sets["changes"] : j # k => sets'["changes"][j] = sets["changes"][j]
    <3> DEFINE f == sets["changes"]
    <3>1. /\ DOMAIN With(f, k, c) = DOMAIN f \cup {k} /\ With(f, k, c)[k] = c
          /\ \A j \in DOMAIN f : j # k => With(f, k, c)[j] = f[j]
      <4> HIDE DEF f
      <4> SUFFICES f \in ChangeSets BY WithSound
      <4> QED BY <1>3 DEF f
    <3>2. sets'["changes"] = With(f, k, c)
      BY <1>5
    <3> QED BY <3>1, <3>2, Zenon
  <2>3. \A j \in DOMAIN owed : j \in DOMAIN sets["changes"] /\ sets["changes"][j] = owed[j]
    BY DEF ChangeInv, OwedIsKept
  <2>4. \A j \in DOMAIN owed' : j \in DOMAIN sets'["changes"] /\ sets'["changes"][j] = owed'[j]
    BY <2>1, <2>2, <2>3
  <2> QED BY <1>7, <2>4 DEF OwedIsKept
<1> QED
  BY <1>6, <1>7, <1>8 DEF ChangeInv

LEMMA DropStep ==
    ASSUME ChangeInv, NEW ks \in SUBSET Keys, Drop(ks)
    PROVE  ChangeInv'
<1>1. /\ work = Idle /\ UNCHANGED <<store, notes, cache, work, foreign, failures, before>>
      /\ sets' = [sets EXCEPT !["changes"] = Minus(sets["changes"], ks)]
      /\ owed' = Minus(owed, ks)
  BY DEF Drop
<1>2. sets["changes"] \in ChangeSets /\ owed \in ChangeSets /\ sets \in [Names -> ChangeSets]
  BY DEF ChangeInv, TypeOK, Names
<1>3. Minus(sets["changes"], ks) \in ChangeSets /\ Minus(owed, ks) \in ChangeSets
  BY <1>2, MinusSound
<1>4. sets' \in [Names -> ChangeSets] /\ sets'["changes"] = Minus(sets["changes"], ks)
  BY <1>1, <1>2, <1>3 DEF Names
<1>5. TypeOK'
  BY <1>1, <1>3, <1>4 DEF ChangeInv, TypeOK
<1>6. CommitSound' /\ ~ Committing'
  BY <1>1, NoCommit
<1>7. OwedIsKept'
  <2>1. /\ DOMAIN owed' = DOMAIN owed \ ks
        /\ \A j \in DOMAIN owed \ ks : owed'[j] = owed[j]
    BY <1>1, <1>2, MinusSound
  <2>2. /\ DOMAIN sets'["changes"] = DOMAIN sets["changes"] \ ks
        /\ \A j \in DOMAIN sets["changes"] \ ks : sets'["changes"][j] = sets["changes"][j]
    <3> DEFINE f == sets["changes"]
    <3>1. /\ DOMAIN Minus(f, ks) = DOMAIN f \ ks
          /\ \A j \in DOMAIN f \ ks : Minus(f, ks)[j] = f[j]
      <4> HIDE DEF f
      <4> SUFFICES f \in ChangeSets BY MinusSound
      <4> QED BY <1>2 DEF f
    <3>2. sets'["changes"] = Minus(f, ks)
      BY <1>4
    <3> QED BY <3>1, <3>2, Zenon
  <2>3. \A j \in DOMAIN owed : j \in DOMAIN sets["changes"] /\ sets["changes"][j] = owed[j]
    BY DEF ChangeInv, OwedIsKept
  <2>4. \A j \in DOMAIN owed' : j \in DOMAIN sets'["changes"] /\ sets'["changes"][j] = owed'[j]
    BY <2>1, <2>2, <2>3
  <2> QED BY <1>6, <2>4 DEF OwedIsKept
<1> QED
  BY <1>5, <1>6, <1>7 DEF ChangeInv
LEMMA CommitStep ==
    ASSUME ChangeInv, NEW name \in Names, NEW remove \in BOOLEAN, Commit(name, remove)
    PROVE  ChangeInv'
<1>1. /\ UNCHANGED <<store, notes, cache, sets, foreign, failures, owed, before>>
      /\ work' = [Idle EXCEPT !.kind = "commit", !.set = name,
                              !.left = DOMAIN sets[name], !.remove = remove]
  BY DEF Commit
<1>2. DOMAIN sets[name] \in SUBSET Keys
  BY SetsTyped DEF ChangeInv
<1>3. /\ work' \in Works /\ work'.set = name /\ work'.left = DOMAIN sets[name]
      /\ work'.done = {}
  BY <1>1, <1>2 DEF Idle, Works
<1> QED
  BY <1>1, <1>3 DEF ChangeInv, TypeOK, OwedIsKept, CommitSound

(* The set that is committed, and what of it is left.                           *)
LEMMA CommittedSet ==
    ASSUME TypeOK, Committing
    PROVE  /\ work.set \in Names /\ sets[work.set] \in ChangeSets
           /\ DOMAIN sets[work.set] \in SUBSET Keys
           /\ \A k \in DOMAIN sets[work.set] : sets[work.set][k] \in Changes
<1>1. work.set \in Names
  BY DEF TypeOK, Works
<1> QED
  BY <1>1, SetsTyped

LEMMA CommitKeyStep ==
    ASSUME ChangeInv, NEW k \in Keys, CommitKey(k)
    PROVE  ChangeInv'
<1> DEFINE f == sets[work.set]
<1>1. /\ Committing /\ ~ work.failed /\ k \in work.left
      /\ Write(k, f[k])
      /\ cache' = [cache EXCEPT ![k] = NotCached]
      /\ work' = [work EXCEPT !.left = @ \ {k}, !.apart = @ \ {k},
                              !.done = IF work.remove THEN @ \cup {k} ELSE @]
      /\ owed' = IF work.set = "changes" THEN Minus(owed, {k}) ELSE owed
      /\ UNCHANGED <<sets, foreign, failures, before>>
  BY DEF CommitKey, Acknowledge
<1>2. work.left \subseteq DOMAIN f /\ DOMAIN f \subseteq Keys /\ f[k] \in Changes /\ work \in Works
  BY <1>1, CommittedSet DEF ChangeInv, TypeOK, CommitSound
<1>3. /\ store' \in [Keys -> Changes] /\ notes' \in Seq([key : Keys, value : Changes])
      /\ store'[k] = f[k] /\ \A j \in Keys : j # k => store'[j] = store[j]
  <2> HIDE DEF f
  <2> QED BY <1>1, <1>2, WriteTyped DEF ChangeInv
<1>4. /\ work' \in Works /\ work'.kind = "commit" /\ work'.set = work.set /\ ~ work'.failed
      /\ work'.left = work.left \ {k} /\ work'.apart = work.apart \ {k}
      /\ work'.done = IF work.remove THEN work.done \cup {k} ELSE work.done
      /\ work'.remove = work.remove
  BY <1>1, <1>2 DEF Works, Committing
<1>5. /\ owed' \in ChangeSets
      /\ DOMAIN owed' = IF work.set = "changes" THEN DOMAIN owed \ {k} ELSE DOMAIN owed
      /\ \A j \in DOMAIN owed' : owed'[j] = owed[j]
  <2>1. owed \in ChangeSets
    BY DEF ChangeInv, TypeOK
  <2>2. /\ Minus(owed, {k}) \in ChangeSets
        /\ DOMAIN Minus(owed, {k}) = DOMAIN owed \ {k}
        /\ \A j \in DOMAIN owed \ {k} : Minus(owed, {k})[j] = owed[j]
    BY <2>1, MinusSound
  <2>3. CASE work.set = "changes"
    <3>1. owed' = Minus(owed, {k})
      BY <1>1, <2>3
    <3> QED BY <2>2, <2>3, <3>1
  <2>4. CASE work.set # "changes"
    <3>1. owed' = owed
      BY <1>1, <2>4
    <3> QED BY <2>1, <2>4, <3>1
  <2> QED BY <2>3, <2>4
<1>6. cache' \in [Keys -> CacheEntries \cup {NotCached}]
  BY <1>1 DEF ChangeInv, TypeOK
<1>7. TypeOK'
  BY <1>1, <1>3, <1>4, <1>5, <1>6 DEF ChangeInv, TypeOK
<1>8. OwedIsKept'
  <2>1. \A j \in DOMAIN owed : j \in DOMAIN sets["changes"] /\ sets["changes"][j] = owed[j]
    BY DEF ChangeInv, OwedIsKept
  <2>2. work.set = "changes" => work.done \cap DOMAIN owed = {}
    BY <1>1 DEF ChangeInv, OwedIsKept
  <2>3. \A j \in DOMAIN owed' : j \in DOMAIN sets'["changes"] /\ sets'["changes"][j] = owed'[j]
    BY <1>1, <1>5, <2>1
  <2>4. work'.set = "changes" => work'.done \cap DOMAIN owed' = {}
    BY <1>4, <1>5, <2>2
  <2> QED BY <2>3, <2>4 DEF OwedIsKept
<1>9. CommitSound'
  <2>1. /\ \A j \in (DOMAIN f \ work.left) \ work.apart : store[j] = f[j]
        /\ work.remove => work.done = DOMAIN f \ work.left
    BY <1>1 DEF ChangeInv, CommitSound
  <2>2. sets'[work'.set] = f
    BY <1>1, <1>4
  <2> HIDE DEF f
  <2>3. \A j \in (DOMAIN f \ work'.left) \ work'.apart : store'[j] = f[j]
    BY <1>2, <1>3, <1>4, <2>1
  <2>4. work'.remove => work'.done = DOMAIN f \ work'.left
    BY <1>1, <1>2, <1>4, <2>1
  <2>5. work'.left \subseteq DOMAIN f
    BY <1>2, <1>4
  <2> QED BY <2>2, <2>3, <2>4, <2>5 DEF CommitSound
<1> QED
  BY <1>7, <1>8, <1>9 DEF ChangeInv

LEMMA CommitKeyFailsStep ==
    ASSUME ChangeInv, NEW k \in Keys, CommitKeyFails(k)
    PROVE  ChangeInv'
<1> DEFINE f == sets[work.set]
<1>1. /\ Committing /\ ~ work.failed /\ k \in work.left
      /\ failures < MaxFailures /\ failures' = failures + 1
      /\ Write(k, f[k]) \/ UNCHANGED <<store, notes>>
      /\ work' = [work EXCEPT !.left = @ \ {k}, !.failed = TRUE]
      /\ UNCHANGED <<cache, sets, foreign, owed, before>>
  BY DEF CommitKeyFails
<1>2. f[k] \in Changes /\ work \in Works
  BY <1>1, CommittedSet DEF ChangeInv, TypeOK, CommitSound
<1>3. store' \in [Keys -> Changes] /\ notes' \in Seq([key : Keys, value : Changes])
  <2>1. CASE Write(k, f[k])
    <3> HIDE DEF f
    <3> QED BY <2>1, <1>2, WriteTyped DEF ChangeInv
  <2>2. CASE UNCHANGED <<store, notes>>
    BY <2>2 DEF ChangeInv, TypeOK
  <2> QED BY <1>1, <2>1, <2>2
<1>4. /\ work' \in Works /\ work'.set = work.set /\ work'.failed /\ work'.done = work.done
  BY <1>1, <1>2 DEF Works
<1>5. failures' \in 0..MaxFailures
  BY <1>1, CountsTyped DEF ChangeInv, TypeOK
<1>6. TypeOK'
  BY <1>1, <1>3, <1>4, <1>5 DEF ChangeInv, TypeOK
<1>7. OwedIsKept'
  BY <1>1, <1>4 DEF ChangeInv, OwedIsKept
<1>8. CommitSound'
  BY <1>4 DEF CommitSound
<1> QED
  BY <1>6, <1>7, <1>8 DEF ChangeInv

LEMMA CommittedStep ==
    ASSUME ChangeInv, Committed
    PROVE  ChangeInv'
<1>1. /\ Committing /\ work' = Idle
      /\ sets' = IF work.remove THEN [sets EXCEPT ![work.set] = Minus(sets[work.set], work.done)]
                 ELSE sets
      /\ before' \in {before, Empty}
      /\ UNCHANGED <<store, notes, cache, foreign, failures, owed>>
  BY DEF Committed, RemoveList
<1>2. work.set \in Names /\ sets[work.set] \in ChangeSets /\ sets \in [Names -> ChangeSets]
  BY <1>1, CommittedSet DEF ChangeInv, TypeOK
<1>3. Minus(sets[work.set], work.done) \in ChangeSets
  BY <1>2, MinusSound
<1>4. sets' \in [Names -> ChangeSets]
  BY <1>1, <1>2, <1>3
<1>5. Befores(before')
  BY <1>1, BeforeTyped DEF ChangeInv, TypeOK, Befores
<1>6. TypeOK'
  BY <1>1, <1>4, <1>5, IdleFacts DEF ChangeInv, TypeOK, Befores
<1>7. CommitSound' /\ ~ Committing'
  BY <1>1, IdleFacts DEF CommitSound, Committing
<1>8. OwedIsKept'
  <2>1. \A j \in DOMAIN owed : j \in DOMAIN sets["changes"] /\ sets["changes"][j] = owed[j]
    BY DEF ChangeInv, OwedIsKept
  <2>2. CASE sets'["changes"] = sets["changes"]
    BY <1>1, <1>7, <2>1, <2>2 DEF OwedIsKept
  <2>3. CASE work.set = "changes" /\ sets'["changes"] = Minus(sets["changes"], work.done)
    <3>1. work.done \cap DOMAIN owed = {}
      BY <1>1, <2>3 DEF ChangeInv, OwedIsKept
    <3>2. sets["changes"] \in ChangeSets
      BY <1>2, <2>3
    <3>3. /\ DOMAIN Minus(sets["changes"], work.done) = DOMAIN sets["changes"] \ work.done
          /\ \A j \in DOMAIN sets["changes"] \ work.done :
                Minus(sets["changes"], work.done)[j] = sets["changes"][j]
      BY <3>2, MinusSound
    <3>4. \A j \in DOMAIN owed : j \in DOMAIN sets'["changes"] /\ sets'["changes"][j] = owed[j]
      BY <2>1, <2>3, <3>1, <3>3
    <3> QED BY <1>1, <1>7, <3>4 DEF OwedIsKept
  <2>4. \/ sets'["changes"] = sets["changes"]
        \/ /\ work.set = "changes"
           /\ sets'["changes"] = Minus(sets["changes"], work.done)
    BY <1>1, <1>2 DEF Names
  <2> QED BY <2>2, <2>3, <2>4
<1> QED
  BY <1>6, <1>7, <1>8 DEF ChangeInv
(* The steps of the program that only fill the other set, and read.             *)
LEMMA FillStep ==
    ASSUME ChangeInv, work = Idle \/ Reading,
           work' \in Works, ~ Committing',
           sets' \in [Names -> ChangeSets], sets'["changes"] = sets["changes"],
           cache' \in [Keys -> CacheEntries \cup {NotCached}],
           failures' \in 0..MaxFailures, Befores(before'),
           UNCHANGED <<store, notes, foreign, owed>>
    PROVE  ChangeInv'
<1>1. TypeOK'
  BY DEF ChangeInv, TypeOK, Befores
<1>2. CommitSound'
  BY DEF CommitSound
<1>3. OwedIsKept'
  BY DEF ChangeInv, OwedIsKept
<1> QED
  BY <1>1, <1>2, <1>3 DEF ChangeInv

LEMMA BeginReadStep ==
    ASSUME ChangeInv, Reverse \/ \E ks \in SUBSET Keys : FromCurrent(ks)
    PROVE  ChangeInv'
<1>1. PICK ks \in SUBSET Keys, kind \in {"reverse", "current"} :
        /\ work' = [Idle EXCEPT !.kind = kind, !.left = ks]
        /\ sets' = [sets EXCEPT !["revert"] = Empty]
        /\ before' = Empty
        /\ UNCHANGED <<store, notes, cache, foreign, failures, owed>>
  <2>1. CASE Reverse
    <3>1. DOMAIN sets["changes"] \in SUBSET Keys
      BY SetsTyped DEF ChangeInv, Names
    <3> QED BY <2>1, <3>1 DEF Reverse
  <2>2. CASE \E ks \in SUBSET Keys : FromCurrent(ks)
    BY <2>2 DEF FromCurrent
  <2> QED BY <2>1, <2>2
<1>2. work = Idle
  BY DEF Reverse, FromCurrent
<1>3. work' \in Works /\ work'.kind = kind
  BY <1>1 DEF Idle, Works, Names
<1>4. ~ Committing'
  BY <1>3 DEF Committing
<1>5. sets' \in [Names -> ChangeSets] /\ sets'["changes"] = sets["changes"]
  BY <1>1, EmptySound DEF ChangeInv, TypeOK, Names
<1>6. /\ Befores(before') /\ cache' \in [Keys -> CacheEntries \cup {NotCached}]
      /\ failures' \in 0..MaxFailures
  BY <1>1, BeforeTyped DEF ChangeInv, TypeOK, Befores
<1> QED
  BY <1>1, <1>2, <1>3, <1>4, <1>5, <1>6, FillStep

LEMMA NoteSound ==
    ASSUME TypeOK, NEW k \in Keys, NEW old \in Changes, Note(k, old)
    PROVE  sets' \in [Names -> ChangeSets] /\ sets'["changes"] = sets["changes"]
<1>1. sets["revert"] \in ChangeSets /\ sets \in [Names -> ChangeSets]
  BY DEF TypeOK, Names
<1>2. With(sets["revert"], k, old) \in ChangeSets
  BY <1>1, WithSound
<1>3. PICK f \in ChangeSets : sets' = [sets EXCEPT !["revert"] = f]
  BY <1>1, <1>2 DEF Note
<1> QED
  BY <1>1, <1>3 DEF Names

LEMMA NextKey ==
    ASSUME TypeOK, Reading, NEW k,
           work' = IF work.left = {k} THEN Idle ELSE [work EXCEPT !.left = @ \ {k}]
    PROVE  work' \in Works /\ ~ Committing'
<1>1. CASE work.left = {k}
  BY <1>1, IdleFacts DEF Committing
<1>2. CASE work.left # {k}
  <2>1. work' \in Works /\ work'.kind = work.kind
    BY <1>2 DEF TypeOK, Works
  <2> QED BY <2>1 DEF Reading, Committing
<1> QED
  BY <1>1, <1>2

LEMMA ReadKeyStep ==
    ASSUME ChangeInv, NEW k \in Keys, ReadKey(k) \/ ReadKeyFails(k)
    PROVE  ChangeInv'
<1>1. /\ Reading /\ work' \in Works /\ ~ Committing'
      /\ UNCHANGED <<store, notes, foreign, owed>>
  BY NextKey DEF ReadKey, ReadKeyFails, ChangeInv
<1>2. sets' \in [Names -> ChangeSets] /\ sets'["changes"] = sets["changes"]
  <2>1. WithoutDefault(Read(k)) \in Changes /\ NoValue \in Changes
    BY ReadTyped DEF ChangeInv, Changes
  <2> QED BY <2>1, NoteSound DEF ReadKey, ReadKeyFails, ChangeInv
<1>3. cache' \in [Keys -> CacheEntries \cup {NotCached}]
  BY ReadTyped DEF ReadKey, ReadKeyFails, ChangeInv, TypeOK
<1>4. failures' \in 0..MaxFailures
  BY CountsTyped DEF ReadKey, ReadKeyFails, ChangeInv, TypeOK
<1>5. Befores(before')
  <2>1. Befores(before)
    BY DEF ChangeInv, TypeOK, Befores
  <2> DEFINE x == [value |-> store[k], plain |-> WithoutDefault(Read(k)) = store[k]]
  <2>2. x \in [value : Changes, plain : BOOLEAN]
    BY DEF ChangeInv, TypeOK
  <2>3. before' = before \/ before' = With(before, k, x)
    BY DEF ReadKey, ReadKeyFails
  <2> HIDE DEF x
  <2> QED BY <2>1, <2>2, <2>3, BeforeTyped
<1> QED
  BY <1>1, <1>2, <1>3, <1>4, <1>5, FillStep

LEMMA GetStep ==
    ASSUME ChangeInv, NEW k \in Keys, Get(k)
    PROVE  ChangeInv'
<1>1. /\ work = Idle
      /\ UNCHANGED <<store, notes, sets, work, foreign, failures, owed, before>>
      /\ cache' \in [Keys -> CacheEntries \cup {NotCached}]
  BY ReadTyped DEF Get, ChangeInv
<1> QED
  BY <1>1 DEF ChangeInv, TypeOK, OwedIsKept, CommitSound, Committing

LEMMA ChangeInit ==
    ASSUME Init
    PROVE  ChangeInv
<1>1. store \in [Keys -> Changes] /\ cache \in [Keys -> CacheEntries \cup {NotCached}]
  BY DEF Init, Changes
<1>2. sets \in [Names -> ChangeSets] /\ owed \in ChangeSets /\ DOMAIN owed = {}
  BY EmptySound DEF Init
<1>3. 0 \in 0..MaxForeign /\ 0 \in 0..MaxFailures
  BY ChangeSetAssumption
<1>4. DOMAIN before = {}
  BY EmptySound DEF Init
<1>5. notes \in Seq([key : Keys, value : Changes]) /\ work \in Works /\ work = Idle
  BY IdleFacts DEF Init
<1>6. TypeOK
  BY <1>1, <1>2, <1>3, <1>4, <1>5 DEF Init, TypeOK
<1> QED
  BY <1>2, <1>5, <1>6, IdleFacts DEF ChangeInv, OwedIsKept, CommitSound, Committing

LEMMA InvStep ==
    ASSUME ChangeInv, [Next]_vars
    PROVE  ChangeInv'
<1>1. CASE UNCHANGED vars
  BY <1>1 DEF vars, ChangeInv, TypeOK, OwedIsKept, CommitSound, Committing
<1> QED
  BY <1>1, NotifyStep, OtherWritesStep, ChangeStep, DropStep, CommitStep, CommitKeyStep,
     CommitKeyFailsStep, CommittedStep, BeginReadStep, ReadKeyStep, GetStep DEF Next

-----------------------------------------------------------------------------

(* However often a commit fails, is repeated, or is taken up after changes of the *)
(* set, a change that was asked for is in the set or has been written.           *)
THEOREM ChangesAreKept == Spec => []NothingLost
<1>1. Init => ChangeInv
  BY ChangeInit
<1>2. ChangeInv /\ [Next]_vars => ChangeInv'
  BY InvStep
<1>3. ChangeInv => NothingLost
  BY DEF ChangeInv, OwedIsKept, NothingLost
<1> QED
  BY <1>1, <1>2, <1>3, PTL DEF Spec

(* What a commit that ends well leaves behind.                                 *)
LEMMA SuccessStep ==
    ASSUME ChangeInv, Committed, ~ work.failed
    PROVE  /\ \A k \in DOMAIN sets[work.set] \ work.apart : store[k] = sets[work.set][k]
           /\ work.remove => sets'[work.set] = Empty
<1> DEFINE f == sets[work.set]
<1>1. Committing /\ work.left = {}
  BY DEF Committed
<1>2. /\ \A k \in DOMAIN f \ work.apart : store[k] = f[k]
      /\ work.remove => work.done = DOMAIN f
  BY <1>1 DEF ChangeInv, CommitSound
<1>3. ASSUME work.remove PROVE sets'[work.set] = Empty
  <2>1. sets' = [sets EXCEPT ![work.set] = Minus(f, work.done)]
    BY <1>3 DEF Committed, RemoveList
  <2>2. Minus(f, DOMAIN f) = Empty
    BY DEF Minus, Empty
  <2>3. work.set \in Names /\ sets \in [Names -> ChangeSets]
    BY <1>1, CommittedSet DEF ChangeInv, TypeOK
  <2> HIDE DEF f
  <2> QED BY <1>2, <1>3, <2>1, <2>2, <2>3
<1> QED
  BY <1>2, <1>3

(* A commit that reports success has written the whole set, whatever others write *)
(* in between, and has removed it if it was to.                                *)
THEOREM SuccessMeansWritten == Spec => SuccessIsWhole
<1>1. Init => ChangeInv
  BY ChangeInit
<1>2. ChangeInv /\ [Next]_vars => ChangeInv'
  BY InvStep
<1>3. ChangeInv => [Committed /\ ~ work.failed =>
        /\ \A k \in DOMAIN sets[work.set] \ work.apart : store[k] = sets[work.set][k]
        /\ work.remove => sets'[work.set] = Empty]_vars
  BY SuccessStep
<1> QED
  BY <1>1, <1>2, <1>3, PTL DEF Spec, SuccessIsWhole

-----------------------------------------------------------------------------
(* Reverting                                                                 *)

(* What was set when the set that reverts was asked for is in that set, or it was   *)
(* nothing, will be nothing once the changes are made, and still is.             *)
Noted(k) ==
    /\ k \in DOMAIN sets["revert"]
    /\ sets["revert"][k] = before[k].value
LeftOut(k) ==
    /\ k \notin DOMAIN sets["revert"]
    /\ store[k] = NoValue /\ before[k].value = NoValue
    /\ k \in DOMAIN sets["changes"] => sets["changes"][k] = NoValue

RevertIsSound ==
    /\ \A k \in DOMAIN before : before[k].plain => Noted(k) \/ LeftOut(k)
    /\ Reading => work.left \cap (DOMAIN before \cup DOMAIN sets["revert"]) = {}
    /\ Committing => work.apart \cap DOMAIN before = {}

RevertInv == ChangeInv /\ RevertIsSound

LEMMA WriteKey ==
    ASSUME TypeOK, NEW k \in Keys, NEW c, Write(k, c)
    PROVE  store'[k] = c /\ \A j \in Keys : j # k => store'[j] = store[j]
  BY DEF TypeOK, Write

(* Nothing that the promise is about changes.                                  *)
LEMMA RevertFrame ==
    ASSUME RevertIsSound, UNCHANGED <<store, sets, work, before>>
    PROVE  RevertIsSound'
  BY DEF RevertIsSound, Noted, LeftOut, Reading, Committing

LEMMA OtherWritesReverts ==
    ASSUME RevertInv, NEW k \in Keys, NEW c \in Changes, OtherWrites(k, c)
    PROVE  RevertIsSound'
<1>1. /\ UNCHANGED <<sets>> /\ before' = Minus(before, {k})
      /\ work' = IF Committing THEN [work EXCEPT !.apart = work.apart \cup {k}] ELSE work
  BY DEF OtherWrites
<1>2. \A j \in Keys : j # k => store'[j] = store[j]
  BY WriteKey DEF OtherWrites, RevertInv, ChangeInv
<1>3. /\ DOMAIN before' = DOMAIN before \ {k}
      /\ \A j \in DOMAIN before' : before'[j] = before[j]
      /\ DOMAIN before \subseteq Keys /\ work \in Works
  BY <1>1 DEF Minus, RevertInv, ChangeInv, TypeOK
<1>4. /\ work'.kind = work.kind /\ work'.left = work.left
      /\ Committing => work'.apart = work.apart \cup {k}
  BY <1>1, <1>3 DEF Works
<1>5. ASSUME NEW j \in DOMAIN before', before'[j].plain
      PROVE  Noted(j)' \/ LeftOut(j)'
  <2>1. Noted(j) \/ LeftOut(j)
    BY <1>3, <1>5 DEF RevertInv, RevertIsSound
  <2> QED BY <1>1, <1>2, <1>3, <2>1 DEF Noted, LeftOut
<1>6. Reading' => work'.left \cap (DOMAIN before' \cup DOMAIN sets'["revert"]) = {}
  BY <1>1, <1>3, <1>4 DEF RevertInv, RevertIsSound, Reading
<1>7. Committing' => work'.apart \cap DOMAIN before' = {}
  BY <1>3, <1>4 DEF RevertInv, RevertIsSound, Committing
<1> QED
  BY <1>5, <1>6, <1>7 DEF RevertIsSound

(* A set has one member changed.                                               *)
LEMMA SetFrame ==
    ASSUME TypeOK, NEW name \in Names, NEW f, sets' = [sets EXCEPT ![name] = f]
    PROVE  sets'[name] = f /\ \A n \in Names : n # name => sets'[n] = sets[n]
  BY DEF TypeOK

LEMMA ChangeReverts ==
    ASSUME RevertInv, NEW k \in Keys, NEW c \in Changes, Change(k, c)
    PROVE  RevertIsSound'
<1>1. /\ work = Idle /\ work' = work /\ store' = store
      /\ sets' = [sets EXCEPT !["changes"] = With(sets["changes"], k, c)]
      /\ before' = IF k \in DOMAIN sets["revert"] THEN before ELSE Minus(before, {k})
  BY DEF Change
<1>2. /\ sets'["revert"] = sets["revert"]
      /\ sets'["changes"] = With(sets["changes"], k, c)
  BY <1>1, SetFrame DEF RevertInv, ChangeInv, Names
<1>3. /\ DOMAIN sets'["changes"] = DOMAIN sets["changes"] \cup {k}
      /\ \A j \in DOMAIN sets["changes"] : j # k => sets'["changes"][j] = sets["changes"][j]
  <2> DEFINE g == sets["changes"]
             h == sets'["changes"]
  <2>1. h = With(g, k, c)
    BY <1>2
  <2> HIDE DEF g, h
  <2>2. DOMAIN h = DOMAIN g \cup {k} /\ \A j \in DOMAIN g : j # k => h[j] = g[j]
    BY <2>1 DEF With
  <2> QED BY <2>2 DEF g, h
<1>4. /\ DOMAIN before' \subseteq DOMAIN before
      /\ \A j \in DOMAIN before' : before'[j] = before[j]
      /\ k \in DOMAIN sets["revert"] \/ k \notin DOMAIN before'
  <2>1. CASE k \in DOMAIN sets["revert"]
    BY <1>1, <2>1
  <2>2. CASE k \notin DOMAIN sets["revert"]
    <3>1. before' = Minus(before, {k})
      BY <1>1, <2>2
    <3> QED BY <3>1 DEF Minus
  <2> QED BY <2>1, <2>2
<1>5. ~ Reading' /\ ~ Committing'
  BY <1>1, IdleFacts DEF Reading, Committing
<1>6. ASSUME NEW j \in DOMAIN before', before'[j].plain
      PROVE  Noted(j)' \/ LeftOut(j)'
  <2>1. Noted(j) \/ LeftOut(j)
    BY <1>4, <1>6 DEF RevertInv, RevertIsSound
  <2>2. CASE Noted(j)
    BY <1>2, <1>4, <2>2 DEF Noted
  <2>3. CASE LeftOut(j)
    <3>1. j # k
      BY <1>4, <2>3 DEF LeftOut
    <3> QED BY <1>1, <1>2, <1>3, <1>4, <2>3, <3>1 DEF LeftOut
  <2> QED BY <2>1, <2>2, <2>3
<1> QED
  BY <1>5, <1>6 DEF RevertIsSound

(* Changes leave the set, whatever else happens to it.                          *)
LEMMA ShrinkReverts ==
    ASSUME RevertInv, NEW ks,
           sets' = [sets EXCEPT !["changes"] = Minus(sets["changes"], ks)],
           ~ Reading', ~ Committing', UNCHANGED <<store, before>>
    PROVE  RevertIsSound'
<1>1. /\ sets'["revert"] = sets["revert"]
      /\ sets'["changes"] = Minus(sets["changes"], ks)
  BY SetFrame DEF RevertInv, ChangeInv, Names
<1>2. /\ DOMAIN sets'["changes"] \subseteq DOMAIN sets["changes"]
      /\ \A j \in DOMAIN sets'["changes"] : sets'["changes"][j] = sets["changes"][j]
  <2> DEFINE g == sets["changes"]
             h == sets'["changes"]
  <2>1. h = Minus(g, ks)
    BY <1>1
  <2> HIDE DEF g, h
  <2>2. DOMAIN h \subseteq DOMAIN g /\ \A j \in DOMAIN h : h[j] = g[j]
    BY <2>1 DEF Minus
  <2> QED BY <2>2 DEF g, h
<1>3. ASSUME NEW j \in DOMAIN before', before'[j].plain
      PROVE  Noted(j)' \/ LeftOut(j)'
  <2>1. Noted(j) \/ LeftOut(j)
    BY <1>3 DEF RevertInv, RevertIsSound
  <2> QED BY <1>1, <1>2, <2>1 DEF Noted, LeftOut
<1> QED
  BY <1>3 DEF RevertIsSound

LEMMA CommitReverts ==
    ASSUME RevertInv, NEW name \in Names, NEW remove \in BOOLEAN, Commit(name, remove)
    PROVE  RevertIsSound'
<1>1. /\ UNCHANGED <<store, sets, before>>
      /\ work'.kind = "commit" /\ work'.apart = {}
  BY DEF Commit, Idle
<1> QED
  BY <1>1 DEF RevertInv, RevertIsSound, Noted, LeftOut, Reading

(* A key that is left out is not in the set that reverts, and a change of it unsets  *)
(* what is not set.                                                          *)
LEMMA WriteReverts ==
    ASSUME RevertInv, NEW k \in Keys, Committing, ~ work.failed, k \in work.left,
           Write(k, sets[work.set][k]) \/ UNCHANGED store,
           work'.kind = "commit", work'.apart \subseteq work.apart,
           UNCHANGED <<sets, before>>
    PROVE  RevertIsSound'
<1>1. k \in DOMAIN sets[work.set] /\ work.set \in {"changes", "revert"}
  BY CommittedSet DEF RevertInv, ChangeInv, CommitSound, Names
<1>2. /\ \A j \in Keys : j # k => store'[j] = store[j]
      /\ store'[k] \in {store[k], sets[work.set][k]}
  BY WriteKey DEF RevertInv, ChangeInv
<1>3. DOMAIN before \subseteq Keys
  BY DEF RevertInv, ChangeInv, TypeOK
<1>4. ASSUME NEW j \in DOMAIN before', before'[j].plain
      PROVE  Noted(j)' \/ LeftOut(j)'
  <2>1. Noted(j) \/ LeftOut(j)
    BY <1>4 DEF RevertInv, RevertIsSound
  <2>2. CASE Noted(j)
    BY <2>2 DEF Noted
  <2>3. CASE LeftOut(j)
    <3>1. store'[j] = store[j]
      <4>1. CASE j # k
        BY <1>2, <1>3, <1>4, <4>1
      <4>2. CASE j = k
        <5>1. work.set = "changes" /\ sets["changes"][k] = NoValue
          BY <1>1, <2>3, <4>2 DEF LeftOut
        <5> QED BY <1>2, <2>3, <4>2, <5>1 DEF LeftOut
      <4> QED BY <4>1, <4>2
    <3> QED BY <2>3, <3>1 DEF LeftOut
  <2> QED BY <2>1, <2>2, <2>3
<1>5. ~ Reading'
  BY DEF Reading
<1>6. work'.apart \cap DOMAIN before' = {}
  BY DEF RevertInv, RevertIsSound
<1> QED
  BY <1>4, <1>5, <1>6 DEF RevertIsSound

LEMMA CommitsRevert ==
    ASSUME RevertInv, NEW k \in Keys, CommitKey(k) \/ CommitKeyFails(k)
    PROVE  RevertIsSound'
<1>1. /\ Committing /\ ~ work.failed /\ k \in work.left
      /\ Write(k, sets[work.set][k]) \/ UNCHANGED store
      /\ UNCHANGED <<sets, before>>
  BY DEF CommitKey, CommitKeyFails
<1>2. work \in Works
  BY DEF RevertInv, ChangeInv, TypeOK
<1>3. work'.kind = "commit" /\ work'.apart \subseteq work.apart
  <2>1. CASE CommitKey(k)
    BY <1>1, <1>2, <2>1 DEF CommitKey, Works, Committing
  <2>2. CASE CommitKeyFails(k)
    BY <1>1, <1>2, <2>2 DEF CommitKeyFails, Works, Committing
  <2> QED BY <2>1, <2>2
<1> QED
  BY <1>1, <1>3, WriteReverts

LEMMA CommittedReverts ==
    ASSUME RevertInv, Committed
    PROVE  RevertIsSound'
<1>1. /\ store' = store /\ work.set \in {"changes", "revert"}
      /\ before' = IF work.set = "revert" /\ work.remove THEN Empty ELSE before
      /\ sets' = IF work.remove THEN [sets EXCEPT ![work.set] = Minus(sets[work.set], work.done)]
                 ELSE sets
  BY CommittedSet DEF Committed, RemoveList, RevertInv, ChangeInv, Names
<1>2. ~ Reading' /\ ~ Committing'
  BY IdleFacts DEF Committed, Reading, Committing
<1>3. CASE work.remove /\ work.set = "revert"
  <2>1. DOMAIN before' = {}
    BY <1>1, <1>3, EmptySound
  <2> QED BY <1>2, <2>1 DEF RevertIsSound
<1>4. CASE work.remove /\ work.set = "changes"
  <2>1. before' = before /\ sets' = [sets EXCEPT !["changes"] = Minus(sets["changes"], work.done)]
    BY <1>1, <1>4
  <2> QED BY <1>1, <1>2, <2>1, ShrinkReverts
<1>5. CASE ~ work.remove
  <2>1. UNCHANGED <<store, sets, before>>
    BY <1>1, <1>5
  <2> QED BY <1>2, <2>1 DEF RevertInv, RevertIsSound, Noted, LeftOut
<1> QED
  BY <1>1, <1>3, <1>4, <1>5

LEMMA BeginReverts ==
    ASSUME RevertInv, Reverse \/ \E ks \in SUBSET Keys : FromCurrent(ks)
    PROVE  RevertIsSound'
<1>1. /\ before' = Empty /\ sets' = [sets EXCEPT !["revert"] = Empty]
      /\ work'.kind \in {"reverse", "current"}
  BY DEF Reverse, FromCurrent, Idle
<1>2. DOMAIN before' = {} /\ DOMAIN sets'["revert"] = {}
  BY <1>1, SetFrame, EmptySound DEF RevertInv, ChangeInv, Names
<1> QED
  BY <1>1, <1>2 DEF RevertIsSound, Committing

(* One key is noted, or left out, and the others stay as they are.               *)
LEMMA NoteFrame ==
    ASSUME TypeOK, NEW k, NEW old, Note(k, old)
    PROVE  /\ sets'["changes"] = sets["changes"]
           /\ DOMAIN sets["revert"] \subseteq DOMAIN sets'["revert"]
           /\ DOMAIN sets'["revert"] \subseteq DOMAIN sets["revert"] \cup {k}
           /\ \A j \in DOMAIN sets["revert"] : j # k => sets'["revert"][j] = sets["revert"][j]
           /\ \/ k \in DOMAIN sets'["revert"] /\ sets'["revert"][k] = old
              \/ /\ sets' = sets /\ old = NoValue /\ sets["changes"][k] = NoValue
<1>1. /\ \A f : sets' = [sets EXCEPT !["revert"] = f] =>
                   sets'["revert"] = f /\ sets'["changes"] = sets["changes"]
      /\ sets = [sets EXCEPT !["revert"] = sets["revert"]]
  BY DEF TypeOK, Names
<1>2. CASE NoEffect(work.kind, k, old)
  BY <1>1, <1>2 DEF Note, NoEffect
<1>3. CASE ~ NoEffect(work.kind, k, old)
  <2>1. sets'["revert"] = With(sets["revert"], k, old) /\ sets'["changes"] = sets["changes"]
    BY <1>1, <1>3 DEF Note
  <2> DEFINE g == sets["revert"]
             h == sets'["revert"]
  <2>2. h = With(g, k, old)
    BY <2>1
  <2> HIDE DEF g, h
  <2>3. /\ DOMAIN h = DOMAIN g \cup {k} /\ h[k] = old
        /\ \A j \in DOMAIN g : j # k => h[j] = g[j]
    BY <2>2 DEF With
  <2>4. /\ DOMAIN g \subseteq DOMAIN h /\ DOMAIN h \subseteq DOMAIN g \cup {k}
        /\ \A j \in DOMAIN g : j # k => h[j] = g[j]
        /\ k \in DOMAIN h /\ h[k] = old
    BY <2>3
  <2> QED BY <2>1, <2>4 DEF g, h
<1> QED
  BY <1>2, <1>3

LEMMA ReadKeyReverts ==
    ASSUME RevertInv, NEW k \in Keys, ReadKey(k) \/ ReadKeyFails(k)
    PROVE  RevertIsSound'
<1> DEFINE x == [value |-> store[k], plain |-> WithoutDefault(Read(k)) = store[k]]
<1>1. PICK old : /\ Note(k, old)
                 /\ \/ before' = before
                    \/ before' = With(before, k, x) /\ old = WithoutDefault(Read(k))
  BY DEF ReadKey, ReadKeyFails
<1>2. /\ Reading /\ k \in work.left /\ store' = store
      /\ work' = IF work.left = {k} THEN Idle ELSE [work EXCEPT !.left = work.left \ {k}]
  BY DEF ReadKey, ReadKeyFails
<1>3. /\ sets'["changes"] = sets["changes"]
      /\ DOMAIN sets["revert"] \subseteq DOMAIN sets'["revert"]
      /\ DOMAIN sets'["revert"] \subseteq DOMAIN sets["revert"] \cup {k}
      /\ \A j \in DOMAIN sets["revert"] : j # k => sets'["revert"][j] = sets["revert"][j]
      /\ \/ k \in DOMAIN sets'["revert"] /\ sets'["revert"][k] = old
         \/ /\ sets' = sets /\ old = NoValue /\ sets["changes"][k] = NoValue
  BY <1>1, NoteFrame DEF RevertInv, ChangeInv
<1>4. k \notin DOMAIN before /\ k \notin DOMAIN sets["revert"]
  BY <1>2 DEF RevertInv, RevertIsSound
<1>5. /\ DOMAIN before' \subseteq DOMAIN before \cup {k}
      /\ \A j \in DOMAIN before' : j # k => j \in DOMAIN before /\ before'[j] = before[j]
      /\ k \in DOMAIN before' => before'[k] = x /\ old = WithoutDefault(Read(k))
  <2> HIDE DEF x
  <2>1. CASE before' = before
    BY <1>4, <2>1
  <2>2. CASE before' = With(before, k, x) /\ old = WithoutDefault(Read(k))
    BY <2>2 DEF With
  <2> QED BY <1>1, <2>1, <2>2
<1>6. ASSUME NEW j \in DOMAIN before', before'[j].plain
      PROVE  Noted(j)' \/ LeftOut(j)'
  <2>1. CASE j # k
    <3>1. Noted(j) \/ LeftOut(j)
      BY <1>5, <1>6, <2>1 DEF RevertInv, RevertIsSound
    <3> QED BY <1>2, <1>3, <1>5, <1>6, <2>1, <3>1 DEF Noted, LeftOut
  <2>2. CASE j = k
    <3>1. before'[k].value = old /\ store[k] = old
      <4>1. before'[k] = x /\ old = WithoutDefault(Read(k)) /\ before'[k].plain
        BY <1>5, <1>6, <2>2
      <4>2. x.value = store[k]
        OBVIOUS
      <4>3. x.plain => WithoutDefault(Read(k)) = store[k]
        BY Zenon
      <4> HIDE DEF x
      <4> QED BY <4>1, <4>2, <4>3
    <3> QED BY <1>2, <1>3, <1>4, <2>2, <3>1 DEF Noted, LeftOut
  <2> QED BY <2>1, <2>2
<1>7. CASE work.left = {k}
  <2>1. ~ Reading' /\ ~ Committing'
    BY <1>2, <1>7, IdleFacts DEF Reading, Committing
  <2> QED BY <1>6, <2>1 DEF RevertIsSound
<1>8. CASE work.left # {k}
  <2>1. work'.kind = work.kind /\ work'.left = work.left \ {k}
    BY <1>2, <1>8 DEF RevertInv, ChangeInv, TypeOK, Works
  <2>2. ~ Committing'
    BY <1>2, <2>1 DEF Reading, Committing
  <2>3. work'.left \cap (DOMAIN before' \cup DOMAIN sets'["revert"]) = {}
    BY <1>2, <1>3, <1>5, <2>1 DEF RevertInv, RevertIsSound
  <2> QED BY <1>6, <2>2, <2>3 DEF RevertIsSound
<1> QED
  BY <1>7, <1>8

LEMMA RevertInit ==
    ASSUME Init
    PROVE  RevertInv
<1>1. ChangeInv
  BY ChangeInit
<1>2. DOMAIN before = {} /\ ~ Reading /\ ~ Committing
  BY EmptySound, IdleFacts DEF Init, Reading, Committing
<1> QED
  BY <1>1, <1>2 DEF RevertInv, RevertIsSound

LEMMA RevertStep ==
    ASSUME RevertInv, [Next]_vars
    PROVE  RevertInv'
<1>1. ChangeInv'
  BY InvStep DEF RevertInv
<1>2. CASE \/ UNCHANGED vars \/ Notify
           \/ \E k \in Keys : Get(k)
  <2>1. UNCHANGED <<store, sets, work, before>>
    BY <1>2 DEF vars, Notify, Get
  <2> QED BY <1>1, <2>1, RevertFrame DEF RevertInv
<1>3. CASE \E ks \in SUBSET Keys : Drop(ks)
  <2>1. PICK ks \in SUBSET Keys : Drop(ks)
    BY <1>3
  <2>2. ~ Reading' /\ ~ Committing'
    BY <2>1, IdleFacts DEF Drop, Reading, Committing
  <2>3. RevertIsSound'
    BY <2>1, <2>2, ShrinkReverts DEF Drop
  <2> QED BY <1>1, <2>3 DEF RevertInv
<1> QED
  BY <1>1, <1>2, <1>3, OtherWritesReverts, ChangeReverts, CommitReverts, CommitsRevert,
     CommittedReverts, BeginReverts, ReadKeyReverts DEF Next, RevertInv

(* What a commit of the set that reverts has behind it when it ends well.         *)
LEMMA RevertedRestores ==
    ASSUME RevertInv, Reverted, NEW k \in DOMAIN before, before[k].plain
    PROVE  Restores(k)
<1>1. /\ Committing /\ work.set = "revert" /\ ~ work.failed /\ work.left = {}
  BY DEF Reverted, Committed
<1>2. \A j \in DOMAIN sets["revert"] \ work.apart : store[j] = sets["revert"][j]
  BY <1>1 DEF RevertInv, ChangeInv, CommitSound
<1>3. k \notin work.apart
  BY <1>1 DEF RevertInv, RevertIsSound
<1>4. Noted(k) \/ LeftOut(k)
  BY DEF RevertInv, RevertIsSound
<1> QED
  BY <1>2, <1>3, <1>4 DEF Noted, LeftOut, Restores

(* Committing the set that reverts brings back what was set, whatever was changed,  *)
(* committed in part and changed again in between, as far as the reads told what   *)
(* was set and nobody else has written.                                        *)
THEOREM RevertBringsBack == Spec => ReverseRestores
<1>1. Init => RevertInv
  BY RevertInit
<1>2. RevertInv /\ [Next]_vars => RevertInv'
  BY RevertStep
<1>3. RevertInv => [Reverted => \A k \in DOMAIN before : before[k].plain => Restores(k)]_vars
  BY RevertedRestores
<1> QED
  BY <1>1, <1>2, <1>3, PTL DEF Spec, ReverseRestores
=============================================================================
