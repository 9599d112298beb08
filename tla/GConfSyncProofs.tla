--------------------------- MODULE GConfSyncProofs ---------------------------
(***************************************************************************)
(* Theorems about GConfSync: changes stay due until they are saved, what is   *)
(* set is what is read, listings agree with reads, and what is announced is    *)
(* what has changed.                                                         *)
(***************************************************************************)
EXTENDS GConfSync, WellFoundedInduction, TLAPS

-----------------------------------------------------------------------------
(* Lemmas about the operators on stacks                                      *)

LEMMA LeastElement ==
    ASSUME NEW T \in SUBSET Nat, T # {}
    PROVE  \E x \in T : \A y \in T : x <= y
<1>1. PICK x \in T : \A y \in T : ~ (<<y, x>> \in OpToRel(<, Nat))
  BY WFMin, NatLessThanWellFounded, Zenon
<1>2. \A y \in T : ~ (y < x)
  BY <1>1, Zenon DEF OpToRel
<1> QED
  BY <1>2

(* FirstIn finds the first, or the end.                                       *)
LEMMA FirstInFacts ==
    ASSUME NEW st \in Stacks, NEW those
    PROVE  /\ FirstIn(st, those) \in 1..Len(st) + 1
           /\ FirstIn(st, those) <= Len(st) => st[FirstIn(st, those)] \in those
           /\ \A j \in 1..FirstIn(st, those) - 1 : st[j] \notin those
<1> DEFINE T == {i \in 1..Len(st) + 1 : i <= Len(st) => st[i] \in those}
<1> DEFINE P(i) == /\ i <= Len(st) => st[i] \in those
                   /\ \A j \in 1..i - 1 : st[j] \notin those
<1>0. Len(st) \in Nat
  BY DEF Stacks
<1>1. Len(st) + 1 \in T /\ T \in SUBSET Nat
  BY <1>0
<1>2. PICK i \in T : \A y \in T : i <= y
  <2> HIDE DEF T
  <2> QED BY <1>1, LeastElement
<1>3. i \in 1..Len(st) + 1 /\ P(i)
  BY <1>0, <1>2
<1>4. FirstIn(st, those) = CHOOSE x \in 1..Len(st) + 1 : P(x)
  BY DEF FirstIn
<1>5. FirstIn(st, those) \in 1..Len(st) + 1 /\ P(FirstIn(st, those))
  <2> HIDE DEF P
  <2> QED BY <1>3, <1>4, Zenon
<1> QED
  BY <1>5

LEMMA MemberTyped ==
    ASSUME NEW st \in Stacks, NEW i \in 1..Len(st)
    PROVE  st[i] \in Sources /\ Resource[st[i]] \in Resources /\ st[i] \in Members(st)
  BY SourcesAssumption DEF Stacks, Members

LEMMA EntryTyped ==
    ASSUME NEW c \in Contents, NEW s \in Sources, NEW k \in Keys
    PROVE  /\ Entry(c, s, k) \in Entries
           /\ Entry(c, s, k).value \in AnyValue \cup {None}
           /\ Entry(c, s, k).schema \in Keys \cup {None}
  BY SourcesAssumption DEF Entry, Entries, Contents

LEMMA LookupTyped ==
    ASSUME NEW c \in Contents, NEW st \in Stacks, NEW k \in Keys, NEW seek \in BOOLEAN, NEW bad
    PROVE  LET l == Lookup(c, st, k, seek, bad)
           IN /\ l.error \in BOOLEAN /\ l.writable \in BOOLEAN
              /\ l.value \in AnyValue \cup {None}
              /\ l.schema \in Keys \cup {None}
<1> DEFINE v == FirstIn(st, WithValue(c, k))
           s == FirstIn(st, WithSchema(c, k))
<1>1. v \in 1..Len(st) + 1 /\ s \in 1..Len(st) + 1 /\ Len(st) \in Nat
  BY FirstInFacts DEF Stacks
<1>2. v <= Len(st) => Entry(c, st[v], k).value \in AnyValue \cup {None}
  <2> HIDE DEF v
  <2> QED BY <1>1, MemberTyped, EntryTyped
<1>3. s <= Len(st) => Entry(c, st[s], k).schema \in Keys \cup {None}
  <2> HIDE DEF s
  <2> QED BY <1>1, MemberTyped, EntryTyped
<1> QED
  BY <1>2, <1>3 DEF Lookup

LEMMA QueryTyped ==
    ASSUME NEW c \in Contents, NEW st \in Stacks, NEW k \in Keys, NEW bad
    PROVE  LET q == QueryValue(c, st, k, bad)
           IN /\ q.error \in BOOLEAN /\ q.isDefault \in BOOLEAN /\ q.writable \in BOOLEAN
              /\ q.value \in AnyValue \cup {None}
<1> DEFINE own == Lookup(c, st, k, TRUE, bad)
           schema == Lookup(c, st, own.schema, FALSE, bad)
<1>1. own.writable \in BOOLEAN /\ own.value \in AnyValue \cup {None}
  BY LookupTyped
<1>2. schema.value \in SchemaValues => DefaultIn[schema.value] \in AnyValue \cup {None}
  BY SourcesAssumption DEF AnyValue
<1> HIDE DEF own
<1>3. QueryValue(c, st, k, bad) \in
        [error : BOOLEAN, value : AnyValue \cup {None}, isDefault : BOOLEAN, writable : BOOLEAN]
  <2> HIDE DEF schema
  <2> QED BY <1>1, <1>2 DEF QueryValue, own, schema
<1> QED
  BY <1>3

LEMMA DefaultTyped ==
    ASSUME NEW c \in Contents, NEW st \in Stacks, NEW k \in Keys, NEW bad
    PROVE  LET q == QueryDefault(c, st, k, bad)
           IN q.writable \in BOOLEAN /\ q.value \in AnyValue \cup {None}
<1> DEFINE name == MetaSchema(c, st, k, bad)
           schema == QueryValue(c, st, name, bad)
<1>1. schema.value \in SchemaValues => DefaultIn[schema.value] \in AnyValue \cup {None}
  BY SourcesAssumption DEF AnyValue
<1>2. QueryDefault(c, st, k, bad) \in
        [error : {schema.error, FALSE}, value : AnyValue \cup {None}, writable : BOOLEAN]
  <2> HIDE DEF name, schema
  <2> QED BY <1>1 DEF QueryDefault, name, schema
<1> QED
  BY <1>2

(* Storing a value or the name of a schema.                                   *)
LEMMA PutTyped ==
    ASSUME NEW c \in Contents, NEW r \in Resources, NEW k \in Keys
    PROVE  /\ \A v \in AnyValue \cup {None} : [c EXCEPT ![r][k].value = v] \in Contents
           /\ \A n \in Keys \cup {None} : [c EXCEPT ![r][k].schema = n] \in Contents
<1>1. c[r] \in [Keys -> Entries] /\ c[r][k] \in Entries
  BY DEF Contents
<1>2. \A e \in Entries : [c EXCEPT ![r][k] = e] \in Contents
  BY <1>1 DEF Contents
<1>3. \A v \in AnyValue \cup {None} : [c[r][k] EXCEPT !.value = v] \in Entries
  BY <1>1 DEF Entries
<1>4. \A n \in Keys \cup {None} : [c[r][k] EXCEPT !.schema = n] \in Entries
  BY <1>1 DEF Entries
<1>5. \A v \in AnyValue \cup {None} :
        [c EXCEPT ![r][k].value = v] = [c EXCEPT ![r][k] = [c[r][k] EXCEPT !.value = v]]
  BY <1>1 DEF Contents
<1>6. \A n \in Keys \cup {None} :
        [c EXCEPT ![r][k].schema = n] = [c EXCEPT ![r][k] = [c[r][k] EXCEPT !.schema = n]]
  BY <1>1 DEF Contents
<1> QED
  BY <1>2, <1>3, <1>4, <1>5, <1>6

(* A change modifies sources of the stack only, and none without leaving them    *)
(* with well-formed entries.                                                  *)
Sound(st, result) == result.contents \in Contents /\ result.modified \subseteq Members(st)

LEMMA SetSound ==
    ASSUME NEW c \in Contents, NEW st \in Stacks, NEW k \in Keys, NEW v \in AnyValue, NEW bad
    PROVE  Sound(st, SetValue(c, st, k, v, bad))
<1> DEFINE w == FirstIn(st, WritableAt(k))
<1>1. w \in 1..Len(st) + 1 /\ Len(st) \in Nat
  BY FirstInFacts DEF Stacks
<1>2. w <= Len(st) => /\ st[w] \in Members(st)
                      /\ [c EXCEPT ![Resource[st[w]]][k].value = v] \in Contents
  <2> HIDE DEF w
  <2> QED BY <1>1, MemberTyped, PutTyped
<1> QED
  <2> HIDE DEF w
  <2>1. CASE w > Len(st)
    BY <2>1 DEF SetValue, Result, Sound, w
  <2>2. CASE w <= Len(st)
    BY <2>2, <1>2 DEF SetValue, Result, Sound, w
  <2> QED BY <1>1, <2>1, <2>2

LEMMA SchemaSound ==
    ASSUME NEW c \in Contents, NEW st \in Stacks, NEW k \in Keys,
           NEW n \in Keys \cup {None}, NEW bad
    PROVE  /\ Sound(st, SetSchema(c, st, k, n, bad))
           /\ SetSchema(c, st, k, n, bad).error => SetSchema(c, st, k, n, bad).modified = {}
<1> DEFINE w == FirstIn(st, WritableAt(k))
<1>1. w \in 1..Len(st) + 1 /\ Len(st) \in Nat
  BY FirstInFacts DEF Stacks
<1>2. w <= Len(st) => /\ st[w] \in Members(st)
                      /\ [c EXCEPT ![Resource[st[w]]][k].schema = n] \in Contents
  <2> HIDE DEF w
  <2> QED BY <1>1, MemberTyped, PutTyped
<1> QED
  <2> HIDE DEF w
  <2>1. CASE w > Len(st)
    BY <2>1 DEF SetSchema, Result, Sound, w
  <2>2. CASE w <= Len(st)
    BY <2>2, <1>2 DEF SetSchema, Result, Sound, w
  <2> QED BY <1>1, <2>1, <2>2

LEMMA UnsetInMembers ==
    ASSUME NEW st \in Stacks, NEW k, NEW bad
    PROVE  UnsetIn(st, k, bad) \subseteq Members(st)
<1> DEFINE failing == {s \in WritableAt(k) : <<s, "unset">> \in bad}
<1>1. FirstIn(st, failing) \in 1..Len(st) + 1 /\ Len(st) \in Nat
  BY FirstInFacts DEF Stacks
<1> QED
  BY <1>1 DEF UnsetIn, Members

LEMMA WithoutTyped ==
    ASSUME NEW c \in Contents, NEW st, NEW ks, NEW named, NEW bad
    PROVE  Without(c, st, ks, named, bad) \in Contents
<1>1. \A r \in Resources, k \in Keys :
        c[r][k].value \in AnyValue \cup {None} /\ c[r][k].schema \in Keys \cup {None}
  BY DEF Contents, Entries
<1> QED
  BY <1>1 DEF Without, Contents, Entries

LEMMA UnsetSound ==
    ASSUME NEW c \in Contents, NEW st \in Stacks, NEW k \in Keys, NEW bad
    PROVE  Sound(st, UnsetValue(c, st, k, bad))
  BY UnsetInMembers, WithoutTyped DEF Sound, UnsetValue, Result

LEMMA VisitedKeys ==
    ASSUME NEW c, NEW st, NEW d \in Dirs, NEW bad
    PROVE  /\ Visited(c, st, d, bad) \subseteq Keys
           /\ EntriesBelow(c, st, d, bad) \subseteq Keys
  BY SourcesAssumption DEF Visited, DirsBelow, EntriesBelow, ListedKeys

LEMMA RecursiveSound ==
    ASSUME NEW c \in Contents, NEW st \in Stacks, NEW d \in Dirs, NEW names, NEW bad
    PROVE  Sound(st, RecursiveUnset(c, st, d, names, bad))
<1> DEFINE ks == Visited(c, st, d, bad)
           named == IF names THEN EntriesBelow(c, st, d, bad) ELSE {}
<1>1. named \subseteq Keys
  BY VisitedKeys
<1>2. \A k \in named : SetSchema(c, st, k, None, bad).modified \subseteq Members(st)
  BY <1>1, SchemaSound DEF Sound
<1>3. Without(c, st, ks, named, bad) \in Contents
  BY WithoutTyped
<1>4. RecursiveUnset(c, st, d, names, bad).contents = Without(c, st, ks, named, bad)
  BY DEF RecursiveUnset, Result
<1>5. RecursiveUnset(c, st, d, names, bad).modified =
        (UNION {UnsetIn(st, k, bad) : k \in ks})
            \cup (UNION {SetSchema(c, st, k, None, bad).modified : k \in named})
  BY DEF RecursiveUnset, Result
<1>6. UNION {UnsetIn(st, k, bad) : k \in ks} \subseteq Members(st)
  BY UnsetInMembers
<1> HIDE DEF ks, named
<1> QED
  BY <1>2, <1>3, <1>4, <1>5, <1>6 DEF Sound
-----------------------------------------------------------------------------
(* Changes are due                                                           *)

Waits(d) == idle[d] \/ timer[d] > 0

(* What UnsavedIsDue says beside the types.                                   *)
DueUnlessFailed == gconfd # "aborted" => \A r \in unsaved \ failed : Running /\ Due(r)

LEMMA OpenTyped ==
    ASSUME TypeOK
    PROVE  Open \subseteq Databases /\ \A d \in Databases : stack[d] \in Stacks
  BY DEF TypeOK, Open

LEMMA SchedulingTyped ==
    ASSUME TypeOK, NEW d \in Databases, Schedule(d) \/ SyncNowish(d)
    PROVE  /\ timer' \in [Databases -> 0..Minute] /\ idle' \in [Databases -> BOOLEAN]
           /\ Waits(d)' /\ \A e \in Databases : Waits(e) => Waits(e)'
<1>1. Minute \in Nat /\ Minute > 0
  BY DatabasesAssumption
<1>2. CASE Schedule(d)
  BY <1>1, <1>2 DEF TypeOK, Schedule, Waits
<1>3. CASE SyncNowish(d)
  BY <1>1, <1>3 DEF TypeOK, SyncNowish, Waits
<1> QED
  BY <1>2, <1>3

(* A change of sources in the stack of an open database, which then waits for a  *)
(* sync.                                                                     *)
LEMMA ChangeIsDue ==
    ASSUME TypeOK, DueUnlessFailed, Running, NEW d \in Open, NEW result,
           Sound(stack[d], result), Becomes(result),
           result.modified = {} \/ Waits(d)',
           \A e \in Databases : Waits(e) => Waits(e)',
           UNCHANGED <<gconfd, dbs, stack>>
    PROVE  DueUnlessFailed' /\ contents' \in Contents
                /\ unsaved' \subseteq Resources /\ failed' \subseteq Resources
<1> DEFINE M == {Resource[s] : s \in result.modified}
<1>1. \A s \in Members(stack[d]) : s \in Sources /\ Resource[s] \in Resources
  BY OpenTyped, MemberTyped DEF Members
<1>2. unsaved' = unsaved \cup M /\ failed' = failed \ M /\ contents' \in Contents
  BY DEF Becomes, Sound
<1>3. M \subseteq Resources
  BY <1>1 DEF Sound
<1>4. ASSUME NEW r \in M PROVE Due(r)'
  <2>1. Open' = Open /\ stack' = stack
    BY DEF Open
  <2>2. PICK s \in result.modified : Resource[s] = r
    BY <1>4
  <2>3. s \in Members(stack[d]) /\ Waits(d)'
    BY <2>2 DEF Sound
  <2> QED
    BY <2>1, <2>2, <2>3 DEF Due, Waits
<1>5. ASSUME NEW r \in unsaved \ failed PROVE Due(r)'
  <2>1. Open' = Open /\ stack' = stack /\ Open \subseteq Databases
    BY OpenTyped DEF Open
  <2>2. Due(r)
    BY <1>5 DEF DueUnlessFailed, Running
  <2> QED
    BY <2>1, <2>2 DEF Due, Waits
<1>6. \A r \in unsaved' \ failed' : Running' /\ Due(r)'
  <2> HIDE DEF M
  <2> QED BY <1>2, <1>4, <1>5 DEF Running
<1> QED
  <2> HIDE DEF M
  <2> QED BY <1>2, <1>3, <1>6 DEF TypeOK, DueUnlessFailed

(* A sync of some databases, among them all that wait if gconfd stops.           *)
LEMMA SyncKeepsDue ==
    ASSUME TypeOK, DueUnlessFailed, Running, NEW ds \in SUBSET Databases, NEW bad,
           ReallySync(ds, bad), UNCHANGED <<dbs, stack>>,
           \/ gconfd' = gconfd
           \/ gconfd' = "stopped" /\ \A d \in Open : Waits(d) => d \in ds
    PROVE  DueUnlessFailed' /\ unsaved' \subseteq Resources /\ failed' \subseteq Resources
                /\ timer' \in [Databases -> 0..Minute] /\ idle' \in [Databases -> BOOLEAN]
<1> DEFINE synced == UNION {Synced(stack[d], bad) : d \in ds}
           failing == (UNION {SyncFails(stack[d], bad) : d \in ds}) \ synced
<1>1. /\ unsaved' = unsaved \ synced
      /\ failed' = (failed \ synced) \cup failing
      /\ timer' = [d \in Databases |-> IF d \in ds THEN 0 ELSE timer[d]]
      /\ idle' = [d \in Databases |-> IF d \in ds THEN FALSE ELSE idle[d]]
  BY DEF ReallySync
<1>2. \A d \in ds : \A s \in Members(stack[d]) : Resource[s] \in synced \cup failing
  <2>1. \A d \in ds : \A s \in Members(stack[d]) :
            Resource[s] \in Synced(stack[d], bad) \/ Resource[s] \in SyncFails(stack[d], bad)
    BY DEF SyncFails
  <2> QED BY <2>1
<1>3. failing \subseteq Resources
  <2>1. \A d \in ds : SyncFails(stack[d], bad) \subseteq Resources
    BY OpenTyped, MemberTyped DEF SyncFails, Members
  <2> QED BY <2>1
<1> HIDE DEF synced, failing
<1>4. ASSUME NEW r \in unsaved' \ failed' PROVE Running' /\ Due(r)'
  <2>1. r \in unsaved \ failed /\ r \notin synced \cup failing
    BY <1>1
  <2>2. PICK d \in Open : (\E s \in Members(stack[d]) : Resource[s] = r) /\ Waits(d)
    BY <2>1 DEF DueUnlessFailed, Running, Due, Waits
  <2>3. d \notin ds
    BY <1>2, <2>1, <2>2
  <2>4. Open' = Open /\ d \in Databases
    BY OpenTyped DEF Open
  <2>5. Waits(d)'
    BY <1>1, <2>2, <2>3, <2>4 DEF Waits
  <2> QED
    BY <2>2, <2>3, <2>4, <2>5 DEF Due, Waits, Running
<1>5. timer' \in [Databases -> 0..Minute] /\ idle' \in [Databases -> BOOLEAN]
  <2>1. Minute \in Nat /\ timer \in [Databases -> 0..Minute] /\ idle \in [Databases -> BOOLEAN]
    BY DatabasesAssumption DEF TypeOK
  <2>2. ASSUME NEW d \in Databases PROVE (IF d \in ds THEN 0 ELSE timer[d]) \in 0..Minute
    BY <2>1
  <2>3. ASSUME NEW d \in Databases PROVE (IF d \in ds THEN FALSE ELSE idle[d]) \in BOOLEAN
    BY <2>1, Zenon
  <2>4. timer' \in [Databases -> 0..Minute]
    BY <1>1, <2>2
  <2>5. idle' \in [Databases -> BOOLEAN]
    BY <1>1, <2>3, Zenon
  <2> QED BY <2>4, <2>5
<1> QED
  BY <1>1, <1>3, <1>4, <1>5 DEF TypeOK, DueUnlessFailed
-----------------------------------------------------------------------------
(* The steps                                                                 *)

DueInv == TypeOK /\ DueUnlessFailed

LEMMA ToldTyped ==
    ASSUME NEW d \in Databases, NEW k \in Keys, NEW r,
           r.value \in AnyValue \cup {None}, r.isDefault \in BOOLEAN, r.writable \in BOOLEAN
    PROVE  Told(d, k, r) \in Announcements
  BY DEF Told, Announcements

LEMMA ToldOthersTyped ==
    ASSUME TypeOK, NEW c \in Contents, NEW d, NEW k \in Keys, NEW modified, NEW bad
    PROVE  ToldOthers(c, d, k, modified, bad) \subseteq Announcements
<1>1. ASSUME NEW i \in 1..Len(dbs)
      PROVE  Told(dbs[i], k, QueryValue(c, stack[dbs[i]], k, bad)) \in Announcements
  <2>1. dbs[i] \in Databases /\ stack[dbs[i]] \in Stacks
    BY DEF TypeOK
  <2> QED
    BY <2>1, QueryTyped, ToldTyped
<1>2. AffectedOthers(c, d, k, modified, bad) \subseteq 1..Len(dbs)
  BY DEF AffectedOthers
<1> QED
  BY <1>1, <1>2 DEF ToldOthers

LEMMA AbortStep ==
    ASSUME DueInv, Aborts
    PROVE  DueInv'
  BY DEF Aborts, DueInv, TypeOK, DueUnlessFailed

LEMMA ChangeStep ==
    ASSUME DueInv, Running, NEW d \in Open, NEW result,
           Sound(stack[d], result), Becomes(result),
           \/ Schedule(d) \/ SyncNowish(d)
           \/ result.modified = {} /\ UNCHANGED syncing,
           UNCHANGED <<gconfd, dbs, stack>>,
           done'.told \subseteq Announcements
    PROVE  DueInv'
<1>1. d \in Databases
  BY OpenTyped DEF DueInv
<1>2. /\ timer' \in [Databases -> 0..Minute] /\ idle' \in [Databases -> BOOLEAN]
      /\ result.modified = {} \/ Waits(d)'
      /\ \A e \in Databases : Waits(e) => Waits(e)'
  <2>1. CASE Schedule(d) \/ SyncNowish(d)
    BY <1>1, <2>1, SchedulingTyped DEF DueInv
  <2>2. CASE result.modified = {} /\ UNCHANGED syncing
    BY <2>2 DEF syncing, DueInv, TypeOK, Waits
  <2> QED BY <2>1, <2>2
<1>3. DueUnlessFailed' /\ contents' \in Contents
        /\ unsaved' \subseteq Resources /\ failed' \subseteq Resources
  BY <1>2, ChangeIsDue DEF DueInv
<1> QED
  BY <1>2, <1>3 DEF DueInv, TypeOK

LEMMA SetStep ==
    ASSUME DueInv, NEW d \in Databases, NEW k \in Keys, NEW v \in AnyValue, NEW bad,
           Set(d, k, v, bad)
    PROVE  DueInv'
<1> DEFINE r == SetValue(contents, stack[d], k, v, bad)
<1>1. Running /\ d \in Open /\ contents \in Contents /\ stack[d] \in Stacks
  BY DEF Set, Serves, Free, DueInv, TypeOK
<1>2. Sound(stack[d], r)
  BY <1>1, SetSound
<1> DEFINE own == Told(d, k, [value |-> v, isDefault |-> FALSE, writable |-> TRUE])
<1>3. {own} \cup ToldOthers(r.contents, d, k, r.modified, bad) \subseteq Announcements
  <2>1. own \in Announcements
    BY ToldTyped
  <2> QED BY <1>2, <2>1, ToldOthersTyped DEF DueInv, Sound
<1>4. \/ Aborts
      \/ /\ Becomes(r)
         /\ (r.modified = {} /\ UNCHANGED syncing) \/ Schedule(d)
         /\ done'.told \in {{}, {own} \cup ToldOthers(r.contents, d, k, r.modified, bad)}
         /\ UNCHANGED <<gconfd, dbs, stack>>
  <2>1. CASE r.error /\ r.modified # {} /\ Aborts
    BY <2>1
  <2>2. CASE /\ r.modified = {} /\ Becomes(r)
             /\ Replies("set", d, k, v, bad, FALSE, {})
             /\ UNCHANGED <<gconfd, dbs, stack, timer, idle>>
    <3>1. done'.told = {}
      BY <2>2 DEF Replies
    <3> QED BY <2>2, <3>1 DEF syncing
  <2>3. CASE /\ Becomes(r) /\ Schedule(d)
             /\ Replies("set", d, k, v, bad, TRUE,
                    {own} \cup ToldOthers(r.contents, d, k, r.modified, bad))
             /\ UNCHANGED <<gconfd, dbs, stack>>
    <3>1. done'.told = {own} \cup ToldOthers(r.contents, d, k, r.modified, bad)
      BY <2>3 DEF Replies
    <3> QED BY <2>3, <3>1
  <2> QED BY <2>1, <2>2, <2>3, Zenon DEF Set
<1> HIDE DEF r, own
<1> QED
  BY <1>1, <1>2, <1>3, <1>4, AbortStep, ChangeStep

LEMMA UnsetStep ==
    ASSUME DueInv, NEW d \in Databases, NEW k \in Keys, NEW bad, Unset(d, k, bad)
    PROVE  DueInv'
<1> DEFINE r == UnsetValue(contents, stack[d], k, bad)
           fallback == QueryDefault(r.contents, stack[d], k, bad)
           own == Told(d, k, [value |-> fallback.value, isDefault |-> TRUE,
                              writable |-> fallback.writable])
<1>1. Running /\ d \in Open /\ contents \in Contents /\ stack[d] \in Stacks
  BY DEF Unset, Serves, Free, DueInv, TypeOK
<1>2. Sound(stack[d], r)
  BY <1>1, UnsetSound
<1>3. {own} \cup ToldOthers(r.contents, d, k, r.modified, bad) \subseteq Announcements
  <2>0. r.contents \in Contents
    BY <1>2 DEF Sound
  <2>1. fallback.value \in AnyValue \cup {None} /\ fallback.writable \in BOOLEAN
    <3> HIDE DEF r
    <3> QED BY <1>1, <2>0, DefaultTyped
  <2>2. own \in Announcements
    <3> HIDE DEF fallback
    <3> QED BY <2>1, ToldTyped
  <2> QED BY <2>0, <2>2, ToldOthersTyped DEF DueInv
<1>4. \/ Aborts
      \/ /\ Becomes(r) /\ SyncNowish(d)
         /\ done'.told \in {{}, {own} \cup ToldOthers(r.contents, d, k, r.modified, bad)}
         /\ UNCHANGED <<gconfd, dbs, stack>>
  <2>1. CASE r.error /\ r.modified # {} /\ Aborts
    BY <2>1
  <2>2. CASE /\ Becomes(r) /\ SyncNowish(d)
             /\ Replies("unset", d, k, None, bad, FALSE, {})
             /\ UNCHANGED <<gconfd, dbs, stack>>
    <3>1. done'.told = {}
      BY <2>2 DEF Replies
    <3> QED BY <2>2, <3>1
  <2>3. CASE /\ Becomes(r) /\ SyncNowish(d)
             /\ Replies("unset", d, k, None, bad, ~ fallback.error,
                    {own} \cup ToldOthers(r.contents, d, k, r.modified, bad))
             /\ UNCHANGED <<gconfd, dbs, stack>>
    <3>1. done'.told = {own} \cup ToldOthers(r.contents, d, k, r.modified, bad)
      BY <2>3 DEF Replies
    <3> QED BY <2>3, <3>1
  <2> QED BY <2>1, <2>2, <2>3, Zenon DEF Unset
<1> HIDE DEF r, own
<1> QED
  BY <1>1, <1>2, <1>3, <1>4, AbortStep, ChangeStep

LEMMA UnsetBelowStep ==
    ASSUME DueInv, NEW d \in Databases, NEW k \in Dirs, NEW names, NEW bad,
           UnsetBelow(d, k, names, bad)
    PROVE  DueInv'
<1> DEFINE r == RecursiveUnset(contents, stack[d], k, names, bad)
           ks == Visited(contents, stack[d], k, bad)
           told(x) == {Told(d, x, QueryValue(r.contents, stack[d], x, bad))}
                          \cup ToldOthers(r.contents, d, x, UnsetIn(stack[d], x, bad), bad)
<1>1. Running /\ d \in Open /\ contents \in Contents /\ stack[d] \in Stacks
  BY DEF UnsetBelow, Serves, Free, DueInv, TypeOK
<1>2. Sound(stack[d], r)
  BY <1>1, RecursiveSound
<1>3. ks \subseteq Keys
  BY VisitedKeys
<1>4. ASSUME NEW x \in ks PROVE told(x) \subseteq Announcements
  <2>0. r.contents \in Contents /\ x \in Keys
    BY <1>2, <1>3 DEF Sound
  <2> HIDE DEF r
  <2>1. Told(d, x, QueryValue(r.contents, stack[d], x, bad)) \in Announcements
    BY <1>1, <2>0, QueryTyped, ToldTyped
  <2> QED BY <2>0, <2>1, ToldOthersTyped DEF DueInv
<1>5. \/ Aborts
      \/ /\ Becomes(r) /\ SyncNowish(d)
         /\ done'.told = {} \/ done'.told = UNION {told(x) : x \in ks}
         /\ UNCHANGED <<gconfd, dbs, stack>>
  <2> DEFINE answer == IF r.error THEN {} ELSE UNION {told(x) : x \in ks}
             ok == ~ r.error /\ \A x \in ks : ~ QueryValue(r.contents, stack[d], x, bad).error
  <2>1. CASE (\E x \in ks : UnsetIn(stack[d], x, bad) = {}) /\ Aborts
    BY <2>1
  <2>2. CASE /\ Becomes(r) /\ SyncNowish(d)
             /\ Replies("unset below", d, k, None, bad, ok, answer)
             /\ UNCHANGED <<gconfd, dbs, stack>>
    <3>1. done'.told = answer
      BY <2>2 DEF Replies
    <3> HIDE DEF r, told, ks, ok
    <3> QED BY <2>2, <3>1
  <2> QED BY <2>1, <2>2, Zenon DEF UnsetBelow
<1>6. UNION {told(x) : x \in ks} \subseteq Announcements
  <2> HIDE DEF told, ks
  <2> QED BY <1>4
<1> HIDE DEF r, ks, told
<1> QED
  BY <1>1, <1>2, <1>5, <1>6, AbortStep, ChangeStep

LEMMA SetSchemaStep ==
    ASSUME DueInv, NEW d \in Databases, NEW k \in Keys, NEW n \in Keys \cup {None}, NEW bad,
           SetSchemaName(d, k, n, bad)
    PROVE  DueInv'
<1> DEFINE r == SetSchema(contents, stack[d], k, n, bad)
<1>1. Running /\ d \in Open /\ contents \in Contents /\ stack[d] \in Stacks
  BY DEF SetSchemaName, Serves, Free, DueInv, TypeOK
<1>2. Sound(stack[d], r) /\ (r.error => r.modified = {})
  BY <1>1, SchemaSound
<1>3. /\ Becomes(r)
      /\ (r.error /\ UNCHANGED syncing) \/ Schedule(d)
      /\ done'.told = {}
      /\ UNCHANGED <<gconfd, dbs, stack>>
  BY DEF SetSchemaName, Replies
<1> HIDE DEF r
<1> QED
  BY <1>1, <1>2, <1>3, ChangeStep
LEMMA DueInit ==
    ASSUME Init
    PROVE  DueInv
<1>1. contents \in Contents /\ Minute \in Nat /\ Default \in Databases
  BY DatabasesAssumption DEF Init
<1>2. stack \in [Databases -> Stacks]
  <2>1. PICK missing \in SUBSET MayNotLoad :
          stack = [d \in Databases |-> IF d = Default THEN Loaded(d, missing) ELSE <<>>]
    BY DEF Init
  <2>2. Loaded(Default, missing) \in Stacks
    BY LoadedAssumption
  <2>3. <<>> \in Stacks
    BY DEF Stacks
  <2> QED BY <2>1, <2>2, <2>3
<1>3. gconfd \in {"running", "stopped", "aborted"}
  BY Zenon DEF Init
<1>4. timer = [d \in Databases |-> 0] /\ idle = [d \in Databases |-> FALSE]
      /\ dbs = <<Default>> /\ unsaved = {} /\ failed = {} /\ done = Nothing
  BY DEF Init
<1>5. timer \in [Databases -> 0..Minute] /\ idle \in [Databases -> BOOLEAN]
  BY <1>1, <1>4
<1>6. done.told = {}
  BY <1>4 DEF Nothing
<1> QED
  BY <1>1, <1>2, <1>3, <1>4, <1>5, <1>6 DEF DueInv, TypeOK, DueUnlessFailed

(* Time passing keeps databases waiting.                                      *)
LEMMA WaitingKept ==
    ASSUME DueInv, Running, timer' \in [Databases -> 0..Minute], idle' \in [Databases -> BOOLEAN],
           \A e \in Databases : Waits(e) => Waits(e)',
           UNCHANGED <<contents, gconfd, dbs, stack, unsaved, failed, done>>
    PROVE  DueInv'
<1>1. Open' = Open /\ Open \subseteq Databases
  BY OpenTyped DEF DueInv, Open
<1>2. \A r \in unsaved' \ failed' : Due(r)'
  <2>1. \A r \in unsaved' \ failed' : Due(r)
    BY DEF DueInv, DueUnlessFailed, Running
  <2> QED BY <1>1, <2>1 DEF Due, Waits
<1> QED
  BY <1>2 DEF DueInv, TypeOK, DueUnlessFailed, Running

LEMMA TimeStep ==
    ASSUME DueInv, Time
    PROVE  DueInv'
<1>1. timer \in [Databases -> 0..Minute] /\ Minute \in Nat
  BY DatabasesAssumption DEF DueInv, TypeOK
<1>2. timer' = [d \in Databases |-> IF timer[d] > 1 THEN timer[d] - 1 ELSE timer[d]]
      /\ idle' = idle
  BY DEF Time
<1>3. timer' \in [Databases -> 0..Minute] /\ \A d \in Databases : timer[d] > 0 => timer'[d] > 0
  BY <1>1, <1>2
<1>4. \A e \in Databases : Waits(e) => Waits(e)'
  BY <1>2, <1>3 DEF Waits
<1> QED
  BY <1>2, <1>3, <1>4, WaitingKept DEF Time, Free, DueInv, TypeOK

LEMMA TimerStep ==
    ASSUME DueInv, NEW d \in Databases, TimerFires(d)
    PROVE  DueInv'
<1>1. timer \in [Databases -> 0..Minute] /\ Minute \in Nat /\ idle \in [Databases -> BOOLEAN]
  BY DatabasesAssumption DEF DueInv, TypeOK
<1>2. timer' = [timer EXCEPT ![d] = 0] /\ idle' = [idle EXCEPT ![d] = TRUE]
  BY DEF TimerFires
<1>3. \A e \in Databases : Waits(e) => Waits(e)'
  BY <1>1, <1>2 DEF Waits
<1> QED
  BY <1>1, <1>2, <1>3, WaitingKept DEF TimerFires, Free

LEMMA IdleStep ==
    ASSUME DueInv, NEW d \in Databases, NEW bad, IdleFires(d, bad)
    PROVE  DueInv'
<1>1. {d} \in SUBSET Databases /\ ReallySync({d}, bad) /\ Running
  BY DEF IdleFires, Free
<1>2. UNCHANGED <<contents, gconfd, dbs, stack, done>>
  BY DEF IdleFires
<1> QED
  BY <1>1, <1>2, SyncKeepsDue DEF DueInv, TypeOK

LEMMA ShutdownStep ==
    ASSUME DueInv, NEW bad, Shutdown(bad)
    PROVE  DueInv'
<1> DEFINE ds == {d \in Open : idle[d] \/ timer[d] > 0}
<1>1. /\ ds \in SUBSET Databases /\ ReallySync(ds, bad) /\ Running
      /\ \A d \in Open : Waits(d) => d \in ds
  BY OpenTyped DEF Shutdown, Free, Waits, DueInv
<1>2. gconfd' = "stopped" /\ UNCHANGED <<contents, dbs, stack, done>>
  BY DEF Shutdown
<1> HIDE DEF ds
<1> QED
  BY <1>1, <1>2, SyncKeepsDue DEF DueInv, TypeOK

LEMMA ObtainStep ==
    ASSUME DueInv, NEW d \in Databases, Obtain(d)
    PROVE  DueInv'
<1>1. dbs \in Seq(Databases) /\ stack \in [Databases -> Stacks] /\ Addresses \in [Databases -> Stacks]
  BY DatabasesAssumption DEF DueInv, TypeOK
<1>2. /\ Running /\ d \notin Open
      /\ dbs' = <<d>> \o dbs /\ stack' = [stack EXCEPT ![d] = Addresses[d]]
      /\ UNCHANGED <<contents, gconfd, timer, idle, unsaved, failed, done>>
  BY DEF Obtain, Free
<1>3. dbs' \in Seq(Databases) /\ stack' \in [Databases -> Stacks]
  BY <1>1, <1>2
<1>4. \A e \in Open : e \in Open' /\ stack'[e] = stack[e] /\ e # d
  <2>1. ASSUME NEW i \in 1..Len(dbs) PROVE i + 1 \in 1..Len(dbs') /\ dbs'[i + 1] = dbs[i]
    BY <1>1, <1>2
  <2>2. \A e \in Open : e \in Open'
    BY <2>1 DEF Open
  <2> QED BY <1>1, <1>2, <2>2, OpenTyped DEF DueInv
<1>5. \A r \in unsaved' \ failed' : Due(r)'
  <2>1. \A r \in unsaved' \ failed' : Due(r)
    BY <1>2 DEF DueInv, DueUnlessFailed, Running
  <2> QED BY <1>2, <1>4, <2>1 DEF Due
<1> QED
  BY <1>2, <1>3, <1>5 DEF DueInv, TypeOK, DueUnlessFailed, Running
LEMMA DueStep ==
    ASSUME DueInv, [Next]_vars
    PROVE  DueInv'
<1>1. CASE UNCHANGED vars
  BY <1>1 DEF vars, DueInv, TypeOK, DueUnlessFailed, Running, Due, Open
<1>2. CASE Sent
  <2>1. done'.told = {}
    BY <1>2 DEF Sent, Nothing
  <2> QED
    BY <1>2, <2>1 DEF Sent, DueInv, TypeOK, DueUnlessFailed, Running, Due, Open
<1>3. CASE Time
  BY <1>3, TimeStep
<1>4. ASSUME NEW d \in Databases, Change(d) PROVE DueInv'
  <2>1. ASSUME NEW s \in Settings, NEW bad, Set(d, s[1], s[2], bad) \/ Unset(d, s[1], bad)
        PROVE  DueInv'
    <3>1. s[1] \in Keys /\ s[2] \in AnyValue
      BY DatabasesAssumption
    <3> QED BY <2>1, <3>1, SetStep, UnsetStep
  <2>2. ASSUME NEW k \in Cleared, NEW names \in BOOLEAN, NEW bad, UnsetBelow(d, k, names, bad)
        PROVE  DueInv'
    BY <2>2, UnsetBelowStep, DatabasesAssumption
  <2>3. ASSUME NEW n \in Namings, NEW bad, SetSchemaName(d, n[1], n[2], bad)
        PROVE  DueInv'
    <3>1. n[1] \in Keys /\ n[2] \in Keys \cup {None}
      BY DatabasesAssumption
    <3> QED BY <2>3, <3>1, SetSchemaStep
  <2> QED
    BY <1>4, <2>1, <2>2, <2>3 DEF Change
<1>5. ASSUME NEW d \in Databases, Save(d) PROVE DueInv'
  BY <1>5, TimerStep, IdleStep DEF Save
<1>6. ASSUME NEW d \in Databases, SuggestSync(d) PROVE DueInv'
  <2>1. Running /\ SyncNowish(d) /\ UNCHANGED <<contents, gconfd, dbs, stack, unsaved, failed, done>>
    BY <1>6 DEF SuggestSync, Serves, Free
  <2> QED BY <2>1, SchedulingTyped, WaitingKept DEF DueInv
<1>7. ASSUME NEW d \in Databases, Obtain(d) PROVE DueInv'
  BY <1>7, ObtainStep
<1>8. ASSUME NEW bad, Shutdown(bad) PROVE DueInv'
  BY <1>8, ShutdownStep
<1> QED
  BY <1>1, <1>2, <1>3, <1>4, <1>5, <1>6, <1>7, <1>8 DEF Next

(* A change that is not saved has its sync ahead, by a timer or an idle handler   *)
(* of a database that reads the source, unless a sync of it has failed, for any  *)
(* databases, sources and failures; what is left when gconfd stops in order has  *)
(* failed to be saved.                                                       *)
THEOREM ChangesStayDue == Spec => []UnsavedIsDue
<1>1. Init => DueInv
  BY DueInit
<1>2. DueInv /\ [Next]_vars => DueInv'
  BY DueStep
<1>3. DueInv => UnsavedIsDue
  BY DEF DueInv, DueUnlessFailed, UnsavedIsDue
<1> QED
  BY <1>1, <1>2, <1>3, PTL DEF Spec
-----------------------------------------------------------------------------
(* Reads                                                                     *)

(* The value of the first source that has one.                                *)
FirstValue(c, st, k) ==
    LET v == FirstIn(st, WithValue(c, k))
    IN IF v <= Len(st) THEN Entry(c, st[v], k).value ELSE None

LEMMA CleanLookup ==
    ASSUME NEW c \in Contents, NEW st \in Stacks, NEW k \in Keys, NEW seek \in BOOLEAN
    PROVE  LET l == Lookup(c, st, k, seek, {})
           IN ~ l.error /\ l.value = FirstValue(c, st, k)
  BY DEF Lookup, FirstValue

(* A read that meets no failure returns the stored value if there is one.       *)
LEMMA CleanRead ==
    ASSUME NEW c \in Contents, NEW st \in Stacks, NEW k \in Keys, FirstValue(c, st, k) # None
    PROVE  QueryValue(c, st, k, {}).value = FirstValue(c, st, k)
<1> DEFINE own == Lookup(c, st, k, TRUE, {})
<1>1. ~ own.error /\ own.value # None /\ own.value = FirstValue(c, st, k)
  BY CleanLookup
<1> HIDE DEF own
<1> QED
  BY <1>1 DEF QueryValue, own

(* A value that could be set is the first, whatever other sources share the      *)
(* resource it went to.                                                       *)
LEMMA SetIsRead ==
    ASSUME NEW c \in Contents, NEW st \in Stacks, NEW k \in Keys, NEW v \in AnyValue,
           ~ SetValue(c, st, k, v, {}).error
    PROVE  QueryValue(SetValue(c, st, k, v, {}).contents, st, k, {}).value = v
<1> DEFINE w == FirstIn(st, WritableAt(k))
           fixed == {s \in WithValue(c, k) : <<s, "query">> \notin {}}
           n == [c EXCEPT ![Resource[st[w]]][k].value = v]
           f == FirstIn(st, WithValue(n, k))
<1>1. w \in 1..Len(st) + 1 /\ FirstIn(st, fixed) \in 1..Len(st) + 1 /\ Len(st) \in Nat
  BY FirstInFacts DEF Stacks
<1>2. w <= Len(st) /\ ~ (FirstIn(st, fixed) < w) /\ SetValue(c, st, k, v, {}).contents = n
  <2>1. CASE k = <<>> \/ w > Len(st) \/ FirstIn(st, fixed) < w
    BY <2>1 DEF SetValue, Result
  <2>2. CASE ~ (k = <<>> \/ w > Len(st) \/ FirstIn(st, fixed) < w)
    <3>1. SetValue(c, st, k, v, {}) = Result({st[w]}, FALSE, n)
      BY <2>2 DEF SetValue
    <3> HIDE DEF w, fixed, n
    <3> QED BY <1>1, <2>2, <3>1 DEF Result
  <2> QED BY <2>1, <2>2
<1>3. \A j \in 1..w - 1 : st[j] \notin WithValue(c, k)
  <2>1. \A j \in 1..FirstIn(st, fixed) - 1 : st[j] \notin fixed
    BY FirstInFacts
  <2>2. fixed = WithValue(c, k)
    OBVIOUS
  <2> HIDE DEF w, fixed
  <2> QED BY <1>1, <1>2, <2>1, <2>2
<1>4. st[w] \in Sources /\ Resource[st[w]] \in Resources /\ v # None
  <2> HIDE DEF w
  <2> QED BY <1>1, <1>2, MemberTyped, SourcesAssumption
<1>5. n \in Contents
  <2> HIDE DEF w
  <2> QED BY <1>4, PutTyped
<1>6. \A s \in Sources : Entry(n, s, k).value = IF Resource[s] = Resource[st[w]] THEN v
                                               ELSE Entry(c, s, k).value
  <2> HIDE DEF w
  <2> QED BY <1>4, SourcesAssumption DEF Entry, Contents, Entries
<1>7. f \in 1..Len(st) + 1 /\ (f <= Len(st) => st[f] \in WithValue(n, k))
        /\ \A j \in 1..f - 1 : st[j] \notin WithValue(n, k)
  <2> HIDE DEF n
  <2> QED BY FirstInFacts
<1>8. f <= w
  <2>1. st[w] \in WithValue(n, k)
    <3> HIDE DEF n, w
    <3> QED BY <1>4, <1>6 DEF WithValue
  <2> HIDE DEF n, w, f
  <2> QED BY <1>1, <1>2, <1>7, <2>1
<1>9. Entry(n, st[f], k).value = v
  <2>1. st[f] \in Sources /\ Entry(n, st[f], k).value # None
    <3> HIDE DEF n, w, f
    <3> QED BY <1>1, <1>2, <1>7, <1>8 DEF WithValue
  <2>2. CASE f = w
    <3> HIDE DEF n, w, f
    <3> QED BY <1>4, <1>6, <2>2
  <2>3. CASE f # w
    <3>1. st[f] \notin WithValue(c, k)
      <4> HIDE DEF n, w, f
      <4> QED BY <1>1, <1>3, <1>7, <1>8, <2>3
    <3>2. Entry(c, st[f], k).value = None
      <4> HIDE DEF n, w, f
      <4> QED BY <2>1, <3>1 DEF WithValue
    <3> HIDE DEF n, w, f
    <3> QED BY <1>6, <2>1, <3>2
  <2> QED BY <2>2, <2>3
<1>10. FirstValue(n, st, k) = v
  <2> HIDE DEF n, w
  <2> QED BY <1>1, <1>2, <1>7, <1>8, <1>9 DEF FirstValue
<1> HIDE DEF n, w
<1> QED
  BY <1>2, <1>4, <1>5, <1>10, CleanRead
LEMMA SetKeepsRead ==
    ASSUME DueInv, NEW d \in Databases, NEW k \in Keys, NEW v \in AnyValue, NEW bad,
           Set(d, k, v, bad)
    PROVE  WritesAreRead' \/ Aborts
<1> DEFINE r == SetValue(contents, stack[d], k, v, bad)
<1>1. SUFFICES ASSUME ~ Aborts, done'.ok, done'.clean
               PROVE  Read(done.db, done.key)' .value = done'.value
  BY DEF WritesAreRead
<1>2. contents \in Contents /\ stack[d] \in Stacks
  BY DEF DueInv, TypeOK
<1>3. /\ ~ r.error /\ Becomes(r) /\ stack' = stack
      /\ bad = {} /\ done'.db = d /\ done'.key = k /\ done'.value = v
  <2> DEFINE told == {Told(d, k, [value |-> v, isDefault |-> FALSE, writable |-> TRUE])}
                        \cup ToldOthers(r.contents, d, k, r.modified, bad)
  <2>1. CASE /\ Replies("set", d, k, v, bad, FALSE, {})
    BY <1>1, <2>1 DEF Replies
  <2>2. CASE /\ ~ r.error /\ Becomes(r)
             /\ Replies("set", d, k, v, bad, TRUE, told)
             /\ UNCHANGED <<gconfd, dbs, stack>>
    <3>1. done'.clean = (bad = {}) /\ done'.db = d /\ done'.key = k /\ done'.value = v
      BY <2>2 DEF Replies
    <3> QED BY <1>1, <2>2, <3>1, Zenon
  <2>3. \/ Aborts
        \/ Replies("set", d, k, v, bad, FALSE, {})
        \/ /\ ~ r.error /\ Becomes(r)
           /\ Replies("set", d, k, v, bad, TRUE, told)
           /\ UNCHANGED <<gconfd, dbs, stack>>
    BY Zenon DEF Set
  <2> QED BY <1>1, <2>1, <2>2, <2>3
<1>4. QueryValue(SetValue(contents, stack[d], k, v, {}).contents, stack[d], k, {}).value = v
  BY <1>2, <1>3, SetIsRead
<1>5. contents' = SetValue(contents, stack[d], k, v, {}).contents
  BY <1>3 DEF Becomes
<1> QED
  BY <1>3, <1>4, <1>5, Zenon DEF Read

LEMMA ReadStep ==
    ASSUME DueInv, WritesAreRead, [Next]_vars
    PROVE  WritesAreRead'
<1>1. CASE UNCHANGED <<contents, stack, done>>
  BY <1>1 DEF WritesAreRead, Read
<1>2. CASE done'.op # "set"
  BY <1>2 DEF WritesAreRead
<1>3. ASSUME NEW d \in Databases, NEW s \in Settings, NEW bad, Set(d, s[1], s[2], bad)
      PROVE  WritesAreRead'
  <2>1. s[1] \in Keys /\ s[2] \in AnyValue
    BY DatabasesAssumption
  <2>2. Aborts => UNCHANGED <<contents, stack, done>>
    BY DEF Aborts
  <2> QED BY <1>1, <1>3, <2>1, <2>2, SetKeepsRead
<1>4. ASSUME NEW d, NEW k, NEW bad, Unset(d, k, bad)
      PROVE  done'.op # "set" \/ UNCHANGED <<contents, stack, done>>
  BY <1>4 DEF Unset, Replies, Aborts
<1>5. ASSUME NEW d, NEW k, NEW names, NEW bad, UnsetBelow(d, k, names, bad)
      PROVE  done'.op # "set" \/ UNCHANGED <<contents, stack, done>>
  <2>1. Aborts => UNCHANGED <<contents, stack, done>>
    BY DEF Aborts
  <2>2. ASSUME NEW ok, NEW told, Replies("unset below", d, k, None, bad, ok, told)
        PROVE  done'.op # "set"
    BY <2>2 DEF Replies
  <2> QED BY <1>5, <2>1, <2>2, Zenon DEF UnsetBelow
<1>6. ASSUME NEW d, NEW k, NEW name, NEW bad, SetSchemaName(d, k, name, bad)
      PROVE  done'.op # "set"
  BY <1>6 DEF SetSchemaName, Replies
<1>7. Sent => done'.op # "set"
  BY DEF Sent, Nothing
<1>8. ASSUME NEW d, NEW bad, Time \/ TimerFires(d) \/ IdleFires(d, bad) \/ SuggestSync(d) \/ Shutdown(bad)
      PROVE  UNCHANGED <<contents, stack, done>>
  BY <1>8 DEF Time, TimerFires, IdleFires, SuggestSync, Shutdown
<1>9. ASSUME NEW d, Obtain(d) PROVE done'.op # "set"
  BY <1>9 DEF Obtain, Free, Nothing
<1> QED
  <2>1. CASE UNCHANGED vars
    BY <1>1, <2>1 DEF vars
  <2>2. CASE Next
    BY <1>1, <1>2, <1>3, <1>4, <1>5, <1>6, <1>7, <1>8, <1>9, <2>2 DEF Next, Change, Save
  <2> QED BY <2>1, <2>2

(* What a program has set is what everybody with the same database reads, for    *)
(* any stack of sources and whatever they share or hold.                       *)
THEOREM SettingsAreRead == Spec => []WritesAreRead
<1>1. Init => DueInv /\ WritesAreRead
  BY DueInit DEF Init, Nothing, WritesAreRead
<1>2. DueInv /\ WritesAreRead /\ [Next]_vars => DueInv' /\ WritesAreRead'
  BY DueStep, ReadStep
<1> QED
  BY <1>1, <1>2, PTL DEF Spec

-----------------------------------------------------------------------------
(* Listings                                                                  *)

LEMMA GreatestElement ==
    ASSUME NEW n \in Nat, NEW T \in SUBSET (1..n), T # {}
    PROVE  \E x \in T : \A y \in T : y <= x
<1> DEFINE U == {n - x : x \in T}
<1>1. U \in SUBSET Nat /\ U # {}
  <2>1. \A x \in T : n - x \in Nat
    OBVIOUS
  <2> QED BY <2>1
<1>2. PICK u \in U : \A y \in U : u <= y
  <2> HIDE DEF U
  <2> QED BY <1>1, LeastElement
<1>3. PICK x \in T : u = n - x
  BY <1>2
<1>4. ASSUME NEW y \in T PROVE y <= x
  <2>1. n - y \in U
    OBVIOUS
  <2>2. u <= n - y
    BY <1>2, <2>1
  <2> QED BY <1>3, <2>2
<1> QED
  BY <1>3, <1>4

(* The entry of a key that has a value in some source.                         *)
LEMMA ListedValue ==
    ASSUME NEW c \in Contents, NEW st \in Stacks, NEW k \in Keys,
           FirstIn(st, WithValue(c, k)) <= Len(st)
    PROVE  LET e == ListedEntry(c, st, k, {})
               r == QueryValue(c, st, k, {})
           IN e.value = r.value /\ e.writable = r.writable
<1> DEFINE v == FirstIn(st, WithValue(c, k))
           own == Lookup(c, st, k, TRUE, {})
<1>1. v \in 1..Len(st) + 1 /\ Len(st) \in Nat /\ st[v] \in WithValue(c, k)
  BY FirstInFacts DEF Stacks
<1>2. FirstValue(c, st, k) = Entry(c, st[v], k).value /\ FirstValue(c, st, k) # None
  BY <1>1 DEF FirstValue, WithValue
<1>3. ~ own.error /\ own.value = FirstValue(c, st, k)
  BY CleanLookup
<1>4. own.writable = (FirstIn(st, WritableAt(k)) <= Lesser(v, Len(st)))
  BY DEF Lookup
<1>5. Lesser(v, Len(st)) = v
  <2> HIDE DEF v
  <2> QED BY <1>1 DEF Lesser, v
<1>6. QueryValue(c, st, k, {}).value = own.value /\ QueryValue(c, st, k, {}).writable = own.writable
  <2> HIDE DEF own
  <2> QED BY <1>2, <1>3 DEF QueryValue, own
<1>7. /\ ListedEntry(c, st, k, {}).value = Entry(c, st[v], k).value
      /\ ListedEntry(c, st, k, {}).writable = (FirstIn(st, WritableAt(k)) <= v)
  <2>1. LastCounted(c, st, k) = v
    BY DEF LastCounted
  <2> HIDE DEF v
  <2> QED BY <2>1 DEF ListedEntry, v
<1> HIDE DEF own, v
<1> QED
  BY <1>2, <1>3, <1>4, <1>5, <1>6, <1>7, Zenon
(* That of a key that has only the name of a schema: both follow it to the same  *)
(* default.                                                                  *)
LEMMA ListedDefaultIsRead ==
    ASSUME NEW c \in Contents, NEW st \in Stacks, NEW k \in Keys,
           FirstIn(st, WithValue(c, k)) > Len(st),
           FirstIn(st, WithSchema(c, k)) <= Len(st)
    PROVE  ListedEntry(c, st, k, {}).value = QueryValue(c, st, k, {}).value
<1> DEFINE s == FirstIn(st, WithSchema(c, k))
           name == Entry(c, st[s], k).schema
           own == Lookup(c, st, k, TRUE, {})
           schema == Lookup(c, st, name, FALSE, {})
<1>1. s \in 1..Len(st) /\ st[s] \in WithSchema(c, k)
  BY FirstInFacts DEF Stacks
<1>2. name \in Keys /\ name # None
  <2> HIDE DEF s
  <2> QED BY <1>1, MemberTyped, EntryTyped DEF WithSchema
<1>3. ~ own.error /\ own.value = None /\ own.schema = name
  <2>1. own.schema = name
    BY <1>1 DEF Lookup
  <2>2. ~ own.error /\ own.value = None
    <3>1. FirstIn(st, WithValue(c, k)) \in 1..Len(st) + 1 /\ Len(st) \in Nat
      BY FirstInFacts DEF Stacks
    <3>2. FirstValue(c, st, k) = None
      BY <3>1 DEF FirstValue
    <3> QED BY <3>2, CleanLookup
  <2> QED BY <2>1, <2>2
<1>4. ~ schema.error /\ schema.value = FirstValue(c, st, name)
  <2> HIDE DEF name
  <2> QED BY <1>2, CleanLookup
<1>5. QueryValue(c, st, k, {}).value =
        IF FirstValue(c, st, name) \in SchemaValues THEN DefaultIn[FirstValue(c, st, name)] ELSE None
  <2>1. None \notin SchemaValues
    BY SourcesAssumption DEF AnyValue
  <2>2. schema = Lookup(c, st, own.schema, FALSE, {})
    BY <1>3
  <2> HIDE DEF own, schema, name
  <2> QED BY <1>2, <1>3, <1>4, <2>1, <2>2 DEF QueryValue, own
<1>6. LET q == QueryValue(c, st, name, {}).value
      IN (IF q \in SchemaValues THEN DefaultIn[q] ELSE None) =
            IF FirstValue(c, st, name) \in SchemaValues THEN DefaultIn[FirstValue(c, st, name)] ELSE None
  <2>1. CASE FirstValue(c, st, name) # None
    <3> HIDE DEF name
    <3> QED BY <1>2, <2>1, CleanRead
  <2>2. CASE FirstValue(c, st, name) = None
    <3>1. QueryValue(c, st, name, {}).value \notin SchemaValues
      <4> DEFINE own2 == Lookup(c, st, name, TRUE, {})
                 second == Lookup(c, st, own2.schema, FALSE, {})
      <4>1. own2.value = None
        <5> HIDE DEF name
        <5> QED BY <1>2, <2>2, CleanLookup
      <4>2. \A x \in SchemaValues : DefaultIn[x] \notin SchemaValues
        BY SourcesAssumption DEF AnyValue
      <4>3. None \notin SchemaValues
        BY SourcesAssumption DEF AnyValue
      <4> HIDE DEF own2, second, name
      <4>4. QueryValue(c, st, name, {}).value
                \in {None} \cup {DefaultIn[x] : x \in SchemaValues}
        BY <4>1 DEF QueryValue, own2
      <4> QED BY <4>2, <4>3, <4>4
    <3>2. None \notin SchemaValues
      BY SourcesAssumption DEF AnyValue
    <3> HIDE DEF name
    <3> QED BY <2>2, <3>1, <3>2
  <2> QED BY <2>1, <2>2
<1>7. ListedEntry(c, st, k, {}).value = ListedDefault(c, st, name, {}).value
  BY FirstInFacts DEF ListedEntry, Stacks
<1>8. ListedDefault(c, st, name, {}).value =
        LET q == QueryValue(c, st, name, {}).value IN IF q \in SchemaValues THEN DefaultIn[q] ELSE None
  <2> HIDE DEF name
  <2> QED BY <1>2 DEF ListedDefault
<1> HIDE DEF name
<1> QED BY <1>5, <1>6, <1>7, <1>8

LEMMA ListedWritable ==
    ASSUME NEW c \in Contents, NEW st \in Stacks, NEW k \in Keys,
           FirstIn(st, WithValue(c, k)) > Len(st),
           FirstIn(st, WithSchema(c, k)) <= Len(st),
           ListedEntry(c, st, k, {}).writable
    PROVE  QueryValue(c, st, k, {}).writable
<1> DEFINE last == LastCounted(c, st, k)
           named == {i \in 1..Len(st) : st[i] \in WithSchema(c, k)}
           w == FirstIn(st, WritableAt(k))
           own == Lookup(c, st, k, TRUE, {})
<1>1. Len(st) \in Nat /\ w \in 1..Len(st) + 1
  BY FirstInFacts DEF Stacks
<1>2. named # {} /\ named \in SUBSET (1..Len(st))
  BY <1>1, FirstInFacts
<1>3. PICK i \in named : \A j \in named : j <= i
  <2> HIDE DEF named
  <2> QED BY <1>1, <1>2, GreatestElement
<1>4. last \in 1..Len(st)
  <2> DEFINE P(x) == /\ st[x] \in WithSchema(c, k)
                     /\ \A j \in x + 1..Len(st) : st[j] \notin WithSchema(c, k)
  <2>1. i \in 1..Len(st) /\ P(i)
    BY <1>1, <1>3
  <2>2. last = CHOOSE x \in 1..Len(st) : P(x)
    <3>1. ~ (FirstIn(st, WithValue(c, k)) <= Len(st))
      BY <1>1, FirstInFacts
    <3> QED BY <3>1, Zenon DEF LastCounted
  <2> HIDE DEF P, last
  <2> QED BY <2>1, <2>2, Zenon
<1>5. w <= last
  BY DEF ListedEntry
<1>6. own.writable = (w <= Len(st))
  BY <1>1, FirstInFacts DEF Lookup, Lesser
<1>7. QueryValue(c, st, k, {}).writable = own.writable
  <2> HIDE DEF own
  <2> QED BY DEF QueryValue, own
<1>8. w <= Len(st)
  <2> HIDE DEF last, w
  <2> QED BY <1>1, <1>4, <1>5
<1> HIDE DEF own, w
<1> QED BY <1>6, <1>7, <1>8, Zenon

LEMMA ListingAgrees ==
    ASSUME DueInv
    PROVE  ListingsAreReads
<1> SUFFICES ASSUME NEW d \in Open, NEW dir \in Dirs, NEW e \in AllEntries(contents, stack[d], dir, {})
             PROVE  /\ e.value = Read(d, e.key).value
                    /\ \/ e.writable = Read(d, e.key).writable
                       \/ Stored(d, e.key) = None /\ Read(d, e.key).writable
  BY DEF ListingsAreReads
<1> DEFINE st == stack[d]
<1>1. contents \in Contents /\ st \in Stacks /\ Len(st) \in Nat
  BY OpenTyped DEF DueInv, TypeOK, Stacks
<1>2. PICK k \in Keys : /\ e = ListedEntry(contents, st, k, {})
                        /\ \E i \in 1..Len(st) : HasEntry(contents, st[i], k)
  BY DEF AllEntries, ListedKeys
<1>3. e.key = k
  BY <1>2 DEF ListedEntry
<1>4. CASE FirstIn(st, WithValue(contents, k)) <= Len(st)
  <2>1. e.value = Read(d, k).value /\ e.writable = Read(d, k).writable
    <3> HIDE DEF st
    <3> QED BY <1>1, <1>2, <1>4, ListedValue DEF Read, st
  <2> QED BY <1>3, <2>1
<1>5. CASE ~ (FirstIn(st, WithValue(contents, k)) <= Len(st))
  <2>1. FirstIn(st, WithValue(contents, k)) = Len(st) + 1
        /\ \A j \in 1..Len(st) : st[j] \notin WithValue(contents, k)
    BY <1>1, <1>5, FirstInFacts
  <2>2. FirstIn(st, WithSchema(contents, k)) <= Len(st)
    <3>1. PICK i \in 1..Len(st) : HasEntry(contents, st[i], k)
      BY <1>2
    <3>2. st[i] \in WithSchema(contents, k)
      BY <1>1, <2>1, <3>1, MemberTyped DEF HasEntry, WithValue, WithSchema
    <3> QED BY <1>1, <3>2, FirstInFacts
  <2>3. e.value = Read(d, k).value
    <3> HIDE DEF st
    <3> QED BY <1>1, <1>2, <2>1, <2>2, ListedDefaultIsRead DEF Read, st
  <2>4. e.writable => Read(d, k).writable
    <3> HIDE DEF st
    <3> QED BY <1>1, <1>2, <2>1, <2>2, ListedWritable DEF Read, st
  <2>5. Stored(d, k) = None
    BY <1>1, <2>1 DEF Stored
  <2>6. e.writable \in BOOLEAN /\ Read(d, k).writable \in BOOLEAN
    <3>1. e.writable \in BOOLEAN
      BY <1>2 DEF ListedEntry
    <3>2. Read(d, k).writable \in BOOLEAN
      BY <1>1, QueryTyped DEF Read
    <3> QED BY <3>1, <3>2
  <2> QED BY <1>3, <2>3, <2>4, <2>5, <2>6
<1> QED BY <1>4, <1>5

(* A listing says of a key what a lookup says, for any sources and any schemas;  *)
(* but a key without a value may be listed as not writable although it is.       *)
THEOREM ListingsAgree == Spec => []ListingsAreReads
<1>1. Init => DueInv
  BY DueInit
<1>2. DueInv /\ [Next]_vars => DueInv'
  BY DueStep
<1>3. DueInv => ListingsAreReads
  BY ListingAgrees
<1> QED
  BY <1>1, <1>2, <1>3, PTL DEF Spec

-----------------------------------------------------------------------------
(* Announcements                                                             *)

(* Where two sources of a stack share what they store, the first may write what  *)
(* the second may.                                                            *)
OneView(st) ==
    \A i, j \in 1..Len(st) :
        i < j /\ Resource[st[i]] = Resource[st[j]]
            => Writable[st[j]] \subseteq Writable[st[i]]

(* An announcement carries what a read of these contents returns.              *)
AsRead(c, a) ==
    LET r == QueryValue(c, stack[a.db], a.key, {})
    IN a.value = r.value /\ a.writable = r.writable

LEMMA ToldAsRead ==
    ASSUME NEW c, NEW d, NEW k, NEW r, r.value = QueryValue(c, stack[d], k, {}).value,
           r.writable = QueryValue(c, stack[d], k, {}).writable
    PROVE  AsRead(c, Told(d, k, r))
BY DEF AsRead, Told

LEMMA OthersAsRead ==
    ASSUME NEW c, NEW d, NEW k, NEW modified
    PROVE  \A a \in ToldOthers(c, d, k, modified, {}) : AsRead(c, a)
<1>1. \A a \in ToldOthers(c, d, k, modified, {}) : \E e :
          a = Told(e, k, QueryValue(c, stack[e], k, {}))
  BY DEF ToldOthers
<1> QED
  BY <1>1, ToldAsRead

(* Set: the source that was written comes first, so that a read finds it        *)
(* writable.                                                                  *)
LEMMA SetIsWritable ==
    ASSUME NEW c \in Contents, NEW st \in Stacks, OneView(st), NEW k \in Keys,
           NEW v \in AnyValue, ~ SetValue(c, st, k, v, {}).error
    PROVE  QueryValue(SetValue(c, st, k, v, {}).contents, st, k, {}).writable = TRUE
<1> DEFINE w == FirstIn(st, WritableAt(k))
           fixed == {s \in WithValue(c, k) : <<s, "query">> \notin {}}
           n == [c EXCEPT ![Resource[st[w]]][k].value = v]
           f == FirstIn(st, WithValue(n, k))
           own == Lookup(n, st, k, TRUE, {})
<1>1. w \in 1..Len(st) + 1 /\ FirstIn(st, fixed) \in 1..Len(st) + 1 /\ Len(st) \in Nat
  BY FirstInFacts DEF Stacks
<1>2. w <= Len(st) /\ ~ (FirstIn(st, fixed) < w) /\ SetValue(c, st, k, v, {}).contents = n
  <2>1. CASE k = <<>> \/ w > Len(st) \/ FirstIn(st, fixed) < w
    BY <2>1 DEF SetValue, Result
  <2>2. CASE ~ (k = <<>> \/ w > Len(st) \/ FirstIn(st, fixed) < w)
    <3>1. SetValue(c, st, k, v, {}) = Result({st[w]}, FALSE, n)
      BY <2>2 DEF SetValue
    <3> HIDE DEF w, fixed, n
    <3> QED BY <1>1, <2>2, <3>1 DEF Result
  <2> QED BY <2>1, <2>2
<1>3. \A j \in 1..w - 1 : st[j] \notin WithValue(c, k) /\ st[j] \notin WritableAt(k)
  <2>1. /\ \A j \in 1..FirstIn(st, fixed) - 1 : st[j] \notin fixed
        /\ \A j \in 1..w - 1 : st[j] \notin WritableAt(k)
    BY FirstInFacts
  <2>2. fixed = WithValue(c, k)
    OBVIOUS
  <2> HIDE DEF w, fixed
  <2> QED BY <1>1, <1>2, <2>1, <2>2
<1>4. /\ st[w] \in Sources /\ Resource[st[w]] \in Resources /\ v # None
      /\ st[w] \in WritableAt(k)
  <2>1. st[w] \in WritableAt(k)
    BY <1>2, FirstInFacts
  <2> HIDE DEF w
  <2> QED BY <1>1, <1>2, <2>1, MemberTyped, SourcesAssumption
<1>5. n \in Contents
  <2> HIDE DEF w
  <2> QED BY <1>4, PutTyped
<1>6. \A s \in Sources : Entry(n, s, k).value = IF Resource[s] = Resource[st[w]] THEN v
                                               ELSE Entry(c, s, k).value
  <2> HIDE DEF w
  <2> QED BY <1>4, SourcesAssumption DEF Entry, Contents, Entries
<1>7. f \in 1..Len(st) + 1 /\ (f <= Len(st) => st[f] \in WithValue(n, k))
  <2> HIDE DEF n
  <2> QED BY FirstInFacts
<1>8. w <= f
  <2> SUFFICES ASSUME f < w PROVE FALSE
    <3> HIDE DEF w, f
    <3> QED BY <1>1, <1>7
  <2>1. f \in 1..w - 1 /\ f \in 1..Len(st) /\ w \in 1..Len(st)
    <3> HIDE DEF w, f
    <3> QED BY <1>1, <1>2, <1>7
  <2>2. st[f] \in Sources /\ Entry(n, st[f], k).value # None
    <3> HIDE DEF n, w, f
    <3> QED BY <1>7, <2>1 DEF WithValue
  <2>3. Entry(c, st[f], k).value = None
    <3> HIDE DEF n, w, f
    <3> QED BY <1>3, <2>1, <2>2 DEF WithValue
  <2>4. Resource[st[f]] = Resource[st[w]]
    <3> HIDE DEF n, w, f
    <3> QED BY <1>6, <2>2, <2>3
  <2>5. Writable[st[w]] \subseteq Writable[st[f]]
    <3> HIDE DEF w, f
    <3> QED BY <2>1, <2>4 DEF OneView
  <2>6. st[f] \in WritableAt(k)
    <3> HIDE DEF w, f
    <3> QED BY <1>4, <2>2, <2>5 DEF WritableAt
  <2> HIDE DEF w, f
  <2> QED BY <1>3, <2>1, <2>6
<1>9. FirstValue(n, st, k) # None
  <2>1. QueryValue(n, st, k, {}).value = v
    BY <1>2, SetIsRead
  <2>2. f <= Len(st)
    <3>1. st[w] \in WithValue(n, k)
      <4> HIDE DEF n, w
      <4> QED BY <1>4, <1>6 DEF WithValue
    <3>2. \A j \in 1..f - 1 : st[j] \notin WithValue(n, k)
      <4> HIDE DEF n
      <4> QED BY FirstInFacts
    <3> HIDE DEF n, w, f
    <3> QED BY <1>1, <1>2, <1>7, <3>1, <3>2
  <2> HIDE DEF n
  <2> QED BY <1>7, <2>2 DEF FirstValue, WithValue
<1>10. QueryValue(n, st, k, {}).writable = own.writable
  <2>1. ~ own.error /\ own.value # None
    <3> HIDE DEF n
    <3> QED BY <1>5, <1>9, CleanLookup
  <2> HIDE DEF own, n
  <2> QED BY <2>1 DEF QueryValue, own
<1>11. own.writable = (w <= Lesser(f, Len(st)))
  <2> HIDE DEF n
  <2> QED BY DEF Lookup
<1> HIDE DEF n, w, f, own
<1> QED
  BY <1>1, <1>2, <1>7, <1>8, <1>10, <1>11 DEF Lesser

(* Unset: with no value left in the stack, a read follows the schema to its       *)
(* default, as the announcement does.                                         *)
LEMMA UnsetIsRead ==
    ASSUME NEW c \in Contents, NEW st \in Stacks, NEW k \in Keys,
           \A s \in Members(st) : s \notin WithValue(c, k)
    PROVE  /\ QueryDefault(c, st, k, {}).value = QueryValue(c, st, k, {}).value
           /\ QueryDefault(c, st, k, {}).writable = QueryValue(c, st, k, {}).writable
<1> DEFINE v == FirstIn(st, WithValue(c, k))
           s == FirstIn(st, WithSchema(c, k))
           own == Lookup(c, st, k, TRUE, {})
           name == MetaSchema(c, st, k, {})
           schema == QueryValue(c, st, name, {})
<1>1. /\ v \in 1..Len(st) + 1 /\ s \in 1..Len(st) + 1 /\ Len(st) \in Nat
      /\ v <= Len(st) => st[v] \in WithValue(c, k)
  BY FirstInFacts DEF Stacks
<1>2. v = Len(st) + 1
  <2>1. v <= Len(st) => st[v] \in Members(st)
    <3> HIDE DEF v
    <3> QED BY <1>1 DEF Members
  <2> HIDE DEF v
  <2> QED BY <1>1, <2>1 DEF v
<1>3. ~ own.error /\ own.value = None
  <2>1. FirstValue(c, st, k) = None
    BY <1>1, <1>2 DEF FirstValue
  <2> QED BY <2>1, CleanLookup
<1>4. own.writable = (FirstIn(st, WritableAt(k)) <= Len(st))
  <2>1. own.writable = (FirstIn(st, WritableAt(k)) <= Lesser(v, Len(st)))
    BY DEF Lookup
  <2>2. Lesser(v, Len(st)) = Len(st)
    <3> HIDE DEF v
    <3> QED BY <1>1, <1>2 DEF Lesser
  <2> HIDE DEF own, v
  <2> QED BY <2>1, <2>2
<1>5. QueryValue(c, st, k, {}).writable = own.writable
  <2> HIDE DEF own
  <2> QED BY <1>3 DEF QueryValue, own
<1>6. name = IF s <= Len(st) THEN Entry(c, st[s], k).schema ELSE None
  <2>1. {x \in WithSchema(c, k) : <<x, "metainfo">> \notin {}} = WithSchema(c, k)
    OBVIOUS
  <2> QED BY <2>1 DEF MetaSchema
<1>7. own.schema = name
  BY <1>6 DEF Lookup
<1>8. QueryDefault(c, st, k, {}).writable = (FirstIn(st, WritableAt(k)) <= Len(st))
  <2> HIDE DEF name, schema
  <2> QED BY DEF QueryDefault
<1>9. QueryDefault(c, st, k, {}).value =
         IF name # None /\ schema.value \in SchemaValues THEN DefaultIn[schema.value] ELSE None
  <2> HIDE DEF name, schema
  <2> QED BY DEF QueryDefault, name, schema
<1>10. CASE s <= Len(st)
  <2>1. ListedEntry(c, st, k, {}).value =
           IF name # None /\ schema.value \in SchemaValues THEN DefaultIn[schema.value] ELSE None
    <3>1. name = Entry(c, st[s], k).schema
      BY <1>6, <1>10
    <3>2. ~ (v <= Len(st))
      BY <1>1, <1>2
    <3>3. ListedEntry(c, st, k, {}).value = ListedDefault(c, st, name, {}).value
      <4> HIDE DEF name
      <4> QED BY <3>1, <3>2 DEF ListedEntry
    <3> HIDE DEF name
    <3> QED BY <3>3 DEF ListedDefault, schema
  <2>2. ListedEntry(c, st, k, {}).value = QueryValue(c, st, k, {}).value
    <3>1. v > Len(st)
      BY <1>1, <1>2
    <3> QED BY <1>10, <3>1, ListedDefaultIsRead
  <2> HIDE DEF name, schema, own
  <2> QED BY <1>4, <1>5, <1>8, <1>9, <2>1, <2>2
<1>11. CASE ~ (s <= Len(st))
  <2>1. name = None
    BY <1>6, <1>11
  <2>2. QueryValue(c, st, k, {}).value = None
    <3> HIDE DEF own, name
    <3> QED BY <1>3, <1>7, <2>1 DEF QueryValue, own
  <2> HIDE DEF name, schema, own
  <2> QED BY <1>4, <1>5, <1>8, <1>9, <2>1, <2>2
<1> QED
  BY <1>10, <1>11

(* A request is answered with announcements that are reads, or the process ends.  *)
Announces(told) ==
    /\ stack' = stack
    /\ done'.told = told
    /\ done'.clean => \A a \in told :
          \/ AsRead(contents', a)
          \/ /\ done'.op = "unset" /\ a.db = done'.db
             /\ \E s \in Members(stack[a.db]) : s \in WithValue(contents', a.key)

LEMMA AnnouncesIsRead ==
    ASSUME NEW told, Announces(told)
    PROVE  AnnouncementsAreReads'
BY DEF Announces, AsRead, AnnouncementsAreReads, Read, StillSet

LEMMA SetAnnounces ==
    ASSUME DueInv, NEW d \in Databases, OneView(stack[d]), NEW k \in Keys,
           NEW v \in AnyValue, NEW bad, Set(d, k, v, bad)
    PROVE  Aborts \/ \E told : Announces(told)
<1> DEFINE r == SetValue(contents, stack[d], k, v, bad)
           own == Told(d, k, [value |-> v, isDefault |-> FALSE, writable |-> TRUE])
           others == ToldOthers(r.contents, d, k, r.modified, bad)
<1>1. contents \in Contents /\ stack[d] \in Stacks
  BY DEF DueInv, TypeOK
<1>2. ASSUME Replies("set", d, k, v, bad, FALSE, {}), stack' = stack
      PROVE  Announces({})
  BY <1>2 DEF Replies, Announces
<1>3. ASSUME ~ r.error, Becomes(r), Replies("set", d, k, v, bad, TRUE, {own} \cup others),
             stack' = stack
      PROVE  Announces({own} \cup others)
  <2>1. contents' = r.contents
    BY <1>3 DEF Becomes
  <2>2. done'.told = {own} \cup others /\ (done'.clean <=> bad = {})
    BY <1>3 DEF Replies
  <2>3. ASSUME bad = {} PROVE AsRead(contents', own)
    <3> DEFINE clean == SetValue(contents, stack[d], k, v, {})
    <3>1. /\ QueryValue(clean.contents, stack[d], k, {}).value = v
          /\ QueryValue(clean.contents, stack[d], k, {}).writable = TRUE
      <4>1. ~ clean.error
        BY <1>3, <2>3
      <4> QED BY <1>1, <4>1, SetIsRead, SetIsWritable
    <3>2. contents' = clean.contents
      BY <2>1, <2>3
    <3> HIDE DEF clean
    <3> QED BY <3>1, <3>2, ToldAsRead
  <2>4. ASSUME bad = {} PROVE \A a \in others : AsRead(contents', a)
    <3> HIDE DEF r
    <3>1. others = ToldOthers(contents', d, k, r.modified, {})
      BY <2>1, <2>4
    <3> QED BY <3>1, OthersAsRead
  <2> HIDE DEF r, own, others
  <2> QED BY <1>3, <2>2, <2>3, <2>4 DEF Announces
<1>4. \/ Aborts
      \/ Replies("set", d, k, v, bad, FALSE, {}) /\ stack' = stack
      \/ /\ ~ r.error /\ Becomes(r)
         /\ Replies("set", d, k, v, bad, TRUE, {own} \cup others)
         /\ stack' = stack
  BY Zenon DEF Set
<1> HIDE DEF r, own, others
<1> QED BY <1>2, <1>3, <1>4

LEMMA UnsetAnnounces ==
    ASSUME DueInv, NEW d \in Databases, NEW k \in Keys, NEW bad, Unset(d, k, bad)
    PROVE  Aborts \/ \E told : Announces(told)
<1> DEFINE r == UnsetValue(contents, stack[d], k, bad)
           fallback == QueryDefault(r.contents, stack[d], k, bad)
           own == Told(d, k, [value |-> fallback.value, isDefault |-> TRUE,
                              writable |-> fallback.writable])
           others == ToldOthers(r.contents, d, k, r.modified, bad)
<1>1. contents \in Contents /\ stack[d] \in Stacks
  BY DEF DueInv, TypeOK
<1>2. ASSUME Replies("unset", d, k, None, bad, FALSE, {}), stack' = stack
      PROVE  Announces({})
  BY <1>2 DEF Replies, Announces
<1>3. ASSUME NEW ok, Becomes(r), Replies("unset", d, k, None, bad, ok, {own} \cup others),
             stack' = stack
      PROVE  Announces({own} \cup others)
  <2>1. contents' = r.contents /\ contents' \in Contents
    BY <1>1, <1>3, UnsetSound DEF Becomes, Sound
  <2>2. /\ done'.told = {own} \cup others /\ (done'.clean <=> bad = {})
        /\ done'.op = "unset" /\ done'.db = d
    BY <1>3 DEF Replies
  <2>3. own.db = d /\ own.key = k
    BY DEF Told
  <2>4. ASSUME bad = {}, \A s \in Members(stack[d]) : s \notin WithValue(contents', k)
        PROVE  AsRead(contents', own)
    <3>1. fallback = QueryDefault(contents', stack[d], k, {})
      BY <2>1, <2>4
    <3>2. /\ fallback.value = QueryValue(contents', stack[d], k, {}).value
          /\ fallback.writable = QueryValue(contents', stack[d], k, {}).writable
      <4> HIDE DEF fallback
      <4> QED BY <1>1, <2>1, <2>4, <3>1, UnsetIsRead
    <3> HIDE DEF fallback
    <3> QED BY <3>2, ToldAsRead
  <2>5. ASSUME bad = {} PROVE \A a \in others : AsRead(contents', a)
    <3> HIDE DEF r
    <3>1. others = ToldOthers(contents', d, k, r.modified, {})
      BY <2>1, <2>5
    <3> QED BY <3>1, OthersAsRead
  <2> HIDE DEF r, own, others
  <2> QED BY <1>3, <2>2, <2>3, <2>4, <2>5 DEF Announces
<1>4. \/ Aborts
      \/ Replies("unset", d, k, None, bad, FALSE, {}) /\ stack' = stack
      \/ \E ok : /\ Becomes(r)
                 /\ Replies("unset", d, k, None, bad, ok, {own} \cup others)
                 /\ stack' = stack
  BY Zenon DEF Unset
<1> HIDE DEF r, own, others
<1> QED BY <1>2, <1>3, <1>4

LEMMA UnsetBelowAnnounces ==
    ASSUME NEW d, NEW k, NEW names, NEW bad, UnsetBelow(d, k, names, bad)
    PROVE  Aborts \/ \E told : Announces(told)
<1> DEFINE r == RecursiveUnset(contents, stack[d], k, names, bad)
           ks == Visited(contents, stack[d], k, bad)
           told(x) == {Told(d, x, QueryValue(r.contents, stack[d], x, bad))}
                          \cup ToldOthers(r.contents, d, x, UnsetIn(stack[d], x, bad), bad)
           answer == IF r.error THEN {} ELSE UNION {told(x) : x \in ks}
<1>1. ASSUME NEW ok, Becomes(r), Replies("unset below", d, k, None, bad, ok, answer),
             stack' = stack
      PROVE  Announces(answer)
  <2>1. contents' = r.contents
    BY <1>1 DEF Becomes
  <2>2. done'.told = answer /\ (done'.clean <=> bad = {})
    <3> HIDE DEF answer
    <3> QED BY <1>1 DEF Replies
  <2>3. ASSUME bad = {}, NEW x PROVE \A a \in told(x) : AsRead(contents', a)
    <3> HIDE DEF r
    <3>1. told(x) = {Told(d, x, QueryValue(contents', stack[d], x, {}))}
                        \cup ToldOthers(contents', d, x, UnsetIn(stack[d], x, {}), {})
      BY <2>1, <2>3
    <3> QED BY <3>1, ToldAsRead, OthersAsRead
  <2>4. \A a \in answer : \E x : a \in told(x)
    <3> HIDE DEF told, ks
    <3> QED OBVIOUS
  <2> HIDE DEF r, told, answer, ks
  <2> QED BY <1>1, <2>2, <2>3, <2>4 DEF Announces
<1>2. \/ Aborts
      \/ \E ok : /\ Becomes(r)
                 /\ Replies("unset below", d, k, None, bad, ok, answer)
                 /\ stack' = stack
  BY Zenon DEF UnsetBelow
<1> HIDE DEF r, answer
<1> QED BY <1>1, <1>2

AnnouncedInv ==
    DueInv /\ (\A d \in Databases : OneView(stack[d])) /\ AnnouncementsAreReads

LEMMA AnnouncedStep ==
    ASSUME \A d \in Databases : OneView(Addresses[d]), AnnouncedInv, [Next]_vars
    PROVE  AnnouncedInv'
<1>0. DueInv'
  BY DueStep DEF AnnouncedInv
<1>1. DueInv /\ \A d \in Databases : OneView(stack[d])
  BY DEF AnnouncedInv
<1>2. CASE UNCHANGED <<contents, stack, done>>
  BY <1>0, <1>2 DEF AnnouncedInv, AnnouncementsAreReads, Read, StillSet
<1>3. ASSUME NEW told, Announces(told) PROVE AnnouncedInv'
  <2>1. stack' = stack /\ AnnouncementsAreReads'
    BY <1>3, AnnouncesIsRead DEF Announces
  <2> QED BY <1>0, <1>1, <2>1 DEF AnnouncedInv
<1>4. Aborts => UNCHANGED <<contents, stack, done>>
  BY DEF Aborts
<1>5. ASSUME NEW d \in Databases, NEW s \in Settings, NEW bad,
             Set(d, s[1], s[2], bad) \/ Unset(d, s[1], bad)
      PROVE  AnnouncedInv'
  <2>1. s[1] \in Keys /\ s[2] \in AnyValue
    BY DatabasesAssumption
  <2>2. OneView(stack[d])
    BY <1>1
  <2>3. Set(d, s[1], s[2], bad) => Aborts \/ \E told : Announces(told)
    BY <1>1, <2>1, <2>2, SetAnnounces
  <2>4. Unset(d, s[1], bad) => Aborts \/ \E told : Announces(told)
    BY <1>1, <2>1, UnsetAnnounces
  <2> QED BY <1>2, <1>3, <1>4, <1>5, <2>3, <2>4
<1>6. ASSUME NEW d, NEW k, NEW names, NEW bad, UnsetBelow(d, k, names, bad)
      PROVE  AnnouncedInv'
  BY <1>2, <1>3, <1>4, <1>6, UnsetBelowAnnounces
<1>7. ASSUME NEW d, NEW k, NEW name, NEW bad, SetSchemaName(d, k, name, bad)
      PROVE  AnnouncedInv'
  <2>1. Announces({})
    BY <1>7 DEF SetSchemaName, Replies, Announces
  <2> QED BY <1>3, <2>1
<1>8. CASE Sent
  <2>1. Announces({})
    BY <1>8 DEF Sent, Nothing, Announces
  <2> QED BY <1>3, <2>1
<1>9. ASSUME NEW d, NEW bad, Time \/ TimerFires(d) \/ IdleFires(d, bad) \/ SuggestSync(d) \/ Shutdown(bad)
      PROVE  UNCHANGED <<contents, stack, done>>
  BY <1>9 DEF Time, TimerFires, IdleFires, SuggestSync, Shutdown
<1>10. ASSUME NEW d \in Databases, Obtain(d) PROVE AnnouncedInv'
  <2>1. stack' = [stack EXCEPT ![d] = Addresses[d]] /\ stack \in [Databases -> Stacks]
    BY <1>1, <1>10 DEF Obtain, DueInv, TypeOK
  <2>2. \A e \in Databases : OneView(stack'[e])
    BY <1>1, <2>1
  <2>3. AnnouncementsAreReads'
    BY <1>10 DEF Obtain, Free, Nothing, AnnouncementsAreReads
  <2>4. \A e \in Databases : OneView(stack[e])'
    BY <2>2 DEF OneView
  <2> QED BY <1>0, <2>3, <2>4 DEF AnnouncedInv
<1> QED
  <2>1. CASE UNCHANGED vars
    BY <1>2, <2>1 DEF vars
  <2>2. CASE Next
    BY <1>2, <1>5, <1>6, <1>7, <1>8, <1>9, <1>10, <2>2 DEF Next, Change, Save
  <2> QED BY <2>1, <2>2

(* Whatever a request announces is what a read returns, to its own database and   *)
(* to every other that shares a source with it, unless the path file names what   *)
(* two sources share first read-only and then writable.                         *)
THEOREM AnnouncedAreRead ==
    ASSUME \A d \in Databases : OneView(Addresses[d]),
           \A missing \in SUBSET MayNotLoad : OneView(Loaded(Default, missing))
    PROVE  Spec => []AnnouncementsAreReads
<1>1. Init => AnnouncedInv
  <2> SUFFICES ASSUME Init PROVE AnnouncedInv
    OBVIOUS
  <2>1. AnnouncementsAreReads
    BY DEF Init, Nothing, AnnouncementsAreReads
  <2>2. PICK missing \in SUBSET MayNotLoad :
            stack = [d \in Databases |-> IF d = Default THEN Loaded(d, missing) ELSE <<>>]
    BY DEF Init
  <2>3. OneView(<<>>)
    BY DEF OneView
  <2>4. \A d \in Databases : stack[d] = IF d = Default THEN Loaded(Default, missing) ELSE <<>>
    <3> HIDE DEF Loaded
    <3> QED BY <2>2
  <2>5. \A d \in Databases : OneView(stack[d])
    BY <2>3, <2>4
  <2> QED BY <2>1, <2>5, DueInit DEF AnnouncedInv
<1>2. AnnouncedInv /\ [Next]_vars => AnnouncedInv'
  BY AnnouncedStep
<1>3. AnnouncedInv => AnnouncementsAreReads
  BY DEF AnnouncedInv
<1> QED
  BY <1>1, <1>2, <1>3, PTL DEF Spec

-----------------------------------------------------------------------------
(* Changes                                                                   *)

(* The first value depends on the sources up to it only.                        *)
LEMMA FirstValueSame ==
    ASSUME NEW c, NEW n, NEW st \in Stacks, NEW k, NEW p \in 1..Len(st) + 1,
           \A i \in 1..p - 1 : Entry(n, st[i], k).value = Entry(c, st[i], k).value,
           p = Len(st) + 1 \/ \E i \in 1..p - 1 : st[i] \in WithValue(n, k)
    PROVE  FirstValue(n, st, k) = FirstValue(c, st, k)
<1> DEFINE f == FirstIn(st, WithValue(c, k))
           g == FirstIn(st, WithValue(n, k))
<1>1. /\ Len(st) \in Nat /\ f \in 1..Len(st) + 1 /\ g \in 1..Len(st) + 1
      /\ \A i \in 1..Len(st) : st[i] \in Sources
      /\ f <= Len(st) => st[f] \in WithValue(c, k)
      /\ g <= Len(st) => st[g] \in WithValue(n, k)
      /\ \A j \in 1..f - 1 : st[j] \notin WithValue(c, k)
      /\ \A j \in 1..g - 1 : st[j] \notin WithValue(n, k)
  BY FirstInFacts, MemberTyped DEF Stacks
<1>2. \A i \in 1..p - 1 : /\ i \in 1..Len(st)
                          /\ st[i] \in WithValue(n, k) <=> st[i] \in WithValue(c, k)
  <2>1. \A i \in 1..p - 1 : i \in 1..Len(st)
    BY <1>1
  <2> QED BY <1>1, <2>1 DEF WithValue
<1> HIDE DEF f, g
<1>3. CASE \E i \in 1..p - 1 : st[i] \in WithValue(n, k)
  <2>1. PICK i \in 1..p - 1 : st[i] \in WithValue(n, k) /\ st[i] \in WithValue(c, k)
    BY <1>2, <1>3
  <2>2. f <= i /\ g <= i
    BY <1>1, <2>1
  <2>3. f \in 1..p - 1 /\ g \in 1..p - 1 /\ f <= Len(st) /\ g <= Len(st)
    BY <1>1, <2>1, <2>2
  <2>4. st[f] \in WithValue(n, k) /\ st[g] \in WithValue(c, k)
    BY <1>1, <1>2, <2>3
  <2>5. g <= f /\ f <= g
    BY <1>1, <2>3, <2>4
  <2>6. f = g
    BY <1>1, <2>5
  <2> QED BY <2>3, <2>6 DEF FirstValue, f, g
<1>4. CASE p = Len(st) + 1 /\ ~ \E i \in 1..p - 1 : st[i] \in WithValue(n, k)
  <2>1. \A i \in 1..Len(st) : st[i] \notin WithValue(n, k) /\ st[i] \notin WithValue(c, k)
    BY <1>1, <1>2, <1>4
  <2>2. ~ (f <= Len(st)) /\ ~ (g <= Len(st))
    BY <1>1, <2>1
  <2> QED BY <2>2 DEF FirstValue, f, g
<1> QED BY <1>3, <1>4

LEMMA SameAllAlong ==
    ASSUME NEW c, NEW n, NEW st \in Stacks, NEW k, Len(st) \in Nat,
           \A i \in 1..Len(st) : Entry(n, st[i], k).value = Entry(c, st[i], k).value
    PROVE  FirstValue(n, st, k) = FirstValue(c, st, k)
<1> DEFINE p == Len(st) + 1
<1>1. p \in 1..Len(st) + 1 /\ p - 1 = Len(st)
  OBVIOUS
<1>2. \A i \in 1..p - 1 : Entry(n, st[i], k).value = Entry(c, st[i], k).value
  BY <1>1
<1>3. p = Len(st) + 1
  OBVIOUS
<1> HIDE DEF p
<1> QED BY <1>1, <1>2, <1>3, FirstValueSame

(* A value has changed in the resources of the modified sources at most: another *)
(* database reads what it read, or is told, or a read fails.                     *)
LEMMA OthersAreTold ==
    ASSUME TypeOK, NEW n, NEW d, NEW k, NEW modified, NEW e \in Open, e # d,
           \A s \in Sources : (\A m \in modified : Resource[m] # Resource[s])
               => Entry(n, s, k).value = Entry(contents, s, k).value
    PROVE  \/ FirstValue(n, stack[e], k) = FirstValue(contents, stack[e], k)
           \/ \E a \in ToldOthers(n, d, k, modified, {}) : a.db = e /\ a.key = k
           \/ \E x \in Open : QueryValue(n, stack[x], k, {}).error
<1> DEFINE st == stack[e]
           is == AffectedOthers(n, d, k, modified, {})
           T == {j \in 1..Len(st) : \E m \in modified : Resource[m] = Resource[st[j]]}
<1>1. PICK i \in 1..Len(dbs) : e = dbs[i]
  BY DEF Open
<1>2. st \in Stacks /\ Len(st) \in Nat /\ \A j \in 1..Len(st) : st[j] \in Sources
  BY OpenTyped, MemberTyped DEF Stacks
<1>3. CASE i \in is
  <2>1. CASE \A y \in is : y <= i => ~ QueryValue(n, stack[dbs[y]], k, {}).error
    <3> DEFINE a == Told(dbs[i], k, QueryValue(n, stack[dbs[i]], k, {}))
    <3>1. a \in ToldOthers(n, d, k, modified, {})
      BY <1>3, <2>1 DEF ToldOthers
    <3>2. a.db = e /\ a.key = k
      BY <1>1 DEF Told
    <3> QED BY <3>1, <3>2
  <2>2. CASE ~ \A y \in is : y <= i => ~ QueryValue(n, stack[dbs[y]], k, {}).error
    <3>1. PICK y \in is : QueryValue(n, stack[dbs[y]], k, {}).error
      BY <2>2
    <3>2. dbs[y] \in Open
      BY DEF AffectedOthers, Open
    <3> QED BY <3>1, <3>2
  <2> QED BY <2>1, <2>2
<1>4. CASE i \notin is
  <2>1. \A s \in modified : ~ IsAffected(n, st, s, k, {})
    BY <1>1, <1>4 DEF AffectedOthers
  <2>2. CASE T = {}
    <3>1. \A j \in 1..Len(st) : Entry(n, st[j], k).value = Entry(contents, st[j], k).value
      BY <1>2, <2>2
    <3> HIDE DEF st, is, T
    <3>2. FirstValue(n, st, k) = FirstValue(contents, st, k)
      BY <1>2, <3>1, SameAllAlong
    <3> QED BY <3>2 DEF st
  <2>3. CASE T # {}
    <3>1. T \in SUBSET Nat
      BY <1>2
    <3> HIDE DEF st, T
    <3>2. PICK p \in T : \A y \in T : p <= y
      BY <2>3, <3>1, LeastElement
    <3>3. p \in 1..Len(st) /\ \E m \in modified : Resource[m] = Resource[st[p]]
      BY DEF T
    <3>4. PICK m \in modified : Resource[m] = Resource[st[p]]
      BY <3>3
    <3>5. \A j \in 1..p - 1 : j \in 1..Len(st) /\ j \notin T
      BY <1>2, <3>1, <3>2, <3>3
    <3>6. \A j \in 1..p - 1 : Entry(n, st[j], k).value = Entry(contents, st[j], k).value
      <4>1. \A j \in 1..p - 1 : \A x \in modified : Resource[x] # Resource[st[j]]
        BY <3>5 DEF T
      <4> QED BY <1>2, <3>5, <4>1
    <3> DEFINE those == {x \in Sources : Resource[x] = Resource[m]}
               at == FirstIn(st, those)
    <3>7. /\ at \in 1..Len(st) + 1 /\ (at <= Len(st) => st[at] \in those)
          /\ \A j \in 1..at - 1 : st[j] \notin those
      BY <1>2, FirstInFacts
    <3>8. st[p] \in those
      BY <1>2, <3>3, <3>4
    <3> HIDE DEF at
    <3>9. at <= p /\ at <= Len(st)
      BY <1>2, <3>3, <3>7, <3>8
    <3>10. at \in T
      BY <1>2, <3>7, <3>9 DEF T
    <3>11. at = p
      BY <1>2, <3>2, <3>3, <3>7, <3>9, <3>10
    <3>12. ~ IsAffected(n, st, m, k, {})
      BY <2>1, <3>4 DEF st
    <3>13. \E j \in 1..p - 1 : st[j] \in WithValue(n, k)
      BY <3>9, <3>11, <3>12 DEF IsAffected, at
    <3>14. p \in 1..Len(st) + 1
      BY <1>2, <3>3
    <3>15. FirstValue(n, st, k) = FirstValue(contents, st, k)
      BY <1>2, <3>6, <3>13, <3>14, FirstValueSame
    <3> QED BY <3>15 DEF st
  <2> QED BY <2>2, <2>3
<1> QED BY <1>3, <1>4

(* The body of ChangesAreAnnounced for one key.                                 *)
Announced(k, told) ==
    \A e \in Open : \/ Stored(e, k)' = Stored(e, k)
                    \/ \E a \in told : a.db = e /\ a.key = k
                    \/ \E x \in Open : Read(x, k)'.error

SameValue(n, s, k) == Entry(n, s, k).value = Entry(contents, s, k).value

LEMMA KeyIsKept ==
    ASSUME TypeOK, UNCHANGED stack, NEW k, NEW told, \A s \in Sources : SameValue(contents', s, k)
    PROVE  Announced(k, told)
<1> SUFFICES ASSUME NEW e \in Open PROVE Stored(e, k)' = Stored(e, k)
  BY DEF Announced
<1> DEFINE st == stack[e]
<1>1. st \in Stacks /\ Len(st) \in Nat /\ \A j \in 1..Len(st) : st[j] \in Sources
  BY OpenTyped, MemberTyped DEF Stacks
<1>2. Stored(e, k) = FirstValue(contents, st, k) /\ Stored(e, k)' = FirstValue(contents', st, k)
  BY DEF Stored, FirstValue
<1>3. PICK p \in 1..Len(st) + 1 : p = Len(st) + 1
  BY <1>1
<1> HIDE DEF st
<1>4. \A j \in 1..p - 1 : Entry(contents', st[j], k).value = Entry(contents, st[j], k).value
  BY <1>1, <1>3 DEF SameValue
<1>5. FirstValue(contents', st, k) = FirstValue(contents, st, k)
  BY <1>1, <1>3, <1>4, FirstValueSame
<1> QED BY <1>2, <1>5

LEMMA KeyIsTold ==
    ASSUME TypeOK, UNCHANGED stack, NEW d, NEW k, NEW modified, NEW told,
           \A s \in Sources : (\A m \in modified : Resource[m] # Resource[s])
               => SameValue(contents', s, k),
           \E a \in told : a.db = d /\ a.key = k,
           ToldOthers(contents', d, k, modified, {}) \subseteq told
    PROVE  Announced(k, told)
<1> SUFFICES ASSUME NEW e \in Open, e # d
             PROVE  \/ Stored(e, k)' = Stored(e, k)
                    \/ \E a \in told : a.db = e /\ a.key = k
                    \/ \E x \in Open : Read(x, k)'.error
  BY DEF Announced
<1>1. /\ Stored(e, k) = FirstValue(contents, stack[e], k)
      /\ Stored(e, k)' = FirstValue(contents', stack[e], k)
  BY DEF Stored, FirstValue
<1>2. \A x : Read(x, k)' = QueryValue(contents', stack[x], k, {})
  BY DEF Read
<1>3. \A s \in Sources : (\A m \in modified : Resource[m] # Resource[s])
          => Entry(contents', s, k).value = Entry(contents, s, k).value
  BY DEF SameValue
<1>4. \/ FirstValue(contents', stack[e], k) = FirstValue(contents, stack[e], k)
      \/ \E a \in ToldOthers(contents', d, k, modified, {}) : a.db = e /\ a.key = k
      \/ \E x \in Open : QueryValue(contents', stack[x], k, {}).error
  BY <1>3, OthersAreTold
<1> QED BY <1>1, <1>2, <1>4

(* Storing a value, or the name of a schema, keeps the values of everything else. *)
LEMMA PutKeeps ==
    ASSUME TypeOK, NEW r \in Resources, NEW k \in Keys, NEW v
    PROVE  /\ \A s \in Sources, x \in Keys : Resource[s] # r \/ x # k =>
                  SameValue([contents EXCEPT ![r][k].value = v], s, x)
           /\ \A s \in Sources, x \in Keys :
                  SameValue([contents EXCEPT ![r][k].schema = v], s, x)
<1>1. /\ contents \in [Resources -> [Keys -> Entries]]
      /\ \A s \in Sources : Resource[s] \in Resources
      /\ \A q \in Resources : contents[q] \in [Keys -> Entries]
      /\ \A q \in Resources, x \in Keys : contents[q][x] \in Entries
  BY SourcesAssumption DEF TypeOK, Contents
<1>2. ASSUME NEW f
      PROVE  \A q \in Resources, x \in Keys :
               [contents EXCEPT ![r][k] = f][q][x] = IF q = r /\ x = k THEN f ELSE contents[q][x]
  BY <1>1
<1>3. [contents[r][k] EXCEPT !.schema = v].value = contents[r][k].value
  BY <1>1 DEF Entries
<1>4. [contents EXCEPT ![r][k].schema = v]
        = [contents EXCEPT ![r][k] = [contents[r][k] EXCEPT !.schema = v]]
  BY <1>1
<1>5. [contents EXCEPT ![r][k].value = v]
        = [contents EXCEPT ![r][k] = [contents[r][k] EXCEPT !.value = v]]
  BY <1>1
<1> QED BY <1>1, <1>2, <1>3, <1>4, <1>5 DEF SameValue, Entry

(* The body of ChangesAreAnnounced.                                            *)
StepAnnounced ==
    done' # Nothing /\ done'.ok /\ done'.clean => \A k \in Keys : Announced(k, done'.told)

LEMMA SetIsAnnounced ==
    ASSUME TypeOK, NEW d \in Databases, NEW k \in Keys, NEW v, NEW bad, Set(d, k, v, bad)
    PROVE  StepAnnounced
<1> SUFFICES ASSUME done' # Nothing, done'.ok, done'.clean, NEW x \in Keys
             PROVE  Announced(x, done'.told)
  BY DEF StepAnnounced
<1> DEFINE r == SetValue(contents, stack[d], k, v, bad)
           own == Told(d, k, [value |-> v, isDefault |-> FALSE, writable |-> TRUE])
           others == ToldOthers(r.contents, d, k, r.modified, bad)
<1>1. d \in Open /\ done = Nothing
  BY Zenon DEF Set, Serves, Free
<1>2. /\ ~ r.error /\ Becomes(r) /\ UNCHANGED stack
      /\ Replies("set", d, k, v, bad, TRUE, {own} \cup others)
  <2>1. CASE Aborts
    BY <1>1, <2>1 DEF Aborts
  <2>2. CASE Replies("set", d, k, v, bad, FALSE, {})
    BY <2>2 DEF Replies
  <2> QED BY <2>1, <2>2, Zenon DEF Set
<1>3. bad = {} /\ done'.told = {own} \cup others /\ contents' = r.contents
  <2> HIDE DEF r, own, others
  <2> QED BY <1>2 DEF Replies, Becomes
<1> DEFINE st == stack[d]
           w == FirstIn(st, WritableAt(k))
<1>4. st \in Stacks /\ Len(st) \in Nat /\ w \in 1..Len(st) + 1
  BY FirstInFacts, OpenTyped DEF Stacks
<1>5. /\ w <= Len(st) /\ r.modified = {st[w]}
      /\ r.contents = [contents EXCEPT ![Resource[st[w]]][k].value = v]
  <2> DEFINE refused == k = <<>> \/ w > Len(st)
                           \/ FirstIn(st, {s \in WithValue(contents, k) : <<s, "query">> \notin bad}) < w
             put == [contents EXCEPT ![Resource[st[w]]][k].value = v]
  <2>1. r = IF refused THEN Result({}, TRUE, contents)
            ELSE IF <<st[w], "set">> \in bad THEN Result({st[w]}, TRUE, contents)
            ELSE Result({st[w]}, FALSE, put)
    BY DEF SetValue
  <2>2. refused \/ w <= Len(st)
    <3> HIDE DEF w, st
    <3> QED BY <1>4
  <2> HIDE DEF r, refused, put, w, st
  <2>3. ~ refused /\ r = Result({st[w]}, FALSE, put)
    BY <1>2, <2>1 DEF Result
  <2> QED BY <2>2, <2>3 DEF Result, put
<1> DEFINE res == Resource[st[w]]
<1>6. res \in Resources
  <2> HIDE DEF w, st
  <2> QED BY <1>4, <1>5, MemberTyped
<1> HIDE DEF res
<1>7. contents' = [contents EXCEPT ![res][k].value = v]
  BY <1>3, <1>5 DEF res
<1>8. \A s \in Sources, y \in Keys : Resource[s] # res \/ y # k => SameValue(contents', s, y)
  BY <1>6, <1>7, PutKeeps
<1>9. CASE x # k
  BY <1>2, <1>8, <1>9, KeyIsKept
<1>10. CASE x = k
  <2>1. own.db = d /\ own.key = k
    BY DEF Told
  <2>2. \E a \in done'.told : a.db = d /\ a.key = k
    <3> HIDE DEF own, others
    <3> QED BY <1>3, <2>1
  <2>3. ToldOthers(contents', d, k, r.modified, {}) \subseteq done'.told
    <3> HIDE DEF own
    <3> QED BY <1>3
  <2>4. \A s \in Sources : (\A m \in r.modified : Resource[m] # Resource[s])
          => SameValue(contents', s, k)
    <3> HIDE DEF r
    <3> QED BY <1>5, <1>8 DEF res
  <2> HIDE DEF r
  <2> QED BY <1>2, <1>10, <2>2, <2>3, <2>4, KeyIsTold
<1> QED BY <1>9, <1>10

LEMMA SchemaIsAnnounced ==
    ASSUME TypeOK, NEW d \in Databases, NEW k \in Keys, NEW name, NEW bad,
           SetSchemaName(d, k, name, bad)
    PROVE  StepAnnounced
<1> SUFFICES ASSUME NEW x \in Keys PROVE Announced(x, done'.told)
  BY DEF StepAnnounced
<1> DEFINE r == SetSchema(contents, stack[d], k, name, bad)
           st == stack[d]
           w == FirstIn(st, WritableAt(k))
<1>1. d \in Open /\ UNCHANGED stack /\ contents' = r.contents
  BY Zenon DEF SetSchemaName, Serves, Becomes
<1>2. st \in Stacks /\ Len(st) \in Nat /\ w \in 1..Len(st) + 1
  BY FirstInFacts, OpenTyped DEF Stacks
<1>3. r.contents = contents \/ /\ w <= Len(st)
                               /\ r.contents = [contents EXCEPT ![Resource[st[w]]][k].schema = name]
  <2> HIDE DEF w
  <2> QED BY <1>2 DEF SetSchema, Result, w, st
<1> DEFINE res == Resource[st[w]]
<1>4. w <= Len(st) => res \in Resources
  <2> HIDE DEF w, st
  <2> QED BY <1>2, MemberTyped
<1> HIDE DEF res
<1>5. contents' = contents \/ (res \in Resources /\ contents' = [contents EXCEPT ![res][k].schema = name])
  BY <1>1, <1>3, <1>4 DEF res
<1>6. CASE contents' = contents
  <2>1. \A s \in Sources : SameValue(contents', s, x)
    BY <1>6 DEF SameValue
  <2> QED BY <1>1, <2>1, KeyIsKept
<1>7. CASE res \in Resources /\ contents' = [contents EXCEPT ![res][k].schema = name]
  <2>1. \A s \in Sources, y \in Keys :
            SameValue([contents EXCEPT ![res][k].schema = name], s, y)
    BY <1>7, PutKeeps
  <2>2. \A s \in Sources : SameValue(contents', s, x)
    BY <1>7, <2>1
  <2> QED BY <1>1, <2>2, KeyIsKept
<1> QED BY <1>5, <1>6, <1>7

(* Dropping values keeps those of other keys, and of other resources.           *)
LEMMA WithoutKeeps ==
    ASSUME TypeOK, NEW st, NEW ks, NEW named, NEW s \in Sources, NEW k \in Keys,
           k \in ks => \A m \in UnsetIn(st, k, {}) : Resource[m] # Resource[s]
    PROVE  SameValue(Without(contents, st, ks, named, {}), s, k)
<1>1. Resource[s] \in Resources
  BY SourcesAssumption
<1>2. Without(contents, st, ks, named, {})[Resource[s]][k].value = contents[Resource[s]][k].value
  BY <1>1 DEF Without
<1> QED BY <1>2 DEF SameValue, Entry

LEMMA UnsetIsAnnounced ==
    ASSUME TypeOK, NEW d \in Databases, NEW k \in Keys, NEW bad, Unset(d, k, bad)
    PROVE  StepAnnounced
<1> SUFFICES ASSUME done' # Nothing, done'.ok, done'.clean, NEW x \in Keys
             PROVE  Announced(x, done'.told)
  BY DEF StepAnnounced
<1> DEFINE r == UnsetValue(contents, stack[d], k, bad)
           fallback == QueryDefault(r.contents, stack[d], k, bad)
           own == Told(d, k, [value |-> fallback.value, isDefault |-> TRUE,
                              writable |-> fallback.writable])
           others == ToldOthers(r.contents, d, k, r.modified, bad)
<1>1. d \in Open /\ done = Nothing
  BY Zenon DEF Unset, Serves, Free
<1>2. /\ Becomes(r) /\ UNCHANGED stack
      /\ Replies("unset", d, k, None, bad, ~ fallback.error, {own} \cup others)
  <2>1. CASE Aborts
    BY <1>1, <2>1 DEF Aborts
  <2>2. CASE Replies("unset", d, k, None, bad, FALSE, {})
    BY <2>2 DEF Replies
  <2> QED BY <2>1, <2>2, Zenon DEF Unset
<1>3. bad = {} /\ done'.told = {own} \cup others /\ contents' = r.contents
  <2> HIDE DEF r, own, others, fallback
  <2> QED BY <1>2 DEF Replies, Becomes
<1>4. /\ contents' = Without(contents, stack[d], {k}, {}, {})
      /\ r.modified = UnsetIn(stack[d], k, {})
  BY <1>3 DEF UnsetValue, Result
<1>5. CASE x # k
  <2>1. \A s \in Sources : SameValue(contents', s, x)
    BY <1>4, <1>5, WithoutKeeps
  <2> QED BY <1>2, <2>1, KeyIsKept
<1>6. CASE x = k
  <2>1. own.db = d /\ own.key = k
    BY DEF Told
  <2>2. \E a \in done'.told : a.db = d /\ a.key = k
    <3> HIDE DEF own, others
    <3> QED BY <1>3, <2>1
  <2>3. ToldOthers(contents', d, k, r.modified, {}) \subseteq done'.told
    <3> HIDE DEF own
    <3> QED BY <1>3
  <2>4. \A s \in Sources : (\A m \in r.modified : Resource[m] # Resource[s])
          => SameValue(contents', s, k)
    <3> HIDE DEF r
    <3> QED BY <1>4, WithoutKeeps
  <2> HIDE DEF r
  <2> QED BY <1>2, <1>6, <2>2, <2>3, <2>4, KeyIsTold
<1> QED BY <1>5, <1>6

LEMMA UnsetBelowIsAnnounced ==
    ASSUME TypeOK, NEW d \in Databases, NEW k \in Dirs, NEW names \in BOOLEAN, NEW bad,
           UnsetBelow(d, k, names, bad)
    PROVE  StepAnnounced
<1> SUFFICES ASSUME done' # Nothing, done'.ok, done'.clean, NEW x \in Keys
             PROVE  Announced(x, done'.told)
  BY DEF StepAnnounced
<1> DEFINE r == RecursiveUnset(contents, stack[d], k, names, bad)
           ks == Visited(contents, stack[d], k, bad)
           now(y) == QueryValue(r.contents, stack[d], y, bad)
           answer == UNION {{Told(d, y, now(y))}
                       \cup ToldOthers(r.contents, d, y, UnsetIn(stack[d], y, bad), bad) : y \in ks}
<1>1. d \in Open /\ done = Nothing
  BY Zenon DEF UnsetBelow, Serves, Free
<1>2. /\ Becomes(r) /\ UNCHANGED stack
      /\ Replies("unset below", d, k, None, bad,
                 ~ r.error /\ \A y \in ks : ~ now(y).error, IF r.error THEN {} ELSE answer)
  <2>1. CASE Aborts
    BY <1>1, <2>1 DEF Aborts
  <2> QED BY <2>1, Zenon DEF UnsetBelow
<1>3. bad = {} /\ done'.told = answer /\ contents' = r.contents
  <2> HIDE DEF r, answer, ks, now
  <2> QED BY <1>2 DEF Replies, Becomes
<1>4. contents' = Without(contents, stack[d], ks,
                          IF names THEN EntriesBelow(contents, stack[d], k, bad) ELSE {}, {})
  BY <1>3 DEF RecursiveUnset, Result
<1>5. CASE x \notin ks
  <2>1. \A s \in Sources : SameValue(contents', s, x)
    <3> HIDE DEF ks
    <3> QED BY <1>4, <1>5, WithoutKeeps
  <2> QED BY <1>2, <2>1, KeyIsKept
<1>6. CASE x \in ks
  <2> DEFINE m == UnsetIn(stack[d], x, {})
             own == Told(d, x, now(x))
  <2>1. own.db = d /\ own.key = x
    BY DEF Told
  <2>2. ToldOthers(contents', d, x, m, {}) \subseteq done'.told /\ own \in done'.told
    <3> HIDE DEF ks, r
    <3> QED BY <1>3, <1>6
  <2>3. \A s \in Sources : (\A y \in m : Resource[y] # Resource[s]) => SameValue(contents', s, x)
    <3> HIDE DEF ks
    <3> QED BY <1>4, WithoutKeeps
  <2> HIDE DEF own, m, ks, r
  <2>4. \E a \in done'.told : a.db = d /\ a.key = x
    BY <2>1, <2>2
  <2>5. UNCHANGED stack /\ ToldOthers(contents', d, x, m, {}) \subseteq done'.told
    BY <1>2, <2>2
  <2> QED BY <2>3, <2>4, <2>5, KeyIsTold, Zenon
<1> QED BY <1>5, <1>6

LEMMA ChangeIsAnnounced ==
    ASSUME TypeOK, Next, done' # Nothing
    PROVE  StepAnnounced
<1>1. \A s \in Settings : s[1] \in Keys
  BY DatabasesAssumption
<1>2. \A n \in Namings : n[1] \in Keys
  BY DatabasesAssumption
<1>3. \A k \in Cleared : k \in Dirs
  BY DatabasesAssumption
<1>4. PICK d \in Databases : Change(d)
  <2>2. CASE Sent
    BY <2>2 DEF Sent
  <2>3. CASE Time
    BY <2>3 DEF Time, Free
  <2>4. ASSUME NEW e \in Databases, Save(e) \/ SuggestSync(e) \/ Obtain(e)
        PROVE  FALSE
    BY <2>4, Zenon DEF Save, TimerFires, IdleFires, SuggestSync, Obtain, Serves, Free
  <2>5. ASSUME NEW bad, Shutdown(bad) PROVE FALSE
    BY <2>5, Zenon DEF Shutdown, Free
  <2> QED BY <2>2, <2>3, <2>4, <2>5, Zenon DEF Next
<1>5. ASSUME NEW s \in Settings, NEW bad, Set(d, s[1], s[2], bad) \/ Unset(d, s[1], bad)
      PROVE  StepAnnounced
  BY <1>1, <1>5, SetIsAnnounced, UnsetIsAnnounced
<1>6. ASSUME NEW k \in Cleared, NEW names \in BOOLEAN, NEW bad, UnsetBelow(d, k, names, bad)
      PROVE  StepAnnounced
  BY <1>3, <1>6, UnsetBelowIsAnnounced
<1>7. ASSUME NEW n \in Namings, NEW bad, SetSchemaName(d, n[1], n[2], bad)
      PROVE  StepAnnounced
  BY <1>2, <1>7, SchemaIsAnnounced
<1> QED BY <1>4, <1>5, <1>6, <1>7, Zenon DEF Change

(* Whatever a request changes is announced to every open database that reads it  *)
(* from there: all sources in front of the modified one that could hide the      *)
(* change have no value, or the database reads what it read.  Other steps        *)
(* announce nothing.                                                         *)
THEOREM ChangesStayAnnounced == Spec => ChangesAreAnnounced
<1> DEFINE Body == done' # Nothing /\ done'.ok /\ done'.clean =>
               \A d \in Open, k \in Keys :
                   \/ Stored(d, k)' = Stored(d, k)
                   \/ \E a \in done'.told : a.db = d /\ a.key = k
                   \/ \E e \in Open : Read(e, k)'.error
<1>1. Init => DueInv
  BY DueInit
<1>2. DueInv /\ [Next]_vars => DueInv'
  BY DueStep
<1>3. DueInv /\ [Next]_vars => [Body]_vars
  <2> SUFFICES ASSUME TypeOK, Next, done' # Nothing PROVE Body
    BY DEF DueInv
  <2>1. StepAnnounced
    BY ChangeIsAnnounced
  <2> QED BY <2>1 DEF StepAnnounced, Announced
<1> HIDE DEF Body
<1>4. Spec => [][Body]_vars
  BY <1>1, <1>2, <1>3, PTL DEF Spec
<1> QED
  BY <1>4 DEF ChangesAreAnnounced, Body
=============================================================================
