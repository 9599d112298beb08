------------------------- MODULE GConfEngineProofs ---------------------------
(***************************************************************************)
(* The library in a program and gconfd, for any number of programs,          *)
(* databases, sections and exits of gconfd.                                  *)
(***************************************************************************)
EXTENDS GConfEngine, SequenceTheorems, FiniteSetTheorems, TLAPS

-----------------------------------------------------------------------------
(* What is true at every step.                                               *)

Loaded == {d \in Databases : path[d] # NoPath}

(* gconfd numbers its objects in the order of the requests, the default       *)
(* database first; without a process there is nothing.                       *)
ServerSound ==
    /\ up => path[Default] = 1
    /\ ~ up => path = Unloaded /\ listed = Unlisted /\ counted = Uncounted
    /\ \A d \in Databases : path[d] <= Cardinality(Loaded)
    /\ \A d, e \in Databases : path[d] = path[e] /\ path[d] # NoPath => d = e

Calling == {"ensure", "obtain", "send"}

(* What belongs to each stage of a call.                                     *)
CallSound(c) ==
    /\ op[c].pc = "idle" => op[c] = Idle
    /\ op[c].pc \notin {"reset", "crashed"} => op[c].todo = {}
    /\ op[c].pc \notin {"reset", "readd", "crashed"} => op[c].adds = NoAdds
    /\ op[c].pc \in Calling => op[c].call # "none"
    /\ op[c].call # "none" => op[c].db \in Opens[c]
    /\ op[c].call = "none" => op[c].db = Default /\ op[c].section = NoSection
    /\ op[c].call \in {"add", "remove"} => op[c].section \in Sections
    /\ op[c].call = "add" => held[c][op[c].db][op[c].section] > 0
    /\ \A d \in Databases : op[c].adds[d] # NoAdds[d] => d \in Opens[c]
    /\ \A d \in Databases : database[c][d] # NoPath => d \in Opens[c]
    /\ opened[c] \subseteq Opens[c]
    /\ ~ alive[c] => op[c] = Idle /\ queue[c] = <<>> /\ held[c] = NoAdds

TableSound(c) ==
    \A d \in Databases, p \in Paths : d \in known[c][p] <=> database[c][d] = p

(* gconfd has gone and the program has not begun to recover from it.         *)
Missed(c) == reconnect[c] \/ \E i \in DOMAIN queue[c] : queue[c][i] = "gone"

(* Otherwise every path is right, but for those to be asked for anew.        *)
Current(c) ==
    alive[c] /\ ~ Missed(c) =>
        \A d \in Databases \ op[c].todo :
            database[c][d] # NoPath => path[d] = database[c][d]

(* A signal that gconfd is back is right, or another that it went comes after it. *)
BackMeansUp(c) ==
    \A i \in DOMAIN queue[c] : queue[c][i] = "back" =>
        up \/ \E j \in DOMAIN queue[c] : j > i /\ queue[c][j] = "gone"

EngineInv ==
    /\ TypeOK
    /\ ServerSound
    /\ \A c \in Clients : CallSound(c) /\ TableSound(c) /\ Current(c) /\ BackMeansUp(c)

(* Programs with one database besides the default.                           *)
Apart == \A c \in Clients : \A d, e \in Opens[c] \ {Default} : d = e

ApartSound(c) ==
    /\ op[c].pc # "crashed"
    /\ \A d \in op[c].todo : database[c][d] # NoPath
    /\ database[c][Default] \in {NoPath, 1}
    /\ \A d \in Databases \ {Default} : database[c][d] # 1

ApartInv == \A c \in Clients : ApartSound(c)

(* One exit at most.                                                         *)
Adding(c, d, s) == op[c].call = "add" /\ op[c].db = d /\ op[c].section = s
Removing(c, d, s) == op[c].call = "remove" /\ op[c].db = d /\ op[c].section = s

(* A program learns of one exit before it hears of the next.                 *)
GoneOnce(c) ==
    /\ \A i, j \in DOMAIN queue[c] : queue[c][i] = "gone" /\ queue[c][j] = "gone" => i = j
    /\ (\E i \in DOMAIN queue[c] : queue[c][i] = "gone") => ~ reconnect[c]
    /\ reconnect[c] => ~ running[c]

OnceSound(c) ==
    /\ GoneOnce(c)
    /\ Missed(c) => exits = 1
    /\ op[c].pc \in {"reset", "readd"} => up /\ exits = 1 /\ ~ Missed(c)

HeldAt(c, d, s) ==
    /\ held[c][d][s] <= 1
    /\ Removing(c, d, s) => held[c][d][s] = 0
    /\ held[c][d][s] > 0 => database[c][d] # NoPath \/ Adding(c, d, s)
    /\ alive[c] /\ ~ Missed(c) =>
         held[c][d][s] <= listed[d][c][s] + op[c].adds[d][s]
                          + (IF Adding(c, d, s) THEN 1 ELSE 0)

HeldSound(c) == \A d \in Databases, s \in Sections : HeldAt(c, d, s)

SurviveInv == exits <= 1 => \A c \in Clients : OnceSound(c) /\ HeldSound(c)

(* An orderly program.                                                       *)
BalanceAt(c, d, s) ==
    /\ held[c][d][s] > 0 => database[c][d] # NoPath \/ Adding(c, d, s)
    /\ Adding(c, d, s) /\ database[c][d] = NoPath => held[c][d][s] = 1
    /\ Missed(c) => listed[d][c][s] = 0
    /\ alive[c] /\ ~ Missed(c) =>
         held[c][d][s] + (IF Removing(c, d, s) THEN 1 ELSE 0)
           = listed[d][c][s] + op[c].adds[d][s] + (IF Adding(c, d, s) THEN 1 ELSE 0)

OrderlySound(c) ==
    /\ GoneOnce(c)
    /\ Missed(c) => op[c].call \notin {"add", "remove"}
    /\ op[c].pc \in {"reset", "readd"} => up /\ ~ Missed(c)
    /\ op[c].pc = "send" => database[c][op[c].db] # NoPath
    /\ \A d \in Databases, s \in Sections : BalanceAt(c, d, s)

OrderlyInv == \A c \in Clients : OrderlySound(c)


-----------------------------------------------------------------------------
(* Object paths.                                                             *)

LEMMA PathFacts ==
    /\ Cardinality(Databases) \in Nat \ {0}
    /\ 1 \in Paths /\ Paths \subseteq Nat /\ NoPath \notin Paths
    /\ \A p \in Paths : 1 <= p /\ p <= Cardinality(Databases)
<1>1. Cardinality(Databases) \in Nat /\ Cardinality(Databases) # 0
  BY DefaultAssumption, FS_CardinalityType, FS_EmptySet
<1> QED
  BY <1>1 DEF Paths, NoPath

(* A database that is asked for gets a number no other has, if it has none.   *)
LEMMA GetDatabaseFacts ==
    ASSUME SvTypeOK, ServerSound, NEW d \in Databases, GetDatabase(d)
    PROVE  /\ SvTypeOK' /\ ServerSound'
           /\ path'[d] \in Paths
           /\ \A e \in Databases : path[e] # NoPath => path'[e] = path[e]
           /\ d # Default => path'[d] # 1
           /\ path'[Default] = 1
<1> USE DEF NoPath
<1>1. up /\ up' /\ listed' = listed /\ counted' = counted /\ exits' = exits
  BY DEF GetDatabase
<1>2. path[Default] = 1
  BY <1>1 DEF ServerSound
<1>3. CASE path[d] # 0
  <2>1. path' = path
    BY <1>3 DEF GetDatabase, SvTypeOK
  <2>2. SvTypeOK' /\ ServerSound'
    BY <1>1, <2>1 DEF SvTypeOK, ServerSound, Loaded
  <2>3. path[d] \in Paths
    BY <1>3 DEF SvTypeOK
  <2>4. d # Default => path[d] # 1
    BY <1>2, DefaultAssumption DEF ServerSound
  <2> QED
    BY <1>2, <2>1, <2>2, <2>3, <2>4
<1>4. CASE path[d] = 0
  <2>1. /\ path' = [path EXCEPT ![d] = NextPath]
        /\ NextPath = 1 + Cardinality(Loaded)
    BY <1>4 DEF GetDatabase, SvTypeOK, NextPath, Loaded
  <2>2. IsFiniteSet(Loaded) /\ Cardinality(Loaded) \in Nat
    BY DefaultAssumption, FS_Subset, FS_CardinalityType DEF Loaded
  <2>3. d # Default /\ Default \in Loaded
    BY <1>2, <1>4, DefaultAssumption DEF Loaded
  <2>4. d \notin Loaded /\ Loaded \cup {d} \subseteq Databases
    BY <1>4 DEF Loaded
  <2>5. Cardinality(Loaded \cup {d}) = Cardinality(Loaded) + 1
    BY <2>2, <2>4, FS_AddElement
  <2>6. Cardinality(Loaded) + 1 <= Cardinality(Databases)
    BY <2>4, <2>5, DefaultAssumption, FS_Subset
  <2>7. Cardinality(Loaded) >= 1
    BY <2>2, <2>3, FS_EmptySet
  <2>8. NextPath \in Paths /\ NextPath # 1 /\ NextPath # 0
    BY <2>1, <2>2, <2>6, <2>7, PathFacts DEF Paths
  <2>9. /\ path'[d] = NextPath
        /\ \A e \in Databases \ {d} : path'[e] = path[e]
    BY <2>1 DEF SvTypeOK
  <2>10. Loaded' = Loaded \cup {d}
    BY <2>8, <2>9, <2>4 DEF Loaded
  <2>11. \A e \in Databases : path[e] \in Nat /\ path[e] # NextPath
    <3>1. SUFFICES ASSUME NEW e \in Databases
                   PROVE  path[e] \in Nat /\ path[e] # NextPath
      OBVIOUS
    <3>2. path[e] \in Nat
      BY PathFacts DEF SvTypeOK, Paths
    <3>3. path[e] <= Cardinality(Loaded)
      BY DEF ServerSound
    <3> QED
      BY <2>1, <2>2, <3>2, <3>3
  <2>12. SvTypeOK'
    BY <1>1, <2>1, <2>8 DEF SvTypeOK
  <2>13. \A e \in Databases : path'[e] <= Cardinality(Loaded')
    BY <2>1, <2>2, <2>5, <2>9, <2>10, <2>11 DEF ServerSound
  <2>14. \A e, f \in Databases : path'[e] = path'[f] /\ path'[e] # 0 => e = f
    BY <2>9, <2>11 DEF ServerSound
  <2>15. path'[Default] = 1
    BY <1>2, <2>3, <2>9, DefaultAssumption
  <2>16. ServerSound'
    BY <1>1, <2>13, <2>14, <2>15 DEF ServerSound
  <2> QED
    BY <1>4, <2>8, <2>9, <2>12, <2>15, <2>16
<1> QED
  BY <1>3, <1>4

(* The only database that can be at a path a database has is that one.       *)
LEMMA ObjectAtPath ==
    ASSUME SvTypeOK, ServerSound, NEW d \in Databases, path[d] # NoPath
    PROVE  ObjectAt(path[d]) = {d}
BY DEF ObjectAt, ServerSound

-----------------------------------------------------------------------------
(* The daemon.                                                               *)

LEMMA LessOneFacts ==
    \A n \in Nat : LessOne(n) \in Nat
BY DEF LessOne

LEMMA GoesFacts ==
    ASSUME SvTypeOK, ServerSound, ServerGoes
    PROVE  /\ SvTypeOK' /\ ServerSound'
           /\ up /\ ~ up' /\ exits' = exits + 1
           /\ path' = Unloaded /\ listed' = Unlisted
<1>1. up /\ up' = FALSE /\ exits' = exits + 1 /\ exits < MaxExits
      /\ path' = Unloaded /\ listed' = Unlisted /\ counted' = Uncounted
  BY DEF ServerGoes
<1>2. exits' \in 0..MaxExits
  BY <1>1, MaxExitsAssumption DEF SvTypeOK
<1>3. SvTypeOK'
  BY <1>1, <1>2 DEF SvTypeOK, Unloaded, Unlisted, Uncounted
<1>4. \A d \in Databases : path'[d] = 0
  BY <1>1 DEF Unloaded, NoPath
<1>5. Loaded' \subseteq Databases /\ Cardinality(Loaded') \in Nat
  BY DefaultAssumption, FS_Subset, FS_CardinalityType DEF Loaded
<1> QED
  BY <1>1, <1>3, <1>4, <1>5 DEF ServerSound, NoPath

LEMMA StartsFacts ==
    ASSUME SvTypeOK, ServerSound, ServerStarts
    PROVE  /\ SvTypeOK' /\ ServerSound'
           /\ ~ up /\ up' /\ UNCHANGED <<listed, counted, exits>>
           /\ path = Unloaded
<1>1. ~ up /\ up' /\ path' = AtStart /\ UNCHANGED <<listed, counted, exits>>
  BY DEF ServerStarts
<1>2. path = Unloaded
  BY <1>1 DEF ServerSound
<1>3. \A d \in Databases : path'[d] = IF d = Default THEN 1 ELSE 0
  BY <1>1, DefaultAssumption DEF AtStart, Unloaded, NoPath
<1>4. SvTypeOK'
  BY <1>1, PathFacts, DefaultAssumption DEF SvTypeOK, AtStart, Unloaded
<1>5. Loaded' = {Default}
  BY <1>3, DefaultAssumption DEF Loaded, NoPath
<1>6. Cardinality(Loaded') = 1
  BY <1>5, FS_Singleton
<1> QED
  BY <1>1, <1>2, <1>3, <1>4, <1>6, DefaultAssumption DEF ServerSound, NoPath

LEMMA AddNotifyFacts ==
    ASSUME SvTypeOK, ServerSound, NEW e \in Databases, NEW c \in Clients,
           NEW s \in Sections, AddNotify(e, c, s)
    PROVE  /\ SvTypeOK' /\ ServerSound'
           /\ UNCHANGED <<up, path, exits>>
           /\ listed'[e][c][s] = listed[e][c][s] + 1
           /\ \A d \in Databases, b \in Clients, t \in Sections :
                 ~ (d = e /\ b = c /\ t = s) => listed'[d][b][t] = listed[d][b][t]
           /\ counted'[e][c] = counted[e][c] + 1
           /\ \A d \in Databases, b \in Clients :
                 ~ (d = e /\ b = c) => counted'[d][b] = counted[d][b]
<1> USE DEF SvTypeOK
<1>1. /\ up /\ UNCHANGED <<up, path, exits>>
      /\ listed' = [listed EXCEPT ![e][c][s] = @ + 1]
      /\ counted' = [counted EXCEPT ![e][c] = @ + 1]
  BY DEF AddNotify
<1>2. SvTypeOK'
  BY <1>1
<1>3. ServerSound'
  BY <1>1 DEF ServerSound, Loaded
<1> QED
  BY <1>1, <1>2, <1>3

LEMMA RemoveNotifyFacts ==
    ASSUME SvTypeOK, ServerSound, NEW e \in Databases, NEW c \in Clients,
           NEW s \in Sections, RemoveNotify(e, c, s)
    PROVE  /\ SvTypeOK' /\ ServerSound'
           /\ UNCHANGED <<up, path, exits>>
           /\ listed'[e][c][s] = LessOne(listed[e][c][s])
           /\ \A d \in Databases, b \in Clients, t \in Sections :
                 ~ (d = e /\ b = c /\ t = s) => listed'[d][b][t] = listed[d][b][t]
           /\ counted'[e][c] = LessOne(counted[e][c])
           /\ \A d \in Databases, b \in Clients :
                 ~ (d = e /\ b = c) => counted'[d][b] = counted[d][b]
<1> USE DEF SvTypeOK
<1>1. /\ up /\ UNCHANGED <<up, path, exits>>
      /\ listed' = [listed EXCEPT ![e][c][s] = LessOne(@)]
      /\ counted' = [counted EXCEPT ![e][c] = LessOne(@)]
  BY DEF RemoveNotify
<1>2. SvTypeOK'
  BY <1>1, LessOneFacts
<1>3. ServerSound'
  BY <1>1 DEF ServerSound, Loaded
<1> QED
  BY <1>1, <1>2, <1>3

LEMMA VanishesFacts ==
    ASSUME SvTypeOK, ServerSound, NEW c \in Clients, ClientVanishes(c)
    PROVE  /\ SvTypeOK' /\ ServerSound'
           /\ UNCHANGED <<up, path, exits>>
           /\ \A d \in Databases, b \in Clients \ {c} :
                 counted'[d][b] = counted[d][b] /\ listed'[d][b] = listed[d][b]
           /\ HearsOf(c) =>
                 \A d \in Databases :
                    /\ counted'[d][c] = 0
                    /\ \A s \in Sections : listed'[d][c][s] = LessOne(listed[d][c][s])
           /\ ~ HearsOf(c) => UNCHANGED <<listed, counted>>
<1> USE DEF SvTypeOK
<1>1. CASE ~ HearsOf(c)
  <2>1. UNCHANGED svvars
    BY <1>1 DEF ClientVanishes, svvars
  <2> QED
    BY <1>1, <2>1 DEF ServerSound, Loaded, svvars
<1>2. CASE HearsOf(c)
  <2>1. up
    BY <1>2 DEF HearsOf, ServerSound, Uncounted
  <2>2. /\ UNCHANGED <<up, path, exits>>
        /\ listed' = [d \in Databases |->
                         [listed[d] EXCEPT ![c] = [s \in Sections |-> LessOne(@[s])]]]
        /\ counted' = [d \in Databases |-> [counted[d] EXCEPT ![c] = 0]]
    BY <1>2 DEF ClientVanishes
  <2>3. SvTypeOK'
    BY <2>2, LessOneFacts
  <2>4. ServerSound'
    BY <2>1, <2>2 DEF ServerSound, Loaded
  <2> QED
    BY <1>2, <2>2, <2>3, <2>4
<1> QED
  BY <1>1, <1>2

-----------------------------------------------------------------------------
(* The total of a program's requests, as MapThenSumSet adds them up: one       *)
(* section after the other, in some order.                                   *)

Pick(s) == CHOOSE x \in s : TRUE
Summing(w, g) == [s \in SUBSET Sections |->
                     IF s = {} THEN 0 ELSE w[Pick(s)] + g[s \ {Pick(s)}]]
SumsOf(w) == CHOOSE g : g = Summing(w, g)
Total(w) == SumsOf(w)[Sections]

(* Induction, as the least number of a set.                                   *)
LEMMA LeastNumber ==
    ASSUME NEW T \in SUBSET Nat, T # {}
    PROVE  \E n \in T : \A m \in T : n <= m
<1>1. IsWellFoundedOn(OpToRel(<, Nat), Nat)
  BY NatLessThanWellFounded
<1>2. \A m, n \in Nat : <<m, n>> \in OpToRel(<, Nat) <=> m < n
  BY DEF OpToRel
<1> DEFINE R == OpToRel(<, Nat)
<1> HIDE DEF R
<1>3. PICK n \in T : \A m \in T : ~ (<<m, n>> \in R)
  BY <1>1, WFMin DEF R
<1>4. \A m \in T : ~ (m < n)
  BY <1>2, <1>3 DEF R
<1> QED
  BY <1>4

LEMMA PickFacts ==
    ASSUME NEW s \in SUBSET Sections, s # {}
    PROVE  /\ Pick(s) \in s /\ s \ {Pick(s)} \in SUBSET Sections
           /\ Cardinality(s) \in Nat \ {0}
           /\ Cardinality(s \ {Pick(s)}) = Cardinality(s) - 1
<1>1. Pick(s) \in s
  BY DEF Pick
<1>2. IsFiniteSet(s)
  BY SectionsAssumption, FS_Subset
<1> QED
  BY <1>1, <1>2, FS_RemoveElement, FS_CardinalityType, FS_EmptySet

(* A function that is right up to a size can be made right for the next.       *)
LEMMA SumsExist ==
    ASSUME NEW w \in [Sections -> Nat]
    PROVE  \E g : g = Summing(w, g)
<1> DEFINE Right(g, n) == \A s \in SUBSET Sections : Cardinality(s) <= n => g[s] = Summing(w, g)[s]
           Fns == [SUBSET Sections -> Nat]
           T == {n \in Nat : ~ \E g \in Fns : Right(g, n)}
<1>0. \A s \in SUBSET Sections : IsFiniteSet(s) /\ Cardinality(s) \in Nat
                                 /\ (Cardinality(s) = 0 <=> s = {})
  BY SectionsAssumption, FS_Subset, FS_CardinalityType, FS_EmptySet
<1>1. 0 \notin T
  <2> DEFINE g == [s \in SUBSET Sections |-> 0]
  <2>1. Right(g, 0)
    BY <1>0 DEF Summing
  <2>2. g \in Fns
    OBVIOUS
  <2> QED
    BY <2>1, <2>2
<1>2. ASSUME NEW n \in Nat, n \notin T PROVE n + 1 \notin T
  <2>1. PICK g \in Fns : Right(g, n)
    BY <1>2
  <2> DEFINE h == [s \in SUBSET Sections |-> IF Cardinality(s) <= n THEN g[s] ELSE Summing(w, g)[s]]
  <2>2. h \in Fns
    <3>1. ASSUME NEW s \in SUBSET Sections PROVE Summing(w, g)[s] \in Nat
      <4>1. CASE s = {}
        BY <4>1 DEF Summing
      <4>2. CASE s # {}
        <5>1. Pick(s) \in Sections /\ s \ {Pick(s)} \in SUBSET Sections
          BY <4>2, PickFacts
        <5>2. w[Pick(s)] \in Nat /\ g[s \ {Pick(s)}] \in Nat
          BY <5>1
        <5> QED
          BY <4>2, <5>2 DEF Summing
      <4> QED
        BY <4>1, <4>2
    <3> QED
      BY <3>1
  <2>3. ASSUME NEW s \in SUBSET Sections, Cardinality(s) <= n + 1
        PROVE  h[s] = Summing(w, h)[s]
    <3>1. h[s] = Summing(w, g)[s]
      BY <2>1, <2>3
    <3>2. CASE s = {}
      BY <3>1, <3>2 DEF Summing
    <3>3. CASE s # {}
      <4>1. /\ s \ {Pick(s)} \in SUBSET Sections
            /\ Cardinality(s \ {Pick(s)}) <= n
        BY <2>3, <3>3, PickFacts
      <4>2. h[s \ {Pick(s)}] = g[s \ {Pick(s)}]
        BY <4>1
      <4> QED
        BY <3>1, <3>3, <4>2 DEF Summing
    <3> QED
      BY <3>2, <3>3
  <2>4. Right(h, n + 1)
    BY <2>3
  <2> HIDE DEF h
  <2> QED
    BY <2>2, <2>4
<1>3. T = {}
  <2>1. SUFFICES ASSUME T # {} PROVE FALSE
    OBVIOUS
  <2>2. T \subseteq Nat
    OBVIOUS
  <2> HIDE DEF T
  <2>3. PICK n \in T : \A m \in T : n <= m
    BY <2>1, <2>2, LeastNumber
  <2>4. n \in Nat /\ n # 0 /\ n - 1 \in Nat
    BY <1>1, <2>2, <2>3
  <2>5. n - 1 \notin T
    BY <2>2, <2>3, <2>4
  <2> QED
    BY <1>2, <2>3, <2>4, <2>5
<1>4. PICK g \in Fns : Right(g, Cardinality(Sections))
  BY <1>0, <1>3
<1>5. \A s \in SUBSET Sections : Cardinality(s) <= Cardinality(Sections)
  BY SectionsAssumption, FS_Subset
<1>6. g = Summing(w, g)
  <2>1. \A s \in SUBSET Sections : g[s] = Summing(w, g)[s]
    BY <1>4, <1>5
  <2> QED
    BY <2>1 DEF Summing
<1> QED
  BY <1>6

(* So the recursion of MapThenSumSet defines what it says.                   *)
LEMMA SumsEquation ==
    ASSUME NEW w \in [Sections -> Nat]
    PROVE  /\ SumsOf(w)[{}] = 0
           /\ \A s \in SUBSET Sections : s # {} =>
                 SumsOf(w)[s] = w[Pick(s)] + SumsOf(w)[s \ {Pick(s)}]
<1>1. SumsOf(w) = Summing(w, SumsOf(w))
  BY SumsExist, Zenon DEF SumsOf
<1> DEFINE g == SumsOf(w)
<1>2. g = Summing(w, g)
  BY <1>1
<1> HIDE DEF g
<1>3. \A s \in SUBSET Sections : g[s] = IF s = {} THEN 0 ELSE w[Pick(s)] + g[s \ {Pick(s)}]
  BY <1>2 DEF Summing
<1> QED
  BY <1>3 DEF g

(* A property that fails of a set of sections fails of one, and not of that    *)
(* without its first element.                                                *)
LEMMA LeastSections ==
    ASSUME NEW B \in SUBSET SUBSET Sections, B # {}
    PROVE  \E s \in B : s = {} \/ s \ {Pick(s)} \notin B
<1> DEFINE T == {Cardinality(s) : s \in B}
<1>1. T # {}
  OBVIOUS
<1>2. T \subseteq Nat
  BY SectionsAssumption, FS_Subset, FS_CardinalityType
<1>3. PICK n \in T : \A m \in T : n <= m
  BY <1>1, <1>2, LeastNumber
<1>4. PICK s \in B : Cardinality(s) = n
  OBVIOUS
<1>5. ASSUME s # {}, s \ {Pick(s)} \in B PROVE FALSE
  <2>1. n \in Nat /\ Cardinality(s \ {Pick(s)}) = n - 1
    BY <1>2, <1>4, <1>5, PickFacts
  <2>2. n <= n - 1
    BY <1>3, <1>5, <2>1
  <2> QED
    BY <2>1, <2>2
<1> QED
  BY <1>4, <1>5

LEMMA TotalTyped ==
    ASSUME NEW w \in [Sections -> Nat]
    PROVE  \A s \in SUBSET Sections : SumsOf(w)[s] \in Nat
<1> DEFINE B == {s \in SUBSET Sections : SumsOf(w)[s] \notin Nat}
<1>1. SUFFICES ASSUME B # {} PROVE FALSE
  OBVIOUS
<1>2. PICK s \in B : s = {} \/ s \ {Pick(s)} \notin B
  BY <1>1, LeastSections
<1>3. CASE s = {}
  BY <1>3, SumsEquation
<1>4. CASE s # {}
  <2>1. s \ {Pick(s)} \in SUBSET Sections /\ Pick(s) \in Sections
    BY <1>4, PickFacts
  <2>2. SumsOf(w)[s \ {Pick(s)}] \in Nat /\ w[Pick(s)] \in Nat
    BY <1>2, <1>4, <2>1
  <2>3. SumsOf(w)[s] = w[Pick(s)] + SumsOf(w)[s \ {Pick(s)}]
    BY <1>4, SumsEquation
  <2> QED
    BY <2>2, <2>3
<1> QED
  BY <1>3, <1>4

(* One entry changes.                                                        *)
LEMMA TotalChanges ==
    ASSUME NEW w \in [Sections -> Nat], NEW v \in [Sections -> Nat],
           NEW a \in Sections, \A t \in Sections \ {a} : v[t] = w[t]
    PROVE  /\ Total(w) \in Nat /\ Total(v) \in Nat
           /\ Total(v) + w[a] = Total(w) + v[a]
<1> DEFINE V(s) == SumsOf(v)[s]
           W(s) == SumsOf(w)[s]
           P(s) == IF a \in s THEN V(s) + w[a] = W(s) + v[a] ELSE V(s) = W(s)
           B == {s \in SUBSET Sections : ~ P(s)}
<1>1. \A s \in SUBSET Sections : V(s) \in Nat /\ W(s) \in Nat
  BY TotalTyped
<1>2. /\ V({}) = 0 /\ W({}) = 0
      /\ \A s \in SUBSET Sections : s # {} =>
            V(s) = v[Pick(s)] + V(s \ {Pick(s)}) /\ W(s) = w[Pick(s)] + W(s \ {Pick(s)})
  BY SumsEquation
<1> HIDE DEF V, W
<1>3. ASSUME B # {} PROVE FALSE
  <2>1. PICK s \in B : s = {} \/ s \ {Pick(s)} \notin B
    BY <1>3, LeastSections
  <2>2. s # {}
    BY <1>2, <2>1
  <2> DEFINE p == Pick(s)
             r == s \ {p}
  <2>3. p \in s /\ p \in Sections /\ r \in SUBSET Sections
    BY <2>2, PickFacts
  <2>4. /\ V(s) = v[p] + V(r) /\ W(s) = w[p] + W(r)
        /\ V(r) \in Nat /\ W(r) \in Nat /\ v[p] \in Nat /\ w[p] \in Nat
        /\ v[a] \in Nat /\ w[a] \in Nat
    BY <1>1, <1>2, <2>2, <2>3
  <2>5. P(r)
    BY <2>1, <2>2, <2>3
  <2>6. CASE p = a
    BY <2>1, <2>3, <2>4, <2>5, <2>6
  <2>7. CASE p # a
    <3>1. v[p] = w[p] /\ (a \in s <=> a \in r)
      BY <2>3, <2>7
    <3> QED
      BY <2>1, <2>4, <2>5, <3>1
  <2> QED
    BY <2>6, <2>7
<1>4. P(Sections)
  BY <1>3
<1> QED
  BY <1>1, <1>4 DEF Total, V, W

(* Nothing is listed exactly if nothing is counted.                          *)
LEMMA TotalZero ==
    ASSUME NEW w \in [Sections -> Nat]
    PROVE  Total(w) = 0 <=> \A t \in Sections : w[t] = 0
<1> DEFINE W(s) == SumsOf(w)[s]
           B == {s \in SUBSET Sections : ~ (W(s) = 0 <=> \A t \in s : w[t] = 0)}
<1>1. \A s \in SUBSET Sections : W(s) \in Nat
  BY TotalTyped
<1>2. /\ W({}) = 0
      /\ \A s \in SUBSET Sections : s # {} => W(s) = w[Pick(s)] + W(s \ {Pick(s)})
  BY SumsEquation
<1> HIDE DEF W
<1>3. ASSUME B # {} PROVE FALSE
  <2>1. PICK s \in B : s = {} \/ s \ {Pick(s)} \notin B
    BY <1>3, LeastSections
  <2>2. s # {}
    BY <1>2, <2>1
  <2> DEFINE p == Pick(s)
             r == s \ {p}
  <2>3. p \in s /\ p \in Sections /\ r \in SUBSET Sections
    BY <2>2, PickFacts
  <2>4. W(s) = w[p] + W(r) /\ W(r) \in Nat /\ w[p] \in Nat
    BY <1>1, <1>2, <2>2, <2>3
  <2>5. W(r) = 0 <=> \A t \in r : w[t] = 0
    BY <2>1, <2>2, <2>3
  <2>6. W(s) = 0 <=> w[p] = 0 /\ W(r) = 0
    BY <2>4
  <2>7. s = r \cup {p}
    BY <2>3
  <2> HIDE DEF p, r
  <2> QED
    BY <2>1, <2>5, <2>6, <2>7
<1> QED
  BY <1>3 DEF Total, W

(* What gconfd counts for a program is the total of what it has listed.       *)
LEMMA CountsMean ==
    CountsAgree <=> \A d \in Databases, c \in Clients : counted[d][c] = Total(listed[d][c])
BY DEF CountsAgree, MapThenSumSet, MapThenFoldSet, Total, SumsOf, Summing, Pick

-----------------------------------------------------------------------------
(* The table of engines of a program.                                        *)

TableTyped ==
    /\ database \in [Clients -> [Databases -> Paths \cup {NoPath}]]
    /\ known \in [Clients -> [Paths -> SUBSET Databases]]

(* An engine gets a path.  Another that had it is left without one.           *)
LEMMA AttachFacts ==
    ASSUME TableTyped, NEW c \in Clients, NEW d \in Databases, NEW p \in Paths,
           TableSound(c), Attach(c, d, p)
    PROVE  /\ TableTyped' /\ TableSound(c)'
           /\ database'[c][d] = p
           /\ \A e \in Databases \ {d} :
                 database'[c][e] = IF database[c][e] = p THEN NoPath ELSE database[c][e]
           /\ \A b \in Clients \ {c} : database'[b] = database[b] /\ known'[b] = known[b]
<1> USE DEF TableTyped
<1>1. database' = [database EXCEPT ![c] =
                      [e \in Databases |-> IF e = d THEN p
                                           ELSE IF e \in known[c][p] THEN NoPath
                                           ELSE database[c][e]]]
  BY DEF Attach
<1>2. known' = [known EXCEPT ![c] =
                   [q \in Paths |-> IF q = p THEN {d} ELSE @[q] \ {d}]]
  BY DEF Attach
<1>3. TableTyped'
  BY <1>1, <1>2
<1>4. /\ database'[c][d] = p
      /\ \A e \in Databases \ {d} :
            database'[c][e] = IF database[c][e] = p THEN NoPath ELSE database[c][e]
  BY <1>1 DEF TableSound
<1>5. \A q \in Paths : known'[c][q] = IF q = p THEN {d} ELSE known[c][q] \ {d}
  BY <1>2
<1>6. ASSUME NEW e \in Databases, NEW q \in Paths
      PROVE  e \in known'[c][q] <=> database'[c][e] = q
  <2>1. q # NoPath /\ (e \in known[c][q] <=> database[c][e] = q)
    BY PathFacts DEF TableSound
  <2>2. CASE e = d
    BY <1>4, <1>5, <2>2
  <2>3. CASE e # d
    BY <1>4, <1>5, <2>1, <2>3
  <2> QED
    BY <2>2, <2>3
<1>7. TableSound(c)'
  BY <1>6 DEF TableSound
<1> QED
  BY <1>1, <1>2, <1>3, <1>4, <1>7

(* An engine, and any other under its path, loses it.                        *)
LEMMA DetachFacts ==
    ASSUME TableTyped, NEW c \in Clients, NEW d \in Databases,
           database[c][d] # NoPath, TableSound(c), Detach(c, d)
    PROVE  /\ TableTyped' /\ TableSound(c)'
           /\ \A e \in Databases :
                 database'[c][e] = IF database[c][e] = database[c][d] THEN NoPath
                                   ELSE database[c][e]
           /\ \A b \in Clients \ {c} : database'[b] = database[b] /\ known'[b] = known[b]
<1> USE DEF TableTyped
<1> DEFINE p == database[c][d]
<1>1. p \in Paths
  OBVIOUS
<1>2. /\ database' = [database EXCEPT ![c] =
                      [e \in Databases |-> IF e \in known[c][p] THEN NoPath
                                           ELSE database[c][e]]]
      /\ known' = [known EXCEPT ![c][p] = {}]
  BY DEF Detach
<1>3. TableTyped'
  BY <1>1, <1>2
<1>4. \A e \in Databases :
         database'[c][e] = IF database[c][e] = p THEN NoPath ELSE database[c][e]
  BY <1>1, <1>2 DEF TableSound
<1>5. \A q \in Paths : known'[c][q] = IF q = p THEN {} ELSE known[c][q]
  BY <1>1, <1>2
<1>6. TableSound(c)'
  BY <1>1, <1>4, <1>5, PathFacts DEF TableSound
<1> QED
  BY <1>2, <1>3, <1>4, <1>6

-----------------------------------------------------------------------------
(* Steps of a program leave the others alone.                                *)

Step(c) == Api(c) \/ Dispatch(c) \/ CallStep(c)

(* What another program sees of a step: paths that are known stay.            *)
Bystander(b) ==
    /\ alive'[b] = alive[b] /\ queue'[b] = queue[b] /\ running'[b] = running[b]
    /\ reconnect'[b] = reconnect[b] /\ opened'[b] = opened[b]
    /\ database'[b] = database[b] /\ known'[b] = known[b]
    /\ held'[b] = held[b] /\ op'[b] = op[b]

(* Every step is one of these for the daemon.                                *)
ServerStep(c) ==
    \/ UNCHANGED svvars
    \/ \E d \in Databases : GetDatabase(d)
    \/ \E d \in Databases, s \in Sections : AddNotify(d, c, s) \/ RemoveNotify(d, c, s)
    \/ ClientVanishes(c)

(* A step of c, and the rest of it: what each action does to the variables     *)
(* of the programs other than c.                                             *)
LEMMA StepsOfOne ==
    ASSUME TypeOK, NEW c \in Clients, CallSound(c), TableSound(c), Step(c)
    PROVE  ServerStep(c) /\ \A b \in Clients \ {c} : Bystander(b)
<1> USE DEF TypeOK, Bystander
<1>0. TableTyped
  BY DEF TableTyped
<1>1. CASE Api(c)
  <2>1. CASE OpenDefault(c)
    BY <2>1 DEF OpenDefault, ServerStep, svvars
  <2>2. ASSUME NEW d \in Databases, OpenEngine(c, d)
        PROVE  UNCHANGED svvars /\ \A b \in Clients \ {c} : Bystander(b)
    BY <2>2 DEF OpenEngine, Start
  <2>3. ASSUME NEW d \in Databases, Use(c, d)
        PROVE  UNCHANGED svvars /\ \A b \in Clients \ {c} : Bystander(b)
    BY <2>3 DEF Use, Start
  <2>4. ASSUME NEW d \in Databases, Unref(c, d)
        PROVE  UNCHANGED svvars /\ \A b \in Clients \ {c} : Bystander(b)
    <3>1. CASE database[c][d] = NoPath
      BY <2>4, <3>1 DEF Unref
    <3>2. CASE database[c][d] # NoPath
      <4>1. Detach(c, d)
        BY <2>4, <3>2 DEF Unref
      <4>2. \A b \in Clients \ {c} : database'[b] = database[b] /\ known'[b] = known[b]
        BY <1>0, <3>2, <4>1, DetachFacts
      <4> QED
        BY <2>4, <4>2 DEF Unref
    <3> QED
      BY <3>1, <3>2
  <2>5. ASSUME NEW d \in Databases, NEW s \in Sections, NotifyAdd(c, d, s)
        PROVE  UNCHANGED svvars /\ \A b \in Clients \ {c} : Bystander(b)
    BY <2>5 DEF NotifyAdd, Start
  <2>6. ASSUME NEW d \in Databases, NEW s \in Sections, NotifyRemove(c, d, s)
        PROVE  UNCHANGED svvars /\ \A b \in Clients \ {c} : Bystander(b)
    BY <2>6 DEF NotifyRemove, Start
  <2>7. CASE Exit(c)
    BY <2>7 DEF Exit, ServerStep
  <2> QED
    BY <1>1, <2>1, <2>2, <2>3, <2>4, <2>5, <2>6, <2>7 DEF Api, ServerStep
<1>2. CASE Dispatch(c)
  <2>1. CASE NoticeGone(c)
    BY <2>1 DEF NoticeGone, ServerStep
  <2>2. CASE NoticeBack(c)
    BY <2>2 DEF NoticeBack, Reinitialize, ServerStep
  <2> QED
    BY <1>2, <2>1, <2>2 DEF Dispatch
<1>3. CASE CallStep(c)
  <2>1. CASE Ensure(c)
    BY <2>1 DEF Ensure, Reinitialize, Goto, ServerStep
  <2>2. CASE ResetDone(c)
    BY <2>2 DEF ResetDone, Goto, ServerStep
  <2>3. CASE ReaddDone(c)
    BY <2>3 DEF ReaddDone, Finish, Goto, ServerStep
  <2>4. CASE Obtain(c)
    <3>1. op[c].db \in Databases
      BY DEF Op
    <3>2. GetDatabase(op[c].db) /\ Attach(c, op[c].db, path'[op[c].db])
      BY <2>4 DEF Obtain
    <3>3. \A b \in Clients \ {c} : database'[b] = database[b] /\ known'[b] = known[b]
      BY <3>2 DEF Attach
    <3> QED
      BY <2>4, <3>1, <3>2, <3>3 DEF Obtain, Finish, Goto, ServerStep
  <2>5. CASE Send(c)
    <3>1. UNCHANGED <<alive, queue, running, reconnect, opened, database, known, held>>
          /\ op' = [op EXCEPT ![c] = Idle]
      BY <2>5 DEF Send, Finish
    <3>2. PICK e \in Databases :
             CASE op[c].call = "add" -> AddNotify(e, c, op[c].section)
               [] op[c].call = "remove" -> RemoveNotify(e, c, op[c].section)
               [] OTHER -> UNCHANGED svvars
      BY <2>5 DEF Send, ObjectAt
    <3>3. ServerStep(c)
      <4>1. CASE op[c].call \in {"add", "remove"}
        <5>1. op[c].section \in Sections
          BY <4>1 DEF CallSound
        <5> QED
          BY <3>2, <4>1, <5>1 DEF ServerStep
      <4>2. CASE op[c].call \notin {"add", "remove"}
        BY <3>2, <4>2 DEF ServerStep
      <4> QED
        BY <4>1, <4>2
    <3> QED
      BY <3>1, <3>3
  <2>6. CASE CallFails(c)
    BY <2>6 DEF CallFails, Finish, ServerStep
  <2>7. ASSUME NEW d \in Databases, Reset(c, d)
        PROVE  ServerStep(c) /\ \A b \in Clients \ {c} : Bystander(b)
    BY <2>7 DEF Reset, Goto, Attach, ServerStep, svvars
  <2>8. ASSUME NEW d \in Databases, ResetFails(c, d)
        PROVE  ServerStep(c) /\ \A b \in Clients \ {c} : Bystander(b)
    BY <2>8 DEF ResetFails, Detach, ServerStep
  <2>9. ASSUME NEW d \in Databases, ReaddObtains(c, d)
        PROVE  ServerStep(c) /\ \A b \in Clients \ {c} : Bystander(b)
    BY <2>9 DEF ReaddObtains, Attach, ServerStep
  <2>10. ASSUME NEW d \in Databases, NEW s \in Sections, Readd(c, d, s)
         PROVE  ServerStep(c) /\ \A b \in Clients \ {c} : Bystander(b)
    BY <2>10 DEF Readd, ObjectAt, ServerStep
  <2>11. ASSUME NEW d \in Databases, NEW s \in Sections, ReaddFails(c, d, s)
         PROVE  ServerStep(c) /\ \A b \in Clients \ {c} : Bystander(b)
    BY <2>11 DEF ReaddFails, ServerStep
  <2> QED
    BY <1>3, <2>1, <2>2, <2>3, <2>4, <2>5, <2>6, <2>7, <2>8, <2>9, <2>10, <2>11 DEF CallStep
<1> QED
  BY <1>1, <1>2, <1>3 DEF Step

LEMMA ServerStepFacts ==
    ASSUME SvTypeOK, ServerSound, NEW c \in Clients, ServerStep(c)
    PROVE  /\ SvTypeOK' /\ ServerSound'
           /\ UNCHANGED <<up, exits>>
           /\ \A d \in Databases : path[d] # NoPath => path'[d] = path[d]
           /\ \A d \in Databases, b \in Clients \ {c} :
                 counted'[d][b] = counted[d][b] /\ listed'[d][b] = listed[d][b]
<1>1. CASE UNCHANGED svvars
  BY <1>1 DEF svvars, SvTypeOK, ServerSound, Loaded
<1>2. ASSUME NEW d \in Databases, GetDatabase(d)
      PROVE  /\ SvTypeOK' /\ ServerSound'
             /\ UNCHANGED <<up, exits, listed, counted>>
             /\ \A e \in Databases : path[e] # NoPath => path'[e] = path[e]
  BY <1>2, GetDatabaseFacts DEF GetDatabase
<1>3. ASSUME NEW d \in Databases, NEW s \in Sections, AddNotify(d, c, s) \/ RemoveNotify(d, c, s)
      PROVE  /\ SvTypeOK' /\ ServerSound'
             /\ UNCHANGED <<up, exits, path>>
             /\ \A e \in Databases, b \in Clients \ {c} :
                 counted'[e][b] = counted[e][b] /\ listed'[e][b] = listed[e][b]
  <2>1. SvTypeOK' /\ ServerSound' /\ UNCHANGED <<up, exits, path>>
    BY <1>3, AddNotifyFacts, RemoveNotifyFacts
  <2>2. CASE AddNotify(d, c, s)
    BY <2>1, <2>2 DEF AddNotify, SvTypeOK
  <2>3. CASE RemoveNotify(d, c, s)
    BY <2>1, <2>3 DEF RemoveNotify, SvTypeOK
  <2> QED
    BY <1>3, <2>1, <2>2, <2>3
<1>4. CASE ClientVanishes(c)
  BY <1>4, VanishesFacts
<1> QED
  BY <1>1, <1>2, <1>3, <1>4 DEF ServerStep

(* A program that does nothing, and does not hear of a signal, stays as it is. *)
LEMMA CurrentKept ==
    ASSUME NEW c \in Clients, Current(c), database'[c] = database[c],
           \A d \in Databases : path[d] # NoPath => path'[d] = path[d],
           alive'[c] => alive[c], Missed(c) => Missed(c)',
           op[c].todo \subseteq op'[c].todo
    PROVE  Current(c)'
BY DEF Current

LEMMA BystanderKeeps ==
    ASSUME NEW b \in Clients, Bystander(b), up' = up,
           \A d \in Databases : path[d] # NoPath => path'[d] = path[d],
           CallSound(b), TableSound(b), Current(b), BackMeansUp(b)
    PROVE  CallSound(b)' /\ TableSound(b)' /\ Current(b)' /\ BackMeansUp(b)'
<1> USE DEF Bystander
<1>1. CallSound(b)'
  BY DEF CallSound
<1>2. TableSound(b)'
  BY DEF TableSound
<1>3. Current(b)'
  BY CurrentKept DEF Missed
<1>4. BackMeansUp(b)'
  BY DEF BackMeansUp
<1> QED
  BY <1>1, <1>2, <1>3, <1>4

-----------------------------------------------------------------------------
(* A program's own steps.                                                    *)

LEMMA OpFacts ==
    /\ NoAdds \in [Databases -> [Sections -> Nat]]
    /\ Idle \in Op
    /\ Idle.todo = {} /\ Idle.adds = NoAdds /\ Idle.call = "none" /\ Idle.pc = "idle"
    /\ Idle.db = Default /\ Idle.section = NoSection
BY DefaultAssumption DEF NoAdds, Idle, Op, Calls

(* What a step of c has to establish, besides what the daemon sees to.        *)
OwnSound(c) == CallSound(c) /\ TableSound(c) /\ Current(c) /\ BackMeansUp(c)

(* A step that leaves the daemon, the queue and the table alone.             *)
LEMMA QuietStep ==
    ASSUME NEW c \in Clients, OwnSound(c),
           UNCHANGED <<svvars, alive, queue, reconnect, database, known>>,
           op[c].todo \subseteq op'[c].todo
    PROVE  TableSound(c)' /\ Current(c)' /\ BackMeansUp(c)'
<1> USE DEF OwnSound
<1>1. TableSound(c)'
  BY DEF TableSound
<1>2. Current(c)'
  BY CurrentKept DEF Missed, svvars
<1>3. BackMeansUp(c)'
  BY DEF BackMeansUp, svvars
<1> QED
  BY <1>1, <1>2, <1>3

LEMMA StartStep ==
    ASSUME TypeOK, NEW c \in Clients, OwnSound(c), NEW d \in Opens[c],
           NEW call \in Calls \ {"none"}, NEW s \in Sections \cup {NoSection},
           Start(c, call, d, s), opened' \in [Clients -> SUBSET Databases],
           held' \in [Clients -> [Databases -> [Sections -> Nat]]],
           opened'[c] \subseteq Opens[c],
           call \in {"add", "remove"} => s \in Sections,
           call = "add" => held'[c][d][s] > 0
    PROVE  TypeOK' /\ OwnSound(c)'
<1> USE DEF TypeOK, OwnSound
<1>1. /\ alive[c] /\ op[c] = Idle
      /\ UNCHANGED <<svvars, alive, queue, running, reconnect, database, known>>
      /\ op' = [op EXCEPT ![c].pc = "ensure", ![c].call = call,
                          ![c].db = d, ![c].section = s]
  BY DEF Start
<1>2. d \in Databases
  BY OpensAssumption
<1>3. op'[c] = [Idle EXCEPT !.pc = "ensure", !.call = call, !.db = d, !.section = s]
  BY <1>1
<1>4. op'[c] \in Op
  BY <1>2, <1>3, OpFacts DEF Op, Idle
<1>5. TypeOK'
  BY <1>1, <1>4 DEF svvars, SvTypeOK
<1>6. CallSound(c)'
  BY <1>1, <1>3, OpFacts DEF CallSound, Calls, Idle
<1>7. TableSound(c)' /\ Current(c)' /\ BackMeansUp(c)'
  BY <1>1, <1>3, QuietStep DEF Idle
<1> QED
  BY <1>5, <1>6, <1>7

LEMMA ApiKeeps ==
    ASSUME EngineInv, NEW c \in Clients, Api(c)
    PROVE  TypeOK' /\ OwnSound(c)'
<1> USE DEF TypeOK, EngineInv
<1>0. /\ OwnSound(c) /\ CallSound(c) /\ TableTyped
      /\ opened[c] \subseteq Opens[c] /\ Opens[c] \subseteq Databases
  BY OpensAssumption DEF OwnSound, CallSound, TableTyped
<1>1. CASE OpenDefault(c)
  <2>1. /\ UNCHANGED <<svvars, alive, queue, running, reconnect, database, known, held, op>>
        /\ opened' = [opened EXCEPT ![c] = @ \cup {Default}] /\ Default \in Opens[c]
    BY <1>1 DEF OpenDefault
  <2>2. TypeOK'
    BY <2>1, DefaultAssumption DEF svvars, SvTypeOK
  <2>3. CallSound(c)'
    BY <1>0, <2>1 DEF CallSound
  <2> QED
    BY <1>0, <2>1, <2>2, <2>3, QuietStep DEF OwnSound
<1>2. ASSUME NEW d \in Databases, OpenEngine(c, d) PROVE TypeOK' /\ OwnSound(c)'
  <2>1. /\ opened' = [opened EXCEPT ![c] = @ \cup {d}] /\ held' = held
        /\ Start(c, "open", d, NoSection) /\ d \in Opens[c]
    BY <1>2 DEF OpenEngine
  <2>2. opened' \in [Clients -> SUBSET Databases] /\ opened'[c] \subseteq Opens[c]
    BY <1>0, <2>1
  <2> QED
    BY <1>0, <2>1, <2>2, StartStep DEF Calls
<1>3. ASSUME NEW d \in Databases, Use(c, d) PROVE TypeOK' /\ OwnSound(c)'
  <2>1. Start(c, "use", d, NoSection) /\ d \in Opens[c] /\ UNCHANGED <<opened, held>>
    BY <1>0, <1>3 DEF Use
  <2> QED
    BY <1>0, <2>1, StartStep DEF Calls
<1>4. ASSUME NEW d \in Databases, Unref(c, d) PROVE TypeOK' /\ OwnSound(c)'
  <2>1. /\ UNCHANGED <<svvars, alive, queue, running, reconnect, op>>
        /\ opened' = [opened EXCEPT ![c] = @ \ {d}]
        /\ held' = [held EXCEPT ![c][d] = NoAdds[d]]
        /\ alive[c] /\ op[c] = Idle
    BY <1>4 DEF Unref
  <2>2. /\ TableTyped' /\ TableSound(c)'
        /\ \A e \in Databases : database'[c][e] \in {database[c][e], NoPath}
    <3>1. CASE database[c][d] = NoPath
      <4>1. UNCHANGED <<database, known>>
        BY <1>4, <3>1 DEF Unref
      <4> QED
        BY <1>0, <4>1 DEF TableTyped, TableSound, OwnSound
    <3>2. CASE database[c][d] # NoPath
      BY <1>0, <1>4, <3>2, DetachFacts DEF Unref, OwnSound
    <3> QED
      BY <3>1, <3>2
  <2>3. TypeOK'
    BY <2>1, <2>2, OpFacts DEF svvars, SvTypeOK, TableTyped
  <2>4. CallSound(c)'
    BY <1>0, <2>1, <2>2, OpFacts DEF CallSound
  <2>5. Current(c)'
    BY <1>0, <2>1, <2>2 DEF Current, Missed, OwnSound, svvars
  <2>6. BackMeansUp(c)'
    BY <1>0, <2>1 DEF BackMeansUp, OwnSound, svvars
  <2> QED
    BY <2>2, <2>3, <2>4, <2>5, <2>6 DEF OwnSound
<1>5. ASSUME NEW d \in Databases, NEW s \in Sections, NotifyAdd(c, d, s)
      PROVE  TypeOK' /\ OwnSound(c)'
  <2>1. /\ Start(c, "add", d, s) /\ d \in Opens[c] /\ opened' = opened
        /\ held' = [held EXCEPT ![c][d][s] = @ + 1]
    BY <1>0, <1>5 DEF NotifyAdd
  <2>2. held' \in [Clients -> [Databases -> [Sections -> Nat]]] /\ held'[c][d][s] > 0
    BY <2>1
  <2> QED
    BY <1>0, <2>1, <2>2, StartStep DEF Calls
<1>6. ASSUME NEW d \in Databases, NEW s \in Sections, NotifyRemove(c, d, s)
      PROVE  TypeOK' /\ OwnSound(c)'
  <2>1. /\ Start(c, "remove", d, s) /\ d \in Opens[c] /\ opened' = opened
        /\ held' = [held EXCEPT ![c][d][s] = @ - 1] /\ held[c][d][s] > 0
    BY <1>0, <1>6 DEF NotifyRemove
  <2>2. held' \in [Clients -> [Databases -> [Sections -> Nat]]]
    BY <2>1
  <2> QED
    BY <1>0, <2>1, <2>2, StartStep DEF Calls
<1>7. CASE Exit(c)
  <2>1. /\ UNCHANGED <<running, reconnect, opened, database, known, op>>
        /\ alive' = [alive EXCEPT ![c] = FALSE]
        /\ queue' = [queue EXCEPT ![c] = <<>>]
        /\ held' = [held EXCEPT ![c] = NoAdds]
        /\ op[c] = Idle /\ ClientVanishes(c)
    BY <1>7 DEF Exit
  <2>2. SvTypeOK' /\ up' = up
    BY <2>1, VanishesFacts
  <2>3. <<>> \in Seq({"gone", "back"})
    OBVIOUS
  <2>4. TypeOK'
    BY <2>1, <2>2, <2>3, OpFacts
  <2>5. CallSound(c)'
    BY <1>0, <2>1, OpFacts DEF CallSound
  <2>6. TableSound(c)' /\ Current(c)' /\ BackMeansUp(c)'
    BY <1>0, <2>1 DEF TableSound, Current, BackMeansUp, OwnSound
  <2> QED
    BY <2>4, <2>5, <2>6 DEF OwnSound
<1> QED
  BY <1>1, <1>2, <1>3, <1>4, <1>5, <1>6, <1>7 DEF Api

-----------------------------------------------------------------------------
(* Signals, and the stages of a call.                                        *)

LEMMA TailFacts ==
    ASSUME NEW q \in Seq({"gone", "back"}), q # <<>>
    PROVE  /\ Tail(q) \in Seq({"gone", "back"})
           /\ DOMAIN q = 1..Len(q) /\ DOMAIN Tail(q) = 1..(Len(q) - 1)
           /\ Len(q) \in Nat \ {0} /\ Head(q) = q[1]
           /\ \A i \in DOMAIN Tail(q) : i + 1 \in DOMAIN q /\ Tail(q)[i] = q[i + 1]
           /\ \A i \in DOMAIN q : i # 1 => i - 1 \in DOMAIN Tail(q) /\ Tail(q)[i - 1] = q[i]
OBVIOUS

(* Taking a signal from the queue.                                           *)
LEMMA TakeFacts ==
    ASSUME TypeOK, NEW c \in Clients, BackMeansUp(c), queue[c] # <<>>, up' = up,
           queue' = [queue EXCEPT ![c] = Tail(@)]
    PROVE  /\ queue' \in [Clients -> Seq({"gone", "back"})]
           /\ BackMeansUp(c)'
           /\ Head(queue[c]) # "gone" =>
                ((\E i \in DOMAIN queue[c] : queue[c][i] = "gone") <=>
                 (\E i \in DOMAIN queue'[c] : queue'[c][i] = "gone"))
<1> DEFINE q == queue[c]
<1>1. q \in Seq({"gone", "back"}) /\ queue'[c] = Tail(q)
  BY DEF TypeOK
<1>2. queue' \in [Clients -> Seq({"gone", "back"})]
  BY <1>1, TailFacts DEF TypeOK
<1> HIDE DEF q
<1>3. q # <<>>
  BY DEF q
<1>4. BackMeansUp(c)'
  <2>1. ASSUME NEW i \in DOMAIN Tail(q), Tail(q)[i] = "back", ~ up
        PROVE  \E j \in DOMAIN Tail(q) : j > i /\ Tail(q)[j] = "gone"
    <3>1. i + 1 \in DOMAIN q /\ q[i + 1] = "back"
      BY <1>1, <1>3, <2>1, TailFacts
    <3>2. PICK j \in DOMAIN q : j > i + 1 /\ q[j] = "gone"
      BY <2>1, <3>1 DEF BackMeansUp, q
    <3>3. i \in Nat /\ j \in Nat /\ i >= 1
      BY <1>1, <1>3, TailFacts
    <3>4. j - 1 \in DOMAIN Tail(q) /\ j - 1 > i /\ Tail(q)[j - 1] = "gone"
      BY <1>1, <1>3, <3>2, <3>3, TailFacts
    <3> QED
      BY <3>4
  <2> DEFINE t == Tail(q)
  <2>2. \A i \in DOMAIN t : t[i] = "back" => up \/ \E j \in DOMAIN t : j > i /\ t[j] = "gone"
    BY <2>1
  <2>3. queue'[c] = t /\ (up' <=> up)
    BY <1>1 DEF TypeOK, SvTypeOK
  <2> HIDE DEF t
  <2>4. \A i \in DOMAIN queue'[c] : queue'[c][i] = "back" =>
           up' \/ \E j \in DOMAIN queue'[c] : j > i /\ queue'[c][j] = "gone"
    BY ONLY <2>2, <2>3
  <2> QED
    BY <2>4 DEF BackMeansUp
<1>5. Head(q) # "gone" =>
         ((\E i \in DOMAIN q : q[i] = "gone") <=> (\E i \in DOMAIN Tail(q) : Tail(q)[i] = "gone"))
  <2> DEFINE t == Tail(q)
  <2>1. /\ \A i \in DOMAIN t : i + 1 \in DOMAIN q /\ t[i] = q[i + 1]
        /\ \A i \in DOMAIN q : i # 1 => i - 1 \in DOMAIN t /\ t[i - 1] = q[i]
        /\ Head(q) = q[1]
    BY <1>1, <1>3, TailFacts
  <2> HIDE DEF t
  <2>2. SUFFICES Head(q) # "gone" =>
         ((\E i \in DOMAIN q : q[i] = "gone") <=> (\E i \in DOMAIN t : t[i] = "gone"))
    BY DEF t
  <2> QED
    BY <2>1
<1> QED
  BY <1>1, <1>2, <1>4, <1>5 DEF q

(* The start of a recovery: every path is to be asked for.                   *)
LEMMA ReinitializeFacts ==
    ASSUME TypeOK, NEW c \in Clients, OwnSound(c), Reinitialize(c),
           op[c].pc \in {"idle", "ensure"}
    PROVE  /\ op' \in [Clients -> Op]
           /\ op'[c].pc = "reset" /\ op'[c].call = op[c].call /\ op'[c].db = op[c].db
           /\ op'[c].section = op[c].section
           /\ op'[c].todo = {d \in Databases : database[c][d] # NoPath}
           /\ \A d \in Databases :
                 op'[c].adds[d] = IF database[c][d] # NoPath THEN held[c][d] ELSE NoAdds[d]
<1> USE DEF TypeOK
<1> DEFINE todo == UNION {known[c][p] : p \in Paths}
           adds == [d \in Databases |-> IF \E p \in Paths : d \in known[c][p]
                                        THEN held[c][d] ELSE NoAdds[d]]
<1>1. op' = [op EXCEPT ![c].pc = "reset", ![c].todo = todo, ![c].adds = adds]
  BY DEF Reinitialize
<1>2. \A d \in Databases : (\E p \in Paths : d \in known[c][p]) <=> database[c][d] # NoPath
  <2>1. SUFFICES ASSUME NEW d \in Databases
                 PROVE  (\E p \in Paths : d \in known[c][p]) <=> database[c][d] # NoPath
    OBVIOUS
  <2>2. database[c][d] \in Paths \cup {NoPath}
    OBVIOUS
  <2>3. \A p \in Paths : d \in known[c][p] <=> database[c][d] = p
    BY DEF OwnSound, TableSound
  <2> QED
    BY <2>2, <2>3, PathFacts
<1>3. todo = {d \in Databases : database[c][d] # NoPath}
  BY <1>2
<1>4. /\ \A d \in Databases :
            adds[d] = IF database[c][d] # NoPath THEN held[c][d] ELSE NoAdds[d]
      /\ adds \in [Databases -> [Sections -> Nat]]
  BY <1>2, OpFacts
<1> HIDE DEF todo, adds
<1>5. op'[c] = [op[c] EXCEPT !.pc = "reset", !.todo = todo, !.adds = adds]
  BY <1>1
<1>6. op[c] \in Op /\ todo \subseteq Databases
  BY <1>3
<1>7. op'[c] \in Op
  BY <1>4, <1>5, <1>6 DEF Op
<1>8. /\ op'[c].pc = "reset" /\ op'[c].call = op[c].call /\ op'[c].db = op[c].db
      /\ op'[c].section = op[c].section /\ op'[c].todo = todo /\ op'[c].adds = adds
  BY <1>5, <1>6 DEF Op
<1> QED
  BY <1>1, <1>3, <1>4, <1>7, <1>8

LEMMA RecoveryStarts ==
    ASSUME TypeOK, NEW c \in Clients, OwnSound(c), Reinitialize(c),
           op[c].pc \in {"idle", "ensure"}, alive' = alive,
           UNCHANGED <<svvars, opened, database, known, held>>,
           alive[c], BackMeansUp(c)'
    PROVE  OwnSound(c)'
<1>1. CallSound(c)'
  <2>1. CallSound(c)
    BY DEF OwnSound
  <2> QED
    BY <2>1, ReinitializeFacts DEF CallSound, Calling
<1>2. TableSound(c)'
  BY DEF OwnSound, TableSound
<1>3. Current(c)'
  BY ReinitializeFacts DEF Current
<1> QED
  BY <1>1, <1>2, <1>3 DEF OwnSound

LEMMA DispatchKeeps ==
    ASSUME EngineInv, NEW c \in Clients, Dispatch(c)
    PROVE  TypeOK' /\ OwnSound(c)'
<1> USE DEF TypeOK, EngineInv
<1>0. OwnSound(c) /\ CallSound(c)
  BY DEF OwnSound
<1>1. CASE NoticeGone(c)
  <2>1. /\ queue' = [queue EXCEPT ![c] = Tail(@)] /\ queue[c] # <<>> /\ alive[c]
        /\ reconnect' = [reconnect EXCEPT ![c] = TRUE]
        /\ running' = [running EXCEPT ![c] = FALSE]
        /\ UNCHANGED <<svvars, alive, opened, database, known, held, op>>
    BY <1>1 DEF NoticeGone
  <2>2. queue' \in [Clients -> Seq({"gone", "back"})] /\ BackMeansUp(c)'
    BY <2>1, TakeFacts DEF svvars
  <2>3. TypeOK'
    BY <2>1, <2>2 DEF svvars, SvTypeOK
  <2>4. CallSound(c)'
    BY <1>0, <2>1 DEF CallSound
  <2>5. TableSound(c)' /\ Current(c)'
    BY <1>0, <2>1 DEF OwnSound, TableSound, Current, Missed
  <2> QED
    BY <2>2, <2>3, <2>4, <2>5 DEF OwnSound
<1>2. CASE NoticeBack(c)
  <2>1. /\ queue' = [queue EXCEPT ![c] = Tail(@)] /\ queue[c] # <<>> /\ alive[c]
        /\ Head(queue[c]) = "back" /\ op[c] = Idle
        /\ reconnect' = [reconnect EXCEPT ![c] = FALSE]
        /\ running' = [running EXCEPT ![c] = TRUE]
        /\ UNCHANGED <<svvars, alive, opened, database, known, held>>
        /\ IF reconnect[c] THEN Reinitialize(c) ELSE UNCHANGED op
    BY <1>2 DEF NoticeBack
  <2>2. /\ queue' \in [Clients -> Seq({"gone", "back"})] /\ BackMeansUp(c)'
        /\ (\E i \in DOMAIN queue[c] : queue[c][i] = "gone") <=>
           (\E i \in DOMAIN queue'[c] : queue'[c][i] = "gone")
    BY <2>1, TakeFacts DEF svvars
  <2>3. CASE reconnect[c]
    <3>1. Reinitialize(c) /\ op[c].pc \in {"idle", "ensure"}
      BY <2>1, <2>3, OpFacts
    <3>2. op' \in [Clients -> Op]
      BY <1>0, <3>1, ReinitializeFacts
    <3>3. TypeOK'
      BY <2>1, <2>2, <3>2 DEF svvars, SvTypeOK
    <3> QED
      BY <1>0, <2>1, <2>2, <3>1, <3>3, RecoveryStarts
  <2>4. CASE ~ reconnect[c]
    <3>1. TypeOK'
      BY <2>1, <2>2, <2>4 DEF svvars, SvTypeOK
    <3>2. CallSound(c)'
      BY <1>0, <2>1, <2>4 DEF CallSound
    <3>3. TableSound(c)' /\ Current(c)'
      BY <1>0, <2>1, <2>2, <2>4 DEF OwnSound, TableSound, Current, Missed, svvars
    <3> QED
      BY <2>2, <3>1, <3>2, <3>3 DEF OwnSound
  <2> QED
    BY <2>3, <2>4
<1> QED
  BY <1>1, <1>2 DEF Dispatch

(* Asking for a path: what the table and the paths have then.                 *)
LEMMA AskFacts ==
    ASSUME TypeOK, ServerSound, NEW c \in Clients, OwnSound(c), NEW d \in Opens[c],
           GetDatabase(d), Attach(c, d, path'[d]),
           UNCHANGED <<alive, queue, reconnect>>,
           op'[c].todo \cup {d} = op[c].todo \cup {d}
    PROVE  /\ SvTypeOK' /\ ServerSound' /\ TableTyped'
           /\ TableSound(c)' /\ Current(c)' /\ BackMeansUp(c)'
           /\ \A e \in Databases : database'[c][e] # NoPath => e \in Opens[c]
<1> USE DEF TypeOK, OwnSound
<1>1. d \in Databases /\ TableTyped
  BY OpensAssumption DEF TableTyped
<1>2. /\ SvTypeOK' /\ ServerSound' /\ path'[d] \in Paths
      /\ \A e \in Databases : path[e] # NoPath => path'[e] = path[e]
      /\ up' = up
  BY <1>1, GetDatabaseFacts DEF GetDatabase
<1>3. /\ TableTyped' /\ TableSound(c)'
      /\ database'[c][d] = path'[d]
      /\ \A e \in Databases \ {d} :
            database'[c][e] = IF database[c][e] = path'[d] THEN NoPath ELSE database[c][e]
  BY <1>1, <1>2, AttachFacts
<1>4. Current(c)'
  <2>1. SUFFICES ASSUME alive[c], ~ Missed(c), NEW e \in Databases, e \notin op'[c].todo,
                        database'[c][e] # NoPath
                 PROVE  path'[e] = database'[c][e]
    BY DEF Current, Missed
  <2>2. CASE e = d
    BY <1>3, <2>2
  <2>3. CASE e # d
    <3>1. database'[c][e] = database[c][e] /\ e \notin op[c].todo
      BY <1>3, <2>1, <2>3
    <3>2. path[e] = database[c][e]
      BY <2>1, <3>1 DEF Current
    <3> QED
      BY <1>2, <2>1, <3>1, <3>2
  <2> QED
    BY <2>2, <2>3
<1>5. BackMeansUp(c)'
  BY <1>2 DEF BackMeansUp
<1>6. \A e \in Databases : database'[c][e] # NoPath => e \in Opens[c]
  BY <1>3 DEF CallSound
<1> QED
  BY <1>2, <1>3, <1>4, <1>5, <1>6

(* A stage of a call at whose end the daemon may have heard of a request.      *)
LEMMA RequestStep ==
    ASSUME TypeOK, ServerSound, NEW c \in Clients, OwnSound(c),
           UNCHANGED <<alive, queue, running, reconnect, opened, database, known, held>>,
           UNCHANGED svvars
           \/ \E e \in Databases, s \in Sections : AddNotify(e, c, s) \/ RemoveNotify(e, c, s),
           op[c].todo \subseteq op'[c].todo, op' \in [Clients -> Op]
    PROVE  TypeOK' /\ TableSound(c)' /\ Current(c)' /\ BackMeansUp(c)'
<1> USE DEF TypeOK, OwnSound
<1>1. SvTypeOK' /\ UNCHANGED <<up, path>>
  BY AddNotifyFacts, RemoveNotifyFacts DEF svvars, SvTypeOK
<1>2. TypeOK'
  BY <1>1
<1>3. Current(c)'
  BY <1>1, CurrentKept DEF Missed
<1>4. TableSound(c)' /\ BackMeansUp(c)'
  BY <1>1 DEF TableSound, BackMeansUp
<1> QED
  BY <1>2, <1>3, <1>4

LEMMA CallStepKeeps ==
    ASSUME EngineInv, NEW c \in Clients, CallStep(c)
    PROVE  TypeOK' /\ OwnSound(c)'
<1> USE DEF TypeOK, EngineInv
<1>0. /\ OwnSound(c) /\ CallSound(c) /\ op[c] \in Op /\ op[c].db \in Databases
      /\ Opens[c] \subseteq Databases
  BY OpensAssumption DEF OwnSound, Op
<1>00. \A path_c : Proceed(c, path_c) \in {"obtain", "send"}
  BY DEF Proceed
<1>a. ~ alive[c] => op[c].pc = "idle"
  BY <1>0, OpFacts DEF CallSound
<1>1. CASE Ensure(c)
  <2>1. /\ op[c].pc = "ensure"
        /\ running' = [running EXCEPT ![c] = TRUE]
        /\ reconnect' = [reconnect EXCEPT ![c] = FALSE]
        /\ UNCHANGED <<svvars, alive, queue, opened, database, known, held>>
        /\ IF reconnect[c] THEN Reinitialize(c) ELSE Goto(c, Proceed(c, database[c]))
    BY <1>1 DEF Ensure
  <2>2. BackMeansUp(c)'
    BY <1>0, <2>1 DEF OwnSound, BackMeansUp, svvars
  <2>3. CASE reconnect[c]
    <3>1. op' \in [Clients -> Op]
      BY <1>0, <2>1, <2>3, ReinitializeFacts
    <3>2. TypeOK'
      BY <2>1, <3>1 DEF svvars, SvTypeOK
    <3> QED
      BY <1>0, <1>a, <2>1, <2>2, <2>3, <3>2, RecoveryStarts
  <2>4. CASE ~ reconnect[c]
    <3>1. op' = [op EXCEPT ![c].pc = Proceed(c, database[c])]
      BY <2>1, <2>4 DEF Goto
    <3>2. op'[c] = [op[c] EXCEPT !.pc = Proceed(c, database[c])]
      BY <3>1
    <3>3. op' \in [Clients -> Op]
      BY <1>0, <1>00, <3>1, <3>2 DEF Op
    <3>4. TypeOK'
      BY <2>1, <3>3 DEF svvars, SvTypeOK
    <3>f. /\ op'[c].pc = Proceed(c, database[c])
          /\ op'[c].call = op[c].call /\ op'[c].db = op[c].db
          /\ op'[c].section = op[c].section
          /\ op'[c].todo = op[c].todo /\ op'[c].adds = op[c].adds
      BY <1>0, <3>2 DEF Op
    <3>5. CallSound(c)'
      BY <1>0, <1>00, <1>a, <2>1, <3>f DEF CallSound, Calling
    <3>6. TableSound(c)' /\ Current(c)'
      BY <1>0, <2>1, <2>4, <3>2 DEF OwnSound, TableSound, Current, Missed, svvars, Op
    <3> QED
      BY <2>2, <3>4, <3>5, <3>6 DEF OwnSound
  <2> QED
    BY <2>3, <2>4
<1>2. CASE ResetDone(c)
  <2>1. /\ op[c].pc = "reset" /\ op[c].todo = {}
        /\ op' = [op EXCEPT ![c].pc = "readd"]
        /\ UNCHANGED <<svvars, alive, queue, running, reconnect, opened, database, known, held>>
    BY <1>2 DEF ResetDone, Goto
  <2>2. op'[c] = [op[c] EXCEPT !.pc = "readd"]
    BY <2>1
  <2>3. op' \in [Clients -> Op]
    BY <1>0, <2>1, <2>2 DEF Op
  <2>f. /\ op'[c].pc = "readd"
        /\ op'[c].call = op[c].call /\ op'[c].db = op[c].db
        /\ op'[c].section = op[c].section
        /\ op'[c].todo = op[c].todo /\ op'[c].adds = op[c].adds
    BY <1>0, <2>2 DEF Op
  <2>4. CallSound(c)'
    BY <1>0, <1>a, <2>1, <2>f DEF CallSound, Calling
  <2>5. TypeOK' /\ TableSound(c)' /\ Current(c)' /\ BackMeansUp(c)'
    BY <1>0, <2>1, <2>2, <2>3, RequestStep DEF Op
  <2> QED
    BY <2>4, <2>5 DEF OwnSound
<1>3. CASE ReaddDone(c)
  <2>1. /\ op[c].pc = "readd" /\ op[c].adds = NoAdds
        /\ UNCHANGED <<svvars, alive, queue, running, reconnect, opened, database, known, held>>
        /\ IF op[c].call = "none" THEN Finish(c) ELSE Goto(c, Proceed(c, database[c]))
    BY <1>3 DEF ReaddDone
  <2>2. op[c].todo = {}
    BY <1>0, <2>1 DEF CallSound
  <2>3. CASE op[c].call = "none"
    <3>1. op' = [op EXCEPT ![c] = Idle]
      BY <2>1, <2>3 DEF Finish
    <3>2. op' \in [Clients -> Op] /\ op'[c] = Idle
      BY <3>1, OpFacts
    <3>3. CallSound(c)'
      BY <1>0, <2>1, <3>2, OpFacts DEF CallSound, Calling
    <3>4. TypeOK' /\ TableSound(c)' /\ Current(c)' /\ BackMeansUp(c)'
      BY <1>0, <2>1, <2>2, <3>2, RequestStep
    <3> QED
      BY <3>3, <3>4 DEF OwnSound
  <2>4. CASE op[c].call # "none"
    <3>1. op' = [op EXCEPT ![c].pc = Proceed(c, database[c])]
      BY <2>1, <2>4 DEF Goto
    <3>2. op'[c] = [op[c] EXCEPT !.pc = Proceed(c, database[c])]
      BY <3>1
    <3>3. op' \in [Clients -> Op]
      BY <1>0, <1>00, <3>1, <3>2 DEF Op
    <3>f. /\ op'[c].pc = Proceed(c, database[c])
          /\ op'[c].call = op[c].call /\ op'[c].db = op[c].db
          /\ op'[c].section = op[c].section
          /\ op'[c].todo = op[c].todo /\ op'[c].adds = op[c].adds
      BY <1>0, <3>2 DEF Op
    <3>4. CallSound(c)'
      BY <1>0, <1>00, <1>a, <2>1, <2>2, <2>4, <3>f DEF CallSound, Calling
    <3>5. TypeOK' /\ TableSound(c)' /\ Current(c)' /\ BackMeansUp(c)'
      BY <1>0, <2>1, <3>2, <3>3, RequestStep DEF Op
    <3> QED
      BY <3>4, <3>5 DEF OwnSound
  <2> QED
    BY <2>3, <2>4
<1>4. CASE Obtain(c)
  <2> DEFINE d == op[c].db
  <2>1. /\ op[c].pc = "obtain" /\ GetDatabase(d) /\ Attach(c, d, path'[d])
        /\ UNCHANGED <<alive, queue, running, reconnect, opened, held>>
        /\ IF op[c].call = "open" THEN Finish(c) ELSE Goto(c, "send")
    BY <1>4 DEF Obtain
  <2>2. d \in Opens[c] /\ op[c].todo = {} /\ op[c].adds = NoAdds
    BY <1>0, <2>1 DEF CallSound, Calling
  <2>3. op'[c] = IF op[c].call = "open" THEN Idle ELSE [op[c] EXCEPT !.pc = "send"]
    BY <2>1 DEF Finish, Goto
  <2>4. op' \in [Clients -> Op]
    <3>1. op'[c] \in Op
      BY <1>0, <2>3, OpFacts DEF Op
    <3> QED
      BY <2>1, <3>1 DEF Finish, Goto
  <2>5. op'[c].todo = {}
    BY <1>0, <2>2, <2>3, OpFacts DEF Op
  <2>6. /\ SvTypeOK' /\ TableTyped' /\ TableSound(c)' /\ Current(c)' /\ BackMeansUp(c)'
        /\ \A e \in Databases : database'[c][e] # NoPath => e \in Opens[c]
    BY <1>0, <2>1, <2>2, <2>5, AskFacts
  <2>7. TypeOK'
    BY <2>1, <2>4, <2>6 DEF TableTyped
  <2>8. CallSound(c)'
    <3>1. CASE op[c].call = "open"
      BY <1>0, <2>1, <2>3, <2>6, <3>1, OpFacts DEF CallSound, Calling
    <3>2. CASE op[c].call # "open"
      BY <1>0, <1>a, <2>1, <2>2, <2>3, <2>6, <3>2 DEF CallSound, Calling, Op
    <3> QED
      BY <3>1, <3>2
  <2> QED
    BY <2>6, <2>7, <2>8 DEF OwnSound
<1>5. CASE Send(c)
  <2>1. /\ op[c].pc = "send"
        /\ op' = [op EXCEPT ![c] = Idle]
        /\ UNCHANGED <<alive, queue, running, reconnect, opened, database, known, held>>
    BY <1>5 DEF Send, Finish
  <2>2. \/ UNCHANGED svvars
        \/ \E e \in Databases, s \in Sections : AddNotify(e, c, s) \/ RemoveNotify(e, c, s)
    <3>1. PICK e \in Databases :
             CASE op[c].call = "add" -> AddNotify(e, c, op[c].section)
               [] op[c].call = "remove" -> RemoveNotify(e, c, op[c].section)
               [] OTHER -> UNCHANGED svvars
      BY <1>5 DEF Send, ObjectAt
    <3>2. op[c].call \in {"add", "remove"} => op[c].section \in Sections
      BY <1>0 DEF CallSound
    <3>3. CASE op[c].call = "add"
      BY <3>1, <3>2, <3>3
    <3>4. CASE op[c].call = "remove"
      BY <3>1, <3>2, <3>4
    <3>5. CASE op[c].call \notin {"add", "remove"}
      BY <3>1, <3>5
    <3> QED
      BY <3>3, <3>4, <3>5
  <2>3. op' \in [Clients -> Op] /\ op'[c] = Idle /\ op[c].todo = {}
    BY <1>0, <2>1, OpFacts DEF CallSound
  <2>4. CallSound(c)'
    BY <1>0, <2>1, <2>3, OpFacts DEF CallSound, Calling
  <2>5. TypeOK' /\ TableSound(c)' /\ Current(c)' /\ BackMeansUp(c)'
    BY <1>0, <2>1, <2>2, <2>3, RequestStep
  <2> QED
    BY <2>4, <2>5 DEF OwnSound
<1>6. CASE CallFails(c)
  <2>1. /\ op[c].pc \in Calling
        /\ op' = [op EXCEPT ![c] = Idle]
        /\ UNCHANGED <<svvars, alive, queue, running, reconnect, database, known>>
        /\ IF op[c].call = "add"
           THEN held' = [held EXCEPT ![c][op[c].db][op[c].section] = @ - 1]
           ELSE UNCHANGED held
        /\ IF op[c].call = "open"
           THEN opened' = [opened EXCEPT ![c] = @ \ {op[c].db}]
           ELSE UNCHANGED opened
    BY <1>6 DEF CallFails, Finish, Calling
  <2>2. held' \in [Clients -> [Databases -> [Sections -> Nat]]]
    <3>1. CASE op[c].call = "add"
      <4>1. op[c].section \in Sections /\ held[c][op[c].db][op[c].section] > 0
        BY <1>0, <3>1 DEF CallSound
      <4>2. held[c][op[c].db][op[c].section] - 1 \in Nat
        BY <1>0, <4>1
      <4>3. held' = [held EXCEPT ![c][op[c].db][op[c].section] = @ - 1]
        BY <2>1, <3>1
      <4>4. held \in [Clients -> [Databases -> [Sections -> Nat]]]
        OBVIOUS
      <4> QED
        BY ONLY <1>0, <4>1, <4>2, <4>3, <4>4
    <3>2. CASE op[c].call # "add"
      BY <2>1, <3>2
    <3> QED
      BY <3>1, <3>2
  <2>3. opened' \in [Clients -> SUBSET Databases] /\ opened'[c] \subseteq opened[c]
    <3>1. CASE op[c].call = "open"
      <4>1. opened' = [opened EXCEPT ![c] = @ \ {op[c].db}]
        BY <2>1, <3>1
      <4> QED
        BY <4>1
    <3>2. CASE op[c].call # "open"
      BY <2>1, <3>2
    <3> QED
      BY <3>1, <3>2
  <2>4. op' \in [Clients -> Op] /\ op'[c] = Idle /\ op[c].todo = {} /\ alive[c]
    BY <1>0, <1>a, <2>1, OpFacts DEF CallSound, Calling
  <2>5. TypeOK'
    BY <2>1, <2>2, <2>3, <2>4 DEF svvars, SvTypeOK
  <2>6. CallSound(c)'
    BY <1>0, <2>1, <2>3, <2>4, OpFacts DEF CallSound, Calling
  <2>7. TableSound(c)' /\ Current(c)' /\ BackMeansUp(c)'
    BY <1>0, <2>1, <2>4, QuietStep
  <2> QED
    BY <2>5, <2>6, <2>7 DEF OwnSound
<1>7. ASSUME NEW d \in Databases, Reset(c, d) PROVE TypeOK' /\ OwnSound(c)'
  <2>1. /\ op[c].pc = "reset" /\ d \in op[c].todo
        /\ UNCHANGED <<alive, queue, running, reconnect, opened, held>>
    BY <1>7 DEF Reset
  <2>2. CASE database[c][d] = NoPath
    <3>1. /\ op' = [op EXCEPT ![c].pc = "crashed"]
          /\ UNCHANGED <<svvars, database, known>>
      BY <1>7, <2>2 DEF Reset, Goto
    <3>2. op'[c] = [op[c] EXCEPT !.pc = "crashed"]
      BY <3>1
    <3>3. op' \in [Clients -> Op]
      BY <1>0, <3>1, <3>2 DEF Op
    <3>4. CallSound(c)'
      BY <1>0, <1>a, <2>1, <3>1, <3>2 DEF CallSound, Calling, Op
    <3>f. op'[c].todo = op[c].todo
      BY <1>0, <3>2 DEF Op
    <3>5. TypeOK' /\ TableSound(c)' /\ Current(c)' /\ BackMeansUp(c)'
      BY <1>0, <2>1, <3>1, <3>3, <3>f, RequestStep
    <3> QED
      BY <3>4, <3>5 DEF OwnSound
  <2>3. CASE database[c][d] # NoPath
    <3>1. /\ GetDatabase(d) /\ Attach(c, d, path'[d])
          /\ op' = [op EXCEPT ![c].todo = @ \ {d}]
      BY <1>7, <2>3 DEF Reset
    <3>2. d \in Opens[c]
      BY <1>0, <2>3 DEF CallSound
    <3>3. op'[c] = [op[c] EXCEPT !.todo = op[c].todo \ {d}]
      BY <3>1
    <3>4. op' \in [Clients -> Op] /\ op'[c].todo = op[c].todo \ {d}
      BY <1>0, <3>1, <3>3 DEF Op
    <3>5. /\ SvTypeOK' /\ TableTyped' /\ TableSound(c)' /\ Current(c)' /\ BackMeansUp(c)'
          /\ \A e \in Databases : database'[c][e] # NoPath => e \in Opens[c]
      BY <1>0, <2>1, <3>1, <3>2, <3>4, AskFacts
    <3>6. TypeOK'
      BY <2>1, <3>4, <3>5 DEF TableTyped
    <3>7. CallSound(c)'
      BY <1>0, <1>a, <2>1, <3>3, <3>5 DEF CallSound, Calling, Op
    <3> QED
      BY <3>5, <3>6, <3>7 DEF OwnSound
  <2> QED
    BY <2>2, <2>3
<1>8. ASSUME NEW d \in Databases, ResetFails(c, d) PROVE TypeOK' /\ OwnSound(c)'
  <2>1. /\ op[c].pc = "reset" /\ d \in op[c].todo /\ database[c][d] # NoPath
        /\ Detach(c, d)
        /\ op' = [op EXCEPT ![c].todo = @ \ {d}]
        /\ UNCHANGED <<svvars, alive, queue, running, reconnect, opened, held>>
    BY <1>8 DEF ResetFails
  <2>2. op'[c] = [op[c] EXCEPT !.todo = op[c].todo \ {d}]
    BY <2>1
  <2>3. op' \in [Clients -> Op] /\ op'[c].todo = op[c].todo \ {d}
    BY <1>0, <2>1, <2>2 DEF Op
  <2>4. TableTyped
    BY DEF TableTyped
  <2>5. /\ TableTyped' /\ TableSound(c)'
        /\ \A e \in Databases :
              database'[c][e] = IF database[c][e] = database[c][d] THEN NoPath
                                ELSE database[c][e]
    BY <1>0, <2>1, <2>4, DetachFacts DEF OwnSound
  <2>6. TypeOK'
    BY <2>1, <2>3, <2>5 DEF TableTyped, svvars, SvTypeOK
  <2>7. CallSound(c)'
    BY <1>0, <1>a, <2>1, <2>2, <2>5 DEF CallSound, Calling, Op
  <2>8. Current(c)'
    <3>1. SUFFICES ASSUME alive[c], ~ Missed(c), NEW e \in Databases, e \notin op'[c].todo,
                          database'[c][e] # NoPath
                   PROVE  path'[e] = database'[c][e]
      BY <2>1 DEF Current, Missed
    <3>2. e # d /\ e \notin op[c].todo /\ database'[c][e] = database[c][e]
      BY <2>3, <2>5, <3>1
    <3>3. path[e] = database[c][e]
      BY <1>0, <3>1, <3>2 DEF OwnSound, Current
    <3> QED
      BY <2>1, <3>2, <3>3 DEF svvars
  <2>9. BackMeansUp(c)'
    BY <1>0, <2>1 DEF OwnSound, BackMeansUp, svvars
  <2> QED
    BY <2>5, <2>6, <2>7, <2>8, <2>9 DEF OwnSound
<1>9. ASSUME NEW d \in Databases, ReaddObtains(c, d) PROVE TypeOK' /\ OwnSound(c)'
  <2>1. /\ op[c].pc = "readd" /\ op[c].adds[d] # NoAdds[d]
        /\ GetDatabase(d) /\ Attach(c, d, path'[d])
        /\ UNCHANGED <<alive, queue, running, reconnect, opened, held, op>>
    BY <1>9 DEF ReaddObtains
  <2>2. d \in Opens[c]
    BY <1>0, <2>1 DEF CallSound
  <2>3. /\ SvTypeOK' /\ TableTyped' /\ TableSound(c)' /\ Current(c)' /\ BackMeansUp(c)'
        /\ \A e \in Databases : database'[c][e] # NoPath => e \in Opens[c]
    BY <1>0, <2>1, <2>2, AskFacts
  <2>4. TypeOK'
    BY <2>1, <2>3 DEF TableTyped
  <2>5. CallSound(c)'
    BY <1>0, <1>a, <2>1, <2>3 DEF CallSound
  <2> QED
    BY <2>3, <2>4, <2>5 DEF OwnSound
<1>10. ASSUME NEW d \in Databases, NEW s \in Sections, Readd(c, d, s) \/ ReaddFails(c, d, s)
       PROVE  TypeOK' /\ OwnSound(c)'
  <2>1. /\ op[c].pc = "readd" /\ op[c].adds[d][s] > 0
        /\ op' = [op EXCEPT ![c].adds[d][s] = @ - 1]
        /\ UNCHANGED <<alive, queue, running, reconnect, opened, database, known, held>>
        /\ UNCHANGED svvars \/ \E e \in Databases : AddNotify(e, c, s)
    BY <1>10 DEF Readd, ReaddFails, ObjectAt
  <2> DEFINE adds == [op[c].adds EXCEPT ![d][s] = @ - 1]
  <2>2. op[c].adds \in [Databases -> [Sections -> Nat]]
    BY <1>0 DEF Op
  <2>3. adds \in [Databases -> [Sections -> Nat]]
    BY <2>1, <2>2
  <2>4. \A e \in Databases : e # d => adds[e] = op[c].adds[e]
    BY <2>2
  <2>5. op'[c] = [op[c] EXCEPT !.adds = adds]
    BY <2>1
  <2> HIDE DEF adds
  <2>6. op'[c] \in Op
    BY <1>0, <2>3, <2>5 DEF Op
  <2>7. op' \in [Clients -> Op]
    BY <2>1, <2>6
  <2>8. op[c].adds[d] # NoAdds[d]
    BY <2>1, <2>2 DEF NoAdds
  <2>9. op'[c].adds = adds /\ op'[c].todo = op[c].todo /\ op'[c].pc = op[c].pc
        /\ op'[c].call = op[c].call /\ op'[c].db = op[c].db
        /\ op'[c].section = op[c].section
    BY <1>0, <2>5 DEF Op
  <2>10. CallSound(c)'
    BY <1>0, <1>a, <2>1, <2>4, <2>8, <2>9 DEF CallSound, Calling
  <2>11. TypeOK' /\ TableSound(c)' /\ Current(c)' /\ BackMeansUp(c)'
    BY <1>0, <2>1, <2>7, <2>9, RequestStep
  <2> QED
    BY <2>10, <2>11 DEF OwnSound
<1> QED
  BY <1>1, <1>2, <1>3, <1>4, <1>5, <1>6, <1>7, <1>8, <1>9, <1>10 DEF CallStep

-----------------------------------------------------------------------------
(* gconfd goes and comes back.                                               *)

LEMMA BroadcastFacts ==
    ASSUME TypeOK, NEW signal \in {"gone", "back"}, Broadcast(signal), NEW c \in Clients
    PROVE  /\ queue' \in [Clients -> Seq({"gone", "back"})]
           /\ ~ alive[c] => queue'[c] = queue[c]
           /\ alive[c] => /\ DOMAIN queue'[c] = 1..(Len(queue[c]) + 1)
                          /\ queue'[c][Len(queue[c]) + 1] = signal
           /\ DOMAIN queue[c] = 1..Len(queue[c]) /\ Len(queue[c]) \in Nat
           /\ DOMAIN queue[c] \subseteq DOMAIN queue'[c]
           /\ \A i \in DOMAIN queue[c] : queue'[c][i] = queue[c][i]
<1> USE DEF TypeOK
<1>1. queue' = [b \in Clients |-> IF alive[b] THEN Append(queue[b], signal) ELSE queue[b]]
  BY DEF Broadcast
<1>2. queue[c] \in Seq({"gone", "back"})
  OBVIOUS
<1>3. \A q \in Seq({"gone", "back"}) :
         /\ Append(q, signal) \in Seq({"gone", "back"})
         /\ DOMAIN q = 1..Len(q) /\ Len(q) \in Nat
         /\ DOMAIN Append(q, signal) = 1..(Len(q) + 1)
         /\ Append(q, signal)[Len(q) + 1] = signal
         /\ \A i \in 1..Len(q) : Append(q, signal)[i] = q[i]
  OBVIOUS
<1>4. queue' \in [Clients -> Seq({"gone", "back"})]
  BY <1>1, <1>3
<1>5. CASE alive[c]
  <2>1. queue'[c] = Append(queue[c], signal)
    BY <1>1, <1>5
  <2> QED
    BY <1>2, <1>3, <1>4, <1>5, <2>1
<1>6. CASE ~ alive[c]
  <2>1. queue'[c] = queue[c]
    BY <1>1, <1>6
  <2> QED
    BY <1>2, <1>3, <1>4, <1>6, <2>1
<1> QED
  BY <1>5, <1>6

LEMMA GoneKeeps ==
    ASSUME EngineInv, Gone
    PROVE  EngineInv'
<1> USE DEF EngineInv
<1>1. /\ ServerGoes /\ Broadcast("gone")
      /\ UNCHANGED <<alive, running, reconnect, opened, database, known, held, op>>
  BY DEF Gone
<1>2. SvTypeOK' /\ ServerSound' /\ up /\ ~ up'
  BY <1>1, GoesFacts DEF TypeOK
<1>3. queue' \in [Clients -> Seq({"gone", "back"})]
  BY <1>1 DEF Broadcast, TypeOK
<1>4. TypeOK'
  BY <1>1, <1>2, <1>3 DEF TypeOK
<1>5. ASSUME NEW c \in Clients
      PROVE  CallSound(c)' /\ TableSound(c)' /\ Current(c)' /\ BackMeansUp(c)'
  <2> DEFINE n == Len(queue[c]) + 1
  <2>1. /\ ~ alive[c] => queue'[c] = queue[c]
        /\ alive[c] => n \in DOMAIN queue'[c] /\ queue'[c][n] = "gone"
                       /\ \A i \in DOMAIN queue'[c] : i # n => n > i
    BY <1>1, BroadcastFacts
  <2> HIDE DEF n
  <2>2. CallSound(c)'
    BY <1>1, <2>1 DEF CallSound
  <2>3. TableSound(c)'
    BY <1>1 DEF TableSound
  <2>4. CASE alive[c]
    BY <1>1, <2>1, <2>2, <2>3, <2>4 DEF Current, Missed, BackMeansUp
  <2>5. CASE ~ alive[c]
    <3>1. queue'[c] = <<>>
      BY <2>1, <2>5 DEF CallSound
    <3> QED
      BY <1>1, <2>2, <2>3, <2>5, <3>1 DEF Current, BackMeansUp
  <2> QED
    BY <2>4, <2>5
<1> QED
  BY <1>2, <1>4, <1>5

LEMMA BackKeeps ==
    ASSUME EngineInv, Back
    PROVE  EngineInv'
<1> USE DEF EngineInv
<1>1. /\ ServerStarts /\ Broadcast("back")
      /\ UNCHANGED <<alive, running, reconnect, opened, database, known, held, op>>
  BY DEF Back
<1>2. SvTypeOK' /\ ServerSound' /\ ~ up /\ up' /\ path = Unloaded
  BY <1>1, StartsFacts DEF TypeOK
<1>3. queue' \in [Clients -> Seq({"gone", "back"})]
  BY <1>1 DEF Broadcast, TypeOK
<1>4. TypeOK'
  BY <1>1, <1>2, <1>3 DEF TypeOK
<1>5. ASSUME NEW c \in Clients
      PROVE  CallSound(c)' /\ TableSound(c)' /\ Current(c)' /\ BackMeansUp(c)'
  <2>1. /\ ~ alive[c] => queue'[c] = queue[c]
        /\ DOMAIN queue[c] \subseteq DOMAIN queue'[c]
        /\ \A i \in DOMAIN queue[c] : queue'[c][i] = queue[c][i]
    BY <1>1, BroadcastFacts
  <2>2. CallSound(c)'
    BY <1>1, <2>1 DEF CallSound
  <2>3. TableSound(c)'
    BY <1>1 DEF TableSound
  <2>4. BackMeansUp(c)'
    BY <1>2 DEF BackMeansUp
  <2>5. Current(c)'
    <3>1. SUFFICES ASSUME alive[c], ~ Missed(c)', NEW d \in Databases \ op[c].todo
                   PROVE  database[c][d] = NoPath
      BY <1>1 DEF Current
    <3>2. ~ Missed(c)
      BY <1>1, <2>1, <3>1 DEF Missed
    <3> QED
      BY <1>2, <3>1, <3>2 DEF Current, Unloaded
  <2> QED
    BY <2>2, <2>3, <2>4, <2>5
<1> QED
  BY <1>2, <1>4, <1>5

-----------------------------------------------------------------------------
(* The invariant.                                                            *)

LEMMA EngineInit == Init => EngineInv
<1> SUFFICES ASSUME Init PROVE EngineInv
  OBVIOUS
<1> USE DEF Init, SvInit
<1>1. SvTypeOK
  <2>1. 0 \in 0..MaxExits
    BY MaxExitsAssumption
  <2>2. Unloaded \in [Databases -> Paths \cup {NoPath}]
    BY DEF Unloaded
  <2>3. Unlisted \in [Databases -> [Clients -> [Sections -> Nat]]]
    BY DEF Unlisted
  <2>4. Uncounted \in [Databases -> [Clients -> Nat]]
    BY DEF Uncounted
  <2> QED
    BY <2>1, <2>2, <2>3, <2>4 DEF SvTypeOK
<1>2. <<>> \in Seq({"gone", "back"}) /\ DOMAIN <<>> = {}
  OBVIOUS
<1>3. TypeOK
  BY <1>1, <1>2, OpFacts DEF TypeOK, Unloaded
<1>4. ServerSound
  <2>1. Loaded \subseteq Databases /\ Cardinality(Loaded) \in Nat
    BY DefaultAssumption, FS_Subset, FS_CardinalityType DEF Loaded
  <2> QED
    BY <2>1 DEF ServerSound, Unloaded, NoPath
<1>5. ASSUME NEW c \in Clients
      PROVE  CallSound(c) /\ TableSound(c) /\ Current(c) /\ BackMeansUp(c)
  <2>1. op[c] = Idle /\ database[c] = Unloaded /\ queue[c] = <<>> /\ opened[c] = {} /\ alive[c]
        /\ known[c] = [p \in Paths |-> {}]
    OBVIOUS
  <2>2. CallSound(c)
    BY <2>1, OpFacts DEF CallSound, Calling, Unloaded
  <2>3. TableSound(c)
    BY <2>1, PathFacts DEF TableSound, Unloaded
  <2>4. Current(c) /\ BackMeansUp(c)
    BY <1>2, <2>1 DEF Current, BackMeansUp, Unloaded
  <2> QED
    BY <2>2, <2>3, <2>4
<1> QED
  BY <1>3, <1>4, <1>5 DEF EngineInv

LEMMA EngineStep ==
    ASSUME EngineInv, NEW c \in Clients, Step(c)
    PROVE  EngineInv'
<1> USE DEF EngineInv
<1>1. TypeOK' /\ OwnSound(c)'
  BY ApiKeeps, DispatchKeeps, CallStepKeeps DEF Step
<1>2. ServerStep(c) /\ \A b \in Clients \ {c} : Bystander(b)
  BY StepsOfOne
<1>3. /\ ServerSound' /\ up' = up
      /\ \A d \in Databases : path[d] # NoPath => path'[d] = path[d]
  BY <1>2, ServerStepFacts DEF TypeOK
<1>4. \A b \in Clients \ {c} :
         CallSound(b)' /\ TableSound(b)' /\ Current(b)' /\ BackMeansUp(b)'
  BY <1>2, <1>3, BystanderKeeps
<1> QED
  BY <1>1, <1>3, <1>4 DEF OwnSound

LEMMA EngineStutters ==
    ASSUME EngineInv, UNCHANGED vars
    PROVE  EngineInv'
<1> USE DEF vars, svvars, envars
<1>1. TypeOK' /\ ServerSound'
  BY DEF EngineInv, TypeOK, SvTypeOK, ServerSound, Loaded
<1>2. \A c \in Clients : CallSound(c)' /\ TableSound(c)' /\ Current(c)' /\ BackMeansUp(c)'
  BY DEF EngineInv, CallSound, TableSound, Current, Missed, BackMeansUp
<1> QED
  BY <1>1, <1>2 DEF EngineInv

LEMMA EngineInvariant == Spec => []EngineInv
<1>1. EngineInv /\ [Next]_vars => EngineInv'
  BY GoneKeeps, BackKeeps, EngineStep, EngineStutters DEF Next, Step
<1> QED
  BY <1>1, EngineInit, PTL DEF Spec

(* Whatever programs do and however often gconfd goes: a program that has      *)
(* noticed every exit and recovered uses the paths of the gconfd that runs     *)
(* (reinitialize_databases, gconf_engine_set_database).                      *)
THEOREM PathsStayRight == Spec => [](TypeOK /\ PathsAgree)
<1>1. EngineInv => TypeOK /\ PathsAgree
  <2>1. SUFFICES ASSUME EngineInv, NEW c \in Clients, Settled(c), NEW d \in Databases,
                        database[c][d] # NoPath
                 PROVE  path[d] = database[c][d]
    BY DEF PathsAgree, EngineInv
  <2>2. ~ Missed(c) /\ d \notin op[c].todo
    BY <2>1, OpFacts DEF Settled, Missed
  <2> QED
    BY <2>1, <2>2 DEF EngineInv, Current, Settled
<1> QED
  BY <1>1, EngineInvariant, PTL

-----------------------------------------------------------------------------
(* Programs with one database besides the default.                           *)

(* No two engines of a program have the same path.                            *)
LEMMA ApartAlone ==
    ASSUME Apart, NEW c \in Clients, CallSound(c), ApartSound(c),
           NEW d \in Databases, NEW e \in Databases \ {d}, database[c][d] # NoPath
    PROVE  database[c][e] # database[c][d]
<1>1. SUFFICES ASSUME database[c][e] = database[c][d] PROVE FALSE
  OBVIOUS
<1>2. d \in Opens[c] /\ e \in Opens[c]
  BY <1>1 DEF CallSound
<1>3. d = Default \/ e = Default
  BY <1>2 DEF Apart
<1> QED
  BY <1>1, <1>3, DefaultAssumption DEF ApartSound

(* Asking for a path takes nobody else's.                                    *)
LEMMA ApartAsk ==
    ASSUME Apart, TypeOK, ServerSound, NEW c \in Clients, OwnSound(c), ApartSound(c),
           NEW d \in Opens[c], GetDatabase(d), Attach(c, d, path'[d])
    PROVE  /\ d \in Databases /\ path'[d] \in Paths
           /\ database'[c][d] = path'[d]
           /\ \A e \in Databases \ {d} : database'[c][e] = database[c][e]
           /\ database'[c][Default] \in {NoPath, 1}
           /\ \A e \in Databases \ {Default} : database'[c][e] # 1
<1>1. d \in Databases /\ TableTyped /\ SvTypeOK
  BY OpensAssumption DEF TableTyped, TypeOK
<1>2. /\ path'[d] \in Paths /\ path'[Default] = 1
      /\ d # Default => path'[d] # 1
  BY <1>1, GetDatabaseFacts
<1>3. /\ database'[c][d] = path'[d]
      /\ \A e \in Databases \ {d} :
            database'[c][e] = IF database[c][e] = path'[d] THEN NoPath ELSE database[c][e]
  BY <1>1, <1>2, AttachFacts DEF OwnSound
<1>4. ASSUME NEW e \in Databases \ {d} PROVE database[c][e] # path'[d]
  <2>1. SUFFICES ASSUME database[c][e] = path'[d] PROVE FALSE
    OBVIOUS
  <2>2. e \in Opens[c]
    BY <1>2, <2>1, PathFacts DEF OwnSound, CallSound
  <2>3. d = Default \/ e = Default
    BY <1>4, <2>2 DEF Apart
  <2>4. CASE d = Default
    BY <1>2, <1>4, <2>1, <2>4 DEF ApartSound
  <2>5. CASE e = Default
    BY <1>2, <1>4, <2>1, <2>5, PathFacts DEF ApartSound
  <2> QED
    BY <2>3, <2>4, <2>5
<1>5. \A e \in Databases \ {d} : database'[c][e] = database[c][e]
  BY <1>3, <1>4
<1> QED
  BY <1>1, <1>2, <1>3, <1>5, DefaultAssumption DEF ApartSound

LEMMA ApartKeeps ==
    ASSUME Apart, EngineInv, NEW c \in Clients, ApartSound(c), Step(c)
    PROVE  ApartSound(c)'
<1> USE DEF TypeOK, EngineInv
<1>0. /\ OwnSound(c) /\ CallSound(c) /\ op[c] \in Op /\ TableTyped /\ ServerSound
  BY DEF OwnSound, TableTyped
<1>1. CASE Api(c)
  <2>1. CASE \E d \in Databases : Unref(c, d)
    <3>1. PICK d \in Databases : Unref(c, d)
      BY <2>1
    <3>2. op' = op /\ op[c] = Idle
      BY <3>1 DEF Unref
    <3>3. \A e \in Databases : database'[c][e] \in {database[c][e], NoPath}
      <4>1. CASE database[c][d] = NoPath
        BY <3>1, <4>1 DEF Unref
      <4>2. CASE database[c][d] # NoPath
        BY <1>0, <3>1, <4>2, DetachFacts DEF Unref, OwnSound
      <4> QED
        BY <4>1, <4>2
    <3> QED
      BY <3>2, <3>3, OpFacts, DefaultAssumption DEF ApartSound, NoPath
  <2>2. CASE ~ \E d \in Databases : Unref(c, d)
    <3>1. database' = database
      BY <1>1, <2>2 DEF Api, OpenDefault, OpenEngine, Use, NotifyAdd, NotifyRemove, Start, Exit
    <3>2. op[c] = Idle
      BY <1>1, <2>2 DEF Api, OpenDefault, OpenEngine, Use, NotifyAdd, NotifyRemove, Start, Exit
    <3>3. op' = op \/ \E call \in Calls, d \in Databases, s \in Sections \cup {NoSection} : Start(c, call, d, s)
      BY <1>1, <2>2 DEF Api, OpenDefault, OpenEngine, Use, NotifyAdd, NotifyRemove, Exit, Calls
    <3>4. ASSUME NEW call \in Calls, NEW d \in Databases, NEW s \in Sections \cup {NoSection}, Start(c, call, d, s)
          PROVE  op'[c].pc # "crashed" /\ op'[c].todo = {}
      <4>1. op'[c] = [Idle EXCEPT !.pc = "ensure", !.call = call, !.db = d, !.section = s]
        BY <3>2, <3>4 DEF Start
      <4> QED
        BY <4>1 DEF Idle
    <3>5. op'[c].pc # "crashed" /\ op'[c].todo = {}
      BY <3>2, <3>3, <3>4, OpFacts
    <3> QED
      BY <3>1, <3>5 DEF ApartSound
  <2> QED
    BY <2>1, <2>2
<1>2. CASE Dispatch(c)
  <2>1. database' = database /\ op[c] = Idle
    BY <1>2 DEF Dispatch, NoticeGone, NoticeBack
  <2>2. op' = op \/ Reinitialize(c)
    BY <1>2 DEF Dispatch, NoticeGone, NoticeBack
  <2> QED
    BY <1>0, <2>1, <2>2, ReinitializeFacts, OpFacts DEF ApartSound
<1>3. CASE CallStep(c)
  <2>1. CASE Ensure(c)
    <3>1. op[c].pc = "ensure" /\ database' = database
          /\ (Reinitialize(c) \/ Goto(c, Proceed(c, database[c])))
      BY <2>1 DEF Ensure
    <3>2. CASE Reinitialize(c)
      BY <1>0, <3>1, <3>2, ReinitializeFacts DEF ApartSound
    <3>3. CASE Goto(c, Proceed(c, database[c]))
      <4>1. op'[c] = [op[c] EXCEPT !.pc = Proceed(c, database[c])]
        BY <3>3 DEF Goto
      <4>2. op'[c].pc # "crashed" /\ op'[c].todo = op[c].todo
        BY <1>0, <4>1 DEF Op, Proceed
      <4> QED
        BY <3>1, <4>2 DEF ApartSound
    <3> QED
      BY <3>1, <3>2, <3>3
  <2>2. CASE ResetDone(c) \/ ReaddDone(c) \/ Send(c) \/ CallFails(c)
    <3>1. database' = database /\ (op'[c] = Idle \/ \E pc \in {"readd", "obtain", "send"} : Goto(c, pc))
      BY <2>2 DEF ResetDone, ReaddDone, Send, CallFails, Finish, Proceed
    <3>2. op'[c] = Idle \/ \E pc \in {"readd", "obtain", "send"} : op'[c] = [op[c] EXCEPT !.pc = pc]
      BY <3>1 DEF Goto
    <3>3. op'[c].pc # "crashed" /\ (op'[c].todo = {} \/ op'[c].todo = op[c].todo)
      BY <1>0, <3>2, OpFacts DEF Op
    <3> QED
      BY <3>1, <3>3 DEF ApartSound
  <2>3. CASE Obtain(c)
    <3>1. /\ op[c].pc = "obtain" /\ GetDatabase(op[c].db) /\ Attach(c, op[c].db, path'[op[c].db])
          /\ Finish(c) \/ Goto(c, "send")
      BY <2>3 DEF Obtain
    <3> DEFINE d == op[c].db
    <3>2. d \in Opens[c] /\ op[c].todo = {}
      BY <1>0, <3>1 DEF CallSound, Calling
    <3>3. op'[c] = Idle \/ op'[c] = [op[c] EXCEPT !.pc = "send"]
      BY <3>1 DEF Finish, Goto
    <3>4. op'[c].pc # "crashed" /\ op'[c].todo = {}
      BY <1>0, <3>2, <3>3, OpFacts DEF Op
    <3>5. /\ database'[c][Default] \in {NoPath, 1}
          /\ \A e \in Databases \ {Default} : database'[c][e] # 1
      <4>1. GetDatabase(d) /\ Attach(c, d, path'[d])
        BY <3>1
      <4> HIDE DEF d
      <4> QED
        BY <1>0, <3>2, <4>1, ApartAsk
    <3> QED
      BY <3>4, <3>5 DEF ApartSound
  <2>4. ASSUME NEW d \in Databases, Reset(c, d) PROVE ApartSound(c)'
    <3>1. /\ op[c].pc = "reset" /\ d \in op[c].todo /\ database[c][d] # NoPath
          /\ GetDatabase(d) /\ Attach(c, d, path'[d])
          /\ op' = [op EXCEPT ![c].todo = @ \ {d}]
      BY <2>4 DEF Reset, ApartSound
    <3>2. d \in Opens[c]
      BY <1>0, <3>1 DEF CallSound
    <3>3. op'[c].pc = "reset" /\ op'[c].todo = op[c].todo \ {d} /\ op[c].todo \subseteq Databases
      BY <1>0, <3>1 DEF Op
    <3>4. /\ \A e \in Databases \ {d} : database'[c][e] = database[c][e]
          /\ database'[c][Default] \in {NoPath, 1}
          /\ \A e \in Databases \ {Default} : database'[c][e] # 1
      BY <1>0, <3>1, <3>2, ApartAsk
    <3>5. \A e \in op'[c].todo : database'[c][e] # NoPath
      BY <3>3, <3>4 DEF ApartSound
    <3> QED
      BY <3>3, <3>4, <3>5 DEF ApartSound
  <2>5. ASSUME NEW d \in Databases, ResetFails(c, d) PROVE ApartSound(c)'
    <3>1. /\ op[c].pc = "reset" /\ d \in op[c].todo /\ database[c][d] # NoPath
          /\ Detach(c, d)
          /\ op' = [op EXCEPT ![c].todo = @ \ {d}]
      BY <2>5 DEF ResetFails
    <3>2. \A e \in Databases :
              database'[c][e] = IF database[c][e] = database[c][d] THEN NoPath
                                ELSE database[c][e]
      BY <1>0, <3>1, DetachFacts DEF OwnSound
    <3>3. op'[c].pc = "reset" /\ op'[c].todo = op[c].todo \ {d} /\ op[c].todo \subseteq Databases
      BY <1>0, <3>1 DEF Op
    <3>4. \A e \in Databases \ {d} : database[c][e] # database[c][d]
      BY <1>0, <3>1, ApartAlone
    <3> QED
      BY <3>2, <3>3, <3>4, DefaultAssumption DEF ApartSound, NoPath
  <2>6. ASSUME NEW d \in Databases, ReaddObtains(c, d) PROVE ApartSound(c)'
    <3>1. /\ op[c].pc = "readd" /\ op[c].adds[d] # NoAdds[d]
          /\ GetDatabase(d) /\ Attach(c, d, path'[d]) /\ op' = op
      BY <2>6 DEF ReaddObtains
    <3>2. d \in Opens[c] /\ op[c].todo = {}
      BY <1>0, <3>1 DEF CallSound
    <3> QED
      BY <1>0, <3>1, <3>2, ApartAsk DEF ApartSound
  <2>7. ASSUME NEW d \in Databases, NEW s \in Sections, Readd(c, d, s) \/ ReaddFails(c, d, s)
        PROVE  ApartSound(c)'
    <3>1. op[c].pc = "readd" /\ database' = database /\ op' = [op EXCEPT ![c].adds[d][s] = @ - 1]
      BY <2>7 DEF Readd, ReaddFails
    <3>2. op'[c].pc = op[c].pc /\ op'[c].todo = op[c].todo
      BY <1>0, <3>1 DEF Op
    <3> QED
      BY <3>1, <3>2 DEF ApartSound
  <2> QED
    BY <1>3, <2>1, <2>2, <2>3, <2>4, <2>5, <2>6, <2>7 DEF CallStep
<1> QED
  BY <1>1, <1>2, <1>3 DEF Step

LEMMA ApartInvariant ==
    ASSUME Apart PROVE Spec => []ApartInv
<1>1. Init => ApartInv
  BY OpFacts, DefaultAssumption DEF Init, ApartInv, ApartSound, Unloaded, NoPath
<1>2. EngineInv /\ ApartInv /\ [Next]_vars => ApartInv'
  <2>1. SUFFICES ASSUME EngineInv, ApartInv, [Next]_vars PROVE ApartInv'
    OBVIOUS
  <2>2. ASSUME NEW c \in Clients, Step(c) PROVE ApartInv'
    <3>1. ApartSound(c)'
      BY <2>1, <2>2, ApartKeeps DEF ApartInv
    <3>2. \A b \in Clients \ {c} : ApartSound(b)'
      BY <2>1, <2>2, StepsOfOne DEF EngineInv, Bystander, ApartInv, ApartSound
    <3> QED
      BY <3>1, <3>2 DEF ApartInv
  <2>3. CASE Gone \/ Back \/ UNCHANGED vars
    BY <2>1, <2>3 DEF Gone, Back, vars, envars, ApartInv, ApartSound
  <2> QED
    BY <2>1, <2>2, <2>3 DEF Next, Step
<1> QED
  BY <1>1, <1>2, EngineInvariant, PTL DEF Spec

(* Type correctness, and engines_by_db: it finds exactly the engines that have *)
(* a path, and no program dies in reinitialize_databases, as long as it uses   *)
(* one database besides the default (gconf_engine_set_database,              *)
(* database_hash_value_destroy).                                             *)
THEOREM TableStaysSound ==
    ASSUME Apart PROVE Spec => []EngineTableSound
<1>1. EngineInv /\ ApartInv => EngineTableSound
  BY DEF EngineInv, ApartInv, ApartSound, TableSound, EngineTableSound
<1> QED
  BY <1>1, EngineInvariant, ApartInvariant, PTL

-----------------------------------------------------------------------------
(* What each step of a program does to its requests.                         *)

SameCall(c) == op'[c].call = op[c].call /\ op'[c].db = op[c].db
               /\ op'[c].section = op[c].section
SameListed(c) ==
    \A d \in Databases : /\ counted'[d][c] = counted[d][c]
                         /\ \A s \in Sections : listed'[d][c][s] = listed[d][c][s]
SamePaths(c) == \A d \in Databases : database'[c][d] = NoPath => database[c][d] = NoPath
Asking(c) == op[c].call \in {"add", "remove"}

(* The program asks for nothing new and nothing is decided.                   *)
Moves(c) ==
    /\ held'[c] = held[c] /\ SameListed(c) /\ SamePaths(c)
    /\ op'[c].adds = op[c].adds
    /\ SameCall(c) \/ (~ Asking(c) /\ ~ Asking(c)')
    /\ op'[c].pc \in {"reset", "readd"} => op[c].pc \in {"reset", "readd"}
    /\ op'[c].pc = "send" => database'[c][op'[c].db] # NoPath

(* It is to add every request of the engines with a path again.               *)
Recovers(c) ==
    /\ held'[c] = held[c] /\ SameListed(c) /\ database'[c] = database[c] /\ SameCall(c)
    /\ op'[c].pc = "reset"
    /\ \A d \in Databases :
          op'[c].adds[d] = IF database[c][d] # NoPath THEN held[c][d] ELSE NoAdds[d]

(* One request is at the daemon again.                                       *)
Readds(c) ==
    /\ held'[c] = held[c] /\ database'[c] = database[c] /\ SameCall(c)
    /\ op[c].pc = "readd" /\ op'[c].pc = "readd"
    /\ \E d \in Databases, s \in Sections :
          /\ op'[c].adds[d][s] = op[c].adds[d][s] - 1
          /\ listed'[d][c][s] = listed[d][c][s] + 1
          /\ counted'[d][c] = counted[d][c] + 1
          /\ \A e \in Databases \ {d} : counted'[e][c] = counted[e][c]
          /\ \A e \in Databases, t \in Sections : ~ (e = d /\ t = s) =>
                /\ op'[c].adds[e][t] = op[c].adds[e][t]
                /\ listed'[e][c][t] = listed[e][c][t]

(* The call proper.                                                          *)
Sends(c) ==
    /\ held'[c] = held[c] /\ database'[c] = database[c]
    /\ op[c].pc = "send" /\ op'[c] = Idle /\ database[c][op[c].db] # NoPath
    /\ ~ Missed(c) => \A d \in Databases, s \in Sections :
          listed'[d][c][s] = IF Adding(c, d, s) THEN listed[d][c][s] + 1
                             ELSE IF Removing(c, d, s) THEN LessOne(listed[d][c][s])
                             ELSE listed[d][c][s]
    /\ ~ Missed(c) => \A d \in Databases :
          counted'[d][c] = IF d = op[c].db /\ op[c].call = "add" THEN counted[d][c] + 1
                           ELSE IF d = op[c].db /\ op[c].call = "remove" THEN LessOne(counted[d][c])
                           ELSE counted[d][c]
    /\ ~ Asking(c) => SameListed(c)

(* Its failure.                                                              *)
Fails(c) ==
    /\ SameListed(c) /\ database'[c] = database[c]
    /\ op[c].pc \in Calling /\ op'[c] = Idle
    /\ ~ up \/ (op[c].pc = "send" /\ ObjectAt(database[c][op[c].db]) = {})
    /\ \A d \in Databases, s \in Sections :
          held'[c][d][s] = IF Adding(c, d, s) THEN held[c][d][s] - 1 ELSE held[c][d][s]

(* No signal is noticed, and no recovery begun.                               *)
Unnoticed(c) == (reconnect'[c] <=> reconnect[c]) /\ (running'[c] => running[c] \/ ~ reconnect[c])
Noticed(c) == reconnect[c] /\ ~ reconnect'[c] /\ (running[c] \/ up)

LEMMA MovesFacts ==
    ASSUME TypeOK, NEW c \in Clients, held' = held,
           SameListed(c), SamePaths(c), op[c] \in Op,
           op'[c].adds = op[c].adds,
           SameCall(c) \/ (~ Asking(c) /\ ~ Asking(c)'),
           op'[c].pc \in {"reset", "readd"} => op[c].pc \in {"reset", "readd"},
           op'[c].pc = "send" => database'[c][op'[c].db] # NoPath
    PROVE  Moves(c)
BY DEF Moves

(* Where a program that has missed no exit asks, it finds its database.       *)
LEMMA RightPath ==
    ASSUME TypeOK, ServerSound, NEW c \in Clients, Current(c), alive[c], ~ Missed(c),
           NEW d \in Databases, d \notin op[c].todo, database[c][d] # NoPath
    PROVE  ObjectAt(database[c][d]) = {d}
<1>1. path[d] = database[c][d]
  BY DEF Current
<1> QED
  BY <1>1, ObjectAtPath DEF TypeOK

LEMMA StageFacts ==
    ASSUME Apart, EngineInv, NEW c \in Clients, ApartSound(c), CallStep(c),
           op[c].pc \in {"reset", "readd"} => up /\ ~ Missed(c)
    PROVE  /\ alive[c] /\ alive'[c] /\ queue'[c] = queue[c] /\ (up' <=> up) /\ exits' = exits
           /\ \/ Recovers(c) /\ Noticed(c)
              \/ Unnoticed(c) /\ (Moves(c) \/ Readds(c) \/ Sends(c) \/ Fails(c))
<1> USE DEF TypeOK, EngineInv
<1>0. /\ OwnSound(c) /\ CallSound(c) /\ op[c] \in Op /\ op[c].db \in Databases
      /\ Opens[c] \subseteq Databases /\ ServerSound /\ SvTypeOK /\ Current(c)
  BY OpensAssumption DEF OwnSound, Op
<1>1. op[c].pc # "idle" /\ alive[c]
  <2>1. op[c].pc # "idle"
    BY DEF CallStep, Ensure, ResetDone, ReaddDone, Obtain, Send, CallFails, Reset, ResetFails,
           ReaddObtains, Readd, ReaddFails
  <2> QED
    BY <1>0, <2>1, OpFacts DEF CallSound
<1>2. /\ alive' = alive /\ queue' = queue /\ (up' <=> up) /\ exits' = exits
  <2>1. alive' = alive /\ queue' = queue
    BY DEF CallStep, Ensure, ResetDone, ReaddDone, Obtain, Send, CallFails, Reset, ResetFails,
           ReaddObtains, Readd, ReaddFails
  <2>2. UNCHANGED <<up, exits>>
    <3>1. ServerStep(c)
      BY <1>0, StepsOfOne DEF Step, OwnSound
    <3> QED
      BY <1>0, <3>1, ServerStepFacts
  <2> QED
    BY <2>1, <2>2
<1>u. running' = running /\ reconnect' = reconnect => Unnoticed(c)
  BY DEF Unnoticed
<1> DEFINE Shape == \/ Recovers(c) /\ Noticed(c)
                    \/ Unnoticed(c) /\ (Moves(c) \/ Readds(c) \/ Sends(c) \/ Fails(c))
           Goes == IF database[c][op[c].db] = NoPath THEN "obtain" ELSE "send"
<1>3. ASSUME Ensure(c) PROVE Shape
  <2>1. /\ op[c].pc = "ensure" /\ (running[c] \/ up)
        /\ running' = [running EXCEPT ![c] = TRUE]
        /\ reconnect' = [reconnect EXCEPT ![c] = FALSE]
        /\ UNCHANGED <<svvars, database, held>>
        /\ IF reconnect[c] THEN Reinitialize(c) ELSE Goto(c, Proceed(c, database[c]))
    BY <1>3 DEF Ensure
  <2>2. SameListed(c) /\ SamePaths(c)
    BY <2>1 DEF SameListed, SamePaths, svvars
  <2>3. CASE reconnect[c]
    <3>r. Reinitialize(c)
      BY ONLY <1>3, <2>3 DEF Ensure
    <3>0. op[c].pc \in {"idle", "ensure"}
      BY <1>3 DEF Ensure
    <3>1. /\ SameCall(c) /\ op'[c].pc = "reset"
          /\ \A d \in Databases :
                op'[c].adds[d] = IF database[c][d] # NoPath THEN held[c][d] ELSE NoAdds[d]
      BY <1>0, <3>0, <3>r, ReinitializeFacts DEF SameCall
    <3>2. ~ reconnect'[c] /\ database'[c] = database[c] /\ held'[c] = held[c]
      BY <2>1
    <3> QED
      BY <2>1, <2>2, <2>3, <3>1, <3>2 DEF Recovers, Noticed
  <2>4. CASE ~ reconnect[c]
    <3>1. op'[c] = [op[c] EXCEPT !.pc = Goes]
      BY <2>1, <2>4 DEF Goto, Proceed
    <3>2. SameCall(c) /\ op'[c].adds = op[c].adds /\ op'[c].pc = Goes
      BY <1>0, <3>1 DEF SameCall, Op
    <3>3. op'[c].pc = "send" => database'[c][op'[c].db] # NoPath
      BY <2>1, <3>2 DEF SameCall
    <3> QED
      BY <2>1, <2>2, <2>4, <3>2, <3>3 DEF Moves, Unnoticed
  <2> QED
    BY <2>3, <2>4
<1>4. ASSUME ResetDone(c) PROVE Shape
  <2>1. /\ op[c].pc = "reset" /\ op' = [op EXCEPT ![c].pc = "readd"]
        /\ UNCHANGED <<svvars, running, reconnect, database, held>>
    BY <1>4 DEF ResetDone, Goto
  <2>2. op'[c] = [op[c] EXCEPT !.pc = "readd"]
    BY <2>1
  <2>3. SameCall(c) /\ op'[c].adds = op[c].adds /\ op'[c].pc = "readd"
    BY <1>0, <2>2 DEF SameCall, Op
  <2>4. SameListed(c) /\ SamePaths(c)
    BY <2>1 DEF SameListed, SamePaths, svvars
  <2> QED
    BY <1>0, <2>1, <2>3, <2>4, MovesFacts, <1>u
<1>5. ASSUME ReaddDone(c) PROVE Shape
  <2>1. /\ op[c].pc = "readd" /\ op[c].adds = NoAdds
        /\ UNCHANGED <<svvars, running, reconnect, database, held>>
        /\ IF op[c].call = "none" THEN Finish(c) ELSE Goto(c, Proceed(c, database[c]))
    BY <1>5 DEF ReaddDone
  <2>2. SameListed(c) /\ SamePaths(c)
    BY <2>1 DEF SameListed, SamePaths, svvars
  <2>3. CASE op[c].call = "none"
    <3>1. op'[c] = Idle /\ ~ Asking(c)
      BY <2>1, <2>3 DEF Finish, Asking
    <3> QED
      BY <1>0, <2>1, <2>2, <3>1, OpFacts, MovesFacts, <1>u DEF Asking
  <2>4. CASE op[c].call # "none"
    <3>1. op'[c] = [op[c] EXCEPT !.pc = Goes]
      BY <2>1, <2>4 DEF Goto, Proceed
    <3>2. SameCall(c) /\ op'[c].adds = op[c].adds /\ op'[c].pc = Goes
      BY <1>0, <3>1 DEF SameCall, Op
    <3>3. op'[c].pc = "send" => database'[c][op'[c].db] # NoPath
      BY <2>1, <3>2 DEF SameCall
    <3> QED
      BY <1>0, <2>1, <2>2, <3>2, <3>3, MovesFacts, <1>u
  <2> QED
    BY <2>3, <2>4
<1>6. ASSUME NEW d \in Opens[c], GetDatabase(d), Attach(c, d, path'[d])
      PROVE  SameListed(c) /\ SamePaths(c) /\ database'[c][d] # NoPath
  <2>1. /\ database'[c][d] = path'[d] /\ path'[d] \in Paths
        /\ \A e \in Databases \ {d} : database'[c][e] = database[c][e]
    BY <1>0, <1>6, ApartAsk
  <2> QED
    BY <1>6, <2>1, PathFacts DEF GetDatabase, SameListed, SamePaths
<1>7. ASSUME Obtain(c) PROVE Shape
  <2> DEFINE d == op[c].db
  <2>1. /\ op[c].pc = "obtain" /\ GetDatabase(d) /\ Attach(c, d, path'[d])
        /\ UNCHANGED <<running, reconnect, held>>
        /\ IF op[c].call = "open" THEN Finish(c) ELSE Goto(c, "send")
    BY <1>7 DEF Obtain
  <2>2. d \in Opens[c] /\ op[c].adds = NoAdds
    BY <1>0, <2>1 DEF CallSound, Calling
  <2>3. SameListed(c) /\ SamePaths(c) /\ database'[c][d] # NoPath
    BY <1>6, <2>1, <2>2
  <2>4. CASE op[c].call = "open"
    <3>1. op'[c] = Idle /\ ~ Asking(c)
      BY <2>1, <2>4 DEF Finish, Asking
    <3> QED
      BY <1>0, <2>1, <2>2, <2>3, <3>1, OpFacts, MovesFacts, <1>u DEF Asking
  <2>5. CASE op[c].call # "open"
    <3>1. op'[c] = [op[c] EXCEPT !.pc = "send"]
      BY <2>1, <2>5 DEF Goto
    <3>2. SameCall(c) /\ op'[c].adds = op[c].adds /\ op'[c].pc = "send"
      BY <1>0, <3>1 DEF SameCall, Op
    <3> QED
      BY <1>0, <2>1, <2>3, <3>2, MovesFacts, <1>u DEF SameCall
  <2> QED
    BY <2>4, <2>5
<1>8. ASSUME Send(c) PROVE Shape
  <2>1. /\ op[c].pc = "send" /\ op' = [op EXCEPT ![c] = Idle]
        /\ UNCHANGED <<running, reconnect, database, held>>
    BY <1>8 DEF Send, Finish
  <2>2. PICK e \in ObjectAt(database[c][op[c].db]) :
           CASE op[c].call = "add" -> AddNotify(e, c, op[c].section)
             [] op[c].call = "remove" -> RemoveNotify(e, c, op[c].section)
             [] OTHER -> UNCHANGED svvars
    BY <1>8 DEF Send
  <2>3. e \in Databases /\ database[c][op[c].db] # NoPath
    BY <2>2 DEF ObjectAt
  <2>4. ~ Missed(c) => e = op[c].db
    <3>1. op[c].todo = {}
      BY <1>0, <2>1 DEF CallSound
    <3>2. ~ Missed(c) => ObjectAt(database[c][op[c].db]) = {op[c].db}
      BY <1>0, <1>1, <2>3, <3>1, RightPath
    <3> QED
      BY <2>2, <3>2
  <2>5. /\ op[c].call = "add" => AddNotify(e, c, op[c].section)
        /\ op[c].call = "remove" => RemoveNotify(e, c, op[c].section)
        /\ ~ Asking(c) => UNCHANGED svvars
    <3>1. CASE op[c].call = "add"
      BY <2>2, <3>1 DEF Asking
    <3>2. CASE op[c].call = "remove"
      BY <2>2, <3>2 DEF Asking
    <3>3. CASE ~ Asking(c)
      BY <2>2, <3>3 DEF Asking
    <3> QED
      BY <3>1, <3>2, <3>3 DEF Asking
  <2>6. Asking(c) => op[c].section \in Sections
    BY <1>0 DEF CallSound, Asking
  <2>7. ~ Missed(c) => \A d \in Databases, s \in Sections :
          listed'[d][c][s] = IF Adding(c, d, s) THEN listed[d][c][s] + 1
                             ELSE IF Removing(c, d, s) THEN LessOne(listed[d][c][s])
                             ELSE listed[d][c][s]
    <3>1. CASE op[c].call = "add"
      BY <1>0, <2>3, <2>4, <2>5, <2>6, <3>1, AddNotifyFacts DEF Adding, Removing, Asking
    <3>2. CASE op[c].call = "remove"
      BY <1>0, <2>3, <2>4, <2>5, <2>6, <3>2, RemoveNotifyFacts DEF Adding, Removing, Asking
    <3>3. CASE ~ Asking(c)
      BY <2>5, <3>3 DEF Adding, Removing, Asking, svvars
    <3> QED
      BY <3>1, <3>2, <3>3 DEF Asking
  <2>8. ~ Asking(c) => SameListed(c)
    BY <2>5 DEF SameListed, svvars
  <2>9. ~ Missed(c) => \A d \in Databases :
          counted'[d][c] = IF d = op[c].db /\ op[c].call = "add" THEN counted[d][c] + 1
                           ELSE IF d = op[c].db /\ op[c].call = "remove" THEN LessOne(counted[d][c])
                           ELSE counted[d][c]
    <3>1. CASE op[c].call = "add"
      BY <1>0, <2>3, <2>4, <2>5, <2>6, <3>1, AddNotifyFacts DEF Asking
    <3>2. CASE op[c].call = "remove"
      BY <1>0, <2>3, <2>4, <2>5, <2>6, <3>2, RemoveNotifyFacts DEF Asking
    <3>3. CASE ~ Asking(c)
      BY <2>5, <3>3 DEF Asking, svvars
    <3> QED
      BY <3>1, <3>2, <3>3 DEF Asking
  <2> QED
    BY <1>u, <2>1, <2>3, <2>7, <2>8, <2>9 DEF Sends
<1>9. ASSUME CallFails(c) PROVE Shape
  <2>1. /\ op[c].pc \in Calling /\ op' = [op EXCEPT ![c] = Idle]
        /\ ~ up \/ (op[c].pc = "send" /\ ObjectAt(database[c][op[c].db]) = {})
        /\ UNCHANGED <<svvars, running, reconnect, database>>
        /\ IF op[c].call = "add"
           THEN held' = [held EXCEPT ![c][op[c].db][op[c].section] = @ - 1]
           ELSE UNCHANGED held
    BY <1>9 DEF CallFails, Finish, Calling
  <2>2. \A d \in Databases, s \in Sections :
          held'[c][d][s] = IF Adding(c, d, s) THEN held[c][d][s] - 1 ELSE held[c][d][s]
    <3>1. CASE op[c].call = "add"
      <4>1. held' = [held EXCEPT ![c][op[c].db][op[c].section] = @ - 1]
        BY <2>1, <3>1
      <4>2. op[c].section \in Sections
        BY <1>0, <3>1 DEF CallSound
      <4> QED
        BY <1>0, <3>1, <4>1, <4>2 DEF Adding
    <3>2. CASE op[c].call # "add"
      BY <2>1, <3>2 DEF Adding
    <3> QED
      BY <3>1, <3>2
  <2> QED
    BY <1>u, <2>1, <2>2 DEF Fails, SameListed, svvars
<1>10. ASSUME NEW d \in Databases, Reset(c, d) PROVE Shape
  <2>1. /\ op[c].pc = "reset" /\ d \in op[c].todo /\ database[c][d] # NoPath
        /\ GetDatabase(d) /\ Attach(c, d, path'[d])
        /\ op' = [op EXCEPT ![c].todo = @ \ {d}]
        /\ UNCHANGED <<running, reconnect, held>>
    BY <1>10 DEF Reset, ApartSound
  <2>2. d \in Opens[c]
    BY <1>0, <2>1 DEF CallSound
  <2>3. SameListed(c) /\ SamePaths(c)
    BY <1>6, <2>1, <2>2
  <2>4. op'[c] = [op[c] EXCEPT !.todo = op[c].todo \ {d}]
    BY <2>1
  <2>5. SameCall(c) /\ op'[c].adds = op[c].adds /\ op'[c].pc = "reset"
    BY <1>0, <2>1, <2>4 DEF SameCall, Op
  <2> QED
    BY <1>0, <2>1, <2>3, <2>5, MovesFacts, <1>u
<1>11. ASSUME NEW d \in Databases, ResetFails(c, d) PROVE Shape
  BY <1>11 DEF ResetFails
<1>12. ASSUME NEW d \in Databases, ReaddObtains(c, d) PROVE Shape
  <2>1. /\ op[c].pc = "readd" /\ op[c].adds[d] # NoAdds[d]
        /\ GetDatabase(d) /\ Attach(c, d, path'[d])
        /\ UNCHANGED <<running, reconnect, held, op>>
    BY <1>12 DEF ReaddObtains
  <2>2. d \in Opens[c]
    BY <1>0, <2>1 DEF CallSound
  <2>3. SameListed(c) /\ SamePaths(c)
    BY <1>6, <2>1, <2>2
  <2> QED
    BY <1>0, <2>1, <2>3, MovesFacts, <1>u DEF SameCall
<1>13. ASSUME NEW d \in Databases, NEW s \in Sections, Readd(c, d, s) PROVE Shape
  <2>1. /\ op[c].pc = "readd" /\ op[c].adds[d][s] > 0 /\ database[c][d] # NoPath
        /\ \E e \in ObjectAt(database[c][d]) : AddNotify(e, c, s)
        /\ op' = [op EXCEPT ![c].adds[d][s] = @ - 1]
        /\ UNCHANGED <<running, reconnect, database, held>>
    BY <1>13 DEF Readd
  <2>2. ObjectAt(database[c][d]) = {d}
    <3>1. op[c].todo = {}
      BY <1>0, <2>1 DEF CallSound
    <3> QED
      BY <1>0, <1>1, <2>1, <3>1, RightPath
  <2>3. AddNotify(d, c, s)
    BY <2>1, <2>2
  <2>4. /\ listed'[d][c][s] = listed[d][c][s] + 1
        /\ counted'[d][c] = counted[d][c] + 1
        /\ \A e \in Databases \ {d} : counted'[e][c] = counted[e][c]
        /\ \A e \in Databases, t \in Sections : ~ (e = d /\ t = s) =>
              listed'[e][c][t] = listed[e][c][t]
    BY <1>0, <2>3, AddNotifyFacts
  <2> DEFINE adds == [op[c].adds EXCEPT ![d][s] = @ - 1]
  <2>5. op'[c] = [op[c] EXCEPT !.adds = adds]
    BY <2>1
  <2>6. /\ adds[d][s] = op[c].adds[d][s] - 1
        /\ \A e \in Databases, t \in Sections : ~ (e = d /\ t = s) =>
              adds[e][t] = op[c].adds[e][t]
    <3>1. op[c].adds \in [Databases -> [Sections -> Nat]]
      BY <1>0 DEF Op
    <3> QED
      BY <3>1
  <2> HIDE DEF adds
  <2>7. SameCall(c) /\ op'[c].adds = adds /\ op'[c].pc = "readd"
    BY <1>0, <2>1, <2>5 DEF SameCall, Op
  <2>8. /\ held'[c] = held[c] /\ database'[c] = database[c]
        BY <2>1
  <2>9. \E b \in Databases, r \in Sections :
          /\ op'[c].adds[b][r] = op[c].adds[b][r] - 1
          /\ listed'[b][c][r] = listed[b][c][r] + 1
          /\ counted'[b][c] = counted[b][c] + 1
          /\ \A e \in Databases \ {b} : counted'[e][c] = counted[e][c]
          /\ \A e \in Databases, t \in Sections : ~ (e = b /\ t = r) =>
                /\ op'[c].adds[e][t] = op[c].adds[e][t]
                /\ listed'[e][c][t] = listed[e][c][t]
    <3>1. d \in Databases /\ s \in Sections
      OBVIOUS
    <3>2. op'[c].adds = adds
      BY <2>7
    <3> QED
      BY ONLY <2>4, <2>6, <3>1, <3>2
  <2>10. Readds(c)
    BY <2>1, <2>7, <2>8, <2>9 DEF Readds
  <2> QED
    BY <1>u, <2>1, <2>10
<1>14. ASSUME NEW d \in Databases, NEW s \in Sections, ReaddFails(c, d, s) PROVE Shape
  <2>1. /\ op[c].pc = "readd"
        /\ ~ up \/ (database[c][d] # NoPath /\ ObjectAt(database[c][d]) = {})
    BY <1>14 DEF ReaddFails
  <2>2. op[c].todo = {} /\ up /\ ~ Missed(c)
    BY <1>0, <2>1 DEF CallSound
  <2>3. database[c][d] # NoPath => ObjectAt(database[c][d]) = {d}
    BY <1>0, <1>1, <2>2, RightPath
  <2> QED
    BY <2>1, <2>2, <2>3
<1> HIDE DEF Goes
<1>15. Shape
  BY <1>3, <1>4, <1>5, <1>7, <1>8, <1>9, <1>10, <1>11, <1>12, <1>13, <1>14 DEF CallStep
<1> QED
  BY <1>1, <1>2, <1>15

(* A request more, or one less, for the program to tell gconfd.               *)
Asks(c, call, d, s) ==
    /\ op'[c].pc = "ensure" /\ op'[c].adds = NoAdds
    /\ op'[c].call = call /\ op'[c].db = d /\ op'[c].section = s

Adds(c) ==
    /\ database'[c] = database[c] /\ SameListed(c) /\ op[c] = Idle
    /\ Orderly => Recovered(c)
    /\ \E d \in Databases, s \in Sections :
          /\ held[c][d][s] < MaxHeld
          /\ Asks(c, "add", d, s)
          /\ held'[c][d][s] = held[c][d][s] + 1
          /\ \A e \in Databases, t \in Sections : ~ (e = d /\ t = s) =>
                held'[c][e][t] = held[c][e][t]

Removes(c) ==
    /\ database'[c] = database[c] /\ SameListed(c) /\ op[c] = Idle
    /\ Orderly => Recovered(c)
    /\ \E d \in Databases, s \in Sections :
          /\ held[c][d][s] > 0
          /\ Asks(c, "remove", d, s)
          /\ held'[c][d][s] = held[c][d][s] - 1
          /\ \A e \in Databases, t \in Sections : ~ (e = d /\ t = s) =>
                held'[c][e][t] = held[c][e][t]

(* An engine is dropped, with its requests and its path.                      *)
Drops(c) ==
    /\ Unrefs /\ SameListed(c) /\ op[c] = Idle /\ op'[c] = Idle
    /\ \E d \in Databases :
          /\ \A s \in Sections : held'[c][d][s] = 0
          /\ \A e \in Databases \ {d} :
                held'[c][e] = held[c][e] /\ database'[c][e] = database[c][e]

Leaves(c) ==
    /\ ~ alive'[c] /\ queue'[c] = <<>> /\ held'[c] = NoAdds /\ database'[c] = database[c]
    /\ op[c] = Idle /\ op'[c] = Idle
    /\ (reconnect'[c] <=> reconnect[c]) /\ (running'[c] <=> running[c])
    /\ ClientVanishes(c)

LEMMA ApiFacts ==
    ASSUME Apart, EngineInv, NEW c \in Clients, ApartSound(c), Api(c)
    PROVE  /\ alive[c] /\ (up' <=> up) /\ exits' = exits
           /\ \/ Leaves(c)
              \/ /\ alive'[c] /\ queue'[c] = queue[c] /\ Unnoticed(c)
                 /\ Moves(c) \/ Adds(c) \/ Removes(c) \/ Drops(c)
<1> USE DEF TypeOK, EngineInv
<1>0. /\ OwnSound(c) /\ CallSound(c) /\ TableTyped /\ ServerSound /\ SvTypeOK
  BY DEF OwnSound, TableTyped
<1>1. alive[c] /\ op[c] = Idle
  BY DEF Api, OpenDefault, OpenEngine, Use, Unref, NotifyAdd, NotifyRemove, Start, Exit
<1>2. (up' <=> up) /\ exits' = exits
  <2>1. ServerStep(c)
    BY <1>0, StepsOfOne DEF Step, OwnSound
  <2> QED
    BY <1>0, <2>1, ServerStepFacts
<1> DEFINE Shape == /\ alive'[c] /\ queue'[c] = queue[c] /\ Unnoticed(c)
                    /\ Moves(c) \/ Adds(c) \/ Removes(c) \/ Drops(c)
<1>3. ASSUME UNCHANGED <<svvars, alive, queue, running, reconnect>>
      PROVE  alive'[c] /\ queue'[c] = queue[c] /\ Unnoticed(c) /\ SameListed(c)
  BY <1>1, <1>3 DEF Unnoticed, SameListed, svvars
<1>4. ASSUME NEW call \in Calls, NEW d \in Databases, NEW s \in Sections \cup {NoSection},
             Start(c, call, d, s)
      PROVE  /\ alive'[c] /\ queue'[c] = queue[c] /\ Unnoticed(c) /\ SameListed(c)
             /\ database'[c] = database[c]
             /\ Asks(c, call, d, s)
  <2>1. op'[c] = [Idle EXCEPT !.pc = "ensure", !.call = call, !.db = d, !.section = s]
    BY <1>1, <1>4 DEF Start
  <2>2. Asks(c, call, d, s)
    BY <2>1 DEF Asks, Idle
  <2> QED
    BY <1>1, <1>3, <1>4, <2>2 DEF Start
<1>5. ASSUME NEW call \in {"open", "use"}, NEW d \in Databases, Start(c, call, d, NoSection),
             held' = held
      PROVE  Shape
  <2>1. /\ alive'[c] /\ queue'[c] = queue[c] /\ Unnoticed(c) /\ SameListed(c)
        /\ database'[c] = database[c]
        /\ Asks(c, call, d, NoSection)
    <3>1. call \in Calls
      BY DEF Calls
    <3> QED
      BY <1>4, <1>5, <3>1
  <2>3. Moves(c)
    BY <1>1, <1>5, <2>1, OpFacts DEF Moves, Asking, Asks, SamePaths
  <2> QED
    BY <2>1, <2>3
<1>6. ASSUME OpenDefault(c) PROVE Shape
  <2>1. UNCHANGED <<svvars, alive, queue, running, reconnect, database, held, op>>
    BY <1>6 DEF OpenDefault
  <2>2. Moves(c)
    BY <1>1, <1>3, <2>1, OpFacts DEF Moves, SameCall, SamePaths
  <2> QED
    BY <1>3, <2>1, <2>2
<1>7. ASSUME NEW d \in Databases, OpenEngine(c, d) \/ Use(c, d) PROVE Shape
  BY <1>5, <1>7 DEF OpenEngine, Use
<1>8. ASSUME NEW d \in Databases, Unref(c, d) PROVE Shape
  <2>1. /\ UNCHANGED <<svvars, alive, queue, running, reconnect, op>> /\ Unrefs
        /\ held' = [held EXCEPT ![c][d] = NoAdds[d]]
    BY <1>8 DEF Unref
  <2>2. \A e \in Databases \ {d} : database'[c][e] = database[c][e]
    <3>1. CASE database[c][d] = NoPath
      BY <1>8, <3>1 DEF Unref
    <3>2. CASE database[c][d] # NoPath
      <4>1. \A e \in Databases : database'[c][e] = IF database[c][e] = database[c][d]
                                                   THEN NoPath ELSE database[c][e]
        BY <1>0, <1>8, <3>2, DetachFacts DEF Unref, OwnSound
      <4> QED
        BY <1>0, <3>2, <4>1, ApartAlone
    <3> QED
      BY <3>1, <3>2
  <2>3. /\ \A s \in Sections : held'[c][d][s] = 0
        /\ \A e \in Databases \ {d} : held'[c][e] = held[c][e]
    BY <2>1 DEF NoAdds
  <2> QED
    BY <1>1, <1>3, <2>1, <2>2, <2>3 DEF Drops
<1>9. ASSUME NEW d \in Databases, NEW s \in Sections, NotifyAdd(c, d, s) PROVE Shape
  <2>1. /\ Start(c, "add", d, s) /\ (Orderly => Recovered(c)) /\ held[c][d][s] < MaxHeld
        /\ held' = [held EXCEPT ![c][d][s] = @ + 1]
    BY <1>9 DEF NotifyAdd
  <2>2. /\ alive'[c] /\ queue'[c] = queue[c] /\ Unnoticed(c) /\ SameListed(c)
        /\ database'[c] = database[c]
        /\ Asks(c, "add", d, s)
    <3>1. "add" \in Calls
      BY DEF Calls
    <3> QED
      BY <1>4, <2>1, <3>1
  <2>3. /\ held'[c][d][s] = held[c][d][s] + 1
        /\ \A e \in Databases, t \in Sections : ~ (e = d /\ t = s) =>
              held'[c][e][t] = held[c][e][t]
    BY <2>1
  <2>4. \E b \in Databases, r \in Sections :
          /\ held[c][b][r] < MaxHeld
          /\ Asks(c, "add", b, r)
          /\ held'[c][b][r] = held[c][b][r] + 1
          /\ \A e \in Databases, t \in Sections : ~ (e = b /\ t = r) =>
                held'[c][e][t] = held[c][e][t]
    BY <2>1, <2>2, <2>3
  <2>5. Adds(c)
    BY <1>1, <2>1, <2>2, <2>4 DEF Adds
  <2> QED
    BY <2>2, <2>5
<1>10. ASSUME NEW d \in Databases, NEW s \in Sections, NotifyRemove(c, d, s) PROVE Shape
  <2>1. /\ Start(c, "remove", d, s) /\ (Orderly => Recovered(c)) /\ held[c][d][s] > 0
        /\ held' = [held EXCEPT ![c][d][s] = @ - 1]
    BY <1>10 DEF NotifyRemove
  <2>2. /\ alive'[c] /\ queue'[c] = queue[c] /\ Unnoticed(c) /\ SameListed(c)
        /\ database'[c] = database[c]
        /\ Asks(c, "remove", d, s)
    <3>1. "remove" \in Calls
      BY DEF Calls
    <3> QED
      BY <1>4, <2>1, <3>1
  <2>3. /\ held'[c][d][s] = held[c][d][s] - 1
        /\ \A e \in Databases, t \in Sections : ~ (e = d /\ t = s) =>
              held'[c][e][t] = held[c][e][t]
    BY <2>1
  <2>4. \E b \in Databases, r \in Sections :
          /\ held[c][b][r] > 0
          /\ Asks(c, "remove", b, r)
          /\ held'[c][b][r] = held[c][b][r] - 1
          /\ \A e \in Databases, t \in Sections : ~ (e = b /\ t = r) =>
                held'[c][e][t] = held[c][e][t]
    BY <2>1, <2>2, <2>3
  <2>5. Removes(c)
    BY <1>1, <2>1, <2>2, <2>4 DEF Removes
  <2> QED
    BY <2>2, <2>5
<1>11. ASSUME Exit(c) PROVE Leaves(c)
  BY <1>1, <1>11 DEF Exit, Leaves
<1>12. Leaves(c) \/ Shape
  BY <1>6, <1>7, <1>8, <1>9, <1>10, <1>11 DEF Api
<1> QED
  BY <1>1, <1>2, <1>12

LEMMA DispatchFacts ==
    ASSUME EngineInv, NEW c \in Clients, GoneOnce(c), Dispatch(c)
    PROVE  /\ alive[c] /\ alive'[c] /\ (up' <=> up) /\ exits' = exits /\ GoneOnce(c)'
           /\ \/ Recovers(c) /\ up /\ ~ Missed(c)' /\ Missed(c)
              \/ (Missed(c)' <=> Missed(c)) /\ Moves(c)
<1> USE DEF TypeOK, EngineInv
<1>0. OwnSound(c) /\ BackMeansUp(c)
  BY DEF OwnSound
<1>1. /\ alive[c] /\ op[c] = Idle /\ queue[c] # <<>>
      /\ UNCHANGED <<svvars, alive, database, known, held>>
      /\ queue' = [queue EXCEPT ![c] = Tail(@)]
  BY DEF Dispatch, NoticeGone, NoticeBack
<1>2. alive'[c] /\ (up' <=> up) /\ exits' = exits /\ SameListed(c) /\ SamePaths(c)
      /\ held'[c] = held[c] /\ database'[c] = database[c]
  BY <1>1 DEF svvars, SameListed, SamePaths
<1> DEFINE q == queue[c]
           t == Tail(q)
           HasGone(r) == \E i \in DOMAIN r : r[i] = "gone"
           One(r) == \A i, j \in DOMAIN r : r[i] = "gone" /\ r[j] = "gone" => i = j
<1>3. /\ q \in Seq({"gone", "back"}) /\ q # <<>> /\ queue'[c] = t
  BY <1>1
<1>4. /\ DOMAIN q = 1..Len(q) /\ DOMAIN t = 1..(Len(q) - 1) /\ Len(q) \in Nat \ {0}
      /\ Head(q) = q[1]
      /\ \A i \in DOMAIN t : i + 1 \in DOMAIN q /\ t[i] = q[i + 1]
      /\ \A i \in DOMAIN q : i # 1 => i - 1 \in DOMAIN t /\ t[i - 1] = q[i]
  BY <1>3, TailFacts
<1>5. One(q)
  BY DEF GoneOnce
<1>6. HasGone(q) => ~ reconnect[c]
  BY DEF GoneOnce
<1>7. (Missed(c) <=> reconnect[c] \/ HasGone(q)) /\ (Missed(c)' <=> reconnect'[c] \/ HasGone(t))
  BY <1>3 DEF Missed
<1>8. GoneOnce(c)' <=> One(t) /\ (HasGone(t) => ~ reconnect'[c]) /\ (reconnect'[c] => ~ running'[c])
  BY <1>3 DEF GoneOnce
<1> HIDE DEF q, t
<1>9. Head(q) # "gone" => (HasGone(q) <=> HasGone(t))
  BY <1>4
<1>10. One(t)
  BY <1>4, <1>5
<1>11. Head(q) = "gone" => ~ HasGone(t)
  <2>1. SUFFICES ASSUME q[1] = "gone", NEW i \in DOMAIN t, t[i] = "gone" PROVE FALSE
    BY <1>4
  <2>2. 1 \in DOMAIN q /\ i + 1 \in DOMAIN q /\ q[i + 1] = "gone" /\ i \in Nat /\ i # 0
    BY <1>4, <2>1
  <2> QED
    BY <1>5, <2>1, <2>2
<1>14. 1 \in DOMAIN q
  BY <1>4
<1> HIDE DEF HasGone, One
<1>12. CASE NoticeGone(c)
  <2>1. Head(q) = "gone" /\ reconnect'[c] /\ ~ running'[c] /\ op' = op
    BY <1>12 DEF NoticeGone, q
  <2>2. HasGone(q)
    BY <1>4, <1>14, <2>1 DEF HasGone
  <2>3. Moves(c)
    BY <1>1, <1>2, <2>1, OpFacts DEF Moves, SameCall
  <2> QED
    BY <1>1, <1>2, <1>7, <1>8, <1>10, <1>11, <2>1, <2>2, <2>3
<1>13. CASE NoticeBack(c)
  <2>1. /\ Head(q) = "back" /\ ~ reconnect'[c] /\ running'[c]
        /\ IF reconnect[c] THEN Reinitialize(c) ELSE UNCHANGED op
    BY <1>13 DEF NoticeBack, q
  <2>2. CASE reconnect[c]
    <3>1. Reinitialize(c) /\ op[c].pc \in {"idle", "ensure"}
      BY <1>1, <2>1, <2>2, OpFacts
    <3>2. Recovers(c)
      BY <1>0, <1>2, <3>1, ReinitializeFacts DEF Recovers, SameCall
    <3>3. up
      <4>1. 1 \in DOMAIN q /\ q[1] = "back" /\ ~ HasGone(q)
        BY <1>4, <1>6, <2>1, <2>2
      <4> QED
        BY <1>0, <4>1 DEF BackMeansUp, HasGone, q
    <3> QED
      BY <1>1, <1>2, <1>6, <1>7, <1>8, <1>9, <1>10, <2>1, <2>2, <3>2, <3>3
  <2>3. CASE ~ reconnect[c]
    <3>1. Moves(c)
      BY <1>1, <1>2, <2>1, <2>3, OpFacts DEF Moves, SameCall
    <3> QED
      BY <1>1, <1>2, <1>7, <1>8, <1>9, <1>10, <2>1, <2>3, <3>1
  <2> QED
    BY <2>2, <2>3
<1> QED
  BY <1>12, <1>13 DEF Dispatch

(* All of it: the steps that change requests, and when they can be missed.     *)
LEMMA StepFacts ==
    ASSUME Apart, EngineInv, NEW c \in Clients, ApartSound(c), Step(c), GoneOnce(c),
           op[c].pc \in {"reset", "readd"} => up /\ ~ Missed(c)
    PROVE  /\ alive[c] /\ (up' <=> up) /\ exits' = exits /\ GoneOnce(c)'
           /\ \/ Leaves(c)
              \/ alive'[c] /\ Recovers(c) /\ up /\ ~ Missed(c)' /\ Missed(c)
              \/ /\ alive'[c] /\ (Missed(c)' <=> Missed(c))
                 /\ \/ Moves(c) \/ Readds(c) \/ Sends(c) \/ Fails(c)
                    \/ Adds(c) \/ Removes(c) \/ Drops(c)
<1>1. ASSUME queue'[c] = queue[c], Unnoticed(c)
      PROVE  GoneOnce(c)' /\ (Missed(c)' <=> Missed(c))
  BY <1>1 DEF Unnoticed, GoneOnce, Missed
<1>2. CASE Api(c)
  <2>1. ASSUME Leaves(c) PROVE GoneOnce(c)'
    <3>1. DOMAIN queue'[c] = {}
      BY <2>1 DEF Leaves
    <3> QED
      BY <2>1, <3>1 DEF Leaves, GoneOnce
  <2> QED
    BY <1>1, <1>2, <2>1, ApiFacts
<1>3. CASE Dispatch(c)
  BY <1>3, DispatchFacts
<1>4. CASE CallStep(c)
  <2>1. ASSUME queue'[c] = queue[c], Noticed(c)
        PROVE  GoneOnce(c)' /\ up /\ ~ Missed(c)' /\ Missed(c)
    BY <2>1 DEF Noticed, GoneOnce, Missed
  <2> QED
    BY <1>1, <1>4, <2>1, StageFacts
<1> QED
  BY <1>2, <1>3, <1>4 DEF Step

-----------------------------------------------------------------------------
(* One exit.                                                                 *)

LEMMA NumberFacts ==
    ASSUME EngineInv, EngineInv', NEW c \in Clients, NEW d \in Databases, NEW s \in Sections
    PROVE  /\ held[c][d][s] \in Nat /\ listed[d][c][s] \in Nat /\ op[c].adds[d][s] \in Nat
           /\ held'[c][d][s] \in Nat /\ listed'[d][c][s] \in Nat /\ op'[c].adds[d][s] \in Nat
           /\ NoAdds[d][s] = 0
<1>1. TypeOK /\ TypeOK'
  BY DEF EngineInv
<1>2. /\ op[c].adds \in [Databases -> [Sections -> Nat]]
      /\ op'[c].adds \in [Databases -> [Sections -> Nat]]
  BY <1>1 DEF TypeOK, Op
<1>3. /\ held[c][d][s] \in Nat /\ listed[d][c][s] \in Nat
      /\ held'[c][d][s] \in Nat /\ listed'[d][c][s] \in Nat
  BY <1>1 DEF TypeOK, SvTypeOK
<1> QED
  BY <1>2, <1>3 DEF NoAdds

LEMMA HeldKeeps ==
    ASSUME Apart, MaxHeld = 1, EngineInv, EngineInv', NEW c \in Clients, ApartSound(c),
           OnceSound(c), HeldSound(c), Step(c), NEW d \in Databases, NEW s \in Sections
    PROVE  HeldAt(c, d, s)'
<1>1. /\ held[c][d][s] \in Nat /\ listed[d][c][s] \in Nat /\ op[c].adds[d][s] \in Nat
      /\ held'[c][d][s] \in Nat /\ listed'[d][c][s] \in Nat /\ op'[c].adds[d][s] \in Nat
      /\ NoAdds[d][s] = 0
  BY NumberFacts
<1>2. HeldAt(c, d, s) /\ CallSound(c)
  BY DEF EngineInv, HeldSound
<1>3. ASSUME SameCall(c)
      PROVE  /\ Adding(c, d, s)' <=> Adding(c, d, s)
             /\ Removing(c, d, s)' <=> Removing(c, d, s)
  BY <1>3 DEF SameCall, Adding, Removing
<1>4. ASSUME op'[c] = Idle
      PROVE  ~ Adding(c, d, s)' /\ ~ Removing(c, d, s)' /\ op'[c].adds[d][s] = 0
  BY <1>1, <1>4, OpFacts DEF Adding, Removing
<1>5. ASSUME op[c] = Idle
      PROVE  ~ Adding(c, d, s) /\ ~ Removing(c, d, s) /\ op[c].adds[d][s] = 0
  BY <1>1, <1>5, OpFacts DEF Adding, Removing
<1>6. CASE Leaves(c)
  <2>1. held'[c][d][s] = 0 /\ ~ alive'[c]
    BY <1>1, <1>6 DEF Leaves
  <2> QED
    BY <2>1 DEF HeldAt
<1>7. CASE Recovers(c) /\ alive[c]
  BY <1>1, <1>2, <1>3, <1>7 DEF Recovers, HeldAt, SameListed
<1> DEFINE Same == alive[c] /\ (Missed(c)' <=> Missed(c))
<1>8. CASE Same /\ Moves(c)
  <2>1. /\ Adding(c, d, s)' <=> Adding(c, d, s)
        /\ Removing(c, d, s)' <=> Removing(c, d, s)
    BY <1>3, <1>8 DEF Moves, Asking, Adding, Removing
  <2> QED
    BY <1>1, <1>2, <1>8, <2>1 DEF Moves, HeldAt, SameListed, SamePaths
<1>9. CASE Same /\ Readds(c)
  BY <1>1, <1>2, <1>3, <1>9 DEF Readds, HeldAt
<1>10. CASE Same /\ Sends(c)
  <2>1. op[c].adds[d][s] = 0
    BY <1>1, <1>2, <1>10 DEF Sends, CallSound
  <2> QED
    BY <1>1, <1>2, <1>4, <1>10, <2>1 DEF Sends, HeldAt, LessOne, Adding
<1>11. CASE Same /\ Fails(c)
  <2>1. op[c].adds[d][s] = 0
    BY <1>1, <1>2, <1>11 DEF Fails, CallSound, Calling
  <2> QED
    BY <1>1, <1>2, <1>4, <1>11, <2>1 DEF Fails, HeldAt, SameListed
<1>12. CASE Same /\ Adds(c)
  BY <1>1, <1>2, <1>5, <1>12 DEF Adds, Asks, HeldAt, Adding, Removing, SameListed
<1>13. CASE Same /\ Removes(c)
  BY <1>1, <1>2, <1>5, <1>13 DEF Removes, Asks, HeldAt, Adding, Removing, SameListed
<1>14. CASE Same /\ Drops(c)
  BY <1>1, <1>2, <1>4, <1>5, <1>14 DEF Drops, HeldAt, SameListed
<1> QED
  BY <1>6, <1>7, <1>8, <1>9, <1>10, <1>11, <1>12, <1>13, <1>14, StepFacts DEF OnceSound

LEMMA OnceKeeps ==
    ASSUME Apart, EngineInv, NEW c \in Clients, ApartSound(c), OnceSound(c), Step(c)
    PROVE  OnceSound(c)' /\ exits' = exits
<1>1. GoneOnce(c)' /\ exits' = exits /\ (up' <=> up)
  BY StepFacts DEF OnceSound
<1>2. CASE Leaves(c)
  BY <1>1, <1>2, OpFacts DEF Leaves, OnceSound, Missed
<1>3. CASE Recovers(c) /\ up /\ ~ Missed(c)' /\ Missed(c)
  BY <1>1, <1>3 DEF OnceSound
<1>4. ASSUME Missed(c)' <=> Missed(c), op'[c].pc \in {"reset", "readd"} => op[c].pc \in {"reset", "readd"}
      PROVE  OnceSound(c)'
  BY <1>1, <1>4 DEF OnceSound
<1>5. Moves(c) \/ Readds(c) \/ Sends(c) \/ Fails(c) \/ Adds(c) \/ Removes(c) \/ Drops(c)
         => (op'[c].pc \in {"reset", "readd"} => op[c].pc \in {"reset", "readd"})
  BY OpFacts DEF Moves, Readds, Sends, Fails, Adds, Removes, Drops, Asks
<1> QED
  BY <1>1, <1>2, <1>3, <1>4, <1>5, StepFacts DEF OnceSound

LEMMA GoneQueue ==
    ASSUME EngineInv, NEW c \in Clients, Gone, GoneOnce(c), ~ Missed(c) \/ ~ alive[c]
    PROVE  GoneOnce(c)' /\ (alive[c] => Missed(c)') /\ (~ alive[c] => (Missed(c)' <=> Missed(c)))
<1> DEFINE n == Len(queue[c]) + 1
<1>1. reconnect' = reconnect /\ running' = running /\ Broadcast("gone")
  BY DEF Gone
<1>2. /\ ~ alive[c] => queue'[c] = queue[c]
      /\ alive[c] => DOMAIN queue'[c] = 1..n /\ queue'[c][n] = "gone"
      /\ DOMAIN queue[c] = 1..Len(queue[c]) /\ Len(queue[c]) \in Nat
      /\ \A i \in DOMAIN queue[c] : queue'[c][i] = queue[c][i]
  BY <1>1, BroadcastFacts DEF EngineInv
<1>3. CASE ~ alive[c]
  BY <1>1, <1>2, <1>3 DEF GoneOnce, Missed
<1>4. CASE alive[c]
  <2>1. ~ reconnect[c] /\ \A i \in DOMAIN queue[c] : queue[c][i] # "gone"
    BY <1>4 DEF Missed
  <2>2. \A i \in DOMAIN queue'[c] : queue'[c][i] = "gone" => i = n
    BY <1>2, <1>4, <2>1
  <2>3. n \in DOMAIN queue'[c] /\ queue'[c][n] = "gone"
    BY <1>2, <1>4
  <2> QED
    BY <1>1, <1>4, <2>1, <2>2, <2>3 DEF GoneOnce, Missed
<1> QED
  BY <1>3, <1>4

LEMMA BackQueue ==
    ASSUME EngineInv, NEW c \in Clients, Back, GoneOnce(c)
    PROVE  GoneOnce(c)' /\ (Missed(c)' <=> Missed(c))
<1> DEFINE n == Len(queue[c]) + 1
<1>1. reconnect' = reconnect /\ running' = running /\ Broadcast("back")
  BY DEF Back
<1>2. /\ ~ alive[c] => queue'[c] = queue[c]
      /\ alive[c] => DOMAIN queue'[c] = 1..n /\ queue'[c][n] = "back"
      /\ DOMAIN queue[c] = 1..Len(queue[c]) /\ Len(queue[c]) \in Nat
      /\ \A i \in DOMAIN queue[c] : queue'[c][i] = queue[c][i]
      /\ DOMAIN queue[c] \subseteq DOMAIN queue'[c]
  BY <1>1, BroadcastFacts DEF EngineInv
<1>3. CASE ~ alive[c]
  BY <1>1, <1>2, <1>3 DEF GoneOnce, Missed
<1>4. CASE alive[c]
  <2>1. \A i \in DOMAIN queue'[c] : queue'[c][i] = "gone" => i \in DOMAIN queue[c] /\ queue[c][i] = "gone"
    BY <1>2, <1>4
  <2> QED
    BY <1>1, <1>2, <1>4, <2>1 DEF GoneOnce, Missed
<1> QED
  BY <1>3, <1>4

LEMMA OnceGone ==
    ASSUME EngineInv, Gone, SurviveInv
    PROVE  SurviveInv'
<1>1. /\ ServerGoes
      /\ UNCHANGED <<alive, running, reconnect, opened, database, known, held, op>>
  BY DEF Gone
<1>2. exits' = exits + 1 /\ exits \in Nat
  BY <1>1, MaxExitsAssumption DEF ServerGoes, EngineInv, TypeOK, SvTypeOK
<1>3. SUFFICES ASSUME exits = 0, NEW c \in Clients
               PROVE  OnceSound(c)' /\ HeldSound(c)'
  BY <1>2 DEF SurviveInv
<1>4. OnceSound(c) /\ HeldSound(c)
  BY <1>3 DEF SurviveInv
<1>5. ~ Missed(c) /\ op[c].pc \notin {"reset", "readd"}
  BY <1>3, <1>4 DEF OnceSound
<1>6. GoneOnce(c)' /\ (alive[c] => Missed(c)')
  BY <1>4, <1>5, GoneQueue DEF OnceSound
<1>7. OnceSound(c)'
  BY <1>1, <1>2, <1>3, <1>5, <1>6 DEF OnceSound
<1>8. HeldSound(c)'
  BY <1>1, <1>4, <1>6 DEF HeldSound, HeldAt, Adding, Removing
<1> QED
  BY <1>7, <1>8

LEMMA OnceBack ==
    ASSUME EngineInv, Back, SurviveInv
    PROVE  SurviveInv'
<1>1. /\ ServerStarts
      /\ UNCHANGED <<alive, running, reconnect, opened, database, known, held, op>>
  BY DEF Back
<1>2. /\ ~ up /\ up' /\ exits' = exits /\ listed' = listed
  BY <1>1 DEF ServerStarts
<1>3. SUFFICES ASSUME exits <= 1, NEW c \in Clients
               PROVE  OnceSound(c)' /\ HeldSound(c)'
  BY <1>2 DEF SurviveInv
<1>4. OnceSound(c) /\ HeldSound(c)
  BY <1>3 DEF SurviveInv
<1>5. GoneOnce(c)' /\ (Missed(c)' <=> Missed(c))
  BY <1>4, BackQueue DEF OnceSound
<1>6. OnceSound(c)'
  BY <1>1, <1>2, <1>4, <1>5 DEF OnceSound
<1>7. HeldSound(c)'
  BY <1>1, <1>2, <1>4, <1>5 DEF HeldSound, HeldAt, Adding, Removing
<1> QED
  BY <1>6, <1>7

LEMMA OnceBystander ==
    ASSUME NEW b \in Clients, Bystander(b), UNCHANGED <<up, exits>>,
           \A d \in Databases : listed'[d][b] = listed[d][b],
           OnceSound(b), HeldSound(b)
    PROVE  OnceSound(b)' /\ HeldSound(b)'
<1> USE DEF Bystander
<1>1. OnceSound(b)'
  BY DEF OnceSound, GoneOnce, Missed
<1>2. HeldSound(b)'
  BY DEF HeldSound, HeldAt, Missed, Adding, Removing
<1> QED
  BY <1>1, <1>2

LEMMA SurviveStep ==
    ASSUME Apart, MaxHeld = 1, EngineInv, ApartInv, SurviveInv, NEW c \in Clients, Step(c)
    PROVE  SurviveInv'
<1>1. EngineInv'
  BY EngineStep
<1>2. /\ ServerStep(c) /\ \A b \in Clients \ {c} : Bystander(b)
  BY StepsOfOne DEF EngineInv
<1>3. /\ UNCHANGED <<up, exits>>
      /\ \A d \in Databases, b \in Clients \ {c} : listed'[d][b] = listed[d][b]
  BY <1>2, ServerStepFacts DEF EngineInv, TypeOK
<1>4. SUFFICES ASSUME exits <= 1 PROVE \A b \in Clients : OnceSound(b)' /\ HeldSound(b)'
  BY <1>3 DEF SurviveInv
<1>5. \A b \in Clients : OnceSound(b) /\ HeldSound(b) /\ ApartSound(b)
  BY <1>4 DEF SurviveInv, ApartInv
<1>6. OnceSound(c)' /\ HeldSound(c)'
  <2>1. OnceSound(c)'
    BY <1>5, OnceKeeps
  <2>2. \A d \in Databases, s \in Sections : HeldAt(c, d, s)'
    BY <1>1, <1>5, HeldKeeps
  <2> QED
    BY <2>1, <2>2 DEF HeldSound
<1>7. \A b \in Clients \ {c} : OnceSound(b)' /\ HeldSound(b)'
  BY <1>2, <1>3, <1>5, OnceBystander
<1> QED
  BY <1>6, <1>7

LEMMA SurviveInit == Init => SurviveInv
<1> SUFFICES ASSUME Init, NEW c \in Clients PROVE OnceSound(c) /\ HeldSound(c)
  BY DEF SurviveInv
<1>1. /\ op[c] = Idle /\ queue[c] = <<>> /\ held[c] = NoAdds /\ ~ reconnect[c]
      /\ \A d \in Databases, s \in Sections : NoAdds[d][s] = 0 /\ listed[d][c][s] = 0
  BY DEF Init, SvInit, Unlisted, NoAdds
<1>2. DOMAIN queue[c] = {}
  BY <1>1
<1>3. ~ Missed(c)
  BY <1>1, <1>2 DEF Missed
<1>4. OnceSound(c)
  BY <1>1, <1>2, <1>3, OpFacts DEF OnceSound, GoneOnce
<1>5. HeldSound(c)
  BY <1>1, OpFacts DEF HeldSound, HeldAt, Adding
<1> QED
  BY <1>4, <1>5

LEMMA SurviveInvariant ==
    ASSUME Apart, MaxHeld = 1 PROVE Spec => []SurviveInv
<1>1. EngineInv /\ ApartInv /\ SurviveInv /\ [Next]_vars => SurviveInv'
  <2>1. SUFFICES ASSUME EngineInv, ApartInv, SurviveInv, [Next]_vars PROVE SurviveInv'
    OBVIOUS
  <2>2. CASE UNCHANGED vars
    BY <2>1, <2>2 DEF vars, envars, svvars, SurviveInv, OnceSound, GoneOnce, HeldSound, HeldAt,
       Missed, Adding, Removing
  <2> QED
    BY <2>1, <2>2, OnceGone, OnceBack, SurviveStep DEF Next, Step
<1> QED
  BY <1>1, SurviveInit, EngineInvariant, ApartInvariant, PTL DEF Spec

(* A program that has recovered from gconfd's one exit has every request it    *)
(* holds at the daemon, whatever call the exit and the recovery met           *)
(* (gconf_engine_notify_add, gconf_engine_notify_remove,                     *)
(* reinitialize_databases): when it holds one request for a section at most,  *)
(* and uses one database besides the default.                                *)
THEOREM RequestsSurvive ==
    ASSUME Apart, MaxHeld = 1 PROVE Spec => []RequestsSurviveExit
<1>1. EngineInv /\ SurviveInv => RequestsSurviveExit
  <2>1. SUFFICES ASSUME EngineInv, SurviveInv, exits <= 1, NEW c \in Clients, Settled(c),
                        NEW d \in Databases, NEW s \in Sections
                 PROVE  held[c][d][s] <= listed[d][c][s]
    BY DEF RequestsSurviveExit, RequestsAtDaemon
  <2>2. HeldAt(c, d, s)
    BY <2>1 DEF SurviveInv, HeldSound
  <2>3. alive[c] /\ ~ Missed(c) /\ op[c] = Idle
    BY <2>1 DEF Settled, Missed
  <2>4. listed[d][c][s] \in Nat /\ op[c].adds[d][s] = 0 /\ ~ Adding(c, d, s)
    BY <2>1, <2>3, OpFacts DEF EngineInv, TypeOK, SvTypeOK, NoAdds, Adding
  <2> QED
    BY <2>2, <2>3, <2>4 DEF HeldAt
<1> QED
  BY <1>1, EngineInvariant, SurviveInvariant, PTL

-----------------------------------------------------------------------------
(* Orderly programs.                                                         *)

LEMMA BalanceKeeps ==
    ASSUME Apart, Orderly, ~ Unrefs, EngineInv, EngineInv', NEW c \in Clients, ApartSound(c),
           OrderlySound(c), Step(c), NEW d \in Databases, NEW s \in Sections
    PROVE  BalanceAt(c, d, s)'
<1>1. /\ held[c][d][s] \in Nat /\ listed[d][c][s] \in Nat /\ op[c].adds[d][s] \in Nat
      /\ held'[c][d][s] \in Nat /\ listed'[d][c][s] \in Nat /\ op'[c].adds[d][s] \in Nat
      /\ NoAdds[d][s] = 0
  BY NumberFacts
<1>2. BalanceAt(c, d, s) /\ CallSound(c) /\ (Missed(c) => ~ Asking(c))
  BY DEF EngineInv, OrderlySound, Asking
<1>3. ASSUME SameCall(c)
      PROVE  /\ Adding(c, d, s)' <=> Adding(c, d, s)
             /\ Removing(c, d, s)' <=> Removing(c, d, s)
  BY <1>3 DEF SameCall, Adding, Removing
<1>4. ASSUME op'[c] = Idle
      PROVE  ~ Adding(c, d, s)' /\ ~ Removing(c, d, s)' /\ op'[c].adds[d][s] = 0
  BY <1>1, <1>4, OpFacts DEF Adding, Removing
<1>5. ASSUME op[c] = Idle
      PROVE  ~ Adding(c, d, s) /\ ~ Removing(c, d, s) /\ op[c].adds[d][s] = 0
  BY <1>1, <1>5, OpFacts DEF Adding, Removing
<1>0. ~ Asking(c) => ~ Adding(c, d, s) /\ ~ Removing(c, d, s)
  BY DEF Asking, Adding, Removing
<1>6. CASE Leaves(c)
  <2>1. held'[c][d][s] = 0 /\ ~ alive'[c] /\ ~ Adding(c, d, s)'
    BY <1>1, <1>4, <1>6 DEF Leaves
  <2>2. Missed(c)' => Missed(c)
    BY <1>6 DEF Leaves, Missed
  <2>3. Missed(c) => listed'[d][c][s] = 0
    BY <1>2, <1>6, VanishesFacts DEF Leaves, BalanceAt, LessOne, EngineInv, TypeOK
  <2> QED
    BY <2>1, <2>2, <2>3 DEF BalanceAt
<1>7. CASE Recovers(c) /\ alive[c] /\ ~ Missed(c)' /\ Missed(c)
  BY <1>0, <1>1, <1>2, <1>3, <1>7 DEF Recovers, BalanceAt, SameListed
<1> DEFINE Same == alive[c] /\ (Missed(c)' <=> Missed(c))
<1>8. CASE Same /\ Moves(c)
  <2>1. /\ Adding(c, d, s)' <=> Adding(c, d, s)
        /\ Removing(c, d, s)' <=> Removing(c, d, s)
    BY <1>3, <1>8 DEF Moves, Asking, Adding, Removing
  <2> QED
    BY <1>1, <1>2, <1>8, <2>1 DEF Moves, BalanceAt, SameListed, SamePaths
<1>9. CASE Same /\ Readds(c)
  <2>1. ~ Missed(c)
    BY <1>9 DEF Readds, OrderlySound
  <2> QED
    BY <1>1, <1>2, <1>3, <1>9, <2>1 DEF Readds, BalanceAt
<1>10. CASE Same /\ Sends(c)
  <2>1. op[c].adds[d][s] = 0
    BY <1>1, <1>2, <1>10 DEF Sends, CallSound
  <2> QED
    <3>1. CASE Missed(c)
      BY <1>0, <1>2, <1>4, <1>10, <3>1 DEF Sends, BalanceAt, SameListed
    <3>2. CASE ~ Missed(c) /\ Adding(c, d, s)
      BY <1>1, <1>2, <1>4, <1>10, <2>1, <3>2 DEF Sends, BalanceAt, Adding, Removing
    <3>3. CASE ~ Missed(c) /\ Removing(c, d, s)
      <4>1. /\ listed'[d][c][s] = LessOne(listed[d][c][s]) /\ ~ Adding(c, d, s)
            /\ held'[c] = held[c] /\ database'[c] = database[c]
        BY <1>10, <3>3 DEF Sends, Adding, Removing
      <4>2. held[c][d][s] + 1 = listed[d][c][s]
        BY <1>1, <1>2, <1>10, <2>1, <3>3, <4>1 DEF BalanceAt
      <4>3. listed'[d][c][s] = held[c][d][s]
        BY <1>1, <4>1, <4>2 DEF LessOne
      <4> QED
        BY <1>1, <1>2, <1>4, <1>10, <3>3, <4>1, <4>3 DEF Sends, BalanceAt
    <3>4. CASE ~ Missed(c) /\ ~ Adding(c, d, s) /\ ~ Removing(c, d, s)
      BY <1>1, <1>2, <1>4, <1>10, <2>1, <3>4 DEF Sends, BalanceAt
    <3> QED
      BY <3>1, <3>2, <3>3, <3>4
<1>11. CASE Same /\ Fails(c)
  <2>1. op[c].adds[d][s] = 0 /\ op[c].todo = {}
    BY <1>1, <1>2, <1>11 DEF Fails, CallSound, Calling
  <2>2. ~ Missed(c) => ~ up
    <3>1. SUFFICES ASSUME ~ Missed(c), op[c].pc = "send", ObjectAt(database[c][op[c].db]) = {}
                   PROVE  FALSE
      BY <1>11 DEF Fails
    <3>2. op[c].db \in Databases /\ database[c][op[c].db] # NoPath
      BY <3>1 DEF OrderlySound, EngineInv, TypeOK, Op
    <3> QED
      BY <1>11, <2>1, <3>1, <3>2, RightPath DEF EngineInv
  <2>3. ~ up => listed[d][c][s] = 0
    BY DEF EngineInv, ServerSound, Unlisted
  <2> QED
    <3>0. listed'[d][c][s] = listed[d][c][s] /\ database'[c] = database[c]
          /\ held'[c][d][s] = IF Adding(c, d, s) THEN held[c][d][s] - 1 ELSE held[c][d][s]
      BY <1>11 DEF Fails, SameListed
    <3>i. ~ Adding(c, d, s)' /\ ~ Removing(c, d, s)' /\ op'[c].adds[d][s] = 0
      BY <1>4, <1>11 DEF Fails
    <3>1. CASE Missed(c)
      BY <1>0, <1>2, <1>11, <3>0, <3>i, <3>1 DEF BalanceAt
    <3>2. CASE ~ Missed(c) /\ Adding(c, d, s)
      BY <1>1, <1>2, <1>11, <2>1, <3>0, <3>i, <3>2 DEF BalanceAt, Adding, Removing
    <3>3. CASE ~ Missed(c) /\ ~ Adding(c, d, s)
      BY <1>1, <1>2, <1>11, <2>1, <2>2, <2>3, <3>0, <3>i, <3>3 DEF BalanceAt
    <3> QED
      BY <3>1, <3>2, <3>3
<1>12. CASE Same /\ Adds(c)
  <2>1. ~ Missed(c)
    <3>1. queue[c] = <<>> /\ ~ reconnect[c]
      BY <1>12 DEF Adds, Recovered
    <3> QED
      BY <3>1 DEF Missed
  <2> QED
    BY <1>1, <1>2, <1>5, <1>12, <2>1 DEF Adds, Asks, BalanceAt, Adding, Removing, SameListed
<1>13. CASE Same /\ Removes(c)
  <2>1. ~ Missed(c)
    <3>1. queue[c] = <<>> /\ ~ reconnect[c]
      BY <1>13 DEF Removes, Recovered
    <3> QED
      BY <3>1 DEF Missed
  <2> QED
    BY <1>1, <1>2, <1>5, <1>13, <2>1 DEF Removes, Asks, BalanceAt, Adding, Removing, SameListed
<1>14. ~ Drops(c)
  BY DEF Drops
<1> QED
  BY <1>6, <1>7, <1>8, <1>9, <1>10, <1>11, <1>12, <1>13, <1>14, StepFacts DEF OrderlySound

LEMMA OrderlyKeeps ==
    ASSUME Apart, Orderly, ~ Unrefs, EngineInv, EngineInv', NEW c \in Clients, ApartSound(c),
           OrderlySound(c), Step(c)
    PROVE  OrderlySound(c)'
<1>1. GoneOnce(c)' /\ (up' <=> up)
  BY StepFacts DEF OrderlySound
<1>2. \A d \in Databases, s \in Sections : BalanceAt(c, d, s)'
  BY BalanceKeeps
<1> DEFINE Rest == /\ Missed(c)' => op'[c].call \notin {"add", "remove"}
                   /\ op'[c].pc \in {"reset", "readd"} => up' /\ ~ Missed(c)'
                   /\ op'[c].pc = "send" => database'[c][op'[c].db] # NoPath
<1>3. ASSUME op'[c] = Idle PROVE Rest
  BY <1>3, OpFacts DEF Rest
<1>4. ASSUME Recovers(c) /\ up /\ ~ Missed(c)' /\ Missed(c) PROVE Rest
  BY <1>1, <1>4 DEF Recovers
<1>5. ASSUME (Missed(c)' <=> Missed(c)) /\ Moves(c) PROVE Rest
  BY <1>1, <1>5 DEF Moves, SameCall, Asking, OrderlySound
<1>6. ASSUME (Missed(c)' <=> Missed(c)) /\ Readds(c) PROVE Rest
  BY <1>1, <1>6 DEF Readds, SameCall, OrderlySound
<1>7. ASSUME (Missed(c)' <=> Missed(c)) /\ (Adds(c) \/ Removes(c)) PROVE Rest
  <2>1. ~ Missed(c)
    <3>1. queue[c] = <<>> /\ ~ reconnect[c]
      BY <1>7 DEF Adds, Removes, Recovered
    <3> QED
      BY <3>1 DEF Missed
  <2> QED
    BY <1>7, <2>1 DEF Adds, Removes, Asks
<1>8. Leaves(c) \/ Sends(c) \/ Fails(c) \/ Drops(c) => op'[c] = Idle
  BY DEF Leaves, Sends, Fails, Drops
<1>9. Rest
  BY <1>3, <1>4, <1>5, <1>6, <1>7, <1>8, StepFacts DEF OrderlySound
<1> QED
  BY <1>1, <1>2, <1>9 DEF OrderlySound

LEMMA OrderlyGone ==
    ASSUME Orderly, EngineInv, Gone, OrderlyInv
    PROVE  OrderlyInv'
<1>1. /\ ServerGoes
      /\ UNCHANGED <<alive, running, reconnect, opened, database, known, held, op>>
      /\ \A c \in Clients : Quiet(c)
  BY DEF Gone
<1>2. SUFFICES ASSUME NEW c \in Clients PROVE OrderlySound(c)'
  BY DEF OrderlyInv
<1>3. OrderlySound(c) /\ op[c] = Idle
  BY <1>1 DEF OrderlyInv, Quiet, EngineInv, CallSound
<1>4. ~ Missed(c) \/ ~ alive[c]
  <2>1. SUFFICES ASSUME alive[c] PROVE ~ Missed(c)
    OBVIOUS
  <2>2. queue[c] = <<>> /\ ~ reconnect[c]
    BY <1>1, <2>1 DEF Quiet, Recovered
  <2> QED
    BY <2>2 DEF Missed
<1>5. GoneOnce(c)' /\ (alive[c] => Missed(c)')
  BY <1>3, <1>4, GoneQueue DEF OrderlySound
<1>6. \A d \in Databases, s \in Sections : listed'[d][c][s] = 0
  BY <1>1 DEF ServerGoes, Unlisted
<1>7. \A d \in Databases, s \in Sections : BalanceAt(c, d, s)'
  BY <1>1, <1>3, <1>5, <1>6 DEF OrderlySound, BalanceAt, Adding, Removing
<1> QED
  BY <1>1, <1>3, <1>5, <1>7, OpFacts DEF OrderlySound

LEMMA OrderlyBack ==
    ASSUME EngineInv, Back, OrderlyInv
    PROVE  OrderlyInv'
<1>1. /\ ServerStarts
      /\ UNCHANGED <<alive, running, reconnect, opened, database, known, held, op>>
  BY DEF Back
<1>2. ~ up /\ up' /\ listed' = listed
  BY <1>1 DEF ServerStarts
<1>3. SUFFICES ASSUME NEW c \in Clients PROVE OrderlySound(c)'
  BY DEF OrderlyInv
<1>4. OrderlySound(c)
  BY DEF OrderlyInv
<1>5. GoneOnce(c)' /\ (Missed(c)' <=> Missed(c))
  BY <1>4, BackQueue DEF OrderlySound
<1>6. \A d \in Databases, s \in Sections : BalanceAt(c, d, s)'
  BY <1>1, <1>2, <1>4, <1>5 DEF OrderlySound, BalanceAt, Adding, Removing
<1> QED
  BY <1>1, <1>2, <1>4, <1>5, <1>6 DEF OrderlySound

LEMMA OrderlyBystander ==
    ASSUME NEW b \in Clients, Bystander(b), UNCHANGED up,
           \A d \in Databases : listed'[d][b] = listed[d][b],
           OrderlySound(b)
    PROVE  OrderlySound(b)'
<1> USE DEF Bystander
<1>1. \A d \in Databases, s \in Sections : BalanceAt(b, d, s)'
  BY DEF OrderlySound, BalanceAt, Missed, Adding, Removing
<1> QED
  BY <1>1 DEF OrderlySound, GoneOnce, Missed

LEMMA OrderlyStep ==
    ASSUME Apart, Orderly, ~ Unrefs, EngineInv, ApartInv, OrderlyInv, NEW c \in Clients, Step(c)
    PROVE  OrderlyInv'
<1>1. EngineInv'
  BY EngineStep
<1>2. /\ ServerStep(c) /\ \A b \in Clients \ {c} : Bystander(b)
  BY StepsOfOne DEF EngineInv
<1>3. /\ UNCHANGED up
      /\ \A d \in Databases, b \in Clients \ {c} : listed'[d][b] = listed[d][b]
  BY <1>2, ServerStepFacts DEF EngineInv, TypeOK
<1>4. OrderlySound(c)'
  BY <1>1, OrderlyKeeps DEF OrderlyInv, ApartInv
<1>5. \A b \in Clients \ {c} : OrderlySound(b)'
  BY <1>2, <1>3, OrderlyBystander DEF OrderlyInv
<1> QED
  BY <1>4, <1>5 DEF OrderlyInv

LEMMA OrderlyInit == Init => OrderlyInv
<1> SUFFICES ASSUME Init, NEW c \in Clients PROVE OrderlySound(c)
  BY DEF OrderlyInv
<1>1. /\ op[c] = Idle /\ queue[c] = <<>> /\ held[c] = NoAdds /\ ~ reconnect[c]
      /\ \A d \in Databases, s \in Sections : NoAdds[d][s] = 0 /\ listed[d][c][s] = 0
  BY DEF Init, SvInit, Unlisted, NoAdds
<1>2. DOMAIN queue[c] = {}
  BY <1>1
<1>3. ~ Missed(c)
  BY <1>1, <1>2 DEF Missed
<1>4. \A d \in Databases, s \in Sections : BalanceAt(c, d, s)
  BY <1>1, <1>3, OpFacts DEF BalanceAt, Adding, Removing
<1> QED
  BY <1>1, <1>2, <1>3, <1>4, OpFacts DEF OrderlySound, GoneOnce

LEMMA OrderlyInvariant ==
    ASSUME Apart, Orderly, ~ Unrefs PROVE Spec => []OrderlyInv
<1>1. EngineInv /\ ApartInv /\ OrderlyInv /\ [Next]_vars => OrderlyInv'
  <2>1. SUFFICES ASSUME EngineInv, ApartInv, OrderlyInv, [Next]_vars PROVE OrderlyInv'
    OBVIOUS
  <2>2. CASE UNCHANGED vars
    BY <2>1, <2>2 DEF vars, envars, svvars, OrderlyInv, OrderlySound, GoneOnce, BalanceAt,
       Missed, Adding, Removing
  <2> QED
    BY <2>1, <2>2, OrderlyGone, OrderlyBack, OrderlyStep DEF Next, Step
<1> QED
  BY <1>1, OrderlyInit, EngineInvariant, ApartInvariant, PTL DEF Spec

(* An orderly program that has recovered has at the daemon what it holds, no   *)
(* request less and none more, however often gconfd has gone: as long as it    *)
(* drops no engine and uses one database besides the default                 *)
(* (gconf_engine_notify_add, gconf_engine_notify_remove,                     *)
(* reinitialize_databases).                                                  *)
THEOREM RequestsStayExact ==
    ASSUME Apart, Orderly, ~ Unrefs PROVE Spec => []RequestsExact
<1>1. EngineInv /\ OrderlyInv => RequestsExact
  <2>1. SUFFICES ASSUME EngineInv, OrderlyInv, NEW c \in Clients, Settled(c),
                        NEW d \in Databases, NEW s \in Sections
                 PROVE  listed[d][c][s] = held[c][d][s]
    BY DEF RequestsExact
  <2>2. BalanceAt(c, d, s)
    BY <2>1 DEF OrderlyInv, OrderlySound
  <2>3. alive[c] /\ ~ Missed(c) /\ op[c] = Idle
    BY <2>1 DEF Settled, Missed
  <2>4. /\ held[c][d][s] \in Nat /\ listed[d][c][s] \in Nat /\ op[c].adds[d][s] = 0
        /\ ~ Adding(c, d, s) /\ ~ Removing(c, d, s)
    BY <2>1, <2>3, OpFacts DEF EngineInv, TypeOK, SvTypeOK, NoAdds, Adding, Removing
  <2> QED
    BY <2>2, <2>3, <2>4 DEF BalanceAt
<1> QED
  BY <1>1, EngineInvariant, OrderlyInvariant, PTL

-----------------------------------------------------------------------------
(* What gconfd counts for a program.                                         *)

LEMMA NothingListed ==
    ASSUME NEW w \in [Sections -> Nat], \A s \in Sections : w[s] = 0
    PROVE  Total(w) = 0
BY TotalZero

(* One request of a program more or less, counted as it is listed.           *)
LEMMA TotalMoves ==
    ASSUME NEW w \in [Sections -> Nat], NEW v \in [Sections -> Nat], NEW a \in Sections,
           \A t \in Sections \ {a} : v[t] = w[t]
    PROVE  /\ v[a] = w[a] + 1 => Total(v) = Total(w) + 1
           /\ w[a] > 0 /\ v[a] = LessOne(w[a]) => Total(v) = LessOne(Total(w))
<1>1. /\ Total(w) \in Nat /\ Total(v) \in Nat
      /\ Total(v) + w[a] = Total(w) + v[a]
  BY TotalChanges
<1> QED
  BY <1>1 DEF LessOne

LEMMA SameTotal ==
    ASSUME NEW w \in [Sections -> Nat], NEW v \in [Sections -> Nat],
           \A t \in Sections : v[t] = w[t]
    PROVE  Total(v) = Total(w)
<1>1. v = w
  OBVIOUS
<1> QED
  BY <1>1

AccountSound(c) ==
    \A d \in Databases :
        /\ counted[d][c] = Total(listed[d][c])
        /\ \A s \in Sections : held[c][d][s] <= 1
        /\ ~ alive[c] => \A s \in Sections : listed[d][c][s] = 0

AccountInv == \A c \in Clients : AccountSound(c)

LEMMA ListedTyped ==
    ASSUME EngineInv, NEW c \in Clients, NEW d \in Databases
    PROVE  listed[d][c] \in [Sections -> Nat] /\ counted[d][c] \in Nat
BY DEF EngineInv, TypeOK, SvTypeOK

LEMMA AccountKeeps ==
    ASSUME Apart, Orderly, ~ Unrefs, MaxHeld = 1, EngineInv, EngineInv', NEW c \in Clients,
           ApartSound(c), OrderlySound(c), AccountSound(c), Step(c)
    PROVE  AccountSound(c)'
<1>1. SUFFICES ASSUME NEW d \in Databases
               PROVE  /\ counted'[d][c] = Total(listed'[d][c])
                      /\ \A s \in Sections : held'[c][d][s] <= 1
                      /\ ~ alive'[c] => \A s \in Sections : listed'[d][c][s] = 0
  BY DEF AccountSound
<1> DEFINE w == listed[d][c]
           v == listed'[d][c]
<1>2. /\ w \in [Sections -> Nat] /\ v \in [Sections -> Nat] /\ counted[d][c] \in Nat
      /\ counted[d][c] = Total(w)
      /\ \A s \in Sections : held[c][d][s] \in Nat /\ held[c][d][s] <= 1 /\ held'[c][d][s] \in Nat
  BY NumberFacts DEF EngineInv, TypeOK, SvTypeOK, AccountSound
<1>3. CallSound(c) /\ (Missed(c) => ~ Asking(c)) /\ op[c] \in Op
      /\ \A s \in Sections : BalanceAt(c, d, s) /\ NoAdds[d][s] = 0
  BY NumberFacts DEF EngineInv, OrderlySound, Asking, TypeOK
<1> HIDE DEF w, v
<1>4. ASSUME SameListed(c) PROVE counted'[d][c] = Total(v)
  <2>1. counted'[d][c] = counted[d][c] /\ \A s \in Sections : v[s] = w[s]
    BY <1>4 DEF SameListed, v, w
  <2> QED
    BY <1>2, <2>1, SameTotal
<1>5. CASE Leaves(c)
  <2>1. SvTypeOK /\ ServerSound /\ ClientVanishes(c) /\ alive[c] /\ op[c] = Idle /\ held'[c] = NoAdds
    BY <1>5, StepFacts DEF Leaves, EngineInv, TypeOK, OrderlySound
  <2>2. \A s \in Sections : w[s] \in Nat /\ w[s] <= 1
    <3>1. SUFFICES ASSUME NEW s \in Sections PROVE w[s] \in Nat /\ w[s] <= 1
      OBVIOUS
    <3>2. op[c].adds[d][s] = 0 /\ ~ Adding(c, d, s) /\ ~ Removing(c, d, s)
      BY <1>3, <2>1, OpFacts DEF Adding, Removing
    <3> QED
      BY <1>2, <1>3, <2>1, <3>2 DEF BalanceAt, w
  <2>3. counted'[d][c] = 0 /\ \A s \in Sections : v[s] = 0
    <3>1. CASE HearsOf(c)
      BY <2>1, <2>2, <3>1, VanishesFacts DEF LessOne, v, w
    <3>2. CASE ~ HearsOf(c)
      <4>1. counted'[d][c] = counted[d][c] /\ v = w
        BY <2>1, <3>2, VanishesFacts DEF v, w
      <4>2. counted[d][c] = 0
        BY <1>2, <3>2 DEF HearsOf
      <4> QED
        BY <1>2, <4>1, <4>2, TotalZero
    <3> QED
      BY <3>1, <3>2
  <2>4. Total(v) = 0
    BY <1>2, <2>3, NothingListed
  <2> QED
    BY <1>3, <2>1, <2>3, <2>4 DEF v
<1>6. ASSUME Recovers(c) \/ Moves(c) \/ Readds(c) \/ Sends(c) \/ Fails(c) \/ Adds(c) \/ Removes(c) \/ Drops(c)
      PROVE  \A s \in Sections : held'[c][d][s] <= 1
  <2>1. CASE Recovers(c) \/ Moves(c) \/ Readds(c) \/ Sends(c)
    BY <1>2, <2>1 DEF Recovers, Moves, Readds, Sends
  <2>2. CASE Fails(c)
    BY <1>2, <2>2 DEF Fails
  <2>3. CASE Adds(c)
    BY <1>2, <2>3 DEF Adds
  <2>4. CASE Removes(c)
    BY <1>2, <2>4 DEF Removes
  <2>5. CASE Drops(c)
    BY <2>5 DEF Drops
  <2> QED
    BY <1>6, <2>1, <2>2, <2>3, <2>4, <2>5
<1>7. ASSUME Readds(c) PROVE counted'[d][c] = Total(v)
  <2>1. PICK e \in Databases, a \in Sections :
          /\ listed'[e][c][a] = listed[e][c][a] + 1
          /\ counted'[e][c] = counted[e][c] + 1
          /\ \A f \in Databases \ {e} : counted'[f][c] = counted[f][c]
          /\ \A f \in Databases, t \in Sections : ~ (f = e /\ t = a) =>
                listed'[f][c][t] = listed[f][c][t]
    BY <1>7 DEF Readds
  <2>2. CASE d = e
    BY <1>2, <2>1, <2>2, TotalMoves DEF v, w
  <2>3. CASE d # e
    <3>1. counted'[d][c] = counted[d][c] /\ \A s \in Sections : v[s] = w[s]
      BY <2>1, <2>3 DEF v, w
    <3> QED
      BY <1>2, <3>1, SameTotal
  <2> QED
    BY <2>2, <2>3
<1>8. ASSUME Sends(c), alive[c] PROVE counted'[d][c] = Total(v)
  <2>1. CASE ~ Asking(c)
    BY <1>4, <1>8, <2>1 DEF Sends
  <2> DEFINE a == op[c].section
  <2>2. Asking(c) => a \in Sections /\ ~ Missed(c) /\ op[c].pc = "send"
    BY <1>3, <1>8 DEF CallSound, Asking, Sends
  <2>3. Asking(c) => /\ \A s \in Sections :
                          v[s] = IF Adding(c, d, s) THEN w[s] + 1
                                 ELSE IF Removing(c, d, s) THEN LessOne(w[s]) ELSE w[s]
                     /\ counted'[d][c] =
                          IF d = op[c].db /\ op[c].call = "add" THEN counted[d][c] + 1
                          ELSE IF d = op[c].db /\ op[c].call = "remove" THEN LessOne(counted[d][c])
                          ELSE counted[d][c]
    BY <1>8, <2>2 DEF Sends, v, w
  <2>4. CASE Asking(c) /\ d # op[c].db
    <3>1. counted'[d][c] = counted[d][c] /\ \A s \in Sections : v[s] = w[s]
      BY <2>3, <2>4 DEF Adding, Removing
    <3> QED
      BY <1>2, <3>1, SameTotal
  <2>5. CASE op[c].call = "add" /\ d = op[c].db
    <3>1. /\ a \in Sections /\ v[a] = w[a] + 1 /\ \A t \in Sections \ {a} : v[t] = w[t]
          /\ counted'[d][c] = counted[d][c] + 1
      BY <2>2, <2>3, <2>5 DEF Adding, Removing, Asking
    <3> HIDE DEF a
    <3> QED
      BY <1>2, <3>1, TotalMoves
  <2>6. CASE op[c].call = "remove" /\ d = op[c].db
    <3>1. /\ a \in Sections /\ v[a] = LessOne(w[a]) /\ \A t \in Sections \ {a} : v[t] = w[t]
          /\ counted'[d][c] = LessOne(counted[d][c])
      BY <2>2, <2>3, <2>6 DEF Adding, Removing, Asking
    <3>2. w[a] > 0
      <4>1. /\ Removing(c, d, a) /\ ~ Adding(c, d, a) /\ BalanceAt(c, d, a) /\ ~ Missed(c)
            /\ op[c].adds = NoAdds /\ NoAdds[d][a] = 0
        BY <1>3, <2>2, <2>6, <3>1 DEF Removing, Adding, Asking, CallSound
      <4> QED
        BY <1>2, <1>8, <3>1, <4>1 DEF BalanceAt, w
    <3> HIDE DEF a
    <3> QED
      BY <1>2, <3>1, <3>2, TotalMoves
  <2> QED
    BY <2>1, <2>4, <2>5, <2>6 DEF Asking
<1>9. Recovers(c) \/ Moves(c) \/ Fails(c) \/ Adds(c) \/ Removes(c) \/ Drops(c) => SameListed(c)
  BY DEF Recovers, Moves, Fails, Adds, Removes, Drops
<1>10. v = listed'[d][c]
  BY DEF v
<1> QED
  BY <1>4, <1>5, <1>6, <1>7, <1>8, <1>9, <1>10, StepFacts DEF OrderlySound

LEMMA AccountGone ==
    ASSUME EngineInv, EngineInv', Gone, AccountInv
    PROVE  AccountInv'
<1>1. listed' = Unlisted /\ counted' = Uncounted /\ UNCHANGED <<alive, held>>
  BY DEF Gone, ServerGoes
<1>2. ASSUME NEW c \in Clients, NEW d \in Databases
      PROVE  /\ counted'[d][c] = 0 /\ listed'[d][c] \in [Sections -> Nat]
             /\ \A s \in Sections : listed'[d][c][s] = 0
  BY <1>1 DEF Unlisted, Uncounted
<1>3. \A c \in Clients, d \in Databases : counted'[d][c] = Total(listed'[d][c])
  BY <1>2, NothingListed
<1> QED
  BY <1>1, <1>2, <1>3 DEF AccountInv, AccountSound

LEMMA AccountStep ==
    ASSUME Apart, Orderly, ~ Unrefs, MaxHeld = 1, EngineInv, ApartInv, OrderlyInv, AccountInv,
           NEW c \in Clients, Step(c)
    PROVE  AccountInv'
<1>1. EngineInv'
  BY EngineStep
<1>2. /\ ServerStep(c) /\ \A b \in Clients \ {c} : Bystander(b)
  BY StepsOfOne DEF EngineInv
<1>3. \A d \in Databases, b \in Clients \ {c} :
         counted'[d][b] = counted[d][b] /\ listed'[d][b] = listed[d][b]
  BY <1>2, ServerStepFacts DEF EngineInv, TypeOK
<1>4. AccountSound(c)'
  BY <1>1, AccountKeeps DEF OrderlyInv, ApartInv, AccountInv
<1>5. \A b \in Clients \ {c} : AccountSound(b)'
  BY <1>2, <1>3 DEF AccountInv, AccountSound, Bystander
<1> QED
  BY <1>4, <1>5 DEF AccountInv

LEMMA AccountInvariant ==
    ASSUME Apart, Orderly, ~ Unrefs, MaxHeld = 1 PROVE Spec => []AccountInv
<1>1. Init => AccountInv
  <2>1. SUFFICES ASSUME Init, NEW c \in Clients, NEW d \in Databases
                 PROVE  /\ counted[d][c] = Total(listed[d][c]) /\ alive[c]
                        /\ \A s \in Sections : held[c][d][s] <= 1
    BY DEF AccountInv, AccountSound
  <2>2. /\ listed[d][c] \in [Sections -> Nat] /\ counted[d][c] = 0 /\ alive[c]
        /\ \A s \in Sections : listed[d][c][s] = 0 /\ held[c][d][s] = 0
    BY <2>1 DEF Init, SvInit, Unlisted, Uncounted, NoAdds
  <2> QED
    BY <2>2, NothingListed
<1>2. EngineInv /\ ApartInv /\ OrderlyInv /\ AccountInv /\ [Next]_vars => AccountInv'
  <2>1. SUFFICES ASSUME EngineInv, ApartInv, OrderlyInv, AccountInv, [Next]_vars
                 PROVE  AccountInv'
    OBVIOUS
  <2>2. CASE UNCHANGED vars \/ Back
    <3>1. UNCHANGED <<listed, counted, alive, held>>
      BY <2>2 DEF vars, envars, svvars, Back, ServerStarts
    <3> QED
      BY <2>1, <3>1 DEF AccountInv, AccountSound
  <2>3. CASE Gone
    BY <2>1, <2>3, GoneKeeps, AccountGone
  <2> QED
    BY <2>1, <2>2, <2>3, AccountStep DEF Next, Step
<1> QED
  BY <1>1, <1>2, EngineInvariant, ApartInvariant, OrderlyInvariant, PTL DEF Spec

(* nr_of_notifications of a program is the number of its requests that are     *)
(* listed, so the match rule is there exactly as long as one is; and nothing  *)
(* is listed for a program that has left (database_add_connection,           *)
(* database_remove_connection, the NameOwnerChanged filter): orderly programs *)
(* with one request for a section at most.                                   *)
THEOREM ListsStayAccounted ==
    ASSUME Apart, Orderly, ~ Unrefs, MaxHeld = 1 PROVE Spec => []ListsAccounted
<1>1. AccountInv => ListsAccounted
  BY CountsMean DEF AccountInv, AccountSound, ListsAccounted
<1> QED
  BY <1>1, AccountInvariant, PTL
=============================================================================
