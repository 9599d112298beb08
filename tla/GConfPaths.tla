----------------------------- MODULE GConfPaths -----------------------------
(***************************************************************************)
(* GConf names: the keys and directories of the configuration namespace.   *)
(* A path "/a/b" is the sequence <<"a", "b">> of its components and the     *)
(* root "/" is <<>>; gconf_valid_key() has already refused empty and        *)
(* trailing components, so every path the program handles has this form.    *)
(***************************************************************************)
EXTENDS Naturals, Sequences

(* gconf_key_is_below (above, below): component-wise prefix, reflexive; the *)
(* root is above everything.  "/foo" is not above "/foofoo".                *)
IsBelow(above, below) ==
    /\ Len(above) <= Len(below)
    /\ \A i \in 1..Len(above) : above[i] = below[i]

(* The key is an entry directly inside the directory.                       *)
DirectlyIn(dir, key) ==
    /\ Len(key) = Len(dir) + 1
    /\ IsBelow(dir, key)

(* Neither path is below the other.                                         *)
Disjoint(p, q) == ~ IsBelow(p, q) /\ ~ IsBelow(q, p)

-----------------------------------------------------------------------------

(* Every path is below itself: watching "/a/k" watches the key "/a/k".      *)
LEMMA BelowReflexive ==
    ASSUME NEW S, NEW p \in Seq(S)
    PROVE  IsBelow(p, p)
BY DEF IsBelow

(* A directory below a directory below a third is below the third.          *)
LEMMA BelowTransitive ==
    ASSUME NEW S, NEW p \in Seq(S), NEW q \in Seq(S), NEW r \in Seq(S),
           IsBelow(p, q), IsBelow(q, r)
    PROVE  IsBelow(p, r)
<1>1. Len(p) \in Nat /\ Len(q) \in Nat /\ Len(r) \in Nat
  OBVIOUS
<1>2. \A i \in 1..Len(p) : i \in 1..Len(q)
  BY <1>1 DEF IsBelow
<1> QED
  BY <1>1, <1>2 DEF IsBelow

(* Two paths that are below each other are the same path.                   *)
LEMMA BelowAntisymmetric ==
    ASSUME NEW S, NEW p \in Seq(S), NEW q \in Seq(S),
           IsBelow(p, q), IsBelow(q, p)
    PROVE  p = q
<1>1. Len(p) = Len(q)
  BY DEF IsBelow
<1>2. \A i \in 1..Len(p) : p[i] = q[i]
  BY DEF IsBelow
<1> QED
  BY <1>1, <1>2

(* Two directories above one path are comparable: the directories above a   *)
(* key form a chain, which is why at most one of a set of pairwise disjoint *)
(* directories can watch a key.                                             *)
LEMMA AboveIsChain ==
    ASSUME NEW S, NEW p \in Seq(S), NEW q \in Seq(S), NEW k \in Seq(S),
           IsBelow(p, k), IsBelow(q, k)
    PROVE  IsBelow(p, q) \/ IsBelow(q, p)
<1>1. Len(p) \in Nat /\ Len(q) \in Nat
  OBVIOUS
<1>2. CASE Len(p) <= Len(q)
  <2>1. \A i \in 1..Len(p) : p[i] = k[i] /\ q[i] = k[i]
    BY <1>1, <1>2 DEF IsBelow
  <2> QED
    BY <1>2, <2>1 DEF IsBelow
<1>3. CASE Len(q) <= Len(p)
  <2>1. \A i \in 1..Len(q) : p[i] = k[i] /\ q[i] = k[i]
    BY <1>1, <1>3 DEF IsBelow
  <2> QED
    BY <1>3, <2>1 DEF IsBelow
<1> QED
  BY <1>1, <1>2, <1>3
=============================================================================
