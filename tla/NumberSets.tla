----------------------------- MODULE NumberSets -----------------------------
(***************************************************************************)
(* Facts about sets of numbers that the proofs about the ledger (its       *)
(* newest activity, the fold of its rows) and the runner's channel (its    *)
(* highest output) rest on: a finite set has a greatest member, and a set  *)
(* that holds zero and every successor holds every number.                 *)
(***************************************************************************)
EXTENDS Naturals, FiniteSets, TLAPS, FiniteSetTheorems, WellFoundedInduction

(* A finite set of numbers has a greatest one: the set of those above it   *)
(* is the smallest of its kind.                                            *)
LEMMA Greatest ==
    ASSUME NEW S, S \subseteq Nat, IsFiniteSet(S), S # {}
    PROVE  \E m \in S : \A k \in S : k <= m
<1> DEFINE R == StrictSubsetOrdering(S)
           F == FiniteSubsetsOf(S)
           Above(t) == {u \in S : u > t}
           T == {Above(t) : t \in S}
<1>1. IsWellFoundedOn(R, F)
  BY FS_StrictSubsetOrderingWellFounded
<1>2. T \subseteq F /\ T # {}
  <2>1. \A t \in S : IsFiniteSet({u \in S : u > t})
    BY FS_Subset
  <2> QED BY <2>1 DEF FiniteSubsetsOf
<1>3. \E x \in T : \A y \in T : ~(<<y, x>> \in R)
  <2> HIDE DEF R, T, F
  <2> QED BY <1>1, <1>2, WFMin
<1>4. PICK m \in S : \A k \in S : <<Above(k), Above(m)>> \notin R
  BY <1>3
<1>5. SUFFICES ASSUME NEW k \in S, k > m PROVE FALSE
  BY <1>4
<1>6. Above(k) \subseteq Above(m)
  <2> SUFFICES ASSUME NEW u \in S, u > k PROVE u > m
    OBVIOUS
  <2> QED BY <1>5
<1>7. k \in Above(m) /\ k \notin Above(k)
  BY <1>5
<1> QED BY <1>4, <1>6, <1>7 DEF StrictSubsetOrdering

(* Induction over the numbers, for a set of them: what is not in it would  *)
(* have a least member.                                                    *)
LEMMA SetInduction ==
    ASSUME NEW S, 0 \in S, \A n \in Nat : n \in S => n + 1 \in S
    PROVE  Nat \subseteq S
<1> DEFINE R == OpToRel(<, Nat)
           T == Nat \ S
<1>1. IsWellFoundedOn(R, Nat)
  BY NatLessThanWellFounded
<1>2. SUFFICES ASSUME T # {} PROVE FALSE
  OBVIOUS
<1>3. \E x \in T : \A y \in T : <<y, x>> \notin R
  <2> HIDE DEF R
  <2> QED BY <1>1, <1>2, WFMin
<1>4. PICK x \in T : \A y \in T : <<y, x>> \notin R
  BY <1>3
<1>5. x - 1 \in T
  OBVIOUS
<1>6. <<x - 1, x>> \in R
  BY <1>5 DEF OpToRel
<1> QED BY <1>4, <1>5, <1>6
=============================================================================
