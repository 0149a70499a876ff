---------------------------- MODULE NaturalSets ----------------------------
(***************************************************************************)
(* Induction over the natural numbers for the proofs of this project.  The *)
(* predicate is given as a set of numbers: the backends do not instantiate *)
(* theorems that have an operator as a parameter.                          *)
(***************************************************************************)
EXTENDS Integers, FiniteSets, FiniteSetTheorems, WellFoundedInduction, TLAPS

(* Every set of natural numbers that is not empty has a least element. *)
LEMMA LeastNatural ==
    ASSUME NEW T \in SUBSET Nat, T # {}
    PROVE  \E x \in T : \A y \in T : x <= y
<1> DEFINE R == OpToRel(<, Nat)
<1>1. IsWellFoundedOn(R, Nat)
  BY NatLessThanWellFounded
<1>2. PICK x \in T : \A y \in T : ~(<<y, x>> \in R)
  <2> HIDE DEF R
  <2> QED BY <1>1, WFMin
<1>3. \A y \in Nat : y < x => <<y, x>> \in R
  BY DEF OpToRel
<1> HIDE DEF R
<1>4. \A y \in T : ~(y < x)
  <2> TAKE y \in T
  <2>1. y \in Nat
    OBVIOUS
  <2> QED BY <1>2, <1>3, <2>1
<1>5. \A y \in T : x <= y
  <2> TAKE y \in T
  <2>1. x \in Nat /\ y \in Nat /\ ~(y < x)
    BY <1>4
  <2> QED BY <2>1
<1> QED BY <1>5

(* Induction: a set with 0 and the successors of its members has every     *)
(* natural number.                                                         *)
LEMMA NatSetInduction ==
    ASSUME NEW P, 0 \in P, \A k \in Nat : k \in P => k + 1 \in P
    PROVE  Nat \subseteq P
<1> SUFFICES ASSUME Nat \ P # {} PROVE FALSE
  OBVIOUS
<1>1. PICK x \in Nat \ P : \A y \in Nat \ P : x <= y
  BY LeastNatural
<1>2. x # 0
  BY <1>1
<1>3. x - 1 \in Nat /\ x - 1 \in P
  BY <1>1, <1>2
<1> QED BY <1>1, <1>3

(* A finite set of natural numbers is bounded ... *)
LEMMA FiniteBounded ==
    ASSUME NEW S \in SUBSET Nat, IsFiniteSet(S)
    PROVE  \E u \in Nat : \A y \in S : y <= u
<1>1. PICK k \in Nat : ExistsSurjection(1..k, S)
  BY FS_NatSurjection
<1>2. PICK f \in [1..k -> S] : \A y \in S : \E i \in 1..k : f[i] = y
  BY <1>1 DEF ExistsSurjection, Surjection
<1> DEFINE P == {j \in Nat : j <= k => \E u \in Nat : \A i \in 1..j : f[i] <= u}
<1>3. 0 \in P
  BY DEF P
<1>4. \A j \in Nat : j \in P => j + 1 \in P
  <2> SUFFICES ASSUME NEW j \in Nat, j \in P, j + 1 <= k
               PROVE  \E u \in Nat : \A i \in 1..(j + 1) : f[i] <= u
    <3>1. \A j \in Nat : j + 1 \in Nat
      OBVIOUS
    <3> QED BY <3>1
  <2>1. PICK u \in Nat : \A i \in 1..j : f[i] <= u
    OBVIOUS
  <2>2. \A i \in 1..(j + 1) : f[i] \in Nat
    <3>1. \A i \in 1..(j + 1) : i \in 1..k
      OBVIOUS
    <3>2. \A i \in 1..k : f[i] \in S
      BY <1>2
    <3> QED BY <3>1, <3>2
  <2>3. CASE f[j + 1] <= u
    BY <2>1, <2>3
  <2>4. CASE ~(f[j + 1] <= u)
    <3>1. f[j + 1] \in Nat
      BY <2>2
    <3>2. \A i \in 1..(j + 1) : f[i] <= f[j + 1]
      BY <2>1, <2>2, <2>4, <3>1
    <3> QED BY <3>1, <3>2
  <2> QED BY <2>3, <2>4
<1>5. k \in P
  <2> HIDE DEF P
  <2> QED BY <1>3, <1>4, NatSetInduction
<1>6. PICK u \in Nat : \A i \in 1..k : f[i] <= u
  BY <1>5
<1> HIDE DEF P
<1> QED BY <1>2, <1>6

(* ... and has a greatest element unless it is empty. *)
LEMMA FiniteMaximum ==
    ASSUME NEW S \in SUBSET Nat, IsFiniteSet(S), S # {}
    PROVE  \E x \in S : \A y \in S : y <= x
<1> DEFINE B == {u \in Nat : \A y \in S : y <= u}
<1>1. B # {}
  BY FiniteBounded
<1>2. PICK m \in B : \A u \in B : m <= u
  <2>1. B \in SUBSET Nat
    OBVIOUS
  <2> HIDE DEF B
  <2> QED BY <1>1, <2>1, LeastNatural
<1>3. m \in Nat /\ \A y \in S : y <= m
  OBVIOUS
<1>4. m \in S
  <2> SUFFICES ASSUME m \notin S PROVE FALSE
    OBVIOUS
  <2>1. PICK y \in S : TRUE
    OBVIOUS
  <2>2. m - 1 \in Nat
    BY <1>3, <2>1
  <2>3. \A z \in S : z <= m - 1
    BY <1>3
  <2>4. m - 1 \in B
    BY <2>2, <2>3
  <2> QED BY <1>2, <1>3, <2>4
<1> QED BY <1>3, <1>4
=============================================================================
