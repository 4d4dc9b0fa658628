---------------------------- MODULE NumberFacts ----------------------------
(***************************************************************************)
(* Least and greatest elements of sets of numbers, which the proofs about  *)
(* ids, ceilings, event times and places keep needing.                     *)
(***************************************************************************)
EXTENDS Integers, FiniteSetsExt, WellFoundedInduction, TLAPS

(* A set of naturals that is not empty has a least element. *)
LEMMA LeastNatural ==
    ASSUME NEW T \in SUBSET Nat, T # {}
    PROVE  \E x \in T : \A y \in T : x <= y
  <1> DEFINE R == OpToRel(<, Nat)
  <1>1. IsWellFoundedOn(R, Nat)
    BY NatLessThanWellFounded
  <1>2. PICK x \in T : \A y \in T : ~ (<<y, x>> \in R)
    <2> HIDE DEF R
    <2> QED BY <1>1, WFMin, Zenon
  <1>3. \A y \in T : <<y, x>> \in Nat \X Nat
    OBVIOUS
  <1>4. \A y \in T : ~(y < x)
    BY <1>2, <1>3 DEF OpToRel
  <1> QED BY <1>4

(* A set of numbers up to n that is not empty has a greatest element. *)
LEMMA GreatestNatural ==
    ASSUME NEW n \in Nat, NEW S \in SUBSET (0 .. n), S # {}
    PROVE  \E x \in S : \A y \in S : y <= x
  <1> DEFINE T == {x \in Nat : n - x \in S}
  <1>1. \A y \in S : n - y \in Nat /\ n - (n - y) = y
    OBVIOUS
  <1>2. T \in SUBSET Nat /\ T # {}
    <2>1. PICK y \in S : TRUE
      OBVIOUS
    <2>2. n - y \in T
      BY <1>1, <2>1
    <2> QED BY <2>2
  <1>3. PICK x \in T : \A y \in T : x <= y
    BY <1>2, LeastNatural
  <1>4. n - x \in S /\ x \in Nat
    OBVIOUS
  <1>5. ASSUME NEW y \in S PROVE y <= n - x
    <2>1. n - y \in T /\ y \in Nat
      BY <1>1
    <2>2. x <= n - y
      BY <1>3, <2>1
    <2> QED BY <1>4, <2>1, <2>2
  <1> QED BY <1>4, <1>5

(* Min of a set that has a least element finds it. *)
LEMMA MinFinds ==
    ASSUME NEW S \in SUBSET Int, NEW x \in S, \A y \in S : x <= y
    PROVE  Min(S) = x
  <1> DEFINE m == Min(S)
  <1>1. m \in S /\ \A y \in S : m <= y
    BY DEF Min
  <1> HIDE DEF m
  <1>2. m \in Int /\ x \in Int /\ m <= x /\ x <= m
    BY <1>1
  <1>3. m = x
    BY <1>2
  <1> QED BY <1>3 DEF m

(* Max of a set that has a greatest element finds it. *)
LEMMA MaxFinds ==
    ASSUME NEW S \in SUBSET Int, NEW x \in S, \A y \in S : y <= x
    PROVE  Max(S) = x
  <1>1. \A y \in S : x >= y
    OBVIOUS
  <1> DEFINE m == Max(S)
  <1>2. m \in S /\ \A y \in S : m >= y
    BY <1>1 DEF Max
  <1> HIDE DEF m
  <1>3. m \in Int /\ x \in Int /\ x <= m /\ m <= x
    BY <1>2
  <1>4. m = x
    BY <1>3
  <1> QED BY <1>4 DEF m

(* The lesser of two numbers. *)
LEMMA MinOfTwo ==
    ASSUME NEW a \in Int, NEW b \in Int
    PROVE  Min({a, b}) = IF a <= b THEN a ELSE b
  <1>1. CASE a <= b
    BY <1>1, MinFinds
  <1>2. CASE ~(a <= b)
    BY <1>2, MinFinds
  <1> QED BY <1>1, <1>2

(* The greater of two numbers. *)
LEMMA MaxOfTwo ==
    ASSUME NEW a \in Int, NEW b \in Int
    PROVE  Max({a, b}) = IF a <= b THEN b ELSE a
  <1>1. CASE a <= b
    BY <1>1, MaxFinds
  <1>2. CASE ~(a <= b)
    BY <1>2, MaxFinds
  <1> QED BY <1>1, <1>2
=============================================================================
