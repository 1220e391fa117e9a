---------------------------- MODULE NaturalFacts ----------------------------
(***************************************************************************)
(* The facts about sets of numbers the other proofs rest on.  The library  *)
(* states the least-number principle for a predicate; here it is stated    *)
(* for a set, and serves in place of induction.                            *)
(***************************************************************************)
EXTENDS Integers, FiniteSets, TLAPS, WellFoundedInduction, FiniteSetTheorems

\* A set of numbers that is not empty has a least element.
LEMMA LeastElement ==
    ASSUME NEW S \in SUBSET Nat, S # {}
    PROVE  \E k \in S : \A j \in S : k <= j
<1> DEFINE Below == {ss \in Nat \X Nat : ss[1] < ss[2]}
<1>1. OpToRel(<, Nat) = Below
  BY DEF OpToRel
<1>2. IsWellFoundedOn(Below, Nat)
  BY <1>1, NatLessThanWellFounded, Zenon
<1> HIDE DEF Below
<1>3. PICK k \in S : \A j \in S : ~ (<<j, k>> \in Below)
  BY <1>2, WFMin
<1>4. \A j \in Nat : j < k => <<j, k>> \in Below
  BY Zenon DEF Below
<1>5. \A j \in S : ~ (j < k)
  BY <1>3, <1>4, Zenon
<1>6. \A j \in S : k <= j
  <2> TAKE j \in S
  <2> j \in Nat /\ k \in Nat
    OBVIOUS
  <2> QED
    BY <1>5
<1> QED
  BY <1>6

\* A set of positions that is not empty has a greatest element.
LEMMA GreatestElement ==
    ASSUME NEW n \in Nat, NEW S \in SUBSET (1..n), S # {}
    PROVE  \E k \in S : \A j \in S : j <= k
<1> DEFINE Bounds == {b \in Nat : \A j \in S : j <= b}
<1>1. Bounds \in SUBSET Nat /\ n \in Bounds
  OBVIOUS
<1>2. PICK k \in Bounds : \A b \in Bounds : k <= b
  BY <1>1, LeastElement
<1>3. k \in S
  <2> SUFFICES ASSUME k \notin S PROVE FALSE
    OBVIOUS
  <2>1. \A j \in S : j \in Nat /\ j >= 1 /\ j <= k /\ j # k
    BY <1>2
  <2>2. k >= 1
    <3> PICK j \in S : TRUE
      OBVIOUS
    <3>1. j >= 1 /\ j <= k /\ j \in Nat /\ k \in Nat
      BY <2>1, <1>2
    <3> QED
      BY <3>1
  <2>3. k - 1 \in Nat /\ \A j \in S : j <= k - 1
    BY <2>1, <2>2, <1>2
  <2>4. k - 1 \in Bounds
    BY <2>3
  <2> QED
    BY <1>2, <2>4
<1> QED
  BY <1>2, <1>3

\* A function takes finitely many values on a finite set.
LEMMA FiniteImage ==
    ASSUME NEW S, IsFiniteSet(S), NEW f, f \in [S -> {f[x] : x \in S}]
    PROVE  IsFiniteSet({f[x] : x \in S})
<1>1. f \in Surjection(S, {f[x] : x \in S})
  BY DEF Surjection
<1> QED
  BY <1>1, FS_Surjection
=============================================================================
