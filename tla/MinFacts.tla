------------------------------ MODULE MinFacts ------------------------------
(***************************************************************************)
(* Sets of natural numbers have a minimum: a lemma for the other modules'  *)
(* proofs, whose searches take the first slot or node that fits.           *)
(***************************************************************************)
EXTENDS Integers, FiniteSetsExt, TLAPS, FiniteSetTheorems

\* The intervals up to the elements of S are finite, so one of them is smallest.
LEMMA Smallest ==
  ASSUME NEW S \in SUBSET Nat, S # {}
  PROVE  Min(S) \in S /\ \A i \in S : Min(S) <= i
<1> DEFINE T == {0..i : i \in S}
<1>1. T \subseteq FiniteSubsetsOf(Nat) /\ T # {}
  <2>1. ASSUME NEW i \in S PROVE 0..i \in FiniteSubsetsOf(Nat)
    <3>1. IsFiniteSet(0..i) /\ 0..i \in SUBSET Nat
      BY FS_Interval
    <3> QED
      BY <3>1 DEF FiniteSubsetsOf
  <2> QED
    BY <2>1
<1>2. PICK X \in T : \A Y \in T : <<Y, X>> \notin StrictSubsetOrdering(Nat)
  <2>1. IsWellFoundedOn(StrictSubsetOrdering(Nat), FiniteSubsetsOf(Nat))
    BY FS_StrictSubsetOrderingWellFounded
  <2> HIDE DEF T
  <2> QED
    BY <1>1, <2>1, WFMin
<1>3. PICK m \in S : X = 0..m
  OBVIOUS
<1>4. ASSUME NEW j \in S PROVE m <= j
  <2>1. SUFFICES ASSUME j < m PROVE FALSE
    OBVIOUS
  <2>2. 0..j \subseteq 0..m /\ m \in 0..m /\ m \notin 0..j
    BY <2>1
  <2>3. 0..j \in T /\ 0..j \in SUBSET Nat /\ 0..m \in SUBSET Nat
    OBVIOUS
  <2>4. 0..j # 0..m
    BY <2>2
  <2>5. <<0..j, 0..m>> \in StrictSubsetOrdering(Nat)
    BY <2>2, <2>3, <2>4 DEF StrictSubsetOrdering
  <2> QED
    BY <1>2, <1>3, <2>3, <2>5
<1> QED
  BY <1>4 DEF Min
=============================================================================
