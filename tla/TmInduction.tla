----------------------------- MODULE TmInduction -----------------------------
(***************************************************************************)
(* Induction over the natural numbers in the form the proofs of the other  *)
(* modules need: for a set, not for a predicate.  It follows from < being  *)
(* well-founded.                                                           *)
(***************************************************************************)
EXTENDS Integers, WellFoundedInduction, NaturalsInduction, TLAPS

LEMMA SmallestOf ==
    ASSUME NEW S \in SUBSET Nat, S # {}
    PROVE  \E x \in S : \A y \in S : x <= y
  <1>1. PICK R : /\ IsWellFoundedOn(R, Nat)
                 /\ \A a, b \in Nat : a < b => <<a, b>> \in R
    BY NatLessThanWellFounded DEF OpToRel
  <1>2. PICK x \in S : \A y \in S : <<y, x>> \notin R
    <2>1. IsWellFoundedOn(R, Nat)
      BY <1>1
    <2>2. \A RR, SS, TT :
            IsWellFoundedOn(RR, SS) /\ TT \subseteq SS /\ TT # {} =>
              \E x \in TT : \A y \in TT : ~(<<y, x>> \in RR)
      BY WFMin, Zenon
    <2> QED  BY <2>1, <2>2, Zenon
  <1>3. ASSUME NEW y \in S PROVE x <= y
    <2>1. ~(y < x)
      BY <1>1, <1>2
    <2>2. x \in Nat /\ y \in Nat
      OBVIOUS
    <2> QED  BY <2>1, <2>2
  <1> QED  BY <1>3

\* A set with 0 and the successors of its numbers has all of them.
LEMMA NatSetInduction ==
    ASSUME NEW S, 0 \in S, \A n \in Nat : n \in S => n + 1 \in S
    PROVE  Nat \subseteq S
  <1> SUFFICES ASSUME Nat \ S # {} PROVE FALSE
    OBVIOUS
  <1>1. PICK x \in Nat \ S : \A y \in Nat \ S : x <= y
    BY SmallestOf
  <1>2. x - 1 \in Nat /\ x = (x - 1) + 1
    BY <1>1
  <1>3. x - 1 \in S
    BY <1>1, <1>2
  <1> QED  BY <1>2, <1>3

\* Some numbers between 1 and n have a largest one among them.
LEMMA LargestOf ==
    ASSUME NEW n \in Nat, NEW S \in SUBSET (1 .. n), S # {}
    PROVE  \E m \in S : \A k \in S : k <= m
  <1> DEFINE Bounds == {b \in Nat : \A T \in SUBSET (1 .. b) :
                          T # {} => \E m \in T : \A k \in T : k <= m}
  <1>1. 0 \in Bounds
    <2>1. ASSUME NEW T \in SUBSET (1 .. 0), NEW k \in T
          PROVE  FALSE
      OBVIOUS
    <2> QED  BY <2>1
  <1>2. ASSUME NEW b \in Nat, b \in Bounds
        PROVE  b + 1 \in Bounds
    <2> SUFFICES ASSUME NEW T \in SUBSET (1 .. b + 1), T # {}
                 PROVE  \E m \in T : \A k \in T : k <= m
      OBVIOUS
    <2>1. CASE b + 1 \in T
      BY <2>1
    <2>2. CASE b + 1 \notin T
      <3>1. T \in SUBSET (1 .. b)
        BY <2>2
      <3> QED  BY <1>2, <3>1
    <2> QED  BY <2>1, <2>2
  <1> HIDE DEF Bounds
  <1>3. n \in Bounds
    BY <1>1, <1>2, NatSetInduction
  <1> QED  BY <1>3 DEF Bounds
=============================================================================
