------------------------------ MODULE MinLemmas ------------------------------
(***************************************************************************)
(* The least element of a set of naturals, which the scans of the code     *)
(* ("the first way / port that ...") are written with.                     *)
(***************************************************************************)
EXTENDS Integers, FiniteSetsExt, WellFoundedInduction, TLAPS

(* A non-empty set of naturals has a least element, so Min returns a       *)
(* member of the set that no other member precedes: what a scan from the   *)
(* lowest index upwards finds.                                             *)
LEMMA MinIsLeast ==
  ASSUME NEW S \in SUBSET Nat, S # {}
  PROVE  Min(S) \in S /\ \A y \in S : Min(S) =< y
<1>1. IsWellFoundedOn(OpToRel(<, Nat), Nat)
  BY NatLessThanWellFounded
<1>2. PICK x \in S : \A y \in S : ~ (<<y, x>> \in OpToRel(<, Nat))
  BY <1>1, WFMin
<1>3. \A y \in S : ~ (y < x)
  BY <1>2 DEF OpToRel
<1>4. \A y \in S : x =< y
  BY <1>3
<1> QED
  BY <1>4 DEF Min

(* The membership half on its own.                                         *)
LEMMA MinIsMember ==
  ASSUME NEW S \in SUBSET Nat, S # {}
  PROVE  Min(S) \in S
BY MinIsLeast
=============================================================================
