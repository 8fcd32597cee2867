------------------------------- MODULE Extrema -------------------------------
(***************************************************************************)
(* The least and the greatest member of a set of natural numbers, which    *)
(* FiniteSetsExt chooses: that there is one to choose.                     *)
(***************************************************************************)
EXTENDS Integers, FiniteSetsExt, WellFoundedInduction, TLAPS

LEMMA MinOfNaturals ==
  ASSUME NEW S \in SUBSET Nat, S # {}
  PROVE  Min(S) \in S /\ \A y \in S : Min(S) <= y
<1> DEFINE less == OpToRel(<, Nat)
<1>1. PICK x \in S : \A y \in S : <<y, x>> \notin less
  <2>1. IsWellFoundedOn(less, Nat)
    BY NatLessThanWellFounded
  <2> HIDE DEF less
  <2> QED
    BY <2>1, WFMin
<1>2. \A y \in S : ~(y < x)
  BY <1>1 DEF OpToRel
<1>3. \A y \in S : x <= y
  BY <1>2
<1> QED
  BY <1>3 DEF Min

LEMMA MaxOfInterval ==
  ASSUME NEW n \in Nat, NEW S \in SUBSET (1 .. n), S # {}
  PROVE  Max(S) \in S /\ \A y \in S : y <= Max(S)
<1> DEFINE Mirror == {m \in Nat : \E x \in S : m = n - x}
<1>1. \A x \in S : x \in Int /\ x <= n
  OBVIOUS
<1>2. Mirror \in SUBSET Nat /\ Mirror # {}
  <2>1. PICK x \in S : TRUE
    OBVIOUS
  <2>2. n - x \in Mirror
    BY <1>1, <2>1
  <2> QED
    BY <2>2
<1>3. PICK x \in S : \A y \in Mirror : n - x <= y
  <2>1. Min(Mirror) \in Mirror /\ \A y \in Mirror : Min(Mirror) <= y
    BY <1>2, MinOfNaturals
  <2> QED
    BY <2>1
<1>4. \A y \in S : x >= y
  <2> TAKE y \in S
  <2>1. n - x <= n - y
    BY <1>1, <1>3
  <2> QED
    BY <1>1, <2>1
<1>5. Max(S) \in S /\ \A y \in S : Max(S) >= y
  BY <1>4 DEF Max
<1> QED
  BY <1>5

=============================================================================
