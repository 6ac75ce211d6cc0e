---------------------------- MODULE NaturalOrder ----------------------------
(* The least and the greatest element of a set of natural numbers, which a  *)
(* search for the first or the last of something returns.                   *)
EXTENDS Naturals, TLAPS, WellFoundedInduction

\* A set of natural numbers that is not empty has a least element.
LEMMA LeastExists ==
    ASSUME NEW S \in SUBSET Nat, S # {}
    PROVE  \E p \in S : \A q \in S : p <= q
<1>1. PICK p \in S : \A q \in S : ~(<<q, p>> \in OpToRel(<, Nat))
  BY WFMin, NatLessThanWellFounded, Zenon
<1>2. ASSUME NEW q \in S PROVE p <= q
  <2>1. ~(q < p)
    BY <1>1, Zenon DEF OpToRel
  <2> QED BY <2>1
<1> QED BY <1>2

\* A set of natural numbers that is bounded has a greatest element.
LEMMA GreatestExists ==
    ASSUME NEW N \in Nat, NEW S \in SUBSET (1..N), S # {}
    PROVE  \E p \in S : \A q \in S : q <= p
<1> DEFINE T == {N - q : q \in S}
<1>1. T \in SUBSET Nat /\ T # {}
  <2>1. \A q \in S : N - q \in Nat
    OBVIOUS
  <2>2. T \in SUBSET Nat
    BY <2>1, Zenon
  <2>3. PICK q \in S : TRUE
    BY Zenon
  <2>4. N - q \in T
    BY Zenon
  <2> QED BY <2>2, <2>4
<1>2. PICK t \in T : \A u \in T : t <= u
  BY <1>1, LeastExists
<1>3. PICK p \in S : t = N - p
  OBVIOUS
<1>4. ASSUME NEW q \in S PROVE q <= p
  <2>1. t <= N - q
    BY <1>2
  <2> QED BY <2>1, <1>3
<1> QED BY <1>4
=============================================================================
