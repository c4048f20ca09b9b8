---------------------------- MODULE NumberLemmas ----------------------------
(***************************************************************************)
(* Facts about natural numbers that the proofs of several components use.  *)
(***************************************************************************)
EXTENDS Integers, WellFoundedInduction, TLAPS

\* Induction over positions: if there is a counterexample, there is a first one.
LEMMA LeastElement ==
  ASSUME NEW S \in SUBSET Nat, S # {} PROVE \E x \in S : \A y \in S : x <= y
<1> DEFINE R == {ss \in Nat \X Nat : ss[1] < ss[2]}
<1>1. IsWellFoundedOn(R, Nat)
  BY NatLessThanWellFounded, Zenon DEF OpToRel
<1>2. PICK x \in S : \A y \in S : ~(<<y, x>> \in R)
  <2> HIDE DEF R
  <2> QED BY <1>1, WFMin, Zenon
<1>3. \A y \in S : x <= y
  <2> SUFFICES ASSUME NEW y \in S PROVE x <= y
    OBVIOUS
  <2>1. ~(<<y, x>> \in R)
    BY <1>2
  <2>2. x \in Nat /\ y \in Nat
    OBVIOUS
  <2> QED BY <2>1, <2>2
<1> QED BY <1>3

\* A quotient is bounded by what its divisor's multiples are bounded by.
LEMMA Quotient ==
  ASSUME NEW a \in Nat, NEW b \in Nat \ {0}
  PROVE  /\ a \div b \in Nat
         /\ \A q \in Nat : q <= a \div b => q * b <= a
         /\ \A q \in Nat : a < (q + 1) * b => a \div b <= q
         /\ \A q \in Nat : q * b <= a => q <= a \div b
<1>1. a \div b \in Nat /\ b * (a \div b) <= a /\ a < b * (a \div b) + b
  OBVIOUS
<1>2. \A q \in Nat : q <= a \div b => q * b <= a
  BY <1>1
<1>3. \A q \in Nat : a < (q + 1) * b => a \div b <= q
  BY <1>1
<1>4. \A q \in Nat : q * b <= a => q <= a \div b
  BY <1>1
<1> QED BY <1>1, <1>2, <1>3, <1>4

\* A number is its own remainder unless it is as large as the divisor.
LEMMA Modulus ==
  ASSUME NEW a \in Nat, NEW b \in Nat \ {0}
  PROVE  a % b \in Nat /\ a % b <= a /\ (a < b => a % b = a)
OBVIOUS
=============================================================================
