------------------------------ MODULE NumberFacts ------------------------------
(***************************************************************************)
(* Facts about numbers that the proofs of several components rest on.      *)
(***************************************************************************)
EXTENDS Integers, FiniteSetsExt, WellFoundedInduction, TLAPS

\* A set of numbers has a least one, and Min returns it.
LEMMA MinIs ==
    ASSUME NEW S \in SUBSET Nat, S # {}
    PROVE  Min(S) \in S /\ \A y \in S : Min(S) <= y
<1> DEFINE R == OpToRel(<, Nat)
<1>1. \A x, y \in Nat : x < y => <<x, y>> \in R
  BY DEF OpToRel
<1>2. IsWellFoundedOn(R, Nat)
  BY NatLessThanWellFounded
<1> HIDE DEF R
<1>3. PICK x \in S : \A y \in S : ~ (<<y, x>> \in R)
  BY <1>2, WFMin
<1>4. ASSUME NEW y \in S PROVE x <= y
  <2>1. x \in Nat /\ y \in Nat /\ ~ (y < x)
    BY <1>1, <1>3
  <2> QED BY <2>1
<1> QED BY <1>3, <1>4 DEF Min

\* Quotient and remainder are the one way to write a number as a multiple of the
\* divisor and a rest below it.
LEMMA DivModIs ==
    ASSUME NEW U \in Nat \ {0}, NEW q \in Int, NEW r \in 0 .. (U - 1)
    PROVE  (q * U + r) \div U = q /\ (q * U + r) % U = r
<1> DEFINE a == q * U + r
           m == a % U
           d == a \div U
<1>1. a \in Int /\ d \in Int /\ m \in 0 .. (U - 1) /\ a = d * U + m
  <2>1. a \in Int
    OBVIOUS
  <2> HIDE DEF a
  <2> QED BY <2>1
<1> HIDE DEF m, d
<1>2. (q - d) * U = m - r
  BY <1>1
<1>3. -U < m - r /\ m - r < U
  BY <1>1
<1>4. q - d = 0
  <2>1. q - d >= 1 => (q - d) * U >= U
    BY <1>1
  <2>2. q - d <= -1 => (q - d) * U <= -U
    BY <1>1
  <2> QED BY <1>1, <1>2, <1>3, <2>1, <2>2
<1>5. m = r /\ d = q
  BY <1>1, <1>2, <1>4
<1> QED BY <1>5 DEF m, d

\* A number is its quotient times the divisor and its remainder.
LEMMA DivModSum ==
    ASSUME NEW U \in Nat \ {0}, NEW a \in Nat
    PROVE  /\ a \div U \in Nat /\ a % U \in 0 .. (U - 1)
           /\ a = (a \div U) * U + (a % U)
OBVIOUS

\* Products with the larger factor are larger, by as much at least.
LEMMA Multiples ==
    ASSUME NEW U \in Nat, NEW i \in Nat, NEW j \in Nat, i < j
    PROVE  i * U \in Nat /\ j * U \in Nat /\ i * U + U <= j * U
OBVIOUS
===============================================================================
