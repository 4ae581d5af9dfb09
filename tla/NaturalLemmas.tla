--------------------------- MODULE NaturalLemmas ---------------------------
(***************************************************************************)
(* Lemmas about natural numbers that the proofs about the servers share:   *)
(* a table is searched for its least entry, and a ring is indexed modulo   *)
(* its size.                                                               *)
(***************************************************************************)
EXTENDS Integers, FiniteSets, FiniteSetTheorems, WellFoundedInduction, TLAPS

\* A set of natural numbers that is not empty has a least element, and only one.
LEMMA LeastElement ==
    ASSUME NEW S, S \subseteq Nat, S # {}
    PROVE  \E m \in S : /\ \A n \in S : m <= n
                        /\ \A k \in S : (\A n \in S : k <= n) => k = m
<1> DEFINE T == {0 .. (n - 1) : n \in S}
<1>1. T \subseteq FiniteSubsetsOf(Nat)
  <2>1. ASSUME NEW n \in S PROVE 0 .. (n - 1) \in FiniteSubsetsOf(Nat)
    BY FS_Interval DEF FiniteSubsetsOf
  <2> QED
    BY <2>1
<1>2. PICK t \in T : \A u \in T : <<u, t>> \notin StrictSubsetOrdering(Nat)
  <2>1. T # {}
    OBVIOUS
  <2> HIDE DEF T
  <2> QED
    BY <1>1, <2>1, WFMin, FS_StrictSubsetOrderingWellFounded
<1>3. PICK m \in S : t = 0 .. (m - 1)
  OBVIOUS
<1>4. ASSUME NEW n \in S, n < m PROVE FALSE
  <2>1. 0 .. (n - 1) \in T
    OBVIOUS
  <2>2. 0 .. (n - 1) \subseteq 0 .. (m - 1) /\ n \in 0 .. (m - 1) /\ n \notin 0 .. (n - 1)
    BY <1>4
  <2>3. <<0 .. (n - 1), 0 .. (m - 1)>> \in StrictSubsetOrdering(Nat)
    BY <2>2 DEF StrictSubsetOrdering
  <2> QED
    BY <1>2, <1>3, <2>1, <2>3
<1> QED
  BY <1>4

\* Division with remainder
LEMMA DivisionFacts ==
    ASSUME NEW S \in Nat \ {0}, NEW a \in Nat
    PROVE  a % S \in 0 .. S - 1 /\ a \div S \in Nat /\ a = S * (a \div S) + (a % S)
OBVIOUS

\* Numbers that are less than S apart have different remainders: the entries of
\* a ring that is not overfull are in different slots.
LEMMA DifferentRemainders ==
    ASSUME NEW S \in Nat \ {0}, NEW a \in Nat, NEW b \in Nat, a < b, b < a + S
    PROVE  a % S # b % S
<1> SUFFICES ASSUME a % S = b % S PROVE FALSE
  OBVIOUS
<1> DEFINE x == a \div S
           y == b \div S
           r == a % S
<1>0. x \in Nat /\ y \in Nat /\ a = S * x + (a % S) /\ b = S * y + (b % S)
  BY DivisionFacts
<1>1. x \in Nat /\ y \in Nat /\ r \in Nat /\ a = S * x + r /\ b = S * y + r
  BY <1>0, DivisionFacts
<1> HIDE DEF x, y, r
<1>2. S * x < S * y /\ S * y < S * x + S
  BY <1>1
<1>3. y > x
  BY <1>1, <1>2
<1>4. S * y >= S * (x + 1) /\ S * (x + 1) = S * x + S
  BY <1>1, <1>3
<1> QED
  BY <1>1, <1>2, <1>4
=============================================================================
