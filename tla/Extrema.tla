------------------------------ MODULE Extrema ------------------------------
(* Least and greatest elements of sets of integers.                        *)
EXTENDS Integers, FiniteSetsExt, WellFoundedInduction, TLAPS

\* Every inhabited set of naturals has a least element.
LEMMA LeastNatural ==
    ASSUME NEW S \in SUBSET Nat, S # {}
    PROVE  \E m \in S : \A n \in S : m <= n
<1>1. PICK m \in S : \A n \in S : <<n, m>> \notin OpToRel(<, Nat)
  BY WFMin, NatLessThanWellFounded
<1>2. \A n \in S : ~(n < m)
  BY <1>1 DEF OpToRel
<1> QED
  BY <1>2

\* Max of an inhabited set of integers with an upper bound is its greatest.
LEMMA MaxIsGreatest ==
    ASSUME NEW S \in SUBSET Int, S # {}, NEW b \in Int, \A n \in S : n <= b
    PROVE  Max(S) \in S /\ \A n \in S : n <= Max(S)
<1> DEFINE T == {b - n : n \in S}
<1>1. \A n \in S : b - n \in Nat
  OBVIOUS
<1>2. T \in SUBSET Nat /\ T # {}
  BY <1>1
<1>3. PICK t \in T : \A u \in T : t <= u
  BY <1>2, LeastNatural
<1>4. PICK m \in S : t = b - m
  BY <1>3
<1>5. \A n \in S : m >= n
  <2> SUFFICES ASSUME NEW n \in S PROVE m >= n
    OBVIOUS
  <2>1. b - n \in T
    OBVIOUS
  <2>2. t <= b - n
    BY <1>3, <2>1
  <2>3. m \in Int /\ n \in Int
    OBVIOUS
  <2> HIDE DEF T
  <2> QED
    BY <1>4, <2>2, <2>3
<1> QED
  BY <1>5 DEF Max

\* Min of an inhabited set of naturals is its least, and no other element is.
LEMMA MinIsLeast ==
    ASSUME NEW S \in SUBSET Nat, S # {}
    PROVE  /\ Min(S) \in S
           /\ \A n \in S : Min(S) <= n
           /\ \A m \in S : (\A n \in S : m <= n) => m = Min(S)
<1>1. PICK m \in S : \A n \in S : m <= n
  BY LeastNatural
<1>2. Min(S) \in S /\ \A n \in S : Min(S) <= n
  BY <1>1 DEF Min
<1>3. ASSUME NEW k \in S, \A n \in S : k <= n
      PROVE  k = Min(S)
  <2>1. k <= Min(S) /\ Min(S) <= k
    BY <1>2, <1>3
  <2>2. k \in Nat /\ Min(S) \in Nat
    BY <1>2
  <2> QED
    BY <2>1, <2>2
<1> QED
  BY <1>2, <1>3
=============================================================================
