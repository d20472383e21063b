---------------------------- MODULE LeastNumbers ----------------------------
(* The least and the greatest of a set of numbers.                         *)
EXTENDS Naturals, FiniteSetTheorems, WellFoundedInduction, TLAPS

\* A set of numbers that is not empty has a least one: what an induction over
\* numbers is made of where no induction theorem can be applied.
LEMMA Least ==
    ASSUME NEW S \in SUBSET Nat, S # {}
    PROVE  \E m \in S : \A k \in S : m <= k
<1> DEFINE T == {1 .. k : k \in S}
           R == StrictSubsetOrdering(Nat)
           F == FiniteSubsetsOf(Nat)
<1>1. \A k \in S : 1 .. k \in F
  <2> SUFFICES ASSUME NEW k \in S PROVE 1 .. k \in F
    OBVIOUS
  <2>1. k \in Int /\ 1 \in Int /\ 1 .. k \in SUBSET Nat
    OBVIOUS
  <2>2. IsFiniteSet(1 .. k)
    BY <2>1, FS_Interval
  <2> QED
    BY <2>1, <2>2 DEF FiniteSubsetsOf
<1>2. IsWellFoundedOn(R, F)
  BY FS_StrictSubsetOrderingWellFounded
<1>3. T # {} /\ T \subseteq F
  BY <1>1
<1>4. \E x \in T : \A y \in T : ~ (<<y, x>> \in R)
  <2> HIDE DEF T, R, F
  <2> QED
    BY <1>2, <1>3, WFMin
<1>5. PICK m \in S : \A k \in S : ~ (<<1 .. k, 1 .. m>> \in R)
  BY <1>4
<1>6. ASSUME NEW k \in S, k < m PROVE FALSE
  <2>1. 1 .. k \subseteq 1 .. m /\ m \in 1 .. m /\ m \notin 1 .. k
    BY <1>6
  <2>2. 1 .. k \in SUBSET Nat /\ 1 .. m \in SUBSET Nat /\ 1 .. k # 1 .. m
    BY <1>6, <2>1
  <2>3. <<1 .. k, 1 .. m>> \in R
    BY <2>1, <2>2 DEF StrictSubsetOrdering
  <2> QED
    BY <1>5, <2>3
<1> QED
  BY <1>6

\* If it is bounded, it has a greatest one.
LEMMA Greatest ==
    ASSUME NEW S \in SUBSET Nat, S # {}, NEW n \in Nat, \A k \in S : k <= n
    PROVE  \E m \in S : \A k \in S : k <= m
<1> DEFINE B == {b \in Nat : \A k \in S : k <= b}
<1>1. B \in SUBSET Nat /\ B # {}
  OBVIOUS
<1>2. PICK m \in B : \A b \in B : m <= b
  BY <1>1, Least
<1>3. ASSUME m \notin S PROVE FALSE
  <2>1. PICK k \in S : k <= m
    OBVIOUS
  <2>2. m - 1 \in Nat
    BY <1>3, <2>1
  <2>3. \A j \in S : j <= m - 1
    BY <1>3
  <2>4. m <= m - 1
    BY <1>2, <2>2, <2>3
  <2> QED
    BY <2>4
<1> QED
  BY <1>3
=============================================================================
