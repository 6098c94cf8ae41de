---------------------------- MODULE NumberLemmas ----------------------------
(***************************************************************************)
(* What the proofs about the components use of the natural numbers: least  *)
(* and greatest members, and induction stated for a set, {k : P(k)}, where *)
(* the library states it for an operator.                                  *)
(***************************************************************************)
EXTENDS Integers, WellFoundedInduction, TLAPS

\* A nonempty set of naturals has a least member: the row that comes first in a
\* flush.
LEMMA Least ==
  ASSUME NEW S \in SUBSET Nat, S # {}
  PROVE  \E m \in S : \A n \in S : m <= n
<1>1. IsWellFoundedOn(OpToRel(<, Nat), Nat)
  BY NatLessThanWellFounded
<1>2. PICK m \in S : \A n \in S : ~(<<n, m>> \in OpToRel(<, Nat))
  BY <1>1, WFMin
<1>3. \A n \in S : ~(n < m)
  BY <1>2 DEF OpToRel
<1> QED
  BY <1>3

\* A nonempty set of numbers up to k has a greatest one: the newest version
\* published.
LEMMA Greatest ==
  ASSUME NEW k \in Nat, NEW S \in SUBSET (0..k), S # {}
  PROVE  \E m \in S : \A n \in S : n <= m
<1> DEFINE T == {k - n : n \in S}
<1>1. \A n \in S : n \in 0..k /\ k - n \in Nat
  OBVIOUS
<1>2. T \in SUBSET Nat /\ T # {}
  BY <1>1
<1>3. PICK t \in T : \A u \in T : t <= u
  <2> HIDE DEF T
  <2> QED
    BY <1>2, Least
<1>4. PICK m \in S : t = k - m
  OBVIOUS
<1>5. \A n \in S : k - m <= k - n
  BY <1>3, <1>4
<1>6. \A n \in S : n <= m
  BY <1>1, <1>5
<1> QED
  BY <1>6

\* A set with 0, and with every number up to n whose predecessor is in it, has
\* all of 0..n: sums and rebuilds go through executions one by one.
LEMMA UpTo ==
  ASSUME NEW n \in Nat, NEW S, 0 \in S, \A k \in 1..n : k - 1 \in S => k \in S
  PROVE  \A k \in 0..n : k \in S
<1> DEFINE Bad == {k \in 0..n : k \notin S}
<1>1. SUFFICES ASSUME Bad # {} PROVE FALSE
  BY <1>1
<1>2. PICK k \in Bad : \A m \in Bad : k <= m
  <2>1. Bad \in SUBSET Nat
    OBVIOUS
  <2> HIDE DEF Bad
  <2> QED
    BY <1>1, <2>1, Least
<1>3. k \in 1..n /\ k - 1 \in 0..n /\ ~(k <= k - 1)
  BY <1>2
<1>4. k - 1 \notin Bad
  BY <1>2, <1>3
<1> QED
  BY <1>2, <1>3, <1>4
=============================================================================
