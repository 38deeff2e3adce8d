---------------------------- MODULE NatInduction ----------------------------
(***************************************************************************)
(* Induction over the natural numbers, stated for sets of numbers: no      *)
(* parameter is an operator, so that the provers can use it.               *)
(***************************************************************************)
EXTENDS Integers, WellFoundedInduction, TLAPS

\* Every set of natural numbers that is not empty has a least element.
LEMMA LeastElement ==
    ASSUME NEW T \in SUBSET Nat, T # {}
    PROVE  \E m \in T : \A k \in T : m <= k
<1>1. \E m \in T : \A k \in T : ~(<<k, m>> \in OpToRel(<, Nat))
  BY NatLessThanWellFounded, WFMin
<1>2. OpToRel(<, Nat) = {ss \in Nat \X Nat : ss[1] < ss[2]}
  BY Zenon DEF OpToRel
<1>3. \A k, m \in Nat : k < m => <<k, m>> \in OpToRel(<, Nat)
  <2> SUFFICES ASSUME NEW k \in Nat, NEW m \in Nat, k < m
               PROVE  <<k, m>> \in {ss \in Nat \X Nat : ss[1] < ss[2]}
    BY <1>2, Zenon
  <2> QED
    OBVIOUS
<1> HIDE DEF OpToRel
<1>4. PICK m \in T : \A k \in T : ~(<<k, m>> \in OpToRel(<, Nat))
  BY <1>1, Zenon
<1>5. \A k \in T : ~(k < m)
  BY <1>3, <1>4, Zenon
<1> QED
  BY <1>5

\* A set of naturals that holds 0 and, with a number below n, the next one,
\* holds every number up to n.
THEOREM UpTo ==
    ASSUME NEW n \in Nat, NEW T, 0 \in T, \A k \in 0..n-1 : k \in T => k + 1 \in T
    PROVE  0..n \subseteq T
<1>1. SUFFICES ASSUME (0..n) \ T # {} PROVE FALSE
  OBVIOUS
<1>2. (0..n) \ T \in SUBSET Nat
  OBVIOUS
<1>3. PICK m \in (0..n) \ T : \A k \in (0..n) \ T : m <= k
  BY <1>1, <1>2, LeastElement
<1>4. m # 0 /\ m - 1 \in 0..n-1
  BY <1>3
<1>5. m - 1 \in T
  BY <1>3, <1>4
<1>6. (m - 1) + 1 \in T
  BY <1>4, <1>5
<1> QED
  BY <1>3, <1>4, <1>6
=============================================================================
