--------------------------- MODULE PrefixInduction ---------------------------
(***************************************************************************)
(* Induction over 0..n, for the recursive functions of the model (SeqSum, *)
(* the filter Keep and the multisig slot placement PlaceAll).  The         *)
(* library's induction theorems take the property as an operator          *)
(* parameter, which the installed provers cannot instantiate; WFMin, on    *)
(* the well-founded < of Nat, takes sets, so the induction here is stated *)
(* over the set of the indices where the property holds.                  *)
(***************************************************************************)
EXTENDS Naturals, WellFoundedInduction, TLAPS

\* Every non-empty set of naturals has a least element.
LEMMA LeastNat ==
  ASSUME NEW T \in SUBSET Nat, T # {}
  PROVE  \E m \in T : \A k \in T : m <= k
<1>1. IsWellFoundedOn(OpToRel(<, Nat), Nat)
  BY NatLessThanWellFounded
<1>2. PICK m \in T : \A y \in T : ~(<<y, m>> \in OpToRel(<, Nat))
  BY <1>1, WFMin
<1>3. \A y, x \in Nat : y < x => <<y, x>> \in OpToRel(<, Nat)
  BY Zenon DEF OpToRel
<1>4. \A y \in T : ~(y < m)
  BY <1>2, <1>3, Zenon
<1>. QED
  BY <1>4

\* Induction on 0..n: a set of indices that holds 0 and the successor of
\* each of its members below n is all of 0..n.
LEMMA PrefixInduct ==
  ASSUME NEW n \in Nat, NEW Good \in SUBSET (0..n), 0 \in Good,
         \A m \in 1..n : m - 1 \in Good => m \in Good
  PROVE  Good = 0..n
<1> DEFINE Bad == (0..n) \ Good
<1> SUFFICES ASSUME Bad # {} PROVE FALSE
  OBVIOUS
<1>1. Bad \in SUBSET Nat
  OBVIOUS
<1>2. PICK m \in Bad : \A k \in Bad : m <= k
  <2> HIDE DEF Bad
  <2>. QED
    BY <1>1, LeastNat
<1>3. m \in 1..n /\ m \notin Good
  BY <1>2
<1>4. m - 1 \in Good
  <2>1. m - 1 \in 0..n /\ ~(m <= m - 1)
    BY <1>3
  <2>. QED
    BY <1>2, <2>1
<1>. QED
  BY <1>3, <1>4

=============================================================================
