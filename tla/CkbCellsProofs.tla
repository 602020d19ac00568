--------------------------- MODULE CkbCellsProofs ---------------------------
(***************************************************************************)
(* What SeqSum computes, for every sequence of naturals.  SeqSum is a      *)
(* recursive function (a LET s[k \in 0..Len(xs)] == ... ), which TLAPS     *)
(* reads as CHOOSE s : s = [k \in 0..Len(xs) |-> ...]: nothing is known    *)
(* of it until some function satisfying the equation is shown to exist,    *)
(* and to be the only one.  Both are by induction on k (PrefixInduction).  *)
(* The cheque builders' conservation proofs cite SeqSumEmpty and           *)
(* SeqSumAppend, with the lemmas at the end on the capacities and amounts  *)
(* of a prefix of out-points' cells and on additions that do not wrap.     *)
(***************************************************************************)
EXTENDS CkbCells, PrefixInduction, TLAPS

\* f is the table of prefix sums of xs that SeqSum's LET defines.
SumFn(xs, f) == f = [k \in 0..Len(xs) |-> IF k = 0 THEN 0 ELSE f[k - 1] + xs[k]]

\* SeqSum(xs) is the last entry of the chosen table.
LEMMA SeqSumDef ==
  ASSUME NEW xs
  PROVE  SeqSum(xs) = (CHOOSE f : SumFn(xs, f))[Len(xs)]
BY DEF SeqSum, SumFn

\* A table of prefix sums exists (induction on its length).
LEMMA SumFnExists ==
  ASSUME NEW xs \in Seq(Nat)
  PROVE  \E f \in [0..Len(xs) -> Nat] : SumFn(xs, f)
<1> DEFINE Pre(m) == \E g \in [0..m -> Nat] :
                        \A k \in 0..m : g[k] = IF k = 0 THEN 0 ELSE g[k - 1] + xs[k]
           T == {m \in 0..Len(xs) : ~Pre(m)}
<1>0. Len(xs) \in Nat
  OBVIOUS
<1>1. T = {}
  <2> SUFFICES ASSUME T # {} PROVE FALSE
    OBVIOUS
  <2>0. T \in SUBSET Nat
    BY <1>0
  <2>1. PICK m \in T : \A k \in T : m <= k
    <3> HIDE DEF T
    <3>. QED
      BY <2>0, LeastNat
  <2>2. m \in 0..Len(xs) /\ ~Pre(m)
    BY <2>1
  <2>3. CASE m = 0
    <3>1. Pre(0)
      <4> DEFINE g == [k \in 0..0 |-> 0]
      <4>1. g \in [0..0 -> Nat] /\ \A k \in 0..0 : g[k] = 0
        OBVIOUS
      <4>. HIDE DEF g
      <4>. QED
        BY <4>1
    <3>. QED
      BY <2>2, <2>3, <3>1
  <2>4. CASE m # 0
    <3>1. m - 1 \in 0..Len(xs) /\ m - 1 \notin T
      <4>1. m - 1 \in 0..Len(xs)
        BY <2>2, <2>4
      <4>2. ~(m <= m - 1)
        BY <2>2
      <4>. QED
        BY <2>1, <4>1, <4>2
    <3>2. Pre(m - 1)
      BY <3>1
    <3>3. PICK g \in [0..(m - 1) -> Nat] :
             \A k \in 0..(m - 1) : g[k] = IF k = 0 THEN 0 ELSE g[k - 1] + xs[k]
      BY <3>2
    <3>4. m \in 1..Len(xs) /\ xs[m] \in Nat
      BY <2>2, <2>4
    <3> DEFINE g2 == [k \in 0..m |-> IF k < m THEN g[k] ELSE g[m - 1] + xs[m]]
    <3>5. g2 \in [0..m -> Nat]
      BY <3>3, <3>4
    <3>6. \A k \in 0..m : g2[k] = IF k = 0 THEN 0 ELSE g2[k - 1] + xs[k]
      <4> SUFFICES ASSUME NEW k \in 0..m
                   PROVE  g2[k] = IF k = 0 THEN 0 ELSE g2[k - 1] + xs[k]
        OBVIOUS
      <4>1. CASE k < m
        <5>1. g2[k] = g[k]
          BY <4>1
        <5>2. k # 0 => g2[k - 1] = g[k - 1]
          BY <4>1
        <5>. QED
          BY <3>3, <4>1, <5>1, <5>2
      <4>2. CASE k = m
        <5>1. g2[k] = g[m - 1] + xs[m] /\ g2[k - 1] = g[m - 1]
          BY <4>2, <2>4
        <5>. QED
          BY <2>4, <4>2, <5>1
      <4>. QED
        BY <4>1, <4>2
    <3> HIDE DEF g2
    <3>7. Pre(m)
      BY <3>5, <3>6
    <3>. QED
      BY <2>2, <3>7
  <2>. QED
    BY <2>3, <2>4
<1>2. Pre(Len(xs))
  <2>1. Len(xs) \in 0..Len(xs) /\ Len(xs) \notin T
    <3>1. Len(xs) \in 0..Len(xs)
      BY <1>0
    <3>2. Len(xs) \notin T
      <4> HIDE DEF T
      <4>. QED
        BY <1>1
    <3>. QED
      BY <3>1, <3>2
  <2>. QED
    BY <2>1
<1>3. PICK g \in [0..Len(xs) -> Nat] :
         \A k \in 0..Len(xs) : g[k] = IF k = 0 THEN 0 ELSE g[k - 1] + xs[k]
  BY <1>2
<1>4. SumFn(xs, g)
  BY <1>3 DEF SumFn
<1>. QED
  BY <1>3, <1>4

\* Two tables of prefix sums of the same sequence are equal.
LEMMA SumFnUnique ==
  ASSUME NEW xs \in Seq(Nat), NEW f, NEW h, SumFn(xs, f), SumFn(xs, h)
  PROVE  f = h
<1> DEFINE T == {k \in 0..Len(xs) : f[k] # h[k]}
<1>0. Len(xs) \in Nat
  OBVIOUS
<1>1. T = {}
  <2> SUFFICES ASSUME T # {} PROVE FALSE
    OBVIOUS
  <2>0. T \in SUBSET Nat
    BY <1>0
  <2>1. PICK m \in T : \A k \in T : m <= k
    <3> HIDE DEF T
    <3>. QED
      BY <2>0, LeastNat
  <2>2. m \in 0..Len(xs) /\ f[m] # h[m]
    BY <2>1
  <2>3. m # 0
    BY <2>2 DEF SumFn
  <2>4. m - 1 \in 0..Len(xs) /\ f[m - 1] = h[m - 1]
    <3>1. m - 1 \in 0..Len(xs)
      BY <2>2, <2>3
    <3>2. ~(m <= m - 1)
      BY <2>2
    <3>. QED
      BY <2>1, <3>1, <3>2
  <2>5. f[m] = f[m - 1] + xs[m] /\ h[m] = h[m - 1] + xs[m]
    BY <2>2, <2>3 DEF SumFn
  <2>. QED
    BY <2>2, <2>4, <2>5
<1>2. \A k \in 0..Len(xs) : f[k] = h[k]
  BY <1>1
<1>. QED
  BY <1>2 DEF SumFn
\* The sum of a sequence of naturals is a natural, and CHOOSE picks its
\* unique summing function.
LEMMA SumFnChosen ==
  ASSUME NEW xs \in Seq(Nat)
  PROVE  LET F == CHOOSE f : SumFn(xs, f)
         IN  SumFn(xs, F) /\ F \in [0..Len(xs) -> Nat]
<1>1. PICK g \in [0..Len(xs) -> Nat] : SumFn(xs, g)
  BY SumFnExists
<1>2. SumFn(xs, CHOOSE f : SumFn(xs, f))
  BY <1>1
<1>3. (CHOOSE f : SumFn(xs, f)) = g
  BY <1>1, <1>2, SumFnUnique
<1>. QED
  BY <1>1, <1>2, <1>3

\* The sum of a sequence of naturals is a natural.
LEMMA SeqSumType ==
  ASSUME NEW xs \in Seq(Nat)
  PROVE  SeqSum(xs) \in Nat
<1>1. Len(xs) \in 0..Len(xs)
  OBVIOUS
<1>. QED
  BY <1>1, SumFnChosen, SeqSumDef

\* The sum of the empty sequence is 0.
LEMMA SeqSumEmpty == SeqSum(<< >>) = 0
<1>1. << >> \in Seq(Nat) /\ Len(<< >>) = 0
  OBVIOUS
<1>2. SumFn(<< >>, CHOOSE f : SumFn(<< >>, f))
  BY <1>1, SumFnChosen
<1>. QED
  BY <1>1, <1>2, SeqSumDef DEF SumFn

\* Appending x to a sequence adds x to its sum.
LEMMA SeqSumAppend ==
  ASSUME NEW xs \in Seq(Nat), NEW x \in Nat
  PROVE  SeqSum(Append(xs, x)) = SeqSum(xs) + x
<1> DEFINE ys == Append(xs, x)
           n  == Len(xs)
           F  == CHOOSE f : SumFn(ys, f)
           F0 == CHOOSE f : SumFn(xs, f)
           R  == [k \in 0..n |-> F[k]]
<1>1. ys \in Seq(Nat) /\ Len(ys) = n + 1 /\ n \in Nat
  OBVIOUS
<1>2. SumFn(ys, F) /\ F \in [0..(n + 1) -> Nat]
  BY <1>1, SumFnChosen
<1>3. SumFn(xs, F0)
  BY SumFnChosen
<1>4. \A k \in 0..(n + 1) : F[k] = IF k = 0 THEN 0 ELSE F[k - 1] + ys[k]
  BY <1>1, <1>2 DEF SumFn
<1>5. SeqSum(ys) = F[n + 1] /\ SeqSum(xs) = F0[n]
  BY <1>1, SeqSumDef
<1> HIDE DEF F, F0
<1>6. SumFn(xs, R)
  <2>1. \A k \in 0..n : R[k] = IF k = 0 THEN 0 ELSE R[k - 1] + xs[k]
    <3> SUFFICES ASSUME NEW k \in 0..n
                 PROVE  R[k] = IF k = 0 THEN 0 ELSE R[k - 1] + xs[k]
      OBVIOUS
    <3>1. k # 0 => ys[k] = xs[k] /\ R[k - 1] = F[k - 1]
      BY <1>1
    <3>. QED
      BY <1>4, <3>1
  <2>. QED
    BY <2>1 DEF SumFn
<1>7. R = F0
  BY <1>3, <1>6, SumFnUnique
<1>8. F[n + 1] = F[n] + x
  <2>1. n + 1 \in 0..(n + 1) /\ n + 1 # 0 /\ ys[n + 1] = x
    BY <1>1
  <2>. QED
    BY <1>4, <2>1
<1>9. F0[n] = F[n]
  BY <1>1, <1>7
<1>. QED
  BY <1>5, <1>8, <1>9
\* The first n cells of some out-points.
Prefix(ops, n) == [k \in 1..n |-> Chain[ops[k]]]

\* Their capacities and amounts are sequences of naturals, empty when n is 0.
LEMMA VisitedSums ==
    ASSUME NEW ops \in Seq(OutPoints), NEW n \in 0..Len(ops),
           \A k \in 1..n : Chain[ops[k]] \in Cell
    PROVE  /\ CapsOf(Prefix(ops, n)) \in Seq(Nat)
           /\ AmountsOf(Prefix(ops, n)) \in Seq(Nat)
           /\ n = 0 => /\ CapsOf(Prefix(ops, n)) = << >>
                       /\ AmountsOf(Prefix(ops, n)) = << >>
<1>1. \A k \in 1..n : Chain[ops[k]].cap \in Nat /\ Chain[ops[k]].amount \in Nat
  BY ConstantsAssumption DEF Cell
<1>. QED
  BY <1>1 DEF CapsOf, AmountsOf, Prefix

\* Accepting the n-th cell appends its capacity and its amount.
LEMMA VisitedAppend ==
    ASSUME NEW ops \in Seq(OutPoints), NEW n \in 1..Len(ops)
    PROVE  /\ CapsOf(Prefix(ops, n)) = Append(CapsOf(Prefix(ops, n - 1)), Chain[ops[n]].cap)
           /\ AmountsOf(Prefix(ops, n)) = Append(AmountsOf(Prefix(ops, n - 1)), Chain[ops[n]].amount)
BY DEF CapsOf, AmountsOf, Prefix

\* A w-bit addition that does not overflow is exact.
LEMMA AddUExact ==
    ASSUME NEW a \in Nat, NEW b \in Nat, NEW limit \in Nat \ {0},
           ~Overflows(a, b, limit)
    PROVE  AddU(a, b, limit) = a + b
<1>1. a + b \in 0..(limit - 1)
  BY DEF Overflows
<1>. QED
  BY <1>1 DEF AddU

=============================================================================
