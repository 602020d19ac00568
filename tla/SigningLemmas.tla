---------------------------- MODULE SigningLemmas ----------------------------
(***************************************************************************)
(* What the two recursive helpers of the signers compute: Keep, the filter *)
(* of generate_message and of the multisig signer, and PlaceAll, the       *)
(* multisig slot scan.  Each is a LET recursive function, which TLAPS     *)
(* reads as CHOOSE f : f = [k \in 0..n |-> ...]; the lemmas show that one  *)
(* such table exists and only one (PrefixInduction), then read its         *)
(* entries by induction on k.                                              *)
(***************************************************************************)
EXTENDS ScriptSigning, PrefixInduction, TLAPS

\* The elements of a sequence.
Elems(s) == {s[k] : k \in DOMAIN s}

\* Appending x adds x to the elements.
LEMMA ElemsAppend ==
  ASSUME NEW T, NEW q \in Seq(T), NEW x
  PROVE  Elems(Append(q, x)) = Elems(q) \cup {x}
<1>1. /\ DOMAIN Append(q, x) = 1..(Len(q) + 1)
      /\ \A i \in 1..Len(q) : Append(q, x)[i] = q[i]
      /\ Append(q, x)[Len(q) + 1] = x
      /\ DOMAIN q = 1..Len(q)
  OBVIOUS
<1>2. \A i \in 1..(Len(q) + 1) : i \in 1..Len(q) \/ i = Len(q) + 1
  OBVIOUS
<1>. QED
  BY <1>1, <1>2 DEF Elems

-----------------------------------------------------------------------------
(* Keep *)

\* Entry k of Keep's table, from entry k - 1 of f.
KeepBody(s, S, f, k) ==
    IF k = 0 THEN << >>
    ELSE IF s[k] \in S THEN Append(f[k - 1], s[k]) ELSE f[k - 1]

\* f is the table Keep's LET defines.
KeepFn(s, S, f) == f = [k \in 0..Len(s) |-> KeepBody(s, S, f, k)]

\* Keep(s, S) is the last entry of the chosen table.
LEMMA KeepDef ==
  ASSUME NEW s, NEW S
  PROVE  Keep(s, S) = (CHOOSE f : KeepFn(s, S, f))[Len(s)]
BY DEF Keep, KeepFn, KeepBody

\* A table for Keep exists (induction on its length).
LEMMA KeepFnExists ==
  ASSUME NEW T, NEW s \in Seq(T), NEW S
  PROVE  \E f : KeepFn(s, S, f)
<1> DEFINE n == Len(s)
           Pre(m) == \E g : g = [k \in 0..m |-> KeepBody(s, S, g, k)]
           Good == {m \in 0..n : Pre(m)}
<1>0. n \in Nat
  OBVIOUS
<1>1. 0 \in Good
  <2> DEFINE g == [k \in 0..0 |-> << >>]
  <2>1. g = [k \in 0..0 |-> KeepBody(s, S, g, k)]
    BY DEF KeepBody
  <2> HIDE DEF g
  <2>. QED
    BY <1>0, <2>1
<1>2. \A m \in 1..n : m - 1 \in Good => m \in Good
  <2> SUFFICES ASSUME NEW m \in 1..n, m - 1 \in Good PROVE m \in Good
    OBVIOUS
  <2>1. PICK g : g = [k \in 0..(m - 1) |-> KeepBody(s, S, g, k)]
    OBVIOUS
  <2> DEFINE g2 == [k \in 0..m |-> IF k < m THEN g[k] ELSE KeepBody(s, S, g, m)]
  <2>2. \A k \in 0..m : g2[k] = KeepBody(s, S, g2, k)
    <3> SUFFICES ASSUME NEW k \in 0..m PROVE g2[k] = KeepBody(s, S, g2, k)
      OBVIOUS
    <3>1. k # 0 => g2[k - 1] = g[k - 1]
      OBVIOUS
    <3>2. CASE k < m
      <4>0. k \in 0..(m - 1)
        BY <3>2
      <4>1. g2[k] = g[k]
        BY <3>2
      <4>2. g[k] = KeepBody(s, S, g, k)
        BY <2>1, <4>0, Zenon
      <4>. QED
        BY <3>1, <4>1, <4>2 DEF KeepBody
    <3>3. CASE k = m
      BY <3>1, <3>3 DEF KeepBody
    <3>. QED
      BY <3>2, <3>3
  <2> HIDE DEF g2
  <2>3. g2 = [k \in 0..m |-> KeepBody(s, S, g2, k)]
    <3>2. g2 = [k \in 0..m |-> g2[k]]
      BY DEF g2
    <3>. QED
      BY <2>2, <3>2
  <2>. QED
    BY <2>3
<1>3. Good = 0..n
  <2>1. Good \in SUBSET (0..n)
    OBVIOUS
  <2> HIDE DEF Good
  <2>. QED
    BY <1>0, <1>1, <1>2, <2>1, PrefixInduct
<1>4. Pre(n)
  BY <1>0, <1>3
<1>. QED
  BY <1>4 DEF KeepFn

\* Two tables for Keep are equal.
LEMMA KeepFnUnique ==
  ASSUME NEW T, NEW s \in Seq(T), NEW S, NEW f, NEW h, KeepFn(s, S, f), KeepFn(s, S, h)
  PROVE  f = h
<1> DEFINE n == Len(s)
           Good == {k \in 0..n : f[k] = h[k]}
<1>0. n \in Nat
  OBVIOUS
<1>1. 0 \in Good
  BY <1>0 DEF KeepFn, KeepBody
<1>2. \A m \in 1..n : m - 1 \in Good => m \in Good
  <2> SUFFICES ASSUME NEW m \in 1..n, f[m - 1] = h[m - 1] PROVE f[m] = h[m]
    OBVIOUS
  <2>0. /\ f = [k \in 0..n |-> KeepBody(s, S, f, k)]
        /\ h = [k \in 0..n |-> KeepBody(s, S, h, k)]
        /\ m \in 0..n
    <3>1. m \in 0..n
      OBVIOUS
    <3>. QED
      BY <3>1, Zenon DEF KeepFn
  <2>1. f[m] = KeepBody(s, S, f, m) /\ h[m] = KeepBody(s, S, h, m)
    BY <2>0, Zenon
  <2>. QED
    BY <2>1 DEF KeepBody
<1>3. Good = 0..n
  <2>1. Good \in SUBSET (0..n)
    OBVIOUS
  <2> HIDE DEF Good
  <2>. QED
    BY <1>0, <1>1, <1>2, <2>1, PrefixInduct
<1>. QED
  BY <1>3 DEF KeepFn

(***************************************************************************)
(* Keep(s, S) is a sequence of the elements of s that are in S, and every *)
(* element of s in S is one of its elements.                              *)
(***************************************************************************)
LEMMA KeepProps ==
  ASSUME NEW T, NEW s \in Seq(T), NEW S
  PROVE  /\ Keep(s, S) \in Seq(T \cap S)
         /\ \A j \in 1..Len(s) : s[j] \in S => s[j] \in Elems(Keep(s, S))
<1> DEFINE n == Len(s)
<1>0. n \in Nat
  OBVIOUS
<1>1. PICK f : KeepFn(s, S, f)
  BY KeepFnExists
<1>2. Keep(s, S) = f[n]
  <2>1. (CHOOSE f2 : KeepFn(s, S, f2)) = f
    BY <1>1, KeepFnUnique
  <2>. QED
    BY <2>1, KeepDef
<1> DEFINE P(k) == /\ f[k] \in Seq(T \cap S)
                   /\ \A j \in 1..k : s[j] \in S => s[j] \in Elems(f[k])
           Good == {k \in 0..n : P(k)}
<1>3. 0 \in Good
  BY <1>0, <1>1 DEF KeepFn, KeepBody
<1>4. \A m \in 1..n : m - 1 \in Good => m \in Good
  <2> SUFFICES ASSUME NEW m \in 1..n, P(m - 1) PROVE P(m)
    OBVIOUS
  <2>0. f = [k \in 0..n |-> KeepBody(s, S, f, k)] /\ m \in 0..n
    <3>1. m \in 0..n
      OBVIOUS
    <3>. QED
      BY <1>1, <3>1, Zenon DEF KeepFn
  <2>1. f[m] = IF s[m] \in S THEN Append(f[m - 1], s[m]) ELSE f[m - 1]
    <3>1. f[m] = KeepBody(s, S, f, m)
      BY <2>0, Zenon
    <3>. QED
      BY <3>1 DEF KeepBody
  <2>2. s[m] \in T
    OBVIOUS
  <2>3. CASE s[m] \in S
    <3>1. f[m] = Append(f[m - 1], s[m])
      BY <2>1, <2>3
    <3>2. f[m] \in Seq(T \cap S)
      BY <3>1, <2>2, <2>3
    <3>3. Elems(f[m]) = Elems(f[m - 1]) \cup {s[m]}
      <4>1. f[m - 1] \in Seq(T \cap S)
        OBVIOUS
      <4>. QED
        BY <3>1, <4>1, ElemsAppend
    <3>. QED
      BY <3>2, <3>3
  <2>4. CASE s[m] \notin S
    BY <2>1, <2>4
  <2>. QED
    BY <2>3, <2>4
<1>5. Good = 0..n
  <2>1. Good \in SUBSET (0..n)
    OBVIOUS
  <2> HIDE DEF Good
  <2>. QED
    BY <1>0, <1>3, <1>4, <2>1, PrefixInduct
<1>. QED
  BY <1>0, <1>2, <1>5

-----------------------------------------------------------------------------
(* PlaceAll *)

\* Entry k of PlaceAll's table, from entry k - 1 of f.
PlaceBody(slots, sigs, f, k) ==
    IF k = 0 THEN slots
    ELSE IF f[k - 1] = TooMany THEN TooMany
    ELSE PlaceSig(f[k - 1], sigs[k])

\* f is the table PlaceAll's LET defines.
PlaceFn(slots, sigs, f) == f = [k \in 0..Len(sigs) |-> PlaceBody(slots, sigs, f, k)]

\* PlaceAll(slots, sigs) is the last entry of the chosen table.
LEMMA PlaceAllDef ==
  ASSUME NEW slots, NEW sigs
  PROVE  PlaceAll(slots, sigs) = (CHOOSE f : PlaceFn(slots, sigs, f))[Len(sigs)]
BY DEF PlaceAll, PlaceFn, PlaceBody

\* A table for PlaceAll exists (induction on its length).
LEMMA PlaceFnExists ==
  ASSUME NEW T, NEW sigs \in Seq(T), NEW slots
  PROVE  \E f : PlaceFn(slots, sigs, f)
<1> DEFINE n == Len(sigs)
           Pre(m) == \E g : g = [k \in 0..m |-> PlaceBody(slots, sigs, g, k)]
           Good == {m \in 0..n : Pre(m)}
<1>0. n \in Nat
  OBVIOUS
<1>1. 0 \in Good
  <2> DEFINE g == [k \in 0..0 |-> slots]
  <2>1. g = [k \in 0..0 |-> PlaceBody(slots, sigs, g, k)]
    BY DEF PlaceBody
  <2> HIDE DEF g
  <2>. QED
    BY <1>0, <2>1
<1>2. \A m \in 1..n : m - 1 \in Good => m \in Good
  <2> SUFFICES ASSUME NEW m \in 1..n, m - 1 \in Good PROVE m \in Good
    OBVIOUS
  <2>1. PICK g : g = [k \in 0..(m - 1) |-> PlaceBody(slots, sigs, g, k)]
    OBVIOUS
  <2> DEFINE g2 == [k \in 0..m |-> IF k < m THEN g[k] ELSE PlaceBody(slots, sigs, g, m)]
  <2>2. \A k \in 0..m : g2[k] = PlaceBody(slots, sigs, g2, k)
    <3> SUFFICES ASSUME NEW k \in 0..m PROVE g2[k] = PlaceBody(slots, sigs, g2, k)
      OBVIOUS
    <3>1. k # 0 => g2[k - 1] = g[k - 1]
      OBVIOUS
    <3>2. CASE k < m
      <4>0. k \in 0..(m - 1)
        BY <3>2
      <4>1. g2[k] = g[k]
        BY <3>2
      <4>2. g[k] = PlaceBody(slots, sigs, g, k)
        BY <2>1, <4>0, Zenon
      <4>. QED
        BY <3>1, <4>1, <4>2 DEF PlaceBody
    <3>3. CASE k = m
      BY <3>1, <3>3 DEF PlaceBody
    <3>. QED
      BY <3>2, <3>3
  <2> HIDE DEF g2
  <2>3. g2 = [k \in 0..m |-> PlaceBody(slots, sigs, g2, k)]
    <3>1. g2 = [k \in 0..m |-> g2[k]]
      BY DEF g2
    <3>. QED
      BY <2>2, <3>1
  <2>. QED
    BY <2>3
<1>3. Good = 0..n
  <2>1. Good \in SUBSET (0..n)
    OBVIOUS
  <2> HIDE DEF Good
  <2>. QED
    BY <1>0, <1>1, <1>2, <2>1, PrefixInduct
<1>4. Pre(n)
  BY <1>0, <1>3
<1>. QED
  BY <1>4 DEF PlaceFn

\* Two tables for PlaceAll are equal.
LEMMA PlaceFnUnique ==
  ASSUME NEW T, NEW sigs \in Seq(T), NEW slots, NEW f, NEW h,
         PlaceFn(slots, sigs, f), PlaceFn(slots, sigs, h)
  PROVE  f = h
<1> DEFINE n == Len(sigs)
           Good == {k \in 0..n : f[k] = h[k]}
<1>0. n \in Nat
  OBVIOUS
<1>1. 0 \in Good
  BY <1>0 DEF PlaceFn, PlaceBody
<1>2. \A m \in 1..n : m - 1 \in Good => m \in Good
  <2> SUFFICES ASSUME NEW m \in 1..n, f[m - 1] = h[m - 1] PROVE f[m] = h[m]
    OBVIOUS
  <2>0. /\ f = [k \in 0..n |-> PlaceBody(slots, sigs, f, k)]
        /\ h = [k \in 0..n |-> PlaceBody(slots, sigs, h, k)]
        /\ m \in 0..n
    <3>1. m \in 0..n
      OBVIOUS
    <3>. QED
      BY <3>1, Zenon DEF PlaceFn
  <2>1. f[m] = PlaceBody(slots, sigs, f, m) /\ h[m] = PlaceBody(slots, sigs, h, m)
    BY <2>0, Zenon
  <2>. QED
    BY <2>1 DEF PlaceBody
<1>3. Good = 0..n
  <2>1. Good \in SUBSET (0..n)
    OBVIOUS
  <2> HIDE DEF Good
  <2>. QED
    BY <1>0, <1>1, <1>2, <2>1, PrefixInduct
<1>. QED
  BY <1>3 DEF PlaceFn

\* The table PlaceAll reads its result from.
PlaceTable(slots, sigs) == CHOOSE f : PlaceFn(slots, sigs, f)

\* The chosen table is a table, entry by entry.
LEMMA PlaceFnChosen ==
  ASSUME NEW T, NEW sigs \in Seq(T), NEW slots
  PROVE  /\ PlaceAll(slots, sigs) = PlaceTable(slots, sigs)[Len(sigs)]
         /\ PlaceTable(slots, sigs)[0] = slots
         /\ \A k \in 1..Len(sigs) :
               PlaceTable(slots, sigs)[k] =
                 IF PlaceTable(slots, sigs)[k - 1] = TooMany THEN TooMany
                 ELSE PlaceSig(PlaceTable(slots, sigs)[k - 1], sigs[k])
<1> DEFINE F == PlaceTable(slots, sigs)
<1>1. PlaceFn(slots, sigs, F)
  <2>1. \E f : PlaceFn(slots, sigs, f)
    BY PlaceFnExists
  <2>. QED
    BY <2>1 DEF PlaceTable
<1>2. F = [k \in 0..Len(sigs) |-> PlaceBody(slots, sigs, F, k)]
  BY <1>1, Zenon DEF PlaceFn
<1>3. 0 \in 0..Len(sigs)
  OBVIOUS
<1>4. F[0] = slots
  <2>1. F[0] = PlaceBody(slots, sigs, F, 0)
    BY <1>2, <1>3, Zenon
  <2>. QED
    BY <2>1 DEF PlaceBody
<1>5. ASSUME NEW k \in 1..Len(sigs)
      PROVE  F[k] = IF F[k - 1] = TooMany THEN TooMany ELSE PlaceSig(F[k - 1], sigs[k])
  <2>1. k \in 0..Len(sigs) /\ k # 0
    OBVIOUS
  <2>2. F[k] = PlaceBody(slots, sigs, F, k)
    BY <1>2, <2>1, Zenon
  <2>. QED
    BY <2>1, <2>2 DEF PlaceBody
<1>. QED
  BY <1>4, <1>5, PlaceAllDef DEF PlaceTable

(***************************************************************************)
(* s is placed in the slots r: it is in the first slot that holds s or is  *)
(* all zeros, the one the scan of lines 314-329 stops at.                 *)
(***************************************************************************)
Stable(r, s) ==
    \E k \in DOMAIN r : /\ r[k] = s
                        /\ \A j \in 1..(k - 1) : r[j] # s /\ r[j] # Zero

\* The scan finds a placed signature where it is, and leaves the slots alone.
LEMMA StableFixed ==
  ASSUME NEW L \in Nat, NEW V, NEW r \in [1..L -> V], NEW s, Stable(r, s)
  PROVE  PlaceSig(r, s) = r
<1>1. PICK k \in 1..L : /\ r[k] = s
                        /\ \A j \in 1..(k - 1) : r[j] # s /\ r[j] # Zero
  BY DEF Stable
<1>2. FitSlots(r, s) = {k}
  <2>1. k \in FitSlots(r, s)
    BY <1>1 DEF FitSlots
  <2>2. ASSUME NEW k2 \in FitSlots(r, s) PROVE k2 = k
    <3>1. /\ k2 \in 1..L
          /\ r[k2] = s \/ r[k2] = Zero
          /\ \A j \in 1..(k2 - 1) : r[j] # s /\ r[j] # Zero
      BY DEF FitSlots
    <3>2. ~(k2 < k)
      BY <1>1, <3>1
    <3>3. ~(k < k2)
      BY <1>1, <3>1
    <3>. QED
      BY <1>1, <3>1, <3>2, <3>3
  <2>. QED
    BY <2>1, <2>2
<1>. QED
  BY <1>1, <1>2 DEF PlaceSig

(***************************************************************************)
(* One step of the scan: a signature that finds a slot is placed there,   *)
(* the slots keep their length and values, and every signature placed    *)
(* before stays placed (the scan only fills an all-zero slot past it).    *)
(***************************************************************************)
LEMMA PlaceSigStep ==
  ASSUME NEW L \in Nat, NEW V, NEW r \in [1..L -> V], NEW s \in V, s # Zero,
         FitSlots(r, s) # {}
  PROVE  /\ PlaceSig(r, s) \in [1..L -> V]
         /\ Stable(PlaceSig(r, s), s)
         /\ \A t : t # Zero /\ Stable(r, t) => Stable(PlaceSig(r, s), t)
<1> DEFINE k2 == CHOOSE k \in FitSlots(r, s) : TRUE
           r2 == PlaceSig(r, s)
<1>1. k2 \in FitSlots(r, s)
  OBVIOUS
<1>2. /\ k2 \in 1..L
      /\ r[k2] = s \/ r[k2] = Zero
      /\ \A j \in 1..(k2 - 1) : r[j] # s /\ r[j] # Zero
  BY <1>1 DEF FitSlots
<1>3. r2 = IF r[k2] = s THEN r ELSE [r EXCEPT ![k2] = s]
  BY DEF PlaceSig
<1> HIDE DEF k2, r2
<1>4. /\ r2 \in [1..L -> V]
      /\ r2[k2] = s
      /\ \A j \in 1..L : j # k2 => r2[j] = r[j]
  BY <1>2, <1>3
<1>5. Stable(r2, s)
  <2>1. k2 \in DOMAIN r2 /\ \A j \in 1..(k2 - 1) : r2[j] = r[j]
    BY <1>2, <1>4
  <2>. QED
    BY <1>2, <1>4, <2>1 DEF Stable
<1>6. ASSUME NEW t, t # Zero, Stable(r, t) PROVE Stable(r2, t)
  <2>1. PICK k \in 1..L : /\ r[k] = t
                          /\ \A j \in 1..(k - 1) : r[j] # t /\ r[j] # Zero
    BY <1>6 DEF Stable
  <2>2. CASE r[k2] = s
    BY <1>3, <1>6, <2>2
  <2>3. CASE r[k2] # s
    <3>1. r[k2] = Zero
      BY <1>2, <2>3
    <3>2. k < k2
      BY <1>6, <2>1, <3>1, <1>2
    <3>3. \A j \in 1..k : r2[j] = r[j]
      BY <1>2, <1>4, <3>2
    <3>. QED
      BY <1>4, <2>1, <3>3 DEF Stable
  <2>. QED
    BY <2>2, <2>3
<1>. QED
  BY <1>4, <1>5, <1>6 DEF r2

(***************************************************************************)
(* A scan that does not fail returns slots of the same length and values, *)
(* with every signature of the wallet placed.                              *)
(***************************************************************************)
LEMMA PlaceAllProps ==
  ASSUME NEW L \in Nat, NEW V, NEW slots \in [1..L -> V], NEW sigs \in Seq(V),
         \A j \in 1..Len(sigs) : sigs[j] # Zero,
         PlaceAll(slots, sigs) # TooMany
  PROVE  /\ PlaceAll(slots, sigs) \in [1..L -> V]
         /\ \A j \in 1..Len(sigs) : Stable(PlaceAll(slots, sigs), sigs[j])
<1> DEFINE n == Len(sigs)
           F == PlaceTable(slots, sigs)
           P(k) == \/ F[k] = TooMany
                   \/ /\ F[k] \in [1..L -> V]
                      /\ \A j \in 1..k : Stable(F[k], sigs[j])
           Good == {k \in 0..n : P(k)}
<1>0. n \in Nat
  OBVIOUS
<1>1. /\ PlaceAll(slots, sigs) = F[n]
      /\ F[0] = slots
      /\ \A k \in 1..n : F[k] = IF F[k - 1] = TooMany THEN TooMany
                                ELSE PlaceSig(F[k - 1], sigs[k])
  BY PlaceFnChosen
<1> HIDE DEF F
<1>2. 0 \in Good
  BY <1>0, <1>1
<1>3. \A m \in 1..n : m - 1 \in Good => m \in Good
  <2>r. \A m \in 1..n : m \in 0..n /\ m - 1 \in 0..n
    BY <1>0
  <2> SUFFICES ASSUME NEW m \in 1..n, P(m - 1) PROVE P(m)
    BY <2>r, Zenon
  <2>0. F[m] = IF F[m - 1] = TooMany THEN TooMany ELSE PlaceSig(F[m - 1], sigs[m])
    BY <1>1
  <2>1. CASE F[m - 1] = TooMany
    BY <2>0, <2>1
  <2>2. CASE F[m - 1] # TooMany /\ FitSlots(F[m - 1], sigs[m]) = {}
    <3>1. PlaceSig(F[m - 1], sigs[m]) = TooMany
      BY <2>2 DEF PlaceSig
    <3>. QED
      BY <2>0, <2>2, <3>1
  <2>3. CASE F[m - 1] # TooMany /\ FitSlots(F[m - 1], sigs[m]) # {}
    <3>1. /\ F[m - 1] \in [1..L -> V]
          /\ \A j \in 1..(m - 1) : Stable(F[m - 1], sigs[j])
      BY <2>3
    <3>2. F[m] = PlaceSig(F[m - 1], sigs[m])
      BY <2>0, <2>3
    <3>3. sigs[m] \in V /\ sigs[m] # Zero
      OBVIOUS
    <3>4. /\ PlaceSig(F[m - 1], sigs[m]) \in [1..L -> V]
          /\ Stable(PlaceSig(F[m - 1], sigs[m]), sigs[m])
          /\ \A t : t # Zero /\ Stable(F[m - 1], t) => Stable(PlaceSig(F[m - 1], sigs[m]), t)
      <4>1. L \in Nat /\ F[m - 1] \in [1..L -> V] /\ sigs[m] \in V /\ sigs[m] # Zero
            /\ FitSlots(F[m - 1], sigs[m]) # {}
        BY <2>3, <3>1, <3>3
      <4>2. \A rr \in [1..L -> V] :
               FitSlots(rr, sigs[m]) # {} =>
                  /\ PlaceSig(rr, sigs[m]) \in [1..L -> V]
                  /\ Stable(PlaceSig(rr, sigs[m]), sigs[m])
                  /\ \A t : t # Zero /\ Stable(rr, t) => Stable(PlaceSig(rr, sigs[m]), t)
        BY <4>1, PlaceSigStep, Zenon
      <4>. QED
        BY <4>1, <4>2
    <3>5. \A j \in 1..m : j \in 1..(m - 1) \/ j = m
      OBVIOUS
    <3>6. \A j \in 1..(m - 1) : sigs[j] # Zero
      OBVIOUS
    <3>. QED
      BY <3>1, <3>2, <3>4, <3>5, <3>6
  <2>. QED
    BY <2>1, <2>2, <2>3
<1>4. Good = 0..n
  <2>1. Good \in SUBSET (0..n)
    OBVIOUS
  <2> HIDE DEF Good
  <2>. QED
    BY <1>0, <1>2, <1>3, <2>1, PrefixInduct
<1>5. P(n)
  BY <1>0, <1>4
<1>. QED
  BY <1>1, <1>5

\* Scanning again for signatures that are all placed changes nothing.
LEMMA PlaceAllFixed ==
  ASSUME NEW L \in Nat, NEW V, NEW r \in [1..L -> V], NEW sigs \in Seq(V),
         \A j \in 1..Len(sigs) : Stable(r, sigs[j])
  PROVE  PlaceAll(r, sigs) = r
<1> DEFINE n == Len(sigs)
           F == PlaceTable(r, sigs)
           Good == {k \in 0..n : F[k] = r}
<1>0. n \in Nat
  OBVIOUS
<1>1. /\ PlaceAll(r, sigs) = F[n]
      /\ F[0] = r
      /\ \A k \in 1..n : F[k] = IF F[k - 1] = TooMany THEN TooMany
                                ELSE PlaceSig(F[k - 1], sigs[k])
  BY PlaceFnChosen
<1> HIDE DEF F
<1>2. 0 \in Good
  BY <1>0, <1>1
<1>3. \A m \in 1..n : m - 1 \in Good => m \in Good
  <2> SUFFICES ASSUME NEW m \in 1..n, F[m - 1] = r PROVE F[m] = r
    OBVIOUS
  <2>1. PlaceSig(r, sigs[m]) = r
    BY StableFixed
  <2>. QED
    BY <1>1, <2>1
<1>4. Good = 0..n
  <2>1. Good \in SUBSET (0..n)
    OBVIOUS
  <2> HIDE DEF Good
  <2>. QED
    BY <1>0, <1>2, <1>3, <2>1, PrefixInduct
<1>. QED
  BY <1>0, <1>1, <1>4

=============================================================================
