------------------------- MODULE ScriptSigningProofs -------------------------
(***************************************************************************)
(* Proofs about the script signers of src/unlock/signer.rs.               *)
(*                                                                         *)
(* SignFrame: every call writes only its group's first witness, whatever  *)
(* slots the multisig scan fills.  Then, from the shape WInv of the        *)
(* witnesses the signers leave, one lemma per signer (SighashCore,         *)
(* MultisigCore) and SignTxStep: a successful call is idempotent and       *)
(* installs the signatures the verifier checks.  The multisig case reads   *)
(* what Keep and PlaceAll compute from SigningLemmas.                      *)
(***************************************************************************)
EXTENDS SigningLemmas, SequenceTheorems, TLAPS

\* witnesses is a finite sequence (of whatever values it holds).
SeqInv == witnesses \in Seq(Elems(witnesses))

(***************************************************************************)
(* What a sign call may do to the witnesses ws: nothing, or pad them with  *)
(* empty witnesses up to position p and replace the witness at p.          *)
(***************************************************************************)
Padded(ws, p, x) == [Pad(ws, p) EXCEPT ![p] = x]

Framed(ws, ws2, p) ==
    /\ Len(ws2) >= Len(ws)
    /\ \A k \in DOMAIN ws2 :
          k # p => ws2[k] = IF k <= Len(ws) THEN ws[k] ELSE EmptyW

-----------------------------------------------------------------------------

LEMMA FirstInInputs ==
    ASSUME NEW g \in Groups
    PROVE  First(g) \in 1..NInputs
BY SigningAssumption DEF First

LEMMA SeqElems ==
    ASSUME NEW S, NEW s \in Seq(S)
    PROVE  s \in Seq(Elems(s))
<1>1. PICK n \in Nat : s \in [1..n -> S]
  OBVIOUS
<1>2. s \in [1..n -> Elems(s)]
  BY <1>1 DEF Elems
<1>. QED
  BY <1>1, <1>2

\* Pad (the while loop of lines 151-153).
LEMMA PadProps ==
    ASSUME NEW S, NEW ws \in Seq(S), NEW p \in Nat \ {0}
    PROVE  /\ Pad(ws, p) \in Seq(S \cup {EmptyW})
           /\ Len(Pad(ws, p)) = IF p <= Len(ws) THEN Len(ws) ELSE p
           /\ \A k \in 1..Len(Pad(ws, p)) :
                 Pad(ws, p)[k] = IF k <= Len(ws) THEN ws[k] ELSE EmptyW
<1>1. CASE p <= Len(ws)
  BY <1>1 DEF Pad
<1>2. CASE p > Len(ws)
  <2> DEFINE tail == [k \in 1..(p - Len(ws)) |-> EmptyW]
  <2>1. tail \in Seq(S \cup {EmptyW}) /\ Len(tail) = p - Len(ws)
    BY <1>2
  <2>2. ws \in Seq(S \cup {EmptyW})
    OBVIOUS
  <2>3. Pad(ws, p) = ws \o tail
    BY <1>2 DEF Pad
  <2>. QED
    BY <1>2, <2>1, <2>2, <2>3
<1>. QED
  BY <1>1, <1>2

\* A padded and rewritten witness vector is a frame step.
LEMMA PaddedFramed ==
    ASSUME NEW S, NEW ws \in Seq(S), NEW p \in Nat \ {0}, NEW x
    PROVE  /\ Padded(ws, p, x) \in Seq(S \cup {EmptyW, x})
           /\ Framed(ws, Padded(ws, p, x), p)
<1>1. /\ Pad(ws, p) \in Seq(S \cup {EmptyW})
      /\ Len(Pad(ws, p)) = IF p <= Len(ws) THEN Len(ws) ELSE p
      /\ \A k \in 1..Len(Pad(ws, p)) :
            Pad(ws, p)[k] = IF k <= Len(ws) THEN ws[k] ELSE EmptyW
  BY PadProps
<1>2. p \in 1..Len(Pad(ws, p))
  BY <1>1
<1>. QED
  BY <1>1, <1>2 DEF Padded, Framed

\* Leaving the witnesses alone is a frame step.
LEMMA SameFramed ==
    ASSUME NEW S, NEW ws \in Seq(S), NEW p
    PROVE  Framed(ws, ws, p)
BY DEF Framed

(***************************************************************************)
(* The witnesses a sign call returns: its argument on an error, else the   *)
(* argument padded to the group's first input with the witness there      *)
(* replaced.                                                               *)
(***************************************************************************)
SignStep(ws, ws2, p) == ws2 = ws \/ ws2 = Padded(ws, p, ws2[p])

LEMMA SighashStep ==
    ASSUME NEW g, NEW w, NEW o, NEW ws
    PROVE  SignStep(ws, SighashSignTx(g, w, o, ws).ws, First(g))
BY DEF SighashSignTx, Result, SignStep, Padded

LEMMA MultisigStep ==
    ASSUME NEW g, NEW w, NEW ws
    PROVE  SignStep(ws, MultisigSignTx(g, w, ws).ws, First(g))
BY DEF MultisigSignTx, Result, SignStep, Padded

LEMMA AcpStep ==
    ASSUME NEW g, NEW w, NEW ws
    PROVE  SignStep(ws, AcpSignTx(g, w, ws).ws, First(g))
BY SighashStep DEF AcpSignTx, Result, SignStep

LEMMA ChequeStep ==
    ASSUME NEW g, NEW w, NEW a, NEW ws
    PROVE  SignStep(ws, ChequeSignTx(g, w, a, ws).ws, First(g))
BY SighashStep DEF ChequeSignTx

\* A sign step keeps the witnesses a sequence and is a frame step.
LEMMA StepFramed ==
    ASSUME SeqInv, NEW g \in Groups, SignStep(witnesses, witnesses', First(g))
    PROVE  SeqInv' /\ Framed(witnesses, witnesses', First(g))
<1> DEFINE p == First(g)
<1>1. p \in Nat \ {0}
  BY FirstInInputs
<1>2. CASE witnesses' = witnesses
  BY <1>2, SameFramed DEF SeqInv
<1>3. CASE witnesses' = Padded(witnesses, p, witnesses'[p])
  <2>1. /\ witnesses' \in Seq(Elems(witnesses) \cup {EmptyW, witnesses'[p]})
        /\ Framed(witnesses, witnesses', p)
    BY <1>1, <1>3, PaddedFramed DEF SeqInv
  <2>. QED
    BY <2>1, SeqElems DEF SeqInv
<1>. QED
  BY <1>2, <1>3 DEF SignStep

\* Every step of Next is a sign call of some group.
LEMMA NextStep ==
    ASSUME Next
    PROVE  \E g \in Groups :
              /\ lastCall'.g = g
              /\ SignStep(witnesses, witnesses', First(g))
<1>1. CASE \E g \in SighashGroups, w \in Wallets : SighashSign(g, w)
  BY <1>1, SighashStep DEF SighashSign, Apply, Groups
<1>2. CASE \E g \in MultisigGroups, w \in Wallets : MultisigSign(g, w)
  BY <1>2, MultisigStep DEF MultisigSign, Apply, Groups
<1>3. CASE \E g \in AcpGroups, w \in Wallets : AcpSign(g, w)
  BY <1>3, AcpStep DEF AcpSign, Apply, Groups
<1>4. CASE \E g \in ChequeGroups, w \in Wallets, action \in ChequeActions :
              ChequeSign(g, w, action)
  BY <1>4, ChequeStep DEF ChequeSign, Apply, Groups
<1>. QED
  BY <1>1, <1>2, <1>3, <1>4 DEF Next

-----------------------------------------------------------------------------
(***************************************************************************)
(* Every sign_tx call, of every signer (the multisig one included,         *)
(* whatever slots it fills), changes no witness but the one at its group's *)
(* first input and only appends empty witnesses (lines 151-153), for      *)
(* every lock-group layout, wallet and initial transaction.                *)
(***************************************************************************)
THEOREM SignFrame == Spec => SignTouchesFirstWitnessOnly
<1>1. Init => SeqInv
  <2> SUFFICES ASSUME Init PROVE SeqInv
    OBVIOUS
  <2>1. witnesses \in Seq(InitWitness)
    BY DEF Init
  <2>. QED
    BY <2>1, SeqElems DEF SeqInv
<1>2. SeqInv /\ [Next]_vars => SeqInv' /\ [TouchesFirstWitnessOnly]_vars
  <2> SUFFICES ASSUME SeqInv, [Next]_vars
               PROVE  SeqInv' /\ [TouchesFirstWitnessOnly]_vars
    OBVIOUS
  <2>1. CASE Next
    <3>1. PICK g \in Groups : /\ lastCall'.g = g
                              /\ SignStep(witnesses, witnesses', First(g))
      BY <2>1, NextStep
    <3>2. SeqInv' /\ Framed(witnesses, witnesses', First(g))
      BY <3>1, StepFramed
    <3>. QED
      BY <3>1, <3>2 DEF Framed, TouchesFirstWitnessOnly
  <2>2. CASE UNCHANGED vars
    BY <2>2 DEF vars, SeqInv, Elems
  <2>. QED
    BY <2>1, <2>2
<1>. QED
  BY <1>1, <1>2, PTL DEF Spec, SignTouchesFirstWitnessOnly


-----------------------------------------------------------------------------
(***************************************************************************)
(* The shape of the witnesses the signers leave behind.  Only the witness *)
(* at a group's first input is ever written, so every other witness is    *)
(* one the transaction started with; and the witness a group's signer     *)
(* writes holds the lock of that signer: one signature for the sighash,   *)
(* ACP and cheque signers, the group's config and Threshold slots for the *)
(* multisig one.                                                           *)
(***************************************************************************)
FirstPos == {First(g) : g \in Groups}

LockFits(g, x) ==
    \/ x \in InitWitness
    \/ IF g \in MultisigGroups
       THEN /\ x.lock.kind = "multi"
            /\ x.lock.cfg = ToWitnessData(g)
            /\ Len(x.lock.slots) = Threshold[g]
       ELSE x.lock.kind = "sig"

WInv(ws) ==
    /\ ws \in Seq(Witness)
    /\ \A k \in DOMAIN ws : k \notin FirstPos => ws[k] \in InitWitness
    /\ \A g \in Groups : First(g) <= Len(ws) => LockFits(g, ws[First(g)])


\* The four kinds of lock groups are disjoint.
LEMMA KindsDisjoint ==
    /\ SighashGroups \cap MultisigGroups = {}
    /\ SighashGroups \cap AcpGroups = {}
    /\ SighashGroups \cap ChequeGroups = {}
    /\ MultisigGroups \cap AcpGroups = {}
    /\ MultisigGroups \cap ChequeGroups = {}
    /\ AcpGroups \cap ChequeGroups = {}
<1> DEFINE kinds == <<SighashGroups, MultisigGroups, AcpGroups, ChequeGroups>>
<1>1. \A a, b \in 1..4 : a # b => kinds[a] \cap kinds[b] = {}
  BY SigningAssumption
<1>2. /\ kinds[1] = SighashGroups /\ kinds[2] = MultisigGroups
      /\ kinds[3] = AcpGroups /\ kinds[4] = ChequeGroups
  OBVIOUS
<1> HIDE DEF kinds
<1>. QED
  BY <1>1, <1>2

\* Two groups with the same first input are the same group.
LEMMA FirstUnique ==
    ASSUME NEW g \in Groups, NEW h \in Groups, First(g) = First(h)
    PROVE  g = h
<1>1. 1 \in DOMAIN GroupIdx[g] /\ 1 \in DOMAIN GroupIdx[h]
  BY SigningAssumption
<1>. QED
  BY <1>1, SigningAssumption DEF First

\* The tail of a non-empty sequence: its elements, its length and its entries.
LEMMA TailSeq ==
    ASSUME NEW S, NEW s \in Seq(S), Len(s) > 0
    PROVE  /\ Tail(s) \in Seq(S)
           /\ Len(Tail(s)) = Len(s) - 1
           /\ \A i \in 1..Len(Tail(s)) : Tail(s)[i] = s[i + 1] /\ i + 1 \in DOMAIN s
<1>1. s # << >>
  OBVIOUS
<1>. QED
  BY <1>1

\* No input of a group but its first is the first input of a group.
LEMMA RestNotFirst ==
    ASSUME NEW g \in Groups
    PROVE  /\ Tail(GroupIdx[g]) \in Seq(1..NInputs)
           /\ \A j \in 1..Len(Tail(GroupIdx[g])) : Tail(GroupIdx[g])[j] \notin FirstPos
<1>1. GroupIdx[g] \in Seq(1..NInputs) /\ Len(GroupIdx[g]) > 0
  BY SigningAssumption
<1>2. Tail(GroupIdx[g]) \in Seq(1..NInputs)
  BY <1>1, TailSeq, Zenon
<1>3. ASSUME NEW j \in 1..Len(Tail(GroupIdx[g])), NEW h \in Groups,
             Tail(GroupIdx[g])[j] = First(h)
      PROVE  FALSE
  <2>1. Tail(GroupIdx[g])[j] = GroupIdx[g][j + 1] /\ j + 1 \in DOMAIN GroupIdx[g]
    BY <1>1, TailSeq
  <2>2. 1 \in DOMAIN GroupIdx[h]
    BY SigningAssumption
  <2>3. GroupIdx[g][j + 1] = GroupIdx[h][1]
    BY <1>3, <2>1 DEF First
  <2>. QED
    BY <2>1, <2>2, <2>3, SigningAssumption
<1>. QED
  BY <1>2, <1>3 DEF FirstPos

\* The first inputs of the groups are inputs.
LEMMA FirstPosInputs == FirstPos \subseteq 1..NInputs
BY FirstInInputs DEF FirstPos

(***************************************************************************)
(* What ParseWA (WitnessArgs::from_slice, or the default for empty bytes)  *)
(* gives on a witness that parses: a record with a lock and a rest; a     *)
(* witness a signer wrote is its own parse.                               *)
(***************************************************************************)
LEMMA ParseWAType ==
    ASSUME NEW x \in Witness, x # Garbage
    PROVE  /\ ParseWA(x) \in [lock : Lock \cup {NoLock}, rest : Rest]
           /\ x \in InitWitness => ParseWA(x).lock = NoLock
           /\ x \notin InitWitness => ParseWA(x) = x /\ x \in [lock : Lock, rest : Rest]
<1>1. CASE x = EmptyW
  <2>1. ParseWA(x) = [lock |-> NoLock, rest |-> "none"]
    BY <1>1 DEF ParseWA, DefaultWA, WA
  <2>2. "none" \in Rest /\ x \in InitWitness
    BY <1>1 DEF Rest, InitWitness
  <2>. QED
    BY <2>1, <2>2
<1>2. CASE x \in {WA(NoLock, r) : r \in Rests \cup {"none"}}
  <2>1. x # EmptyW
    BY <1>2 DEF WA, EmptyW
  <2>2. PICK r \in Rests \cup {"none"} : x = [lock |-> NoLock, rest |-> r]
    BY <1>2 DEF WA
  <2>3. ParseWA(x) = x
    BY <2>1 DEF ParseWA
  <2>4. r \in Rest /\ x \in InitWitness
    BY <1>2, <2>2 DEF Rest, InitWitness
  <2>5. [lock |-> NoLock, rest |-> r] \in [lock : Lock \cup {NoLock}, rest : Rest]
    BY <2>4
  <2>6. ParseWA(x).lock = NoLock
    BY <2>2, <2>3
  <2>. QED
    BY <2>2, <2>3, <2>4, <2>5, <2>6, Zenon
<1>3. CASE x \notin InitWitness
  <2>1. x \in [lock : Lock, rest : Rest]
    BY <1>3 DEF Witness
  <2>2. x # EmptyW
    BY <2>1 DEF EmptyW
  <2>3. ParseWA(x) = x
    BY <2>2 DEF ParseWA
  <2>4. [lock : Lock, rest : Rest] \subseteq [lock : Lock \cup {NoLock}, rest : Rest]
    OBVIOUS
  <2>. QED
    BY <1>3, <2>1, <2>3, <2>4, Zenon
<1>. QED
  BY <1>1, <1>2, <1>3 DEF InitWitness

\* Padding to a group's first input keeps the shape of the witnesses.
LEMMA PadWInv ==
    ASSUME NEW ws, WInv(ws), NEW p \in FirstPos
    PROVE  /\ WInv(Pad(ws, p))
           /\ p \in 1..Len(Pad(ws, p))
           /\ p <= Len(ws) => Pad(ws, p) = ws
<1>0. p \in Nat \ {0}
  BY FirstPosInputs, SigningAssumption
<1>1. ws \in Seq(Witness)
  BY DEF WInv
<1>2. /\ Pad(ws, p) \in Seq(Witness \cup {EmptyW})
      /\ Len(Pad(ws, p)) = IF p <= Len(ws) THEN Len(ws) ELSE p
      /\ \A k \in 1..Len(Pad(ws, p)) : Pad(ws, p)[k] = IF k <= Len(ws) THEN ws[k] ELSE EmptyW
  BY <1>0, <1>1, PadProps
<1>3. EmptyW \in InitWitness /\ InitWitness \subseteq Witness
  BY DEF InitWitness, Witness
<1>4. Pad(ws, p) \in Seq(Witness)
  BY <1>2, <1>3
<1>5. \A k \in DOMAIN Pad(ws, p) : k \notin FirstPos => Pad(ws, p)[k] \in InitWitness
  BY <1>1, <1>2, <1>3 DEF WInv
<1>6. \A g \in Groups : First(g) <= Len(Pad(ws, p)) => LockFits(g, Pad(ws, p)[First(g)])
  <2> SUFFICES ASSUME NEW g \in Groups, First(g) <= Len(Pad(ws, p))
               PROVE  LockFits(g, Pad(ws, p)[First(g)])
    OBVIOUS
  <2>1. First(g) \in 1..Len(Pad(ws, p))
    BY FirstInInputs
  <2>2. CASE First(g) <= Len(ws)
    BY <1>2, <2>1, <2>2 DEF WInv
  <2>3. CASE ~(First(g) <= Len(ws))
    BY <1>2, <1>3, <2>1, <2>3 DEF LockFits
  <2>. QED
    BY <2>2, <2>3
<1>7. p <= Len(ws) => Pad(ws, p) = ws
  BY DEF Pad
<1>8. p \in 1..Len(Pad(ws, p))
  BY <1>0, <1>1, <1>2
<1>. QED
  BY <1>4, <1>5, <1>6, <1>7, <1>8 DEF WInv


\* The witnesses generate_message reads besides the first: the group's other
\* witnesses that exist are at positions that are no group's first input.
LEMMA OthersProps ==
    ASSUME NEW g \in Groups, NEW len \in Nat
    PROVE  /\ Keep(Tail(GroupIdx[g]), 1..len) \in Seq(1..len)
           /\ \A k \in DOMAIN Keep(Tail(GroupIdx[g]), 1..len) :
                 Keep(Tail(GroupIdx[g]), 1..len)[k] \notin FirstPos
<1> DEFINE tl == Tail(GroupIdx[g])
<1>1. tl \in Seq(1..NInputs) /\ \A j \in 1..Len(tl) : tl[j] \notin FirstPos
  BY RestNotFirst
<1>2. tl \in Seq(Elems(tl))
  BY <1>1, SeqElems
<1>3. Keep(tl, 1..len) \in Seq(Elems(tl) \cap 1..len)
  BY <1>2, KeepProps
<1>4. \A e \in Elems(tl) : e \notin FirstPos
  BY <1>1 DEF Elems
<1>. QED
  BY <1>3, <1>4

(***************************************************************************)
(* generate_message on witnesses of the signers' shape, long enough, with *)
(* a first witness that parses, and a zero lock of a signer: a message.    *)
(***************************************************************************)
LEMMA MsgType ==
    ASSUME NEW ws, WInv(ws), NEW g \in Groups, First(g) \in 1..Len(ws),
           ws[First(g)] # Garbage, NEW zl \in ZeroLocks
    PROVE  GenerateMessage(ws, g, zl) \in Message
<1> DEFINE p == First(g)
           others == Keep(Tail(GroupIdx[g]), 1..Len(ws))
<1>1. /\ ws \in Seq(Witness)
      /\ \A k \in DOMAIN ws : k \notin FirstPos => ws[k] \in InitWitness
  BY DEF WInv
<1>2. [ParseWA(ws[p]) EXCEPT !.lock = zl] \in [lock : ZeroLocks, rest : Rest]
  <2>1. ParseWA(ws[p]) \in [lock : Lock \cup {NoLock}, rest : Rest]
    BY <1>1, ParseWAType
  <2>. QED
    BY <2>1
<1>3. [k \in DOMAIN others |-> ws[others[k]]] \in Seq(InitWitness)
  <2>1. others \in Seq(1..Len(ws)) /\ \A k \in DOMAIN others : others[k] \notin FirstPos
    <3>1. Len(ws) \in Nat
      BY <1>1
    <3>. QED
      BY <3>1, OthersProps, Zenon
  <2>2. \A k \in DOMAIN others : ws[others[k]] \in InitWitness
    BY <1>1, <2>1
  <2>3. Len(others) \in Nat /\ DOMAIN others = 1..Len(others)
    BY <2>1
  <2> HIDE DEF others
  <2>. QED
    BY <2>2, <2>3
<1>4. SubSeq(ws, NInputs + 1, Len(ws)) \in Seq(InitWitness)
  <2>1. \A k \in (NInputs + 1)..Len(ws) : ws[k] \in InitWitness
    BY <1>1, FirstPosInputs, SigningAssumption
  <2>. QED
    BY <1>1, <2>1, SigningAssumption
<1>5. GenerateMessage(ws, g, zl) =
        << [ParseWA(ws[p]) EXCEPT !.lock = zl],
           [k \in DOMAIN others |-> ws[others[k]]],
           SubSeq(ws, NInputs + 1, Len(ws)) >>
  BY DEF GenerateMessage
<1> DEFINE m1 == [ParseWA(ws[p]) EXCEPT !.lock = zl]
           m2 == [k \in DOMAIN others |-> ws[others[k]]]
           m3 == SubSeq(ws, NInputs + 1, Len(ws))
<1> HIDE DEF p, others, m1, m2, m3
<1>6. m1 \in [lock : ZeroLocks, rest : Rest] /\ m2 \in Seq(InitWitness) /\ m3 \in Seq(InitWitness)
  BY <1>2, <1>3, <1>4 DEF m1, m2, m3
<1>7. << m1, m2, m3 >> \in [lock : ZeroLocks, rest : Rest] \X Seq(InitWitness) \X Seq(InitWitness)
  BY <1>6
<1>. QED
  BY <1>5, <1>7 DEF Message, m1, m2, m3

(***************************************************************************)
(* Writing one entry of a sequence leaves the suffix after it alone: the  *)
(* cell_deps and extra witnesses that generate_message hashes after the   *)
(* group's own witnesses do not see a write to the first witness.          *)
(***************************************************************************)
LEMMA SubSeqFrame ==
    ASSUME NEW S, NEW ws \in Seq(S), NEW p \in 1..Len(ws), NEW x,
           NEW a \in Nat, p < a
    PROVE  SubSeq([ws EXCEPT ![p] = x], a, Len([ws EXCEPT ![p] = x])) = SubSeq(ws, a, Len(ws))
<1> DEFINE ws2 == [ws EXCEPT ![p] = x]
<1>1. Len(ws2) = Len(ws) /\ \A k \in a..Len(ws) : ws2[k] = ws[k]
  OBVIOUS
<1>2. \A k \in a..Len(ws) : ws2[k] \in S /\ ws[k] \in S
  BY <1>1
<1> HIDE DEF ws2
<1>3. /\ SubSeq(ws2, a, Len(ws)) \in Seq(S)
      /\ Len(SubSeq(ws2, a, Len(ws))) = IF a <= Len(ws) THEN Len(ws) - a + 1 ELSE 0
      /\ \A i \in 1..(Len(ws) - a + 1) : SubSeq(ws2, a, Len(ws))[i] = ws2[a + i - 1]
  BY <1>2, SubSeqProperties
<1>4. /\ SubSeq(ws, a, Len(ws)) \in Seq(S)
      /\ Len(SubSeq(ws, a, Len(ws))) = IF a <= Len(ws) THEN Len(ws) - a + 1 ELSE 0
      /\ \A i \in 1..(Len(ws) - a + 1) : SubSeq(ws, a, Len(ws))[i] = ws[a + i - 1]
  BY <1>2, SubSeqProperties
<1>. QED
  BY <1>1, <1>3, <1>4

(***************************************************************************)
(* generate_message does not read the lock of the first witness: writing  *)
(* a witness there with the same fields but the lock leaves the message   *)
(* alone.                                                                  *)
(***************************************************************************)
LEMMA MsgSame ==
    ASSUME NEW S, NEW ws \in Seq(S), NEW g \in Groups, First(g) \in 1..Len(ws),
           NEW x, NEW zl,
           [ParseWA(x) EXCEPT !.lock = zl] = [ParseWA(ws[First(g)]) EXCEPT !.lock = zl]
    PROVE  GenerateMessage([ws EXCEPT ![First(g)] = x], g, zl) = GenerateMessage(ws, g, zl)
<1> DEFINE p == First(g)
           ws2 == [ws EXCEPT ![p] = x]
           others == Keep(Tail(GroupIdx[g]), 1..Len(ws))
<1>1. Len(ws2) = Len(ws) /\ ws2[p] = x /\ \A k \in 1..Len(ws) : k # p => ws2[k] = ws[k]
  OBVIOUS
<1>2. others \in Seq(1..Len(ws)) /\ \A k \in DOMAIN others : others[k] \notin FirstPos
  <2>1. Len(ws) \in Nat
    OBVIOUS
  <2>. QED
    BY <2>1, OthersProps, Zenon
<1>3. p \in FirstPos /\ p <= NInputs
  BY FirstPosInputs DEF FirstPos
<1>4. [k \in DOMAIN others |-> ws2[others[k]]] = [k \in DOMAIN others |-> ws[others[k]]]
  <2>1. \A k \in DOMAIN others : others[k] \in 1..Len(ws) /\ others[k] # p
    BY <1>2, <1>3
  <2> HIDE DEF ws2, others
  <2>. QED
    BY <1>1, <2>1
<1>5. SubSeq(ws2, NInputs + 1, Len(ws2)) = SubSeq(ws, NInputs + 1, Len(ws))
  <2>1. NInputs + 1 \in Nat /\ p < NInputs + 1 /\ p \in 1..Len(ws)
    BY <1>3, SigningAssumption
  <2>2. \A pp \in 1..Len(ws), aa \in Nat :
          pp < aa => SubSeq([ws EXCEPT ![pp] = x], aa, Len([ws EXCEPT ![pp] = x]))
                       = SubSeq(ws, aa, Len(ws))
    BY SubSeqFrame, Zenon
  <2>. QED
    BY <2>1, <2>2, Zenon
<1>6. GenerateMessage(ws2, g, zl) =
        << [ParseWA(ws2[p]) EXCEPT !.lock = zl],
           [k \in DOMAIN others |-> ws2[others[k]]],
           SubSeq(ws2, NInputs + 1, Len(ws2)) >>
  BY <1>1 DEF GenerateMessage
<1>7. GenerateMessage(ws, g, zl) =
        << [ParseWA(ws[p]) EXCEPT !.lock = zl],
           [k \in DOMAIN others |-> ws[others[k]]],
           SubSeq(ws, NInputs + 1, Len(ws)) >>
  BY DEF GenerateMessage
<1>8. [ParseWA(ws2[p]) EXCEPT !.lock = zl] = [ParseWA(ws[p]) EXCEPT !.lock = zl]
  BY <1>1
<1>9. GenerateMessage([ws EXCEPT ![First(g)] = x], g, zl) = GenerateMessage(ws2, g, zl)
  OBVIOUS
<1> HIDE DEF others, ws2
<1>. QED
  BY <1>4, <1>5, <1>6, <1>7, <1>8, <1>9, Zenon


\* A witness written with a lock of a signer is not one a transaction starts with.
LEMMA WrittenNotInit ==
    ASSUME NEW x \in [lock : Lock, rest : Rest]
    PROVE  x \notin InitWitness /\ x \in Witness /\ x # Garbage /\ x # EmptyW
           /\ x.lock # NoLock
<1>1. x.lock.kind \in {"sig", "multi"}
  BY DEF Lock
<1>2. x.lock # NoLock
  BY <1>1 DEF NoLock
<1>3. DOMAIN x = {"lock", "rest"} /\ DOMAIN EmptyW = {"bytes"} /\ DOMAIN Garbage = {"bytes"}
  BY DEF EmptyW, Garbage
<1>4. x # EmptyW /\ x # Garbage
  BY <1>3
<1>5. \A r : x # WA(NoLock, r)
  BY <1>2 DEF WA
<1>6. x \notin InitWitness
  BY <1>4, <1>5 DEF InitWitness
<1>. QED
  BY <1>2, <1>4, <1>6 DEF Witness

(***************************************************************************)
(* Secp256k1SighashSigner::sign_tx_with_owner_id (the ACP and cheque       *)
(* signers call it too) on witnesses of the signers' shape: it keeps that  *)
(* shape; on an error it returns its argument; on success a second call    *)
(* returns the same witnesses, and the lock holds the owner's signature    *)
(* over the message the verifier rebuilds from the returned witnesses.     *)
(***************************************************************************)
LEMMA SighashCore ==
    ASSUME NEW ws, WInv(ws), NEW g \in Groups \ MultisigGroups, NEW w \in Wallets, NEW o
    PROVE  LET r == SighashSignTx(g, w, o, ws)
           IN  /\ r.outcome \in {"Ok", "InvalidWitnessArgs", "Wallet"}
               /\ WInv(r.ws)
               /\ r.outcome # "Ok" => r.ws = ws
               /\ r.outcome = "Ok" =>
                     /\ o \in WalletKeys[w]
                     /\ SighashSignTx(g, w, o, r.ws) = Result("Ok", r.ws)
                     /\ Sig(o, VerifierMessage(g, r.ws)) \in SigsIn(r.ws[First(g)])
<1> DEFINE p == First(g)
           ws1 == Pad(ws, p)
           msg == GenerateMessage(ws1, g, SighashZeroLock)
           x == [ParseWA(ws1[p]) EXCEPT !.lock = SigLock(Sig(o, msg))]
           ws2 == [ws1 EXCEPT ![p] = x]
<1>0. p \in FirstPos
  BY DEF FirstPos
<1>1. WInv(ws1) /\ p \in 1..Len(ws1)
  BY <1>0, PadWInv
<1>2. CASE ws1[p] = Garbage
  BY <1>2 DEF SighashSignTx, Result
<1>3. CASE ws1[p] # Garbage /\ o \notin WalletKeys[w]
  BY <1>3 DEF SighashSignTx, Result
<1>4. CASE ws1[p] # Garbage /\ o \in WalletKeys[w]
  <2>1. SighashSignTx(g, w, o, ws) = Result("Ok", ws2)
    BY <1>4 DEF SighashSignTx
  <2>2. msg \in Message
    <3>1. SighashZeroLock \in ZeroLocks
      BY DEF ZeroLocks
    <3>. QED
      BY <1>1, <1>4, <3>1, MsgType
  <2>3. o \in Keys
    BY <1>4, SigningAssumption
  <2>4. ws1 \in Seq(Witness)
    BY <1>1 DEF WInv
  <2> HIDE DEF ws1
  <2>5. ParseWA(ws1[p]) \in [lock : Lock \cup {NoLock}, rest : Rest]
    BY <1>1, <1>4, <2>4, ParseWAType
  <2>6. x \in [lock : Lock, rest : Rest] /\ x.lock = SigLock(Sig(o, msg))
    BY <2>2, <2>3, <2>5 DEF Lock, Signature, SigLock, Sig
  <2>7. x \notin InitWitness /\ x \in Witness /\ x # Garbage /\ x # EmptyW /\ x.lock # NoLock
    BY <2>6, WrittenNotInit
  <2>8. ParseWA(x) = x
    BY <2>7 DEF ParseWA
  <2>9. WInv(ws2)
    <3>1. ws2 \in Seq(Witness)
      BY <1>1, <2>4, <2>7
    <3>2. \A k \in DOMAIN ws2 : k \notin FirstPos => ws2[k] \in InitWitness
      BY <1>0, <1>1 DEF WInv
    <3>3. ASSUME NEW h \in Groups, First(h) <= Len(ws2) PROVE LockFits(h, ws2[First(h)])
      <4>1. CASE First(h) = p
        <5>1. h = g
          BY <4>1, FirstUnique
        <5>. QED
          BY <1>1, <2>6, <4>1, <5>1 DEF LockFits, SigLock
      <4>2. CASE First(h) # p
        BY <1>1, <3>3, <4>2 DEF WInv
      <4>. QED
        BY <4>1, <4>2
    <3>. QED
      BY <3>1, <3>2, <3>3 DEF WInv
  <2>10. GenerateMessage(ws2, g, SighashZeroLock) = msg
    <3>1. [ParseWA(x) EXCEPT !.lock = SighashZeroLock]
            = [ParseWA(ws1[p]) EXCEPT !.lock = SighashZeroLock]
      BY <2>5, <2>8
    <3> HIDE DEF x, msg
    <3>2. GenerateMessage([ws1 EXCEPT ![First(g)] = x], g, SighashZeroLock)
            = GenerateMessage(ws1, g, SighashZeroLock)
      <4>1. g \in Groups /\ First(g) \in 1..Len(ws1)
        BY <1>1
      <4>2. \A xx, zz : [ParseWA(xx) EXCEPT !.lock = zz] = [ParseWA(ws1[First(g)]) EXCEPT !.lock = zz]
                       => GenerateMessage([ws1 EXCEPT ![First(g)] = xx], g, zz)
                          = GenerateMessage(ws1, g, zz)
        BY <2>4, <4>1, MsgSame, Zenon
      <4>. QED
        BY <3>1, <4>2, Zenon
    <3>. QED
      BY <3>2, Zenon DEF msg
  <2>11. SighashSignTx(g, w, o, ws2) = Result("Ok", ws2)
    <3>1. Pad(ws2, p) = ws2 /\ ws2[p] = x /\ p \in 1..Len(ws2)
      BY <1>1, <2>4 DEF Pad
    <3>2. [ParseWA(x) EXCEPT !.lock = SigLock(Sig(o, msg))] = x
      BY <2>5, <2>8
    <3>3. [ws2 EXCEPT ![p] = x] = ws2
      <4>1. ws2 \in Seq(Witness)
        BY <2>9 DEF WInv
      <4> HIDE DEF ws2
      <4>. QED
        BY <3>1, <4>1
    <3> HIDE DEF ws2, x, msg
    <3>. QED
      BY <1>4, <2>7, <2>10, <3>1, <3>2, <3>3 DEF SighashSignTx
  <2>12. Sig(o, VerifierMessage(g, ws2)) \in SigsIn(ws2[p])
    <3>1. ws2[p] = x
      BY <1>1
    <3>2. ZeroOut(x.lock) = SighashZeroLock
      BY <2>6 DEF ZeroOut, SigLock, SighashZeroLock
    <3>4. SigsIn(x) = {Sig(o, msg)}
      BY <2>6, <2>7 DEF SigsIn, SigLock
    <3> HIDE DEF ws2, x, msg
    <3>3. VerifierMessage(g, ws2) = msg
      BY <2>10, <3>1, <3>2 DEF VerifierMessage
    <3>. QED
      BY <3>1, <3>3, <3>4
  <2> HIDE DEF ws2, x, msg, ws1
  <2>. QED
    BY <1>4, <2>1, <2>9, <2>11, <2>12 DEF Result
<1>. QED
  BY <1>2, <1>3, <1>4


\* A signature is never the 65 zero bytes of an empty slot.
LEMMA SigNotZero ==
    ASSUME NEW k, NEW m
    PROVE  Sig(k, m) # Zero
BY DEF Sig, Zero

(***************************************************************************)
(* Secp256k1MultisigSigner::sign_tx on witnesses of the signers' shape:   *)
(* it keeps that shape; on an error it returns its argument; on success a *)
(* second call returns the same witnesses (every signature is found in    *)
(* the slot the first call put it in), and the lock holds, for every      *)
(* configured address the wallet matches, its signature over the message  *)
(* the verifier rebuilds by zeroing the slots of the returned lock.       *)
(***************************************************************************)
LEMMA MultisigCore ==
    ASSUME NEW ws, WInv(ws), NEW g \in MultisigGroups, NEW w \in Wallets
    PROVE  LET r == MultisigSignTx(g, w, ws)
           IN  /\ r.outcome \in {"Ok", "InvalidWitnessArgs", "TooManySignatures"}
               /\ WInv(r.ws)
               /\ r.outcome # "Ok" => r.ws = ws
               /\ r.outcome = "Ok" =>
                     /\ MultisigSignTx(g, w, r.ws) = Result("Ok", r.ws)
                     /\ \A k \in WalletKeys[w] \cap Elems(Addrs[g]) :
                           Sig(k, VerifierMessage(g, r.ws)) \in SigsIn(r.ws[First(g)])
<1> DEFINE p == First(g)
           ws1 == Pad(ws, p)
           zl == MultisigZeroLock(g)
           msg == GenerateMessage(ws1, g, zl)
           mine == Keep(Addrs[g], WalletKeys[w])
           sigs == [k \in DOMAIN mine |-> Sig(mine[k], msg)]
           cur == ParseWA(ws1[p])
           field == IF cur.lock = NoLock THEN zl.slots ELSE cur.lock.slots
           placed == PlaceAll(field, sigs)
           V == Signature \cup {Zero}
           Th == Threshold[g]
           cfg == ToWitnessData(g)
           x == [cur EXCEPT !.lock = MultiLock(cfg, placed)]
           ws2 == [ws1 EXCEPT ![p] = x]
<1>0. g \in Groups /\ p \in FirstPos /\ Th \in Nat
  BY SigningAssumption DEF FirstPos, Groups
<1>1. WInv(ws1) /\ p \in 1..Len(ws1)
  BY <1>0, PadWInv
<1>2. CASE ws1[p] = Garbage
  <2>1. MultisigSignTx(g, w, ws) = Result("InvalidWitnessArgs", ws)
    BY <1>2 DEF MultisigSignTx
  <2>. QED
    BY <2>1 DEF Result
<1>3. CASE ws1[p] # Garbage /\ placed = TooMany
  <2>1. MultisigSignTx(g, w, ws) = Result("TooManySignatures", ws)
    BY <1>3 DEF MultisigSignTx
  <2>. QED
    BY <2>1 DEF Result
<1>4. CASE ws1[p] # Garbage /\ placed # TooMany
  <2>1. MultisigSignTx(g, w, ws) = Result("Ok", ws2)
    BY <1>4 DEF MultisigSignTx
  <2>2. msg \in Message
    <3>1. zl \in ZeroLocks
      BY DEF ZeroLocks
    <3>. QED
      BY <1>0, <1>1, <1>4, <3>1, MsgType
  <2>3. ws1 \in Seq(Witness) /\ ws1[p] \in Witness
    BY <1>1 DEF WInv
  <2> HIDE DEF ws1
  <2>4. cur \in [lock : Lock \cup {NoLock}, rest : Rest]
    BY <1>4, <2>3, ParseWAType
  <2>5. field \in [1..Th -> V]
    <3>1. CASE cur.lock = NoLock
      BY <3>1 DEF MultisigZeroLock, MultiLock
    <3>2. CASE cur.lock # NoLock
      <4>1. ws1[p] \notin InitWitness
        BY <1>4, <2>3, <3>2, ParseWAType
      <4>2. cur = ws1[p] /\ ws1[p] \in [lock : Lock, rest : Rest]
        BY <1>4, <2>3, <4>1, ParseWAType
      <4>3. LockFits(g, ws1[p])
        BY <1>0, <1>1 DEF WInv
      <4>4. ws1[p].lock.kind = "multi" /\ Len(ws1[p].lock.slots) = Th
        BY <4>1, <4>3 DEF LockFits
      <4>5. ws1[p].lock.slots \in Seq(V)
        BY <4>2, <4>4 DEF Lock, V
      <4>. QED
        BY <3>2, <4>2, <4>4, <4>5
    <3>. QED
      BY <3>1, <3>2
  <2>6. /\ mine \in Seq(Keys \cap WalletKeys[w])
        /\ \A j \in 1..Len(Addrs[g]) : Addrs[g][j] \in WalletKeys[w] => Addrs[g][j] \in Elems(mine)
    <3>1. Addrs[g] \in Seq(Keys)
      BY SigningAssumption
    <3>. QED
      BY <3>1, KeepProps
  <2>7. /\ sigs \in Seq(V)
        /\ \A j \in 1..Len(sigs) : sigs[j] # Zero /\ sigs[j] = Sig(mine[j], msg)
    BY <2>2, <2>6, SigNotZero DEF Signature, Sig
  <2>8. placed \in [1..Th -> V] /\ \A j \in 1..Len(sigs) : Stable(placed, sigs[j])
    <3>1. PlaceAll(field, sigs) # TooMany
      BY <1>4
    <3> HIDE DEF field, sigs, V, Th, mine, msg, placed
    <3>. QED
      BY <1>0, <2>5, <2>7, <3>1, PlaceAllProps DEF placed
  <2>9. /\ x \in [lock : Lock, rest : Rest]
        /\ x.lock = MultiLock(cfg, placed)
    <3>1. cfg \in ConfigData /\ placed \in Seq(V)
      <4>1. cfg \in ConfigData
        BY DEF ConfigData
      <4>2. placed \in Seq(V)
        <5> HIDE DEF placed, V, Th
        <5>. QED
          BY <1>0, <2>8
      <4>. QED
        BY <4>1, <4>2
    <3>. QED
      BY <2>4, <3>1 DEF Lock, MultiLock, V
  <2>10. x \notin InitWitness /\ x \in Witness /\ x # Garbage /\ x # EmptyW /\ x.lock # NoLock
    BY <2>9, WrittenNotInit
  <2>11. ParseWA(x) = x
    BY <2>10 DEF ParseWA
  <2>12. WInv(ws2)
    <3>1. ws2 \in Seq(Witness)
      BY <1>1, <2>3, <2>10
    <3>2. \A k \in DOMAIN ws2 : k \notin FirstPos => ws2[k] \in InitWitness
      BY <1>0, <1>1 DEF WInv
    <3>3. ASSUME NEW h \in Groups, First(h) <= Len(ws2) PROVE LockFits(h, ws2[First(h)])
      <4>1. CASE First(h) = p
        <5>1. h = g
          BY <1>0, <4>1, FirstUnique
        <5>2. Len(placed) = Th
          BY <1>0, <2>8
        <5>. QED
          BY <1>1, <2>9, <4>1, <5>1, <5>2 DEF LockFits, MultiLock
      <4>2. CASE First(h) # p
        BY <1>1, <3>3, <4>2 DEF WInv
      <4>. QED
        BY <4>1, <4>2
    <3>. QED
      BY <3>1, <3>2, <3>3 DEF WInv
  <2>13. GenerateMessage(ws2, g, zl) = msg
    <3>1. [ParseWA(x) EXCEPT !.lock = zl] = [ParseWA(ws1[p]) EXCEPT !.lock = zl]
      BY <2>4, <2>11
    <3> HIDE DEF x, msg, zl
    <3>2. \A xx, zz : [ParseWA(xx) EXCEPT !.lock = zz] = [ParseWA(ws1[First(g)]) EXCEPT !.lock = zz]
                     => GenerateMessage([ws1 EXCEPT ![First(g)] = xx], g, zz)
                        = GenerateMessage(ws1, g, zz)
      BY <1>0, <1>1, <2>3, MsgSame, Zenon
    <3>. QED
      BY <3>1, <3>2, Zenon DEF msg
  <2>14. MultisigSignTx(g, w, ws2) = Result("Ok", ws2)
    <3>1. Pad(ws2, p) = ws2 /\ ws2[p] = x /\ p \in 1..Len(ws2)
      BY <1>1, <2>3 DEF Pad
    <3>2. PlaceAll(placed, sigs) = placed
      <4> HIDE DEF field, sigs, V, Th, mine, msg, placed
      <4>. QED
        BY <1>0, <2>7, <2>8, PlaceAllFixed
    <3>3. (IF x.lock = NoLock THEN zl.slots ELSE x.lock.slots) = placed
      BY <2>9, <2>10 DEF MultiLock
    <3>4. [x EXCEPT !.lock = MultiLock(cfg, placed)] = x
      <4> HIDE DEF x, placed, cfg
      <4>. QED
        BY <2>9
    <3>5. [ws2 EXCEPT ![p] = x] = ws2
      <4>1. ws2 \in Seq(Witness)
        BY <2>12 DEF WInv
      <4> HIDE DEF ws2
      <4>. QED
        BY <3>1, <4>1
    <3> HIDE DEF ws2, x, msg, placed, sigs, mine, field, cur, zl, cfg
    <3>. QED
      BY <1>4, <2>10, <2>11, <2>13, <3>1, <3>2, <3>3, <3>4, <3>5
      DEF MultisigSignTx, placed, sigs, mine, zl, cfg
  <2>15. ASSUME NEW k \in WalletKeys[w] \cap Elems(Addrs[g])
         PROVE  Sig(k, VerifierMessage(g, ws2)) \in SigsIn(ws2[p])
    <3>1. ws2[p] = x
      BY <1>1
    <3> HIDE DEF ws2, x, msg, placed, sigs, cfg, V, Th
    <3>7. x.lock = [kind |-> "multi", cfg |-> cfg, slots |-> placed]
      BY <2>9 DEF MultiLock
    <3>2. ZeroOut(x.lock) = zl
      <4>1. DOMAIN placed = 1..Th
        BY <1>0, <2>8
      <4>2. ZeroOut(x.lock) = [kind |-> "multi", cfg |-> cfg, slots |-> [i \in 1..Th |-> Zero]]
        <5>1. x.lock.kind = "multi" /\ DOMAIN x.lock.slots = 1..Th
          BY <3>7, <4>1
        <5>2. ZeroOut(x.lock) = [x.lock EXCEPT !.slots = [i \in 1..Th |-> Zero]]
          BY <5>1 DEF ZeroOut
        <5>3. \A cc, ss, tt : [[kind |-> "multi", cfg |-> cc, slots |-> ss] EXCEPT !.slots = tt]
                              = [kind |-> "multi", cfg |-> cc, slots |-> tt]
          OBVIOUS
        <5> DEFINE zs == [i \in 1..Th |-> Zero]
        <5> HIDE DEF zs
        <5>4. [x.lock EXCEPT !.slots = zs] = [[kind |-> "multi", cfg |-> cfg, slots |-> placed] EXCEPT !.slots = zs]
          BY <3>7
        <5>. QED
          BY <5>2, <5>3, <5>4, Zenon DEF zs
      <4>. QED
        BY <4>2 DEF MultisigZeroLock, MultiLock, cfg, Th
    <3>3. VerifierMessage(g, ws2) = msg
      BY <2>13, <3>1, <3>2 DEF VerifierMessage
    <3>4. PICK j \in 1..Len(sigs) : sigs[j] = Sig(k, msg)
      <4>1. PICK a \in 1..Len(Addrs[g]) : Addrs[g][a] = k
        BY SigningAssumption DEF Elems
      <4>2. PICK i \in DOMAIN mine : mine[i] = k
        BY <2>6, <4>1 DEF Elems
      <4>. QED
        BY <2>6, <2>7, <4>2 DEF sigs
    <3>5. PICK t \in DOMAIN placed : placed[t] = Sig(k, msg)
      BY <2>8, <3>4 DEF Stable
    <3>6. SigsIn(x) = {placed[i] : i \in DOMAIN placed} \ {Zero}
      BY <2>10, <3>7 DEF SigsIn
    <3>. QED
      BY <3>1, <3>3, <3>5, <3>6, SigNotZero
  <2> HIDE DEF ws2, x, msg, placed
  <2>. QED
    BY <1>4, <2>1, <2>12, <2>14, <2>15 DEF Result
<1>. QED
  BY <1>2, <1>3, <1>4


\* The outcomes sign_tx can report.
Outcomes == {"Ok", "InvalidWitnessArgs", "Wallet", "TooManySignatures", "Panic"}

(***************************************************************************)
(* One sign_tx call of any signer on witnesses of the signers' shape (the *)
(* ACP and cheque signers add their owner-id choice and the ACP panic to  *)
(* SighashCore): it keeps that shape, and a successful call returns       *)
(* witnesses that a second call leaves alone and whose lock holds the     *)
(* signature of every key of the wallet the group accepts.                *)
(***************************************************************************)
SignOk(g, w, a, ws) ==
    /\ SignTx(g, w, a, ws) = Result("Ok", ws)
    /\ \A k \in SignerKeys(g, w, a) :
          Sig(k, VerifierMessage(g, ws)) \in SigsIn(ws[First(g)])

LEMMA SignTxStep ==
    ASSUME NEW ws, WInv(ws), NEW g \in Groups, NEW w \in Wallets, NEW a
    PROVE  LET r == SignTx(g, w, a, ws)
           IN  /\ r.outcome \in Outcomes
               /\ WInv(r.ws)
               /\ r.outcome = "Ok" => SignOk(g, w, a, r.ws)
<1>0. /\ SighashGroups \cap MultisigGroups = {}
      /\ SighashGroups \cap AcpGroups = {}
      /\ SighashGroups \cap ChequeGroups = {}
      /\ MultisigGroups \cap AcpGroups = {}
      /\ MultisigGroups \cap ChequeGroups = {}
      /\ AcpGroups \cap ChequeGroups = {}
  BY KindsDisjoint
<1>1. CASE g \in SighashGroups
  <2>1. g \in Groups \ MultisigGroups
    BY <1>0, <1>1 DEF Groups
  <2>2. \A v : SignTx(g, w, a, v) = SighashSignTx(g, w, Owner[g], v)
    BY <1>0, <1>1 DEF SignTx
  <2>3. \A v : SignerKeys(g, w, a) = WalletKeys[w] \cap {Owner[g]}
    BY <1>0, <1>1 DEF SignerKeys
  <2>. QED
    BY <2>1, <2>2, <2>3, SighashCore DEF Outcomes, SignOk
<1>2. CASE g \in MultisigGroups
  <2>2. \A v : SignTx(g, w, a, v) = MultisigSignTx(g, w, v)
    BY <1>0, <1>2 DEF SignTx
  <2>3. SignerKeys(g, w, a) = WalletKeys[w] \cap Elems(Addrs[g])
    BY <1>0, <1>2 DEF SignerKeys, Elems
  <2> DEFINE r == MultisigSignTx(g, w, ws)
  <2>4. /\ r.outcome \in {"Ok", "InvalidWitnessArgs", "TooManySignatures"}
        /\ WInv(r.ws)
        /\ r.outcome = "Ok" =>
              /\ MultisigSignTx(g, w, r.ws) = Result("Ok", r.ws)
              /\ \A k \in WalletKeys[w] \cap Elems(Addrs[g]) :
                    Sig(k, VerifierMessage(g, r.ws)) \in SigsIn(r.ws[First(g)])
    BY <1>2, MultisigCore
  <2> HIDE DEF r
  <2>5. SignTx(g, w, a, ws) = r /\ SignTx(g, w, a, r.ws) = MultisigSignTx(g, w, r.ws)
    BY <2>2 DEF r
  <2>. QED
    BY <2>3, <2>4, <2>5 DEF Outcomes, SignOk
<1>3. CASE g \in AcpGroups
  <2>1. g \in Groups \ MultisigGroups
    BY <1>0, <1>3 DEF Groups
  <2>2. \A v : SignTx(g, w, a, v) = AcpSignTx(g, w, v)
    BY <1>0, <1>3 DEF SignTx
  <2>3. SignerKeys(g, w, a) = WalletKeys[w] \cap {Args[g].lo}
    BY <1>0, <1>3 DEF SignerKeys
  <2>4. CASE Args[g].len < 20
    BY <2>2, <2>4 DEF AcpSignTx, Result, Outcomes
  <2>5. CASE ~(Args[g].len < 20)
    <3>1. \A v : SignTx(g, w, a, v) = SighashSignTx(g, w, Args[g].lo, v)
      BY <2>2, <2>5 DEF AcpSignTx
    <3>. QED
      BY <2>1, <2>3, <3>1, SighashCore DEF Outcomes, SignOk
  <2>. QED
    BY <2>4, <2>5
<1>4. CASE g \in ChequeGroups
  <2>1. g \in Groups \ MultisigGroups
    BY <1>0, <1>4 DEF Groups
  <2> DEFINE o == ChequeOwnerId(Args[g], a)
  <2>2. \A v : SignTx(g, w, a, v) = SighashSignTx(g, w, o, v)
    BY <1>0, <1>4 DEF SignTx, ChequeSignTx
  <2>3. o \in WalletKeys[w] => SignerKeys(g, w, a) = {o}
    <3>1. SUFFICES ASSUME o \in WalletKeys[w] PROVE SignerKeys(g, w, a) = {o}
      OBVIOUS
    <3>2. o # EmptyId
      BY <3>1, SigningAssumption
    <3>3. Args[g].len = 40 /\ o = IF a = "Claim" THEN Args[g].lo ELSE Args[g].hi
      BY <3>2 DEF ChequeOwnerId
    <3>. QED
      BY <1>0, <1>4, <3>1, <3>3 DEF SignerKeys
  <2> DEFINE r == SighashSignTx(g, w, o, ws)
  <2>4. /\ r.outcome \in {"Ok", "InvalidWitnessArgs", "Wallet"}
        /\ WInv(r.ws)
        /\ r.outcome = "Ok" =>
              /\ o \in WalletKeys[w]
              /\ SighashSignTx(g, w, o, r.ws) = Result("Ok", r.ws)
              /\ Sig(o, VerifierMessage(g, r.ws)) \in SigsIn(r.ws[First(g)])
    BY <2>1, SighashCore
  <2> HIDE DEF o, r
  <2>5. SignTx(g, w, a, ws) = r /\ SignTx(g, w, a, r.ws) = SighashSignTx(g, w, o, r.ws)
    BY <2>2 DEF r
  <2>. QED
    BY <2>3, <2>4, <2>5 DEF Outcomes, SignOk
<1>. QED
  BY <1>1, <1>2, <1>3, <1>4 DEF Groups


\* Every step of Next is sign_tx of some group, wallet and cheque action,
\* whose result the caller keeps.
LEMMA NextSign ==
    ASSUME Next
    PROVE  \E g \in Groups, w \in Wallets, a \in ChequeActions \cup {"none"} :
              /\ witnesses' = SignTx(g, w, a, witnesses).ws
              /\ lastCall' = [g |-> g, w |-> w, a |-> a,
                              outcome |-> SignTx(g, w, a, witnesses).outcome]
<1>0. /\ SighashGroups \cap MultisigGroups = {}
      /\ SighashGroups \cap AcpGroups = {}
      /\ MultisigGroups \cap AcpGroups = {}
      /\ SighashGroups \cap ChequeGroups = {}
      /\ MultisigGroups \cap ChequeGroups = {}
      /\ AcpGroups \cap ChequeGroups = {}
  BY KindsDisjoint
<1>1. CASE \E g \in SighashGroups, w \in Wallets : SighashSign(g, w)
  <2>1. PICK g \in SighashGroups, w \in Wallets : SighashSign(g, w)
    BY <1>1
  <2>2. SignTx(g, w, "none", witnesses) = SighashSignTx(g, w, Owner[g], witnesses)
    BY <1>0 DEF SignTx
  <2>3. g \in Groups
    BY DEF Groups
  <2>. QED
    BY <2>1, <2>2, <2>3 DEF SighashSign, Apply
<1>2. CASE \E g \in MultisigGroups, w \in Wallets : MultisigSign(g, w)
  <2>1. PICK g \in MultisigGroups, w \in Wallets : MultisigSign(g, w)
    BY <1>2
  <2>2. SignTx(g, w, "none", witnesses) = MultisigSignTx(g, w, witnesses)
    BY <1>0 DEF SignTx
  <2>3. g \in Groups
    BY DEF Groups
  <2>. QED
    BY <2>1, <2>2, <2>3 DEF MultisigSign, Apply
<1>3. CASE \E g \in AcpGroups, w \in Wallets : AcpSign(g, w)
  <2>1. PICK g \in AcpGroups, w \in Wallets : AcpSign(g, w)
    BY <1>3
  <2>2. SignTx(g, w, "none", witnesses) = AcpSignTx(g, w, witnesses)
    BY <1>0 DEF SignTx
  <2>3. g \in Groups
    BY DEF Groups
  <2>. QED
    BY <2>1, <2>2, <2>3 DEF AcpSign, Apply
<1>4. CASE \E g \in ChequeGroups, w \in Wallets, action \in ChequeActions :
              ChequeSign(g, w, action)
  <2>1. PICK g \in ChequeGroups, w \in Wallets, action \in ChequeActions : ChequeSign(g, w, action)
    BY <1>4
  <2>2. SignTx(g, w, action, witnesses) = ChequeSignTx(g, w, action, witnesses)
    BY <1>0 DEF SignTx
  <2>3. g \in Groups
    BY DEF Groups
  <2>. QED
    BY <2>1, <2>2, <2>3 DEF ChequeSign, Apply
<1>. QED
  BY <1>1, <1>2, <1>3, <1>4 DEF Next

(***************************************************************************)
(* The inductive invariant: the type, the signers' shape of the           *)
(* witnesses, and the two properties of the last call.  The shape is what *)
(* makes the last call's properties hold after every step: the message a  *)
(* signer takes is one the verifier rebuilds, and a multisig lock has      *)
(* Threshold slots of signatures of its group.                             *)
(***************************************************************************)
IInv == TypeOK /\ WInv(witnesses) /\ SignIdempotent /\ LastSignVerifies

LEMMA IInvInit == Init => IInv
<1> SUFFICES ASSUME Init PROVE IInv
  OBVIOUS
<1>1. witnesses \in Seq(InitWitness)
  BY SigningAssumption DEF Init
<1>2. InitWitness \subseteq Witness
  BY DEF Witness
<1>3. WInv(witnesses)
  <2>1. \A k \in DOMAIN witnesses : witnesses[k] \in InitWitness
    BY <1>1
  <2>2. \A g \in Groups : First(g) <= Len(witnesses) => LockFits(g, witnesses[First(g)])
    <3> SUFFICES ASSUME NEW g \in Groups, First(g) <= Len(witnesses)
                 PROVE  LockFits(g, witnesses[First(g)])
      OBVIOUS
    <3>1. First(g) \in DOMAIN witnesses
      BY <1>1, FirstInInputs
    <3>. QED
      BY <2>1, <3>1 DEF LockFits
  <2>. QED
    BY <1>1, <1>2, <2>1, <2>2 DEF WInv
<1>4. lastCall = NoCall
  BY DEF Init
<1>. QED
  BY <1>1, <1>2, <1>3, <1>4
  DEF IInv, TypeOK, NoCall, SignIdempotent, LastSignVerifies

LEMMA IInvNext == IInv /\ [Next]_vars => IInv'
<1> SUFFICES ASSUME IInv, [Next]_vars PROVE IInv'
  OBVIOUS
<1>1. CASE Next
  <2>1. PICK g \in Groups, w \in Wallets, a \in ChequeActions \cup {"none"} :
           /\ witnesses' = SignTx(g, w, a, witnesses).ws
           /\ lastCall' = [g |-> g, w |-> w, a |-> a,
                           outcome |-> SignTx(g, w, a, witnesses).outcome]
    BY <1>1, NextSign
  <2> DEFINE r == SignTx(g, w, a, witnesses)
  <2>6. witnesses' = r.ws /\ lastCall' = [g |-> g, w |-> w, a |-> a, outcome |-> r.outcome]
    BY <2>1
  <2>2. /\ r.outcome \in Outcomes
        /\ WInv(r.ws)
        /\ r.outcome = "Ok" => SignOk(g, w, a, r.ws)
    BY SignTxStep DEF IInv
  <2> HIDE DEF r
  <2>3. WInv(witnesses')
    BY <2>2, <2>6
  <2>4. TypeOK'
    BY <2>2, <2>3, <2>6 DEF TypeOK, WInv, Outcomes
  <2>5. SignIdempotent' /\ LastSignVerifies'
    BY <2>2, <2>6 DEF SignIdempotent, LastSignVerifies, SignOk
  <2>. QED
    BY <2>3, <2>4, <2>5 DEF IInv
<1>2. CASE UNCHANGED vars
  BY <1>2 DEF vars, IInv, TypeOK, WInv, SignIdempotent, LastSignVerifies
<1>. QED
  BY <1>1, <1>2

LEMMA IInvHolds == Spec => []IInv
BY IInvInit, IInvNext, PTL DEF Spec

(***************************************************************************)
(* The signers keep the transaction well typed, for every lock-group      *)
(* layout, wallet set, multisig config and initial transaction: every     *)
(* signature a lock holds is over a message of generate_message's shape.  *)
(***************************************************************************)
THEOREM SignTypeCorrect == Spec => []TypeOK
BY IInvHolds, PTL DEF IInv

(***************************************************************************)
(* sign_tx is idempotent for every instance: after a successful call, the *)
(* same call on the returned transaction returns it unchanged; for         *)
(* multisig, because the slot scan of lines 314-329 stops at the slot that *)
(* already holds each signature.                                           *)
(***************************************************************************)
THEOREM SignIdempotence == Spec => []SignIdempotent
BY IInvHolds, PTL DEF IInv

(***************************************************************************)
(* For every instance, after a successful sign_tx the group's lock holds, *)
(* for every key of the wallet the group accepts, the signature over the  *)
(* message the verifier rebuilds from the returned transaction by zeroing *)
(* the lock's signature bytes.                                             *)
(***************************************************************************)
THEOREM SignVerifies == Spec => []LastSignVerifies
BY IInvHolds, PTL DEF IInv

=============================================================================
