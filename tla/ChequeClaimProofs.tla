------------------------- MODULE ChequeClaimProofs -------------------------
(***************************************************************************)
(* Proofs about ChequeClaim for every value of the constants: the type     *)
(* invariant, that every cheque a returned claim consumes names the       *)
(* sender output's lock (ClaimRefundToChequeSender), that with overflow   *)
(* checks on a returned claim conserves capacity and amount               *)
(* (ClaimConservation), and when its inputs are distinct.                 *)
(***************************************************************************)
EXTENDS ChequeClaim, CkbCellsProofs, TLAPS

(***************************************************************************)
(* The inductive invariant.  ClaimRefundToChequeSender is not inductive:   *)
(* the code checks only last_lock_script's args, after the loop, so the    *)
(* invariant must carry what the loop has established about the cheques   *)
(* already visited (all live cells, all with lock last_lock_script), that  *)
(* the receiver cell was found before the loop, and what a returned        *)
(* transaction is made of.                                                 *)
(***************************************************************************)
LoopInv ==
    \A k \in 1..(i - 1) : Chain[inputs[k]] \in Cell /\ Chain[inputs[k]].lock = lastLock

\* The cheque cells the loop has accepted so far.
Visited == [k \in 1..(i - 1) |-> Chain[inputs[k]]]

(***************************************************************************)
(* With overflow checks on, an iteration whose sums would overflow panics, *)
(* so the u128 and u64 sums of lines 139-140 are the exact sums of the     *)
(* amounts and capacities of the cheques accepted so far.                  *)
(***************************************************************************)
SumInv ==
    OverflowChecks =>
        /\ totalCap = SeqSum(CapsOf(Visited))
        /\ totalAmt = SeqSum(AmountsOf(Visited))

\* The two outputs of a returned claim (lines 156-175).
ReceiverOut == [ReceiverCell EXCEPT !.amount = AddU(ReceiverCell.amount, totalAmt, AmtLimit)]
SenderOut == [cap |-> totalCap, lock |-> sender, type |-> NoScript, dlen |-> 0, amount |-> 0]

OkInv ==
    outcome = "Ok" =>
        /\ ReceiverCell \in Cell
        /\ tx.outputs = << ReceiverOut, SenderOut >>
        /\ OverflowChecks => ~Overflows(ReceiverCell.amount, totalAmt, AmtLimit)
        /\ pc = "done"
        /\ i = Len(inputs) + 1
        /\ ArgsLen[lastLock] = 40
        /\ ArgsSender[lastLock] = sender
        /\ tx.inputs = Append(inputs, receiver)
        /\ tx.outputs[2].lock = sender

IInv ==
    /\ TypeOK
    /\ pc = "loop" => ReceiverCell \in Cell
    /\ pc # "done" => outcome = "none"
    /\ LoopInv
    /\ SumInv
    /\ OkInv

-----------------------------------------------------------------------------
(***************************************************************************)
(* Lemmas on the pieces of the model.                                      *)
(***************************************************************************)

\* Init's choice of self.inputs is a sequence of at most MaxInputs out-points.
LEMMA InitInputsType ==
    ASSUME NEW n \in 0..MaxInputs, NEW f \in [1..n -> OutPoints]
    PROVE  f \in Seq(OutPoints) /\ Len(f) <= MaxInputs
BY ClaimAssumption

\* A resolvable script's cell dep is one of the resolver's deps.
LEMMA DepOfType ==
    ASSUME NEW s \in Scripts, Resolvable(s)
    PROVE  DepOf(s) \in Deps
BY ConstantsAssumption DEF Resolvable, DepOf

\* The wrapped sum of two w-bit values is a w-bit value.
LEMMA AddUType ==
    ASSUME NEW a \in Nat, NEW b \in Nat, NEW limit \in Nat \ {0}
    PROVE  AddU(a, b, limit) \in 0..(limit - 1)
BY DEF AddU

\* What a cheque that passes the loop's checks is known to be.
LEMMA ChequeAccepted ==
    ASSUME NEW cell \in Cell \cup {NoCell}, ChequeError(cell) = "none"
    PROVE  /\ cell \in Cell
           /\ lastLock # NoScript => lastLock = cell.lock
           /\ Resolvable(cell.lock)
<1>1. cell # NoCell
  BY DEF ChequeError
<1>2. cell \in Cell
  BY <1>1
<1>3. ~(lastLock # NoScript /\ lastLock # cell.lock)
  BY <1>1 DEF ChequeError
<1>4. Resolvable(cell.lock)
  BY <1>1 DEF ChequeError
<1>. QED
  BY <1>2, <1>3, <1>4

\* What a receiver cell that passes the checks before the loop is known to be.
LEMMA ReceiverAccepted ==
    ASSUME receiver \in OutPoints, ReceiverError = "none"
    PROVE  /\ ReceiverCell \in Cell
           /\ ReceiverCell.type \in Scripts
           /\ Resolvable(ReceiverCell.type)
           /\ Resolvable(ReceiverCell.lock)
<1>1. ReceiverCell \in Cell \cup {NoCell}
  BY ConstantsAssumption DEF ReceiverCell
<1>2. ReceiverCell # NoCell /\ ReceiverCell.type # NoScript
  BY DEF ReceiverError
<1>3. Resolvable(ReceiverCell.type) /\ Resolvable(ReceiverCell.lock)
  BY DEF ReceiverError
<1>. QED
  BY <1>1, <1>2, <1>3 DEF Cell

\* Where ReceiverError and AssembleError are not "none", they are errors.
LEMMA ErrorsAreErrors ==
    /\ ReceiverError # "none" => ReceiverError \in Errors
    /\ AssembleError # "none" => AssembleError \in Errors
BY DEF ReceiverError, AssembleError, Errors

LEMMA ChequeErrorIsError ==
    ASSUME NEW cell
    PROVE  ChequeError(cell) # "none" => ChequeError(cell) \in Errors
BY DEF ChequeError, Errors

-----------------------------------------------------------------------------
(***************************************************************************)
(* The invariant holds in the states a call starts from.                   *)
(***************************************************************************)
LEMMA IInvInit == Init => IInv
<1> SUFFICES ASSUME Init PROVE IInv
  OBVIOUS
<1>1. inputs \in Seq(OutPoints) /\ Len(inputs) <= MaxInputs
  BY InitInputsType DEF Init
<1>2. NoTx \in Tx
  BY DEF NoTx, Tx
<1>3. TypeOK
  BY <1>1, <1>2, ClaimAssumption, ConstantsAssumption DEF Init, TypeOK
<1>4. SumInv
  <2>1. 0 \in 0..Len(inputs)
    BY <1>1
  <2>2. Visited = Prefix(inputs, 0)
    BY DEF Init, Visited, Prefix
  <2>3. CapsOf(Visited) = << >> /\ AmountsOf(Visited) = << >>
    BY <1>1, <2>1, <2>2, VisitedSums
  <2>. QED
    BY <2>3, SeqSumEmpty DEF Init, SumInv
<1>. QED
  BY <1>3, <1>4 DEF Init, IInv, LoopInv, OkInv

(***************************************************************************)
(* An early return keeps the invariant: it only ends the call, with an     *)
(* outcome that is not "Ok".                                               *)
(***************************************************************************)
LEMMA FailKeepsIInv ==
    ASSUME IInv, NEW e \in Errors, Fail(e)
    PROVE  IInv'
<1>1. UNCHANGED <<inputs, receiver, sender, i, cellDeps, lastLock, totalAmt, totalCap, tx>>
  BY DEF Fail
<1>2. pc' = "done" /\ outcome' = e /\ e # "Ok"
  BY DEF Fail, Errors
<1>3. TypeOK'
  BY <1>1, <1>2 DEF IInv, TypeOK
<1>4. LoopInv' /\ SumInv'
  BY <1>1 DEF IInv, LoopInv, SumInv, Visited
<1>. QED
  BY <1>2, <1>3, <1>4 DEF IInv, OkInv

(***************************************************************************)
(* The receiver step: on success it enters the loop with the two cell deps *)
(* of the receiver cell, which was found and resolved.                     *)
(***************************************************************************)
LEMMA ReceiverKeepsIInv ==
    ASSUME IInv, ClaimReceiver
    PROVE  IInv'
<1>1. CASE ReceiverError # "none"
  BY <1>1, ErrorsAreErrors, FailKeepsIInv DEF ClaimReceiver
<1>2. CASE ReceiverError = "none"
  <2>1. /\ pc' = "loop"
        /\ cellDeps' = {DepOf(ReceiverCell.type), DepOf(ReceiverCell.lock)}
        /\ UNCHANGED <<inputs, receiver, sender, i, lastLock, totalAmt, totalCap, outcome, tx>>
    BY <1>2 DEF ClaimReceiver
  <2>2. pc = "start" /\ outcome = "none"
    BY DEF ClaimReceiver, IInv
  <2>3. /\ ReceiverCell \in Cell
        /\ DepOf(ReceiverCell.type) \in Deps
        /\ DepOf(ReceiverCell.lock) \in Deps
    <3>1. receiver \in OutPoints
      BY DEF IInv, TypeOK
    <3>2. /\ ReceiverCell \in Cell
          /\ ReceiverCell.type \in Scripts
          /\ Resolvable(ReceiverCell.type)
          /\ Resolvable(ReceiverCell.lock)
      BY <1>2, <3>1, ReceiverAccepted
    <3>3. ReceiverCell.lock \in Scripts
      BY <3>2 DEF Cell
    <3>. QED
      BY <3>2, <3>3, DepOfType
  <2>4. ReceiverCell' = ReceiverCell
    BY <2>1 DEF ReceiverCell
  <2>5. TypeOK'
    BY <2>1, <2>3 DEF IInv, TypeOK
  <2>6. LoopInv' /\ SumInv'
    BY <2>1 DEF IInv, LoopInv, SumInv, Visited
  <2>. QED
    BY <2>1, <2>2, <2>3, <2>4, <2>5, <2>6 DEF IInv, OkInv
<1>. QED
  BY <1>1, <1>2

(***************************************************************************)
(* One loop iteration: on success the cheque joins the visited ones, all   *)
(* of which now share its lock, and the wrapped sums stay in range.        *)
(***************************************************************************)
LEMMA ChequeKeepsIInv ==
    ASSUME IInv, ClaimCheque
    PROVE  IInv'
<1> DEFINE cell == Chain[inputs[i]]
<1>1. /\ pc = "loop"
      /\ i \in 1..Len(inputs)
      /\ inputs[i] \in OutPoints
      /\ cell \in Cell \cup {NoCell}
  <2>1. pc = "loop" /\ i <= Len(inputs)
    BY DEF ClaimCheque
  <2>2. i \in 1..Len(inputs) /\ inputs \in Seq(OutPoints)
    BY <2>1 DEF IInv, TypeOK
  <2>. QED
    BY <2>1, <2>2, ConstantsAssumption
<1>2. CASE ChequeError(cell) # "none"
  BY <1>2, ChequeErrorIsError, FailKeepsIInv DEF ClaimCheque
<1>3. CASE ChequeError(cell) = "none"
  <2>1. /\ lastLock' = cell.lock
        /\ cellDeps' = cellDeps \cup {DepOf(cell.lock)}
        /\ totalAmt' = AddU(totalAmt, cell.amount, AmtLimit)
        /\ totalCap' = AddU(totalCap, cell.cap, CapLimit)
        /\ i' = i + 1
        /\ UNCHANGED <<inputs, receiver, sender, pc, outcome, tx>>
    BY <1>3 DEF ClaimCheque
  <2>2. /\ cell \in Cell
        /\ lastLock # NoScript => lastLock = cell.lock
        /\ Resolvable(cell.lock)
    BY <1>1, <1>3, ChequeAccepted
  <2>3. DepOf(cell.lock) \in Deps
    BY <2>2, DepOfType DEF Cell
  <2>4. /\ totalAmt \in Nat /\ cell.amount \in Nat /\ AmtLimit \in Nat \ {0}
        /\ totalCap \in Nat /\ cell.cap \in Nat /\ CapLimit \in Nat \ {0}
    BY <2>2, ConstantsAssumption DEF IInv, TypeOK, Cell
  <2>5. totalAmt' \in 0..(AmtLimit - 1)
    BY <2>1, <2>4, AddUType
  <2>6. totalCap' \in 0..(CapLimit - 1)
    BY <2>1, <2>4, AddUType
  <2>7. TypeOK'
    <3>1. i' \in 1..(Len(inputs') + 1)
      BY <1>1, <2>1
    <3>2. cellDeps' \in SUBSET Deps
      BY <2>1, <2>3 DEF IInv, TypeOK
    <3>3. lastLock' \in Scripts \cup {NoScript}
      BY <2>1, <2>2 DEF Cell
    <3>. QED
      BY <2>1, <2>5, <2>6, <3>1, <3>2, <3>3 DEF IInv, TypeOK
  <2>8. LoopInv'
    <3> SUFFICES ASSUME NEW k \in 1..(i' - 1)
                 PROVE  Chain[inputs[k]] \in Cell /\ Chain[inputs[k]].lock = cell.lock
      BY <2>1 DEF LoopInv
    <3>1. CASE k = i
      BY <3>1, <2>2
    <3>2. CASE k # i
      <4>1. k \in 1..(i - 1)
        BY <3>2, <2>1, <1>1
      <4>2. Chain[inputs[k]] \in Cell /\ Chain[inputs[k]].lock = lastLock
        BY <4>1 DEF IInv, LoopInv
      <4>3. lastLock # NoScript
        BY <4>2, ConstantsAssumption DEF Cell
      <4>. QED
        BY <4>2, <4>3, <2>2
    <3>. QED
      BY <3>1, <3>2
  <2>9. ReceiverCell' = ReceiverCell
    BY <2>1 DEF ReceiverCell
  <2>10. SumInv'
    <3> SUFFICES ASSUME OverflowChecks
                 PROVE  /\ totalCap' = SeqSum(CapsOf(Visited'))
                        /\ totalAmt' = SeqSum(AmountsOf(Visited'))
      BY DEF SumInv
    <3>1. inputs \in Seq(OutPoints) /\ i - 1 \in 0..Len(inputs)
      BY <1>1 DEF IInv, TypeOK
    <3>2. Visited' = Prefix(inputs, i) /\ Visited = Prefix(inputs, i - 1)
      <4>1. i' - 1 = i /\ inputs' = inputs
        BY <1>1, <2>1
      <4>. QED
        BY <4>1 DEF Visited, Prefix
    <3>3. /\ CapsOf(Visited') = Append(CapsOf(Visited), cell.cap)
          /\ AmountsOf(Visited') = Append(AmountsOf(Visited), cell.amount)
      BY <1>1, <3>1, <3>2, VisitedAppend
    <3>4. CapsOf(Visited) \in Seq(Nat) /\ AmountsOf(Visited) \in Seq(Nat)
      <4>1. \A k \in 1..(i - 1) : Chain[inputs[k]] \in Cell
        BY DEF IInv, LoopInv
      <4>. QED
        BY <3>1, <3>2, <4>1, VisitedSums
    <3>5. totalCap = SeqSum(CapsOf(Visited)) /\ totalAmt = SeqSum(AmountsOf(Visited))
      BY DEF IInv, SumInv
    <3>6. ~Overflows(totalAmt, cell.amount, AmtLimit) /\ ~Overflows(totalCap, cell.cap, CapLimit)
      BY <1>1, <1>3, <2>2 DEF ChequeError
    <3>7. totalCap' = totalCap + cell.cap /\ totalAmt' = totalAmt + cell.amount
      BY <2>1, <2>4, <3>6, AddUExact
    <3>. QED
      BY <2>4, <3>3, <3>4, <3>5, <3>7, SeqSumAppend
  <2>. QED
    BY <1>1, <2>1, <2>7, <2>8, <2>9, <2>10 DEF IInv, OkInv
<1>. QED
  BY <1>2, <1>3

(***************************************************************************)
(* The assembly after the loop: on success the call returns the cheque     *)
(* inputs followed by the receiver, and a sender output with the sender    *)
(* lock, which the last cheque lock's args name.                           *)
(***************************************************************************)
LEMMA AssembleKeepsIInv ==
    ASSUME IInv, ClaimAssemble
    PROVE  IInv'
<1>1. pc = "loop" /\ i > Len(inputs)
  BY DEF ClaimAssemble
<1>2. CASE AssembleError # "none"
  BY <1>2, ErrorsAreErrors, FailKeepsIInv DEF ClaimAssemble
<1>3. CASE AssembleError = "none"
  <2> DEFINE rcv == [ReceiverCell EXCEPT
                       !.amount = AddU(ReceiverCell.amount, totalAmt, AmtLimit)]
             snd == [cap |-> totalCap, lock |-> sender, type |-> NoScript,
                     dlen |-> 0, amount |-> 0]
  <2>1. /\ pc' = "done"
        /\ outcome' = "Ok"
        /\ tx' = [cellDeps |-> cellDeps, inputs |-> Append(inputs, receiver),
                  outputs |-> << rcv, snd >>]
        /\ UNCHANGED <<inputs, receiver, sender, i, cellDeps, lastLock, totalAmt, totalCap>>
    BY <1>3 DEF ClaimAssemble
  <2>2. ArgsLen[lastLock] = 40 /\ ArgsSender[lastLock] = sender
    BY <1>3 DEF AssembleError
  <2>3. ReceiverCell \in Cell
    BY <1>1 DEF IInv
  <2>4. /\ ReceiverCell.amount \in Nat /\ totalAmt \in Nat /\ AmtLimit \in Nat \ {0}
    BY <2>3, ConstantsAssumption DEF IInv, TypeOK, Cell
  <2>5. AddU(ReceiverCell.amount, totalAmt, AmtLimit) \in 0..(AmtLimit - 1)
    BY <2>4, AddUType
  <2>6. rcv \in Cell
    BY <2>3, <2>5 DEF Cell
  <2>7. snd \in Cell
    BY ClaimAssumption, ConstantsAssumption DEF IInv, TypeOK, Cell
  <2>8. tx' \in Tx
    BY <2>1, <2>6, <2>7 DEF IInv, TypeOK, Tx
  <2>9. TypeOK'
    BY <2>1, <2>8 DEF IInv, TypeOK
  <2>10. i = Len(inputs) + 1
    BY <1>1 DEF IInv, TypeOK
  <2>11. ReceiverCell' = ReceiverCell
    BY <2>1 DEF ReceiverCell
  <2>12. OverflowChecks => ~Overflows(ReceiverCell.amount, totalAmt, AmtLimit)
    BY <1>3, <2>2 DEF AssembleError
  <2>13. OkInv'
    BY <2>1, <2>2, <2>3, <2>10, <2>11, <2>12 DEF OkInv, ReceiverOut, SenderOut
  <2>14. LoopInv' /\ SumInv'
    BY <2>1 DEF IInv, LoopInv, SumInv, Visited
  <2>. QED
    BY <2>1, <2>9, <2>13, <2>14 DEF IInv
<1>. QED
  BY <1>2, <1>3

LEMMA IInvNext == IInv /\ [Next]_vars => IInv'
<1> SUFFICES ASSUME IInv, [Next]_vars PROVE IInv'
  OBVIOUS
<1>1. CASE ClaimReceiver
  BY <1>1, ReceiverKeepsIInv
<1>2. CASE ClaimCheque
  BY <1>2, ChequeKeepsIInv
<1>3. CASE ClaimAssemble
  BY <1>3, AssembleKeepsIInv
<1>4. CASE UNCHANGED vars
  BY <1>4 DEF vars, IInv, TypeOK, LoopInv, SumInv, Visited, OkInv, ReceiverCell,
             ReceiverOut, SenderOut
<1>. QED
  BY <1>1, <1>2, <1>3, <1>4 DEF Next

(***************************************************************************)
(* The cheques of a returned transaction are the visited ones: the claim   *)
(* consumes exactly self.inputs, in order, before the receiver input.      *)
(***************************************************************************)
LEMMA ClaimedAreInputs ==
    ASSUME IInv, outcome = "Ok"
    PROVE  /\ DOMAIN ClaimedCheques = 1..Len(inputs)
           /\ \A k \in 1..Len(inputs) : ClaimedCheques[k] = Chain[inputs[k]]
<1>1. inputs \in Seq(OutPoints) /\ receiver \in OutPoints
  BY DEF IInv, TypeOK
<1>2. tx.inputs = Append(inputs, receiver)
  BY DEF IInv, OkInv
<1>3. Len(tx.inputs) - 1 = Len(inputs)
  BY <1>1, <1>2
<1>4. SubSeq(tx.inputs, 1, Len(tx.inputs) - 1) = inputs
  BY <1>1, <1>2, <1>3
<1>. QED
  BY <1>4, <1>1 DEF ClaimedCheques, CellsAt

(***************************************************************************)
(* The inductive invariant implies ClaimRefundToChequeSender.              *)
(***************************************************************************)
LEMMA IInvRefund == IInv => ClaimRefundToChequeSender
<1> SUFFICES ASSUME IInv, outcome = "Ok", NEW k \in DOMAIN ClaimedCheques
             PROVE  /\ ArgsLen[ClaimedCheques[k].lock] = 40
                    /\ ArgsSender[ClaimedCheques[k].lock] = tx.outputs[2].lock
  BY DEF ClaimRefundToChequeSender
<1>1. k \in 1..Len(inputs) /\ ClaimedCheques[k] = Chain[inputs[k]]
  BY ClaimedAreInputs
<1>2. i = Len(inputs) + 1
  BY DEF IInv, OkInv
<1>3. Chain[inputs[k]].lock = lastLock
  BY <1>1, <1>2 DEF IInv, LoopInv
<1>4. /\ ArgsLen[lastLock] = 40
      /\ ArgsSender[lastLock] = sender
      /\ tx.outputs[2].lock = sender
  BY DEF IInv, OkInv
<1>. QED
  BY <1>1, <1>3, <1>4

(***************************************************************************)
(* The inductive invariant implies ClaimConservation when overflow checks  *)
(* are on.  The inputs' capacities are the cheques' followed by the        *)
(* receiver's; the outputs' are the receiver's and the loop's sum; the     *)
(* receiver output's amount is the receiver's plus the loop's sum, which   *)
(* the check at line 165 keeps from wrapping.                              *)
(***************************************************************************)
LEMMA IInvToConservation == IInv /\ OverflowChecks => ClaimConservation
<1> SUFFICES ASSUME IInv, OverflowChecks, outcome = "Ok"
             PROVE  /\ SeqSum(CapsOf(CellsAt(tx.inputs))) = SeqSum(CapsOf(tx.outputs))
                    /\ tx.outputs[1].amount = ReceiverCell.amount + SeqSum(AmountsOf(ClaimedCheques))
  BY DEF ClaimConservation
<1> DEFINE n == Len(inputs)
<1>1. /\ inputs \in Seq(OutPoints) /\ receiver \in OutPoints
      /\ i = n + 1
      /\ tx.inputs = Append(inputs, receiver)
      /\ ReceiverCell \in Cell
      /\ tx.outputs = << ReceiverOut, SenderOut >>
      /\ ~Overflows(ReceiverCell.amount, totalAmt, AmtLimit)
  BY DEF IInv, TypeOK, OkInv
<1>2. Visited = Prefix(inputs, n) /\ n \in 0..Len(inputs)
  BY <1>1 DEF Visited, Prefix
<1>3. \A k \in 1..n : Chain[inputs[k]] \in Cell
  BY <1>1 DEF IInv, LoopInv
<1>4. CapsOf(Visited) \in Seq(Nat) /\ AmountsOf(Visited) \in Seq(Nat)
  BY <1>1, <1>2, <1>3, VisitedSums
<1>5. totalCap = SeqSum(CapsOf(Visited)) /\ totalAmt = SeqSum(AmountsOf(Visited))
  BY DEF IInv, SumInv
<1>6. /\ ReceiverCell.cap \in Nat /\ ReceiverCell.amount \in Nat
      /\ totalCap \in Nat /\ totalAmt \in Nat /\ AmtLimit \in Nat \ {0}
  BY <1>1, ConstantsAssumption DEF IInv, TypeOK, Cell
<1>7. SeqSum(CapsOf(CellsAt(tx.inputs))) = totalCap + ReceiverCell.cap
  <2>1. CapsOf(CellsAt(tx.inputs)) = Append(CapsOf(Visited), ReceiverCell.cap)
    BY <1>1, <1>2 DEF CapsOf, CellsAt, Prefix, ReceiverCell
  <2>. QED
    BY <1>4, <1>5, <1>6, <2>1, SeqSumAppend
<1>8. SeqSum(CapsOf(tx.outputs)) = ReceiverCell.cap + totalCap
  <2>0. ReceiverOut.cap = ReceiverCell.cap /\ SenderOut.cap = totalCap
    BY <1>1 DEF ReceiverOut, SenderOut, Cell
  <2>1. CapsOf(tx.outputs) = Append(Append(<< >>, ReceiverCell.cap), totalCap)
    BY <1>1, <2>0 DEF CapsOf
  <2>2. Append(<< >>, ReceiverCell.cap) \in Seq(Nat) /\ << >> \in Seq(Nat)
    BY <1>6
  <2>3. SeqSum(Append(<< >>, ReceiverCell.cap)) = ReceiverCell.cap
    <3>1. SeqSum(Append(<< >>, ReceiverCell.cap)) = SeqSum(<< >>) + ReceiverCell.cap
      BY <1>6, <2>2, SeqSumAppend
    <3>. QED
      BY <1>6, <3>1, SeqSumEmpty
  <2>. QED
    BY <1>6, <2>1, <2>2, <2>3, SeqSumAppend
<1>9. tx.outputs[1].amount = ReceiverCell.amount + totalAmt
  <2>1. tx.outputs[1].amount = AddU(ReceiverCell.amount, totalAmt, AmtLimit)
    BY <1>1 DEF ReceiverOut, Cell
  <2>. QED
    BY <1>1, <1>6, <2>1, AddUExact
<1>10. ClaimedCheques = Visited
  <2>1. DOMAIN ClaimedCheques = 1..n /\ \A k \in 1..n : ClaimedCheques[k] = Chain[inputs[k]]
    BY ClaimedAreInputs
  <2>2. ClaimedCheques = [k \in DOMAIN ClaimedCheques |-> ClaimedCheques[k]]
    BY DEF ClaimedCheques, CellsAt
  <2>. QED
    BY <1>1, <2>1, <2>2 DEF Visited
<1>. QED
  BY <1>5, <1>6, <1>7, <1>8, <1>9, <1>10

-----------------------------------------------------------------------------
(***************************************************************************)
(* ChequeClaimBuilder::build_base keeps its state well typed: the wrapped  *)
(* sums stay within their widths, the cell deps it collects are deps the   *)
(* resolver returned, and the transaction it returns is made of live       *)
(* cells.                                                                  *)
(***************************************************************************)
THEOREM TypeCorrect == Spec => []TypeOK
<1>1. Init => IInv
  BY IInvInit
<1>2. IInv /\ [Next]_vars => IInv'
  BY IInvNext
<1>3. IInv => TypeOK
  BY DEF IInv
<1>. QED
  BY <1>1, <1>2, <1>3, PTL DEF Spec

(***************************************************************************)
(* Every cheque a claim returned by ChequeClaimBuilder::build_base         *)
(* consumes carries 40-byte lock args naming the sender output's lock,     *)
(* for any chain, resolver and number of inputs, although the code checks  *)
(* only the last cheque's args: the loop's comparison with                 *)
(* last_lock_script carries the check to all of them.                      *)
(***************************************************************************)
THEOREM RefundToChequeSender == Spec => []ClaimRefundToChequeSender
<1>1. Init => IInv
  BY IInvInit
<1>2. IInv /\ [Next]_vars => IInv'
  BY IInvNext
<1>3. IInv => ClaimRefundToChequeSender
  BY IInvRefund
<1>. QED
  BY <1>1, <1>2, <1>3, PTL DEF Spec

-----------------------------------------------------------------------------
(***************************************************************************)
(* Where the claim_dup run's double spend comes from.  build_base pushes   *)
(* self.inputs and then the receiver input (line 47) without comparing     *)
(* them; the arguments below are what a caller must guarantee instead.     *)
(***************************************************************************)
\* The caller's cheque out-points are pairwise distinct and the receiver
\* input is not one of them.
DistinctArgs ==
    /\ \A a, b \in DOMAIN inputs : a # b => inputs[a] # inputs[b]
    /\ \A a \in DOMAIN inputs : inputs[a] # receiver

LEMMA IInvDistinct == IInv => (DistinctArgs => ClaimInputsDistinct)
<1> SUFFICES ASSUME IInv, DistinctArgs, outcome = "Ok",
                    NEW a \in DOMAIN tx.inputs, NEW b \in DOMAIN tx.inputs, a # b
             PROVE  tx.inputs[a] # tx.inputs[b]
  BY DEF ClaimInputsDistinct
<1> DEFINE n == Len(inputs)
<1>1. /\ inputs \in Seq(OutPoints) /\ receiver \in OutPoints
      /\ tx.inputs = Append(inputs, receiver)
  BY DEF IInv, TypeOK, OkInv
<1>2. /\ DOMAIN tx.inputs = 1..(n + 1)
      /\ \A k \in 1..n : tx.inputs[k] = inputs[k]
      /\ tx.inputs[n + 1] = receiver
  BY <1>1
<1>3. CASE a \in 1..n /\ b \in 1..n
  BY <1>2, <1>3 DEF DistinctArgs
<1>4. CASE a = n + 1 \/ b = n + 1
  <2>1. \A k \in 1..n : tx.inputs[k] # receiver
    BY <1>1, <1>2 DEF DistinctArgs
  <2>. QED
    BY <1>2, <1>4, <2>1
<1>. QED
  BY <1>1, <1>2, <1>3, <1>4

(***************************************************************************)
(* A claim returned by ChequeClaimBuilder::build_base spends each cell     *)
(* once whenever its caller passed distinct cheque out-points and a        *)
(* receiver input that is none of them, for every chain and resolver: the *)
(* double spend of the claim_dup run needs a caller that repeats an out-   *)
(* point, and the code never checks for one.                               *)
(***************************************************************************)
THEOREM InputsDistinctFromArgs == Spec => [](DistinctArgs => ClaimInputsDistinct)
<1>1. Init => IInv
  BY IInvInit
<1>2. IInv /\ [Next]_vars => IInv'
  BY IInvNext
<1>3. IInv => (DistinctArgs => ClaimInputsDistinct)
  BY IInvDistinct
<1>. QED
  BY <1>1, <1>2, <1>3, PTL DEF Spec

-----------------------------------------------------------------------------
(***************************************************************************)
(* With overflow checks on (the debug profile), a claim returned by        *)
(* ChequeClaimBuilder::build_base has as much capacity in its outputs as   *)
(* in its inputs, and its receiver output holds the receiver's amount plus *)
(* the amount of every claimed cheque, for any chain, widths and number of *)
(* inputs: the sums of lines 139-140 and 165 never wrap, because an        *)
(* overflowing addition panics first.                                      *)
(***************************************************************************)
THEOREM ClaimConserves == Spec => [](OverflowChecks => ClaimConservation)
<1>1. Init => IInv
  BY IInvInit
<1>2. IInv /\ [Next]_vars => IInv'
  BY IInvNext
<1>3. IInv => (OverflowChecks => ClaimConservation)
  BY IInvToConservation
<1>. QED
  BY <1>1, <1>2, <1>3, PTL DEF Spec

=============================================================================
