------------------------ MODULE ChequeWithdrawProofs ------------------------
(***************************************************************************)
(* Proofs about ChequeWithdraw for every value of the constants: the type  *)
(* invariant, and that a returned withdrawal spends the given out-points   *)
(* with the cheque since and returns their own token to their own sender   *)
(* (WithdrawToChequeSender), and with overflow checks on that it conserves *)
(* capacity and amount (WithdrawConservation).                             *)
(***************************************************************************)
EXTENDS ChequeWithdraw, CkbCellsProofs, TLAPS

(***************************************************************************)
(* The inductive invariant.  WithdrawToChequeSender is not inductive: the  *)
(* code checks the args of last_lock_script only, after the loop, and the  *)
(* output takes last_type_script, so the invariant carries what the loop   *)
(* has established about the out-points already visited: each is a live   *)
(* typed cell with lock last_lock_script and type last_type_script, and    *)
(* its input is in place with CHEQUE_CELL_SINCE.                           *)
(***************************************************************************)
LoopInv ==
    \A k \in 1..(i - 1) :
        /\ Chain[outPoints[k]] \in Cell
        /\ Chain[outPoints[k]].type # NoScript
        /\ Chain[outPoints[k]].lock = lastLock
        /\ Chain[outPoints[k]].type = lastType

InputsInv ==
    /\ Len(txInputs) = i - 1
    /\ \A k \in 1..(i - 1) : txInputs[k] = [op |-> outPoints[k], since |-> ChequeSince]

\* The cells of the out-points the loop has accepted so far.
Visited == [k \in 1..(i - 1) |-> Chain[outPoints[k]]]

(***************************************************************************)
(* With overflow checks on, an iteration that would overflow panics, so    *)
(* the u64 and u128 sums never wrap: they are the exact sums of the        *)
(* capacities and amounts of the cells accepted so far.                    *)
(***************************************************************************)
SumInv ==
    OverflowChecks =>
        /\ totalCap = SeqSum(CapsOf(Visited))
        /\ totalAmt = SeqSum(AmountsOf(Visited))

OkInv ==
    outcome = "Ok" =>
        /\ tx.outputs[1].cap = totalCap
        /\ tx.outputs[1].amount = totalAmt
        /\ pc = "done"
        /\ i = Len(outPoints) + 1
        /\ ArgsLen[lastLock] = 40
        /\ ArgsSender[lastLock] = sender
        /\ tx.inputs = txInputs
        /\ tx.outputs[1].lock = sender
        /\ tx.outputs[1].type = lastType

IInv ==
    /\ TypeOK
    /\ pc # "done" => outcome = "none"
    /\ LoopInv
    /\ InputsInv
    /\ SumInv
    /\ OkInv

-----------------------------------------------------------------------------

\* Init's choice of self.out_points is a sequence of at most MaxInputs out-points.
LEMMA InitOutPointsType ==
    ASSUME NEW n \in 0..MaxInputs, NEW f \in [1..n -> OutPoints]
    PROVE  f \in Seq(OutPoints) /\ Len(f) <= MaxInputs
BY WithdrawAssumption

\* A resolvable script's cell dep is one of the resolver's deps.
LEMMA DepOfType ==
    ASSUME NEW s \in Scripts, Resolvable(s)
    PROVE  DepOf(s) \in Deps
BY ConstantsAssumption DEF Resolvable, DepOf

\* The wrapped sum of two w-bit values is a w-bit value.
LEMMA AddUType ==
    ASSUME NEW a \in Nat, NEW b \in Nat, NEW limit \in Nat \ {0}
    PROVE  AddU(a, b, limit) \in 0..(limit - 1)
BY DEF AddU

\* What an out-point whose cell passes the loop's checks is known to be.
LEMMA ChequeAccepted ==
    ASSUME NEW cell \in Cell \cup {NoCell}, WithdrawError(cell) = "none"
    PROVE  /\ cell \in Cell
           /\ cell.type # NoScript
           /\ lastLock # NoScript => lastLock = cell.lock
           /\ lastType # NoScript => lastType = cell.type
<1>1. cell # NoCell
  BY DEF WithdrawError
<1>2. cell.type # NoScript
  BY <1>1 DEF WithdrawError
<1>3. ~(lastLock # NoScript /\ lastLock # cell.lock)
  BY <1>1, <1>2 DEF WithdrawError
<1>4. ~(lastType # NoScript /\ lastType # cell.type)
  BY <1>1, <1>2, <1>3 DEF WithdrawError
<1>. QED
  BY <1>1, <1>2, <1>3, <1>4

LEMMA ErrorsAreErrors ==
    ASSUME NEW cell
    PROVE  /\ WithdrawError(cell) # "none" => WithdrawError(cell) \in Errors
           /\ AssembleError # "none" => AssembleError \in Errors
BY DEF WithdrawError, AssembleError, Errors

\* With overflow checks on, an accepted cell's capacity and amount fit in
\* the sums: the wrapping additions are exact.
LEMMA AcceptedNoWrap ==
    ASSUME NEW cell \in Cell, WithdrawError(cell) = "none", OverflowChecks,
           totalCap \in Nat, totalAmt \in Nat
    PROVE  /\ AddU(totalCap, cell.cap, CapLimit) = totalCap + cell.cap
           /\ AddU(totalAmt, cell.amount, AmtLimit) = totalAmt + cell.amount
<1>1. ~Overflows(totalCap, cell.cap, CapLimit) /\ ~Overflows(totalAmt, cell.amount, AmtLimit)
  BY ConstantsAssumption DEF WithdrawError
<1>2. cell.cap \in Nat /\ cell.amount \in Nat /\ CapLimit \in Nat \ {0} /\ AmtLimit \in Nat \ {0}
  BY ConstantsAssumption DEF Cell
<1>3. totalCap + cell.cap \in 0..(CapLimit - 1) /\ totalAmt + cell.amount \in 0..(AmtLimit - 1)
  BY <1>1, <1>2 DEF Overflows
<1>4. /\ \A x \in 0..(CapLimit - 1) : x % CapLimit = x
      /\ \A x \in 0..(AmtLimit - 1) : x % AmtLimit = x
  BY <1>2
<1>. QED
  BY <1>3, <1>4 DEF AddU

-----------------------------------------------------------------------------

LEMMA IInvInit == Init => IInv
<1> SUFFICES ASSUME Init PROVE IInv
  OBVIOUS
<1>1. outPoints \in Seq(OutPoints) /\ Len(outPoints) <= MaxInputs
  BY InitOutPointsType DEF Init
<1>2. NoTx \in Tx
  BY DEF NoTx, Tx
<1>3. TypeOK
  BY <1>1, <1>2, WithdrawAssumption, ConstantsAssumption DEF Init, TypeOK
<1>4. SumInv
  <2>1. 0 \in 0..Len(outPoints)
    BY <1>1
  <2>2. Visited = Prefix(outPoints, 0)
    BY DEF Init, Visited, Prefix
  <2>3. CapsOf(Visited) = << >> /\ AmountsOf(Visited) = << >>
    BY <1>1, <2>1, <2>2, VisitedSums
  <2>. QED
    BY <2>3, SeqSumEmpty DEF Init, SumInv
<1>. QED
  BY <1>3, <1>4 DEF Init, IInv, LoopInv, InputsInv, OkInv

\* An early return only ends the call, with an outcome that is not "Ok".
LEMMA FailKeepsIInv ==
    ASSUME IInv, NEW e \in Errors, Fail(e)
    PROVE  IInv'
<1>1. UNCHANGED <<outPoints, sender, i, txInputs, lastLock, lastType, totalAmt,
                  totalCap, tx>>
  BY DEF Fail
<1>2. pc' = "done" /\ outcome' = e /\ e # "Ok"
  BY DEF Fail, Errors
<1>3. TypeOK'
  BY <1>1, <1>2 DEF IInv, TypeOK
<1>4. LoopInv' /\ InputsInv' /\ SumInv'
  BY <1>1 DEF IInv, LoopInv, InputsInv, SumInv, Visited
<1>. QED
  BY <1>2, <1>3, <1>4 DEF IInv, OkInv

LEMMA EmptyKeepsIInv ==
    ASSUME IInv, WithdrawEmpty
    PROVE  IInv'
BY FailKeepsIInv DEF WithdrawEmpty, Errors

(***************************************************************************)
(* One loop iteration: on success the out-point's input is pushed with the *)
(* cheque since, and its cell joins the visited ones, which all share its  *)
(* lock and its type.                                                      *)
(***************************************************************************)
LEMMA ChequeKeepsIInv ==
    ASSUME IInv, WithdrawCheque
    PROVE  IInv'
<1> DEFINE cell == Chain[outPoints[i]]
           in  == [op |-> outPoints[i], since |-> ChequeSince]
<1>1. /\ pc = "loop"
      /\ i \in 1..Len(outPoints)
      /\ outPoints[i] \in OutPoints
      /\ cell \in Cell \cup {NoCell}
  <2>1. pc = "loop" /\ i <= Len(outPoints)
    BY DEF WithdrawCheque
  <2>2. i \in 1..Len(outPoints) /\ outPoints \in Seq(OutPoints)
    BY <2>1 DEF IInv, TypeOK
  <2>. QED
    BY <2>1, <2>2, ConstantsAssumption
<1>2. CASE WithdrawError(cell) # "none"
  BY <1>2, ErrorsAreErrors, FailKeepsIInv DEF WithdrawCheque
<1>3. CASE WithdrawError(cell) = "none"
  <2>1. /\ lastLock' = cell.lock
        /\ lastType' = cell.type
        /\ totalCap' = AddU(totalCap, cell.cap, CapLimit)
        /\ totalAmt' = AddU(totalAmt, cell.amount, AmtLimit)
        /\ txInputs' = Append(txInputs, in)
        /\ i' = i + 1
        /\ UNCHANGED <<outPoints, sender, pc, outcome, tx>>
    BY <1>3 DEF WithdrawCheque
  <2>2. /\ cell \in Cell
        /\ cell.type # NoScript
        /\ lastLock # NoScript => lastLock = cell.lock
        /\ lastType # NoScript => lastType = cell.type
    BY <1>1, <1>3, ChequeAccepted
  <2>3. /\ totalAmt \in Nat /\ cell.amount \in Nat /\ AmtLimit \in Nat \ {0}
        /\ totalCap \in Nat /\ cell.cap \in Nat /\ CapLimit \in Nat \ {0}
    <3>1. AmtLimit \in Nat \ {0} /\ CapLimit \in Nat \ {0}
      BY ConstantsAssumption
    <3>2. totalAmt \in 0..(AmtLimit - 1) /\ totalCap \in 0..(CapLimit - 1)
      BY <1>1 DEF IInv, TypeOK
    <3>3. cell.amount \in Nat /\ cell.cap \in Nat
      BY <2>2, <3>1 DEF Cell
    <3>. QED
      BY <3>1, <3>2, <3>3
  <2>4. totalAmt' \in 0..(AmtLimit - 1) /\ totalCap' \in 0..(CapLimit - 1)
    BY <2>1, <2>3, AddUType
  <2>5. in \in Input /\ txInputs \in Seq(Input)
    BY <1>1 DEF Input, IInv, TypeOK
  <2>6. TypeOK'
    <3>1. i' \in 1..(Len(outPoints') + 1)
      BY <1>1, <2>1
    <3>2. txInputs' \in Seq(Input)
      BY <2>1, <2>5
    <3>3. lastLock' \in Scripts \cup {NoScript} /\ lastType' \in Scripts \cup {NoScript}
      BY <2>1, <2>2 DEF Cell
    <3>. QED
      BY <2>1, <2>4, <3>1, <3>2, <3>3 DEF IInv, TypeOK
  <2>7. LoopInv'
    <3> SUFFICES ASSUME NEW k \in 1..(i' - 1)
                 PROVE  /\ Chain[outPoints[k]] \in Cell
                        /\ Chain[outPoints[k]].type # NoScript
                        /\ Chain[outPoints[k]].lock = cell.lock
                        /\ Chain[outPoints[k]].type = cell.type
      BY <2>1 DEF LoopInv
    <3>1. CASE k = i
      BY <3>1, <2>2
    <3>2. CASE k # i
      <4>1. k \in 1..(i - 1)
        BY <3>2, <2>1, <1>1
      <4>2. /\ Chain[outPoints[k]] \in Cell
            /\ Chain[outPoints[k]].type # NoScript
            /\ Chain[outPoints[k]].lock = lastLock
            /\ Chain[outPoints[k]].type = lastType
        BY <4>1 DEF IInv, LoopInv
      <4>3. lastLock # NoScript /\ lastType # NoScript
        BY <4>2, ConstantsAssumption DEF Cell
      <4>. QED
        BY <4>2, <4>3, <2>2
    <3>. QED
      BY <3>1, <3>2
  <2>8. InputsInv'
    <3>1. Len(txInputs) = i - 1 /\ i \in Nat
      BY <1>1 DEF IInv, InputsInv
    <3>2. Len(txInputs') = i' - 1
      BY <2>1, <2>5, <3>1
    <3>3. ASSUME NEW k \in 1..(i' - 1)
          PROVE  txInputs'[k] = [op |-> outPoints'[k], since |-> ChequeSince]
      <4>1. CASE k = i
        BY <4>1, <2>1, <2>5, <3>1
      <4>2. CASE k # i
        <5>1. k \in 1..(i - 1)
          BY <4>2, <2>1, <3>1
        <5>. QED
          BY <5>1, <2>1, <2>5, <3>1 DEF IInv, InputsInv
      <4>. QED
        BY <4>1, <4>2
    <3>. QED
      BY <3>2, <3>3 DEF InputsInv
  <2>9. SumInv'
    <3> SUFFICES ASSUME OverflowChecks
                 PROVE  /\ totalCap' = SeqSum(CapsOf(Visited'))
                        /\ totalAmt' = SeqSum(AmountsOf(Visited'))
      BY DEF SumInv
    <3>1. outPoints \in Seq(OutPoints) /\ i - 1 \in 0..Len(outPoints)
      BY <1>1 DEF IInv, TypeOK
    <3>2. Visited' = Prefix(outPoints, i) /\ Visited = Prefix(outPoints, i - 1)
      <4>1. i' - 1 = i /\ outPoints' = outPoints
        BY <1>1, <2>1
      <4>. QED
        BY <4>1 DEF Visited, Prefix
    <3>3. /\ CapsOf(Visited') = Append(CapsOf(Visited), cell.cap)
          /\ AmountsOf(Visited') = Append(AmountsOf(Visited), cell.amount)
      BY <1>1, <3>1, <3>2, VisitedAppend
    <3>4. CapsOf(Visited) \in Seq(Nat) /\ AmountsOf(Visited) \in Seq(Nat)
      <4>1. \A k \in 1..(i - 1) : Chain[outPoints[k]] \in Cell
        BY DEF IInv, LoopInv
      <4>. QED
        BY <3>1, <3>2, <4>1, VisitedSums
    <3>5. totalCap = SeqSum(CapsOf(Visited)) /\ totalAmt = SeqSum(AmountsOf(Visited))
      BY DEF IInv, SumInv
    <3>6. totalCap' = totalCap + cell.cap /\ totalAmt' = totalAmt + cell.amount
      BY <2>1, <2>2, <2>3, <1>3, AcceptedNoWrap
    <3>. QED
      BY <2>3, <3>3, <3>4, <3>5, <3>6, SeqSumAppend
  <2>. QED
    BY <1>1, <2>1, <2>6, <2>7, <2>8, <2>9 DEF IInv, OkInv
<1>. QED
  BY <1>2, <1>3

(***************************************************************************)
(* The assembly: on success the call returns the pushed inputs and one     *)
(* output with the sender lock, which the last lock's args name, and the   *)
(* last type script.                                                       *)
(***************************************************************************)
LEMMA AssembleKeepsIInv ==
    ASSUME IInv, WithdrawAssemble
    PROVE  IInv'
<1>1. pc = "loop" /\ outPoints # << >> /\ i > Len(outPoints)
  BY DEF WithdrawAssemble
<1>2. CASE AssembleError # "none"
  BY <1>2, ErrorsAreErrors, FailKeepsIInv DEF WithdrawAssemble
<1>3. CASE AssembleError = "none"
  <2> DEFINE out == [cap |-> totalCap, lock |-> sender, type |-> lastType,
                     dlen |-> 16, amount |-> totalAmt]
  <2>1. /\ pc' = "done"
        /\ outcome' = "Ok"
        /\ tx' = [cellDeps |-> << DepOf(lastLock), DepOf(lastType) >>,
                  inputs   |-> txInputs,
                  outputs  |-> << out >>]
        /\ UNCHANGED <<outPoints, sender, i, txInputs, lastLock, lastType,
                       totalAmt, totalCap>>
    BY <1>3 DEF WithdrawAssemble
  <2>2. /\ Resolvable(lastLock) /\ Resolvable(lastType)
        /\ ArgsLen[lastLock] = 40 /\ ArgsSender[lastLock] = sender
    BY <1>3 DEF AssembleError
  <2>3. i = Len(outPoints) + 1 /\ 1 \in 1..(i - 1)
    <3>1. outPoints \in Seq(OutPoints) /\ i \in 1..(Len(outPoints) + 1)
      BY DEF IInv, TypeOK
    <3>2. Len(outPoints) # 0
      BY <1>1, <3>1
    <3>. QED
      BY <1>1, <3>1, <3>2
  <2>4. lastLock \in Scripts /\ lastType \in Scripts
    <3>1. Chain[outPoints[1]] \in Cell
          /\ Chain[outPoints[1]].lock = lastLock
          /\ Chain[outPoints[1]].type = lastType
          /\ Chain[outPoints[1]].type # NoScript
      BY <2>3 DEF IInv, LoopInv
    <3>. QED
      BY <3>1 DEF Cell
  <2>5. DepOf(lastLock) \in Deps /\ DepOf(lastType) \in Deps
    BY <2>2, <2>4, DepOfType
  <2>6. out \in Cell
    BY <2>4, WithdrawAssumption DEF IInv, TypeOK, Cell
  <2>7. tx' \in Tx
    BY <2>1, <2>5, <2>6 DEF IInv, TypeOK, Tx
  <2>8. TypeOK'
    BY <2>1, <2>7 DEF IInv, TypeOK
  <2>9. OkInv'
    BY <2>1, <2>2, <2>3 DEF OkInv
  <2>10. LoopInv' /\ InputsInv' /\ SumInv'
    BY <2>1 DEF IInv, LoopInv, InputsInv, SumInv, Visited
  <2>. QED
    BY <2>1, <2>8, <2>9, <2>10 DEF IInv
<1>. QED
  BY <1>2, <1>3

LEMMA IInvNext == IInv /\ [Next]_vars => IInv'
<1> SUFFICES ASSUME IInv, [Next]_vars PROVE IInv'
  OBVIOUS
<1>1. CASE WithdrawEmpty
  BY <1>1, EmptyKeepsIInv
<1>2. CASE WithdrawCheque
  BY <1>2, ChequeKeepsIInv
<1>3. CASE WithdrawAssemble
  BY <1>3, AssembleKeepsIInv
<1>4. CASE UNCHANGED vars
  BY <1>4 DEF vars, IInv, TypeOK, LoopInv, InputsInv, SumInv, Visited, OkInv
<1>. QED
  BY <1>1, <1>2, <1>3, <1>4 DEF Next

(***************************************************************************)
(* The inductive invariant implies WithdrawToChequeSender.                 *)
(***************************************************************************)
LEMMA IInvToSender == IInv => WithdrawToChequeSender
<1> SUFFICES ASSUME IInv, outcome = "Ok", NEW k \in DOMAIN tx.inputs
             PROVE  /\ tx.inputs[k] = [op |-> outPoints[k], since |-> ChequeSince]
                    /\ WithdrawnCells[k].type = tx.outputs[1].type
                    /\ ArgsLen[WithdrawnCells[k].lock] = 40
                    /\ ArgsSender[WithdrawnCells[k].lock] = tx.outputs[1].lock
  BY DEF WithdrawToChequeSender
<1>1. /\ i = Len(outPoints) + 1
      /\ tx.inputs = txInputs
      /\ ArgsLen[lastLock] = 40 /\ ArgsSender[lastLock] = sender
      /\ tx.outputs[1].lock = sender /\ tx.outputs[1].type = lastType
  BY DEF IInv, OkInv
<1>2. outPoints \in Seq(OutPoints) /\ txInputs \in Seq(Input)
  BY DEF IInv, TypeOK
<1>3. k \in 1..(i - 1)
  BY <1>1, <1>2 DEF IInv, InputsInv
<1>4. tx.inputs[k] = [op |-> outPoints[k], since |-> ChequeSince]
  BY <1>1, <1>3 DEF IInv, InputsInv
<1>5. WithdrawnCells[k] = Chain[outPoints[k]]
  BY <1>4 DEF WithdrawnCells, CellsAt
<1>6. Chain[outPoints[k]].lock = lastLock /\ Chain[outPoints[k]].type = lastType
  BY <1>3 DEF IInv, LoopInv
<1>. QED
  BY <1>1, <1>4, <1>5, <1>6

-----------------------------------------------------------------------------
(***************************************************************************)
(* ChequeWithdrawBuilder::build_base keeps its state well typed: the       *)
(* wrapped sums stay within their widths, the inputs carry the given       *)
(* out-points, and the transaction it returns lists resolver deps and one  *)
(* cell.                                                                   *)
(***************************************************************************)
THEOREM WithdrawTypeCorrect == Spec => []TypeOK
<1>1. Init => IInv
  BY IInvInit
<1>2. IInv /\ [Next]_vars => IInv'
  BY IInvNext
<1>3. IInv => TypeOK
  BY DEF IInv
<1>. QED
  BY <1>1, <1>2, <1>3, PTL DEF Spec

(***************************************************************************)
(* A withdrawal returned by ChequeWithdrawBuilder::build_base spends every *)
(* given out-point, in order, with CHEQUE_CELL_SINCE, and each of them     *)
(* holds the output's token under a lock whose 40-byte args name the       *)
(* output's lock, for any chain, resolver and number of out-points,        *)
(* although the code checks the args of the last lock only.                *)
(***************************************************************************)
THEOREM WithdrawSender == Spec => []WithdrawToChequeSender
<1>1. Init => IInv
  BY IInvInit
<1>2. IInv /\ [Next]_vars => IInv'
  BY IInvNext
<1>3. IInv => WithdrawToChequeSender
  BY IInvToSender
<1>. QED
  BY <1>1, <1>2, <1>3, PTL DEF Spec

(***************************************************************************)
(* The inductive invariant implies WithdrawConservation when overflow      *)
(* checks are on: the output's fields are the loop's sums, and the inputs  *)
(* are the visited out-points, all of them.                               *)
(***************************************************************************)
LEMMA IInvToConservation == IInv /\ OverflowChecks => WithdrawConservation
<1> SUFFICES ASSUME IInv, OverflowChecks, outcome = "Ok"
             PROVE  /\ Len(tx.inputs) = Len(outPoints)
                    /\ tx.outputs[1].cap = SeqSum(CapsOf(WithdrawnCells))
                    /\ tx.outputs[1].amount = SeqSum(AmountsOf(WithdrawnCells))
  BY DEF WithdrawConservation
<1>1. /\ i = Len(outPoints) + 1
      /\ tx.inputs = txInputs
      /\ tx.outputs[1].cap = totalCap /\ tx.outputs[1].amount = totalAmt
  BY DEF IInv, OkInv
<1>2. outPoints \in Seq(OutPoints) /\ Len(txInputs) = i - 1
  BY DEF IInv, TypeOK, InputsInv
<1>3. \A k \in 1..(i - 1) : txInputs[k] = [op |-> outPoints[k], since |-> ChequeSince]
  BY DEF IInv, InputsInv
<1>4. WithdrawnCells = Visited
  <2>1. txInputs \in Seq(Input) /\ DOMAIN tx.inputs = 1..(i - 1)
    BY <1>1, <1>2 DEF IInv, TypeOK
  <2>2. [k \in DOMAIN tx.inputs |-> tx.inputs[k].op] = [k \in 1..(i - 1) |-> outPoints[k]]
    BY <1>1, <1>3, <2>1
  <2>. QED
    BY <2>2 DEF WithdrawnCells, CellsAt, Visited
<1>5. totalCap = SeqSum(CapsOf(Visited)) /\ totalAmt = SeqSum(AmountsOf(Visited))
  BY DEF IInv, SumInv
<1>. QED
  BY <1>1, <1>2, <1>4, <1>5

(***************************************************************************)
(* With overflow checks on (the debug profile), a withdrawal returned by   *)
(* ChequeWithdrawBuilder::build_base spends every given out-point and its  *)
(* one output holds exactly the total capacity and the total sUDT amount   *)
(* of the cheques it consumes, for any chain, widths and number of         *)
(* out-points: the u64 and u128 sums of lines 251-252 never wrap, because  *)
(* an overflowing addition panics first.                                   *)
(***************************************************************************)
THEOREM WithdrawConserves == Spec => [](OverflowChecks => WithdrawConservation)
<1>1. Init => IInv
  BY IInvInit
<1>2. IInv /\ [Next]_vars => IInv'
  BY IInvNext
<1>3. IInv => (OverflowChecks => WithdrawConservation)
  BY IInvToConservation
<1>. QED
  BY <1>1, <1>2, <1>3, PTL DEF Spec

=============================================================================
