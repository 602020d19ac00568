--------------------------- MODULE ChequeWithdraw ---------------------------
(***************************************************************************)
(* ChequeWithdrawBuilder::build_base (src/tx_builder/cheque.rs 195-305).   *)
(*                                                                         *)
(* One call of the builder.  Init picks the builder's fields (the cheque   *)
(* out-points and the sender lock script); the call runs the `for` loop    *)
(* one out-point per step (WithdrawCheque), then resolves the two cell     *)
(* deps, checks the cheque lock args and assembles the single output       *)
(* (WithdrawAssemble).                                                     *)
(***************************************************************************)
EXTENDS CkbCells

CONSTANTS
    SenderLocks,     \* lock scripts a caller may pass as sender_lock_script
    MaxInputs,       \* bound on the number of cheque out-points
    ChequeSince      \* CHEQUE_CELL_SINCE

ASSUME WithdrawAssumption ==
    /\ SenderLocks \subseteq Scripts
    /\ MaxInputs \in Nat

VARIABLES
    outPoints,       \* self.out_points
    sender,          \* self.sender_lock_script
    pc,              \* "loop" (the for loop and what follows) or "done"
    i,               \* index of the next out-point of the loop
    txInputs,        \* the Vec inputs being built
    lastLock,        \* last_lock_script
    lastType,        \* last_type_script
    totalAmt,        \* cheque_total_amount (u128)
    totalCap,        \* cheque_total_capacity (u64)
    outcome,         \* "none" while running, then "Ok" or the error returned
    tx               \* the transaction returned on "Ok"

vars == <<outPoints, sender, pc, i, txInputs, lastLock, lastType, totalAmt,
          totalCap, outcome, tx>>

Errors == {"InvalidParameter", "ResolveCellDepFailed", "DependencyLookup", "Panic"}

\* CellInput::new(out_point, since)
Input == [op : OutPoints, since : {ChequeSince}]

\* cell deps are a Vec here, not a HashSet
Tx == [cellDeps : Seq(Deps), inputs : Seq(Input), outputs : Seq(Cell)]

NoTx == [cellDeps |-> << >>, inputs |-> << >>, outputs |-> << >>]

Init ==
    /\ outPoints \in UNION {[1..n -> OutPoints] : n \in 0..MaxInputs}
    /\ sender \in SenderLocks
    /\ pc = "loop"
    /\ i = 1
    /\ txInputs = << >>
    /\ lastLock = NoScript
    /\ lastType = NoScript
    /\ totalAmt = 0
    /\ totalCap = 0
    /\ outcome = "none"
    /\ tx = NoTx

Fail(e) ==
    /\ pc' = "done"
    /\ outcome' = e
    /\ UNCHANGED <<outPoints, sender, i, txInputs, lastLock, lastType, totalAmt,
                   totalCap, tx>>

\* Lines 203-207: an empty out_points list is rejected first.
WithdrawEmpty ==
    /\ pc = "loop"
    /\ outPoints = << >>
    /\ Fail("InvalidParameter")

(***************************************************************************)
(* Lines 214-253, one iteration.  There is no data length check: line 245  *)
(* copy_from_slice panics when the data is not 16 bytes.  The sums at      *)
(* 251-252 (capacity first) panic on overflow with overflow checks on and  *)
(* wrap with them off.                                                     *)
(***************************************************************************)
\* Mutant: the loop does not compare each type script with the previous one.
WithdrawErrorNoTypeCmp(cell) ==
    IF cell = NoCell THEN "DependencyLookup"
    ELSE IF cell.type = NoScript THEN "InvalidParameter"
    ELSE IF lastLock # NoScript /\ lastLock # cell.lock THEN "InvalidParameter"
    ELSE IF cell.dlen # 16 THEN "Panic"
    ELSE IF OverflowChecks /\ \/ Overflows(totalCap, cell.cap, CapLimit)
                              \/ Overflows(totalAmt, cell.amount, AmtLimit) THEN "Panic"
    ELSE "none"

WithdrawError(cell) ==
    IF cell = NoCell THEN "DependencyLookup"
    ELSE IF cell.type = NoScript THEN "InvalidParameter"
    ELSE IF lastLock # NoScript /\ lastLock # cell.lock THEN "InvalidParameter"
    ELSE IF lastType # NoScript /\ lastType # cell.type THEN "InvalidParameter"
    ELSE IF cell.dlen # 16 THEN "Panic"
    ELSE IF OverflowChecks /\ \/ Overflows(totalCap, cell.cap, CapLimit)
                              \/ Overflows(totalAmt, cell.amount, AmtLimit) THEN "Panic"
    ELSE "none"

WithdrawCheque ==
    /\ pc = "loop"
    /\ i <= Len(outPoints)
    /\ LET cell == Chain[outPoints[i]] IN
         IF WithdrawError(cell) # "none"
           THEN Fail(WithdrawError(cell))
           ELSE /\ lastLock' = cell.lock
                /\ lastType' = cell.type
                /\ totalCap' = AddU(totalCap, cell.cap, CapLimit)
                /\ totalAmt' = AddU(totalAmt, cell.amount, AmtLimit)
                /\ txInputs' = Append(txInputs, [op |-> outPoints[i], since |-> ChequeSince])
                /\ i' = i + 1
                /\ UNCHANGED <<outPoints, sender, pc, outcome, tx>>

(***************************************************************************)
(* Lines 256-303: the lock and type cell deps are resolved first, then the *)
(* args length and sender-hash checks; the output carries the sender lock, *)
(* the shared type script, the summed capacity and the summed amount.      *)
(***************************************************************************)
\* Mutant: the lock's cell dep is pushed without checking it resolved.
AssembleErrorNoLockDep ==
    IF ~Resolvable(lastType) THEN "ResolveCellDepFailed"
    ELSE IF ArgsLen[lastLock] # 40 THEN "InvalidParameter"
    ELSE IF ArgsSender[lastLock] # sender THEN "InvalidParameter"
    ELSE "none"

AssembleError ==
    IF ~Resolvable(lastLock) THEN "ResolveCellDepFailed"
    ELSE IF ~Resolvable(lastType) THEN "ResolveCellDepFailed"
    ELSE IF ArgsLen[lastLock] # 40 THEN "InvalidParameter"
    ELSE IF ArgsSender[lastLock] # sender THEN "InvalidParameter"
    ELSE "none"

WithdrawAssemble ==
    /\ pc = "loop"
    /\ outPoints # << >>
    /\ i > Len(outPoints)
    /\ IF AssembleError # "none"
         THEN Fail(AssembleError)
         ELSE /\ pc' = "done"
              /\ outcome' = "Ok"
              /\ tx' = [cellDeps |-> << DepOf(lastLock), DepOf(lastType) >>,
                        inputs   |-> txInputs,
                        outputs  |-> << [cap |-> totalCap, lock |-> sender,
                                         type |-> lastType, dlen |-> 16,
                                         amount |-> totalAmt] >>]
              /\ UNCHANGED <<outPoints, sender, i, txInputs, lastLock, lastType,
                             totalAmt, totalCap>>

Next == WithdrawEmpty \/ WithdrawCheque \/ WithdrawAssemble

Spec == Init /\ [][Next]_vars

-----------------------------------------------------------------------------

TypeOK ==
    /\ outPoints \in Seq(OutPoints) /\ Len(outPoints) <= MaxInputs
    /\ sender \in SenderLocks
    /\ pc \in {"loop", "done"}
    /\ i \in 1..(Len(outPoints) + 1)
    /\ txInputs \in Seq(Input)
    /\ lastLock \in Scripts \cup {NoScript}
    /\ lastType \in Scripts \cup {NoScript}
    /\ totalAmt \in 0..(AmtLimit - 1)
    /\ totalCap \in 0..(CapLimit - 1)
    /\ outcome \in {"none", "Ok"} \cup Errors
    /\ tx \in Tx

WithdrawnCells == CellsAt([k \in DOMAIN tx.inputs |-> tx.inputs[k].op])

(***************************************************************************)
(* Withdraw conserves value (spec section 8, invariant 2): the one output  *)
(* of a returned transaction holds the capacity and the amount of all the  *)
(* cheques it consumes, and every one of them is consumed.                 *)
(***************************************************************************)
WithdrawConservation ==
    outcome = "Ok" =>
        /\ Len(tx.inputs) = Len(outPoints)
        /\ tx.outputs[1].cap = SeqSum(CapsOf(WithdrawnCells))
        /\ tx.outputs[1].amount = SeqSum(AmountsOf(WithdrawnCells))

(***************************************************************************)
(* A withdrawal is timelocked and returns the cheques' own token to their  *)
(* own sender (spec 4.3): every input of a returned transaction is one of  *)
(* the given out-points carrying CHEQUE_CELL_SINCE, its cell has the       *)
(* output's type script, and its lock names the output's lock as sender.   *)
(***************************************************************************)
WithdrawToChequeSender ==
    outcome = "Ok" =>
        \A k \in DOMAIN tx.inputs :
            /\ tx.inputs[k] = [op |-> outPoints[k], since |-> ChequeSince]
            /\ WithdrawnCells[k].type = tx.outputs[1].type
            /\ ArgsLen[WithdrawnCells[k].lock] = 40
            /\ ArgsSender[WithdrawnCells[k].lock] = tx.outputs[1].lock

(***************************************************************************)
(* Cell deps are deduplicated (spec 4.1): a returned transaction lists no  *)
(* cell dep twice, whatever the resolver returns for the cheque lock and   *)
(* the type script.                                                        *)
(***************************************************************************)
WithdrawDepsDistinct ==
    outcome = "Ok" => tx.cellDeps[1] # tx.cellDeps[2]

(***************************************************************************)
(* Bad cheque data is rejected (spec 4.3 and section 8, boundary checks):  *)
(* a call that stops at a cheque cell whose data is not 16 bytes returns   *)
(* InvalidParameter rather than panicking.                                 *)
(***************************************************************************)
WithdrawRejectsBadData ==
    /\ pc = "done"
    /\ i \in DOMAIN outPoints
    /\ Chain[outPoints[i]] # NoCell
    /\ Chain[outPoints[i]].dlen # 16
    => outcome = "InvalidParameter"

=============================================================================
