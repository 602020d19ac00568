---------------------------- MODULE ChequeClaim ----------------------------
(***************************************************************************)
(* ChequeClaimBuilder::build_base (src/tx_builder/cheque.rs 30-184).       *)
(*                                                                         *)
(* One call of the builder.  Init picks the builder's fields (the cheque   *)
(* inputs, the receiver input and the sender lock script); the call then   *)
(* runs in the code's order: the checks on the receiver cell and its two   *)
(* cell deps (ClaimReceiver), one step per cheque input of the `for` loop  *)
(* (ClaimCheque), and the args checks and assembly after the loop          *)
(* (ClaimAssemble).  Every early return is a step to pc = "done" with the  *)
(* error it returns.                                                       *)
(***************************************************************************)
EXTENDS CkbCells

CONSTANTS
    SenderLocks,     \* lock scripts a caller may pass as sender_lock_script
    MaxInputs        \* bound on the number of cheque inputs

ASSUME ClaimAssumption ==
    /\ SenderLocks \subseteq Scripts
    /\ MaxInputs \in Nat

VARIABLES
    inputs,          \* self.inputs: the cheque inputs' out-points
    receiver,        \* self.receiver_input's out-point
    sender,          \* self.sender_lock_script
    pc,              \* "start", "loop" (the for loop and what follows), "done"
    i,               \* index of the next cheque input of the loop
    cellDeps,        \* the HashSet cell_deps
    lastLock,        \* last_lock_script
    totalAmt,        \* cheque_total_amount (u128)
    totalCap,        \* cheque_total_capacity (u64)
    outcome,         \* "none" while running, then "Ok" or the error returned
    tx               \* the transaction returned on "Ok"

vars == <<inputs, receiver, sender, pc, i, cellDeps, lastLock, totalAmt,
          totalCap, outcome, tx>>

Errors == {"InvalidParameter", "ResolveCellDepFailed", "DependencyLookup", "Panic"}

\* The transactions the builder returns.
Tx == [cellDeps : SUBSET Deps, inputs : Seq(OutPoints), outputs : Seq(Cell)]

NoTx == [cellDeps |-> {}, inputs |-> << >>, outputs |-> << >>]

ReceiverCell == Chain[receiver]

Init ==
    /\ inputs \in UNION {[1..n -> OutPoints] : n \in 0..MaxInputs}
    /\ receiver \in OutPoints
    /\ sender \in SenderLocks
    /\ pc = "start"
    /\ i = 1
    /\ cellDeps = {}
    /\ lastLock = NoScript
    /\ totalAmt = 0
    /\ totalCap = 0
    /\ outcome = "none"
    /\ tx = NoTx

\* An early `return Err(e)` (or a panic) ends the call.
Fail(e) ==
    /\ pc' = "done"
    /\ outcome' = e
    /\ UNCHANGED <<inputs, receiver, sender, i, cellDeps, lastLock, totalAmt,
                   totalCap, tx>>

(***************************************************************************)
(* Lines 38-83: the empty-inputs check, then get_cell / get_cell_data of   *)
(* the receiver, its type script, its data length, and the cell deps of    *)
(* its type and lock scripts, in that order.                               *)
(***************************************************************************)
ReceiverError ==
    IF inputs = << >> THEN "InvalidParameter"
    ELSE IF ReceiverCell = NoCell THEN "DependencyLookup"
    ELSE IF ReceiverCell.type = NoScript THEN "InvalidParameter"
    ELSE IF ReceiverCell.dlen # 16 THEN "InvalidParameter"
    ELSE IF ~Resolvable(ReceiverCell.type) THEN "ResolveCellDepFailed"
    ELSE IF ~Resolvable(ReceiverCell.lock) THEN "ResolveCellDepFailed"
    ELSE "none"

ClaimReceiver ==
    /\ pc = "start"
    /\ IF ReceiverError # "none"
         THEN Fail(ReceiverError)
         ELSE /\ pc' = "loop"
              /\ cellDeps' = {DepOf(ReceiverCell.type), DepOf(ReceiverCell.lock)}
              /\ UNCHANGED <<inputs, receiver, sender, i, lastLock, totalAmt,
                             totalCap, outcome, tx>>

(***************************************************************************)
(* Line 92: the type script compared with the receiver's is read from      *)
(* receiver_input_cell, not from the cheque input's cell.                  *)
(***************************************************************************)
ChequeTypeRead(cell) == ReceiverCell.type

(***************************************************************************)
(* Lines 89-141, one iteration of the loop over self.inputs.  The sums at  *)
(* 139-140 panic on overflow when overflow checks are on and wrap when     *)
(* they are off.                                                           *)
(***************************************************************************)
\* Mutant: the cheque lock's cell dep is inserted without checking it resolved.
ChequeErrorNoResolve(cell) ==
    IF cell = NoCell THEN "DependencyLookup"
    ELSE IF cell.dlen # 16 THEN "InvalidParameter"
    ELSE IF ChequeTypeRead(cell) # ReceiverCell.type THEN "InvalidParameter"
    ELSE IF lastLock # NoScript /\ lastLock # cell.lock THEN "InvalidParameter"
    ELSE IF OverflowChecks /\ \/ Overflows(totalAmt, cell.amount, AmtLimit)
                              \/ Overflows(totalCap, cell.cap, CapLimit) THEN "Panic"
    ELSE "none"

\* Mutant: the loop does not compare each cheque lock with the previous one.
ChequeErrorNoLockCmp(cell) ==
    IF cell = NoCell THEN "DependencyLookup"
    ELSE IF cell.dlen # 16 THEN "InvalidParameter"
    ELSE IF ChequeTypeRead(cell) # ReceiverCell.type THEN "InvalidParameter"
    ELSE IF ~Resolvable(cell.lock) THEN "ResolveCellDepFailed"
    ELSE IF OverflowChecks /\ \/ Overflows(totalAmt, cell.amount, AmtLimit)
                              \/ Overflows(totalCap, cell.cap, CapLimit) THEN "Panic"
    ELSE "none"

ChequeError(cell) ==
    IF cell = NoCell THEN "DependencyLookup"
    ELSE IF cell.dlen # 16 THEN "InvalidParameter"
    ELSE IF ChequeTypeRead(cell) # ReceiverCell.type THEN "InvalidParameter"
    ELSE IF lastLock # NoScript /\ lastLock # cell.lock THEN "InvalidParameter"
    ELSE IF ~Resolvable(cell.lock) THEN "ResolveCellDepFailed"
    ELSE IF OverflowChecks /\ \/ Overflows(totalAmt, cell.amount, AmtLimit)
                              \/ Overflows(totalCap, cell.cap, CapLimit) THEN "Panic"
    ELSE "none"

ClaimCheque ==
    /\ pc = "loop"
    /\ i <= Len(inputs)
    /\ LET cell == Chain[inputs[i]] IN
         IF ChequeError(cell) # "none"
           THEN Fail(ChequeError(cell))
           ELSE /\ lastLock' = cell.lock
                /\ cellDeps' = cellDeps \cup {DepOf(cell.lock)}
                /\ totalAmt' = AddU(totalAmt, cell.amount, AmtLimit)
                /\ totalCap' = AddU(totalCap, cell.cap, CapLimit)
                /\ i' = i + 1
                /\ UNCHANGED <<inputs, receiver, sender, pc, outcome, tx>>

(***************************************************************************)
(* Lines 143-182: the args length and sender-hash checks on the cheque     *)
(* lock, then the receiver output (the receiver cell with the summed       *)
(* amount, line 165) and the sender output (no type, empty data).          *)
(***************************************************************************)
\* Mutant: the receiver's amount is added without the overflow check.
AssembleErrorNoOverflow ==
    IF ArgsLen[lastLock] # 40 THEN "InvalidParameter"
    ELSE IF ArgsSender[lastLock] # sender THEN "InvalidParameter"
    ELSE "none"

AssembleError ==
    IF ArgsLen[lastLock] # 40 THEN "InvalidParameter"
    ELSE IF ArgsSender[lastLock] # sender THEN "InvalidParameter"
    ELSE IF OverflowChecks /\ Overflows(ReceiverCell.amount, totalAmt, AmtLimit) THEN "Panic"
    ELSE "none"

ClaimAssemble ==
    /\ pc = "loop"
    /\ i > Len(inputs)
    /\ IF AssembleError # "none"
         THEN Fail(AssembleError)
         ELSE /\ pc' = "done"
              /\ outcome' = "Ok"
              /\ tx' = [cellDeps |-> cellDeps,
                        inputs   |-> Append(inputs, receiver),
                        outputs  |->
                          << [ReceiverCell EXCEPT
                                !.amount = AddU(ReceiverCell.amount, totalAmt, AmtLimit)],
                             [cap |-> totalCap, lock |-> sender, type |-> NoScript,
                              dlen |-> 0, amount |-> 0] >>]
              /\ UNCHANGED <<inputs, receiver, sender, i, cellDeps, lastLock,
                             totalAmt, totalCap>>

Next == ClaimReceiver \/ ClaimCheque \/ ClaimAssemble

Spec == Init /\ [][Next]_vars

-----------------------------------------------------------------------------

TypeOK ==
    /\ inputs \in Seq(OutPoints) /\ Len(inputs) <= MaxInputs
    /\ receiver \in OutPoints
    /\ sender \in SenderLocks
    /\ pc \in {"start", "loop", "done"}
    /\ i \in 1..(Len(inputs) + 1)
    /\ cellDeps \in SUBSET Deps
    /\ lastLock \in Scripts \cup {NoScript}
    /\ totalAmt \in 0..(AmtLimit - 1)
    /\ totalCap \in 0..(CapLimit - 1)
    /\ outcome \in {"none", "Ok"} \cup Errors
    /\ tx \in Tx

\* The cheque cells the returned transaction consumes (all inputs but the last).
ClaimedCheques == CellsAt(SubSeq(tx.inputs, 1, Len(tx.inputs) - 1))

(***************************************************************************)
(* A claim spends each cell once (spec 4.1, fail fast on any invariant     *)
(* violation; a transaction spending an out-point twice is never valid):   *)
(* the inputs of a returned transaction, the cheques given and the         *)
(* receiver input pushed after them at line 47, are pairwise distinct.     *)
(***************************************************************************)
ClaimInputsDistinct ==
    outcome = "Ok" => \A a, b \in DOMAIN tx.inputs : a # b => tx.inputs[a] # tx.inputs[b]

(***************************************************************************)
(* Claim conserves value (spec section 8, invariant 1): a transaction the  *)
(* builder returns has as much capacity in its outputs as in its inputs,   *)
(* and the receiver output holds the receiver's amount plus the amount of  *)
(* every claimed cheque.  It rests on the loop summing every cheque and on *)
(* the sums at lines 139-140 and 165 not wrapping.                         *)
(***************************************************************************)
ClaimConservation ==
    outcome = "Ok" =>
        /\ SeqSum(CapsOf(CellsAt(tx.inputs))) = SeqSum(CapsOf(tx.outputs))
        /\ tx.outputs[1].amount = ReceiverCell.amount + SeqSum(AmountsOf(ClaimedCheques))

(***************************************************************************)
(* Every claimed cheque names the refund's owner as its sender (spec 4.2,  *)
(* checks 3-5): a returned transaction's cheque inputs all carry a lock    *)
(* with 40-byte args whose second half is the hash prefix of the lock of   *)
(* the sender output that receives their capacity.  The code checks only   *)
(* the last lock's args, after the loop; the loop's comparison with        *)
(* last_lock_script is what carries the check to every cheque.             *)
(***************************************************************************)
ClaimRefundToChequeSender ==
    outcome = "Ok" =>
        \A k \in DOMAIN ClaimedCheques :
            /\ ArgsLen[ClaimedCheques[k].lock] = 40
            /\ ArgsSender[ClaimedCheques[k].lock] = tx.outputs[2].lock

(***************************************************************************)
(* Every claimed cheque holds the receiver's token (spec 4.2, check 3):    *)
(* a returned transaction's cheque inputs all have the receiver cell's     *)
(* type script, so the amounts the receiver output adds up are amounts of  *)
(* one token.                                                              *)
(***************************************************************************)
ClaimTypeUniform ==
    outcome = "Ok" =>
        \A k \in DOMAIN ClaimedCheques : ClaimedCheques[k].type = ReceiverCell.type

=============================================================================
