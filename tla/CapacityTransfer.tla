-------------------------- MODULE CapacityTransfer --------------------------
(***************************************************************************)
(* CapacityTransferBuilder::build_base (src/tx_builder/transfer.rs 22-51). *)
(*                                                                         *)
(* One call of the builder.  Init picks self.outputs, a list of outputs    *)
(* with their data (a cell of OutputCells stands for the pair); the `for`  *)
(* loop runs one output per step (TransferOutput), and TransferAssemble    *)
(* returns the transaction.  The cell deps are a HashSet, so a set here.   *)
(***************************************************************************)
EXTENDS CkbCells

CONSTANTS
    OutputCells,     \* (CellOutput, Bytes) pairs a caller may pass
    MaxOutputs       \* bound on the number of outputs

ASSUME TransferAssumption ==
    /\ OutputCells \subseteq Cell
    /\ MaxOutputs \in Nat

VARIABLES
    outputs,         \* self.outputs
    pc,              \* "loop" or "done"
    i,               \* index of the next output of the loop
    cellDeps,        \* the HashSet cell_deps
    txOutputs,       \* the Vecs outputs and outputs_data, as one list
    outcome,         \* "none" while running, then "Ok" or the error returned
    tx               \* the transaction returned on "Ok"

vars == <<outputs, pc, i, cellDeps, txOutputs, outcome, tx>>

Tx == [cellDeps : SUBSET Deps, outputs : Seq(OutputCells)]

NoTx == [cellDeps |-> {}, outputs |-> << >>]

Init ==
    /\ outputs \in UNION {[1..n -> OutputCells] : n \in 0..MaxOutputs}
    /\ pc = "loop"
    /\ i = 1
    /\ cellDeps = {}
    /\ txOutputs = << >>
    /\ outcome = "none"
    /\ tx = NoTx

(***************************************************************************)
(* Lines 34-43, one iteration: the output and its data are pushed, then a  *)
(* type script's cell dep is resolved; `?` returns ResolveCellDepFailed    *)
(* when the resolver has none, discarding what was built.                  *)
(***************************************************************************)
\* Mutant: the resolver's answer is inserted unchecked (no `ok_or(..)?`).
TransferOutputUnchecked ==
    /\ pc = "loop"
    /\ i <= Len(outputs)
    /\ LET out == outputs[i] IN
         /\ txOutputs' = Append(txOutputs, out)
         /\ cellDeps' = IF out.type = NoScript THEN cellDeps
                          ELSE cellDeps \cup {DepOf(out.type)}
         /\ i' = i + 1
         /\ UNCHANGED <<outputs, pc, outcome, tx>>

\* Mutant: an unresolvable type script is skipped (`if let Some(dep)`).
TransferOutputSkipUnresolved ==
    /\ pc = "loop"
    /\ i <= Len(outputs)
    /\ LET out == outputs[i] IN
         /\ txOutputs' = Append(txOutputs, out)
         /\ cellDeps' = IF out.type # NoScript /\ Resolvable(out.type)
                          THEN cellDeps \cup {DepOf(out.type)} ELSE cellDeps
         /\ i' = i + 1
         /\ UNCHANGED <<outputs, pc, outcome, tx>>

TransferOutput ==
    /\ pc = "loop"
    /\ i <= Len(outputs)
    /\ LET out == outputs[i] IN
         IF out.type # NoScript /\ ~Resolvable(out.type)
           THEN /\ pc' = "done"
                /\ outcome' = "ResolveCellDepFailed"
                /\ UNCHANGED <<outputs, i, cellDeps, txOutputs, tx>>
           ELSE /\ txOutputs' = Append(txOutputs, out)
                /\ cellDeps' = IF out.type = NoScript THEN cellDeps
                                 ELSE cellDeps \cup {DepOf(out.type)}
                /\ i' = i + 1
                /\ UNCHANGED <<outputs, pc, outcome, tx>>

\* Lines 45-49: the transaction of the collected deps, outputs and data.
TransferAssemble ==
    /\ pc = "loop"
    /\ i > Len(outputs)
    /\ pc' = "done"
    /\ outcome' = "Ok"
    /\ tx' = [cellDeps |-> cellDeps, outputs |-> txOutputs]
    /\ UNCHANGED <<outputs, i, cellDeps, txOutputs>>

Next == TransferOutput \/ TransferAssemble

Spec == Init /\ [][Next]_vars

-----------------------------------------------------------------------------

TypeOK ==
    /\ outputs \in Seq(OutputCells) /\ Len(outputs) <= MaxOutputs
    /\ pc \in {"loop", "done"}
    /\ i \in 1..(Len(outputs) + 1)
    /\ cellDeps \subseteq Deps
    /\ txOutputs \in Seq(OutputCells)
    /\ outcome \in {"none", "Ok", "ResolveCellDepFailed"}
    /\ tx \in Tx

TypeScripts == {outputs[k].type : k \in DOMAIN outputs} \ {NoScript}

(***************************************************************************)
(* The builder's contract (spec 4.1 and 4.4): a call that returns gives Ok *)
(* exactly when every output's type script has a known cell dep, and then *)
(* the transaction carries the outputs in the caller's order with the     *)
(* deduplicated deps of all their type scripts and no other dep;          *)
(* otherwise it returns ResolveCellDepFailed.                              *)
(***************************************************************************)
TransferResult ==
    pc = "done" =>
        IF \A s \in TypeScripts : Resolvable(s)
          THEN /\ outcome = "Ok"
               /\ tx.outputs = outputs
               /\ tx.cellDeps = {DepOf(s) : s \in TypeScripts}
          ELSE outcome = "ResolveCellDepFailed"

=============================================================================
