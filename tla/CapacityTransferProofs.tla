----------------------- MODULE CapacityTransferProofs -----------------------
(***************************************************************************)
(* Proof that CapacityTransferBuilder::build_base meets its contract       *)
(* (TransferResult) for every resolver, set of outputs and bound.          *)
(***************************************************************************)
EXTENDS CapacityTransfer, TLAPS

\* The type scripts among the first n outputs.
TypesUpTo(n) == {outputs[k].type : k \in 1..n} \ {NoScript}

(***************************************************************************)
(* The inductive invariant.  TransferResult speaks of the final state      *)
(* only; the loop must carry what it has built so far: the outputs pushed  *)
(* are the first i - 1 given, the deps are those of their type scripts,    *)
(* all of which resolved, and an error names an output it stopped at.      *)
(***************************************************************************)
IInv ==
    /\ TypeOK
    /\ pc = "done" <=> outcome # "none"
    /\ txOutputs = SubSeq(outputs, 1, i - 1)
    /\ cellDeps = {DepOf(s) : s \in TypesUpTo(i - 1)}
    /\ \A s \in TypesUpTo(i - 1) : Resolvable(s)
    /\ outcome = "Ok" =>
          /\ i = Len(outputs) + 1
          /\ tx = [cellDeps |-> cellDeps, outputs |-> txOutputs]
    /\ outcome = "ResolveCellDepFailed" =>
          /\ i \in 1..Len(outputs)
          /\ outputs[i].type # NoScript
          /\ ~Resolvable(outputs[i].type)

-----------------------------------------------------------------------------

\* Init's choice of self.outputs is a sequence of at most MaxOutputs outputs.
LEMMA InitOutputsType ==
    ASSUME NEW n \in 0..MaxOutputs, NEW f \in [1..n -> OutputCells]
    PROVE  f \in Seq(OutputCells) /\ Len(f) <= MaxOutputs
BY TransferAssumption

\* One more output adds its type script, if it has one.
LEMMA TypesUpToNext ==
    ASSUME NEW n \in Nat
    PROVE  TypesUpTo(n + 1) = TypesUpTo(n) \cup ({outputs[n + 1].type} \ {NoScript})
BY DEF TypesUpTo

LEMMA IInvInit == Init => IInv
<1> SUFFICES ASSUME Init PROVE IInv
  OBVIOUS
<1>1. outputs \in Seq(OutputCells) /\ Len(outputs) <= MaxOutputs
  BY InitOutputsType DEF Init
<1>2. TypeOK
  BY <1>1, TransferAssumption DEF Init, TypeOK, NoTx, Tx
<1>3. TypesUpTo(0) = {}
  BY DEF TypesUpTo
<1>4. SubSeq(outputs, 1, 0) = << >>
  BY <1>1
<1>. QED
  BY <1>2, <1>3, <1>4 DEF Init, IInv

(***************************************************************************)
(* One loop iteration: either the output's type script does not resolve    *)
(* and the call returns the error at this output, or the output and its    *)
(* type script's dep join the ones built.                                  *)
(***************************************************************************)
LEMMA OutputKeepsIInv ==
    ASSUME IInv, TransferOutput
    PROVE  IInv'
<1> DEFINE out == outputs[i]
<1>1. /\ pc = "loop" /\ outcome = "none"
      /\ i \in 1..Len(outputs)
      /\ outputs \in Seq(OutputCells)
      /\ out \in Cell
  BY TransferAssumption DEF TransferOutput, IInv, TypeOK
<1>2. CASE out.type # NoScript /\ ~Resolvable(out.type)
  <2>1. /\ pc' = "done" /\ outcome' = "ResolveCellDepFailed"
        /\ UNCHANGED <<outputs, i, cellDeps, txOutputs, tx>>
    BY <1>2 DEF TransferOutput
  <2>2. TypeOK'
    BY <2>1 DEF IInv, TypeOK
  <2>3. TypesUpTo(i - 1)' = TypesUpTo(i - 1)
    BY <2>1 DEF TypesUpTo
  <2>. QED
    BY <1>1, <1>2, <2>1, <2>2, <2>3 DEF IInv
<1>3. CASE ~(out.type # NoScript /\ ~Resolvable(out.type))
  <2>1. /\ txOutputs' = Append(txOutputs, out)
        /\ cellDeps' = IF out.type = NoScript THEN cellDeps
                         ELSE cellDeps \cup {DepOf(out.type)}
        /\ i' = i + 1
        /\ UNCHANGED <<outputs, pc, outcome, tx>>
    BY <1>3 DEF TransferOutput
  <2>2. TypesUpTo(i) = TypesUpTo(i - 1) \cup ({out.type} \ {NoScript})
    BY <1>1, TypesUpToNext
  <2>3. txOutputs' = SubSeq(outputs, 1, i)
    BY <1>1, <2>1 DEF IInv
  <2>4. cellDeps' = {DepOf(s) : s \in TypesUpTo(i)}
    BY <2>1, <2>2 DEF IInv
  <2>5. \A s \in TypesUpTo(i) : Resolvable(s)
    BY <1>3, <2>2 DEF IInv
  <2>6. out.type # NoScript => DepOf(out.type) \in Deps
    BY <1>1, <1>3, ConstantsAssumption DEF Cell, Resolvable, DepOf
  <2>7. TypeOK'
    <3>1. i' \in 1..(Len(outputs') + 1)
      BY <1>1, <2>1
    <3>2. txOutputs' \in Seq(OutputCells)
      BY <1>1, <2>3
    <3>3. cellDeps' \subseteq Deps
      BY <2>1, <2>6 DEF IInv, TypeOK
    <3>. QED
      BY <2>1, <3>1, <3>2, <3>3 DEF IInv, TypeOK
  <2>8. TypesUpTo(i - 1)' = TypesUpTo(i)
    <3>1. i' - 1 = i /\ outputs' = outputs
      BY <1>1, <2>1
    <3>. QED
      BY <3>1 DEF TypesUpTo
  <2>9. outcome' = "none" /\ pc' = "loop"
    BY <1>1, <2>1
  <2>10. cellDeps' = {DepOf(s) : s \in TypesUpTo(i - 1)'}
    BY <2>4, <2>8
  <2>11. \A s \in TypesUpTo(i - 1)' : Resolvable(s)
    BY <2>5, <2>8
  <2>12. txOutputs' = SubSeq(outputs', 1, i' - 1)
    BY <1>1, <2>1, <2>3
  <2>. QED
    BY <2>7, <2>9, <2>10, <2>11, <2>12 DEF IInv
<1>. QED
  BY <1>2, <1>3

(***************************************************************************)
(* The assembly returns what the loop built.                               *)
(***************************************************************************)
LEMMA AssembleKeepsIInv ==
    ASSUME IInv, TransferAssemble
    PROVE  IInv'
<1>1. /\ pc = "loop" /\ outcome = "none" /\ i > Len(outputs)
      /\ i = Len(outputs) + 1
  BY DEF TransferAssemble, IInv, TypeOK
<1>2. /\ pc' = "done" /\ outcome' = "Ok"
      /\ tx' = [cellDeps |-> cellDeps, outputs |-> txOutputs]
      /\ UNCHANGED <<outputs, i, cellDeps, txOutputs>>
  BY DEF TransferAssemble
<1>3. tx' \in Tx
  BY <1>2 DEF IInv, TypeOK, Tx
<1>4. TypeOK'
  BY <1>2, <1>3 DEF IInv, TypeOK
<1>5. TypesUpTo(i - 1)' = TypesUpTo(i - 1)
  BY <1>2 DEF TypesUpTo
<1>. QED
  BY <1>1, <1>2, <1>4, <1>5 DEF IInv

LEMMA IInvNext == IInv /\ [Next]_vars => IInv'
<1> SUFFICES ASSUME IInv, [Next]_vars PROVE IInv'
  OBVIOUS
<1>1. CASE TransferOutput
  BY <1>1, OutputKeepsIInv
<1>2. CASE TransferAssemble
  BY <1>2, AssembleKeepsIInv
<1>3. CASE UNCHANGED vars
  BY <1>3 DEF vars, IInv, TypeOK, TypesUpTo
<1>. QED
  BY <1>1, <1>2, <1>3 DEF Next

(***************************************************************************)
(* The inductive invariant implies TransferResult.                         *)
(***************************************************************************)
LEMMA IInvResult == IInv => TransferResult
<1> SUFFICES ASSUME IInv, pc = "done"
             PROVE  IF \A s \in TypeScripts : Resolvable(s)
                      THEN /\ outcome = "Ok"
                           /\ tx.outputs = outputs
                           /\ tx.cellDeps = {DepOf(s) : s \in TypeScripts}
                      ELSE outcome = "ResolveCellDepFailed"
  BY DEF TransferResult
<1>1. outputs \in Seq(OutputCells) /\ outcome \in {"Ok", "ResolveCellDepFailed"}
  BY DEF IInv, TypeOK
<1>2. CASE outcome = "Ok"
  <2>1. i - 1 = Len(outputs)
    BY <1>1, <1>2 DEF IInv
  <2>2. TypesUpTo(i - 1) = TypeScripts
    BY <2>1, <1>1 DEF TypesUpTo, TypeScripts
  <2>3. SubSeq(outputs, 1, i - 1) = outputs
    BY <2>1, <1>1
  <2>. QED
    BY <1>2, <2>2, <2>3 DEF IInv
<1>3. CASE outcome = "ResolveCellDepFailed"
  <2>1. outputs[i].type \in TypeScripts /\ ~Resolvable(outputs[i].type)
    BY <1>3 DEF IInv, TypeScripts
  <2>. QED
    BY <1>3, <2>1
<1>. QED
  BY <1>1, <1>2, <1>3

-----------------------------------------------------------------------------
(***************************************************************************)
(* CapacityTransferBuilder::build_base meets its contract for every        *)
(* resolver and every list of outputs: a call that has returned answered  *)
(* Ok exactly when every type script resolves, with the caller's outputs  *)
(* in order and the deduplicated deps of their type scripts, and           *)
(* ResolveCellDepFailed otherwise.                                         *)
(***************************************************************************)
THEOREM TransferContract == Spec => []TransferResult
<1>1. Init => IInv
  BY IInvInit
<1>2. IInv /\ [Next]_vars => IInv'
  BY IInvNext
<1>3. IInv => TransferResult
  BY IInvResult
<1>. QED
  BY <1>1, <1>2, <1>3, PTL DEF Spec

(***************************************************************************)
(* build_base keeps its state well typed for every instance: the outputs   *)
(* pushed are caller outputs, the deps inserted are resolver deps, and the *)
(* loop index stays within one past the last output.                       *)
(***************************************************************************)
THEOREM TransferTypeCorrect == Spec => []TypeOK
<1>1. Init => IInv
  BY IInvInit
<1>2. IInv /\ [Next]_vars => IInv'
  BY IInvNext
<1>3. IInv => TypeOK
  BY DEF IInv
<1>. QED
  BY <1>1, <1>2, <1>3, PTL DEF Spec

=============================================================================
