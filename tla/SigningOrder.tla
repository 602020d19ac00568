---------------------------- MODULE SigningOrder ----------------------------
(***************************************************************************)
(* Two callers sign copies of the same unsigned transaction with the same  *)
(* signers, each in its own order.  The first copy is ScriptSigning's own  *)
(* state; the second is an instance of ScriptSigning on wsB and lcB.  The  *)
(* done sets record the successful sign_tx calls of each copy.             *)
(* The callers use the sighash and multisig signers.                      *)
(***************************************************************************)
EXTENDS ScriptSigning

VARIABLES wsB, lcB, doneA, doneB

B == INSTANCE ScriptSigning WITH witnesses <- wsB, lastCall <- lcB

orderVars == <<witnesses, lastCall, wsB, lcB, doneA, doneB>>

OrderInit ==
    /\ Init
    /\ wsB = witnesses
    /\ lcB = lastCall
    /\ doneA = {}
    /\ doneB = {}

\* The copy's sign_tx of group g with wallet w.
SignA(g, w) == IF g \in SighashGroups THEN SighashSign(g, w) ELSE MultisigSign(g, w)
SignB(g, w) == IF g \in SighashGroups THEN B!SighashSign(g, w) ELSE B!MultisigSign(g, w)

StepA ==
    \E g \in SighashGroups \cup MultisigGroups, w \in Wallets :
        /\ SignA(g, w)
        /\ doneA' = IF lastCall'.outcome = "Ok" THEN doneA \cup {<<g, w>>} ELSE doneA
        /\ UNCHANGED <<wsB, lcB, doneB>>

StepB ==
    \E g \in SighashGroups \cup MultisigGroups, w \in Wallets :
        /\ SignB(g, w)
        /\ doneB' = IF lcB'.outcome = "Ok" THEN doneB \cup {<<g, w>>} ELSE doneB
        /\ UNCHANGED <<witnesses, lastCall, doneA>>

OrderNext == StepA \/ StepB

OrderSpec == OrderInit /\ [][OrderNext]_orderVars

(***************************************************************************)
(* Signing commutes (spec section 8, item 5): two copies of a transaction  *)
(* on which the same sign_tx calls have succeeded, in whatever order, are  *)
(* the same transaction.                                                   *)
(***************************************************************************)
SignOrderIrrelevant == doneA = doneB => witnesses = wsB

=============================================================================
