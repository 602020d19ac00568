-------------------------- MODULE MC_ScriptSigning --------------------------
(***************************************************************************)
(* A transaction with three inputs and two lock groups:                    *)
(*   gM  the 2-of-3 multisig group (addresses A, B, C, require-first-n 1) *)
(*       at inputs 1 and 2;                                                *)
(*   gS  the sighash group of key D at input 3.                            *)
(* Wallets hold A, B, D, {A, B, C} (more keys than the threshold).         *)
(* Up to four witnesses at start: one may be past the inputs.              *)
(*                                                                         *)
(* MCGroupIdxAll adds two one-input groups at inputs 4 and 5: gA an ACP   *)
(* lock with 21-byte args naming D, gC a cheque lock with receiver A and   *)
(* sender B; six witnesses at start reach one past the inputs.             *)
(* MCGroupIdxOwner has three one-input groups: gA, gC and gCb, a cheque    *)
(* lock with 39-byte args; MCArgsShort gives gA 19-byte args.              *)
(***************************************************************************)
EXTENDS ScriptSigning

MCKeys == {"A", "B", "C", "D"}
MCWallets == {"wA", "wB", "wD", "wABC"}
MCWalletKeys == [w \in MCWallets |-> CASE w = "wA" -> {"A"}
                                       [] w = "wB" -> {"B"}
                                       [] w = "wD" -> {"D"}
                                       [] OTHER    -> {"A", "B", "C"}]
MCGroupIdx == [g \in {"gM", "gS"} |-> IF g = "gM" THEN <<1, 2>> ELSE <<3>>]
MCGroupIdxOwner == [g \in {"gA", "gC", "gCb"} |->
                      CASE g = "gA" -> <<1>> [] g = "gC" -> <<2>> [] OTHER -> <<3>>]
MCArgs == [g \in {"gA", "gC", "gCb"} |->
             CASE g = "gA" -> [len |-> 21, lo |-> "D", hi |-> "D"]
               [] g = "gC" -> [len |-> 40, lo |-> "A", hi |-> "B"]
               [] OTHER    -> [len |-> 39, lo |-> "A", hi |-> "B"]]
MCArgsShort == [MCArgs EXCEPT !["gA"].len = 19]
MCGroupIdxAll == [g \in {"gM", "gS", "gA", "gC"} |->
    CASE g = "gM" -> <<1, 2>> [] g = "gS" -> <<3>> [] g = "gA" -> <<4>> [] OTHER -> <<5>>]
MCArgsAll == [g \in {"gA", "gC"} |-> MCArgs[g]]
MCNoArgs == [g \in {} |-> [len |-> 0, lo |-> "A", hi |-> "A"]]
MCNoOwner == [g \in {} |-> "A"]
MCNoAddrs == [g \in {} |-> <<>>]
MCNoNat == [g \in {} |-> 0]
MCOwner == [g \in {"gS"} |-> "D"]
MCAddrs == [g \in {"gM"} |-> <<"A", "B", "C">>]
MCThreshold == [g \in {"gM"} |-> 2]
MCFirstN == [g \in {"gM"} |-> 1]

=============================================================================
