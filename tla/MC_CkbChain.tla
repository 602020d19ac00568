--------------------------- MODULE MC_CkbChain ----------------------------
(***************************************************************************)
(* A small chain for the cheque builders.  Scripts:                        *)
(*   Lc, Lc2  cheque locks (40-byte args) of senders S and S2;             *)
(*   Lb       a cheque lock with 39-byte args;                             *)
(*   R, S, S2 sighash locks (receiver, senders), sharing one ScriptId;     *)
(*   Rx       a lock with 40-byte args naming S whose code has no known   *)
(*            cell dep;                                                    *)
(*   T, T2    two sUDT tokens;                                             *)
(*   T3       a token whose code sits in the cheque lock's dep group.       *)
(* Cells: cheques c1..c6 (c3 holds token T2, c4 has the 39-byte args, c5   *)
(* has 8 bytes of data, c6 is from sender S2, c7 holds token T3),         *)
(* receivers r1 (token T), r2 (no type), r3 (lock Rx), and an unknown     *)
(* out-point x.                                                            *)
(***************************************************************************)
EXTENDS CkbCells

MCOutPoints == {"c1", "c2", "c3", "c4", "c5", "c6", "c7", "r1", "r2", "r3", "x"}
MCScripts == {"Lc", "Lc2", "Lb", "R", "Rx", "S", "S2", "T", "T2", "T3"}
MCScriptIds == {"cheque", "secp", "unknown", "sudt", "sudt2", "sudt3"}
MCScriptIdOf ==
    [s \in MCScripts |->
        CASE s \in {"Lc", "Lc2", "Lb"} -> "cheque"
          [] s \in {"R", "S", "S2"}    -> "secp"
          [] s = "Rx"                  -> "unknown"
          [] s = "T"                   -> "sudt"
          [] s = "T2"                  -> "sudt2"
          [] s = "T3"                  -> "sudt3"]
MCArgsLen ==
    [s \in MCScripts |-> CASE s \in {"Lc", "Lc2"} -> 40
                           [] s = "Lb"            -> 39
                           [] s = "Rx"            -> 40
                           [] s \in {"T", "T2", "T3"} -> 32
                           [] OTHER               -> 20]
MCArgsSender ==
    [s \in MCScripts |-> CASE s = "Lc"  -> "S"
                           [] s = "Lc2" -> "S2"
                           [] s = "Lb"  -> "S"
                           [] s = "Rx"  -> "S"
                           [] OTHER     -> NoScript]
MCDeps == {"dCheque", "dSecp", "dSudt", "dSudt2"}
MCResolve ==
    [d \in MCScriptIds |-> CASE d = "cheque" -> "dCheque"
                             [] d = "secp"   -> "dSecp"
                             [] d = "sudt"   -> "dSudt"
                             [] d = "sudt2"  -> "dSudt2"
                             [] d = "sudt3"  -> "dCheque"
                             [] OTHER        -> NoDep]

C(cap, lock, type, dlen, amount) ==
    [cap |-> cap, lock |-> lock, type |-> type, dlen |-> dlen, amount |-> amount]

MCChain ==
    [o \in MCOutPoints |->
        CASE o = "c1" -> C(2, "Lc", "T", 16, 2)
          [] o = "c2" -> C(1, "Lc", "T", 16, 1)
          [] o = "c3" -> C(1, "Lc", "T2", 16, 1)
          [] o = "c4" -> C(1, "Lb", "T", 16, 1)
          [] o = "c5" -> C(1, "Lc", "T", 8, 0)
          [] o = "c6" -> C(1, "Lc2", "T", 16, 1)
          [] o = "c7" -> C(1, "Lc", "T3", 16, 1)
          [] o = "r1" -> C(1, "R", "T", 16, 1)
          [] o = "r2" -> C(1, "R", NoScript, 0, 0)
          [] o = "r3" -> C(1, "Rx", "T", 16, 0)
          [] OTHER    -> NoCell]

MCSenderLocks == {"S", "S2"}

=============================================================================
