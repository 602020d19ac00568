------------------------ MODULE MC_CapacityTransfer ------------------------
(***************************************************************************)
(* CapacityTransfer on the scripts of MC_CkbChain.  Outputs: o1 without a  *)
(* type, o2 and o2b of token T (one dep for both), o3 of token T3 whose    *)
(* dep is the cheque dep group, o4 typed by Rx, whose code has no dep.     *)
(***************************************************************************)
EXTENDS CapacityTransfer, MC_CkbChain

MCOutputCells ==
    { C(1, "R", NoScript, 0, 0), C(1, "S", "T", 16, 1), C(2, "R", "T", 16, 0),
      C(1, "S", "T3", 16, 1), C(1, "R", "Rx", 0, 0) }

=============================================================================
