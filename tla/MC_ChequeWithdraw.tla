------------------------- MODULE MC_ChequeWithdraw -------------------------
\* ChequeWithdraw on the chain of MC_CkbChain.
EXTENDS ChequeWithdraw, MC_CkbChain

=============================================================================
