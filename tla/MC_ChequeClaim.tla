--------------------------- MODULE MC_ChequeClaim ---------------------------
\* ChequeClaim on the chain of MC_CkbChain.
EXTENDS ChequeClaim, MC_CkbChain

=============================================================================
