--------------------------- MODULE MC_SigningOrder ---------------------------
\* SigningOrder on the transaction and wallets of MC_ScriptSigning.
EXTENDS SigningOrder, MC_ScriptSigning

=============================================================================
