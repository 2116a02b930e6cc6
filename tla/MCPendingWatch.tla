--------------------------- MODULE MCPendingWatch ---------------------------
(* Four transactions, one of no interest, and channels with room for one.    *)
EXTENDS PendingWatch

CONSTANTS one
=============================================================================
