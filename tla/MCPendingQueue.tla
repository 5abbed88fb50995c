--------------------------- MODULE MCPendingQueue ---------------------------
(* Model-checking instance of PendingQueue.                                *)
EXTENDS PendingQueue
=============================================================================
