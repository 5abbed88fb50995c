--------------------------- MODULE MCUdhcpcClient ---------------------------
(* Model-checking instances of UdhcpcClient.                               *)
EXTENDS UdhcpcClient
=============================================================================
