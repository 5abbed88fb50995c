--------------------------- MODULE MCNetworkCache ---------------------------
(* Model-checking instances of NetworkCache.                               *)
EXTENDS NetworkCache, TLC
CONSTANTS n1, n2, n3, e1, br0
OneHome == e1 :> n1
SameBridge == n1 :> br0 @@ n2 :> br0 @@ n3 :> br0
=============================================================================
