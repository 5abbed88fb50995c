--------------------------- MODULE MCDhcpManager ---------------------------
(* Model-checking instances of DhcpManager.                                *)
EXTENDS DhcpManager

\* Two servers on the bridge: one with its address and its gateway, one that
\* leaves the gateway out.
Server1 == [ip |-> "a1", gw |-> "g1"]
Routerless == [ip |-> "a2", gw |-> Nobody]
TwoServers == {Server1, Routerless}
=============================================================================
