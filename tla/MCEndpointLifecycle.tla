------------------------ MODULE MCEndpointLifecycle ------------------------
(* Model-checking instances of EndpointLifecycle.                          *)
EXTENDS EndpointLifecycle
=============================================================================
