------------------------ MODULE MCContainerIdentity ------------------------
(* Model-checking instances of ContainerIdentity.                          *)
EXTENDS ContainerIdentity
=============================================================================
