-------------------------- MODULE SupervisedClient --------------------------
(***************************************************************************)
(* What a dhcpManager promises about one address family, and all that      *)
(* module EndpointLifecycle knows of it: a supervisor that was set up runs *)
(* until the manager is stopped or the container's namespace is gone, and  *)
(* then ends for good.                                                     *)
(***************************************************************************)
VARIABLES
  supervisor,  \* "none", "running" or "ended"
  stopped,     \* Stop closed the stop channel
  netns        \* the namespace exists

vars == <<supervisor, stopped, netns>>

Init == supervisor = "none" /\ stopped = FALSE /\ netns = TRUE

Setup == /\ supervisor = "none" /\ netns /\ supervisor' = "running"
         /\ UNCHANGED <<stopped, netns>>

Exit == /\ supervisor = "running" /\ (stopped \/ ~netns)
        /\ supervisor' = "ended"
        /\ UNCHANGED <<stopped, netns>>

Stop == stopped' = TRUE /\ UNCHANGED <<supervisor, netns>>

NetnsRemoved == netns' = FALSE /\ UNCHANGED <<supervisor, stopped>>

Next == Setup \/ Exit \/ Stop \/ NetnsRemoved

Spec == Init /\ [][Next]_vars
=============================================================================
