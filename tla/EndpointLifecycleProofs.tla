---------------------- MODULE EndpointLifecycleProofs ----------------------
(***************************************************************************)
(* Proofs about EndpointLifecycle, for any set of endpoints, any number of *)
(* crashes, any caller and any faults: types, and that a manager is owned  *)
(* by one party at a time and stopped at most once.                        *)
(***************************************************************************)
EXTENDS EndpointLifecycle, TLAPS

(* The inductive invariant.  SingleOwner is not inductive by itself: a      *)
(* manager could be registered again after it was stopped, if its worker    *)
(* ran twice.  The conjuncts say why it does not.                           *)

\* A handler holds a manager only between the map lookup and Stop.
HeldOnlyAtStop == \A h \in Teardown, e \in Endpoint :
  held[h][e] # None => call[h][e] = "stop"

\* Before its worker registered it, a manager is known to no one else.
UnregisteredIsPrivate == \A m \in Manager :
  worker[m] \in {"none", "start", "setup", "register"}
    => stops[m] = 0 /\ \A p \in Place : ~Reached(m, p)

\* Docker waits for the handlers that run, but for a Leave it has overtaken.
CallsAwaited == \A e \in Endpoint :
  /\ call["create"][e] # "idle" => docker[e] = "creating"
  /\ call["join"][e] # "idle"   => docker[e] = "joining"
  /\ call["leave"][e] # "idle"  => docker[e] \in {"leaving", "deleting", "gone"}
  /\ call["delete"][e] # "idle" => docker[e] = "deleting"

\* Join's goroutine is started once: only while Docker waits for that Join.
JoinOnce == \A e \in Endpoint :
     \/ docker[e] \in {"absent", "creating", "created"}
     \/ docker[e] = "joining" /\ call["join"][e] # "answer"
     => worker[<<e, "join">>] = "none"

\* Recover meets an endpoint once.
RecoverOnce == \A e \in Endpoint :
  worker[<<e, "recover">>] # "none" => e \in recovery.seen

\* Nothing runs in a dead process.
DeadIsIdle == ~up =>
  /\ ~recovery.on
  /\ \A h \in Handler, e \in Endpoint : call[h][e] = "idle"
  /\ \A m \in Manager : worker[m] = "none"

OwnershipInv ==
  /\ TypeOK
  /\ HeldOnlyAtStop
  /\ UnregisteredIsPrivate
  /\ CallsAwaited
  /\ JoinOnce
  /\ RecoverOnce
  /\ DeadIsIdle
  /\ SingleOwner
  /\ NoDoubleStop

----------------------------------------------------------------------------
(* Types.                                                                   *)

\* A manager is the pair of its endpoint and its origin.
LEMMA ManagerPair == \A m \in Manager : m[1] \in Endpoint /\ m[2] \in Origin
                                        /\ m = <<m[1], m[2]>>
  BY DEF Manager

\* Moving one worker to a step of its own keeps the type of worker.
LEMMA WorkerUpdate ==
  ASSUME WorkerTypeOK, NEW m \in Manager, NEW v \in WorkerState(m[2]),
         worker' = [worker EXCEPT ![m] = v]
  PROVE  WorkerTypeOK'
  BY DEF WorkerTypeOK

\* The environment's steps keep the types.
LEMMA DockerTypes ==
  ASSUME TypeOK, NEW e \in Endpoint,
         \/ DockerCreate(e) \/ DockerJoin(e) \/ DockerLeave(e)
         \/ DockerDelete(e) \/ SandboxRemoved(e)
         \/ \E h \in Handler : DockerRetry(h, e) \/ DockerGiveUp(h, e)
  PROVE  TypeOK'
<1> USE DEF TypeOK, DockerState, CallState, Waiting, Entry, Failed, WorkerTypeOK,
            Mishaps, Mishap, Handler, Request, managerVars, cacheVars, startVars, dockerVars
<1>2. CASE DockerCreate(e)   BY <1>2 DEF DockerCreate
<1>3. CASE DockerJoin(e)     BY <1>3 DEF DockerJoin
<1>4. CASE DockerLeave(e)    BY <1>4 DEF DockerLeave
<1>5. CASE DockerDelete(e)   BY <1>5 DEF DockerDelete
<1>6. CASE SandboxRemoved(e) BY <1>6 DEF SandboxRemoved
<1>7. ASSUME NEW h \in Handler, DockerRetry(h, e) PROVE TypeOK'
  BY <1>7 DEF DockerRetry
<1>8. ASSUME NEW h \in Handler, DockerGiveUp(h, e) PROVE TypeOK'
  BY <1>8 DEF DockerGiveUp
<1> HIDE DEF TypeOK, Handler
<1> QED BY <1>2, <1>3, <1>4, <1>5, <1>6, <1>7, <1>8

\* So do the handlers'.
LEMMA HandlerTypes ==
  ASSUME TypeOK, NEW e \in Endpoint, HandlerStep(e) PROVE TypeOK'
<1> USE DEF TypeOK, DockerState, CallState, Waiting, Failed,
            Handler, Teardown, Origin, Answer, Save, Unlink, Mishaps, Mishap,
            managerVars, cacheVars, startVars, dockerVars
<1>a. UNCHANGED worker => WorkerTypeOK'
  BY DEF WorkerTypeOK
<1>1. CASE CreateReject(e)       BY <1>1, <1>a DEF CreateReject
<1>2. CASE CreateStoreHint(e)    BY <1>2, <1>a DEF CreateStoreHint
<1>3. CASE CreateLinkAdd(e)      BY <1>3, <1>a DEF CreateLinkAdd
<1>4. CASE CreateLinkAddFails(e) BY <1>4, <1>a DEF CreateLinkAddFails
<1>5. CASE CreateSetupFails(e)   BY <1>5, <1>a DEF CreateSetupFails
<1>6. CASE CreateDone(e)         BY <1>6, <1>a DEF CreateDone
<1>7. CASE JoinReject(e)         BY <1>7, <1>a DEF JoinReject
<1>8. CASE JoinTakeHint(e)
  <2>1. WorkerTypeOK'
    BY <1>8, WorkerUpdate DEF JoinTakeHint, Manager, WorkerState
  <2> QED BY <1>8, <2>1 DEF JoinTakeHint
<1>9. CASE JoinReturn(e)         BY <1>9, <1>a DEF JoinReturn
<1>10. CASE DeleteUnlink(e)      BY <1>10, <1>a DEF DeleteUnlink
<1>11. ASSUME NEW h \in Teardown, TakeManager(h, e) PROVE TypeOK'
  BY <1>11, <1>a DEF TakeManager
<1>12. ASSUME NEW h \in Teardown, StopManager(h, e) PROVE TypeOK'
  BY <1>12, <1>a DEF StopManager
<1>13. ASSUME NEW h \in Teardown, Uncache(h, e) PROVE TypeOK'
  BY <1>13, <1>a DEF Uncache
<1> HIDE DEF TypeOK, Teardown
<1> QED
  BY <1>1, <1>2, <1>3, <1>4, <1>5, <1>6, <1>7, <1>8, <1>9, <1>10, <1>11, <1>12,
     <1>13 DEF HandlerStep

\* And the managers'.
LEMMA WorkerTypes ==
  ASSUME TypeOK, NEW m \in Manager, WorkerStep(m) \/ SupervisorExit(m)
  PROVE  TypeOK'
<1> USE ManagerPair DEF TypeOK, WorkerState, Save, LateIf, Mishaps, Mishap,
            managerVars, cacheVars, startVars, dockerVars
<1>1. CASE WorkerStart(m)      BY <1>1, WorkerUpdate DEF WorkerStart
<1>2. CASE WorkerStartFails(m) BY <1>2, WorkerUpdate DEF WorkerStartFails
<1>3. CASE WorkerSetup(m)      BY <1>3, WorkerUpdate DEF WorkerSetup
<1>4. CASE WorkerRegister(m)   BY <1>4, WorkerUpdate DEF WorkerRegister
<1>5. CASE m[2] = "join" /\ WorkerPersist(m[1])
  BY <1>5, WorkerUpdate DEF WorkerPersist
<1>6. CASE SupervisorExit(m)
  <2>1. WorkerTypeOK' BY <1>6 DEF SupervisorExit, WorkerTypeOK
  <2> QED BY <1>6, <2>1 DEF SupervisorExit
<1> HIDE DEF TypeOK
<1> QED BY <1>1, <1>2, <1>3, <1>4, <1>5, <1>6 DEF WorkerStep

\* And those of Reconcile, Recover and the process.
LEMMA ProcessTypes ==
  ASSUME TypeOK, ReconcileList \/ ReconcileApply \/ RecoverStep \/ Crash \/ Restart
  PROVE  TypeOK'
<1> USE ConstantsAssumption
    DEF TypeOK, CallState, Handler, Teardown, Origin, Manager, Save,
        Prune, NoListing, Attached, managerVars, cacheVars, startVars, dockerVars
<1>a. UNCHANGED worker => WorkerTypeOK'
  BY DEF WorkerTypeOK
<1>1. CASE ReconcileList  BY <1>1, <1>a DEF ReconcileList
<1>2. CASE ReconcileApply BY <1>2, <1>a DEF ReconcileApply
<1>3. ASSUME NEW e \in Endpoint, RecoverEndpoint(e) PROVE TypeOK'
  <2>1. WorkerTypeOK'
    <3>1. CASE e \in netns
      <4> DEFINE m == <<e, "recover">>
      <4>1. m \in Manager /\ "start" \in WorkerState(m[2])
        BY DEF WorkerState
      <4>2. worker' = [worker EXCEPT ![m] = "start"]
        BY <1>3, <3>1 DEF RecoverEndpoint
      <4> HIDE DEF m
      <4> QED BY <4>1, <4>2, WorkerUpdate
    <3>2. CASE e \notin netns BY <1>3, <3>2, <1>a DEF RecoverEndpoint
    <3> QED BY <3>1, <3>2
  <2> QED BY <1>3, <2>1 DEF RecoverEndpoint
<1>4. CASE RecoverEnd     BY <1>4, <1>a DEF RecoverEnd
<1>5. CASE Crash
  <2>1. WorkerTypeOK' BY <1>5 DEF Crash, WorkerTypeOK, WorkerState
  <2>2. crashes' \in 0 .. MaxCrashes BY <1>5 DEF Crash
  <2>3. /\ call' \in [Handler -> [Endpoint -> CallState]]
        /\ held' \in [Teardown -> [Endpoint -> Origin \cup {None}]]
    BY <1>5 DEF Crash
  <2>4. /\ persistentDHCP' \in [Endpoint -> Origin \cup {None}]
        /\ supervisor' \in [Manager -> {"none", "running", "ended"}]
        /\ stops' \in [Manager -> Nat]
    BY <1>5 DEF Crash
  <2>5. /\ listing' \in [open : BOOLEAN, active : SUBSET Endpoint]
        /\ recovery' \in [on : BOOLEAN, pending : SUBSET Endpoint,
                          seen : SUBSET Endpoint]
    BY <1>5 DEF Crash
  <2>6. /\ docker' \in [Endpoint -> DockerState] /\ netns' \subseteq Endpoint
        /\ veth' \subseteq Endpoint /\ joinHints' \subseteq Endpoint
        /\ cached' \subseteq Endpoint /\ disk' \subseteq Endpoint
        /\ up' \in BOOLEAN /\ mishaps' \subseteq Endpoint \X Mishap
    BY <1>5 DEF Crash, Mishap
  <2> QED BY <2>1, <2>2, <2>3, <2>4, <2>5, <2>6
<1>6. CASE Restart        BY <1>6, <1>a DEF Restart
<1> HIDE DEF TypeOK
<1> QED BY <1>1, <1>2, <1>3, <1>4, <1>5, <1>6 DEF RecoverStep

\* The type invariant holds for every value of the constants.
THEOREM TypeCorrect == Spec => []TypeOK
<1>1. Init => TypeOK
  BY ConstantsAssumption
     DEF Init, TypeOK, DockerState, CallState, WorkerTypeOK, WorkerState, Handler,
         Teardown, Origin, Manager, NoListing, None
<1>2. TypeOK /\ [Next]_vars => TypeOK'
  <2> SUFFICES ASSUME TypeOK, [Next]_vars PROVE TypeOK'
    OBVIOUS
  <2>1. CASE Next
    BY <2>1, DockerTypes, HandlerTypes, WorkerTypes, ProcessTypes
       DEF Next, DockerStep
  <2>2. CASE UNCHANGED vars
    BY <2>2 DEF vars, TypeOK, WorkerTypeOK, dockerVars, managerVars, cacheVars,
                startVars
  <2> QED BY <2>1, <2>2
<1> QED BY <1>1, <1>2, PTL DEF Spec

----------------------------------------------------------------------------
(* Ownership.                                                               *)

Ownership == HeldOnlyAtStop /\ UnregisteredIsPrivate /\ SingleOwner /\ NoDoubleStop
Progress  == CallsAwaited /\ JoinOnce /\ RecoverOnce /\ DeadIsIdle

\* A step that leaves the managers alone, and no handler out of its stop step,
\* leaves ownership alone.
LEMMA OwnershipFrame ==
  ASSUME Ownership, UNCHANGED <<held, persistentDHCP, worker, stops>>,
         \A h \in Teardown, e \in Endpoint :
           call[h][e] = "stop" => call'[h][e] = "stop"
  PROVE  Ownership'
  BY DEF Ownership, HeldOnlyAtStop, UnregisteredIsPrivate, SingleOwner,
         NoDoubleStop, Reached

\* Docker's calls and the sandbox do not touch managers.
LEMMA DockerOwnership ==
  ASSUME TypeOK, Ownership, Progress, NEW e \in Endpoint,
         \/ DockerCreate(e) \/ DockerJoin(e) \/ DockerLeave(e)
         \/ DockerDelete(e) \/ SandboxRemoved(e)
         \/ \E h \in Handler : DockerRetry(h, e) \/ DockerGiveUp(h, e)
  PROVE  Ownership' /\ Progress'
<1> USE DEF TypeOK, DockerState, CallState, Waiting, Entry, Failed, Handler, Teardown,
            Request, managerVars, cacheVars, startVars, dockerVars, Progress,
            CallsAwaited, JoinOnce, RecoverOnce, DeadIsIdle
<1>1. CASE DockerCreate(e)   BY <1>1, OwnershipFrame DEF DockerCreate
<1>2. CASE DockerJoin(e)     BY <1>2, OwnershipFrame DEF DockerJoin
<1>3. CASE DockerLeave(e)    BY <1>3, OwnershipFrame DEF DockerLeave
<1>4. CASE DockerDelete(e)   BY <1>4, OwnershipFrame DEF DockerDelete
<1>5. CASE SandboxRemoved(e) BY <1>5, OwnershipFrame DEF SandboxRemoved
<1>6. ASSUME NEW h \in Handler, DockerRetry(h, e) PROVE Ownership' /\ Progress'
  BY <1>6, OwnershipFrame DEF DockerRetry
<1>7. ASSUME NEW h \in Handler, DockerGiveUp(h, e) PROVE Ownership' /\ Progress'
  BY <1>7, OwnershipFrame DEF DockerGiveUp
<1> HIDE DEF TypeOK, Progress, Handler
<1> QED BY <1>1, <1>2, <1>3, <1>4, <1>5, <1>6, <1>7

\* CreateEndpoint and the answers to Join do not touch managers; Join's goroutine
\* is new; DeleteEndpoint starts with the veth.
LEMMA HandlerOwnership ==
  ASSUME TypeOK, Ownership, Progress, NEW e \in Endpoint,
         \/ CreateReject(e) \/ CreateStoreHint(e)
         \/ CreateLinkAdd(e) \/ CreateLinkAddFails(e)
         \/ CreateSetupFails(e) \/ CreateDone(e)
         \/ JoinReject(e) \/ JoinTakeHint(e) \/ JoinReturn(e)
         \/ DeleteUnlink(e)
  PROVE  Ownership' /\ Progress'
<1> USE DEF TypeOK, DockerState, CallState, Waiting, Failed, Handler, Teardown,
            Answer, managerVars, cacheVars, startVars, dockerVars, Progress,
            CallsAwaited, JoinOnce, RecoverOnce, DeadIsIdle
<1>1. CASE CreateReject(e)       BY <1>1, OwnershipFrame DEF CreateReject
<1>2. CASE CreateStoreHint(e)    BY <1>2, OwnershipFrame DEF CreateStoreHint
<1>3. CASE CreateLinkAdd(e)      BY <1>3, OwnershipFrame DEF CreateLinkAdd
<1>4. CASE CreateLinkAddFails(e) BY <1>4, OwnershipFrame DEF CreateLinkAddFails
<1>5. CASE CreateSetupFails(e)   BY <1>5, OwnershipFrame DEF CreateSetupFails
<1>6. CASE CreateDone(e)         BY <1>6, OwnershipFrame DEF CreateDone
<1>7. CASE JoinReject(e)         BY <1>7, OwnershipFrame DEF JoinReject
<1>8. CASE JoinTakeHint(e)
  <2>1. worker[<<e, "join">>] = "none"
    BY <1>8 DEF JoinTakeHint
  <2>2. Ownership'
    BY <1>8, <2>1 DEF JoinTakeHint, Ownership, HeldOnlyAtStop,
       UnregisteredIsPrivate, SingleOwner, NoDoubleStop, Reached, Manager,
       Origin, WorkerTypeOK
  <2>3. Progress'
    BY <1>8, <2>1 DEF JoinTakeHint, Manager, Origin, WorkerTypeOK
  <2> QED BY <2>2, <2>3
<1>9. CASE JoinReturn(e)         BY <1>9, OwnershipFrame DEF JoinReturn
<1>10. CASE DeleteUnlink(e)      BY <1>10, OwnershipFrame DEF DeleteUnlink
<1> HIDE DEF TypeOK, Progress
<1> QED BY <1>1, <1>2, <1>3, <1>4, <1>5, <1>6, <1>7, <1>8, <1>9, <1>10

\* Leave and DeleteEndpoint move a manager from the map to the handler, and
\* from the handler to the stopped ones.
LEMMA TeardownOwnership ==
  ASSUME TypeOK, Ownership, Progress, NEW e \in Endpoint, NEW h \in Teardown,
         TakeManager(h, e) \/ StopManager(h, e) \/ Uncache(h, e)
  PROVE  Ownership' /\ Progress'
<1> USE DEF TypeOK, DockerState, CallState, Waiting, Failed, Handler, Teardown,
            Answer, managerVars, cacheVars, startVars, dockerVars, Progress,
            CallsAwaited, JoinOnce, RecoverOnce, DeadIsIdle
<1>1. CASE TakeManager(h, e)
  <2> USE <1>1 DEF TakeManager, Ownership
  <2>1. held[h][e] = None
    BY DEF HeldOnlyAtStop
  <2>2. HeldOnlyAtStop' BY DEF HeldOnlyAtStop
  <2>3. ASSUME NEW m \in Manager, NEW p \in Place, Reached(m, p)'
        PROVE  \E q \in Place : Reached(m, q) /\ (q = p \/ (q = "map" /\ p = h))
    <3>1. CASE p = "map"
      BY <2>3, <3>1, ManagerPair DEF Reached, Place, None, Origin
    <3>2. CASE p = h /\ m[1] = e
      BY <2>3, <3>2 DEF Reached, Place
    <3>3. CASE p # "map" /\ ~(p = h /\ m[1] = e)
      BY <2>3, <3>3, ManagerPair DEF Reached, Place
    <3> QED BY <3>1, <3>2, <3>3
  <2>4. UnregisteredIsPrivate' BY <2>3 DEF UnregisteredIsPrivate
  <2>5. ASSUME NEW m \in Manager, Reached(m, "map")' PROVE m[1] # e
    BY <2>5, ManagerPair DEF Reached, None, Origin
  <2>6. ASSUME NEW m \in Manager, Reached(m, h)', m[1] = e
        PROVE  Reached(m, "map")
    BY <2>6 DEF Reached
  <2>7. SingleOwner'
    BY <2>3, <2>5, <2>6 DEF SingleOwner, Reached, Place
  <2>8. NoDoubleStop' BY DEF NoDoubleStop
  <2>9. Progress' OBVIOUS
  <2> QED BY <2>2, <2>4, <2>7, <2>8, <2>9
<1>2. CASE StopManager(h, e)
  <2> USE <1>2 DEF StopManager, Ownership
  <2>1. HeldOnlyAtStop' BY DEF HeldOnlyAtStop
  <2>2. ASSUME NEW m \in Manager, NEW p \in Place, Reached(m, p)'
        PROVE  Reached(m, p) /\ ~(p = h /\ m[1] = e)
    BY <2>2, ManagerPair DEF Reached, Place, None, Origin
  <2>3. ASSUME NEW m \in Manager, NEW p \in Place, Reached(m, p)'
        PROVE  stops'[m] = stops[m]
    <3>1. CASE m = <<e, held[h][e]>>
      <4>1. Reached(m, h) BY <3>1 DEF Reached
      <4>2. p = h BY <2>2, <2>3, <4>1 DEF SingleOwner, Place
      <4> QED BY <2>2, <2>3, <3>1, <4>2
    <3>2. CASE m # <<e, held[h][e]>> BY <3>2
    <3> QED BY <3>1, <3>2
  <2>4. ASSUME NEW m \in Manager
        PROVE  \/ stops'[m] = stops[m]
               \/ Reached(m, h) /\ stops'[m] = stops[m] + 1
    BY <2>4 DEF Reached
  <2>5. UnregisteredIsPrivate'
    BY <2>2, <2>4 DEF UnregisteredIsPrivate, Place
  <2>6. SingleOwner'
    BY <2>2, <2>3 DEF SingleOwner
  <2>7. NoDoubleStop'
    BY <2>4 DEF NoDoubleStop, SingleOwner, Place
  <2>8. Progress' OBVIOUS
  <2> QED BY <2>1, <2>5, <2>6, <2>7, <2>8
<1>3. CASE Uncache(h, e) BY <1>3, OwnershipFrame DEF Uncache
<1> HIDE DEF TypeOK, Progress
<1> QED BY <1>1, <1>2, <1>3

\* A worker that has not registered its manager keeps it private; registering
\* makes the map its only owner.
LEMMA WorkerOwnership ==
  ASSUME TypeOK, Ownership, Progress, NEW m \in Manager,
         WorkerStep(m) \/ SupervisorExit(m)
  PROVE  Ownership' /\ Progress'
<1> USE ManagerPair
    DEF TypeOK, WorkerTypeOK, managerVars, cacheVars, startVars, dockerVars
<1> DEFINE Early == {"none", "start", "setup", "register"}
<1>1. CASE SupervisorExit(m)
  BY <1>1, OwnershipFrame DEF SupervisorExit, Progress, CallsAwaited, JoinOnce,
     RecoverOnce, DeadIsIdle
<1>2. CASE WorkerRegister(m)
  <2> USE <1>2 DEF WorkerRegister, Ownership
  <2>1. stops[m] = 0 /\ \A p \in Place : ~Reached(m, p)
    BY DEF UnregisteredIsPrivate
  <2>2. HeldOnlyAtStop' BY DEF HeldOnlyAtStop
  <2>3. ASSUME NEW n \in Manager, NEW p \in Place, Reached(n, p)'
        PROVE  (n = m /\ p = "map") \/ (n # m /\ Reached(n, p))
    BY <2>3, <2>1 DEF Reached, Place
  <2>4. UnregisteredIsPrivate'
    BY <2>3 DEF UnregisteredIsPrivate
  <2>5. SingleOwner' BY <2>1, <2>3 DEF SingleOwner
  <2>6. NoDoubleStop' BY DEF NoDoubleStop
  <2>7. Progress'
    BY DEF Progress, CallsAwaited, JoinOnce, RecoverOnce, DeadIsIdle, Origin
  <2> QED BY <2>2, <2>4, <2>5, <2>6, <2>7
<1>3. ASSUME worker[m] \notin {"none", "register"},
             NEW v \in {"setup", "register", "failed", "done"},
             worker' = [worker EXCEPT ![m] = v],
             v \in {"failed", "done"} \/ worker[m] \in Early,
             UNCHANGED <<docker, call, held, persistentDHCP, stops, startVars>>
      PROVE  Ownership' /\ Progress'
  <2>1. Ownership'
    BY <1>3 DEF Ownership, HeldOnlyAtStop, UnregisteredIsPrivate, SingleOwner,
       NoDoubleStop, Reached
  <2>2. Progress'
    BY <1>3 DEF Progress, CallsAwaited, JoinOnce, RecoverOnce, DeadIsIdle
  <2> QED BY <2>1, <2>2
<1>4. CASE WorkerStart(m)      BY <1>3, <1>4 DEF WorkerStart
<1>5. CASE WorkerStartFails(m) BY <1>3, <1>5 DEF WorkerStartFails
<1>6. CASE WorkerSetup(m)      BY <1>3, <1>6 DEF WorkerSetup
<1>7. CASE m[2] = "join" /\ WorkerPersist(m[1]) BY <1>3, <1>7 DEF WorkerPersist
<1> HIDE DEF TypeOK
<1> QED BY <1>1, <1>2, <1>4, <1>5, <1>6, <1>7 DEF WorkerStep

\* Reconcile touches the cache only; Recover starts a worker that is new; the
\* death of the process clears everything.
LEMMA ProcessOwnership ==
  ASSUME TypeOK, Ownership, Progress,
         ReconcileList \/ ReconcileApply \/ RecoverStep \/ Crash \/ Restart
  PROVE  Ownership' /\ Progress'
<1> USE DEF TypeOK, managerVars, cacheVars, startVars, dockerVars, Progress,
            CallsAwaited, JoinOnce, RecoverOnce, DeadIsIdle
<1>1. CASE ReconcileList  BY <1>1, OwnershipFrame DEF ReconcileList
<1>2. CASE ReconcileApply BY <1>2, OwnershipFrame DEF ReconcileApply
<1>3. ASSUME NEW e \in Endpoint, RecoverEndpoint(e)
      PROVE  Ownership' /\ Progress'
  <2>1. worker[<<e, "recover">>] = "none"
    BY <1>3 DEF RecoverEndpoint
  <2>2. up BY <1>3 DEF RecoverEndpoint
  <2>3. Ownership'
    BY <1>3, <2>1 DEF RecoverEndpoint, Ownership, HeldOnlyAtStop,
       UnregisteredIsPrivate, SingleOwner, NoDoubleStop, Reached, WorkerTypeOK
  <2>4. Progress'
    BY <1>3, <2>1, <2>2 DEF RecoverEndpoint, Manager, Origin, WorkerTypeOK
  <2> QED BY <2>3, <2>4
<1>4. CASE RecoverEnd     BY <1>4, OwnershipFrame DEF RecoverEnd
<1>5. CASE Crash
  <2>1. Ownership'
    <3>1. ASSUME NEW m \in Manager, NEW p \in Place PROVE ~Reached(m, p)'
      <4>1. persistentDHCP'[m[1]] = None
        BY <1>5, ManagerPair DEF Crash
      <4>2. ASSUME NEW h \in Teardown PROVE held'[h][m[1]] = None
        BY <1>5, ManagerPair DEF Crash
      <4>3. m[2] # None
        BY ManagerPair DEF None, Origin
      <4> QED BY <4>1, <4>2, <4>3 DEF Reached, Place
    <3>2. \A h \in Teardown, e \in Endpoint : held'[h][e] = None
      BY <1>5 DEF Crash
    <3>3. \A m \in Manager : stops'[m] = 0
      BY <1>5 DEF Crash
    <3> QED BY <3>1, <3>2, <3>3 DEF Ownership, HeldOnlyAtStop, NoDoubleStop,
               UnregisteredIsPrivate, SingleOwner
  <2>2. Progress'
    BY <1>5 DEF Crash, Handler, Manager, Origin
  <2> QED BY <2>1, <2>2
<1>6. CASE Restart
  <2>1. \A e \in Endpoint : worker[<<e, "recover">>] = "none"
    BY <1>6 DEF Restart, Manager, Origin
  <2> QED BY <1>6, <2>1, OwnershipFrame DEF Restart
<1> HIDE DEF TypeOK, Progress
<1> QED BY <1>1, <1>2, <1>3, <1>4, <1>5, <1>6 DEF RecoverStep

----------------------------------------------------------------------------

\* The inductive invariant holds initially ...
LEMMA OwnershipInit == Init => OwnershipInv
<1> SUFFICES ASSUME Init PROVE OwnershipInv
  OBVIOUS
<1>1. TypeOK
  BY ConstantsAssumption
     DEF Init, TypeOK, DockerState, CallState, WorkerTypeOK, WorkerState, Handler,
         Teardown, Origin, Manager, NoListing, None
<1>2. \A m \in Manager, p \in Place : ~Reached(m, p)
  BY ManagerPair DEF Init, Reached, Place, None, Origin
<1> QED
  BY <1>1, <1>2 DEF OwnershipInv, Init, HeldOnlyAtStop, UnregisteredIsPrivate,
     CallsAwaited, JoinOnce, RecoverOnce, DeadIsIdle, SingleOwner, NoDoubleStop,
     Handler, Teardown, Manager, Origin

\* ... and every step keeps it.
LEMMA OwnershipStep == OwnershipInv /\ [Next]_vars => OwnershipInv'
<1> SUFFICES ASSUME OwnershipInv, [Next]_vars PROVE OwnershipInv'
  OBVIOUS
<1>1. TypeOK /\ Ownership /\ Progress
  BY DEF OwnershipInv, Ownership, Progress
<1>2. TypeOK' /\ Ownership' /\ Progress' => OwnershipInv'
  BY DEF OwnershipInv, Ownership, Progress
<1>3. CASE UNCHANGED vars
  <2>1. TypeOK'
    BY <1>1, <1>3 DEF vars, TypeOK, WorkerTypeOK, dockerVars, managerVars,
       cacheVars, startVars
  <2>2. Ownership'
    BY <1>1, <1>3, OwnershipFrame DEF vars, managerVars
  <2>3. Progress'
    BY <1>1, <1>3 DEF vars, dockerVars, managerVars, startVars, Progress,
       CallsAwaited, JoinOnce, RecoverOnce, DeadIsIdle
  <2> QED BY <1>2, <2>1, <2>2, <2>3
<1>4. CASE Next
  <2>1. TypeOK'
    BY <1>1, <1>4, DockerTypes, HandlerTypes, WorkerTypes, ProcessTypes
       DEF Next, DockerStep
  <2>2. CASE DockerStep
    <3>1. Ownership' /\ Progress'
      BY <1>1, <2>2, DockerOwnership DEF DockerStep
    <3> QED BY <1>2, <2>1, <3>1
  <2>3. ASSUME NEW e \in Endpoint, HandlerStep(e) PROVE OwnershipInv'
    BY <1>1, <1>2, <2>1, <2>3, HandlerOwnership, TeardownOwnership
       DEF HandlerStep
  <2>4. ASSUME NEW m \in Manager, WorkerStep(m) \/ SupervisorExit(m)
        PROVE  OwnershipInv'
    BY <1>1, <1>2, <2>1, <2>4, WorkerOwnership
  <2>5. CASE ReconcileList \/ ReconcileApply \/ RecoverStep \/ Crash \/ Restart
    BY <1>1, <1>2, <2>1, <2>5, ProcessOwnership
  <2> QED BY <1>4, <2>2, <2>3, <2>4, <2>5 DEF Next
<1> QED BY <1>3, <1>4

\* A manager belongs to the map or to one handler, never to both, and not at all
\* once it is stopped: Leave, DeleteEndpoint and the goroutines of Join and
\* resumeDHCP may interleave in any way, for any number of endpoints.
THEOREM OneOwner == Spec => []SingleOwner
<1>1. OwnershipInv => SingleOwner
  BY DEF OwnershipInv
<1> QED BY <1>1, OwnershipInit, OwnershipStep, PTL DEF Spec

\* dhcpManager.Stop never closes a closed channel.
THEOREM StoppedOnce == Spec => []NoDoubleStop
<1>1. OwnershipInv => NoDoubleStop
  BY DEF OwnershipInv
<1> QED BY <1>1, OwnershipInit, OwnershipStep, PTL DEF Spec
=============================================================================
