----------------------- MODULE EndpointCleanupProofs -----------------------
(***************************************************************************)
(* Proofs about EndpointLifecycle, continued: what Docker's calls leave    *)
(* behind, for any endpoints, any caller, any faults and any number of     *)
(* crashes: which veths, which DHCP clients, which managers and entries.   *)
(***************************************************************************)
EXTENDS EndpointLifecycleProofs

(* Links.                                                                   *)

\* A host veth exists from LinkAdd on, and DeleteEndpoint removes it first, if
\* nothing went wrong with it.
VethOf(e) ==
  /\ docker[e] # "absent"
  /\ Spared(e, {"link", "died", "gaveup"}) =>
       /\ docker[e] # "gone"
       /\ docker[e] = "creating" => call["create"][e] = "leasing"
       /\ call["delete"][e] \in {"idle", "unlink"}

VethPlace == \A e \in veth : VethOf(e)

(* Clients.                                                                 *)

\* A client is started by setupClient and not before.
ClientIsSetUp == \A m \in Manager :
  worker[m] \in {"none", "start", "setup"} => supervisor[m] = "none"

Clients == ClientIsSetUp /\ ClientIsReachable

(* Managers and entries.                                                    *)

\* The plugin has no manager of e in its map and no entry of it anywhere.
NoTrace(e) == persistentDHCP[e] = None /\ e \notin cached \cup disk

\* An endpoint Docker has not asked to join has left no trace, and no goroutine
\* is at work for it.
NewIsUntouched == \A e \in Endpoint :
  docker[e] \in {"absent", "creating", "created"} =>
    /\ NoTrace(e)
    /\ \A o \in Origin : worker[<<e, o>>] = "none"

\* What DeleteEndpoint took from the map is not put there again, but by a
\* goroutine that is late.
TakenIsNone == \A e \in Endpoint :
  call["delete"][e] \in {"stop", "uncache"} /\ Spared(e, {"late"})
    => persistentDHCP[e] = None

ForgetInv == NewIsUntouched /\ TakenIsNone /\ SparedIsForgotten

----------------------------------------------------------------------------
(* A call concerns one endpoint.                                            *)

\* A call of Docker for e, or what Docker does about e without one.
DockerFor(e) ==
  \/ DockerCreate(e) \/ DockerJoin(e) \/ DockerLeave(e) \/ DockerDelete(e)
  \/ SandboxRemoved(e)
  \/ \E h \in Handler : DockerRetry(h, e) \/ DockerGiveUp(h, e)

LEMMA DockerIsLocal ==
  ASSUME TypeOK, NEW e \in Endpoint, DockerFor(e), NEW f \in Endpoint, f # e
  PROVE  docker'[f] = docker[f] /\ \A h \in Handler : call'[h][f] = call[h][f]
<1>1. /\ docker \in [Endpoint -> DockerState]
      /\ call \in [Handler -> [Endpoint -> CallState]]
  BY DEF TypeOK
<1>2. ASSUME NEW h \in Handler, NEW from, Request(h, e, from)
      PROVE  docker'[f] = docker[f] /\ \A g \in Handler : call'[g][f] = call[g][f]
  BY <1>1, <1>2 DEF Request
<1>3. "create" \in Handler /\ "join" \in Handler /\ "leave" \in Handler
      /\ "delete" \in Handler
  BY DEF Handler
<1> QED
  BY <1>1, <1>2, <1>3 DEF DockerFor, DockerCreate, DockerJoin, DockerLeave,
     DockerDelete, SandboxRemoved, DockerRetry, DockerGiveUp

LEMMA HandlerIsLocal ==
  ASSUME TypeOK, NEW e \in Endpoint, HandlerStep(e), NEW f \in Endpoint, f # e
  PROVE  docker'[f] = docker[f] /\ \A h \in Handler : call'[h][f] = call[h][f]
<1>1. /\ docker \in [Endpoint -> DockerState]
      /\ call \in [Handler -> [Endpoint -> CallState]]
  BY DEF TypeOK
<1>2. ASSUME NEW h \in Handler, NEW v, docker'[f] = docker[f],
             call' = [call EXCEPT ![h][e] = v]
      PROVE  docker'[f] = docker[f] /\ \A g \in Handler : call'[g][f] = call[g][f]
  BY <1>1, <1>2
<1>3. "create" \in Handler /\ "join" \in Handler /\ Teardown \subseteq Handler
      /\ "delete" \in Handler
  BY DEF Handler, Teardown
<1>4. ASSUME NEW h, NEW next, Answer(h, e, next)
      PROVE  docker'[f] = docker[f] /\ call' = [call EXCEPT ![h][e] = "idle"]
  BY <1>1, <1>4 DEF Answer
<1>5. CASE CreateReject(e) \/ CreateLinkAddFails(e) \/ CreateSetupFails(e)
           \/ CreateDone(e) \/ JoinReject(e) \/ JoinReturn(e)
  BY <1>2, <1>3, <1>4, <1>5 DEF CreateReject, CreateLinkAddFails,
     CreateSetupFails, CreateDone, JoinReject, JoinReturn
<1>6. CASE CreateStoreHint(e) \/ CreateLinkAdd(e) \/ JoinTakeHint(e)
           \/ DeleteUnlink(e)
  BY <1>2, <1>3, <1>6 DEF CreateStoreHint, CreateLinkAdd, JoinTakeHint,
     DeleteUnlink, dockerVars
<1>7. ASSUME NEW h \in Teardown, TakeManager(h, e) \/ StopManager(h, e)
      PROVE  docker'[f] = docker[f] /\ \A g \in Handler : call'[g][f] = call[g][f]
  BY <1>2, <1>3, <1>7 DEF TakeManager, StopManager, dockerVars
<1>8. ASSUME NEW h \in Teardown, Uncache(h, e)
      PROVE  docker'[f] = docker[f] /\ \A g \in Handler : call'[g][f] = call[g][f]
  BY <1>2, <1>3, <1>4, <1>8 DEF Uncache
<1> QED BY <1>5, <1>6, <1>7, <1>8 DEF HandlerStep

----------------------------------------------------------------------------
(* No veth outlives its endpoint, unless the kernel, a crash or Docker fail. *)

\* What went wrong stays on record.
LEMMA MishapsStay ==
  ASSUME NEW e, NEW kinds, Spared(e, kinds)', mishaps \subseteq mishaps'
  PROVE  Spared(e, kinds)
  BY DEF Spared

\* Steps that leave Docker, the calls and the links alone.
LEMMA VethFrame ==
  ASSUME VethPlace, UNCHANGED <<docker, veth, call>>, mishaps \subseteq mishaps'
  PROVE  VethPlace'
  BY MishapsStay DEF VethPlace, VethOf

\* A step about one endpoint concerns its veth only.
LEMMA VethLocal ==
  ASSUME TypeOK, VethPlace, NEW e \in Endpoint, DockerFor(e) \/ HandlerStep(e),
         mishaps \subseteq mishaps', veth' \subseteq veth \cup {e},
         e \in veth' => VethOf(e)'
  PROVE  VethPlace'
<1>1. veth \subseteq Endpoint /\ "create" \in Handler /\ "delete" \in Handler
  BY DEF TypeOK, Handler
<1>2. ASSUME NEW f \in veth', f # e PROVE VethOf(f)'
  <2>1. f \in Endpoint /\ VethOf(f)
    BY <1>1, <1>2 DEF VethPlace
  <2>2. docker'[f] = docker[f] /\ \A h \in Handler : call'[h][f] = call[h][f]
    BY <1>2, <2>1, DockerIsLocal, HandlerIsLocal
  <2> QED BY <1>1, <2>1, <2>2, MishapsStay DEF VethOf
<1> QED BY <1>2 DEF VethPlace

LEMMA VethDocker ==
  ASSUME TypeOK, CallsAwaited, VethPlace, NEW e \in Endpoint, DockerFor(e)
  PROVE  VethPlace'
<1>1. /\ docker \in [Endpoint -> DockerState]
      /\ call \in [Handler -> [Endpoint -> CallState]]
  BY DEF TypeOK
<1>2. veth' = veth /\ mishaps \subseteq mishaps'
  BY DEF DockerFor, DockerCreate, DockerJoin, DockerLeave, DockerDelete,
     SandboxRemoved, DockerRetry, DockerGiveUp, Mishaps
<1>3. ASSUME e \in veth PROVE VethOf(e)'
  <2>1. VethOf(e)
    BY <1>3 DEF VethPlace
  <2> USE <1>1, <1>2, <2>1, MishapsStay DEF VethOf, Waiting, Entry, Failed, Handler,
          Request, CallsAwaited
  <2>2. CASE DockerCreate(e)   BY <2>2 DEF DockerCreate
  <2>3. CASE DockerJoin(e)     BY <2>3 DEF DockerJoin
  <2>4. CASE DockerLeave(e)    BY <2>4 DEF DockerLeave
  <2>5. CASE DockerDelete(e)   BY <2>5 DEF DockerDelete
  <2>6. CASE SandboxRemoved(e) BY <2>6 DEF SandboxRemoved
  <2>7. ASSUME NEW h \in Handler, DockerRetry(h, e) PROVE VethOf(e)'
    BY <2>7 DEF DockerRetry
  <2>8. ASSUME NEW h \in Handler, DockerGiveUp(h, e) PROVE VethOf(e)'
    <3>1. h = "delete" => ~Spared(e, {"link", "died", "gaveup"})'
      BY <2>8 DEF DockerGiveUp, Mishaps, Spared
    <3> QED BY <2>8, <3>1 DEF DockerGiveUp
  <2> HIDE DEF VethOf, Handler
  <2> QED BY <2>2, <2>3, <2>4, <2>5, <2>6, <2>7, <2>8 DEF DockerFor
<1> QED BY <1>2, <1>3, VethLocal

\* CreateEndpoint makes the veth and ends without it, or with an endpoint;
\* DeleteEndpoint begins by removing it.
LEMMA VethHandler ==
  ASSUME TypeOK, CallsAwaited, VethPlace, NEW e \in Endpoint, HandlerStep(e)
  PROVE  VethPlace'
<1>1. /\ docker \in [Endpoint -> DockerState]
      /\ call \in [Handler -> [Endpoint -> CallState]]
  BY DEF TypeOK
<1>2. ASSUME Unlink(e)
      PROVE  /\ veth' \subseteq veth /\ mishaps \subseteq mishaps'
             /\ e \in veth' => ~Spared(e, {"link", "died", "gaveup"})'
  BY <1>2 DEF Unlink, Mishaps, Spared
<1>3. ASSUME e \in veth PROVE VethOf(e)
  BY <1>3 DEF VethPlace
<1> USE <1>1, <1>3, VethLocal, MishapsStay
    DEF VethOf, Waiting, Failed, Handler, Answer, dockerVars, CallsAwaited
<1>4. CASE CreateReject(e)       BY <1>4 DEF CreateReject
<1>5. CASE CreateStoreHint(e)    BY <1>5 DEF CreateStoreHint
<1>6. CASE CreateLinkAdd(e)      BY <1>6 DEF CreateLinkAdd
<1>7. CASE CreateLinkAddFails(e) BY <1>7 DEF CreateLinkAddFails
<1>8. CASE CreateSetupFails(e)   BY <1>2, <1>8 DEF CreateSetupFails
<1>9. CASE CreateDone(e)         BY <1>9 DEF CreateDone
<1>10. CASE JoinReject(e)        BY <1>10 DEF JoinReject
<1>11. CASE JoinTakeHint(e)      BY <1>11 DEF JoinTakeHint
<1>12. CASE JoinReturn(e)        BY <1>12 DEF JoinReturn
<1>13. CASE DeleteUnlink(e)      BY <1>2, <1>13 DEF DeleteUnlink
<1>14. ASSUME NEW h \in Teardown, TakeManager(h, e) PROVE VethPlace'
  BY <1>14 DEF TakeManager, Teardown
<1>15. ASSUME NEW h \in Teardown, StopManager(h, e) PROVE VethPlace'
  BY <1>15 DEF StopManager, Teardown
<1>16. ASSUME NEW h \in Teardown, Uncache(h, e) PROVE VethPlace'
  BY <1>16 DEF Uncache, Teardown, Mishaps
<1> HIDE DEF VethOf, Teardown
<1> QED
  BY <1>4, <1>5, <1>6, <1>7, <1>8, <1>9, <1>10, <1>11, <1>12, <1>13, <1>14, <1>15,
     <1>16 DEF HandlerStep

LEMMA VethStep == OwnershipInv /\ VethPlace /\ [Next]_vars => VethPlace'
<1> SUFFICES ASSUME OwnershipInv, VethPlace, [Next]_vars PROVE VethPlace'
  OBVIOUS
<1>1. TypeOK /\ CallsAwaited
  BY DEF OwnershipInv
<1>2. CASE DockerStep
  BY <1>1, <1>2, VethDocker DEF DockerStep, DockerFor
<1>3. ASSUME NEW m \in Manager, WorkerStep(m) \/ SupervisorExit(m) PROVE VethPlace'
  BY <1>3, VethFrame DEF WorkerStep, WorkerStart, WorkerStartFails, WorkerSetup,
     WorkerRegister, WorkerPersist, SupervisorExit, LateIf, Mishaps, dockerVars
<1>4. CASE ReconcileList \/ ReconcileApply \/ RecoverStep \/ Restart
  BY <1>4, VethFrame DEF ReconcileList, ReconcileApply, RecoverStep, RecoverEnd,
     RecoverEndpoint, Restart, dockerVars
<1>5. CASE Crash
  <2>1. /\ UNCHANGED <<docker, veth>> /\ veth \subseteq Endpoint
        /\ \A e \in Endpoint : call'["delete"][e] = "idle"
        /\ mishaps \subseteq mishaps'
    BY <1>1, <1>5 DEF Crash, TypeOK, Handler, dockerVars
  <2>2. ASSUME NEW e \in Endpoint, docker[e] = "creating"
        PROVE  ~Spared(e, {"link", "died", "gaveup"})'
    BY <1>5, <2>2 DEF Crash, Spared
  <2> QED BY <2>1, <2>2, MishapsStay DEF VethPlace, VethOf
<1>6. CASE UNCHANGED vars
  BY <1>6, VethFrame DEF vars, dockerVars
<1> QED BY <1>1, <1>2, <1>3, <1>4, <1>5, <1>6, VethHandler DEF Next

LEMMA VethInit == Init => VethPlace
  BY DEF Init, VethPlace

\* The host veth of an endpoint is gone when Docker has the endpoint no more:
\* the error paths of CreateEndpoint and DeleteEndpoint remove it.  What can leave
\* it is a failed LinkByName or LinkDel, the death of the process during
\* CreateEndpoint, and a DeleteEndpoint that Docker gave up.
THEOREM VethsAreRemoved == Spec => []NoLeakedVeth
<1>1. VethPlace => NoLeakedVeth
  BY DEF VethPlace, VethOf, NoLeakedVeth
<1> QED BY <1>1, VethInit, VethStep, OwnershipInit, OwnershipStep, PTL DEF Spec

----------------------------------------------------------------------------
(* Every client can be stopped, but for one whose manager was replaced.     *)

\* Steps that leave the managers alone leave the clients alone.
LEMMA ClientsFrame ==
  ASSUME Clients, UNCHANGED <<held, persistentDHCP, worker, supervisor, stops>>
  PROVE  Clients'
  BY DEF Clients, ClientIsSetUp, ClientIsReachable, Reached

\* A handler takes a client's manager from the map and stops it; the goroutine
\* of Join is new when it starts.
LEMMA HandlerClients ==
  ASSUME OwnershipInv, Clients, NEW e \in Endpoint, HandlerStep(e)
  PROVE  Clients'
<1> USE DEF managerVars
<1>1. TypeOK /\ HeldOnlyAtStop /\ JoinOnce /\ CallsAwaited
  BY DEF OwnershipInv
<1>2. CASE CreateReject(e) \/ CreateStoreHint(e) \/ CreateLinkAdd(e)
           \/ CreateLinkAddFails(e) \/ CreateSetupFails(e) \/ CreateDone(e)
  BY <1>2, ClientsFrame DEF CreateReject, CreateStoreHint, CreateLinkAdd,
     CreateLinkAddFails, CreateSetupFails, CreateDone
<1>3. CASE JoinReject(e) \/ JoinReturn(e) \/ DeleteUnlink(e)
  BY <1>3, ClientsFrame DEF JoinReject, JoinReturn, DeleteUnlink
<1>4. CASE JoinTakeHint(e)
  <2>1. worker[<<e, "join">>] = "none"
    BY <1>1, <1>4 DEF JoinTakeHint, JoinOnce, CallsAwaited
  <2>2. <<e, "join">> \in Manager /\ DOMAIN worker = Manager
    BY <1>1 DEF TypeOK, WorkerTypeOK, Manager, Origin
  <2>3. supervisor[<<e, "join">>] = "none"
    BY <2>1, <2>2 DEF Clients, ClientIsSetUp
  <2> QED
    BY <1>4, <2>1, <2>2, <2>3 DEF JoinTakeHint, Clients, ClientIsSetUp,
       ClientIsReachable, Reached
<1>5. ASSUME NEW h \in Teardown, TakeManager(h, e) PROVE Clients'
  <2> USE <1>1, <1>5 DEF TakeManager, TypeOK
  <2>1. held[h][e] = None
    BY DEF HeldOnlyAtStop
  <2>2. ASSUME NEW m \in Manager, NEW p \in Place, Reached(m, p)
        PROVE  \E q \in Place : Reached(m, q)'
    <3>1. CASE p = "map" /\ m[1] = e
      <4>1. Reached(m, h)'
        BY <2>2, <3>1 DEF Reached, Teardown
      <4> QED BY <4>1 DEF Place
    <3>2. CASE ~(p = "map" /\ m[1] = e)
      <4>1. Reached(m, p)'
        BY <2>1, <2>2, <3>2, ManagerPair DEF Reached, Place, Teardown, None, Origin
      <4> QED BY <4>1
    <3> QED BY <3>1, <3>2
  <2> HIDE DEF TypeOK
  <2> QED BY <2>2 DEF Clients, ClientIsSetUp, ClientIsReachable
<1>6. ASSUME NEW h \in Teardown, StopManager(h, e) PROVE Clients'
  <2> USE <1>1, <1>6 DEF StopManager, TypeOK
  <2>1. ASSUME NEW m \in Manager, NEW p \in Place, Reached(m, p), stops'[m] = 0
        PROVE  Reached(m, p)'
    BY <2>1, ManagerPair DEF Reached, Place, Teardown
  <2>2. \A m \in Manager : stops'[m] = 0 => stops[m] = 0
    OBVIOUS
  <2> HIDE DEF TypeOK
  <2> QED BY <2>1, <2>2 DEF Clients, ClientIsSetUp, ClientIsReachable
<1>7. ASSUME NEW h \in Teardown, Uncache(h, e) PROVE Clients'
  BY <1>7, ClientsFrame DEF Uncache
<1> QED
  BY <1>2, <1>3, <1>4, <1>5, <1>6, <1>7 DEF HandlerStep

\* A worker that moves on without registering its manager, and starts a client
\* only when it is about to register.
LEMMA ClientsMove ==
  ASSUME TypeOK, Clients, NEW m \in Manager, NEW v,
         worker' = [worker EXCEPT ![m] = v],
         \/ worker[m] \in {"none", "start", "setup"} /\ v \in {"start", "setup", "failed"}
            /\ (v \in {"start", "setup"} => worker[m] # "setup") /\ UNCHANGED supervisor
         \/ worker[m] = "setup" /\ v = "register"
            /\ \E c \in {"none", "running"} : supervisor' = [supervisor EXCEPT ![m] = c]
         \/ worker[m] = "persist" /\ v = "done" /\ UNCHANGED supervisor,
         UNCHANGED <<held, persistentDHCP, stops>>
  PROVE  Clients'
<1>1. DOMAIN worker = Manager /\ supervisor \in [Manager -> {"none", "running", "ended"}]
  BY DEF TypeOK, WorkerTypeOK
<1>2. \A n \in Manager :
        /\ worker[n] \in {"persist", "done"} => worker'[n] \in {"persist", "done"}
        /\ worker[n] = "register" => worker'[n] = "register"
        /\ supervisor'[n] = "running" => supervisor[n] = "running" \/ worker'[n] = "register"
        /\ worker'[n] \in {"none", "start", "setup"} =>
             worker[n] \in {"none", "start", "setup"} /\ supervisor'[n] = supervisor[n]
  BY <1>1
<1>3. \A n \in Manager, p \in Place : Reached(n, p) => Reached(n, p)'
  BY DEF Reached
<1>4. \A n \in Manager, o \in Origin : <<n[1], o>> \in Manager
  BY ManagerPair DEF Manager
<1>5. ClientIsSetUp'
  BY <1>2 DEF Clients, ClientIsSetUp
<1>6. ClientIsReachable'
  BY <1>2, <1>3, <1>4 DEF Clients, ClientIsReachable
<1> QED BY <1>5, <1>6 DEF Clients

\* Registering a manager drops no other one from the map than that of the
\* endpoint's other worker, which has registered it before.
LEMMA WorkerClients ==
  ASSUME TypeOK, Clients, NEW m \in Manager, WorkerStep(m) \/ SupervisorExit(m)
  PROVE  Clients'
<1> USE ManagerPair
    DEF TypeOK, WorkerTypeOK, managerVars, cacheVars, Clients, ClientIsSetUp,
        ClientIsReachable
<1>1. CASE WorkerStart(m)      BY <1>1, ClientsMove DEF WorkerStart
<1>2. CASE WorkerStartFails(m) BY <1>2, ClientsMove DEF WorkerStartFails
<1>3. CASE WorkerSetup(m)
  <2>1. supervisor[m] = "none"
    BY <1>3 DEF WorkerSetup
  <2>2. \E c \in {"none", "running"} : supervisor' = [supervisor EXCEPT ![m] = c]
    BY <1>3, <2>1 DEF WorkerSetup
  <2> QED BY <1>3, <2>2, ClientsMove DEF WorkerSetup
<1>4. CASE WorkerRegister(m)
  <2>1. worker'[m] \in {"persist", "done"} /\ m = <<m[1], m[2]>>
    BY <1>4 DEF WorkerRegister
  <2>2. ASSUME NEW n \in Manager, n # m, n[1] = m[1]
        PROVE  m[2] \in Origin \ {n[2]} /\ worker'[<<n[1], m[2]>>] \in {"persist", "done"}
    BY <2>1, <2>2 DEF Manager
  <2>3. Reached(m, "map")'
    BY <1>4 DEF WorkerRegister, Reached
  <2>4. ASSUME NEW n \in Manager, n[1] # m[1], NEW p \in Place, Reached(n, p)
        PROVE  Reached(n, p)'
    BY <1>4, <2>4 DEF WorkerRegister, Reached, Place
  <2>5. \A n \in Manager, o \in Origin : n[1] # m[1] =>
          worker'[n] = worker[n] /\ worker'[<<n[1], o>>] = worker[<<n[1], o>>]
    <3>1. \A n \in Manager : n[1] # m[1] => worker'[n] = worker[n]
      BY <1>4 DEF WorkerRegister
    <3>2. \A n \in Manager, o \in Origin :
            <<n[1], o>> \in Manager /\ <<n[1], o>>[1] = n[1]
      BY DEF Manager
    <3> QED BY <3>1, <3>2
  <2>6. UNCHANGED <<supervisor, stops>>
    BY <1>4 DEF WorkerRegister
  <2>7. ClientIsSetUp'
    BY <1>4 DEF WorkerRegister
  <2>8. ClientIsReachable'
    <3>1. ASSUME NEW n \in Manager, supervisor'[n] = "running", stops'[n] = 0
          PROVE  \/ worker'[n] = "register"
                 \/ \E p \in Place : Reached(n, p)'
                 \/ \E o \in Origin \ {n[2]} : worker'[<<n[1], o>>] \in {"persist", "done"}
      <4>1. CASE n = m
        BY <2>3, <4>1 DEF Place
      <4>2. CASE n # m /\ n[1] = m[1]
        BY <2>2, <4>2
      <4>3. CASE n[1] # m[1]
        <5>1. \/ worker[n] = "register"
              \/ \E p \in Place : Reached(n, p)
              \/ \E o \in Origin \ {n[2]} : worker[<<n[1], o>>] \in {"persist", "done"}
          BY <2>6, <3>1
        <5> QED BY <2>4, <2>5, <4>3, <5>1
      <4> QED BY <4>1, <4>2, <4>3
    <3> QED BY <3>1
  <2> QED BY <2>7, <2>8
<1>5. CASE m[2] = "join" /\ WorkerPersist(m[1])
  <2>1. m = <<m[1], "join">>
    BY <1>5
  <2>2. worker[m] = "persist" /\ worker' = [worker EXCEPT ![m] = "done"]
    BY <1>5, <2>1 DEF WorkerPersist
  <2>3. UNCHANGED <<held, persistentDHCP, supervisor, stops>>
    BY <1>5 DEF WorkerPersist
  <2> QED BY <2>2, <2>3, ClientsMove
<1>6. CASE SupervisorExit(m)   BY <1>6 DEF SupervisorExit, Reached
<1> HIDE DEF TypeOK, Clients
<1> QED BY <1>1, <1>2, <1>3, <1>4, <1>5, <1>6 DEF WorkerStep

\* Recover's worker is new when it starts; a dead process runs no client.
LEMMA ProcessClients ==
  ASSUME TypeOK, RecoverOnce, Clients,
         ReconcileList \/ ReconcileApply \/ RecoverStep \/ Crash \/ Restart
  PROVE  Clients'
<1> USE DEF managerVars
<1>1. CASE ReconcileList \/ ReconcileApply \/ RecoverEnd \/ Restart
  BY <1>1, ClientsFrame DEF ReconcileList, ReconcileApply, RecoverEnd, Restart
<1>2. ASSUME NEW e \in Endpoint, RecoverEndpoint(e) PROVE Clients'
  <2>1. <<e, "recover">> \in Manager /\ worker[<<e, "recover">>] = "none"
    BY <1>2 DEF RecoverEndpoint, RecoverOnce, Manager, Origin
  <2> QED
    BY <1>2, <2>1, ClientsFrame, ClientsMove DEF RecoverEndpoint
<1>3. CASE Crash
  BY <1>3 DEF Crash, Clients, ClientIsSetUp, ClientIsReachable
<1> QED BY <1>1, <1>2, <1>3 DEF RecoverStep

LEMMA ClientStep == OwnershipInv /\ Clients /\ [Next]_vars => Clients'
<1> SUFFICES ASSUME OwnershipInv, Clients, [Next]_vars PROVE Clients'
  OBVIOUS
<1>1. TypeOK /\ RecoverOnce
  BY DEF OwnershipInv
<1>2. CASE DockerStep \/ UNCHANGED vars
  BY <1>2, ClientsFrame DEF DockerStep, DockerCreate, DockerJoin, DockerLeave,
     DockerDelete, SandboxRemoved, DockerRetry, DockerGiveUp, managerVars, vars
<1> QED
  BY <1>1, <1>2, HandlerClients, WorkerClients, ProcessClients DEF Next

LEMMA ClientInit == Init => Clients
  BY DEF Init, Clients, ClientIsSetUp, ClientIsReachable

\* Whatever Docker calls, fails and crashes, a client that runs can be stopped by
\* the Leave or DeleteEndpoint to come, unless Join's goroutine and Recover have
\* both registered a manager for its endpoint: then the first one is dropped from
\* the map unstopped.
THEOREM ClientsAreOwned == Spec => []ClientIsReachable
<1>1. Clients => ClientIsReachable
  BY DEF Clients
<1> QED BY <1>1, ClientInit, ClientStep, OwnershipInit, OwnershipStep, PTL DEF Spec

----------------------------------------------------------------------------
(* Nothing of a deleted endpoint is left, unless it comes back too late.    *)

\* What ForgetInv says of one endpoint.
Untraced(e) ==
  /\ docker[e] \in {"absent", "creating", "created"} =>
       NoTrace(e) /\ \A o \in Origin : worker[<<e, o>>] = "none"
  /\ call["delete"][e] \in {"stop", "uncache"} /\ Spared(e, {"late"})
       => persistentDHCP[e] = None
  /\ docker[e] = "gone" /\ Spared(e, {"late", "save", "gaveup"}) => NoTrace(e)

LEMMA ForgetIsUntraced == ForgetInv <=> \A e \in Endpoint : Untraced(e)
  BY DEF ForgetInv, NewIsUntouched, TakenIsNone, SparedIsForgotten, Untraced,
     NoTrace

\* A step that gives e no entry, no manager in the map and no goroutine.
LEMMA UntracedFrame ==
  ASSUME NEW e \in Endpoint, Untraced(e), mishaps \subseteq mishaps',
         docker'[e] = docker[e], call'["delete"][e] = call["delete"][e],
         persistentDHCP'[e] \in {persistentDHCP[e], None},
         e \in cached' \cup disk' => e \in cached \cup disk,
         \A o \in Origin : worker[<<e, o>>] = "none" => worker'[<<e, o>>] = "none"
  PROVE  Untraced(e)'
<1>1. \A kinds : Spared(e, kinds)' => Spared(e, kinds)
  BY DEF Spared
<1> QED BY <1>1 DEF Untraced, NoTrace

\* Docker's calls touch nothing of the plugin's; a failed CreateEndpoint left
\* nothing, and a DeleteEndpoint that was given up is on record.
LEMMA DockerForget ==
  ASSUME TypeOK, CallsAwaited, NEW e \in Endpoint, DockerFor(e),
         NEW f \in Endpoint, Untraced(f)
  PROVE  Untraced(f)'
<1>1. /\ docker \in [Endpoint -> DockerState]
      /\ call \in [Handler -> [Endpoint -> CallState]]
  BY DEF TypeOK
<1>2. /\ UNCHANGED <<persistentDHCP, worker, cached, disk>>
      /\ mishaps \subseteq mishaps'
  BY DEF DockerFor, DockerCreate, DockerJoin, DockerLeave, DockerDelete,
     SandboxRemoved, DockerRetry, DockerGiveUp, Mishaps, managerVars, cacheVars
<1>3. \A kinds : Spared(e, kinds)' => Spared(e, kinds)
  BY <1>2 DEF Spared
<1>4. CASE f # e
  BY <1>2, <1>4, DockerIsLocal, UntracedFrame DEF Handler
<1>5. CASE f = e
  <2> USE <1>1, <1>2, <1>3, <1>5
      DEF Untraced, NoTrace, Waiting, Entry, Failed, Handler, Request
  <2>1. CASE DockerCreate(e)   BY <2>1 DEF DockerCreate
  <2>2. CASE DockerJoin(e)     BY <2>2 DEF DockerJoin
  <2>3. CASE DockerLeave(e)    BY <2>3 DEF DockerLeave
  <2>4. CASE DockerDelete(e)   BY <2>4 DEF DockerDelete
  <2>5. CASE SandboxRemoved(e) BY <2>5 DEF SandboxRemoved
  <2>6. ASSUME NEW h \in Handler, DockerRetry(h, e) PROVE Untraced(f)'
    BY <2>6 DEF DockerRetry
  <2>7. ASSUME NEW h \in Handler, DockerGiveUp(h, e) PROVE Untraced(f)'
    <3>1. h = "delete" => ~Spared(e, {"late", "save", "gaveup"})'
      BY <2>7 DEF DockerGiveUp, Mishaps, Spared
    <3> QED BY <2>7, <3>1 DEF DockerGiveUp
  <2> HIDE DEF Untraced, Handler
  <2> QED BY <2>1, <2>2, <2>3, <2>4, <2>5, <2>6, <2>7 DEF DockerFor
<1> QED BY <1>4, <1>5

\* DeleteEndpoint removes the manager from the map, then the entry; the other
\* handlers add neither, and Join's goroutine comes after the endpoint was new.
LEMMA HandlerForget ==
  ASSUME TypeOK, CallsAwaited, NEW e \in Endpoint, HandlerStep(e),
         \A f \in Endpoint : Untraced(f)
  PROVE  \A f \in Endpoint : Untraced(f)'
<1>1. /\ docker \in [Endpoint -> DockerState]
      /\ call \in [Handler -> [Endpoint -> CallState]]
      /\ persistentDHCP \in [Endpoint -> Origin \cup {None}]
      /\ DOMAIN worker = Manager
  BY DEF TypeOK, WorkerTypeOK
<1>2. /\ (cached \cup disk)' \subseteq cached \cup disk
      /\ mishaps \subseteq mishaps'
  BY DEF HandlerStep, CreateReject, CreateStoreHint, CreateLinkAdd,
     CreateLinkAddFails, CreateSetupFails, CreateDone, JoinReject, JoinTakeHint,
     JoinReturn, DeleteUnlink, TakeManager, StopManager, Uncache, Save, Unlink,
     Mishaps, cacheVars
<1>3. \A f \in Endpoint : persistentDHCP'[f] \in {persistentDHCP[f], None}
  BY <1>1 DEF HandlerStep, CreateReject, CreateStoreHint, CreateLinkAdd,
     CreateLinkAddFails, CreateSetupFails, CreateDone, JoinReject, JoinTakeHint,
     JoinReturn, DeleteUnlink, TakeManager, StopManager, Uncache, managerVars
<1>4. \A f \in Endpoint, o \in Origin :
        f # e => worker'[<<f, o>>] = worker[<<f, o>>]
  BY <1>1 DEF HandlerStep, CreateReject, CreateStoreHint, CreateLinkAdd,
     CreateLinkAddFails, CreateSetupFails, CreateDone, JoinReject, JoinTakeHint,
     JoinReturn, DeleteUnlink, TakeManager, StopManager, Uncache, managerVars,
     Manager
<1>5. ASSUME NEW f \in Endpoint, f # e PROVE Untraced(f)'
  BY <1>2, <1>3, <1>4, <1>5, HandlerIsLocal, UntracedFrame DEF Handler
<1>6. \A kinds : Spared(e, kinds)' => Spared(e, kinds)
  BY <1>2 DEF Spared
<1>7. Untraced(e)'
  <2> USE <1>1, <1>2, <1>3, <1>6
      DEF Untraced, NoTrace, Waiting, Failed, Handler, Answer, CallsAwaited,
          dockerVars
  <2>1. CASE ~JoinTakeHint(e) /\ ~\E h \in Teardown :
               TakeManager(h, e) \/ StopManager(h, e) \/ Uncache(h, e)
    <3>1. worker' = worker
      BY <2>1 DEF HandlerStep, CreateReject, CreateStoreHint, CreateLinkAdd,
         CreateLinkAddFails, CreateSetupFails, CreateDone, JoinReject, JoinReturn,
         DeleteUnlink, managerVars
    <3>2. CASE CreateReject(e)       BY <3>1, <3>2 DEF CreateReject
    <3>3. CASE CreateStoreHint(e)    BY <3>1, <3>3 DEF CreateStoreHint
    <3>4. CASE CreateLinkAdd(e)      BY <3>1, <3>4 DEF CreateLinkAdd
    <3>5. CASE CreateLinkAddFails(e) BY <3>1, <3>5 DEF CreateLinkAddFails
    <3>6. CASE CreateSetupFails(e)   BY <3>1, <3>6 DEF CreateSetupFails
    <3>7. CASE CreateDone(e)         BY <3>1, <3>7 DEF CreateDone
    <3>8. CASE JoinReject(e)         BY <3>1, <3>8 DEF JoinReject
    <3>9. CASE JoinReturn(e)         BY <3>1, <3>9 DEF JoinReturn
    <3>10. CASE DeleteUnlink(e)      BY <3>1, <3>10 DEF DeleteUnlink
    <3> HIDE DEF Untraced
    <3> QED
      BY <2>1, <3>2, <3>3, <3>4, <3>5, <3>6, <3>7, <3>8, <3>9, <3>10
         DEF HandlerStep
  <2>2. CASE JoinTakeHint(e)
    BY <2>2 DEF JoinTakeHint
  <2>3. ASSUME NEW h \in Teardown, TakeManager(h, e) PROVE Untraced(e)'
    BY <2>3 DEF TakeManager, Teardown
  <2>4. ASSUME NEW h \in Teardown, StopManager(h, e) PROVE Untraced(e)'
    BY <2>4 DEF StopManager, Teardown
  <2>5. CASE Uncache("leave", e)
    BY <2>5 DEF Uncache, managerVars
  <2>6. CASE Uncache("delete", e)
    <3>1. e \notin cached' /\ (e \in disk' => ~Spared(e, {"late", "save", "gaveup"})')
      BY <2>6 DEF Uncache, Mishaps, Spared
    <3>2. Spared(e, {"late", "save", "gaveup"})' => Spared(e, {"late"})
      BY DEF Spared
    <3>3. docker[e] = "deleting" /\ docker'[e] = "gone" /\ call'["delete"][e] = "idle"
          /\ UNCHANGED persistentDHCP /\ call["delete"][e] = "uncache"
      BY <2>6 DEF Uncache, managerVars
    <3> QED BY <3>1, <3>2, <3>3
  <2> HIDE DEF Untraced, Handler
  <2> QED BY <2>1, <2>2, <2>3, <2>4, <2>5, <2>6 DEF Teardown
<1> QED BY <1>5, <1>7

\* Registering and caching an endpoint that is being deleted, or gone, is late;
\* the goroutine of a new one has not started.
LEMMA WorkerForget ==
  ASSUME TypeOK, CallsAwaited, NEW m \in Manager, WorkerStep(m) \/ SupervisorExit(m),
         \A f \in Endpoint : Untraced(f)
  PROVE  \A f \in Endpoint : Untraced(f)'
<1> USE ManagerPair
<1>1. DOMAIN worker = Manager /\ persistentDHCP \in [Endpoint -> Origin \cup {None}]
  BY DEF TypeOK, WorkerTypeOK
<1>2. /\ UNCHANGED <<docker, call>>
      /\ mishaps \subseteq mishaps'
      /\ (cached \cup disk)' \subseteq cached \cup disk \cup {m[1]}
      /\ \A f \in Endpoint : f # m[1] => persistentDHCP'[f] = persistentDHCP[f]
      /\ \A n \in Manager : worker[n] = "none" => worker'[n] = "none"
  BY <1>1 DEF WorkerStep, WorkerStart, WorkerStartFails, WorkerSetup, WorkerRegister,
     WorkerPersist, SupervisorExit, Save, LateIf, Mishaps, dockerVars, cacheVars
<1>3. \A f \in Endpoint, o \in Origin : <<f, o>> \in Manager
  BY DEF Manager
<1>4. ASSUME NEW f \in Endpoint, f # m[1] PROVE Untraced(f)'
  BY <1>2, <1>3, <1>4, UntracedFrame
<1>5. CASE WorkerRegister(m) \/ (m[2] = "join" /\ WorkerPersist(m[1]))
  <2>1. worker[m] # "none"
    BY <1>5 DEF WorkerRegister, WorkerPersist
  <2>2. docker[m[1]] \notin {"absent", "creating", "created"}
    BY <2>1 DEF Untraced
  <2>3. docker[m[1]] \in {"deleting", "gone"} => <<m[1], "late">> \in mishaps'
    BY <1>5 DEF WorkerRegister, WorkerPersist, LateIf, Mishaps
  <2>4. call["delete"][m[1]] # "idle" => docker[m[1]] = "deleting"
    BY DEF CallsAwaited
  <2>5. Untraced(m[1])'
    BY <1>2, <2>2, <2>3, <2>4 DEF Untraced, Spared
  <2> QED BY <1>4, <2>5
<1>6. CASE WorkerStart(m) \/ WorkerStartFails(m) \/ WorkerSetup(m)
           \/ SupervisorExit(m)
  <2>1. UNCHANGED <<persistentDHCP, cached, disk>>
    BY <1>6 DEF WorkerStart, WorkerStartFails, WorkerSetup, SupervisorExit,
       cacheVars
  <2> QED BY <1>2, <1>3, <2>1, UntracedFrame
<1> QED BY <1>5, <1>6 DEF WorkerStep

\* Reconcile and a restart add no entry that neither the memory nor the file had;
\* Recover starts a goroutine for a cached endpoint only.
LEMMA ProcessForget ==
  ASSUME TypeOK, ReconcileList \/ ReconcileApply \/ RecoverStep \/ Crash \/ Restart,
         \A f \in Endpoint : Untraced(f)
  PROVE  \A f \in Endpoint : Untraced(f)'
<1> USE DEF dockerVars, managerVars, cacheVars
<1>1. CASE ReconcileList \/ RecoverEnd
  BY <1>1, UntracedFrame DEF ReconcileList, RecoverEnd
<1>2. CASE ReconcileApply
  BY <1>2, UntracedFrame DEF ReconcileApply, Prune, Save
<1>3. CASE Restart
  BY <1>3, UntracedFrame DEF Restart, Prune, Save
<1>4. CASE Crash
  <2>1. /\ UNCHANGED <<docker, disk>> /\ cached' = {}
        /\ mishaps \subseteq mishaps'
        /\ \A e \in Endpoint : call'["delete"][e] = "idle" /\ persistentDHCP'[e] = None
        /\ \A m \in Manager : worker'[m] = "none"
    BY <1>4 DEF Crash, Handler
  <2>2. \A e \in Endpoint, o \in Origin : <<e, o>> \in Manager
    BY DEF Manager
  <2>3. \A e, kinds : Spared(e, kinds)' => Spared(e, kinds)
    BY <2>1 DEF Spared
  <2> QED BY <2>1, <2>2, <2>3 DEF Untraced, NoTrace
<1>5. ASSUME NEW e \in Endpoint, RecoverEndpoint(e)
      PROVE  \A f \in Endpoint : Untraced(f)'
  <2>1. /\ UNCHANGED <<docker, call, persistentDHCP, cached, disk, mishaps>>
        /\ e \in cached
    BY <1>5 DEF RecoverEndpoint
  <2>2. \A f \in Endpoint, o \in Origin :
          f # e => worker'[<<f, o>>] = worker[<<f, o>>]
    BY <1>5 DEF RecoverEndpoint, TypeOK, WorkerTypeOK, Manager
  <2>3. docker[e] \notin {"absent", "creating", "created"}
    BY <2>1 DEF Untraced, NoTrace
  <2>4. Untraced(e)'
    BY <2>1, <2>3 DEF Untraced, NoTrace, Spared
  <2>5. ASSUME NEW f \in Endpoint, f # e PROVE Untraced(f)'
    BY <2>1, <2>2, <2>5, UntracedFrame
  <2> QED BY <2>4, <2>5
<1> QED BY <1>1, <1>2, <1>3, <1>4, <1>5 DEF RecoverStep

LEMMA ForgetStep == OwnershipInv /\ ForgetInv /\ [Next]_vars => ForgetInv'
<1> SUFFICES ASSUME OwnershipInv, ForgetInv, [Next]_vars PROVE ForgetInv'
  OBVIOUS
<1>1. TypeOK /\ CallsAwaited /\ \A e \in Endpoint : Untraced(e)
  BY ForgetIsUntraced DEF OwnershipInv
<1>2. SUFFICES \A e \in Endpoint : Untraced(e)'
  BY DEF ForgetInv, NewIsUntouched, TakenIsNone, SparedIsForgotten, Untraced,
     NoTrace
<1>3. CASE UNCHANGED vars
  BY <1>1, <1>3, UntracedFrame DEF vars, dockerVars, managerVars, cacheVars
<1>4. CASE DockerStep
  BY <1>1, <1>4, DockerForget DEF DockerStep, DockerFor
<1> QED
  BY <1>1, <1>3, <1>4, HandlerForget, WorkerForget, ProcessForget DEF Next

LEMMA ForgetInit == Init => ForgetInv
  BY DEF Init, ForgetInv, NewIsUntouched, TakenIsNone, SparedIsForgotten, NoTrace,
     Handler, Manager, Origin

\* An endpoint Docker has deleted, or that never came to be, has no manager in the
\* map and no entry in the cache or on disk, whatever the order of Leave,
\* DeleteEndpoint, Reconcile, Recover, crashes and restarts, unless a goroutine
\* registered or cached it when DeleteEndpoint had been called, the file could not
\* be written, or Docker gave DeleteEndpoint up.
THEOREM DeletedLeavesNothing == Spec => []SparedIsForgotten
<1>1. ForgetInv => SparedIsForgotten
  BY DEF ForgetInv
<1> QED BY <1>1, ForgetInit, ForgetStep, OwnershipInit, OwnershipStep, PTL DEF Spec
=============================================================================
