------------------------- MODULE EndpointLifecycle -------------------------
(***************************************************************************)
(* The life of the endpoints of one network of the plugin: Docker's calls  *)
(* (pkg/plugin/network.go: CreateEndpoint, Join, Leave, DeleteEndpoint),   *)
(* the goroutine Join leaves behind, the managers that goroutine and       *)
(* Recover register in Plugin.persistentDHCP, the endpoint entries of the  *)
(* persistent cache and its periodic Reconcile, and plugin restarts.       *)
(*                                                                         *)
(* net/http runs every request in a goroutine of its own and the plugin    *)
(* has no lock per endpoint, so a handler is a sequence of steps cut where *)
(* it takes or releases a lock or touches the kernel.  The container's     *)
(* identity (queue, hostname, MAC) belongs to module ContainerIdentity.    *)
(***************************************************************************)
EXTENDS Naturals, FiniteSets

CONSTANTS
  Endpoint,     \* endpoint IDs; Docker draws a fresh one for each endpoint
  Faults,       \* which ignored errors may occur: a subset of FaultKind
  MaxCrashes,   \* bound on the number of times the plugin process dies
  Caller        \* how Docker spaces its calls: one of CallerKind

FaultKind == {"save",   \* networks.json cannot be written
              "list",   \* NetworkList fails at the start
              "link"}   \* LinkByName or LinkDel fails

\* "spaced":  a call is made when the background work of earlier ones is over,
\*            and is repeated until it is answered;
\* "ordered": a call is made when the previous one was answered or failed;
\* "forced":  also, DeleteEndpoint may be sent while Leave is still running.
CallerKind == {"spaced", "ordered", "forced"}

ASSUME ConstantsAssumption ==
  /\ Faults \subseteq FaultKind
  /\ MaxCrashes \in Nat
  /\ Caller \in CallerKind

None    == "none"
Origin  == {"join", "recover"}     \* the goroutine that starts a manager
Manager == Endpoint \X Origin      \* at most one of each in a plugin process
Handler == {"create", "join", "leave", "delete"}
Teardown == {"leave", "delete"}

VARIABLES
  docker,         \* external: Docker's record of each endpoint
  netns,          \* external: endpoints whose sandbox namespace exists
  veth,           \* kernel: endpoints whose host veth exists
  call,           \* where each handler of each endpoint is
  held,           \* the manager a Leave or DeleteEndpoint took from the map
  joinHints,      \* Plugin.joinHints: endpoints with a hint
  persistentDHCP, \* Plugin.persistentDHCP: endpoint -> origin of its manager
  worker,         \* the goroutine of Join / resumeDHCP that owns a manager
  supervisor,     \* the goroutine setupClient leaves running udhcpc
  stops,          \* how many times dhcpManager.Stop closed the stop channel
  cached,         \* NetworkCache.networks[n].Endpoints
  disk,           \* the same in networks.json
  listing,        \* what a running Reconcile read from Docker's NetworkList
  recovery,       \* Recover's loop over the cached endpoints
  up,             \* the plugin process runs
  crashes,        \* how often it died
  mishaps         \* history: what went wrong for each endpoint

dockerVars  == <<docker, netns>>
managerVars == <<persistentDHCP, worker, supervisor, stops>>
cacheVars   == <<cached, disk>>
startVars   == <<recovery, up, crashes>>
vars == <<dockerVars, veth, call, held, joinHints, managerVars, cacheVars,
          listing, startVars, mishaps>>

DockerState == {"absent", "creating", "created", "joining", "joined",
                "leaving", "left", "deleting", "gone"}
CallState == {"idle",
              "queued", "probing", "leasing",        \* CreateEndpoint
              "hint", "answer",                      \* Join
              "unlink", "take", "stop", "uncache"}   \* Leave, DeleteEndpoint
WorkerState(o) == {"none", "start", "setup", "register", "failed", "done"} \cup
  (IF o = "join" THEN {"persist"} ELSE {})

Mishap == {"died",     \* the process died during its CreateEndpoint
           "link",     \* its host veth could not be removed
           "save",     \* its entry could not be removed from the file
           "gaveup",   \* Docker gave its DeleteEndpoint up
           "late"}     \* a goroutine registered or cached it after that call
Mishaps(e, kinds) == mishaps \cup ({e} \X kinds)

NoListing == [open |-> FALSE, active |-> {}]

WorkerTypeOK ==
  /\ DOMAIN worker = Manager
  /\ \A m \in Manager : worker[m] \in WorkerState(m[2])

TypeOK ==
  /\ WorkerTypeOK
  /\ docker \in [Endpoint -> DockerState]
  /\ netns \subseteq Endpoint
  /\ veth \subseteq Endpoint
  /\ call \in [Handler -> [Endpoint -> CallState]]
  /\ held \in [Teardown -> [Endpoint -> Origin \cup {None}]]
  /\ joinHints \subseteq Endpoint
  /\ persistentDHCP \in [Endpoint -> Origin \cup {None}]
  /\ supervisor \in [Manager -> {"none", "running", "ended"}]
  /\ stops \in [Manager -> Nat]
  /\ cached \subseteq Endpoint
  /\ disk \subseteq Endpoint
  /\ listing \in [open : BOOLEAN, active : SUBSET Endpoint]
  /\ recovery \in [on : BOOLEAN, pending : SUBSET Endpoint,
                   seen : SUBSET Endpoint]
  /\ up \in BOOLEAN
  /\ crashes \in 0 .. MaxCrashes
  /\ mishaps \subseteq Endpoint \X Mishap

Init ==
  /\ docker = [e \in Endpoint |-> "absent"]
  /\ netns = {} /\ veth = {} /\ joinHints = {}
  /\ call = [h \in Handler |-> [e \in Endpoint |-> "idle"]]
  /\ held = [h \in Teardown |-> [e \in Endpoint |-> None]]
  /\ persistentDHCP = [e \in Endpoint |-> None]
  /\ worker = [m \in Manager |-> "none"]
  /\ supervisor = [m \in Manager |-> "none"]
  /\ stops = [m \in Manager |-> 0]
  /\ cached = {} /\ disk = {}
  /\ listing = NoListing
  /\ recovery = [on |-> TRUE, pending |-> {}, seen |-> {}]
  /\ up = TRUE /\ crashes = 0 /\ mishaps = {}

----------------------------------------------------------------------------
(* Docker (external): the calls it makes, in the order libnetwork makes     *)
(* them for one endpoint.                                                   *)

\* Docker's state while a call of handler h is outstanding, the step the
\* handler begins with, and where Docker goes if the call ends in an error.
Waiting(h) == IF h = "create" THEN "creating" ELSE IF h = "join" THEN "joining"
              ELSE IF h = "leave" THEN "leaving" ELSE "deleting"
Entry(h)   == IF h = "create" THEN "queued" ELSE IF h = "join" THEN "hint"
              ELSE IF h = "leave" THEN "take" ELSE "unlink"
Failed(h)  == IF h \in {"create", "delete"} THEN "gone" ELSE "left"

\* Nothing the plugin started earlier for e is still running.
Quiet(e) == /\ ~recovery.on
            /\ \A o \in Origin : worker[<<e, o>>] \in {"none", "failed", "done"}

Request(h, e, from) ==
  /\ up
  /\ docker[e] \in from
  /\ Caller = "spaced" => Quiet(e)
  /\ docker' = [docker EXCEPT ![e] = Waiting(h)]
  /\ call' = [call EXCEPT ![h][e] = Entry(h)]

DockerCreate(e) ==
  /\ Request("create", e, {"absent"})
  /\ UNCHANGED <<netns, veth, held, joinHints, managerVars, cacheVars, listing,
                 startVars, mishaps>>

\* The sandbox's namespace exists before Docker asks the driver to join it.
DockerJoin(e) ==
  /\ Request("join", e, {"created"})
  /\ netns' = netns \cup {e}
  /\ UNCHANGED <<veth, held, joinHints, managerVars, cacheVars, listing,
                 startVars, mishaps>>

DockerLeave(e) ==
  /\ Request("leave", e, {"joined"})
  /\ UNCHANGED <<netns, veth, held, joinHints, managerVars, cacheVars, listing,
                 startVars, mishaps>>

DockerDelete(e) ==
  /\ Request("delete", e, {"created", "left"} \cup
                          (IF Caller = "forced" THEN {"leaving"} ELSE {}))
  /\ UNCHANGED <<netns, veth, held, joinHints, managerVars, cacheVars, listing,
                 startVars, mishaps>>

\* A call cut off by the death of the plugin is sent again to the new process.
DockerRetry(h, e) ==
  /\ call[h][e] = "idle"
  /\ Request(h, e, {Waiting(h)})
  /\ UNCHANGED <<netns, veth, held, joinHints, managerVars, cacheVars, listing,
                 startVars, mishaps>>

\* ... or given up: Docker only logs a failed Leave or DeleteEndpoint.
DockerGiveUp(h, e) ==
  /\ Caller # "spaced"
  /\ docker[e] = Waiting(h) /\ call[h][e] = "idle"
  /\ docker' = [docker EXCEPT ![e] = Failed(h)]
  /\ mishaps' = IF h = "delete" THEN Mishaps(e, {"gaveup"}) ELSE mishaps
  /\ UNCHANGED <<netns, veth, call, held, joinHints, managerVars, cacheVars,
                 listing, startVars>>

\* Docker removes the sandbox's namespace once the container has left it.
SandboxRemoved(e) ==
  /\ e \in netns /\ docker[e] \in {"left", "deleting", "gone"}
  /\ netns' = netns \ {e}
  /\ UNCHANGED <<docker, veth, call, held, joinHints, managerVars, cacheVars,
                 listing, startVars, mishaps>>

\* The answer to handler h reaches Docker, if it still waits for it.
Answer(h, e, next) ==
  /\ call' = [call EXCEPT ![h][e] = "idle"]
  /\ docker' = IF docker[e] = Waiting(h) THEN [docker EXCEPT ![e] = next]
                                         ELSE docker

\* The endpoints NetworkList and NetworkInspect show as attached: Docker
\* commits the association after Join returned.
Attached == {e \in Endpoint : docker[e] \in {"joined", "leaving"}}

----------------------------------------------------------------------------
(* CreateEndpoint: serialised by createMu.                                  *)

CreateMuFree == \A e \in Endpoint : call["create"][e] \in {"idle", "queued"}

\* netOptions or the bridge lookup fails before a hint is stored.
CreateReject(e) ==
  /\ call["create"][e] = "queued" /\ CreateMuFree
  /\ Answer("create", e, Failed("create"))
  /\ UNCHANGED <<netns, veth, held, joinHints, managerVars, cacheVars, listing,
                 startVars, mishaps>>

\* The container is identified (module PendingQueue) and the hint stored.
CreateStoreHint(e) ==
  /\ call["create"][e] = "queued" /\ CreateMuFree
  /\ joinHints' = joinHints \cup {e}
  /\ call' = [call EXCEPT !["create"][e] = "probing"]
  /\ UNCHANGED <<dockerVars, veth, held, managerVars, cacheVars, listing,
                 startVars, mishaps>>

CreateLinkAdd(e) ==
  /\ call["create"][e] = "probing" /\ e \notin veth
  /\ veth' = veth \cup {e}
  /\ call' = [call EXCEPT !["create"][e] = "leasing"]
  /\ UNCHANGED <<dockerVars, held, joinHints, managerVars, cacheVars, listing,
                 startVars, mishaps>>

\* The veth cannot be added (on a retried call it may be there already) ...
CreateLinkAddFails(e) ==
  /\ call["create"][e] = "probing"
  /\ Answer("create", e, Failed("create"))
  /\ UNCHANGED <<netns, veth, held, joinHints, managerVars, cacheVars, listing,
                 startVars, mishaps>>

\* Mutant: the error path of setup returns without LinkDel.
CreateSetupFailsKeepsLink(e) ==
  /\ call["create"][e] = "leasing"
  /\ Answer("create", e, Failed("create"))
  /\ UNCHANGED <<netns, veth, held, joinHints, managerVars, cacheVars, listing,
                 startVars, mishaps>>

\* LinkDel, whose error is ignored.
Unlink(e) == \/ veth' = veth \ {e} /\ mishaps' = mishaps
             \/ /\ "link" \in Faults /\ e \in veth
                /\ veth' = veth /\ mishaps' = Mishaps(e, {"link"})

\* ... or setup finds no lease: the link is removed, the hint is not.
CreateSetupFails(e) ==
  /\ call["create"][e] = "leasing"
  /\ Unlink(e)
  /\ Answer("create", e, Failed("create"))
  /\ UNCHANGED <<netns, held, joinHints, managerVars, cacheVars, listing,
                 startVars>>

\* The lease is written back into the hint.
CreateDone(e) ==
  /\ call["create"][e] = "leasing"
  /\ joinHints' = joinHints \cup {e}
  /\ Answer("create", e, "created")
  /\ UNCHANGED <<netns, veth, held, managerVars, cacheVars, listing, startVars,
                 mishaps>>

----------------------------------------------------------------------------
(* Join, and the goroutines that own a manager.                             *)

\* netOptions fails, or there is no hint (ErrNoHint: the process that stored
\* it is gone).
JoinReject(e) ==
  /\ call["join"][e] = "hint"
  /\ Answer("join", e, Failed("join"))
  /\ UNCHANGED <<netns, veth, held, joinHints, managerVars, cacheVars, listing,
                 startVars, mishaps>>

JoinTakeHint(e) ==
  /\ call["join"][e] = "hint" /\ e \in joinHints
  /\ joinHints' = joinHints \ {e}
  /\ worker' = [worker EXCEPT ![<<e, "join">>] = "start"]
  /\ call' = [call EXCEPT !["join"][e] = "answer"]
  /\ UNCHANGED <<dockerVars, veth, held, persistentDHCP, supervisor, stops,
                 cacheVars, listing, startVars, mishaps>>

\* Join returns and Docker commits the endpoint.
JoinReturn(e) ==
  /\ call["join"][e] = "answer"
  /\ Answer("join", e, "joined")
  /\ UNCHANGED <<netns, veth, held, joinHints, managerVars, cacheVars, listing,
                 startVars, mishaps>>

\* dhcpManager.Start: the namespace, the host veth and its peer are found ...
WorkerStart(m) ==
  /\ worker[m] = "start" /\ m[1] \in netns /\ m[1] \in veth
  /\ worker' = [worker EXCEPT ![m] = "setup"]
  /\ UNCHANGED <<dockerVars, veth, call, held, joinHints, persistentDHCP,
                 supervisor, stops, cacheVars, listing, startVars, mishaps>>

\* ... or an error or the timeout ends the goroutine.
WorkerStartFails(m) ==
  /\ worker[m] = "start"
  /\ worker' = [worker EXCEPT ![m] = "failed"]
  /\ UNCHANGED <<dockerVars, veth, call, held, joinHints, persistentDHCP,
                 supervisor, stops, cacheVars, listing, startVars, mishaps>>

\* setupClient starts udhcpc under a supervisor, or fails, which is ignored.
WorkerSetup(m) ==
  /\ worker[m] = "setup"
  /\ worker' = [worker EXCEPT ![m] = "register"]
  /\ \/ m[1] \in netns /\ supervisor' = [supervisor EXCEPT ![m] = "running"]
     \/ UNCHANGED supervisor
  /\ UNCHANGED <<dockerVars, veth, call, held, joinHints, persistentDHCP, stops,
                 cacheVars, listing, startVars, mishaps>>

\* Mutant: resumeDHCP also goes on to persist the entry, as Join does.
WorkerRegisterThenPersist(m) ==
  /\ worker[m] = "register"
  /\ persistentDHCP' = [persistentDHCP EXCEPT ![m[1]] = m[2]]
  /\ worker' = [worker EXCEPT ![m] = "persist"]
  /\ UNCHANGED <<dockerVars, veth, call, held, joinHints, supervisor, stops,
                 cacheVars, listing, startVars, mishaps>>

\* Docker asked to delete the endpoint before the goroutine was done with it.
LateIf(e) == mishaps' = IF docker[e] \in {"deleting", "gone"}
                        THEN Mishaps(e, {"late"}) ELSE mishaps

\* p.persistentDHCP[r.EndpointID] = m, whatever became of the endpoint since.
WorkerRegister(m) ==
  /\ worker[m] = "register"
  /\ persistentDHCP' = [persistentDHCP EXCEPT ![m[1]] = m[2]]
  /\ worker' = [worker EXCEPT ![m] = IF m[2] = "join" THEN "persist" ELSE "done"]
  /\ LateIf(m[1])
  /\ UNCHANGED <<dockerVars, veth, call, held, joinHints, supervisor, stops,
                 cacheVars, listing, startVars>>

\* Every write of the cache is followed by save, whose error is ignored.
Save == \/ disk' = cached'
        \/ "save" \in Faults /\ disk' = disk

WorkerPersist(e) ==
  /\ worker[<<e, "join">>] = "persist"
  /\ cached' = cached \cup {e} /\ Save
  /\ LateIf(e)
  /\ worker' = [worker EXCEPT ![<<e, "join">>] = "done"]
  /\ UNCHANGED <<dockerVars, veth, call, held, joinHints, persistentDHCP,
                 supervisor, stops, listing, startVars>>

\* The supervisor ends when the manager was stopped or the namespace is gone.
SupervisorExit(m) ==
  /\ supervisor[m] = "running"
  /\ stops[m] > 0 \/ m[1] \notin netns
  /\ supervisor' = [supervisor EXCEPT ![m] = "ended"]
  /\ UNCHANGED <<dockerVars, veth, call, held, joinHints, persistentDHCP,
                 worker, stops, cacheVars, listing, startVars, mishaps>>

----------------------------------------------------------------------------
(* Leave and DeleteEndpoint.                                                *)

\* DeleteEndpoint removes the veth before anything else.
DeleteUnlink(e) ==
  /\ call["delete"][e] = "unlink"
  /\ Unlink(e)
  /\ call' = [call EXCEPT !["delete"][e] = "take"]
  /\ UNCHANGED <<dockerVars, held, joinHints, managerVars, cacheVars, listing,
                 startVars>>

\* Mutant: the manager is read from the map and the entry stays.
TakeManagerKeepsEntry(h, e) ==
  /\ call[h][e] = "take"
  /\ held' = [held EXCEPT ![h][e] = persistentDHCP[e]]
  /\ call' = [call EXCEPT ![h][e] = "stop"]
  /\ UNCHANGED <<dockerVars, veth, joinHints, managerVars, cacheVars, listing,
                 startVars, mishaps>>

\* Mutant: the handler waits until Join's goroutine has registered the manager.
TakeManagerAwaits(h, e) ==
  /\ call[h][e] = "take" /\ persistentDHCP[e] # None
  /\ held' = [held EXCEPT ![h][e] = persistentDHCP[e]]
  /\ persistentDHCP' = [persistentDHCP EXCEPT ![e] = None]
  /\ call' = [call EXCEPT ![h][e] = "stop"]
  /\ UNCHANGED <<dockerVars, veth, joinHints, worker, supervisor, stops,
                 cacheVars, listing, startVars, mishaps>>

\* Under the plugin's lock: look the manager up and delete the map entry.
TakeManager(h, e) ==
  /\ call[h][e] = "take"
  /\ held' = [held EXCEPT ![h][e] = persistentDHCP[e]]
  /\ persistentDHCP' = [persistentDHCP EXCEPT ![e] = None]
  /\ call' = [call EXCEPT ![h][e] = "stop"]
  /\ UNCHANGED <<dockerVars, veth, joinHints, worker, supervisor, stops,
                 cacheVars, listing, startVars, mishaps>>

\* Mutant: the handler forgets to stop the manager it took.
StopManagerForgotten(h, e) ==
  /\ call[h][e] = "stop"
  /\ held' = [held EXCEPT ![h][e] = None]
  /\ call' = [call EXCEPT ![h][e] = "uncache"]
  /\ UNCHANGED <<dockerVars, veth, joinHints, managerVars, cacheVars, listing,
                 startVars, mishaps>>

\* manager.Stop closes stopChan (a second close would panic), after the unlock.
StopManager(h, e) ==
  /\ call[h][e] = "stop"
  /\ stops' = [m \in Manager |->
                 IF m = <<e, held[h][e]>> THEN stops[m] + 1 ELSE stops[m]]
  /\ held' = [held EXCEPT ![h][e] = None]
  /\ call' = [call EXCEPT ![h][e] = "uncache"]
  /\ UNCHANGED <<dockerVars, veth, joinHints, persistentDHCP, worker,
                 supervisor, cacheVars, listing, startVars, mishaps>>

\* Mutant: the entry is deleted in memory only.
UncacheWithoutSave(h, e) ==
  /\ call[h][e] = "uncache"
  /\ cached' = cached \ {e} /\ disk' = disk
  /\ Answer(h, e, Failed(h))
  /\ UNCHANGED <<netns, veth, held, joinHints, managerVars, listing, startVars,
                 mishaps>>

\* cache.DeleteEndpoint, and the answer.
Uncache(h, e) ==
  /\ call[h][e] = "uncache"
  /\ cached' = cached \ {e} /\ Save
  /\ mishaps' = IF h = "delete" /\ e \in disk' THEN Mishaps(e, {"save"}) ELSE mishaps
  /\ Answer(h, e, Failed(h))
  /\ UNCHANGED <<netns, veth, held, joinHints, managerVars, listing, startVars>>

----------------------------------------------------------------------------
(* Reconcile, process death, restart and Recover.                           *)

\* ReconcileLoop ticks: Docker's answer is computed before the cache is locked.
ReconcileList ==
  /\ up /\ ~listing.open
  /\ listing' = [open |-> TRUE, active |-> Attached]
  /\ UNCHANGED <<dockerVars, veth, call, held, joinHints, managerVars,
                 cacheVars, startVars, mishaps>>

\* Mutant: only networks are reconciled, endpoint entries are never pruned.
PruneNothing(from, active) == cached' = from /\ disk' = disk

\* Drop the cached endpoints the answer does not show; save if any was.
Prune(from, active) ==
  /\ cached' = from \cap active
  /\ IF from \subseteq active THEN disk' = disk ELSE Save

ReconcileApply ==
  /\ up /\ listing.open
  /\ Prune(cached, listing.active)
  /\ listing' = NoListing
  /\ UNCHANGED <<dockerVars, veth, call, held, joinHints, managerVars,
                 startVars, mishaps>>

\* The process dies: everything but Docker, the kernel's links and the file goes.
Crash ==
  /\ up /\ crashes < MaxCrashes
  /\ up' = FALSE /\ crashes' = crashes + 1
  /\ joinHints' = {} /\ cached' = {}
  /\ call' = [h \in Handler |-> [e \in Endpoint |-> "idle"]]
  /\ held' = [h \in Teardown |-> [e \in Endpoint |-> None]]
  /\ persistentDHCP' = [e \in Endpoint |-> None]
  /\ worker' = [m \in Manager |-> "none"]
  /\ supervisor' = [m \in Manager |-> "none"]
  /\ stops' = [m \in Manager |-> 0]
  /\ listing' = NoListing
  /\ recovery' = [on |-> FALSE, pending |-> {}, seen |-> {}]
  /\ mishaps' = mishaps \cup ({e \in Endpoint : docker[e] = "creating"} \X {"died"})
  /\ UNCHANGED <<dockerVars, veth, disk>>

\* NewPlugin: load the file, reconcile once (a failed NetworkList is ignored),
\* start Recover in the background.
Restart ==
  /\ ~up /\ up' = TRUE
  /\ \/ Prune(disk, Attached)
     \/ "list" \in Faults /\ cached' = disk /\ disk' = disk
  /\ recovery' = [on |-> TRUE, pending |-> cached', seen |-> {}]
  /\ UNCHANGED <<dockerVars, veth, call, held, joinHints, managerVars, listing,
                 crashes, mishaps>>

\* Recover ranges over the live Endpoints map (GetAll does not copy it), so it
\* may also meet an entry added meanwhile; resumeDHCP skips a missing namespace.
RecoverEndpoint(e) ==
  /\ recovery.on /\ e \in cached \ recovery.seen
  /\ recovery' = [on |-> TRUE, pending |-> recovery.pending,
                   seen |-> recovery.seen \cup {e}]
  /\ worker' = IF e \in netns THEN [worker EXCEPT ![<<e, "recover">>] = "start"]
                              ELSE worker
  /\ UNCHANGED <<dockerVars, veth, call, held, joinHints, persistentDHCP,
                 supervisor, stops, cacheVars, listing, up, crashes, mishaps>>

RecoverEnd ==
  /\ recovery.on /\ recovery.pending \cap cached \subseteq recovery.seen
  /\ recovery' = [on |-> FALSE, pending |-> {}, seen |-> recovery.seen]
  /\ UNCHANGED <<dockerVars, veth, call, held, joinHints, managerVars,
                 cacheVars, listing, up, crashes, mishaps>>

----------------------------------------------------------------------------

DockerStep == \E e \in Endpoint :
  \/ DockerCreate(e) \/ DockerJoin(e) \/ DockerLeave(e) \/ DockerDelete(e)
  \/ SandboxRemoved(e)
  \/ \E h \in Handler : DockerRetry(h, e) \/ DockerGiveUp(h, e)

HandlerStep(e) ==
  \/ CreateReject(e) \/ CreateStoreHint(e)
  \/ CreateLinkAdd(e) \/ CreateLinkAddFails(e)
  \/ CreateSetupFails(e) \/ CreateDone(e)
  \/ JoinReject(e) \/ JoinTakeHint(e) \/ JoinReturn(e)
  \/ DeleteUnlink(e)
  \/ \E h \in Teardown : TakeManager(h, e) \/ StopManager(h, e) \/ Uncache(h, e)

WorkerStep(m) ==
  \/ WorkerStart(m) \/ WorkerStartFails(m) \/ WorkerSetup(m) \/ WorkerRegister(m)
  \/ m[2] = "join" /\ WorkerPersist(m[1])

RecoverStep == RecoverEnd \/ \E e \in Endpoint : RecoverEndpoint(e)

Next ==
  \/ DockerStep
  \/ \E e \in Endpoint : HandlerStep(e)
  \/ \E m \in Manager : WorkerStep(m) \/ SupervisorExit(m)
  \/ ReconcileList \/ ReconcileApply
  \/ RecoverStep \/ Crash \/ Restart

\* Goroutines run, timeouts expire, the ticker ticks, the daemon restarts its
\* plugin.  Nothing is assumed of Docker's calls.
Fairness ==
  /\ \A e \in Endpoint : WF_vars(HandlerStep(e))
  /\ \A m \in Manager : WF_vars(WorkerStep(m)) /\ WF_vars(SupervisorExit(m))
  /\ WF_vars(ReconcileList) /\ WF_vars(ReconcileApply)
  /\ WF_vars(RecoverStep) /\ WF_vars(Restart)

Spec     == Init /\ [][Next]_vars
FairSpec == Spec /\ Fairness

----------------------------------------------------------------------------
(* Properties.                                                              *)

\* The places a manager can be reached from: the map and the two handlers.
Reached(m, p) == IF p = "map" THEN persistentDHCP[m[1]] = m[2]
                              ELSE held[p][m[1]] = m[2]
Place == {"map"} \cup Teardown

\* A stop channel is closed at most once, whatever Leave, DeleteEndpoint, Join's
\* goroutine and Recover interleave: a second close(m.stopChan) panics.
NoDoubleStop == \A m \in Manager : stops[m] <= 1

\* Taking a manager out of persistentDHCP hands it to one handler only, and a
\* manager that was stopped is not reachable any more, from the map or a handler.
SingleOwner == \A m \in Manager : \A p \in Place :
  Reached(m, p) => /\ stops[m] = 0
                   /\ \A q \in Place : Reached(m, q) => q = p

\* A DHCP client that runs and was not stopped can still be stopped: its worker
\* is about to register the manager, the map has it or a handler holds it; unless
\* the other one of Join's goroutine and Recover has registered its manager too,
\* for the map has room for one.
ClientIsReachable == \A m \in Manager :
  supervisor[m] = "running" /\ stops[m] = 0
    => \/ worker[m] = "register"
       \/ \E p \in Place : Reached(m, p)
       \/ \E o \in Origin \ {m[2]} : worker[<<m[1], o>>] \in {"persist", "done"}

\* No one of these went wrong for e.
Spared(e, kinds) == \A k \in kinds : <<e, k>> \notin mishaps

\* When Docker has been told that an endpoint is deleted, the plugin has no
\* manager and no cached entry of it, and none on disk to come back at a restart
\* (openspec lifecycle-and-logging: both MUST be cleaned up).
DeletedIsForgotten == \A e \in Endpoint :
  docker[e] = "gone" => persistentDHCP[e] = None /\ e \notin cached \cup disk

\* ... and it is so, for any order of calls, crashes and restarts, unless a late
\* goroutine put the endpoint back, the file could not be written, or Docker gave
\* DeleteEndpoint up.
SparedIsForgotten == \A e \in Endpoint :
  docker[e] = "gone" /\ Spared(e, {"late", "save", "gaveup"})
    => persistentDHCP[e] = None /\ e \notin cached \cup disk

\* The host veth outlives its endpoint only if the kernel did not remove it, the
\* process died in the CreateEndpoint that made it, or Docker gave DeleteEndpoint
\* up: the error paths of CreateEndpoint remove it.
NoLeakedVeth == \A e \in Endpoint :
  e \in veth /\ Spared(e, {"link", "died", "gaveup"})
    => docker[e] \notin {"absent", "gone"}

\* Reconcile never drops the entry of an endpoint Docker shows as attached and
\* whose worker has finished: what it prunes is orphaned (cache.go:347).
AttachedStaysCached == \A e \in Endpoint :
  up /\ docker[e] = "joined" /\ worker[<<e, "join">>] = "done"
     /\ persistentDHCP[e] = "join" => e \in cached

\* ReconcileLoop heals: the entry of a deleted endpoint, left behind by a late
\* goroutine, a failed save or a call cut short, goes away for good.
GhostsPruned ==
  <>[](\A e \in Endpoint : docker[e] = "gone" => e \notin cached)

\* Every call is answered, or ends with the process: createMu is always released,
\* and no handler waits for what another one, Join's goroutine or Recover owes it.
CallsAreAnswered == \A h \in Handler : \A e \in Endpoint :
  []<>(call[h][e] = "idle")
=============================================================================
