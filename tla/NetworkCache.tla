---------------------------- MODULE NetworkCache ----------------------------
(***************************************************************************)
(* The persistent cache of networks (pkg/plugin/cache.go) and the handlers *)
(* that fill it: CreateNetwork, DeleteNetwork, netOptions, the goroutine   *)
(* of Join, the start event of the listener, Leave, and the periodic       *)
(* Reconcile with what Docker lists.  Every operation of the cache holds   *)
(* its lock once; Docker is asked without it.                              *)
(*                                                                         *)
(* An entry has options, endpoints, the ContainerMap of the last Reconcile *)
(* and metadata.  The metadata is never read, so only its side effect is   *)
(* kept: an entry for a network the cache does not know is made with empty *)
(* options.                                                                *)
(***************************************************************************)
EXTENDS Naturals

CONSTANTS
  Network,       \* IDs of the plugin's networks; Docker draws fresh ones
  Endpoint,
  Home,          \* the network of each endpoint
  Bridge,        \* the bridge of each network
  Undecodable,   \* networks of an earlier version: decodeOpts refuses their options
  Overlap,       \* Docker may create two networks at the same time
  Faults,        \* which ignored errors may occur: a subset of FaultKind
  MaxCrashes,    \* bound on the number of times the plugin process dies
  MaxUnsaved     \* bound on the number of writes of networks.json that fail

FaultKind == {"list",   \* NetworkList fails in the Reconcile of NewPlugin
              "check",  \* CreateNetwork does not compare the bridges: NetworkList
                        \* fails, or the network has ignore_conflicts
              "load"}   \* networks.json cannot be read or parsed

ASSUME HomeAssumption == Home \in [Endpoint -> Network]
ASSUME BridgeAssumption == DOMAIN Bridge = Network /\ Undecodable \subseteq Network
ASSUME ModeAssumption ==
  /\ Overlap \in BOOLEAN /\ Faults \subseteq FaultKind
  /\ MaxCrashes \in Nat /\ MaxUnsaved \in Nat

VARIABLES
  docker,    \* external: each network in Docker
  phase,     \* external: each endpoint in Docker
  creating,  \* where the CreateNetwork of a network is
  asking,    \* where netOptions is, for the CreateEndpoint or Join of an endpoint
  persisting,\* endpoints whose goroutine of Join has yet to call SetEndpoint
  started,   \* endpoints whose start event has not been handled
  networks,  \* NetworkCache.networks, by the IDs of what is in it
  disk,      \* the same in networks.json
  unsaved,   \* history: the last attempt to read or write the file failed
  failures,  \* how many writes did
  unseen,    \* history: networks whose bridge was not compared with all others
  listing,   \* what a running Reconcile read from NetworkList
  up,        \* the plugin process runs
  crashes    \* how often it died

dockerVars == <<docker, phase>>
callVars == <<creating, asking, persisting, started>>
cacheVars == <<networks, disk, unsaved, failures>>
procVars == <<up, crashes>>
vars == <<dockerVars, callVars, cacheVars, listing, unseen, procVars>>

Cache == [known : SUBSET Network,       \* networks with an entry
          options : SUBSET Network,     \* those with the options of the network
          endpoints : SUBSET Endpoint,  \* endpoints in the entries
          map : SUBSET Endpoint]        \* endpoints in their ContainerMaps
Empty == [known |-> {}, options |-> {}, endpoints |-> {}, map |-> {}]
NoListing == [open |-> FALSE, nets |-> {}, active |-> {}]

TypeOK ==
  /\ docker \in [Network -> {"absent", "creating", "exists", "deleting", "gone"}]
  /\ phase \in [Endpoint -> {"none", "creating", "joining", "joined", "gone"}]
  /\ creating \in [Network -> {"idle", "check", "set"}]
  /\ asking \in [Endpoint -> {"idle", "get", "inspect"}]
  /\ persisting \subseteq Endpoint /\ started \subseteq Endpoint
  /\ networks \in Cache /\ disk \in Cache
  /\ unsaved \in BOOLEAN /\ failures \in 0 .. MaxUnsaved
  /\ listing \in [open : BOOLEAN, nets : SUBSET Network, active : SUBSET Endpoint]
  /\ unseen \subseteq Network
  /\ networks.options \subseteq networks.known \ Undecodable
  /\ \A e \in networks.endpoints : Home[e] \in networks.known
  /\ up \in BOOLEAN /\ crashes \in 0 .. MaxCrashes

Listed == {n \in Network : docker[n] \in {"exists", "deleting"}}
Shared(m, n) == m # n /\ Bridge[m] = Bridge[n]

\* The plugin is about to start for the first time, without a file; Docker may have
\* networks and endpoints of an earlier version, which share no bridge but, for all
\* CreateNetwork can tell, those whose options it cannot decode.
Init ==
  /\ docker \in [Network -> {"absent", "exists"}]
  /\ \A m, n \in Listed \ Undecodable : ~Shared(m, n)
  /\ unseen = Undecodable
  /\ phase \in [Endpoint -> {"none", "joined"}]
  /\ \A e \in Endpoint : phase[e] = "joined" => docker[Home[e]] = "exists"
  /\ creating = [n \in Network |-> "idle"]
  /\ asking = [e \in Endpoint |-> "idle"]
  /\ persisting = {} /\ started = {}
  /\ networks = Empty /\ disk = Empty /\ unsaved = FALSE /\ failures = 0
  /\ listing = NoListing
  /\ up = FALSE /\ crashes = 0

----------------------------------------------------------------------------
(* The operations of the cache, as functions of its value, and their save,  *)
(* whose error nobody but CreateNetwork looks at.                            *)

\* What Set writes into an entry: the options if they can be decoded, no ContainerMap.
Optioned(c, n) == c.options \cup ({n} \ Undecodable)
Unmapped(c, ns) == {e \in c.map : Home[e] \notin ns}

\* Mutant: the entry is replaced, with the endpoints it has.
SetReplaces(c, n) ==
  [known |-> c.known \cup {n}, options |-> Optioned(c, n),
   endpoints |-> {e \in c.endpoints : Home[e] # n}, map |-> Unmapped(c, {n})]

\* Set with the options of n: an existing entry keeps its endpoints.
Set(c, n) ==
  [c EXCEPT !.known = @ \cup {n}, !.options = Optioned(c, n),
            !.map = Unmapped(c, {n})]

\* Delete: the entry goes with what is in it.
Delete(c, ns) ==
  [known |-> c.known \ ns, options |-> c.options \ ns,
   endpoints |-> {e \in c.endpoints : Home[e] \notin ns}, map |-> Unmapped(c, ns)]

\* Mutant: the entry is always replaced by a placeholder.
SetMetadataReplaces(c, n) ==
  [c EXCEPT !.known = @ \cup {n}, !.options = @ \ {n}]

\* SetMetadata: at least a placeholder without options.
SetMetadata(c, n) == [c EXCEPT !.known = @ \cup {n}]

\* Mutant: an endpoint is stored for a network without an entry, too.
SetEndpointAnyway(c, e) == [c EXCEPT !.endpoints = @ \cup {e}]

\* SetEndpoint: an error if the network has no entry.
SetEndpoint(c, e) ==
  IF Home[e] \in c.known THEN [c EXCEPT !.endpoints = @ \cup {e}] ELSE c

DeleteEndpoints(c, es) == [c EXCEPT !.endpoints = @ \ es]

\* Mutant: networks Docker does not list are not removed.
ReconciledWithoutRemoval(c, seen) ==
  LET added == seen.nets \ (c.known \cup Undecodable)
  IN  [known |-> c.known \cup added, options |-> c.options \cup added,
       endpoints |-> {e \in c.endpoints : Home[e] \in seen.nets => e \in seen.active},
       map |-> seen.active]

\* Mutant: networks Docker lists are not added.
ReconciledWithoutAdding(c, seen) ==
  DeleteEndpoints(Delete(c, c.known \ seen.nets), Endpoint \ seen.active)

\* Reconcile under the lock: entries of networks that are not listed go, listed
\* networks without an entry get one if their options can be decoded, endpoints that
\* are not listed are pruned, and the ContainerMaps are what the listing shows.
Reconciled(c, seen) ==
  LET added == seen.nets \ (c.known \cup Undecodable)
      known == (c.known \cap seen.nets) \cup added
  IN  [known |-> known,
       options |-> (c.options \cap seen.nets) \cup added,
       endpoints |-> {e \in c.endpoints \cap seen.active : Home[e] \in known},
       map |-> {e \in seen.active : Home[e] \in known}]

\* All but the ContainerMaps: what makes Reconcile save, and what anybody reads.
Alike(c, d) ==
  c.known = d.known /\ c.options = d.options /\ c.endpoints = d.endpoints

Saved(c) ==
  networks' = c /\ disk' = c /\ unsaved' = FALSE /\ UNCHANGED failures
Unsaved(c) ==
  /\ failures < MaxUnsaved /\ failures' = failures + 1
  /\ networks' = c /\ unsaved' = TRUE /\ UNCHANGED disk
Store(c) == Saved(c) \/ Unsaved(c)

----------------------------------------------------------------------------
(* CreateNetwork and DeleteNetwork, and Docker's side of them: it lists a    *)
(* network from the answer to CreateNetwork to the answer to DeleteNetwork.  *)

DockerCreateNetwork(n) ==
  /\ up /\ docker[n] = "absent"
  /\ Overlap \/ \A m \in Network : docker[m] # "creating"
  /\ docker' = [docker EXCEPT ![n] = "creating"]
  /\ creating' = [creating EXCEPT ![n] = "check"]
  /\ UNCHANGED <<phase, asking, persisting, started, cacheVars, listing,
                 unseen, procVars>>

\* Docker forgets a network whose CreateNetwork was answered with an error.
CreateNetworkRejected(n) ==
  /\ docker' = [docker EXCEPT ![n] = "gone"]
  /\ creating' = [creating EXCEPT ![n] = "idle"]

\* Mutant: the networks of the cache are checked instead of Docker's.
InUseByCached(n) == \E m \in networks.options : Shared(m, n)

\* Another network Docker lists, with options that can be decoded, has the bridge.
InUse(n) == \E m \in Listed \ Undecodable : Shared(m, n)

\* The options are validated and the bridge must exist, be one and be free.  An error
\* of NetworkList is taken for "no conflict".
CreateNetworkCheck(n) ==
  /\ creating[n] = "check"
  /\ \/ CreateNetworkRejected(n) /\ UNCHANGED unseen
     \/ /\ n \notin Undecodable
        /\ creating' = [creating EXCEPT ![n] = "set"] /\ UNCHANGED docker
        /\ \/ /\ ~InUse(n)
              /\ unseen' = IF \E m \in Network : creating[m] = "set"
                             THEN unseen \cup {n} ELSE unseen
           \/ "check" \in Faults /\ unseen' = unseen \cup {n}
  /\ UNCHANGED <<phase, asking, persisting, started, cacheVars, listing,
                 procVars>>

\* cache.Set; if the file cannot be written the network is refused, but its entry
\* stays in memory.
CreateNetworkSet(n) ==
  /\ creating[n] = "set"
  /\ \/ /\ Saved(Set(networks, n))
        /\ docker' = [docker EXCEPT ![n] = "exists"]
        /\ creating' = [creating EXCEPT ![n] = "idle"]
     \/ Unsaved(Set(networks, n)) /\ CreateNetworkRejected(n)
  /\ UNCHANGED <<phase, asking, persisting, started, listing, unseen, procVars>>

\* Docker refuses to remove a network that has endpoints.
DockerDeleteNetwork(n) ==
  /\ up /\ docker[n] = "exists"
  /\ \A e \in Endpoint : Home[e] = n => phase[e] \in {"none", "gone"}
  /\ docker' = [docker EXCEPT ![n] = "deleting"]
  /\ UNCHANGED <<phase, callVars, cacheVars, listing, unseen, procVars>>

DeleteNetwork(n) ==
  /\ up /\ docker[n] = "deleting"
  /\ Store(Delete(networks, {n}))
  /\ docker' = [docker EXCEPT ![n] = "gone"]
  /\ UNCHANGED <<phase, callVars, listing, unseen, procVars>>

----------------------------------------------------------------------------
(* The endpoints: CreateEndpoint, Join, EndpointOperInfo begin with netOptions. *)

DockerCreateEndpoint(e) ==
  /\ up /\ phase[e] = "none" /\ docker[Home[e]] = "exists"
  /\ phase' = [phase EXCEPT ![e] = "creating"]
  /\ asking' = [asking EXCEPT ![e] = "get"]
  /\ UNCHANGED <<docker, creating, persisting, started, cacheVars, listing,
                 unseen, procVars>>

\* Docker inspects an attached endpoint: EndpointOperInfo asks for the options and
\* otherwise only reads the kernel, so that the request matters when cache.Get
\* misses.  It may overlap the detachment of its endpoint.
EndpointOperInfo(e) ==
  /\ up /\ phase[e] = "joined" /\ asking[e] = "idle"
  /\ Home[e] \notin networks.known
  /\ asking' = [asking EXCEPT ![e] = "inspect"]
  /\ UNCHANGED <<dockerVars, creating, persisting, started, cacheVars, listing,
                 unseen, procVars>>

\* The handler has the options of e's network.  Docker answers CreateEndpoint with
\* Join, which asks again; when Join returns, Docker shows the endpoint and emits
\* the start event.  EndpointOperInfo just answers.
Proceed(e) ==
  LET next == IF phase[e] = "creating" THEN "joining" ELSE "joined"
      joins == IF phase[e] = "joining" THEN {e} ELSE {}
  IN  /\ phase' = IF phase[e] \in {"creating", "joining"}
                    THEN [phase EXCEPT ![e] = next] ELSE phase
      /\ asking' = [asking EXCEPT ![e] =
                      IF phase[e] = "creating" THEN "get" ELSE "idle"]
      /\ persisting' = persisting \cup joins /\ started' = started \cup joins

\* The request fails, and Docker gives the endpoint up unless it was only inspecting it.
Refuse(e) ==
  /\ phase' = IF phase[e] = "joined" THEN phase ELSE [phase EXCEPT ![e] = "gone"]
  /\ asking' = [asking EXCEPT ![e] = "idle"]
  /\ UNCHANGED <<persisting, started>>

\* netOptions returns what entry c has: CreateEndpoint fails with the empty bridge
\* name of a placeholder or of undecoded options; Join only leaves the routes out.
Answer(e, c) ==
  IF phase[e] = "creating" /\ Home[e] \notin c.options THEN Refuse(e) ELSE Proceed(e)

\* cache.Get.
OptionsGet(e) ==
  /\ asking[e] = "get"
  /\ IF Home[e] \in networks.known THEN Answer(e, networks)
       ELSE /\ asking' = [asking EXCEPT ![e] = "inspect"]
            /\ UNCHANGED <<phase, persisting, started>>
  /\ UNCHANGED <<docker, creating, cacheVars, listing, unseen, procVars>>

\* A miss: NetworkInspect, without the lock, and cache.Set, whatever is in the
\* cache by now and whether or not the options could be decoded ...
OptionsSet(e) ==
  /\ asking[e] = "inspect"
  /\ LET c == Set(networks, Home[e]) IN Store(c) /\ Answer(e, c)
  /\ UNCHANGED <<docker, creating, listing, unseen, procVars>>

\* ... or Docker cannot be asked: CreateEndpoint and Join fail.
OptionsFail(e) ==
  /\ asking[e] = "inspect"
  /\ Refuse(e)
  /\ UNCHANGED <<docker, creating, cacheVars, listing, unseen, procVars>>

\* The goroutine of Join calls SetEndpoint, also when the endpoint is gone.
WorkerPersist(e) ==
  /\ e \in persisting /\ persisting' = persisting \ {e}
  /\ Store(SetEndpoint(networks, e))
  /\ UNCHANGED <<dockerVars, creating, asking, started, listing, unseen,
                 procVars>>

\* The listener handles the start event: SetMetadata.
ListenStart(e) ==
  /\ up /\ e \in started /\ started' = started \ {e}
  /\ Store(SetMetadata(networks, Home[e]))
  /\ UNCHANGED <<dockerVars, creating, asking, persisting, listing, unseen,
                 procVars>>

\* Leave and DeleteEndpoint; a plugin that is down misses them.
DockerRemoveEndpoint(e) ==
  /\ phase[e] = "joined"
  /\ phase' = [phase EXCEPT ![e] = "gone"]
  /\ IF up /\ Home[e] \in networks.known THEN Store(DeleteEndpoints(networks, {e}))
                                         ELSE UNCHANGED cacheVars
  /\ UNCHANGED <<docker, callVars, listing, unseen, procVars>>

----------------------------------------------------------------------------
(* Reconcile, and the plugin's process.                                      *)

Active == {e \in Endpoint : phase[e] = "joined"}

\* NetworkList, without the lock; on an error Reconcile returns.
ReconcileList ==
  /\ up /\ ~listing.open
  /\ listing' = [open |-> TRUE, nets |-> Listed, active |-> Active]
  /\ UNCHANGED <<dockerVars, callVars, cacheVars, unseen, procVars>>

\* Mutant: what Reconcile changed is not saved.
ReconcileApplyUnsaved ==
  /\ up /\ listing.open
  /\ networks' = Reconciled(networks, listing) /\ UNCHANGED <<disk, unsaved, failures>>
  /\ listing' = NoListing
  /\ UNCHANGED <<dockerVars, callVars, unseen, procVars>>

\* The file is written if something changed, but not for the ContainerMaps, which may
\* differ from it from then on.
ReconcileApply ==
  /\ up /\ listing.open
  /\ LET c == Reconciled(networks, listing)
     IN  IF Alike(c, networks) THEN networks' = c /\ UNCHANGED <<disk, unsaved, failures>>
                               ELSE Store(c)
  /\ listing' = NoListing
  /\ UNCHANGED <<dockerVars, callVars, unseen, procVars>>

\* Requests in flight fail; Docker gives their networks and endpoints up.
Crash ==
  /\ up /\ crashes < MaxCrashes
  /\ up' = FALSE /\ crashes' = crashes + 1
  /\ docker' = [n \in Network |-> IF docker[n] = "creating" THEN "gone"
                                  ELSE IF docker[n] = "deleting" THEN "exists"
                                  ELSE docker[n]]
  /\ phase' = [e \in Endpoint |->
                 IF phase[e] \in {"creating", "joining"} THEN "gone" ELSE phase[e]]
  /\ creating' = [n \in Network |-> "idle"]
  /\ asking' = [e \in Endpoint |-> "idle"]
  /\ persisting' = {} /\ started' = {} /\ listing' = NoListing
  /\ networks' = Empty /\ unsaved' = FALSE
  /\ UNCHANGED <<disk, failures, unseen>>

\* NewPlugin: load the file, if it can be read and parsed, and reconcile before
\* anything else runs.
Restart ==
  /\ ~up /\ up' = TRUE
  /\ \E loaded \in IF "load" \in Faults THEN {disk, Empty} ELSE {disk} :
       LET c == Reconciled(loaded, [nets |-> Listed, active |-> Active])
           unread == unsaved' = (loaded # disk) /\ UNCHANGED <<disk, failures>>
       IN  \/ ~Alike(c, loaded) /\ Store(c)
           \/ Alike(c, loaded) /\ networks' = c /\ unread
           \/ "list" \in Faults /\ networks' = loaded /\ unread
  /\ UNCHANGED <<dockerVars, callVars, listing, unseen, crashes>>

----------------------------------------------------------------------------

NetworkStep(n) ==
  \/ DockerCreateNetwork(n) \/ CreateNetworkCheck(n) \/ CreateNetworkSet(n)
  \/ DockerDeleteNetwork(n) \/ DeleteNetwork(n)

EndpointStep(e) ==
  \/ DockerCreateEndpoint(e) \/ EndpointOperInfo(e) \/ DockerRemoveEndpoint(e)
  \/ OptionsGet(e) \/ OptionsSet(e) \/ OptionsFail(e)
  \/ WorkerPersist(e) \/ ListenStart(e)

Next ==
  \/ \E n \in Network : NetworkStep(n)
  \/ \E e \in Endpoint : EndpointStep(e)
  \/ ReconcileList \/ ReconcileApply \/ Crash \/ Restart

\* The ticker of ReconcileLoop and the plugin's restart policy; nothing is assumed
\* of Docker's requests, nor of when late goroutines and events are handled.
Fairness == WF_vars(ReconcileList \/ ReconcileApply) /\ WF_vars(Restart)

Spec == Init /\ [][Next]_vars
FairSpec == Spec /\ Fairness

----------------------------------------------------------------------------
(* Properties.                                                              *)

\* While the plugin runs the file has what the memory has, but for the ContainerMaps,
\* unless the last read or write of the file failed: one write that succeeds makes
\* up for all that failed before it.
DiskIsCurrent == up /\ ~unsaved => Alike(disk, networks)

\* Two networks of Docker share a bridge only if the check of one of them did not look,
\* came while the other was past its own, or could not decode the other's options:
\* whatever Reconcile, a crash or a stale listing did to the cache in the meantime.
OnlyUnseenShare == \A m, n \in Listed : Shared(m, n) => m \in unseen \/ n \in unseen

\* The entry of an attached endpoint is only lost to a listing taken before it was
\* attached, or with the process: no concurrent netOptions, start event or
\* CreateNetwork takes it away.
AttachedIsKept == [][
  \A e \in networks.endpoints \ networks'.endpoints :
    phase[e] = "joined" /\ phase'[e] = "joined" =>
      ~up' \/ (listing.open /\ e \notin listing.active)]_vars

\* The options of an existing network are only lost to a listing taken before it
\* was created, or with the process.  A placeholder, whose empty options netOptions
\* answers from then on (plugin.go:377), has no other way to come about.
OptionsAreKept == [][
  \A n \in networks.options \ networks'.options :
    docker[n] = "exists" /\ docker'[n] = "exists" =>
      ~up' \/ (listing.open /\ n \notin listing.nets)]_vars

\* A network Docker has keeps or regains an entry, although listings taken before
\* it was created may have removed it: time and again it has one, if its options can
\* be decoded ...
ExistingGetsCached == \A n \in Network \ Undecodable :
  []<>(docker[n] = "exists" => n \in networks.known)

\* ... and one that is gone loses it for good, although late start events, late
\* goroutines of Join, refused creations and lost deletions may bring it back.
GoneIsForgotten ==
  <>[](\A n \in Network : docker[n] = "gone" => n \notin networks.known)
=============================================================================
