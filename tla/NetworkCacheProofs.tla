------------------------- MODULE NetworkCacheProofs -------------------------
(***************************************************************************)
(* Proofs about NetworkCache, for any networks, endpoints, bridges, faults *)
(* and bounds: types, that networks.json is current, what the cache never  *)
(* loses, and which networks may share a bridge.                           *)
(***************************************************************************)
EXTENDS NetworkCache, TLAPS

(* The inductive invariant.                                                 *)

\* An entry is made before it has options or endpoints, and has no options that
\* cannot be decoded.
WellFormed(c) ==
  /\ c.options \subseteq c.known \ Undecodable
  /\ \A e \in c.endpoints : Home[e] \in c.known

Types == TypeOK /\ WellFormed(disk)

\* A process that does not run has no calls and no memory.
DownIsEmpty == ~up =>
  /\ networks = Empty /\ persisting = {} /\ started = {} /\ ~listing.open
  /\ \A n \in Network : creating[n] = "idle"
  /\ \A e \in Endpoint : asking[e] = "idle"

\* Docker's record of a network and the call that creates it.
CreatingIsCalled == \A n \in Network : creating[n] # "idle" => docker[n] = "creating"

\* An endpoint that lives keeps its network from being removed.
EndpointHoldsNetwork == \A e \in Endpoint :
  phase[e] \notin {"none", "gone"} => docker[Home[e]] = "exists"

\* A listing that shows an endpoint shows its network.
ListingIsClosed == \A e \in listing.active : Home[e] \in listing.nets

CacheInv ==
  /\ Types /\ DiskIsCurrent /\ DownIsEmpty
  /\ CreatingIsCalled /\ EndpointHoldsNetwork /\ ListingIsClosed

\* Of two networks past the check of CreateNetwork with the same bridge, one was not
\* compared with the other.
Passed == Listed \cup {n \in Network : creating[n] = "set"}
PassedApart == \A m, n \in Passed : Shared(m, n) => m \in unseen \/ n \in unseen

BridgeInv == Undecodable \subseteq unseen /\ PassedApart

----------------------------------------------------------------------------
(* The operations of the cache.                                             *)

Good(c) == c \in Cache /\ WellFormed(c)

\* Each of them yields an entry for whatever it refers to.
LEMMA OperationTypes ==
  ASSUME NEW c, Good(c)
  PROVE  /\ \A n \in Network : Good(Set(c, n)) /\ Good(SetMetadata(c, n))
         /\ \A ns \in SUBSET Network : Good(Delete(c, ns))
         /\ \A e \in Endpoint : Good(SetEndpoint(c, e))
         /\ \A es \in SUBSET Endpoint : Good(DeleteEndpoints(c, es))
  BY HomeAssumption
  DEF Good, WellFormed, Cache, Set, SetMetadata, Delete, SetEndpoint,
      DeleteEndpoints, Optioned, Unmapped

\* A reconciled cache keeps the options it had of networks that are listed, and the
\* endpoints it had that are listed with their networks.
LEMMA ReconciledHas ==
  ASSUME NEW c, Good(c), NEW seen,
         seen.nets \subseteq Network, seen.active \subseteq Endpoint
  PROVE  /\ Good(Reconciled(c, seen))
         /\ c.options \cap seen.nets \subseteq Reconciled(c, seen).options
         /\ \A e \in c.endpoints \cap seen.active :
              Home[e] \in seen.nets => e \in Reconciled(c, seen).endpoints
  BY HomeAssumption DEF Good, WellFormed, Cache, Reconciled

LEMMA EmptyIsGood == Good(Empty)
  BY DEF Good, WellFormed, Cache, Empty

\* A stored value is what the memory has from then on.
LEMMA StoreTypes ==
  ASSUME Types, NEW c, Good(c), Store(c)
  PROVE  /\ networks' = c
         /\ Good(networks') /\ Good(disk')
         /\ unsaved' \in BOOLEAN /\ failures' \in 0 .. MaxUnsaved
         /\ ~unsaved' => Alike(disk', networks')
<1>1. Good(disk) /\ failures \in 0 .. MaxUnsaved
  BY DEF Types, TypeOK, Good
<1>2. CASE Saved(c)
  BY <1>1, <1>2 DEF Saved, Alike
<1>3. CASE Unsaved(c)
  <2>1. failures' \in 0 .. MaxUnsaved
    BY <1>1, <1>3, ModeAssumption DEF Unsaved
  <2> QED BY <1>1, <1>3, <2>1 DEF Unsaved
<1> QED BY <1>2, <1>3 DEF Store

----------------------------------------------------------------------------
(* Types.                                                                   *)

\* The types of Docker's side and of the calls, apart from those of the cache.
CallTypes ==
  /\ docker \in [Network -> {"absent", "creating", "exists", "deleting", "gone"}]
  /\ phase \in [Endpoint -> {"none", "creating", "joining", "joined", "gone"}]
  /\ creating \in [Network -> {"idle", "check", "set"}]
  /\ asking \in [Endpoint -> {"idle", "get", "inspect"}]
  /\ persisting \subseteq Endpoint /\ started \subseteq Endpoint
  /\ listing \in [open : BOOLEAN, nets : SUBSET Network, active : SUBSET Endpoint]
  /\ up \in BOOLEAN /\ crashes \in 0 .. MaxCrashes
  /\ unseen \subseteq Network

StoreTypesOK ==
  /\ Good(networks) /\ Good(disk)
  /\ unsaved \in BOOLEAN /\ failures \in 0 .. MaxUnsaved

LEMMA TypeParts == Types <=> CallTypes /\ StoreTypesOK
  BY DEF Types, TypeOK, CallTypes, StoreTypesOK, Good, WellFormed

LEMMA InitTypes == ASSUME Init PROVE Types
<1>1. unsaved \in BOOLEAN /\ up \in BOOLEAN
  BY DEF Init
<1>2. Good(networks) /\ Good(disk)
  BY EmptyIsGood DEF Init
<1>3. failures \in 0 .. MaxUnsaved /\ crashes \in 0 .. MaxCrashes
  BY ModeAssumption DEF Init
<1>4. listing \in [open : BOOLEAN, nets : SUBSET Network, active : SUBSET Endpoint]
  BY DEF Init, NoListing
<1>5. CallTypes
  BY <1>1, <1>3, <1>4, BridgeAssumption DEF Init, CallTypes
<1> QED BY <1>1, <1>2, <1>3, <1>5, TypeParts DEF StoreTypesOK

\* The steps of a network keep the types of the calls ...
LEMMA NetworkCallTypes ==
  ASSUME CallTypes, NEW n \in Network, NetworkStep(n) PROVE CallTypes'
<1> USE DEF CallTypes, procVars, callVars
<1>1. CASE DockerCreateNetwork(n) BY <1>1 DEF DockerCreateNetwork
<1>2. CASE CreateNetworkCheck(n)
  BY <1>2 DEF CreateNetworkCheck, CreateNetworkRejected
<1>3. CASE CreateNetworkSet(n)
  BY <1>3 DEF CreateNetworkSet, CreateNetworkRejected
<1>4. CASE DockerDeleteNetwork(n) BY <1>4 DEF DockerDeleteNetwork
<1>5. CASE DeleteNetwork(n)       BY <1>5 DEF DeleteNetwork
<1> HIDE DEF CallTypes
<1> QED BY <1>1, <1>2, <1>3, <1>4, <1>5 DEF NetworkStep

\* ... those of an endpoint do ...
LEMMA EndpointCallTypes ==
  ASSUME CallTypes, NEW e \in Endpoint, EndpointStep(e) PROVE CallTypes'
<1> USE DEF CallTypes, procVars, dockerVars, callVars
<1>1. CASE DockerCreateEndpoint(e) BY <1>1 DEF DockerCreateEndpoint
<1>2. CASE EndpointOperInfo(e)     BY <1>2 DEF EndpointOperInfo
<1>3. CASE DockerRemoveEndpoint(e) BY <1>3 DEF DockerRemoveEndpoint
<1>4. CASE OptionsGet(e)
  BY <1>4 DEF OptionsGet, Answer, Refuse, Proceed
<1>5. CASE OptionsSet(e)
  BY <1>5 DEF OptionsSet, Answer, Refuse, Proceed
<1>6. CASE OptionsFail(e)          BY <1>6 DEF OptionsFail, Refuse
<1>7. CASE WorkerPersist(e)        BY <1>7 DEF WorkerPersist
<1>8. CASE ListenStart(e)          BY <1>8 DEF ListenStart
<1> HIDE DEF CallTypes
<1> QED BY <1>1, <1>2, <1>3, <1>4, <1>5, <1>6, <1>7, <1>8 DEF EndpointStep

\* ... and so do Reconcile, a crash and a restart.
LEMMA ProcessCallTypes ==
  ASSUME CallTypes, ReconcileList \/ ReconcileApply \/ Crash \/ Restart
  PROVE  CallTypes'
<1> USE DEF CallTypes, procVars, dockerVars, callVars, Listed, Active, NoListing
<1>1. CASE ReconcileList  BY <1>1 DEF ReconcileList
<1>2. CASE ReconcileApply BY <1>2 DEF ReconcileApply
<1>3. CASE Crash
  <2>1. docker' \in [Network -> {"absent", "creating", "exists", "deleting", "gone"}]
    BY <1>3 DEF Crash
  <2>2. phase' \in [Endpoint -> {"none", "creating", "joining", "joined", "gone"}]
    BY <1>3 DEF Crash
  <2>3. up' \in BOOLEAN
    BY <1>3 DEF Crash
  <2>4. crashes' \in 0 .. MaxCrashes
    BY <1>3, ModeAssumption DEF Crash
  <2> QED BY <1>3, <2>1, <2>2, <2>3, <2>4 DEF Crash
<1>4. CASE Restart
  <2>1. up' \in BOOLEAN
    BY <1>4 DEF Restart
  <2> QED BY <1>4, <2>1 DEF Restart
<1> HIDE DEF CallTypes
<1> QED BY <1>1, <1>2, <1>3, <1>4

\* What the memory was reconciled with, whether by the ticker or at a restart.
LEMMA ListingTypes ==
  ASSUME CallTypes
  PROVE  /\ Listed \subseteq Network /\ Active \subseteq Endpoint
         /\ listing.nets \subseteq Network /\ listing.active \subseteq Endpoint
  BY DEF CallTypes, Listed, Active

\* A value that differs in the ContainerMaps only, which Reconcile does not save.
Remapped(c) ==
  Alike(c, networks) /\ networks' = c /\ UNCHANGED <<disk, unsaved, failures>>

\* Every step but a crash and a restart leaves the cache alone or stores, or only
\* takes, a value that one of the operations computed from it.
LEMMA CacheStep ==
  ASSUME Types, Next
  PROVE  \/ UNCHANGED cacheVars \/ Crash \/ Restart
         \/ \E c \in Cache : WellFormed(c) /\ (Store(c) \/ Remapped(c))
<1> DEFINE Stores == \E c \in Cache : WellFormed(c) /\ (Store(c) \/ Remapped(c))
<1>1. Good(networks) /\ CallTypes
  BY TypeParts DEF StoreTypesOK
<1>2. \A c : Good(c) /\ (Store(c) \/ Remapped(c)) => Stores
  BY DEF Good
<1> HIDE DEF Stores
<1>3. ASSUME NEW n \in Network, NetworkStep(n)
      PROVE  UNCHANGED cacheVars \/ Stores
  <2>1. Good(Set(networks, n)) /\ Good(Delete(networks, {n}))
    BY <1>1, OperationTypes
  <2>2. CreateNetworkSet(n) => Store(Set(networks, n))
    BY DEF CreateNetworkSet, Store
  <2>3. DeleteNetwork(n) => Store(Delete(networks, {n}))
    BY DEF DeleteNetwork
  <2> QED
    BY <1>2, <1>3, <2>1, <2>2, <2>3
    DEF NetworkStep, DockerCreateNetwork, CreateNetworkCheck, DockerDeleteNetwork
<1>4. ASSUME NEW e \in Endpoint, EndpointStep(e)
      PROVE  UNCHANGED cacheVars \/ Stores
  <2>1. Home[e] \in Network
    BY HomeAssumption
  <2>2. /\ Good(Set(networks, Home[e])) /\ Good(SetMetadata(networks, Home[e]))
        /\ Good(SetEndpoint(networks, e)) /\ Good(DeleteEndpoints(networks, {e}))
    BY <1>1, <2>1, OperationTypes
  <2>3. OptionsSet(e) => Store(Set(networks, Home[e]))
    BY DEF OptionsSet
  <2>4. WorkerPersist(e) => Store(SetEndpoint(networks, e))
    BY DEF WorkerPersist
  <2>5. ListenStart(e) => Store(SetMetadata(networks, Home[e]))
    BY DEF ListenStart
  <2>6. DockerRemoveEndpoint(e) =>
          UNCHANGED cacheVars \/ Store(DeleteEndpoints(networks, {e}))
    BY DEF DockerRemoveEndpoint
  <2> QED
    BY <1>2, <1>4, <2>2, <2>3, <2>4, <2>5, <2>6
    DEF EndpointStep, DockerCreateEndpoint, EndpointOperInfo, OptionsGet,
        OptionsFail
<1>5. CASE ReconcileList
  BY <1>5 DEF ReconcileList
<1>6. CASE ReconcileApply
  <2>1. Good(Reconciled(networks, listing))
    BY <1>1, ListingTypes, ReconciledHas
  <2>2. Store(Reconciled(networks, listing)) \/ Remapped(Reconciled(networks, listing))
    BY <1>6 DEF ReconcileApply, Remapped
  <2> QED BY <1>2, <2>1, <2>2 DEF Stores
<1> QED BY <1>3, <1>4, <1>5, <1>6 DEF Next, Stores

\* A restart stores the reconciled file, or takes it as it is: if that is not what the
\* file has, it is known not to be.
LEMMA RestartStores ==
  ASSUME Types, Restart
  PROVE  \E c : /\ Good(c)
                /\ \/ Store(c)
                   \/ /\ networks' = c /\ UNCHANGED <<disk, failures>>
                      /\ unsaved' \in BOOLEAN
                      /\ ~unsaved' => Alike(disk', networks')
<1>1. Good(disk) /\ Good(Empty) /\ CallTypes
  BY TypeParts, EmptyIsGood DEF StoreTypesOK
<1> DEFINE seen == [nets |-> Listed, active |-> Active]
<1>2. seen.nets = Listed /\ seen.active = Active
  OBVIOUS
<1> HIDE DEF seen
<1>3. PICK loaded \in {disk, Empty} :
        \/ ~Alike(Reconciled(loaded, seen), loaded) /\ Store(Reconciled(loaded, seen))
        \/ /\ \/ networks' = loaded
              \/ networks' = Reconciled(loaded, seen) /\ Alike(networks', loaded)
           /\ unsaved' = (loaded # disk) /\ UNCHANGED <<disk, failures>>
  BY DEF Restart, seen
<1>4. Good(loaded) /\ Good(Reconciled(loaded, seen))
  BY <1>1, <1>2, ListingTypes, ReconciledHas
<1> QED BY <1>3, <1>4 DEF Alike

LEMMA StepTypes == ASSUME Types, [Next]_vars PROVE Types'
<1>1. CallTypes /\ StoreTypesOK
  BY TypeParts
<1>2. CallTypes'
  <2>1. CASE UNCHANGED vars
    BY <1>1, <2>1 DEF vars, dockerVars, callVars, procVars, CallTypes
  <2> QED BY <1>1, <2>1, NetworkCallTypes, EndpointCallTypes, ProcessCallTypes DEF Next
<1>3. StoreTypesOK'
  <2>1. CASE UNCHANGED cacheVars
    BY <1>1, <2>1 DEF cacheVars, StoreTypesOK
  <2>2. ASSUME NEW c \in Cache, WellFormed(c), Store(c) \/ Remapped(c)
        PROVE  StoreTypesOK'
    BY <1>1, <2>2, StoreTypes DEF Good, StoreTypesOK, Remapped
  <2>3. CASE Crash
    <3>1. unsaved' \in BOOLEAN
      BY <2>3 DEF Crash
    <3> QED BY <1>1, <2>3, <3>1, EmptyIsGood DEF Crash, StoreTypesOK
  <2>4. CASE Restart
    <3>1. PICK c : /\ Good(c)
                   /\ \/ Store(c)
                      \/ /\ networks' = c /\ UNCHANGED <<disk, failures>>
                         /\ unsaved' \in BOOLEAN
      BY <2>4, RestartStores
    <3> QED BY <1>1, <3>1, StoreTypes DEF StoreTypesOK
  <2>5. CASE UNCHANGED vars
    BY <2>1, <2>5 DEF vars
  <2> QED BY <2>1, <2>2, <2>3, <2>4, <2>5, CacheStep
<1>4. (Types <=> CallTypes /\ StoreTypesOK)'
  BY TypeParts, PTL
<1> QED BY <1>2, <1>3, <1>4

----------------------------------------------------------------------------
(* The invariant.                                                           *)

LEMMA InitInv == ASSUME Init PROVE CacheInv
<1>1. Types
  BY InitTypes
<1>2. DiskIsCurrent /\ DownIsEmpty
  BY DEF Init, NoListing, DiskIsCurrent, DownIsEmpty
<1>3. CreatingIsCalled /\ EndpointHoldsNetwork /\ ListingIsClosed
  BY HomeAssumption
  DEF Init, NoListing, CreatingIsCalled, EndpointHoldsNetwork, ListingIsClosed
<1> QED BY <1>1, <1>2, <1>3 DEF CacheInv

LEMMA StepDisk == ASSUME CacheInv, Next PROVE DiskIsCurrent'
<1> USE DEF CacheInv
<1>1. CASE UNCHANGED cacheVars /\ (up' => up)
  BY <1>1 DEF cacheVars, DiskIsCurrent
<1>2. ASSUME NEW c \in Cache, WellFormed(c), Store(c) PROVE DiskIsCurrent'
  BY <1>2, StoreTypes DEF Good, DiskIsCurrent
<1>a. ASSUME NEW c \in Cache, Remapped(c), up' = up PROVE DiskIsCurrent'
  BY <1>a DEF Remapped, Alike, DiskIsCurrent
<1>3. CASE Crash
  BY <1>3 DEF Crash, DiskIsCurrent
<1>4. CASE Restart
  <2>1. PICK c : /\ Good(c)
                 /\ Store(c) \/ (~unsaved' => Alike(disk', networks'))
    BY <1>4, RestartStores
  <2> QED BY <2>1, StoreTypes DEF DiskIsCurrent
<1>5. CASE ~Crash /\ ~Restart
  <2>1. up' = up
    BY <1>5 DEF Next, NetworkStep, EndpointStep, DockerCreateNetwork,
         CreateNetworkCheck, CreateNetworkSet, DockerDeleteNetwork, DeleteNetwork,
         DockerCreateEndpoint, EndpointOperInfo, DockerRemoveEndpoint, OptionsGet,
         OptionsSet, OptionsFail, WorkerPersist, ListenStart, ReconcileList,
         ReconcileApply, procVars
  <2> QED BY <1>1, <1>2, <1>a, <1>5, <2>1, CacheStep
<1> QED BY <1>3, <1>4, <1>5

\* The part of the invariant that relates Docker, the calls and the process.
Control == DownIsEmpty /\ CreatingIsCalled /\ EndpointHoldsNetwork /\ ListingIsClosed

LEMMA NetworkControl ==
  ASSUME CallTypes, Control, NEW n \in Network, NetworkStep(n) PROVE Control'
<1> USE HomeAssumption
    DEF CallTypes, Control, DownIsEmpty, CreatingIsCalled, EndpointHoldsNetwork,
        ListingIsClosed, procVars, callVars
<1>1. CASE DockerCreateNetwork(n)
  BY <1>1 DEF DockerCreateNetwork
<1>2. CASE CreateNetworkCheck(n)
  BY <1>2 DEF CreateNetworkCheck, CreateNetworkRejected
<1>3. CASE CreateNetworkSet(n)
  BY <1>3 DEF CreateNetworkSet, CreateNetworkRejected
<1>4. CASE DockerDeleteNetwork(n)
  BY <1>4 DEF DockerDeleteNetwork, cacheVars
<1>5. CASE DeleteNetwork(n)
  BY <1>5 DEF DeleteNetwork
<1> HIDE DEF Control
<1> QED BY <1>1, <1>2, <1>3, <1>4, <1>5 DEF NetworkStep

LEMMA EndpointControl ==
  ASSUME CallTypes, Control, NEW e \in Endpoint, EndpointStep(e) PROVE Control'
<1> USE HomeAssumption
    DEF CallTypes, Control, DownIsEmpty, CreatingIsCalled, EndpointHoldsNetwork,
        ListingIsClosed, procVars, dockerVars, callVars
<1>1. CASE DockerCreateEndpoint(e)
  BY <1>1 DEF DockerCreateEndpoint
<1>2. CASE EndpointOperInfo(e)
  BY <1>2 DEF EndpointOperInfo
<1>3. CASE DockerRemoveEndpoint(e)
  BY <1>3 DEF DockerRemoveEndpoint, cacheVars
<1>4. CASE OptionsGet(e)
  BY <1>4 DEF OptionsGet, Answer, Refuse, Proceed
<1>5. CASE OptionsSet(e)
  BY <1>5 DEF OptionsSet, Answer, Refuse, Proceed
<1>6. CASE OptionsFail(e)
  BY <1>6 DEF OptionsFail, Refuse
<1>7. CASE WorkerPersist(e)
  BY <1>7 DEF WorkerPersist
<1>8. CASE ListenStart(e)
  BY <1>8 DEF ListenStart
<1> HIDE DEF Control
<1> QED BY <1>1, <1>2, <1>3, <1>4, <1>5, <1>6, <1>7, <1>8 DEF EndpointStep

LEMMA ProcessControl ==
  ASSUME CallTypes, Control, ReconcileList \/ ReconcileApply \/ Crash \/ Restart
  PROVE  Control'
<1> USE HomeAssumption
    DEF CallTypes, Control, DownIsEmpty, CreatingIsCalled, EndpointHoldsNetwork,
        ListingIsClosed, procVars, dockerVars, callVars
<1>1. CASE ReconcileList
  BY <1>1 DEF ReconcileList, Listed, Active
<1>2. CASE ReconcileApply
  BY <1>2 DEF ReconcileApply, NoListing
<1>3. CASE Crash
  BY <1>3 DEF Crash, NoListing
<1>4. CASE Restart
  BY <1>4 DEF Restart
<1> HIDE DEF Control
<1> QED BY <1>1, <1>2, <1>3, <1>4

LEMMA StepInv == ASSUME CacheInv, [Next]_vars PROVE CacheInv'
<1>1. CASE UNCHANGED vars
  BY <1>1, StepTypes
  DEF CacheInv, DiskIsCurrent, DownIsEmpty, CreatingIsCalled, EndpointHoldsNetwork,
      ListingIsClosed, vars, dockerVars, callVars, cacheVars, procVars
<1>2. CASE Next
  <2>1. CallTypes /\ Control
    BY TypeParts DEF CacheInv, Control
  <2>2. Control'
    BY <1>2, <2>1, NetworkControl, EndpointControl, ProcessControl DEF Next
  <2> QED BY <1>2, <2>2, StepTypes, StepDisk DEF CacheInv, Control
<1> QED BY <1>1, <1>2

LEMMA Invariance == Spec => []CacheInv
  BY InitInv, StepInv, PTL DEF Spec

\* The types are kept: an entry exists before it has options or endpoints.
THEOREM TypeCorrect == Spec => []TypeOK
<1>1. CacheInv => TypeOK
  BY DEF CacheInv, Types
<1> QED BY <1>1, Invariance, PTL

\* While the plugin runs networks.json has what the memory has, but for the
\* ContainerMaps, unless its last read or write failed, whatever handlers, goroutines
\* and Reconcile interleave.
THEOREM DiskCurrent == Spec => []DiskIsCurrent
<1>1. CacheInv => DiskIsCurrent
  BY DEF CacheInv
<1> QED BY <1>1, Invariance, PTL

----------------------------------------------------------------------------
(* What the cache never loses.                                              *)

KeepsAttached ==
  \A e \in networks.endpoints \ networks'.endpoints :
    phase[e] = "joined" /\ phase'[e] = "joined" =>
      ~up' \/ (listing.open /\ e \notin listing.active)

KeepsOptions ==
  \A n \in networks.options \ networks'.options :
    docker[n] = "exists" /\ docker'[n] = "exists" =>
      ~up' \/ (listing.open /\ n \notin listing.nets)

\* A step that leaves the cache alone or only adds to it.
Grows == /\ networks.endpoints \subseteq networks'.endpoints
         /\ networks.options \subseteq networks'.options

LEMMA GrowthKeeps == Grows => KeepsAttached /\ KeepsOptions
  BY DEF Grows, KeepsAttached, KeepsOptions

LEMMA StoreIs == ASSUME NEW c, Store(c) PROVE networks' = c
  BY DEF Store, Saved, Unsaved

\* Of a network's steps only DeleteNetwork takes anything away, and then Docker has
\* the network no more: no endpoint of it is attached.
LEMMA NetworkKeeps ==
  ASSUME CallTypes, Control, Good(networks), NEW n \in Network, NetworkStep(n)
  PROVE  KeepsAttached /\ KeepsOptions
<1>1. CASE DeleteNetwork(n)
  <2>1. networks' = Delete(networks, {n})
    BY <1>1, StoreIs DEF DeleteNetwork
  <2>2. docker[n] = "deleting" /\ docker'[n] = "gone"
    BY <1>1 DEF DeleteNetwork, CallTypes
  <2>3. ASSUME NEW e \in networks.endpoints \ networks'.endpoints
        PROVE  phase[e] # "joined"
    <3>1. e \in Endpoint /\ Home[e] = n
      BY <2>1, <2>3 DEF Delete, Good, Cache
    <3>2. phase[e] \in {"none", "gone"}
      BY <2>2, <3>1 DEF Control, EndpointHoldsNetwork
    <3> QED BY <3>2
  <2>4. networks.options \ networks'.options \subseteq {n}
    BY <2>1 DEF Delete
  <2> QED BY <2>2, <2>3, <2>4 DEF KeepsAttached, KeepsOptions
<1>2. CASE CreateNetworkSet(n)
  <2>1. networks' = Set(networks, n)
    BY <1>2, StoreIs DEF CreateNetworkSet, Store
  <2> QED BY <2>1, GrowthKeeps DEF Grows, Set, Optioned, Good, Cache
<1>3. CASE DockerCreateNetwork(n) \/ CreateNetworkCheck(n) \/ DockerDeleteNetwork(n)
  BY <1>3, GrowthKeeps
  DEF DockerCreateNetwork, CreateNetworkCheck, DockerDeleteNetwork, cacheVars, Grows
<1> QED BY <1>1, <1>2, <1>3 DEF NetworkStep

\* Of an endpoint's steps only the one that detaches it does: no netOptions, late
\* goroutine or start event takes an entry or its options away.
LEMMA EndpointKeeps ==
  ASSUME CallTypes, Good(networks), NEW e \in Endpoint, EndpointStep(e)
  PROVE  KeepsAttached /\ KeepsOptions
<1>1. CASE DockerRemoveEndpoint(e)
  <2>1. phase'[e] = "gone"
    BY <1>1 DEF DockerRemoveEndpoint, CallTypes
  <2>2. networks' = networks \/ networks' = DeleteEndpoints(networks, {e})
    BY <1>1, StoreIs DEF DockerRemoveEndpoint, cacheVars
  <2> QED BY <2>1, <2>2 DEF KeepsAttached, KeepsOptions,
         DeleteEndpoints, Good, Cache
<1>2. CASE OptionsSet(e)
  <2>1. networks' = Set(networks, Home[e])
    BY <1>2, StoreIs DEF OptionsSet
  <2> QED BY <2>1, GrowthKeeps DEF Grows, Set, Optioned, Good, Cache
<1>3. CASE WorkerPersist(e)
  <2>1. networks' = SetEndpoint(networks, e)
    BY <1>3, StoreIs DEF WorkerPersist
  <2> QED BY <2>1, GrowthKeeps DEF Grows, SetEndpoint, Good, Cache
<1>4. CASE ListenStart(e)
  <2>1. networks' = SetMetadata(networks, Home[e])
    BY <1>4, StoreIs DEF ListenStart
  <2> QED BY <2>1, GrowthKeeps DEF Grows, SetMetadata, Good, Cache
<1>5. CASE DockerCreateEndpoint(e) \/ EndpointOperInfo(e) \/ OptionsGet(e)
             \/ OptionsFail(e)
  BY <1>5, GrowthKeeps
  DEF DockerCreateEndpoint, EndpointOperInfo, OptionsGet, OptionsFail, cacheVars,
      Grows
<1> QED BY <1>1, <1>2, <1>3, <1>4, <1>5 DEF EndpointStep

\* Reconcile takes away what its listing does not show, and its listing shows the
\* network of every endpoint it shows; a restart finds an empty memory.
LEMMA ProcessKeeps ==
  ASSUME CallTypes, Control, Good(networks),
         ReconcileList \/ ReconcileApply \/ Crash \/ Restart
  PROVE  KeepsAttached /\ KeepsOptions
<1>1. CASE ReconcileList
  BY <1>1, GrowthKeeps DEF ReconcileList, cacheVars, Grows
<1>2. CASE ReconcileApply
  <2>1. listing.open /\ networks' = Reconciled(networks, listing)
    BY <1>2, StoreIs DEF ReconcileApply
  <2>2. /\ networks.options \cap listing.nets \subseteq networks'.options
        /\ \A e \in networks.endpoints \cap listing.active :
             Home[e] \in listing.nets => e \in networks'.endpoints
    BY <2>1, ListingTypes, ReconciledHas
  <2> QED BY <2>1, <2>2 DEF KeepsAttached, KeepsOptions, Control, ListingIsClosed
<1>3. CASE Crash
  BY <1>3 DEF Crash, KeepsAttached, KeepsOptions
<1>4. CASE Restart
  BY <1>4 DEF Restart, Control, DownIsEmpty, Empty, KeepsAttached, KeepsOptions
<1> QED BY <1>1, <1>2, <1>3, <1>4

LEMMA StepKeeps ==
  CacheInv /\ [Next]_vars => [KeepsAttached]_vars /\ [KeepsOptions]_vars
<1> SUFFICES ASSUME CacheInv, Next PROVE KeepsAttached /\ KeepsOptions
  OBVIOUS
<1>1. CallTypes /\ Control /\ Good(networks)
  BY TypeParts DEF CacheInv, Control, StoreTypesOK
<1> QED BY <1>1, NetworkKeeps, EndpointKeeps, ProcessKeeps DEF Next

\* The entry of an attached endpoint is lost only to a listing taken before it was
\* attached, or with the process.
THEOREM AttachedKept == Spec => AttachedIsKept
  BY StepKeeps, Invariance, PTL DEF Spec, AttachedIsKept, KeepsAttached

\* The options of an existing network are lost only to a listing taken before it
\* was created, or with the process: nothing else makes a placeholder of its entry.
THEOREM OptionsKept == Spec => OptionsAreKept
  BY StepKeeps, Invariance, PTL DEF Spec, OptionsAreKept, KeepsOptions

----------------------------------------------------------------------------
(* Bridges.                                                                 *)

LEMMA BridgeInit == ASSUME Init PROVE BridgeInv
<1>1. Passed = Listed /\ unseen = Undecodable
  BY DEF Init, Passed
<1> QED BY <1>1 DEF Init, BridgeInv, PassedApart

\* A network passes the check unseen, or no network past it has its bridge.
LEMMA CheckedApart ==
  ASSUME CallTypes, BridgeInv, NEW n \in Network, CreateNetworkCheck(n)
  PROVE  BridgeInv'
<1>1. CASE CreateNetworkRejected(n) /\ UNCHANGED unseen
  <2>1. Passed' \subseteq Passed
    BY <1>1 DEF CreateNetworkRejected, CallTypes, Passed, Listed
  <2> QED BY <1>1, <2>1 DEF BridgeInv, PassedApart, Shared
<1>2. CASE /\ creating' = [creating EXCEPT ![n] = "set"] /\ UNCHANGED docker
           /\ \/ /\ ~InUse(n)
                 /\ unseen' = IF \E m \in Network : creating[m] = "set"
                                THEN unseen \cup {n} ELSE unseen
              \/ unseen' = unseen \cup {n}
  <2>1. Passed' = Passed \cup {n} /\ unseen \subseteq unseen'
    BY <1>2 DEF CallTypes, Passed, Listed
  <2>2. n \in unseen' \/ \A m \in Passed : Shared(m, n) => m \in Undecodable
    BY <1>2 DEF Passed, InUse
  <2> QED BY <2>1, <2>2 DEF BridgeInv, PassedApart, Shared
<1> QED BY <1>1, <1>2 DEF CreateNetworkCheck

\* The other steps of a network do not take it past the check.
LEMMA NetworkBridges ==
  ASSUME CallTypes, CreatingIsCalled, BridgeInv, NEW n \in Network, NetworkStep(n)
  PROVE  BridgeInv'
<1>1. CASE CreateNetworkCheck(n)
  BY <1>1, CheckedApart
<1>2. CASE ~CreateNetworkCheck(n)
  <2>1. Passed' \subseteq Passed /\ UNCHANGED unseen
    BY <1>2 DEF NetworkStep, DockerCreateNetwork, CreateNetworkSet,
       CreateNetworkRejected, DockerDeleteNetwork, DeleteNetwork, callVars,
       CallTypes, CreatingIsCalled, Passed, Listed
  <2> QED BY <2>1 DEF BridgeInv, PassedApart, Shared
<1> QED BY <1>1, <1>2

LEMMA BridgeStep ==
  ASSUME CacheInv, BridgeInv, [Next]_vars
  PROVE  BridgeInv'
<1>1. CallTypes /\ CreatingIsCalled
  BY TypeParts DEF CacheInv
<1>2. ASSUME UNCHANGED <<docker, creating, unseen>> PROVE BridgeInv'
  BY <1>2 DEF BridgeInv, PassedApart, Passed, Listed, Shared
<1>3. ASSUME NEW e \in Endpoint, EndpointStep(e)
      PROVE  UNCHANGED <<docker, creating, unseen>>
  BY <1>3 DEF EndpointStep, DockerCreateEndpoint, EndpointOperInfo,
     DockerRemoveEndpoint, OptionsGet, OptionsSet, OptionsFail, WorkerPersist,
     ListenStart, dockerVars, callVars
<1>4. ReconcileList \/ ReconcileApply \/ Restart
        => UNCHANGED <<docker, creating, unseen>>
  BY DEF ReconcileList, ReconcileApply, Restart, dockerVars, callVars
<1>5. CASE Crash
  <2>1. Passed' \subseteq Passed /\ UNCHANGED unseen
    BY <1>1, <1>5 DEF Crash, CallTypes, Passed, Listed
  <2> QED BY <2>1 DEF BridgeInv, PassedApart, Shared
<1>6. UNCHANGED vars => UNCHANGED <<docker, creating, unseen>>
  BY DEF vars, dockerVars, callVars
<1> QED BY <1>1, <1>2, <1>3, <1>4, <1>5, <1>6, NetworkBridges DEF Next

\* Two networks of Docker share a bridge only if CreateNetwork did not look or could
\* not see for one of them, however many are created at the same time, whatever fails
\* and whatever the cache holds.
THEOREM SharedOnlyUnseen == Spec => []OnlyUnseenShare
<1>1. BridgeInv => OnlyUnseenShare
  BY DEF BridgeInv, PassedApart, Passed, OnlyUnseenShare
<1>2. CacheInv /\ BridgeInv /\ [Next]_vars => BridgeInv'
  BY BridgeStep
<1> QED BY <1>1, <1>2, BridgeInit, Invariance, PTL DEF Spec
=============================================================================
