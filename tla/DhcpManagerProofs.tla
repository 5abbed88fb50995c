------------------------- MODULE DhcpManagerProofs -------------------------
(***************************************************************************)
(* Proofs about DhcpManager, for any leases and any bounds: types, that no *)
(* udhcpc is left without a supervisor, that the interface follows the     *)
(* lease, and that each family implements SupervisedClient.                *)
(***************************************************************************)
EXTENDS DhcpManager, TLAPS

(* The inductive invariant.                                                 *)

\* Nothing is set up before Start has returned.
NotSetUpEarly == start # "up" => \A f \in Family : supervisor[f] = "none"

\* Another process is only found under the PID when both set-ups are over.
ForeignIsLate == foreign => SetupOver

\* The handles are opened on an interface that agrees with the hint of Join.
TracksLease ==
  origin = "join" /\ refused = 0 /\ (handles \/ start = "await") => Agree

Supervision == NotSetUpEarly /\ ForeignIsLate /\ ClientIsSupervised

ManagerInv == TypeOK /\ Supervision /\ TracksLease

----------------------------------------------------------------------------
(* Types.                                                                   *)

\* What a lease event carries: the address and the gateway of a lease, or neither;
\* no gateway if it is an IPv6 lease.
LEMMA LeaseEvent ==
  ASSUME ChannelTypeOK, NEW f \in Family, channel[f].type = "lease"
  PROVE  /\ channel[f].ip \in Address \cup {Nobody}
         /\ channel[f].gw \in Gateway
         /\ channel[f].ip # Nobody =>
              \E l \in Lease : /\ l.ip = channel[f].ip
                               /\ f = "v4" => l.gw = channel[f].gw
<1>1. channel[f] \in Event(f) \cup {NoEvent}
  BY DEF ChannelTypeOK
<1>2. channel[f] # NoEvent /\ channel[f] # [type |-> "collision"]
  BY DEF NoEvent
<1>3. CASE channel[f] = NoMask
  BY <1>3 DEF NoMask, Gateway
<1>4. CASE \E l \in Lease : \E g \in Gateway :
             /\ channel[f] = [type |-> "lease", ip |-> l.ip, gw |-> g]
             /\ f = "v4" => g = l.gw
  BY <1>4 DEF Address
<1>5. channel[f] = NoMask \/ \E l \in Lease : \E g \in Gateway :
             /\ channel[f] = [type |-> "lease", ip |-> l.ip, gw |-> g]
             /\ f = "v4" => g = l.gw
  BY <1>1, <1>2 DEF Event, Gateway
<1> QED BY <1>3, <1>4, <1>5

\* One event put in or taken out of a channel.
LEMMA ChannelUpdate ==
  ASSUME ChannelTypeOK, NEW f \in Family, NEW e \in Event(f) \cup {NoEvent},
         channel' = [channel EXCEPT ![f] = e]
  PROVE  ChannelTypeOK'
  BY DEF ChannelTypeOK

\* The initial lease is a lease.
LEMMA FirstTypes ==
  /\ First.ip \in Address /\ Pinned \in Address
  /\ First.gw \in Gateway /\ Nobody \in Gateway
  BY LeaseAssumption DEF Address, Gateway

LEMMA InitTypes == ASSUME Init PROVE TypeOK
<1>1. LastIP \in [Family -> Address \cup {Nobody}]
  BY FirstTypes DEF Init
<1>2. addrs \in [Family -> SUBSET Address]
  BY FirstTypes DEF Init
<1>3. route \in Gateway
  BY FirstTypes DEF Init
<1>4. /\ refused \in 0 .. MaxRefused
      /\ exits \in 0 .. MaxExits /\ delivered \in 0 .. MaxEvents
  BY BoundsAssumption DEF Init
<1>5. ChannelTypeOK
  BY DEF Init, ChannelTypeOK
<1> QED BY <1>1, <1>2, <1>3, <1>4, <1>5 DEF Init, TypeOK, SupervisorState

\* renew keeps the types, whatever address it is given.
LEMMA RenewTypes ==
  ASSUME TypeOK, NEW f \in Family, NEW ip \in Address \cup {Nobody},
         NEW gw \in Gateway, NEW failed, Renew(f, ip, gw, failed)
  PROVE  /\ LastIP' \in [Family -> Address \cup {Nobody}]
         /\ addrs' \in [Family -> SUBSET Address]
         /\ route' \in Gateway
<1>1. Addressed(f, ip, failed) \in SUBSET Address \/ ip = Nobody
  BY DEF TypeOK, Addressed, Remaining
<1>2. Routed(f, ip, gw, failed) \in Gateway
  BY FirstTypes DEF TypeOK, Routed
<1> QED BY <1>1, <1>2 DEF TypeOK, Renew

\* The world's steps keep the types.
LEMMA WorldTypes ==
  ASSUME TypeOK, NEW f \in Family,
         \/ \E e \in Event(f) : Deliver(f, e)
         \/ ClientExits(f) \/ NetnsRemoved \/ PidReused
  PROVE  TypeOK'
<1> USE BoundsAssumption DEF TypeOK, setting, path, lease
<1>a. UNCHANGED channel => ChannelTypeOK'
  BY DEF ChannelTypeOK
<1>1. ASSUME NEW e \in Event(f), Deliver(f, e) PROVE TypeOK'
  <2>1. ChannelTypeOK'
    BY <1>1, ChannelUpdate DEF Deliver
  <2> QED BY <1>1, <2>1 DEF Deliver
<1>2. CASE ClientExits(f)
  <2>1. clients[f] \in Nat /\ clients[f] > 0
    BY <1>2 DEF ClientExits
  <2>2. clients' \in [Family -> Nat]
    BY <1>2, <2>1 DEF ClientExits
  <2> QED BY <1>2, <1>a, <2>2 DEF ClientExits
<1>3. CASE NetnsRemoved
  BY <1>3, <1>a DEF NetnsRemoved
<1>4. CASE PidReused
  BY <1>4, <1>a DEF PidReused
<1> HIDE DEF TypeOK
<1> QED BY <1>1, <1>2, <1>3, <1>4

\* So do Start, Stop and the set-ups.
LEMMA StartTypes ==
  ASSUME TypeOK,
         \/ OpenHandles \/ LinkFound \/ StartGivesUp
         \/ SetupStep \/ Stop \/ CloseHandles
  PROVE  TypeOK'
<1> USE DEF TypeOK, setting, path, lease, SupervisorState
<1>a. UNCHANGED channel => ChannelTypeOK'
  BY DEF ChannelTypeOK
<1>1. CASE OpenHandles  BY <1>1, <1>a DEF OpenHandles
<1>2. CASE LinkFound    BY <1>2, <1>a DEF LinkFound
<1>3. CASE StartGivesUp BY <1>3, <1>a DEF StartGivesUp
<1>4. ASSUME NEW f \in Family, Setup(f) PROVE TypeOK'
  BY <1>4, <1>a DEF Setup, Goto
<1>5. ASSUME NEW f \in Family, SetupFails(f) PROVE TypeOK'
  BY <1>5, <1>a DEF SetupFails, Goto
<1>6. CASE Stop         BY <1>6, <1>a DEF Stop
<1>7. CASE CloseHandles BY <1>7, <1>a DEF CloseHandles
<1> HIDE DEF TypeOK
<1> QED BY <1>1, <1>2, <1>3, <1>4, <1>5, <1>6, <1>7 DEF SetupStep

\* So do the steps of a supervisor.
LEMMA SuperviseTypes ==
  ASSUME TypeOK, NEW f \in Family, Supervise(f) PROVE TypeOK'
<1> USE DEF TypeOK, setting, path, lease, SupervisorState, Goto, Onward
<1>a. /\ UNCHANGED channel => ChannelTypeOK'
      /\ channel' = [channel EXCEPT ![f] = NoEvent] => ChannelTypeOK'
  BY ChannelUpdate DEF ChannelTypeOK
<1>1. CASE HandleLease(f)
  <2>1. PICK failed :
          /\ Renew(f, channel[f].ip, channel[f].gw, failed)
          /\ IF failed = {} THEN UNCHANGED refused
                            ELSE refused < MaxRefused /\ refused' = refused + 1
    BY <1>1 DEF HandleLease
  <2>2. /\ LastIP' \in [Family -> Address \cup {Nobody}]
        /\ addrs' \in [Family -> SUBSET Address]
        /\ route' \in Gateway
    BY <1>1, <2>1, LeaseEvent, RenewTypes DEF HandleLease
  <2>3. refused' \in 0 .. MaxRefused
    BY <2>1, BoundsAssumption
  <2> QED BY <1>1, <1>a, <2>2, <2>3 DEF HandleLease
<1>2. CASE HandleCollision(f) BY <1>2, <1>a DEF HandleCollision
<1>3. CASE BackoffEnds(f)     BY <1>3, <1>a DEF BackoffEnds
<1>4. CASE PipeClosed(f)      BY <1>4, <1>a DEF PipeClosed
<1>5. CASE StopSeen(f)        BY <1>5, <1>a DEF StopSeen
<1>6. CASE Release(f)         BY <1>6, <1>a DEF Release
<1>7. CASE WaitEnds(f)        BY <1>7, <1>a DEF WaitEnds
<1>8. CASE StartClient(f)     BY <1>8, <1>a DEF StartClient
<1>9. CASE StartFails(f)      BY <1>9, <1>a DEF StartFails
<1> HIDE DEF TypeOK
<1> QED
  BY <1>1, <1>2, <1>3, <1>4, <1>5, <1>6, <1>7, <1>8, <1>9 DEF Supervise

----------------------------------------------------------------------------
(* The supervisors and their clients.                                       *)

\* Steps that leave the supervisors, their clients and Start alone.
LEMMA SupervisionFrame ==
  ASSUME Supervision, UNCHANGED <<ipv6, start, supervisor, clients>>,
         foreign' => foreign \/ SetupOver
  PROVE  Supervision'
  BY DEF Supervision, NotSetUpEarly, ForeignIsLate, ClientIsSupervised, SetupOver, At

\* The world's steps: only ClientExits changes the number of clients.
LEMMA WorldSupervision ==
  ASSUME TypeOK, Supervision, NEW f \in Family,
         \/ \E e \in Event(f) : Deliver(f, e)
         \/ ClientExits(f) \/ NetnsRemoved \/ PidReused
  PROVE  Supervision'
<1> USE DEF setting, path
<1>1. ASSUME NEW e \in Event(f), Deliver(f, e) PROVE Supervision'
  BY <1>1, SupervisionFrame DEF Deliver
<1>2. CASE ClientExits(f)
  <2>1. ClientIsSupervised'
    BY <1>2 DEF ClientExits, Supervision, ClientIsSupervised, TypeOK
  <2> QED
    BY <1>2, <2>1 DEF ClientExits, Supervision, NotSetUpEarly, ForeignIsLate,
       SetupOver, At
<1>3. CASE NetnsRemoved
  BY <1>3, SupervisionFrame DEF NetnsRemoved
<1>4. CASE PidReused
  BY <1>4, SupervisionFrame DEF PidReused
<1> QED BY <1>1, <1>2, <1>3, <1>4

\* Start comes before the set-ups, the set-ups before Stop.
LEMMA StartSupervision ==
  ASSUME TypeOK, Supervision,
         \/ OpenHandles \/ LinkFound \/ StartGivesUp
         \/ SetupStep \/ Stop \/ CloseHandles
  PROVE  Supervision'
<1> USE DEF setting, path
<1>1. CASE OpenHandles \/ LinkFound \/ StartGivesUp
  <2>1. \A f \in Family : supervisor[f] = "none"
    BY <1>1 DEF OpenHandles, LinkFound, StartGivesUp, Supervision, NotSetUpEarly
  <2>2. UNCHANGED <<ipv6, supervisor, clients, foreign>>
    BY <1>1 DEF OpenHandles, LinkFound, StartGivesUp
  <2> QED
    BY <2>1, <2>2 DEF Supervision, NotSetUpEarly, ForeignIsLate,
       ClientIsSupervised, SetupOver, At
<1>2. ASSUME NEW f \in Family, Setup(f) \/ SetupFails(f) PROVE Supervision'
  <2>1. start = "up" /\ At(f, "none")
    BY <1>2 DEF Setup, SetupFails, SetupTurn
  <2>2. ~foreign
    BY <1>2 DEF Setup, SetupFails, SetupTurn, Supervision, ForeignIsLate,
       SetupOver, At, Family
  <2>3. ClientIsSupervised'
    BY <1>2, <2>1 DEF Setup, SetupFails, Goto, At, Supervision,
       ClientIsSupervised, TypeOK
  <2> QED
    BY <1>2, <2>1, <2>2, <2>3 DEF Setup, SetupFails, Supervision, NotSetUpEarly,
       ForeignIsLate
<1>3. CASE Stop
  BY <1>3, SupervisionFrame DEF Stop
<1>4. CASE CloseHandles
  BY <1>4, SupervisionFrame DEF CloseHandles
<1> QED BY <1>1, <1>2, <1>3, <1>4 DEF SetupStep

\* A supervisor that is set up stays set up ...
LEMMA StaysSetUp ==
  ASSUME TypeOK, NEW f \in Family, Supervise(f)
  PROVE  /\ ~At(f, "none") /\ ~(At(f, "none"))'
         /\ \A g \in Family : At(g, "none") <=> At(g, "none")'
         /\ UNCHANGED <<setting, path, stopped>>
<1> USE DEF At, Goto, TypeOK, Onward, Family, SupervisorState
<1>1. CASE HandleLease(f)     BY <1>1 DEF HandleLease
<1>2. CASE HandleCollision(f) BY <1>2 DEF HandleCollision
<1>3. CASE BackoffEnds(f)     BY <1>3 DEF BackoffEnds
<1>4. CASE PipeClosed(f)      BY <1>4 DEF PipeClosed
<1>5. CASE StopSeen(f)        BY <1>5 DEF StopSeen
<1>6. CASE Release(f)         BY <1>6 DEF Release
<1>7. CASE WaitEnds(f)        BY <1>7 DEF WaitEnds
<1>8. CASE StartClient(f)     BY <1>8 DEF StartClient
<1>9. CASE StartFails(f)      BY <1>9 DEF StartFails
<1> HIDE DEF TypeOK, At
<1> QED
  BY <1>1, <1>2, <1>3, <1>4, <1>5, <1>6, <1>7, <1>8, <1>9 DEF Supervise

\* ... and leaves its loop over the events only through Release.
LEMMA SuperviseClients ==
  ASSUME TypeOK, ClientIsSupervised, NEW f \in Family, Supervise(f)
  PROVE  ClientIsSupervised'
<1> USE DEF At, Goto, TypeOK, Onward, ClientIsSupervised, SupervisorState
<1>1. CASE HandleLease(f)     BY <1>1 DEF HandleLease
<1>2. CASE HandleCollision(f) BY <1>2 DEF HandleCollision
<1>3. CASE BackoffEnds(f)     BY <1>3 DEF BackoffEnds
<1>4. CASE PipeClosed(f)      BY <1>4 DEF PipeClosed
<1>5. CASE StopSeen(f)        BY <1>5 DEF StopSeen
<1>6. CASE Release(f)         BY <1>6 DEF Release
<1>7. CASE WaitEnds(f)        BY <1>7 DEF WaitEnds
<1>8. CASE StartClient(f)     BY <1>8 DEF StartClient
<1>9. CASE StartFails(f)      BY <1>9 DEF StartFails
<1> HIDE DEF TypeOK, ClientIsSupervised
<1> QED
  BY <1>1, <1>2, <1>3, <1>4, <1>5, <1>6, <1>7, <1>8, <1>9 DEF Supervise

LEMMA SuperviseSupervision ==
  ASSUME TypeOK, Supervision, NEW f \in Family, Supervise(f)
  PROVE  Supervision'
<1>1. ClientIsSupervised'
  BY SuperviseClients DEF Supervision
<1>2. start = "up" /\ UNCHANGED <<start, ipv6, foreign>>
  BY StaysSetUp DEF Supervision, NotSetUpEarly, At, setting, path
<1>3. SetupOver => SetupOver'
  BY <1>2, StaysSetUp DEF SetupOver
<1> QED BY <1>1, <1>2, <1>3 DEF Supervision, NotSetUpEarly, ForeignIsLate

----------------------------------------------------------------------------
(* The interface and the lease.                                             *)

\* Steps that leave the addresses, the route and the lease alone.
LEMMA AgreeFrame ==
  ASSUME UNCHANGED <<ipv6, lease>>
  PROVE  Agree <=> Agree'
  BY DEF lease, Agree, Leased

\* A lease all of whose calls are carried out is put on an interface that agreed
\* with the last one: the old address goes, the new one comes, and the route follows
\* if the lease names a gateway.
LEMMA LeaseAgrees ==
  ASSUME TypeOK, Agree, handles, NEW f \in Family, HandleLease(f),
         ~(refused' > refused)
  PROVE  Agree'
<1> DEFINE ip == channel[f].ip
           gw == channel[f].gw
<1>1. channel[f].type = "lease" /\ Renew(f, ip, gw, {}) /\ UNCHANGED ipv6
  <2>1. refused \in Nat
    BY BoundsAssumption DEF TypeOK
  <2>2. \A failed : ~(IF failed = {} THEN UNCHANGED refused
             ELSE refused < MaxRefused /\ refused' = refused + 1) \/ failed = {}
    BY <2>1
  <2> QED BY <2>2 DEF HandleLease, setting
<1>2. CASE ip = Nobody
  BY <1>1, <1>2 DEF Renew, Agree, Leased
<1>3. CASE ip # Nobody
  <2> DEFINE now == Addressed(f, ip, {})
  <2>1. /\ LastIP' = [LastIP EXCEPT ![f] = ip]
        /\ addrs' = [addrs EXCEPT ![f] = now]
        /\ route' = Routed(f, ip, gw, {})
    BY <1>1, <1>3 DEF Renew
  <2>2. CASE f # Leased
    <3>1. addrs'[Leased] = addrs[Leased] /\ LastIP'[Leased] = LastIP[Leased]
      BY <2>1, <2>2 DEF TypeOK, Leased, Family
    <3>2. ipv6 \/ route' = route
      BY <2>1, <2>2 DEF Routed, Calls, Leased, Family
    <3> QED BY <1>1, <3>1, <3>2 DEF Agree, Leased
  <2>3. CASE f = Leased
    <3>1. addrs[f] = {LastIP[f]} /\ LastIP[f] # Nobody
      BY <2>3, LeaseAssumption DEF Agree, TypeOK, Address, Pinned, Nobody
    <3>2. now = {ip}
      BY <3>1 DEF Addressed, Remaining, Moves
    <3> HIDE DEF now
    <3>3. addrs'[f] = {ip} /\ LastIP'[f] = ip
      BY <2>1, <3>2 DEF TypeOK
    <3>4. ipv6 \/ \E l \in Lease : l.ip = ip /\ (l.gw = route' \/ l.gw = Nobody)
      <4>1. PICK l \in Lease : l.ip = ip /\ (f = "v4" => l.gw = gw)
        BY <1>1, <1>3, LeaseEvent DEF TypeOK
      <4>2. ipv6 \/ gw = Nobody \/ route' = gw
        BY <2>1, <2>3, <3>2 DEF Routed, Calls, Leased, now
      <4> QED BY <2>3, <4>1, <4>2 DEF Leased
    <3> QED BY <1>1, <2>3, <3>3, <3>4 DEF Agree, Leased
  <2> QED BY <2>2, <2>3
<1> QED BY <1>2, <1>3

\* Handles are opened once, before Stop; while they are, agreement lasts.
LEMMA Tracking ==
  ASSUME TypeOK, Supervision, Next
  PROVE  /\ Agree /\ handles => Agree' \/ refused' > refused
         /\ TracksLease => TracksLease'
<1> USE DEF setting, path
<1>1. CASE \E f \in Family : HandleLease(f)
  <2>1. UNCHANGED <<origin, start, handles>> /\ start # "await"
    BY <1>1 DEF HandleLease, Supervision, NotSetUpEarly, At
  <2>2. refused \in Nat /\ refused' = 0 => refused = 0 /\ ~(refused' > refused)
    BY <1>1 DEF HandleLease
  <2>3. refused \in Nat
    BY BoundsAssumption DEF TypeOK
  <2> QED BY <1>1, <2>1, <2>2, <2>3, LeaseAgrees DEF TracksLease
<1>2. CASE /\ UNCHANGED <<ipv6, lease>>
           /\ (origin = "join" /\ (handles \/ start = "await"))'
                => origin = "join" /\ (handles \/ start = "await")
  BY <1>2, AgreeFrame DEF TracksLease, lease
<1>3. ASSUME NEW f \in Family,
             \/ ClientExits(f) \/ \E e \in Event(f) : Deliver(f, e)
             \/ Setup(f) \/ SetupFails(f)
      PROVE  UNCHANGED <<setting, handles, lease>>
  BY <1>3 DEF ClientExits, Deliver, Setup, SetupFails
<1>4. ASSUME NEW f \in Family, Supervise(f), ~HandleLease(f)
      PROVE  UNCHANGED <<setting, handles, lease>>
  BY <1>4 DEF Supervise, HandleCollision, BackoffEnds, PipeClosed, StopSeen,
     Release, WaitEnds, StartClient, StartFails
<1>5. CASE NetnsRemoved \/ PidReused \/ Stop
  BY <1>2, <1>5 DEF NetnsRemoved, PidReused, Stop
<1>6. CASE OpenHandles \/ LinkFound \/ StartGivesUp \/ CloseHandles
  BY <1>2, <1>6 DEF OpenHandles, LinkFound, StartGivesUp, CloseHandles
<1> QED BY <1>1, <1>2, <1>3, <1>4, <1>5, <1>6 DEF Next, SetupStep

----------------------------------------------------------------------------
(* The theorems.                                                            *)

\* The inductive invariant holds initially ...
LEMMA ManagerInit == Init => ManagerInv
<1> SUFFICES ASSUME Init PROVE ManagerInv
  OBVIOUS
<1>1. Supervision
  BY DEF Init, Supervision, NotSetUpEarly, ForeignIsLate, ClientIsSupervised
<1>2. TracksLease
  <2>1. origin = "join" => LastIP[Leased] = First.ip /\ addrs[Leased] = {First.ip}
    BY DEF Init, Leased, Family
  <2>2. ipv6 \/ (LastIP["v4"] = LastIP[Leased] /\ route = First.gw)
    BY DEF Init, Leased
  <2> QED BY <2>1, <2>2, LeaseAssumption DEF TracksLease, Agree
<1> QED BY <1>1, <1>2, InitTypes DEF ManagerInv

\* ... and every step keeps it.
LEMMA ManagerStep == ManagerInv /\ [Next]_vars => ManagerInv'
<1> SUFFICES ASSUME ManagerInv, [Next]_vars PROVE ManagerInv'
  OBVIOUS
<1> USE DEF ManagerInv
<1>1. CASE Next
  <2>1. TypeOK'
    BY <1>1, WorldTypes, StartTypes, SuperviseTypes DEF Next, Family
  <2>2. Supervision'
    BY <1>1, WorldSupervision, StartSupervision, SuperviseSupervision
       DEF Next, Family
  <2> QED BY <1>1, <2>1, <2>2, Tracking
<1>2. CASE UNCHANGED vars
  <2>1. TypeOK'
    BY <1>2 DEF vars, TypeOK, ChannelTypeOK, setting, path, lease
  <2>2. Supervision' /\ TracksLease'
    BY <1>2, SupervisionFrame, AgreeFrame DEF vars, setting, path, lease, TracksLease
  <2> QED BY <2>1, <2>2
<1> QED BY <1>1, <1>2

\* The manager keeps to its types, for any leases and any number of events.
THEOREM ManagerTypes == Spec => []TypeOK
<1>1. ManagerInv => TypeOK
  BY DEF ManagerInv
<1> QED BY <1>1, ManagerInit, ManagerStep, PTL DEF Spec

\* No udhcpc is left behind by a supervisor that ended, and none is alive when a
\* replacement starts in its namespace, wherever Stop and the removal of the
\* namespace meet the set-ups and the retry loop.
THEOREM NoStrayClient == Spec => []ClientIsSupervised
<1>1. ManagerInv => ClientIsSupervised
  BY DEF ManagerInv, Supervision
<1> QED BY <1>1, ManagerInit, ManagerStep, PTL DEF Spec

\* While the handles are open and the kernel has refused no call, the interface of a
\* container that Join connected has the address of its last lease, and the gateway
\* if it names one, for every sequence of leases of both families.
THEOREM InterfaceFollows == Spec => []AddressFollowsLease
<1>1. ManagerInv => AddressFollowsLease
  BY DEF ManagerInv, TracksLease, AddressFollowsLease
<1> QED BY <1>1, ManagerInit, ManagerStep, PTL DEF Spec

\* Once interface and lease agree, whoever made the manager and whatever the kernel
\* has refused before, only a renewal in which it refuses a call parts them.
THEOREM AgreementKept == Spec => AgreementLasts
<1>1. ManagerInv /\ [Next]_vars => 
             [Agree /\ handles /\ handles' => Agree' \/ refused' > refused]_vars
  BY Tracking DEF ManagerInv
<1> QED BY <1>1, ManagerInit, ManagerStep, PTL DEF Spec, AgreementLasts

----------------------------------------------------------------------------
(* Each family implements SupervisedClient.                                 *)

\* What a step may do to a supervisor, to Stop and to the namespace, as
\* EndpointLifecycle sees them.
PromisedStep(f) ==
  \/ UNCHANGED <<Seen(f), stopped, Alive>>
  \/ /\ Seen(f) = "none" /\ Alive /\ Seen(f)' = "running"
     /\ UNCHANGED <<stopped, Alive>>
  \/ /\ Seen(f) = "running" /\ (stopped \/ ~Alive) /\ Seen(f)' = "ended"
     /\ UNCHANGED <<stopped, Alive>>
  \/ stopped' = TRUE /\ UNCHANGED <<Seen(f), Alive>>
  \/ Alive' = FALSE /\ UNCHANGED <<Seen(f), stopped>>

\* A supervisor that is not the one that steps looks the same.
LEMMA SeenFrame ==
  ASSUME NEW f \in Family, UNCHANGED <<stopped, netns, foreign>>,
         supervisor'[f] = supervisor[f]
  PROVE  PromisedStep(f)
  BY DEF PromisedStep, Seen, Alive

\* The step of a supervisor: it ends only if it found the stop or no namespace.
LEMMA SuperviseSeen ==
  ASSUME TypeOK, NEW f \in Family, NEW g \in Family, Supervise(g)
  PROVE  PromisedStep(f)
<1> USE DEF At, Goto, Onward, path
<1>1. UNCHANGED <<stopped, netns, foreign>>
  BY StaysSetUp
<1>2. CASE f # g
  <2>1. supervisor'[f] = supervisor[f]
    BY <1>2 DEF TypeOK, Supervise, HandleLease, HandleCollision, BackoffEnds,
       PipeClosed, StopSeen, Release, WaitEnds, StartClient, StartFails
  <2> QED BY <1>1, <2>1, SeenFrame
<1>3. CASE f = g
  <2>1. CASE supervisor[f] \in {"serving", "backoff", "release", "wait", "start"}
             /\ supervisor'[f] \in {"serving", "backoff", "release", "wait", "start"}
    BY <1>1, <2>1 DEF PromisedStep, Seen, Alive
  <2>2. CASE supervisor[f] \in {"release", "wait"} /\ supervisor'[f] = "ended"
             /\ (stopped \/ ~netns)
    BY <1>1, <2>2 DEF PromisedStep, Seen, Alive
  <2>3. CASE HandleLease(f) \/ HandleCollision(f) \/ BackoffEnds(f)
               \/ PipeClosed(f) \/ StopSeen(f)
    BY <2>1, <2>3 DEF TypeOK, HandleLease, HandleCollision, BackoffEnds,
       PipeClosed, StopSeen
  <2>4. CASE Release(f) \/ WaitEnds(f) \/ StartClient(f) \/ StartFails(f)
    BY <2>1, <2>2, <2>4 DEF TypeOK, Release, WaitEnds, StartClient, StartFails
  <2> QED BY <1>3, <2>3, <2>4 DEF Supervise
<1> QED BY <1>2, <1>3

\* Every step of the manager is one SupervisedClient allows.
LEMMA StepIsPromised ==
  ASSUME ManagerInv, [Next]_vars, NEW f \in Family
  PROVE  PromisedStep(f)
<1> USE DEF path
<1>1. TypeOK /\ Supervision
  BY DEF ManagerInv
<1>2. ASSUME NEW g \in Family, Setup(g) \/ SetupFails(g) PROVE PromisedStep(f)
  <2>1. ~foreign /\ At(g, "none") /\ UNCHANGED <<stopped, netns, foreign>>
    BY <1>1, <1>2 DEF Setup, SetupFails, SetupTurn, Supervision, ForeignIsLate,
       SetupOver, At, Family
  <2>2. CASE f # g
    BY <1>1, <1>2, <2>1, <2>2, SeenFrame DEF Setup, SetupFails, Goto, TypeOK
  <2>3. CASE f = g
    BY <1>1, <1>2, <2>1, <2>3 DEF Setup, SetupFails, Goto, At, TypeOK,
       PromisedStep, Seen, Alive
  <2> QED BY <2>2, <2>3
<1>3. CASE Stop
  BY <1>3 DEF Stop, PromisedStep, Seen, Alive
<1>4. CASE NetnsRemoved
  BY <1>4 DEF NetnsRemoved, PromisedStep, Seen, Alive
<1>5. CASE PidReused
  BY <1>5 DEF PidReused, PromisedStep, Seen, Alive
<1>6. CASE OpenHandles \/ LinkFound \/ StartGivesUp \/ CloseHandles
  BY <1>6, SeenFrame DEF OpenHandles, LinkFound, StartGivesUp, CloseHandles
<1>7. ASSUME NEW g \in Family,
             ClientExits(g) \/ \E e \in Event(g) : Deliver(g, e)
      PROVE  PromisedStep(f)
  BY <1>7, SeenFrame DEF ClientExits, Deliver
<1>8. CASE UNCHANGED vars
  BY <1>8, SeenFrame DEF vars
<1> QED
  BY <1>1, <1>2, <1>3, <1>4, <1>5, <1>6, <1>7, <1>8, SuperviseSeen
     DEF Next, SetupStep

\* The supervisor of IPv4 runs from its set-up until the manager is stopped or the
\* container's namespace is gone, and then ends for good: EndpointLifecycle's view
\* of a manager is right.
THEOREM ImplementsV4 == Spec => SupervisedV4
<1>1. Init => Client4!Init
  BY DEF Init, Client4!Init, Seen, Alive, Family
<1>2. ManagerInv /\ [Next]_vars => [Client4!Next]_(Client4!vars)
  BY StepIsPromised DEF PromisedStep, Family, Client4!Next, Client4!Setup,
     Client4!Exit, Client4!Stop, Client4!NetnsRemoved, Client4!vars
<1> QED BY <1>1, <1>2, ManagerInit, ManagerStep, PTL
        DEF Spec, SupervisedV4, Client4!Spec

\* So does the supervisor of IPv6.
THEOREM ImplementsV6 == Spec => SupervisedV6
<1>1. Init => Client6!Init
  BY DEF Init, Client6!Init, Seen, Alive, Family
<1>2. ManagerInv /\ [Next]_vars => [Client6!Next]_(Client6!vars)
  BY StepIsPromised DEF PromisedStep, Family, Client6!Next, Client6!Setup,
     Client6!Exit, Client6!Stop, Client6!NetnsRemoved, Client6!vars
<1> QED BY <1>1, <1>2, ManagerInit, ManagerStep, PTL
        DEF Spec, SupervisedV6, Client6!Spec
=============================================================================
