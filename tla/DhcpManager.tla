---------------------------- MODULE DhcpManager ----------------------------
(***************************************************************************)
(* One dhcpManager (pkg/plugin/dhcp_manager.go): Start, setupClient for    *)
(* IPv4 and then IPv6, the goroutine each leaves behind to supervise       *)
(* udhcpc and to apply its leases, and Stop.  The pipe of one udhcpc       *)
(* process is module UdhcpcClient; here a client delivers its events       *)
(* through the one-place channel and then the channel is closed.           *)
(***************************************************************************)
EXTENDS Naturals, Sequences

CONSTANTS
  Lease,          \* what the DHCP servers may grant: records [ip, gw], gw may
                  \* be Nobody (no router option)
  First,          \* the lease CreateEndpoint obtained
  Origins,        \* how the manager came about: a subset of {"join", "pinned",
                  \* "recover"}; "pinned" is a Join where Docker, and not the
                  \* DHCP server, chose the address of the interface
  MaxExits,       \* bound on how often udhcpc exits by itself
  MaxEvents,      \* bound on the events the clients deliver
  MaxLeases,      \* bound: leases are among so many first events
  MaxRefused      \* bound on the renewals the kernel does not carry out

ASSUME OriginsAssumption == Origins \subseteq {"join", "pinned", "recover"}
ASSUME BoundsAssumption ==
  /\ MaxExits \in Nat /\ MaxEvents \in Nat
  /\ MaxLeases \in Nat /\ MaxRefused \in Nat

Nobody == "none"           \* a nil address, an empty gateway
Family == {"v4", "v6"}
Threshold == 3             \* collisions from which processEvents sleeps

Pinned == "pinned"         \* the address Docker asked for
Address == {l.ip : l \in Lease} \cup {Pinned}
Gateway == {l.gw : l \in Lease} \cup {Nobody}
ASSUME LeaseAssumption == First \in Lease /\ Nobody \notin Address
NoEvent == [type |-> "none"]

\* An IPv4 lease without a mask: ParseAddr refuses the address, because the handler
\* falls back on 255.255.255.0 where a prefix length is expected.
NoMask == [type |-> "lease", ip |-> Nobody, gw |-> Nobody]
\* The events of a family's client; only IPv4 leases name a gateway.  deconfig,
\* leasefail and nak, which processEvents only logs, are left out.
Event(f) ==
  {[type |-> "collision"]} \cup
  IF f = "v4"
    THEN {[type |-> "lease", ip |-> l.ip, gw |-> l.gw] : l \in Lease} \cup {NoMask}
    ELSE {[type |-> "lease", ip |-> l.ip, gw |-> Nobody] : l \in Lease}

VARIABLES
  origin,      \* Join, Join with an address of Docker's, or resumeDHCP
  ipv6,        \* m.opts.IPv6
  start,       \* Start: "await" a namespace, "link", "up" or "failed"
  nsPath,      \* m.nsPath: of the "sandbox", or of the container's process
  netns,       \* the file m.nsPath exists
  foreign,     \* it belongs to another process, to which the PID was given
  stopped,     \* Stop closed m.stopChan
  handles,     \* m.netHandle and m.nsHandle are open
  supervisor,  \* where the goroutine of each family is
  clients,     \* live udhcpc processes of each family
  channel,     \* the event waiting in the current client's channel
  collisions,  \* processEvents' local collisionCount
  LastIP,      \* m.LastIP and m.LastIPv6
  addrs,       \* kernel: the addresses of the container's interface
  route,       \* kernel: its IPv4 default gateway
  refused,     \* history: renewals with a netlink call the kernel refused
  exits, delivered

lease == <<LastIP, addrs, route, refused>>
setting == <<origin, ipv6, start>>
path == <<nsPath, netns, foreign>>
vars == <<setting, path, stopped, handles, supervisor, clients, channel,
          collisions, lease, exits, delivered>>

SupervisorState == {"none", "serving", "backoff", "release", "wait", "start",
                    "failed", "ended"}

ChannelTypeOK ==
  /\ DOMAIN channel = Family
  /\ \A f \in Family : channel[f] \in Event(f) \cup {NoEvent}

TypeOK ==
  /\ ChannelTypeOK
  /\ origin \in Origins /\ ipv6 \in BOOLEAN
  /\ start \in {"await", "link", "up", "failed"}
  /\ nsPath \in {"sandbox", "pid"} /\ foreign \in BOOLEAN
  /\ netns \in BOOLEAN /\ stopped \in BOOLEAN /\ handles \in BOOLEAN
  /\ supervisor \in [Family -> SupervisorState]
  /\ clients \in [Family -> Nat]
  /\ collisions \in [Family -> Nat]
  /\ LastIP \in [Family -> Address \cup {Nobody}]
  /\ addrs \in [Family -> SUBSET Address]
  /\ route \in Gateway /\ refused \in 0 .. MaxRefused
  /\ exits \in 0 .. MaxExits /\ delivered \in 0 .. MaxEvents

\* The family CreateEndpoint leases: initialIP asks for opts.IPv6 whatever it
\* was called with, so an IPv6 network gets no IPv4 lease nor gateway.
Leased == IF ipv6 THEN "v6" ELSE "v4"

\* Join seeds LastIP with the address CreateEndpoint leased.  Docker has put it on
\* the interface, unless it came with an address of its own (r.Interface.Address);
\* a recovered manager does not know the address that is there.
Init ==
  /\ origin \in Origins /\ ipv6 \in BOOLEAN
  /\ start = "await" /\ nsPath = "sandbox" /\ netns = TRUE /\ foreign = FALSE
  /\ stopped = FALSE /\ handles = FALSE
  /\ supervisor = [f \in Family |-> "none"]
  /\ clients = [f \in Family |-> 0]
  /\ channel = [f \in Family |-> NoEvent]
  /\ collisions = [f \in Family |-> 0]
  /\ addrs = [f \in Family |-> IF f # Leased THEN {}
                               ELSE IF origin = "pinned" THEN {Pinned} ELSE {First.ip}]
  /\ route = IF ipv6 THEN Nobody ELSE First.gw
  /\ LastIP = [f \in Family |-> IF f = Leased /\ origin # "recover"
                                  THEN First.ip ELSE Nobody]
  /\ refused = 0 /\ exits = 0 /\ delivered = 0

At(f, state) == supervisor[f] = state
Goto(f, state) == supervisor' = [supervisor EXCEPT ![f] = state]

\* After Start the two set-ups are made one after the other, errors are ignored.
SetupTurn(f) ==
  start = "up" /\ At(f, "none") /\ (f = "v6" => ipv6 /\ ~At("v4", "none"))
SetupOver == \A f \in Family : At(f, "none") => f = "v6" /\ ~ipv6

----------------------------------------------------------------------------
(* The world: udhcpc, the kernel, Docker.                                   *)

\* A client writes an event and its scanner puts it in the channel.
Deliver(f, e) ==
  /\ clients[f] > 0 /\ supervisor[f] \in {"serving", "backoff"}
  /\ channel[f] = NoEvent /\ delivered < MaxEvents
  /\ e.type = "lease" => delivered < MaxLeases
  /\ channel' = [channel EXCEPT ![f] = e]
  /\ delivered' = delivered + 1
  /\ UNCHANGED <<setting, path, stopped, handles, supervisor, clients,
                 collisions, lease, exits>>

ClientExits(f) ==
  /\ clients[f] > 0 /\ exits < MaxExits
  /\ clients' = [clients EXCEPT ![f] = @ - 1]
  /\ exits' = exits + 1
  /\ UNCHANGED <<setting, path, stopped, handles, supervisor, channel,
                 collisions, lease, delivered>>

NetnsRemoved ==
  /\ netns /\ netns' = FALSE
  /\ UNCHANGED <<setting, nsPath, foreign, stopped, handles, supervisor,
                 clients, channel, collisions, lease, exits, delivered>>

\* The PID of the dead container is given to another process (once, and not so
\* soon that the manager is still being set up): /proc/<pid>/ns/net is back.
PidReused ==
  /\ nsPath = "pid" /\ ~netns /\ ~foreign /\ SetupOver
  /\ netns' = TRUE /\ foreign' = TRUE
  /\ UNCHANGED <<setting, nsPath, stopped, handles, supervisor, clients,
                 channel, collisions, lease, exits, delivered>>

----------------------------------------------------------------------------
(* Start.                                                                   *)

\* awaitNetNS tries the sandbox's file and then the one of the container's PID;
\* the handles are opened.
OpenHandles ==
  /\ start = "await" /\ netns
  /\ start' = "link" /\ handles' = TRUE
  /\ nsPath' \in {"sandbox", "pid"}
  /\ UNCHANGED <<origin, ipv6, netns, foreign, stopped, supervisor, clients,
                 channel, collisions, lease, exits, delivered>>

\* The peer of the host veth is in the namespace.
LinkFound ==
  /\ start = "link" /\ start' = "up"
  /\ UNCHANGED <<origin, ipv6, path, stopped, handles, supervisor, clients,
                 channel, collisions, lease, exits, delivered>>

\* The deadline passes, or there is no such link: the manager is dropped, with
\* the handles it has opened.
StartGivesUp ==
  /\ start \in {"await", "link"} /\ start' = "failed"
  /\ UNCHANGED <<origin, ipv6, path, stopped, handles, supervisor, clients,
                 channel, collisions, lease, exits, delivered>>

----------------------------------------------------------------------------
(* setupClient.                                                             *)

Setup(f) ==
  /\ SetupTurn(f) /\ netns
  /\ Goto(f, "serving")
  /\ clients' = [clients EXCEPT ![f] = @ + 1]
  /\ UNCHANGED <<setting, path, stopped, handles, channel, collisions, lease,
                 exits, delivered>>

\* The namespace is gone or udhcpc cannot be started.
SetupFails(f) ==
  /\ SetupTurn(f)
  /\ Goto(f, "failed")
  /\ UNCHANGED <<setting, path, stopped, handles, clients, channel, collisions,
                 lease, exits, delivered>>

----------------------------------------------------------------------------
(* The supervisor: processEvents, Release, the retry loop.                  *)

\* renew moves the address if a different one was known.
Moves(f, ip) == LastIP[f] \notin {Nobody, ip} /\ handles

\* The netlink calls renew makes for a lease, each of which the kernel may refuse:
\* AddrDel, AddrAdd with the AddrReplace that makes good for it, and the
\* calls that list, add and replace the IPv4 default route.
Calls(f, ip, gw) ==
  (IF Moves(f, ip) THEN {"del", "add"} ELSE {}) \cup
  (IF f = "v4" /\ gw # Nobody /\ handles THEN {"route"} ELSE {})

\* The addresses of the interface when those calls but the failed ones are made.
Remaining(f, ip, failed) ==
  IF Moves(f, ip) /\ "del" \notin failed THEN addrs[f] \ {LastIP[f]} ELSE addrs[f]
Addressed(f, ip, failed) ==
  Remaining(f, ip, failed) \cup
    (IF Moves(f, ip) /\ "add" \notin failed THEN {ip} ELSE {})

\* The default route: the gateway of the lease, if the interface has an address;
\* else the kernel has dropped it with the last address, or it is what it was.
Routed(f, ip, gw, failed) ==
  IF "route" \in Calls(f, ip, gw) \ failed /\ Addressed(f, ip, failed) # {} THEN gw
  ELSE IF f = "v4" /\ addrs[f] # {} /\ Remaining(f, ip, failed) = {} THEN Nobody
  ELSE route

\* Mutant: the old address is left on the interface.
RenewKeepsOld(f, ip, gw, failed) ==
  IF ip = Nobody THEN UNCHANGED <<LastIP, addrs, route>> ELSE
    /\ LastIP' = [LastIP EXCEPT ![f] = ip]
    /\ addrs' = [addrs EXCEPT ![f] = @ \cup Addressed(f, ip, failed)]
    /\ route' = Routed(f, ip, gw, failed)

\* Mutant: the fields of the lease are swapped.
RenewSwapped(f, ip, gw, failed) ==
  LastIP' = [LastIP EXCEPT ![f] = gw] /\ UNCHANGED <<addrs, route>>

\* Mutant: an address that cannot be parsed is recorded as the nil address.
RenewUnparsed(f, ip, gw, failed) ==
  /\ LastIP' = [LastIP EXCEPT ![f] = ip]
  /\ addrs' = [addrs EXCEPT ![f] = Addressed(f, ip, failed) \ {Nobody}]
  /\ route' = Routed(f, ip, gw, failed)

\* renew: an address that cannot be parsed changes nothing; else the address moves
\* and then the gateway is looked at.  The lease is recorded whatever the kernel
\* says.  Once Stop has closed the handles the calls no longer reach the
\* container, but the plugin's own namespace.
Renew(f, ip, gw, failed) ==
  IF ip = Nobody THEN UNCHANGED <<LastIP, addrs, route>> ELSE
    /\ LastIP' = [LastIP EXCEPT ![f] = ip]
    /\ addrs' = [addrs EXCEPT ![f] = Addressed(f, ip, failed)]
    /\ route' = Routed(f, ip, gw, failed)

\* processEvents takes an event: "bound" or "renew" (a lease), or "collision".
HandleLease(f) ==
  /\ At(f, "serving") /\ channel[f].type = "lease"
  /\ channel' = [channel EXCEPT ![f] = NoEvent]
  /\ collisions' = [collisions EXCEPT ![f] = 0]
  /\ \E failed \in SUBSET Calls(f, channel[f].ip, channel[f].gw) :
       /\ Renew(f, channel[f].ip, channel[f].gw, failed)
       /\ IF failed = {} THEN UNCHANGED refused
                         ELSE refused < MaxRefused /\ refused' = refused + 1
  /\ UNCHANGED <<setting, path, stopped, handles, supervisor, clients, exits,
                 delivered>>

HandleCollision(f) ==
  /\ At(f, "serving") /\ channel[f].type = "collision"
  /\ channel' = [channel EXCEPT ![f] = NoEvent]
  /\ collisions' = [collisions EXCEPT ![f] = @ + 1]
  /\ IF collisions[f] + 1 >= Threshold THEN Goto(f, "backoff")
                                       ELSE UNCHANGED supervisor
  /\ UNCHANGED <<setting, path, stopped, handles, clients, lease, exits,
                 delivered>>

\* time.Sleep ends; nothing interrupts it.
BackoffEnds(f) ==
  /\ At(f, "backoff") /\ Goto(f, "serving")
  /\ UNCHANGED <<setting, path, stopped, handles, clients, channel, collisions,
                 lease, exits, delivered>>

\* processEvents returns: the channel is closed and drained ...
PipeClosed(f) ==
  /\ At(f, "serving") /\ clients[f] = 0 /\ channel[f] = NoEvent
  /\ Goto(f, "release")
  /\ UNCHANGED <<setting, path, stopped, handles, clients, channel, collisions,
                 lease, exits, delivered>>

\* Mutant: a stop is noticed only when udhcpc has exited.
StopSeenAtExit(f) ==
  /\ At(f, "serving") /\ stopped /\ clients[f] = 0
  /\ Goto(f, "release")
  /\ UNCHANGED <<setting, path, stopped, handles, clients, channel, collisions,
                 lease, exits, delivered>>

\* ... or the manager was stopped; select may take a waiting event first.
StopSeen(f) ==
  /\ At(f, "serving") /\ stopped
  /\ Goto(f, "release")
  /\ UNCHANGED <<setting, path, stopped, handles, clients, channel, collisions,
                 lease, exits, delivered>>

\* Mutant: a client that exited is not replaced.
OnwardEnds(next) == "ended"

\* Where the supervisor goes when it looks at stopChan and the namespace.
Onward(next) == IF stopped \/ ~netns THEN "ended" ELSE next

\* Mutant: the process is not terminated before the supervisor goes on.
ReleaseSkipped(f) ==
  /\ At(f, "release")
  /\ Goto(f, Onward("wait"))
  /\ channel' = [channel EXCEPT ![f] = NoEvent]
  /\ collisions' = [collisions EXCEPT ![f] = 0]
  /\ UNCHANGED <<setting, path, stopped, handles, clients, lease, exits,
                 delivered>>

\* cur.Release: SIGTERM, SIGKILL after two seconds; what is left in the channel
\* is lost, the next processEvents counts from zero.
Release(f) ==
  /\ At(f, "release")
  /\ clients' = [clients EXCEPT ![f] = 0]
  /\ Goto(f, Onward("wait"))
  /\ channel' = [channel EXCEPT ![f] = NoEvent]
  /\ collisions' = [collisions EXCEPT ![f] = 0]
  /\ UNCHANGED <<setting, path, stopped, handles, lease, exits, delivered>>

\* The five seconds are over.  The select may prefer the timer to a stop that
\* came at the same moment; the namespace is looked at after it.
WaitEnds(f) ==
  /\ At(f, "wait")
  /\ \/ stopped /\ Goto(f, "ended")
     \/ Goto(f, IF netns THEN "start" ELSE "ended")
  /\ UNCHANGED <<setting, path, stopped, handles, clients, channel, collisions,
                 lease, exits, delivered>>

\* A new client; in a namespace that vanished meanwhile nsenter exits at once.
StartClient(f) ==
  /\ At(f, "start")
  /\ Goto(f, "serving")
  /\ clients' = IF netns THEN [clients EXCEPT ![f] = @ + 1] ELSE clients
  /\ UNCHANGED <<setting, path, stopped, handles, channel, collisions, lease,
                 exits, delivered>>

\* Mutant: the first failure to start a replacement is final.
StartFailsGivesUp(f) ==
  /\ At(f, "start")
  /\ Goto(f, "ended")
  /\ UNCHANGED <<setting, path, stopped, handles, clients, channel, collisions,
                 lease, exits, delivered>>

StartFails(f) ==
  /\ At(f, "start")
  /\ Goto(f, "wait")
  /\ UNCHANGED <<setting, path, stopped, handles, clients, channel, collisions,
                 lease, exits, delivered>>

----------------------------------------------------------------------------
(* Stop: a handler can call it once the manager is registered, after both   *)
(* set-ups; it closes the channel and then the handles.                     *)

Stop ==
  /\ ~stopped /\ SetupOver
  /\ stopped' = TRUE
  /\ UNCHANGED <<setting, path, handles, supervisor, clients, channel,
                 collisions, lease, exits, delivered>>

CloseHandles ==
  /\ stopped /\ handles
  /\ handles' = FALSE
  /\ UNCHANGED <<setting, path, stopped, supervisor, clients, channel,
                 collisions, lease, exits, delivered>>

----------------------------------------------------------------------------

SetupStep == \E f \in Family : Setup(f) \/ SetupFails(f)

Supervise(f) ==
  \/ HandleLease(f) \/ HandleCollision(f) \/ BackoffEnds(f)
  \/ PipeClosed(f) \/ StopSeen(f) \/ Release(f) \/ WaitEnds(f)
  \/ StartClient(f) \/ StartFails(f)

Next ==
  \/ \E f \in Family : \/ Supervise(f) \/ ClientExits(f)
                       \/ \E e \in Event(f) : Deliver(f, e)
  \/ OpenHandles \/ LinkFound \/ StartGivesUp \/ SetupStep
  \/ NetnsRemoved \/ PidReused \/ Stop \/ CloseHandles

\* Goroutines run; select is fair between its ready cases, and a client that
\* can be started is started in the end.
Fairness == \A f \in Family :
  WF_vars(Supervise(f)) /\ SF_vars(StopSeen(f)) /\ SF_vars(StartClient(f))

Spec     == Init /\ [][Next]_vars
FairSpec == Spec /\ Fairness

----------------------------------------------------------------------------
(* Properties.                                                              *)

\* A udhcpc of the manager is alive only while the supervisor reads its events
\* or is about to release it: none is left by a supervisor that ended, and none
\* is there when a replacement is started in the same namespace.
ClientIsSupervised == \A f \in Family :
  supervisor[f] \notin {"serving", "backoff", "release"} => clients[f] = 0

\* The interface carries the address of the last lease and no other, and the
\* default route is the gateway of that lease, if it names one ...
Agree ==
  /\ addrs[Leased] = {LastIP[Leased]}
  /\ ipv6 \/ \E l \in Lease :
       l.ip = LastIP["v4"] /\ (l.gw = route \/ l.gw = Nobody)

\* ... for a manager made by Join, in every state before Stop takes the handles
\* away, whatever leases the clients of the two families bring, until the kernel
\* refuses a call.
AddressFollowsLease == origin = "join" /\ handles /\ refused = 0 => Agree

\* A manager made by Recover does not know the address it finds, and its first
\* lease is not put on the interface; but once interface and lease agree, only a
\* renewal in which the kernel refuses a call parts them before Stop, whoever made
\* the manager.
AgreementLasts ==
  [][Agree /\ handles /\ handles' => Agree' \/ refused' > refused]_vars

\* On a network with ipv6=true the interface carries its leases of both families
\* (README.md:106: "IPv6 DHCP in addition to IPv4").
DualStackFollowsLease == \A f \in Family :
  origin = "join" /\ handles /\ LastIP[f] # Nobody => addrs[f] = {LastIP[f]}

\* Stop ends every supervisor and every udhcpc of the manager, also when it
\* comes in a backoff, in the retry loop or while a client is being started.
StopEndsAll == []<>(stopped => \A f \in Family :
  supervisor[f] \in {"none", "failed", "ended"} /\ clients[f] = 0)

\* The namespace of the container exists.
Alive == netns /\ ~foreign

\* A client that died is replaced, unless the manager is stopped or the container's
\* namespace goes: the supervisor never settles in its retry loop.
ClientReplaced == \A f \in Family :
  []<>(supervisor[f] \in {"none", "failed"} \/ clients[f] > 0 \/ stopped \/ ~Alive)

\* Each family is supervised as EndpointLifecycle assumes.
Seen(f) == IF supervisor[f] \in {"none", "failed"} THEN "none"
           ELSE IF supervisor[f] = "ended" THEN "ended" ELSE "running"
Client4 == INSTANCE SupervisedClient WITH supervisor <- Seen("v4"),
                                          netns <- Alive
Client6 == INSTANCE SupervisedClient WITH supervisor <- Seen("v6"),
                                          netns <- Alive
SupervisedV4 == Client4!Spec
SupervisedV6 == Client6!Spec
=============================================================================
