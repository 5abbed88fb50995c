------------------------- MODULE ContainerIdentity -------------------------
(***************************************************************************)
(* Who is this endpoint for?  Docker's CreateEndpoint does not say, so the *)
(* plugin guesses: from the cache by MAC address, from the FIFO that the   *)
(* event listener and Leave fill, or by elimination (network.go:91-312);   *)
(* after Join a goroutine asks Docker and corrects the MAC (551-643).      *)
(*                                                                         *)
(* One network; an endpoint is named by its container, which starts again  *)
(* when its previous endpoint has left and the goroutine of that one has   *)
(* ended.  A hostname or a seed is a label, and a generated MAC is the     *)
(* label it was derived from.  Docker records the MAC of the endpoint it   *)
(* created, is never told of a correction, and may ask for the recorded    *)
(* MAC again at a restart: the code cannot tell it from a user's choice.   *)
(***************************************************************************)
EXTENDS PendingOps, FiniteSets

CONSTANTS
  Container,
  Static,        \* containers with a MAC address chosen by the user
  Custom,        \* containers whose hostname is not their name
  Sequential,    \* Docker starts one container at a time
  Faults,        \* which logged failures may occur: a subset of FaultKind
  MaxStarts      \* bound on the number of starts of containers

FaultKind == {"listen",   \* the listener is restarting or cannot inspect
              "list",     \* ContainerList fails or times out
              "lease",    \* the set-up of the veth or the first lease fails
              "start",    \* m.Start fails in the goroutine of Join
              "inspect",  \* ContainerInspect does
              "setmac"}   \* the kernel refuses the corrected MAC

ASSUME ContainersAssumption == Static \subseteq Container /\ Custom \subseteq Container
ASSUME ModeAssumption == Sequential \in BOOLEAN /\ Faults \subseteq FaultKind
ASSUME StartsAssumption == MaxStarts \in Nat

None == <<"none", "none">>
NoContainer == "none"
NameOf(c) == <<c, "name">>
HostOf(c) == IF c \in Custom THEN <<c, "host">> ELSE NameOf(c)
Chosen(c) == <<c, "chosen">>
EndpointID(c) == <<c, "endpoint">>
Label == (Container \X {"name", "host", "endpoint", "chosen"}) \cup {None}

VARIABLES
  phase,     \* external: the state of each container in Docker
  starts,    \* external: how many starts there were
  stream,    \* external: Docker's events the listener has not handled yet
  asked,     \* external: the MAC in the request for the current endpoint
  recorded,  \* external: the MAC Docker recorded for the last endpoint
  queue,     \* Plugin.pendingQueue
  step,      \* where the container's CreateEndpoint is, under createMu
  listed,    \* the containers without an endpoint ContainerList showed it
  found,     \* the identity it has found: [name, host]
  joinHints, \* Plugin.joinHints of the current endpoints
  claims,    \* names in the hints failed CreateEndpoints left behind
  fixing,    \* goroutines of the deep fallback: endpoint -> container
  worker,    \* the goroutine of Join, with its copy of the hint
  mac,       \* kernel: the MAC of the container's interface
  cached,    \* NetworkCache: the current endpoint's [name, host, mac]
  ghosts     \* entries written for endpoints that had left already

requestVars == <<asked, recorded>>
dockerVars == <<phase, starts, stream, requestVars>>
createVars == <<step, listed, found>>
cacheVars  == <<cached, ghosts>>
hintVars   == <<joinHints, claims, fixing>>
vars == <<dockerVars, queue, createVars, hintVars, worker, mac, cacheVars>>

Phase == {"none", "created", "starting", "provided", "joining", "running",
          "leaving", "dropping", "exited"}
Step  == {"idle", "queued", "lookup", "pop", "list", "eliminate", "store",
          "setup"}
Identity == [name : Container \cup {NoContainer}, host : Label]
Unknown  == [name |-> NoContainer, host |-> None]
Hint     == [name : Container \cup {NoContainer}, host : Label, seed : Label,
             user : BOOLEAN]
NoHint   == [name |-> NoContainer, host |-> None, seed |-> None, user |-> FALSE]
Entry    == [name : Container \cup {NoContainer}, host : Label, mac : Label]
NoEntry  == [name |-> NoContainer, host |-> None, mac |-> None]

TypeOK ==
  /\ phase \in [Container -> Phase]
  /\ starts \in 0 .. MaxStarts
  /\ stream \in Seq({"create", "die"} \X Container)
  /\ asked \in [Container -> Label] /\ recorded \in [Container -> Label]
  /\ queue \in Seq([name : Container, host : Label, forward : BOOLEAN])
  /\ step \in [Container -> Step]
  /\ listed \in [Container -> SUBSET Container]
  /\ found \in [Container -> Identity]
  /\ joinHints \in [Container -> Hint]
  /\ claims \subseteq Container
  /\ fixing \in [Container -> Container \cup {NoContainer}]
  /\ worker \in [Container -> [at : {"none", "start", "persist", "done"},
                               hint : Hint, known : BOOLEAN]]
  /\ mac \in [Container -> Label]
  /\ cached \in [Container -> Entry] /\ ghosts \subseteq Entry

NoWorker == [at |-> "none", hint |-> NoHint, known |-> FALSE]

Init ==
  /\ phase = [c \in Container |-> "none"]
  /\ starts = 0
  /\ stream = <<>> /\ queue = <<>>
  /\ asked = [c \in Container |-> IF c \in Static THEN Chosen(c) ELSE None]
  /\ recorded = [c \in Container |-> None]
  /\ step = [c \in Container |-> "idle"]
  /\ listed = [c \in Container |-> {}]
  /\ found = [c \in Container |-> Unknown]
  /\ joinHints = [c \in Container |-> NoHint]
  /\ claims = {}
  /\ fixing = [c \in Container |-> NoContainer]
  /\ worker = [c \in Container |-> NoWorker]
  /\ mac = [c \in Container |-> None]
  /\ cached = [c \in Container |-> NoEntry] /\ ghosts = {}

----------------------------------------------------------------------------
(* Docker (external).                                                       *)

Settled(c) == /\ phase[c] \in {"none", "created", "running", "exited"}
              /\ worker[c].at \in {"none", "done"}

\* One container at a time: the other ones run, or do not exist, and the listener
\* has caught up, except between the two halves of a restart.
Undisturbed(c) == Sequential =>
  /\ \A d \in Container \ {c} : Settled(d) /\ phase[d] \in {"none", "running"}
  /\ phase[c] = "exited" \/ stream = <<>>

DockerCreate(c) ==
  /\ phase[c] = "none" /\ Undisturbed(c)
  /\ phase' = [phase EXCEPT ![c] = "created"]
  /\ stream' = Append(stream, <<"create", c>>)
  /\ UNCHANGED <<starts, requestVars, queue, createVars, hintVars, worker, mac,
                 cacheVars>>

\* A start or restart of the container: a fresh endpoint, CreateEndpoint.  At a
\* restart Docker may ask for the MAC it recorded.
DockerStart(c) ==
  /\ phase[c] \in {"created", "exited"} /\ starts < MaxStarts
  /\ Settled(c) /\ Undisturbed(c)
  /\ phase' = [phase EXCEPT ![c] = "starting"]
  /\ starts' = starts + 1
  /\ \E m \in {None, recorded[c]} :
       asked' = IF c \in Static THEN asked ELSE [asked EXCEPT ![c] = m]
  /\ step' = [step EXCEPT ![c] = "queued"]
  /\ found' = [found EXCEPT ![c] = Unknown]
  /\ joinHints' = [joinHints EXCEPT ![c] = NoHint]
  /\ fixing' = [fixing EXCEPT ![c] = NoContainer]
  /\ worker' = [worker EXCEPT ![c] = NoWorker]
  /\ mac' = [mac EXCEPT ![c] = None]
  /\ UNCHANGED <<stream, recorded, queue, listed, claims, cacheVars>>

\* The container dies; the event is emitted before Leave is called.
DockerStop(c) ==
  /\ phase[c] = "running" /\ (Sequential => Settled(c)) /\ Undisturbed(c)
  /\ phase' = [phase EXCEPT ![c] = "leaving"]
  /\ stream' = Append(stream, <<"die", c>>)
  /\ UNCHANGED <<starts, requestVars, queue, createVars, hintVars, worker, mac,
                 cacheVars>>

\* The containers ContainerList shows on the network without an endpoint: Docker
\* commits the endpoint when Join has returned.
WithoutEndpoint ==
  {c \in Container : phase[c] \notin {"none", "running", "leaving", "dropping"}}

----------------------------------------------------------------------------
(* The event listener, the scavenger and Leave feed the queue.              *)

Waiting(name, host, forward) == [name |-> name, host |-> host, forward |-> forward]

\* One event: a create event is pushed forward, a die event backward.
Listen ==
  /\ stream # <<>> /\ stream' = Tail(stream)
  /\ LET c == Head(stream)[2]
         forward == Head(stream)[1] = "create"
     IN  queue' = Pushed(queue, Waiting(c, HostOf(c), forward))
  /\ UNCHANGED <<phase, starts, requestVars, createVars, hintVars, worker, mac,
                 cacheVars>>

EventLost ==
  /\ "listen" \in Faults /\ stream # <<>> /\ stream' = Tail(stream)
  /\ UNCHANGED <<phase, starts, requestVars, queue, createVars, hintVars, worker,
                 mac, cacheVars>>

\* pruneExpiredPending drops the oldest entries (PendingQueue!OrderedByAge).
Expire ==
  /\ ~Sequential /\ queue # <<>> /\ queue' = Tail(queue)
  /\ UNCHANGED <<dockerVars, createVars, hintVars, worker, mac, cacheVars>>

Leaving(c) ==
  /\ phase[c] = "leaving" /\ phase' = [phase EXCEPT ![c] = "dropping"]
  /\ UNCHANGED <<starts, stream, requestVars, createVars, hintVars, worker, mac,
                 cacheVars>>

\* Mutant: Leave does not check that the cached seed name is known.
LeaveUnchecked(c) ==
  /\ Leaving(c)
  /\ queue' = Pushed(queue, Waiting(cached[c].name, cached[c].host, FALSE))

\* Leave pre-populates the queue from the cached seed name ...
Leave(c) ==
  /\ Leaving(c)
  /\ queue' = IF cached[c].name = NoContainer THEN queue
              ELSE Pushed(queue, Waiting(cached[c].name, cached[c].host, FALSE))

\* ... and drops the entry, also one that was written since.
LeaveDrops(c) ==
  /\ phase[c] = "dropping" /\ phase' = [phase EXCEPT ![c] = "exited"]
  /\ cached' = [cached EXCEPT ![c] = NoEntry]
  /\ UNCHANGED <<starts, stream, requestVars, queue, createVars, hintVars, worker,
                 mac, ghosts>>

\* Reconcile prunes the entries of endpoints Docker does not show.
Reconcile ==
  /\ ghosts # {} /\ ghosts' = {}
  /\ UNCHANGED <<dockerVars, queue, createVars, hintVars, worker, mac, cached>>

----------------------------------------------------------------------------
(* CreateEndpoint: one at a time, under createMu.                           *)

Proceed(c, next) == step' = [step EXCEPT ![c] = next]
Find(c, identity, next) ==
  found' = [found EXCEPT ![c] = identity] /\ Proceed(c, next)

\* A request that carries a MAC address is looked up in the cache first.
Begin(c) ==
  /\ step[c] = "queued" /\ \A d \in Container : step[d] \in {"idle", "queued"}
  /\ Proceed(c, IF asked[c] # None THEN "lookup" ELSE "pop")
  /\ UNCHANGED <<dockerVars, queue, listed, found, hintVars, worker, mac,
                 cacheVars>>

\* The entries of this network's cache with that address and a seed name.
Matches(m) == {n \in ghosts \cup {cached[d] : d \in Container} :
                 n.mac = m /\ n.name # NoContainer}

Lookup(c) ==
  /\ step[c] = "lookup"
  /\ IF Matches(asked[c]) = {}
       THEN Proceed(c, "pop") /\ UNCHANGED found
       ELSE \E n \in Matches(asked[c]) :
              Find(c, [name |-> n.name, host |-> n.host], "store")
  /\ UNCHANGED <<dockerVars, queue, listed, hintVars, worker, mac, cacheVars>>

Pop(c) ==
  /\ step[c] = "pop" /\ queue # <<>>
  /\ Find(c, [name |-> Head(queue).name, host |-> Head(queue).host], "store")
  /\ queue' = Tail(queue)
  /\ UNCHANGED <<dockerVars, listed, hintVars, worker, mac, cacheVars>>

\* Fifteen attempts found the queue empty; in the sequential case the listener
\* has had the time to catch up.
PopGivesUp(c) ==
  /\ step[c] = "pop" /\ queue = <<>> /\ (Sequential => stream = <<>>)
  /\ Proceed(c, "list")
  /\ UNCHANGED <<dockerVars, queue, listed, found, hintVars, worker, mac,
                 cacheVars>>

\* The deep fallback asks Docker ...
List(c) ==
  /\ step[c] = "list"
  /\ \/ /\ listed' = [listed EXCEPT ![c] = WithoutEndpoint]
        /\ Proceed(c, "eliminate")
     \/ "list" \in Faults /\ Proceed(c, "store") /\ UNCHANGED listed
  /\ UNCHANGED <<dockerVars, queue, found, hintVars, worker, mac, cacheVars>>

\* ... leaves out the names that a hint claims, and takes what is left if it is
\* one container; a goroutine will look its hostname up.
Claimed == claims \cup {joinHints[d].name : d \in Container}

Eliminate(c) ==
  /\ step[c] = "eliminate"
  /\ \/ \E d \in Container :
          /\ listed[c] \ Claimed = {d}
          /\ Find(c, [name |-> d, host |-> NameOf(d)], "store")
          /\ fixing' = [fixing EXCEPT ![c] = d]
     \/ /\ Cardinality(listed[c] \ Claimed) # 1
        /\ Proceed(c, "store") /\ UNCHANGED <<found, fixing>>
  /\ listed' = [listed EXCEPT ![c] = {}]
  /\ UNCHANGED <<dockerVars, queue, joinHints, claims, worker, mac, cacheVars>>

\* The seed of a generated MAC: hostname, else name, else the endpoint's ID.
SeedOf(c, identity) ==
  IF identity.host # None THEN identity.host
  ELSE IF identity.name # NoContainer THEN NameOf(identity.name)
  ELSE EndpointID(c)

StoreHint(c) ==
  /\ step[c] = "store"
  /\ joinHints' = [joinHints EXCEPT ![c] =
       [name |-> found[c].name, host |-> found[c].host, user |-> asked[c] # None,
        seed |-> IF asked[c] # None THEN None ELSE SeedOf(c, found[c])]]
  /\ Proceed(c, "setup")
  /\ UNCHANGED <<dockerVars, queue, listed, found, claims, fixing, worker, mac,
                 cacheVars>>

\* The veth is up with its MAC, a lease was obtained; Docker records the MAC.
SetupSucceeds(c) ==
  /\ step[c] = "setup"
  /\ LET applied == IF asked[c] # None THEN asked[c] ELSE joinHints[c].seed
     IN  /\ mac' = [mac EXCEPT ![c] = applied]
         /\ recorded' = [recorded EXCEPT ![c] = applied]
  /\ phase' = [phase EXCEPT ![c] = "provided"]
  /\ Proceed(c, "idle")
  /\ UNCHANGED <<starts, stream, asked, queue, listed, found, hintVars, worker,
                 cacheVars>>

\* Nobody removes the hint of a CreateEndpoint that failed.
SetupFails(c) ==
  /\ "lease" \in Faults /\ step[c] = "setup"
  /\ claims' = claims \cup ({joinHints[c].name} \ {NoContainer})
  /\ joinHints' = [joinHints EXCEPT ![c] = NoHint]
  /\ fixing' = [fixing EXCEPT ![c] = NoContainer]
  /\ phase' = [phase EXCEPT ![c] = "exited"]
  /\ Proceed(c, "idle")
  /\ UNCHANGED <<starts, stream, requestVars, queue, listed, found, worker, mac,
                 cacheVars>>

\* The goroutine of the deep fallback; it may be late and bring a hint back that
\* Join has taken.
FixHostname(c) ==
  /\ fixing[c] # NoContainer
  /\ joinHints' = IF joinHints[c].host \in {None, NameOf(fixing[c])}
                  THEN [joinHints EXCEPT ![c] =
                         [name |-> joinHints[c].name, host |-> HostOf(fixing[c]),
                          seed |-> joinHints[c].seed, user |-> joinHints[c].user]]
                  ELSE joinHints
  /\ fixing' = [fixing EXCEPT ![c] = NoContainer]
  /\ UNCHANGED <<dockerVars, queue, createVars, claims, worker, mac, cacheVars>>

----------------------------------------------------------------------------
(* Join and its goroutine.                                                  *)

Join(c) ==
  /\ phase[c] = "provided"
  /\ phase' = [phase EXCEPT ![c] = "joining"]
  /\ worker' = [worker EXCEPT ![c] = [at |-> "start", hint |-> joinHints[c],
                                      known |-> FALSE]]
  /\ joinHints' = [joinHints EXCEPT ![c] = NoHint]
  /\ UNCHANGED <<starts, stream, requestVars, queue, createVars, claims, fixing,
                 mac, cacheVars>>

JoinReturns(c) ==
  /\ phase[c] = "joining"
  /\ phase' = [phase EXCEPT ![c] = "running"]
  /\ UNCHANGED <<starts, stream, requestVars, queue, createVars, hintVars, worker,
                 mac, cacheVars>>

\* m.Start fails: the goroutine ends.
WorkerFails(c) ==
  /\ "start" \in Faults /\ worker[c].at = "start"
  /\ worker' = [worker EXCEPT ![c] = [@ EXCEPT !.at = "done"]]
  /\ UNCHANGED <<dockerVars, queue, createVars, hintVars, mac, cacheVars>>

\* The hint after the container was identified; host is None if the inspection
\* of the container failed.
Corrected(c, hint, host) ==
  [name |-> c, user |-> hint.user,
   host |-> IF host # None THEN host ELSE NameOf(c),
   seed |-> IF host # None THEN host ELSE NameOf(c)]

\* Mutant: the MAC is left alone if the name was guessed right.
CorrectMacByName(c, hint, host) ==
  mac' = IF hint.name # c /\ ~hint.user
         THEN [mac EXCEPT ![c] = Corrected(c, hint, host).seed] ELSE mac

\* The MAC follows a different seed, unless the user chose it.
CorrectMac(c, hint, host) ==
  mac' = IF Corrected(c, hint, host).seed # hint.seed /\ ~hint.user
         THEN [mac EXCEPT ![c] = Corrected(c, hint, host).seed] ELSE mac

\* Post-Join correction: ContainerList shows the endpoint with its container.
Identify(c) ==
  /\ worker[c].at = "start" /\ phase[c] = "running"
  /\ \E host \in {HostOf(c)} \cup (IF "inspect" \in Faults THEN {None} ELSE {}) :
       \E set \in {TRUE} \cup (IF "setmac" \in Faults THEN {FALSE} ELSE {}) :
         /\ worker' = [worker EXCEPT ![c] =
              [at |-> "persist", known |-> host # None /\ set,
               hint |-> Corrected(c, worker[c].hint, host)]]
         /\ IF set THEN CorrectMac(c, worker[c].hint, host) ELSE UNCHANGED mac
  /\ UNCHANGED <<dockerVars, queue, createVars, hintVars, cacheVars>>

\* Ten attempts did not show it: Join has not returned, or the container left.
NotIdentified(c) ==
  /\ worker[c].at = "start" /\ (phase[c] # "running" \/ "list" \in Faults)
  /\ worker' = [worker EXCEPT ![c] = [@ EXCEPT !.at = "persist"]]
  /\ UNCHANGED <<dockerVars, queue, createVars, hintVars, mac, cacheVars>>

\* Mutant: the identity CreateEndpoint guessed is persisted.
PersistGuess(c) ==
  /\ worker[c].at = "persist"
  /\ LET entry == [name |-> found[c].name, host |-> found[c].host, mac |-> mac[c]]
     IN  cached' = [cached EXCEPT ![c] = entry] /\ ghosts' = ghosts
  /\ worker' = [worker EXCEPT ![c] = [@ EXCEPT !.at = "done"]]
  /\ UNCHANGED <<dockerVars, queue, createVars, hintVars, mac>>

\* cache.SetEndpoint, also for an endpoint that has left in the meantime.
Persist(c) ==
  /\ worker[c].at = "persist"
  /\ LET hint  == worker[c].hint
         entry == [name |-> hint.name, host |-> hint.host, mac |-> mac[c]]
     IN  IF phase[c] = "exited"
         THEN ghosts' = ghosts \cup {entry} /\ UNCHANGED cached
         ELSE cached' = [cached EXCEPT ![c] = entry] /\ UNCHANGED ghosts
  /\ worker' = [worker EXCEPT ![c] = [@ EXCEPT !.at = "done"]]
  /\ UNCHANGED <<dockerVars, queue, createVars, hintVars, mac>>

----------------------------------------------------------------------------

Docker(c) == DockerCreate(c) \/ DockerStart(c) \/ DockerStop(c)

CreateEndpoint(c) ==
  \/ Begin(c) \/ Lookup(c) \/ Pop(c) \/ PopGivesUp(c) \/ List(c) \/ Eliminate(c)
  \/ StoreHint(c) \/ SetupSucceeds(c) \/ SetupFails(c)

JoinAndWorker(c) ==
  \/ Join(c) \/ JoinReturns(c)
  \/ WorkerFails(c) \/ Identify(c) \/ NotIdentified(c) \/ Persist(c)

Next ==
  \/ \E c \in Container : Docker(c) \/ CreateEndpoint(c) \/ FixHostname(c)
                            \/ JoinAndWorker(c) \/ Leave(c) \/ LeaveDrops(c)
  \/ Listen \/ EventLost \/ Expire \/ Reconcile

Spec == Init /\ [][Next]_vars

----------------------------------------------------------------------------
(* Properties.                                                              *)

\* A running container that the goroutine of Join has identified: ContainerList
\* and ContainerInspect answered, and the kernel took the MAC.
Identified(c) == phase[c] = "running" /\ worker[c].at = "done" /\ worker[c].known

\* The MAC the code means an endpoint to have: the one it was asked for, or the
\* one derived from the container's hostname.
IntendedMac(c) == IF asked[c] # None THEN asked[c] ELSE HostOf(c)

\* Whatever CreateEndpoint guessed, an identified container has the MAC the code
\* means it to have: a wrong guess is corrected unless the request named a MAC,
\* and a MAC the request named is never overwritten.
IdentifiedMacIsIntended ==
  \A c \in Container : Identified(c) => mac[c] = IntendedMac(c)

\* ... and what Leave will put into the queue for its restart is its own name
\* and hostname.
CachedIsOwn == \A c \in Container : Identified(c) /\ cached[c] # NoEntry =>
  cached[c].name = c /\ cached[c].host = HostOf(c)

\* Once identified, a container without a MAC of its user's has the deterministic
\* one (docs/decisions/ADR-004, Consequences: "the unconditional post-Join hook
\* resolves the true container name and rewrites the interface's MAC to the
\* correct deterministic value").
IdentifiedMacIsDeterministic == \A c \in Container \ Static :
  Identified(c) => mac[c] = HostOf(c)
=============================================================================
