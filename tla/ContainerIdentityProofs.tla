---------------------- MODULE ContainerIdentityProofs ----------------------
(***************************************************************************)
(* Proofs about ContainerIdentity, for any containers and faults: whatever *)
(* CreateEndpoint guessed, an identified container has the MAC the code    *)
(* means it to have, and its own name in the cache.                        *)
(***************************************************************************)
EXTENDS ContainerIdentity, SubsequenceLemmas

(* Types.                                                                   *)

Worker == [at : {"none", "start", "persist", "done"}, hint : Hint, known : BOOLEAN]
Waiters == [name : Container, host : Label, forward : BOOLEAN]

LEMMA Labels ==
  /\ None \in Label
  /\ \A c \in Container : /\ NameOf(c) \in Label /\ HostOf(c) \in Label
                          /\ Chosen(c) \in Label /\ EndpointID(c) \in Label
  BY DEF Label, None, NameOf, HostOf, Chosen, EndpointID

LEMMA Blanks ==
  NoEntry \in Entry /\ NoHint \in Hint /\ Unknown \in Identity /\ NoWorker \in Worker
  BY Labels DEF NoEntry, Entry, NoHint, Hint, Unknown, Identity, NoWorker, Worker

LEMMA PushedType ==
  ASSUME NEW q \in Seq(Waiters), NEW c \in Container, NEW h \in Label, NEW f \in BOOLEAN
  PROVE  Pushed(q, Waiting(c, h, f)) \in Seq(Waiters)
<1> DEFINE w == Waiting(c, h, f)
<1>1. w \in Waiters
  BY DEF Waiting, Waiters
<1> HIDE DEF w
<1>2. PICK k \in Seq(Waiters) : Pushed(q, w) = Append(k, w)
  BY PushedShape
<1> QED BY <1>1, <1>2 DEF w

LEMMA TypeInit == Init => TypeOK
  BY Blanks, Labels, StartsAssumption DEF Init, TypeOK, Phase, Step, Worker

LEMMA TypeStep == TypeOK /\ [Next]_vars => TypeOK'
<1> SUFFICES ASSUME TypeOK, [Next]_vars PROVE TypeOK'
  OBVIOUS
<1> USE DEF TypeOK, dockerVars, requestVars, createVars, cacheVars, hintVars
<1>1. ASSUME NEW c \in Container, Docker(c) PROVE TypeOK'
  <2>1. CASE DockerCreate(c)
    BY <2>1 DEF DockerCreate, Phase
  <2>2. CASE DockerStart(c)
    <3>1. asked' \in [Container -> Label]
      BY <2>2, Labels DEF DockerStart
    <3>2. phase' \in [Container -> Phase] /\ step' \in [Container -> Step]
      BY <2>2 DEF DockerStart, Phase, Step
    <3>3. found' \in [Container -> Identity] /\ joinHints' \in [Container -> Hint]
          /\ worker' \in [Container -> Worker]
      BY <2>2, Blanks DEF DockerStart, Worker
    <3>4. mac' \in [Container -> Label]
          /\ fixing' \in [Container -> Container \cup {NoContainer}]
      BY <2>2, Labels DEF DockerStart
    <3>5. starts' \in 0 .. MaxStarts
      BY <2>2, StartsAssumption DEF DockerStart
    <3> QED BY <2>2, <3>1, <3>2, <3>3, <3>4, <3>5 DEF DockerStart, Worker
  <2>3. CASE DockerStop(c)
    BY <2>3 DEF DockerStop, Phase
  <2> QED BY <1>1, <2>1, <2>2, <2>3 DEF Docker
<1>2. ASSUME NEW c \in Container, CreateEndpoint(c) PROVE TypeOK'
  <2>1. CASE Begin(c)
    BY <2>1 DEF Begin, Proceed, Step
  <2>2. CASE Lookup(c)
    <3>1. CASE Proceed(c, "pop") /\ UNCHANGED found
      BY <2>2, <3>1 DEF Lookup, Proceed, Step
    <3>2. ASSUME NEW n \in Matches(asked[c]),
                 Find(c, [name |-> n.name, host |-> n.host], "store")
          PROVE  TypeOK'
      <4>1. n \in Entry
        BY DEF Matches
      <4>2. [name |-> n.name, host |-> n.host] \in Identity
        BY <4>1 DEF Entry, Identity
      <4> QED BY <2>2, <3>2, <4>2 DEF Lookup, Find, Proceed, Step
    <3> QED BY <2>2, <3>1, <3>2 DEF Lookup
  <2>3. CASE Pop(c)
    <3>1. queue \in Seq(Waiters) /\ queue # <<>>
      BY <2>3 DEF Pop, Waiters
    <3>2. Head(queue) \in Waiters /\ Tail(queue) \in Seq(Waiters)
      BY <3>1
    <3>3. [name |-> Head(queue).name, host |-> Head(queue).host] \in Identity
      BY <3>2 DEF Waiters, Identity
    <3> QED BY <2>3, <3>2, <3>3 DEF Pop, Find, Proceed, Step, Waiters
  <2>4. CASE PopGivesUp(c)
    BY <2>4 DEF PopGivesUp, Proceed, Step
  <2>5. CASE List(c)
    <3>1. WithoutEndpoint \in SUBSET Container
      BY DEF WithoutEndpoint
    <3>2. listed' \in [Container -> SUBSET Container]
      BY <2>5, <3>1 DEF List
    <3>3. step' \in [Container -> Step]
      BY <2>5 DEF List, Proceed, Step
    <3> QED BY <2>5, <3>2, <3>3 DEF List
  <2>6. CASE Eliminate(c)
    <3>1. listed' \in [Container -> SUBSET Container]
      BY <2>6 DEF Eliminate
    <3>2. step' \in [Container -> Step]
      BY <2>6 DEF Eliminate, Find, Proceed, Step
    <3>3. found' \in [Container -> Identity]
          /\ fixing' \in [Container -> Container \cup {NoContainer}]
      <4>1. ASSUME NEW d \in Container PROVE [name |-> d, host |-> NameOf(d)] \in Identity
        BY Labels DEF Identity
      <4>2. CASE UNCHANGED <<found, fixing>>
        BY <4>2
      <4>3. ASSUME NEW d \in Container, Find(c, [name |-> d, host |-> NameOf(d)], "store"),
                   fixing' = [fixing EXCEPT ![c] = d]
            PROVE  /\ found' \in [Container -> Identity]
                   /\ fixing' \in [Container -> Container \cup {NoContainer}]
        BY <4>1, <4>3 DEF Find
      <4> QED BY <2>6, <4>2, <4>3 DEF Eliminate
    <3> QED BY <2>6, <3>1, <3>2, <3>3 DEF Eliminate
  <2>7. CASE StoreHint(c)
    <3>1. SeedOf(c, found[c]) \in Label
      BY Labels DEF SeedOf, Identity
    <3>2. joinHints' \in [Container -> Hint]
      BY <2>7, <3>1, Labels DEF StoreHint, Identity, Hint
    <3> QED BY <2>7, <3>2 DEF StoreHint, Proceed, Step
  <2>8. CASE SetupSucceeds(c)
    <3>1. PICK applied \in Label : /\ mac' = [mac EXCEPT ![c] = applied]
                                   /\ recorded' = [recorded EXCEPT ![c] = applied]
      BY <2>8 DEF SetupSucceeds, Hint
    <3> QED BY <2>8, <3>1 DEF SetupSucceeds, Proceed, Step, Phase
  <2>9. CASE SetupFails(c)
    BY <2>9, Blanks DEF SetupFails, Proceed, Step, Phase, Hint
  <2> QED BY <1>2, <2>1, <2>2, <2>3, <2>4, <2>5, <2>6, <2>7, <2>8, <2>9
          DEF CreateEndpoint
<1>3. ASSUME NEW c \in Container, FixHostname(c) PROVE TypeOK'
  BY <1>3, Labels DEF FixHostname, Hint
<1>4. ASSUME NEW c \in Container, JoinAndWorker(c) PROVE TypeOK'
  <2>1. CASE Join(c)
    BY <2>1, Blanks DEF Join, Phase, Worker
  <2>2. CASE JoinReturns(c)
    BY <2>2 DEF JoinReturns, Phase
  <2>3. CASE WorkerFails(c)
    BY <2>3 DEF WorkerFails, Worker
  <2>4. CASE Identify(c)
    <3>1. PICK host \in Label, set \in BOOLEAN :
            /\ worker' = [worker EXCEPT ![c] =
                 [at |-> "persist", known |-> host # None /\ set,
                  hint |-> Corrected(c, worker[c].hint, host)]]
            /\ IF set THEN CorrectMac(c, worker[c].hint, host) ELSE UNCHANGED mac
      BY <2>4, Labels DEF Identify
    <3>2. Corrected(c, worker[c].hint, host) \in Hint
      BY Labels DEF Corrected, Hint, Worker
    <3>3. mac' \in [Container -> Label]
      BY <3>1, <3>2 DEF CorrectMac, Hint
    <3>4. worker' \in [Container -> Worker]
      BY <3>1, <3>2 DEF Worker
    <3> QED BY <2>4, <3>3, <3>4 DEF Identify, Worker
  <2>5. CASE NotIdentified(c)
    BY <2>5 DEF NotIdentified, Worker
  <2>6. CASE Persist(c)
    <3>1. [name |-> worker[c].hint.name, host |-> worker[c].hint.host, mac |-> mac[c]]
            \in Entry
      BY DEF Worker, Hint, Entry
    <3>2. worker' \in [Container -> Worker]
      <4>1. worker' = [worker EXCEPT ![c] = [worker[c] EXCEPT !.at = "done"]]
        BY <2>6 DEF Persist
      <4> QED BY <4>1 DEF Worker
    <3>3. cached' \in [Container -> Entry] /\ ghosts' \subseteq Entry
      BY <2>6, <3>1 DEF Persist
    <3> QED BY <2>6, <3>2, <3>3 DEF Persist, Worker
  <2> QED BY <1>4, <2>1, <2>2, <2>3, <2>4, <2>5, <2>6 DEF JoinAndWorker
<1>5. ASSUME NEW c \in Container, Leave(c) \/ LeaveDrops(c) PROVE TypeOK'
  <2>1. CASE Leave(c)
    BY <2>1, PushedType DEF Leave, Leaving, Entry, Phase, Waiters
  <2>2. CASE LeaveDrops(c)
    BY <2>2, Blanks DEF LeaveDrops, Phase
  <2> QED BY <1>5, <2>1, <2>2
<1>6. CASE Listen
  <2>1. Head(stream) \in {"create", "die"} \X Container
        /\ stream' \in Seq({"create", "die"} \X Container)
    BY <1>6 DEF Listen
  <2>2. PICK c \in Container, forward \in BOOLEAN :
          queue' = Pushed(queue, Waiting(c, HostOf(c), forward))
    BY <1>6, <2>1 DEF Listen
  <2>3. queue' \in Seq(Waiters)
    BY <2>2, Labels, PushedType DEF Waiters
  <2> QED BY <1>6, <2>1, <2>3 DEF Listen, Waiters
<1>7. CASE EventLost
  BY <1>7 DEF EventLost
<1>8. CASE Expire
  BY <1>8 DEF Expire
<1>9. CASE Reconcile
  BY <1>9 DEF Reconcile
<1>10. CASE UNCHANGED vars
  BY <1>10 DEF vars
<1> QED BY <1>1, <1>2, <1>3, <1>4, <1>5, <1>6, <1>7, <1>8, <1>9, <1>10 DEF Next

----------------------------------------------------------------------------
(* From the hint to the MAC and the cache.                                  *)

\* The MAC of an endpoint that was created with this hint.
MacBy(c, hint) == IF asked[c] # None THEN asked[c] ELSE hint.seed

\* How far c's endpoint has come, and what its hint, its MAC and its cached entry
\* then say of c: the worker's copy of the hint knows the seed of the MAC, so that
\* the worker corrects a wrong guess and nothing else, and only a worker that is
\* done has written the entry.
Traced(c) ==
  /\ step[c] # "idle" => phase[c] = "starting"
  /\ phase[c] \in {"none", "created", "starting", "provided"} => worker[c].at = "none"
  /\ phase[c] \in {"none", "created", "exited"} => cached[c] = NoEntry
  /\ worker[c].at # "done" => cached[c] = NoEntry
  /\ worker[c].at \in {"none", "start"} => ~worker[c].known
  /\ step[c] = "setup" => (joinHints[c].user <=> asked[c] # None)
  /\ phase[c] = "provided" =>
       (joinHints[c].user <=> asked[c] # None) /\ mac[c] = MacBy(c, joinHints[c])
  /\ worker[c].at = "start" =>
       (worker[c].hint.user <=> asked[c] # None) /\ mac[c] = MacBy(c, worker[c].hint)
  /\ worker[c].known =>
       mac[c] = IntendedMac(c) /\ worker[c].hint.name = c /\ worker[c].hint.host = HostOf(c)
  /\ worker[c].known /\ cached[c] # NoEntry =>
       cached[c].name = c /\ cached[c].host = HostOf(c)

IdentityInv == TypeOK /\ \A c \in Container : Traced(c)

\* Nothing that Traced(d) reads changes.
Same(d) == /\ phase'[d] = phase[d] /\ step'[d] = step[d] /\ worker'[d] = worker[d]
           /\ joinHints'[d] = joinHints[d] /\ mac'[d] = mac[d] /\ cached'[d] = cached[d]
           /\ asked'[d] = asked[d]

LEMMA TracedFrame ==
  ASSUME NEW d \in Container, Traced(d), Same(d) PROVE Traced(d)'
  BY DEF Traced, Same, MacBy, IntendedMac

\* A step of one container leaves the others alone.
LEMMA OneContainer ==
  ASSUME TypeOK, NEW c \in Container, NEW d \in Container, d # c,
         Docker(c) \/ CreateEndpoint(c) \/ FixHostname(c) \/ JoinAndWorker(c)
           \/ Leave(c) \/ LeaveDrops(c)
  PROVE  Same(d)
<1> USE DEF TypeOK, dockerVars, requestVars, createVars, cacheVars, hintVars, Same
<1>1. CASE Docker(c)
  BY <1>1 DEF Docker, DockerCreate, DockerStart, DockerStop
<1>2. CASE CreateEndpoint(c)
  BY <1>2 DEF CreateEndpoint, Begin, Lookup, Pop, PopGivesUp, List, Eliminate,
       StoreHint, SetupSucceeds, SetupFails, Find, Proceed
<1>3. CASE FixHostname(c)
  BY <1>3 DEF FixHostname
<1>4. CASE JoinAndWorker(c)
  <2>1. CASE Join(c) \/ JoinReturns(c)
    BY <2>1 DEF Join, JoinReturns
  <2>2. CASE WorkerFails(c) \/ NotIdentified(c) \/ Persist(c)
    BY <2>2 DEF WorkerFails, NotIdentified, Persist
  <2>3. CASE Identify(c)
    BY <2>3 DEF Identify, CorrectMac
  <2> QED BY <1>4, <2>1, <2>2, <2>3 DEF JoinAndWorker
<1>5. CASE Leave(c) \/ LeaveDrops(c)
  BY <1>5 DEF Leave, Leaving, LeaveDrops
<1> QED BY <1>1, <1>2, <1>3, <1>4, <1>5

LEMMA DockerTraces ==
  ASSUME TypeOK, NEW c \in Container, Traced(c), Docker(c) PROVE Traced(c)'
<1> USE DEF TypeOK, Traced, MacBy, IntendedMac, dockerVars, requestVars, createVars, cacheVars, hintVars
<1>1. CASE DockerCreate(c)
  BY <1>1 DEF DockerCreate
<1>2. CASE DockerStart(c)
  BY <1>2 DEF DockerStart, NoWorker
<1>3. CASE DockerStop(c)
  BY <1>3 DEF DockerStop
<1> QED BY <1>1, <1>2, <1>3 DEF Docker

\* Only the end of a CreateEndpoint says something of the MAC.
LEMMA CreateTraces ==
  ASSUME TypeOK, NEW c \in Container, Traced(c), CreateEndpoint(c) PROVE Traced(c)'
<1> USE DEF TypeOK, Traced, MacBy, IntendedMac, dockerVars, requestVars, createVars, cacheVars, hintVars
<1>1. ASSUME step[c] # "idle", step'[c] # "setup", phase'[c] = phase[c],
             worker'[c] = worker[c], mac'[c] = mac[c], cached'[c] = cached[c]
      PROVE  Traced(c)'
  BY <1>1
<1>2. CASE Begin(c) \/ Lookup(c) \/ Pop(c) \/ PopGivesUp(c) \/ List(c) \/ Eliminate(c)
  BY <1>1, <1>2 DEF Begin, Lookup, Pop, PopGivesUp, List, Eliminate, Find, Proceed
<1>3. CASE StoreHint(c)
  BY <1>3 DEF StoreHint, Proceed
<1>4. CASE SetupSucceeds(c)
  BY <1>4 DEF SetupSucceeds, Proceed
<1>5. CASE SetupFails(c)
  BY <1>5 DEF SetupFails, Proceed
<1> QED BY <1>2, <1>3, <1>4, <1>5 DEF CreateEndpoint

\* The goroutine of the deep fallback leaves the seed alone.
LEMMA FixTraces ==
  ASSUME TypeOK, NEW c \in Container, Traced(c), FixHostname(c) PROVE Traced(c)'
<1>1. joinHints'[c].user = joinHints[c].user /\ joinHints'[c].seed = joinHints[c].seed
  BY DEF FixHostname, TypeOK, Hint
<1>2. UNCHANGED <<phase, step, worker, mac, cached, asked>>
  BY DEF FixHostname, dockerVars, requestVars, createVars, cacheVars
<1> QED BY <1>1, <1>2 DEF Traced, MacBy, IntendedMac

\* Identification: a MAC that follows another seed is corrected.
LEMMA IdentifyTraces ==
  ASSUME TypeOK, NEW c \in Container, Traced(c), Identify(c) PROVE Traced(c)'
<1>1. PICK host \in Label, set \in BOOLEAN :
        /\ host # None => host = HostOf(c)
        /\ worker' = [worker EXCEPT ![c] =
             [at |-> "persist", known |-> host # None /\ set,
              hint |-> Corrected(c, worker[c].hint, host)]]
        /\ IF set THEN CorrectMac(c, worker[c].hint, host) ELSE UNCHANGED mac
  BY Labels DEF Identify
<1>2. /\ worker[c].at = "start" /\ phase[c] = "running"
      /\ UNCHANGED <<phase, step, joinHints, cached, asked>>
  BY DEF Identify, dockerVars, requestVars, createVars, cacheVars, hintVars
<1>3. /\ worker'[c].at = "persist"
      /\ worker'[c].hint = Corrected(c, worker[c].hint, host)
      /\ worker'[c].known => host # None /\ set
  BY <1>1 DEF TypeOK
<1>4. worker'[c].known => mac'[c] = IntendedMac(c) /\ worker'[c].hint.name = c
                          /\ worker'[c].hint.host = HostOf(c)
  <2> SUFFICES ASSUME worker'[c].known
               PROVE  mac'[c] = IntendedMac(c) /\ worker'[c].hint.name = c
                      /\ worker'[c].hint.host = HostOf(c)
    OBVIOUS
  <2>1. host = HostOf(c) /\ host # None /\ CorrectMac(c, worker[c].hint, host)
    BY <1>1, <1>3
  <2>2. worker'[c].hint.name = c /\ worker'[c].hint.host = HostOf(c)
    BY <1>3, <2>1 DEF Corrected
  <2>3. (worker[c].hint.user <=> asked[c] # None) /\ mac[c] = MacBy(c, worker[c].hint)
    BY <1>2 DEF Traced
  <2>4. Corrected(c, worker[c].hint, host).seed = HostOf(c)
    BY <2>1 DEF Corrected
  <2>5. CASE asked[c] # None
    <3>1. worker[c].hint.user /\ mac[c] = asked[c]
      BY <2>3, <2>5 DEF MacBy
    <3>2. mac' = mac
      BY <2>1, <3>1, Zenon DEF CorrectMac
    <3> QED BY <1>2, <2>2, <2>5, <3>1, <3>2 DEF IntendedMac
  <2>6. CASE asked[c] = None
    <3>1. ~worker[c].hint.user /\ mac[c] = worker[c].hint.seed
      BY <2>3, <2>6 DEF MacBy
    <3>2. mac' = IF HostOf(c) # worker[c].hint.seed
                 THEN [mac EXCEPT ![c] = HostOf(c)] ELSE mac
      BY <2>1, <2>4, <3>1, Zenon DEF CorrectMac
    <3>3. mac'[c] = HostOf(c)
      BY <3>1, <3>2 DEF TypeOK
    <3> QED BY <1>2, <2>2, <2>6, <3>3 DEF IntendedMac
  <2> QED BY <2>5, <2>6
<1>5. cached[c] = NoEntry
  BY <1>2 DEF Traced
<1> QED BY <1>2, <1>3, <1>4, <1>5 DEF Traced, MacBy, IntendedMac

\* What the worker persists is what it knows.
LEMMA PersistTraces ==
  ASSUME TypeOK, NEW c \in Container, Traced(c), Persist(c) PROVE Traced(c)'
<1>1. /\ worker[c].at = "persist" /\ UNCHANGED <<phase, step, joinHints, mac, asked>>
      /\ worker' = [worker EXCEPT ![c] = [worker[c] EXCEPT !.at = "done"]]
  BY DEF Persist, dockerVars, requestVars, createVars, hintVars
<1>2. worker'[c].at = "done" /\ worker'[c].hint = worker[c].hint
      /\ worker'[c].known = worker[c].known
  BY <1>1 DEF TypeOK
<1>3. CASE phase[c] = "exited"
  <2>1. cached'[c] = cached[c]
    BY <1>3 DEF Persist
  <2> QED BY <1>1, <1>2, <1>3, <2>1 DEF Traced, MacBy, IntendedMac
<1>4. CASE phase[c] # "exited"
  <2>1. cached'[c].name = worker[c].hint.name /\ cached'[c].host = worker[c].hint.host
    BY <1>4 DEF Persist, TypeOK
  <2>2. phase[c] \notin {"none", "created", "starting", "provided"} /\ step[c] = "idle"
    BY <1>1 DEF Traced
  <2> QED BY <1>1, <1>2, <1>4, <2>1, <2>2 DEF Traced, MacBy, IntendedMac
<1> QED BY <1>3, <1>4

LEMMA JoinTraces ==
  ASSUME TypeOK, NEW c \in Container, Traced(c), JoinAndWorker(c) PROVE Traced(c)'
<1> USE DEF TypeOK, Traced, MacBy, IntendedMac, dockerVars, requestVars, createVars, cacheVars, hintVars
<1>1. CASE Join(c)
  BY <1>1 DEF Join
<1>2. CASE JoinReturns(c)
  BY <1>2 DEF JoinReturns
<1>3. ASSUME NEW at \in {"persist", "done"}, worker[c].at = "start",
             UNCHANGED <<phase, step, joinHints, mac, cached, asked>>,
             worker' = [worker EXCEPT ![c] = [worker[c] EXCEPT !.at = at]]
      PROVE  Traced(c)'
  <2>1. worker'[c].at = at /\ worker'[c].hint = worker[c].hint
        /\ worker'[c].known = worker[c].known
    BY <1>3
  <2> QED BY <1>3, <2>1
<1>4. CASE WorkerFails(c)
  BY <1>3, <1>4 DEF WorkerFails
<1>5. CASE NotIdentified(c)
  BY <1>3, <1>5 DEF NotIdentified
<1> QED BY <1>1, <1>2, <1>4, <1>5, IdentifyTraces, PersistTraces DEF JoinAndWorker

LEMMA LeaveTraces ==
  ASSUME TypeOK, NEW c \in Container, Traced(c), Leave(c) \/ LeaveDrops(c)
  PROVE  Traced(c)'
<1> USE DEF TypeOK, Traced, MacBy, IntendedMac, requestVars, createVars, cacheVars, hintVars
<1>1. CASE Leave(c)
  BY <1>1 DEF Leave, Leaving
<1>2. CASE LeaveDrops(c)
  BY <1>2 DEF LeaveDrops
<1> QED BY <1>1, <1>2

LEMMA IdentityInit == Init => IdentityInv
<1> SUFFICES ASSUME Init PROVE \A c \in Container : Traced(c)
  BY TypeInit DEF IdentityInv
<1> QED BY DEF Init, Traced, NoWorker

LEMMA IdentityStep == IdentityInv /\ [Next]_vars => IdentityInv'
<1> SUFFICES ASSUME IdentityInv, [Next]_vars PROVE IdentityInv'
  OBVIOUS
<1>1. TypeOK /\ TypeOK' /\ \A d \in Container : Traced(d)
  BY TypeStep DEF IdentityInv
<1>2. ASSUME NEW c \in Container,
             Docker(c) \/ CreateEndpoint(c) \/ FixHostname(c) \/ JoinAndWorker(c)
           \/ Leave(c) \/ LeaveDrops(c)
      PROVE  \A d \in Container : Traced(d)'
  <2>1. Traced(c)'
    BY <1>1, <1>2, DockerTraces, CreateTraces, FixTraces, JoinTraces, LeaveTraces
  <2>2. ASSUME NEW d \in Container, d # c PROVE Traced(d)'
    BY <1>1, <1>2, <2>2, OneContainer, TracedFrame
  <2> QED BY <2>1, <2>2
<1>3. CASE Listen \/ EventLost \/ Expire \/ Reconcile \/ UNCHANGED vars
  <2>1. \A d \in Container : Same(d)
    BY <1>3 DEF Listen, EventLost, Expire, Reconcile, vars, Same,
         requestVars, dockerVars, createVars, cacheVars, hintVars
  <2> QED BY <1>1, <2>1, TracedFrame DEF IdentityInv
<1> QED BY <1>1, <1>2, <1>3 DEF Next, IdentityInv

LEMMA IdentityImplies == IdentityInv => TypeOK /\ IdentifiedMacIsIntended /\ CachedIsOwn
  BY DEF IdentityInv, Traced, IdentifiedMacIsIntended, CachedIsOwn, Identified

----------------------------------------------------------------------------
(* The theorems.                                                            *)

\* Every label, hint and cached entry names a container of this network, or none.
THEOREM TypeCorrect == Spec => []TypeOK
  BY IdentityInit, IdentityStep, IdentityImplies, PTL DEF Spec

\* Whatever CreateEndpoint guessed, from whatever order of events and starts, and
\* whichever of the logged failures occurred: a container that the goroutine of
\* Join has identified has the MAC its request named, be it its user's choice or
\* one Docker recorded, and otherwise the MAC of its hostname.
THEOREM MacIsIntended == Spec => []IdentifiedMacIsIntended
  BY IdentityInit, IdentityStep, IdentityImplies, PTL DEF Spec

\* ... and the cache, from which Leave feeds the queue, names it correctly.
THEOREM CacheIsOwn == Spec => []CachedIsOwn
  BY IdentityInit, IdentityStep, IdentityImplies, PTL DEF Spec
=============================================================================
