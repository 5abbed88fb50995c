---------------------------- MODULE PendingQueue ----------------------------
(***************************************************************************)
(* Plugin.pendingQueue and Plugin.pendingMeta (pkg/plugin/plugin.go) of one*)
(* network: the Docker event listener and Leave register containers,       *)
(* CreateEndpoint pops them, the scavenger drops old ones.  The maps are   *)
(* keyed by network and no operation relates two keys.  Every helper holds *)
(* the plugin's lock once; a registration takes it twice, for the queue    *)
(* and then for the metadata.                                              *)
(***************************************************************************)
EXTENDS PendingOps, SequencesExt

CONSTANTS
  Name,          \* container names
  Registrar,     \* goroutines that register: event listeners, Leave handlers
  MaxAge,        \* scavengerLoop's two minutes
  MaxTime        \* bound on the clock

Time == 1 .. MaxTime
Unset == 0        \* Go's zero time.Time: the age of an entry nobody stamped
Idle == "idle"    \* a registrar between two registrations

ASSUME ClockAssumption == MaxAge \in Nat \ {0} /\ MaxTime \in Nat \ {0}
ASSUME NameAssumption == Idle \notin Name

VARIABLES
  pendingQueue,  \* sequence of [name, createdAt, forward]
  pendingMeta,   \* name -> time of its last upsert, a partial map
  registering,   \* registrar -> the name between its two locks
  now

vars == <<pendingQueue, pendingMeta, registering, now>>

TypeOK ==
  /\ pendingQueue \in Seq([name : Name, createdAt : 1 .. now, forward : BOOLEAN])
  /\ DOMAIN pendingMeta \subseteq Name
  /\ Range(pendingMeta) \subseteq 1 .. now
  /\ registering \in [Registrar -> Name \cup {Idle}]
  /\ now \in Time

Init ==
  /\ pendingQueue = <<>>
  /\ pendingMeta = <<>>
  /\ registering = [r \in Registrar |-> Idle]
  /\ now = 1

----------------------------------------------------------------------------

Tick == /\ now < MaxTime /\ now' = now + 1
        /\ UNCHANGED <<pendingQueue, pendingMeta, registering>>

\* Mutant: a dedup that keeps the age of the entry it replaces.
RegisterKeepsAge(r, name, forward) ==
  /\ registering[r] = Idle
  /\ LET old == {i \in DOMAIN pendingQueue : pendingQueue[i].name = name}
         t   == IF old = {} THEN now
                ELSE pendingQueue[CHOOSE i \in old : TRUE].createdAt
     IN pendingQueue' = Pushed(pendingQueue,
          [name |-> name, createdAt |-> t, forward |-> forward])
  /\ registering' = [registering EXCEPT ![r] = name]
  /\ UNCHANGED <<pendingMeta, now>>

\* registerPendingForNetwork (create event: forward, die event: not) and Leave
\* (not forward): pushPendingContainer.
Register(r, name, forward) ==
  /\ registering[r] = Idle
  /\ pendingQueue' = Pushed(pendingQueue,
       [name |-> name, createdAt |-> now, forward |-> forward])
  /\ registering' = [registering EXCEPT ![r] = name]
  /\ UNCHANGED <<pendingMeta, now>>

\* Mutant: the metadata is stored without a time.
UpsertedUnstamped(name) ==
  [x \in DOMAIN pendingMeta \cup {name} |->
     IF x = name THEN Unset ELSE pendingMeta[x]]

\* The map after upsertPendingMeta: the last write wins, with a fresh time.
Upserted(name) ==
  [x \in DOMAIN pendingMeta \cup {name} |->
     IF x = name THEN now ELSE pendingMeta[x]]

\* Mutant: the metadata is not refreshed if it is there.
UpsertIfMissing(r) ==
  /\ registering[r] # Idle
  /\ pendingMeta' = IF registering[r] \in DOMAIN pendingMeta
                      THEN pendingMeta ELSE Upserted(registering[r])
  /\ registering' = [registering EXCEPT ![r] = Idle]
  /\ UNCHANGED <<pendingQueue, now>>

\* ... and then upsertPendingMeta, under a lock of its own.
Upsert(r) ==
  /\ registering[r] # Idle
  /\ pendingMeta' = Upserted(registering[r])
  /\ registering' = [registering EXCEPT ![r] = Idle]
  /\ UNCHANGED <<pendingQueue, now>>

\* registerPendingForNetworkMeta and network.connect: the metadata only.
UpsertOnly(r, name) ==
  /\ registering[r] = Idle
  /\ pendingMeta' = Upserted(name)
  /\ UNCHANGED <<pendingQueue, registering, now>>

\* Mutant: the youngest entry is served.
PopLast ==
  /\ pendingQueue # <<>>
  /\ pendingQueue' = Front(pendingQueue)
  /\ UNCHANGED <<pendingMeta, registering, now>>

\* popPendingContainer, when the queue is not empty.
Pop ==
  /\ pendingQueue # <<>>
  /\ pendingQueue' = Tail(pendingQueue)
  /\ UNCHANGED <<pendingMeta, registering, now>>

\* pruneExpiredPending's cutoff, time.Now().Add(-maxAge).
Cutoff == IF now > MaxAge THEN now - MaxAge ELSE Unset

\* One lock for the queue and the metadata; what is not before the cutoff stays.
Prune ==
  /\ pendingQueue' = Fresh(pendingQueue, Cutoff)
  /\ pendingMeta' = [x \in {y \in DOMAIN pendingMeta : pendingMeta[y] >= Cutoff}
                       |-> pendingMeta[x]]
  /\ UNCHANGED <<registering, now>>

Next ==
  \/ Tick \/ Prune \/ Pop
  \/ \E r \in Registrar : Upsert(r)
  \/ \E r \in Registrar, name \in Name : UpsertOnly(r, name)
  \/ \E r \in Registrar, name \in Name, forward \in BOOLEAN :
       Register(r, name, forward)

Spec == Init /\ [][Next]_vars

----------------------------------------------------------------------------
(* Properties.                                                              *)

NamesOf(q) == [i \in DOMAIN q |-> q[i].name]

\* A container waits at most once, so that at most one CreateEndpoint is served
\* with its name, although its events and its Leave register it independently.
UniqueNames == IsInjective(NamesOf(pendingQueue))

\* Announced containers stand before departed ones: compose-down entries never
\* overtake a compose-up (plugin.go:115-120), although both share one slice.
ForwardFirst == \A i, j \in DOMAIN pendingQueue :
  i < j /\ pendingQueue[j].forward => pendingQueue[i].forward

\* The queue is ordered by age, through dedup, flush and pruning: what the
\* scavenger drops is a prefix, and the survivors keep their turn.
OrderedByAge == \A i, j \in DOMAIN pendingQueue :
  i < j => pendingQueue[i].createdAt <= pendingQueue[j].createdAt

\* A queued container whose registration is complete has metadata that is at
\* least as young: pruning never takes the hostname of a container it leaves in
\* the queue, though the two are written under separate locks.
MetaCoversQueue == \A i \in DOMAIN pendingQueue :
  LET pc == pendingQueue[i] IN
  \/ \E r \in Registrar : registering[r] = pc.name
  \/ pc.name \in DOMAIN pendingMeta /\ pendingMeta[pc.name] >= pc.createdAt

\* The slice of flagged entries implements the two-class FIFO of TwoClassQueue.
TwoClass == INSTANCE TwoClassQueue WITH
  announced <- NamesOf(Forward(pendingQueue)),
  departed  <- NamesOf(Backward(pendingQueue))
ServesInOrder == TwoClass!Spec
=============================================================================
