------------------------- MODULE PendingQueueProofs -------------------------
(***************************************************************************)
(* Proofs about PendingQueue, for any names, registrars and ages: the      *)
(* queue stays unique, ordered and covered by the metadata, and implements *)
(* the two-class FIFO of TwoClassQueue.                                    *)
(***************************************************************************)
EXTENDS PendingQueue, SubsequenceLemmas

(* The queue stays in order.                                                *)

Entries == [name : Name, createdAt : Nat, forward : BOOLEAN]

\* The three order properties of the queue, pair by pair.
InTurn(q) == \A i, j \in 1 .. Len(q) : i < j =>
  /\ q[i].name # q[j].name
  /\ q[j].forward => q[i].forward
  /\ q[i].createdAt <= q[j].createdAt

LEMMA InTurnMeans ==
  ASSUME pendingQueue \in Seq(Entries)
  PROVE  InTurn(pendingQueue) <=> UniqueNames /\ ForwardFirst /\ OrderedByAge
<1> DEFINE q == pendingQueue
<1>1. DOMAIN q = 1 .. Len(q) /\ Len(q) \in Nat
  OBVIOUS
<1>2. UniqueNames <=> \A i, j \in 1 .. Len(q) : q[i].name = q[j].name => i = j
  BY <1>1 DEF UniqueNames, IsInjective, NamesOf
<1>3. ASSUME InTurn(q) PROVE UniqueNames /\ ForwardFirst /\ OrderedByAge
  <2>1. ASSUME NEW i \in 1 .. Len(q), NEW j \in 1 .. Len(q), q[i].name = q[j].name
        PROVE  i = j
    <3>1. ~(i < j) /\ ~(j < i)
      BY <1>3, <2>1 DEF InTurn
    <3> QED BY <3>1
  <2>2. ForwardFirst /\ OrderedByAge
    BY <1>1, <1>3 DEF InTurn, ForwardFirst, OrderedByAge
  <2> QED BY <1>2, <2>1, <2>2
<1>4. ASSUME UniqueNames, ForwardFirst, OrderedByAge PROVE InTurn(q)
  <2>1. \A i, j \in 1 .. Len(q) : i < j => q[i].name # q[j].name
    BY <1>2, <1>4
  <2>2. \A i, j \in 1 .. Len(q) : i < j =>
          (q[j].forward => q[i].forward) /\ q[i].createdAt <= q[j].createdAt
    BY <1>1, <1>4 DEF ForwardFirst, OrderedByAge
  <2> QED BY <2>1, <2>2 DEF InTurn
<1> QED BY <1>3, <1>4

\* What is left of a queue in order is in order.
LEMMA InTurnWithin ==
  ASSUME NEW q, NEW k, InTurn(q), Within(k, q) PROVE InTurn(k)
<1> SUFFICES ASSUME NEW i \in 1 .. Len(k), NEW j \in 1 .. Len(k), i < j
             PROVE  /\ k[i].name # k[j].name
                    /\ k[j].forward => k[i].forward
                    /\ k[i].createdAt <= k[j].createdAt
  BY DEF InTurn
<1>1. PICK a \in 1 .. Len(q), b \in 1 .. Len(q) : a < b /\ q[a] = k[i] /\ q[b] = k[j]
  BY DEF Within
<1>2. /\ q[a].name # q[b].name
      /\ q[b].forward => q[a].forward
      /\ q[a].createdAt <= q[b].createdAt
  BY <1>1 DEF InTurn
<1> QED BY <1>1, <1>2

\* It stays so when the youngest entry is appended.
LEMMA InTurnAppend ==
  ASSUME NEW k \in Seq(Entries), NEW pc \in Entries, InTurn(k),
         \A i \in 1 .. Len(k) : /\ k[i].name # pc.name
                                /\ pc.forward => k[i].forward
                                /\ k[i].createdAt <= pc.createdAt
  PROVE  InTurn(Append(k, pc))
<1> DEFINE l == Append(k, pc)
<1>1. /\ Len(l) = Len(k) + 1 /\ Len(k) \in Nat /\ l[Len(k) + 1] = pc
      /\ \A i \in 1 .. Len(k) : l[i] = k[i]
  OBVIOUS
<1> HIDE DEF l
<1>2. ASSUME NEW i \in 1 .. Len(l), NEW j \in 1 .. Len(l), i < j
      PROVE  /\ l[i].name # l[j].name
             /\ l[j].forward => l[i].forward
             /\ l[i].createdAt <= l[j].createdAt
  <2>1. i \in 1 .. Len(k) /\ l[i] = k[i]
    BY <1>1, <1>2
  <2>2. CASE j \in 1 .. Len(k)
    <3>1. l[j] = k[j]
      BY <1>1, <2>2
    <3> QED BY <1>2, <2>1, <2>2, <3>1 DEF InTurn
  <2>3. CASE j = Len(k) + 1
    <3>1. l[j] = pc
      BY <1>1, <2>3
    <3> QED BY <2>1, <3>1
  <2> QED BY <1>1, <2>2, <2>3
<1> QED BY <1>2 DEF InTurn, l

\* A Tail is within its queue.
LEMMA TailWithin ==
  ASSUME NEW T, NEW q \in Seq(T), q # <<>>
  PROVE  Tail(q) \in Seq(T) /\ Within(Tail(q), q)
<1>1. /\ Tail(q) \in Seq(T) /\ Len(Tail(q)) = Len(q) - 1 /\ Len(q) \in Nat
      /\ \A i \in 1 .. Len(Tail(q)) : Tail(q)[i] = q[i + 1]
  BY HeadTailProperties
<1>2. \A i \in 1 .. Len(Tail(q)) : i + 1 \in 1 .. Len(q)
  BY <1>1
<1> QED BY <1>1, <1>2 DEF Within

----------------------------------------------------------------------------
(* The invariant.                                                           *)

\* What an entry may be at time t.
Aged(t) == [name : Name, createdAt : 1 .. t, forward : BOOLEAN]

QueueInv == TypeOK /\ InTurn(pendingQueue) /\ MetaCoversQueue

\* What MetaCoversQueue says of an entry.
Covered(e) == \/ \E r \in Registrar : registering[r] = e.name
              \/ e.name \in DOMAIN pendingMeta /\ pendingMeta[e.name] >= e.createdAt

LEMMA CoveredQueue ==
  ASSUME NEW T, pendingQueue \in Seq(T)
  PROVE  MetaCoversQueue <=> \A i \in 1 .. Len(pendingQueue) : Covered(pendingQueue[i])
  BY DEF MetaCoversQueue, Covered

LEMMA AgedIsEntry ==
  ASSUME NEW t \in Nat, NEW u \in Nat, t <= u, NEW q \in Seq(Aged(t))
  PROVE  q \in Seq(Aged(u)) /\ q \in Seq(Entries)
<1>1. Aged(t) \subseteq Aged(u) /\ Aged(t) \subseteq Entries
  BY DEF Aged, Entries
<1> QED BY <1>1, SeqMonotonic

\* Entries that leave the queue, if the metadata of the others stay.
LEMMA Shrinks ==
  ASSUME QueueInv, pendingQueue' \in Seq(Aged(now)), Within(pendingQueue', pendingQueue),
         UNCHANGED <<registering, now>>,
         \A i \in 1 .. Len(pendingQueue') :
           LET pc == pendingQueue'[i] IN
           pc.name \in DOMAIN pendingMeta /\ pendingMeta[pc.name] >= pc.createdAt
             => pc.name \in DOMAIN pendingMeta' /\ pendingMeta'[pc.name] >= pc.createdAt,
         DOMAIN pendingMeta' \subseteq Name, Range(pendingMeta') \subseteq 1 .. now
  PROVE  QueueInv'
<1>1. TypeOK'
  BY DEF QueueInv, TypeOK, Aged
<1>2. InTurn(pendingQueue')
  BY InTurnWithin DEF QueueInv
<1>3. DOMAIN pendingQueue' = 1 .. Len(pendingQueue')
      /\ DOMAIN pendingQueue = 1 .. Len(pendingQueue)
  BY DEF QueueInv, TypeOK
<1>4. \A i \in 1 .. Len(pendingQueue') :
        \E a \in 1 .. Len(pendingQueue) : pendingQueue[a] = pendingQueue'[i]
  BY DEF Within
<1>5. MetaCoversQueue'
  BY <1>3, <1>4 DEF QueueInv, MetaCoversQueue
<1> QED BY <1>1, <1>2, <1>5 DEF QueueInv

\* A registration: the new entry has a registrar, the others keep what they have.
LEMMA RegisterKeeps ==
  ASSUME QueueInv, NEW r \in Registrar, NEW name \in Name, NEW forward \in BOOLEAN,
         Register(r, name, forward)
  PROVE  QueueInv'
<1> DEFINE q  == pendingQueue
           pc == [name |-> name, createdAt |-> now, forward |-> forward]
<1>1. now \in Nat /\ now >= 1 /\ q \in Seq(Aged(now)) /\ pc \in Aged(now)
      /\ registering \in [Registrar -> Name \cup {Idle}]
  BY DEF QueueInv, TypeOK, Aged, Time
<1>2. /\ registering[r] = Idle /\ q' = Pushed(q, pc) /\ UNCHANGED <<pendingMeta, now>>
      /\ registering' = [registering EXCEPT ![r] = name]
  BY DEF Register
<1>3. pc.name = name /\ pc.forward = forward /\ pc.createdAt = now
  OBVIOUS
<1> HIDE DEF pc
<1>4. PICK k \in Seq(Aged(now)) :
        /\ Pushed(q, pc) = Append(k, pc)
        /\ Within(k, q)
        /\ \A i \in 1 .. Len(k) : k[i].name # pc.name
        /\ pc.forward => \A i \in 1 .. Len(k) : k[i].forward
  BY <1>1, PushedShape
<1>5. q' \in Seq(Aged(now)) /\ Len(q') = Len(k) + 1 /\ q'[Len(k) + 1] = pc
      /\ Len(k) \in Nat /\ \A i \in 1 .. Len(k) : q'[i] = k[i]
  BY <1>1, <1>2, <1>4
<1>6. TypeOK'
  BY <1>1, <1>2, <1>5 DEF QueueInv, TypeOK, Aged, Time
<1>7. InTurn(q')
  <2>1. InTurn(k)
    BY <1>4, InTurnWithin DEF QueueInv
  <2>2. ASSUME NEW i \in 1 .. Len(k) PROVE k[i].createdAt <= pc.createdAt
    <3>1. k[i] \in Aged(now)
      OBVIOUS
    <3> QED BY <1>1, <1>3, <3>1 DEF Aged
  <2>3. k \in Seq(Entries)
    BY <1>1, AgedIsEntry
  <2>4. pc \in Entries
    BY <1>1 DEF Aged, Entries
  <2> QED BY <1>2, <1>4, <2>1, <2>2, <2>3, <2>4, InTurnAppend
<1>8. MetaCoversQueue'
  <2> USE DEF Covered
  <2>1. ASSUME NEW e \in Aged(now), Covered(e) PROVE Covered(e)'
    <3>1. CASE \E s \in Registrar : registering[s] = e.name
      <4>1. PICK s \in Registrar : registering[s] = e.name
        BY <3>1
      <4>2. s # r
        BY <1>2, <4>1, NameAssumption DEF Aged
      <4>3. registering'[s] = e.name
        BY <1>1, <1>2, <4>1, <4>2
      <4> QED BY <4>3
    <3>2. CASE e.name \in DOMAIN pendingMeta /\ pendingMeta[e.name] >= e.createdAt
      BY <1>2, <3>2
    <3> QED BY <2>1, <3>1, <3>2
  <2> HIDE DEF Covered
  <2>2. \A a \in 1 .. Len(q) : Covered(q[a])
    BY <1>1, CoveredQueue DEF QueueInv
  <2>3. registering'[r] = pc.name
    BY <1>1, <1>2, <1>3
  <2>4. ASSUME NEW i \in 1 .. Len(q'), NEW e, e = q'[i] PROVE Covered(e)'
    <3>1. CASE i = Len(k) + 1
      <4>1. registering'[r] = e.name
        BY <1>5, <2>3, <2>4, <3>1
      <4> QED BY <4>1 DEF Covered
    <3>2. CASE i \in 1 .. Len(k)
      <4>1. e = k[i] /\ e \in Aged(now)
        BY <1>5, <2>4, <3>2
      <4>2. PICK a \in 1 .. Len(q) : q[a] = e
        BY <1>4, <3>2, <4>1 DEF Within
      <4> QED BY <2>1, <2>2, <4>1, <4>2
    <3> QED BY <1>5, <3>1, <3>2
  <2>5. DOMAIN q' = 1 .. Len(q')
    BY <1>5
  <2> QED BY <2>4, <2>5 DEF MetaCoversQueue, Covered
<1> QED BY <1>6, <1>7, <1>8 DEF QueueInv

\* The entry served leaves the metadata as they are.
LEMMA PopKeeps == ASSUME QueueInv, Pop PROVE QueueInv'
<1>1. pendingQueue \in Seq(Aged(now)) /\ DOMAIN pendingMeta \subseteq Name
      /\ Range(pendingMeta) \subseteq 1 .. now
  BY DEF QueueInv, TypeOK, Aged
<1>2. pendingQueue # <<>> /\ pendingQueue' = Tail(pendingQueue)
      /\ UNCHANGED <<pendingMeta, registering, now>>
  BY DEF Pop
<1>3. pendingQueue' \in Seq(Aged(now)) /\ Within(pendingQueue', pendingQueue)
  BY <1>1, <1>2, TailWithin
<1> QED BY <1>1, <1>2, <1>3, Shrinks

\* Queue and metadata are pruned by one cutoff: metadata no younger than the entry
\* they cover survive with it.
LEMMA PruneKeeps == ASSUME QueueInv, Prune PROVE QueueInv'
<1> DEFINE q == pendingQueue
           S == {pc \in Range(q) : pc.createdAt >= Cutoff}
<1>1. q \in Seq(Aged(now)) /\ DOMAIN pendingMeta \subseteq Name
      /\ Range(pendingMeta) \subseteq 1 .. now /\ now \in Nat
  BY DEF QueueInv, TypeOK, Aged, Time
<1>2. q' = Kept(q, S) /\ UNCHANGED <<registering, now>>
      /\ pendingMeta' = [x \in {y \in DOMAIN pendingMeta : pendingMeta[y] >= Cutoff}
                           |-> pendingMeta[x]]
  BY DEF Prune, Fresh
<1>3. Cutoff \in Nat
  BY <1>1, ClockAssumption DEF Cutoff, Unset
<1>4. q' \in Seq(Aged(now)) /\ Within(q', q) /\ q' \in Seq(Aged(now) \cap S)
  <2> HIDE DEF S
  <2> QED BY <1>1, <1>2, KeptType, KeptWithin
<1>5. \A i \in 1 .. Len(q') : q'[i] \in Aged(now) /\ q'[i] \in S
  <2> HIDE DEF S
  <2> QED BY <1>4
<1>6. DOMAIN pendingMeta' \subseteq Name /\ Range(pendingMeta') \subseteq 1 .. now
  BY <1>1, <1>2 DEF Range
<1>7. ASSUME NEW i \in 1 .. Len(q'), NEW pc, pc = q'[i],
             pc.name \in DOMAIN pendingMeta, pendingMeta[pc.name] >= pc.createdAt
      PROVE  pc.name \in DOMAIN pendingMeta' /\ pendingMeta'[pc.name] >= pc.createdAt
  <2>1. pc.createdAt \in Nat /\ pc.createdAt >= Cutoff
    BY <1>1, <1>5, <1>7 DEF Aged
  <2>2. pendingMeta[pc.name] \in 1 .. now
    BY <1>1, <1>7 DEF Range
  <2>3. pendingMeta[pc.name] >= Cutoff
    BY <1>1, <1>3, <1>7, <2>1, <2>2
  <2>4. pc.name \in DOMAIN pendingMeta' /\ pendingMeta'[pc.name] = pendingMeta[pc.name]
    BY <1>2, <1>7, <2>3
  <2> QED BY <1>7, <2>4
<1> QED BY <1>2, <1>4, <1>6, <1>7, Shrinks

\* New metadata are as young as any entry.
LEMMA UpsertKeeps ==
  ASSUME QueueInv, NEW name \in Name, pendingMeta' = Upserted(name),
         UNCHANGED <<pendingQueue, now>>,
         registering' \in [Registrar -> Name \cup {Idle}],
         \A s \in Registrar : registering[s] # name => registering'[s] = registering[s]
  PROVE  QueueInv'
<1> DEFINE q == pendingQueue
<1>1. /\ q \in Seq(Aged(now)) /\ DOMAIN pendingMeta \subseteq Name
      /\ Range(pendingMeta) \subseteq 1 .. now /\ now \in Nat /\ now >= 1 /\ now \in Time
  BY DEF QueueInv, TypeOK, Aged, Time
<1>2. /\ DOMAIN pendingMeta' = DOMAIN pendingMeta \cup {name}
      /\ pendingMeta'[name] = now
      /\ \A x \in DOMAIN pendingMeta : x # name => pendingMeta'[x] = pendingMeta[x]
      /\ pendingMeta' = [x \in DOMAIN pendingMeta \cup {name} |->
                           IF x = name THEN now ELSE pendingMeta[x]]
  BY DEF Upserted
<1>3. DOMAIN pendingMeta' \subseteq Name /\ Range(pendingMeta') \subseteq 1 .. now
  <2>1. DOMAIN pendingMeta' \subseteq Name
    BY <1>1, <1>2
  <2>2. ASSUME NEW x \in DOMAIN pendingMeta' PROVE pendingMeta'[x] \in 1 .. now
    <3>1. CASE x = name
      BY <1>1, <1>2, <3>1
    <3>2. CASE x # name
      <4>1. x \in DOMAIN pendingMeta /\ pendingMeta'[x] = pendingMeta[x]
        BY <1>2, <2>2, <3>2
      <4> QED BY <1>1, <4>1 DEF Range
    <3> QED BY <3>1, <3>2
  <2> QED BY <2>1, <2>2 DEF Range
<1>4. TypeOK'
  BY <1>1, <1>3 DEF TypeOK, Aged
<1>5. \A i \in 1 .. Len(q) : Covered(q[i])
  BY <1>1, CoveredQueue DEF QueueInv
<1>6. ASSUME NEW e \in Aged(now), Covered(e) PROVE Covered(e)'
  <2>1. CASE e.name = name
    <3>1. e.createdAt \in 1 .. now
      BY DEF Aged
    <3>2. e.name \in DOMAIN pendingMeta' /\ pendingMeta'[e.name] >= e.createdAt
      BY <1>1, <1>2, <2>1, <3>1
    <3> QED BY <3>2 DEF Covered
  <2>2. CASE e.name # name
    BY <1>2, <1>6, <2>2 DEF Covered
  <2> QED BY <2>1, <2>2
<1>7. ASSUME NEW i \in 1 .. Len(q'), NEW e, e = q'[i] PROVE Covered(e)'
  <2>1. e \in Aged(now) /\ i \in 1 .. Len(q) /\ e = q[i]
    BY <1>1, <1>7
  <2> QED BY <1>5, <1>6, <2>1
<1>8. DOMAIN q' = 1 .. Len(q')
  BY <1>1
<1>9. MetaCoversQueue'
  BY <1>7, <1>8 DEF MetaCoversQueue, Covered
<1> QED BY <1>4, <1>9 DEF QueueInv

LEMMA TickKeeps == ASSUME QueueInv, Tick PROVE QueueInv'
<1>1. pendingQueue \in Seq(Aged(now)) /\ now \in Nat /\ now' = now + 1 /\ now' \in Time
      /\ Range(pendingMeta) \subseteq 1 .. now
      /\ UNCHANGED <<pendingQueue, pendingMeta, registering>>
  BY ClockAssumption DEF QueueInv, TypeOK, Tick, Aged, Time
<1>2. pendingQueue' \in Seq(Aged(now'))
  BY <1>1, AgedIsEntry
<1>3. TypeOK'
  BY <1>1, <1>2 DEF QueueInv, TypeOK, Aged
<1>4. InTurn(pendingQueue') /\ MetaCoversQueue'
  BY <1>1 DEF QueueInv, MetaCoversQueue
<1> QED BY <1>3, <1>4 DEF QueueInv

LEMMA QueueInit == Init => QueueInv
<1> SUFFICES ASSUME Init PROVE QueueInv
  OBVIOUS
<1>1. TypeOK
  BY ClockAssumption DEF Init, TypeOK, Time, Range
<1>2. InTurn(pendingQueue) /\ MetaCoversQueue
  BY DEF Init, InTurn, MetaCoversQueue
<1> QED BY <1>1, <1>2 DEF QueueInv

LEMMA QueueStep == QueueInv /\ [Next]_vars => QueueInv'
<1> SUFFICES ASSUME QueueInv, [Next]_vars PROVE QueueInv'
  OBVIOUS
<1>1. CASE Tick
  BY <1>1, TickKeeps
<1>2. CASE Prune
  BY <1>2, PruneKeeps
<1>3. CASE Pop
  BY <1>3, PopKeeps
<1>4. ASSUME NEW r \in Registrar, Upsert(r) PROVE QueueInv'
  <2>1. registering[r] \in Name /\ registering \in [Registrar -> Name \cup {Idle}]
        /\ pendingMeta' = Upserted(registering[r]) /\ UNCHANGED <<pendingQueue, now>>
        /\ registering' = [registering EXCEPT ![r] = Idle]
    BY <1>4 DEF QueueInv, TypeOK, Upsert
  <2>2. registering' \in [Registrar -> Name \cup {Idle}]
        /\ \A s \in Registrar : registering[s] # registering[r]
                                  => registering'[s] = registering[s]
    BY <2>1
  <2> QED BY <2>1, <2>2, UpsertKeeps
<1>5. ASSUME NEW r \in Registrar, NEW name \in Name, UpsertOnly(r, name)
      PROVE  QueueInv'
  <2>1. pendingMeta' = Upserted(name) /\ UNCHANGED <<pendingQueue, registering, now>>
        /\ registering \in [Registrar -> Name \cup {Idle}]
    BY <1>5 DEF QueueInv, TypeOK, UpsertOnly
  <2> QED BY <2>1, UpsertKeeps
<1>6. ASSUME NEW r \in Registrar, NEW name \in Name, NEW forward \in BOOLEAN,
             Register(r, name, forward)
      PROVE  QueueInv'
  BY <1>6, RegisterKeeps
<1>7. CASE UNCHANGED vars
  BY <1>7 DEF vars, QueueInv, TypeOK, InTurn, MetaCoversQueue, Time
<1> QED BY <1>1, <1>2, <1>3, <1>4, <1>5, <1>6, <1>7 DEF Next

LEMMA QueueImplies ==
  QueueInv => TypeOK /\ UniqueNames /\ ForwardFirst /\ OrderedByAge /\ MetaCoversQueue
<1> SUFFICES ASSUME QueueInv
             PROVE  TypeOK /\ UniqueNames /\ ForwardFirst /\ OrderedByAge /\ MetaCoversQueue
  OBVIOUS
<1>1. pendingQueue \in Seq(Aged(now)) /\ now \in Nat
  BY DEF QueueInv, TypeOK, Aged, Time
<1>2. pendingQueue \in Seq(Entries)
  BY <1>1, AgedIsEntry
<1> QED BY <1>2, InTurnMeans DEF QueueInv

----------------------------------------------------------------------------
(* The theorems.                                                            *)

\* Every entry and every metadata time was taken from the clock, whatever the
\* registrars, CreateEndpoint and the scavenger do in whatever order.
THEOREM TypeCorrect == Spec => []TypeOK
  BY QueueInit, QueueStep, QueueImplies, PTL DEF Spec

\* A container waits at most once: pushPendingContainer's dedup suffices for any
\* interleaving of event listeners and Leave handlers.
THEOREM NamesUnique == Spec => []UniqueNames
  BY QueueInit, QueueStep, QueueImplies, PTL DEF Spec

\* A departed container never stands before an announced one: the flush of
\* pushPendingContainer keeps the one slice a queue of two classes.
THEOREM AnnouncedFirst == Spec => []ForwardFirst
  BY QueueInit, QueueStep, QueueImplies, PTL DEF Spec

\* The queue is ordered by age, so what pruneExpiredPending drops is a prefix.
THEOREM AgeOrdered == Spec => []OrderedByAge
  BY QueueInit, QueueStep, QueueImplies, PTL DEF Spec

\* The scavenger never takes the metadata of a container that it leaves in the
\* queue, unless their registration is still between its two locks.
THEOREM MetaCovers == Spec => []MetaCoversQueue
  BY QueueInit, QueueStep, QueueImplies, PTL DEF Spec

----------------------------------------------------------------------------
(* The refinement of TwoClassQueue.                                         *)

\* What the operators of PendingOps want, as sets of entries.
Fwd == {x \in Entries : x.forward}
Bwd == {x \in Entries : ~x.forward}
Other(name) == {x \in Entries : x.name # name}
Young(cutoff) == {x \in Entries : x.createdAt >= cutoff}
NameOf == [x \in Entries |-> x.name]

LEMMA OpsKeep ==
  ASSUME NEW q \in Seq(Entries), NEW n, NEW c
  PROVE  /\ Forward(q) = Kept(q, Fwd)
         /\ Backward(q) = Kept(q, Bwd)
         /\ Without(q, n) = Kept(q, Other(n))
         /\ Fresh(q, c) = Kept(q, Young(c))
<1>1. \A i \in 1 .. Len(q) : q[i] \in Entries /\ q[i] \in Range(q)
  BY DEF Range
<1>2. Forward(q) = Kept(q, Fwd)
  <2> DEFINE S == {x \in Range(q) : x.forward}
  <2>1. \A i \in 1 .. Len(q) : q[i] \in S <=> q[i] \in Fwd
    BY <1>1 DEF Fwd
  <2> HIDE DEF S
  <2>2. Kept(q, S) = Kept(q, Fwd)
    BY <2>1, KeptSame
  <2> QED BY <2>2 DEF Forward, S
<1>3. Backward(q) = Kept(q, Bwd)
  <2> DEFINE S == {x \in Range(q) : ~x.forward}
  <2>1. \A i \in 1 .. Len(q) : q[i] \in S <=> q[i] \in Bwd
    BY <1>1 DEF Bwd
  <2> HIDE DEF S
  <2>2. Kept(q, S) = Kept(q, Bwd)
    BY <2>1, KeptSame
  <2> QED BY <2>2 DEF Backward, S
<1>4. Without(q, n) = Kept(q, Other(n))
  <2> DEFINE S == {x \in Range(q) : x.name # n}
  <2>1. \A i \in 1 .. Len(q) : q[i] \in S <=> q[i] \in Other(n)
    BY <1>1 DEF Other
  <2> HIDE DEF S
  <2>2. Kept(q, S) = Kept(q, Other(n))
    BY <2>1, KeptSame
  <2> QED BY <2>2 DEF Without, S
<1>5. Fresh(q, c) = Kept(q, Young(c))
  <2> DEFINE S == {x \in Range(q) : x.createdAt >= c}
  <2>1. \A i \in 1 .. Len(q) : q[i] \in S <=> q[i] \in Young(c)
    BY <1>1 DEF Young
  <2> HIDE DEF S
  <2>2. Kept(q, S) = Kept(q, Young(c))
    BY <2>1, KeptSame
  <2> QED BY <2>2 DEF Fresh, S
<1> QED BY <1>2, <1>3, <1>4, <1>5

\* Filters commute; nothing is kept where nothing is wanted, all where all is.
LEMMA KeptSwap ==
  ASSUME NEW T, NEW q \in Seq(T), NEW A, NEW B
  PROVE  Kept(Kept(q, A), B) = Kept(Kept(q, B), A)
<1>1. Kept(Kept(q, A), B) = Kept(q, A \cap B) /\ Kept(Kept(q, B), A) = Kept(q, B \cap A)
  BY KeptTwice
<1>2. A \cap B = B \cap A
  OBVIOUS
<1> QED BY <1>1, <1>2

LEMMA KeptNone ==
  ASSUME NEW T, NEW q \in Seq(T), NEW S, \A i \in 1 .. Len(q) : q[i] \notin S
  PROVE  Kept(q, S) = <<>>
<1>1. 0 \in 0 .. Len(q) /\ \A i \in 1 .. Len(q) : q[i] \in S <=> i <= 0
  OBVIOUS
<1>2. Kept(q, S) = SubSeq(q, 1, 0)
  BY <1>1, KeptPrefix
<1> QED BY <1>2

LEMMA KeptAll ==
  ASSUME NEW T, NEW q \in Seq(T), NEW S, \A i \in 1 .. Len(q) : q[i] \in S
  PROVE  Kept(q, S) = q
<1>1. Len(q) \in 0 .. Len(q) /\ \A i \in 1 .. Len(q) : q[i] \in S <=> i <= Len(q)
  OBVIOUS
<1>2. Kept(q, S) = SubSeq(q, 1, Len(q))
  BY <1>1, KeptPrefix
<1> QED BY <1>2

\* The names of a queue follow it through every operation.
LEMMA NamesMapped ==
  ASSUME NEW q \in Seq(Entries)
  PROVE  NamesOf(q) = Mapped(NameOf, q) /\ NamesOf(q) \in Seq(Name)
         /\ Len(NamesOf(q)) = Len(q)
<1>1. DOMAIN q = 1 .. Len(q) /\ Len(q) \in Nat
      /\ \A i \in 1 .. Len(q) : q[i] \in Entries
  OBVIOUS
<1>2. \A i \in 1 .. Len(q) : NameOf[q[i]] = q[i].name /\ q[i].name \in Name
  BY <1>1 DEF NameOf, Entries
<1>3. NamesOf(q) = [i \in 1 .. Len(q) |-> q[i].name]
  BY <1>1 DEF NamesOf
<1>4. Mapped(NameOf, q) = [i \in 1 .. Len(q) |-> q[i].name]
  BY <1>2 DEF Mapped
<1>5. [i \in 1 .. Len(q) |-> q[i].name] \in Seq(Name)
  BY <1>1, <1>2
<1> QED BY <1>1, <1>3, <1>4, <1>5

LEMMA NamesDrop ==
  ASSUME NEW q \in Seq(Entries), NEW n
  PROVE  NamesOf(Without(q, n)) = Kept(NamesOf(q), Name \ {n})
<1>1. Without(q, n) = Kept(q, Other(n)) /\ Kept(q, Other(n)) \in Seq(Entries)
  BY OpsKeep, KeptType
<1>2. Other(n) = Preimage(NameOf, Entries, Name \ {n})
  BY DEF Other, NameOf, Entries, Preimage
<1>3. Mapped(NameOf, Kept(q, Other(n))) = Kept(Mapped(NameOf, q), Name \ {n})
  BY <1>2, KeptMapped
<1> QED BY <1>1, <1>3, NamesMapped

LEMMA NamesAppend ==
  ASSUME NEW q \in Seq(Entries), NEW pc \in Entries
  PROVE  NamesOf(Append(q, pc)) = Append(NamesOf(q), pc.name)
<1> DEFINE r == Append(q, pc)
           a == NamesOf(r)
           b == Append(NamesOf(q), pc.name)
<1>1. r \in Seq(Entries) /\ Len(r) = Len(q) + 1 /\ Len(q) \in Nat
      /\ r[Len(q) + 1] = pc /\ (\A i \in 1 .. Len(q) : r[i] = q[i])
      /\ DOMAIN r = 1 .. Len(r) /\ DOMAIN q = 1 .. Len(q)
  OBVIOUS
<1> HIDE DEF r
<1>2. a \in Seq(Name) /\ Len(a) = Len(q) + 1 /\ \A i \in 1 .. Len(r) : a[i] = r[i].name
  BY <1>1, NamesMapped DEF NamesOf
<1>3. NamesOf(q) \in Seq(Name) /\ Len(NamesOf(q)) = Len(q) /\ pc.name \in Name
      /\ \A i \in 1 .. Len(q) : NamesOf(q)[i] = q[i].name
  BY <1>1, NamesMapped DEF NamesOf, Entries
<1>4. b \in Seq(Name) /\ Len(b) = Len(q) + 1 /\ b[Len(q) + 1] = pc.name
      /\ \A i \in 1 .. Len(q) : b[i] = q[i].name
  <2> HIDE DEF NamesOf
  <2> QED BY <1>3
<1> HIDE DEF a, b
<1>5. \A i \in 1 .. Len(q) + 1 : i \in 1 .. Len(q) \/ i = Len(q) + 1
  BY <1>1
<1>6. \A i \in 1 .. Len(a) : a[i] = b[i]
  BY <1>1, <1>2, <1>4, <1>5
<1>7. a = b
  BY <1>2, <1>4, <1>6, SeqEqual
<1> QED BY <1>7 DEF a, b, r

LEMMA NamesRest ==
  ASSUME NEW q \in Seq(Entries), NEW m \in 0 .. Len(q)
  PROVE  NamesOf(SubSeq(q, m + 1, Len(q))) = SubSeq(NamesOf(q), m + 1, Len(NamesOf(q)))
<1> DEFINE r == SubSeq(q, m + 1, Len(q))
           s == NamesOf(q)
           a == NamesOf(r)
           b == SubSeq(s, m + 1, Len(s))
<1>1. r \in Seq(Entries) /\ Len(r) = Len(q) - m /\ Len(q) \in Nat
      /\ (\A i \in 1 .. Len(r) : r[i] = q[m + i])
      /\ DOMAIN r = 1 .. Len(r) /\ DOMAIN q = 1 .. Len(q)
  OBVIOUS
<1> HIDE DEF r
<1>2. a \in Seq(Name) /\ Len(a) = Len(r) /\ \A i \in 1 .. Len(r) : a[i] = r[i].name
  BY <1>1, NamesMapped DEF NamesOf
<1>3. s \in Seq(Name) /\ Len(s) = Len(q) /\ \A i \in 1 .. Len(q) : s[i] = q[i].name
  BY <1>1, NamesMapped DEF NamesOf
<1> HIDE DEF s, a
<1>4. b \in Seq(Name) /\ Len(b) = Len(q) - m /\ \A i \in 1 .. Len(b) : b[i] = s[m + i]
  BY <1>1, <1>3
<1> HIDE DEF b
<1>5. \A i \in 1 .. Len(r) : m + i \in 1 .. Len(q)
  BY <1>1
<1>6. \A i \in 1 .. Len(a) : a[i] = b[i]
  BY <1>1, <1>2, <1>3, <1>4, <1>5
<1>7. a = b
  BY <1>1, <1>2, <1>4, <1>6, SeqEqual
<1> QED BY <1>7 DEF a, b, s, r

\* What a push does to the two classes.
LEMMA PushForward ==
  ASSUME NEW q \in Seq(Entries), NEW pc \in Entries, pc.forward
  PROVE  /\ Forward(Pushed(q, pc)) = Append(Without(Forward(q), pc.name), pc)
         /\ Backward(Pushed(q, pc)) = <<>>
<1> DEFINE f == Kept(q, Fwd)
           k == Kept(f, Other(pc.name))
<1>1. Forward(q) = f /\ f \in Seq(Entries) /\ f \in Seq(Entries \cap Fwd)
  BY OpsKeep, KeptType
<1>2. Without(f, pc.name) = k /\ k \in Seq(Entries)
  BY <1>1, OpsKeep, KeptType
<1>3. Pushed(q, pc) = Append(k, pc) /\ Append(k, pc) \in Seq(Entries)
  BY <1>1, <1>2 DEF Pushed
<1>4. \A i \in 1 .. Len(f) : f[i] \in Fwd
  BY <1>1
<1>5. \A i \in 1 .. Len(k) : k[i] \in Fwd /\ k[i] \notin Bwd
  <2>1. Within(k, f)
    BY <1>1, KeptWithin
  <2>2. \A i \in 1 .. Len(k) : k[i] \in Fwd
    BY <1>4, <2>1 DEF Within
  <2> QED BY <2>2 DEF Fwd, Bwd
<1>6. pc \in Fwd /\ pc \notin Bwd
  BY DEF Fwd, Bwd
<1> HIDE DEF f, k
<1>7. Kept(k, Fwd) = k /\ Kept(k, Bwd) = <<>>
  BY <1>2, <1>5, KeptAll, KeptNone
<1>8. Kept(Append(k, pc), Fwd) = Append(k, pc) /\ Kept(Append(k, pc), Bwd) = <<>>
  BY <1>2, <1>6, <1>7, KeptAppend
<1> QED BY <1>1, <1>2, <1>3, <1>8, OpsKeep

LEMMA PushBackward ==
  ASSUME NEW q \in Seq(Entries), NEW pc \in Entries, ~pc.forward
  PROVE  /\ Forward(Pushed(q, pc)) = Without(Forward(q), pc.name)
         /\ Backward(Pushed(q, pc)) = Append(Without(Backward(q), pc.name), pc)
<1> DEFINE O == Other(pc.name)
           k == Kept(q, O)
<1>1. Without(q, pc.name) = k /\ k \in Seq(Entries)
  BY OpsKeep, KeptType
<1>2. Pushed(q, pc) = Append(k, pc) /\ Append(k, pc) \in Seq(Entries)
  BY <1>1 DEF Pushed
<1>3. pc \notin Fwd /\ pc \in Bwd
  BY DEF Fwd, Bwd
<1>4. Kept(k, Fwd) = Kept(Kept(q, Fwd), O) /\ Kept(k, Bwd) = Kept(Kept(q, Bwd), O)
  BY KeptSwap
<1>5. Kept(q, Fwd) \in Seq(Entries) /\ Kept(q, Bwd) \in Seq(Entries)
  BY KeptType
<1>6. /\ Forward(q) = Kept(q, Fwd) /\ Backward(q) = Kept(q, Bwd)
      /\ Without(Kept(q, Fwd), pc.name) = Kept(Kept(q, Fwd), O)
      /\ Without(Kept(q, Bwd), pc.name) = Kept(Kept(q, Bwd), O)
  BY <1>5, OpsKeep
<1> HIDE DEF O, k
<1>7. Kept(Append(k, pc), Fwd) = Kept(k, Fwd)
      /\ Kept(Append(k, pc), Bwd) = Append(Kept(k, Bwd), pc)
  BY <1>1, <1>3, KeptAppend
<1>8. Forward(Append(k, pc)) = Kept(Append(k, pc), Fwd)
      /\ Backward(Append(k, pc)) = Kept(Append(k, pc), Bwd)
  BY <1>2, OpsKeep
<1> QED BY <1>2, <1>4, <1>6, <1>7, <1>8

\* The head of the queue is the first announced container, or, when there is none,
\* the first departed one.
LEMMA PopServes ==
  ASSUME NEW q \in Seq(Entries), q # <<>>, InTurn(q)
  PROVE  \/ /\ Forward(q) # <<>> /\ Forward(Tail(q)) = Tail(Forward(q))
            /\ Backward(Tail(q)) = Backward(q)
         \/ /\ Forward(q) = <<>> /\ Forward(Tail(q)) = <<>> /\ Backward(q) # <<>>
            /\ Backward(Tail(q)) = Tail(Backward(q))
<1>1. Tail(q) \in Seq(Entries) /\ q[1] \in Entries /\ Len(q) \in Nat /\ 1 \in 1 .. Len(q)
  OBVIOUS
<1>2. /\ Forward(q) = Kept(q, Fwd) /\ Forward(Tail(q)) = Kept(Tail(q), Fwd)
      /\ Backward(q) = Kept(q, Bwd) /\ Backward(Tail(q)) = Kept(Tail(q), Bwd)
  BY <1>1, OpsKeep
<1>3. CASE q[1].forward
  <2>1. q[1] \in Fwd /\ q[1] \notin Bwd
    BY <1>1, <1>3 DEF Fwd, Bwd
  <2>2. Kept(q, Fwd) # <<>> /\ Kept(Tail(q), Fwd) = Tail(Kept(q, Fwd))
    BY <2>1, KeptTail
  <2>3. Kept(Tail(q), Bwd) = Kept(q, Bwd)
    BY <2>1, KeptTail
  <2> QED BY <1>2, <2>2, <2>3
<1>4. CASE ~q[1].forward
  <2>1. q[1] \notin Fwd /\ q[1] \in Bwd
    BY <1>1, <1>4 DEF Fwd, Bwd
  <2>2. \A i \in 1 .. Len(q) : ~q[i].forward
    <3> SUFFICES ASSUME NEW i \in 1 .. Len(q) PROVE ~q[i].forward
      OBVIOUS
    <3>1. CASE i = 1
      BY <1>4, <3>1
    <3>2. CASE i # 1
      <4>1. 1 < i
        BY <3>2
      <4> QED BY <1>1, <1>4, <4>1 DEF InTurn
    <3> QED BY <3>1, <3>2
  <2>3. \A i \in 1 .. Len(q) : q[i] \notin Fwd
    BY <2>2 DEF Fwd
  <2>4. Kept(q, Fwd) = <<>>
    BY <2>3, KeptNone
  <2>5. Kept(Tail(q), Fwd) = Kept(q, Fwd)
    BY <2>1, KeptTail
  <2>6. Kept(q, Bwd) # <<>> /\ Kept(Tail(q), Bwd) = Tail(Kept(q, Bwd))
    BY <2>1, KeptTail
  <2> QED BY <1>2, <2>4, <2>5, <2>6
<1> QED BY <1>3, <1>4

\* The scavenger takes a prefix of a class, and all announced containers before
\* the first departed one.
LEMMA PruneExpires ==
  ASSUME NEW q \in Seq(Entries), InTurn(q), NEW c \in Nat
  PROVE  \E i \in 0 .. Len(Forward(q)), j \in 0 .. Len(Backward(q)) :
           /\ j > 0 => i = Len(Forward(q))
           /\ Forward(Fresh(q, c)) = SubSeq(Forward(q), i + 1, Len(Forward(q)))
           /\ Backward(Fresh(q, c)) = SubSeq(Backward(q), j + 1, Len(Backward(q)))
<1> DEFINE Y == Young(c)
           f == Kept(q, Fwd)
           b == Kept(q, Bwd)
<1>1. Fresh(q, c) = Kept(q, Y) /\ Kept(q, Y) \in Seq(Entries)
  BY OpsKeep, KeptType
<1>2. Forward(q) = f /\ Backward(q) = b
  BY OpsKeep
<1>3. Forward(Fresh(q, c)) = Kept(f, Y) /\ Backward(Fresh(q, c)) = Kept(b, Y)
  <2>1. Forward(Fresh(q, c)) = Kept(Kept(q, Y), Fwd)
        /\ Backward(Fresh(q, c)) = Kept(Kept(q, Y), Bwd)
    BY <1>1, OpsKeep
  <2> QED BY <2>1, KeptSwap
<1>4. /\ f \in Seq(Entries) /\ f \in Seq(Entries \cap Fwd) /\ Within(f, q)
      /\ b \in Seq(Entries) /\ b \in Seq(Entries \cap Bwd) /\ Within(b, q)
  BY KeptType, KeptWithin
<1>5. InTurn(f) /\ InTurn(b)
  BY <1>4, InTurnWithin
<1> HIDE DEF f, b
<1>6. ASSUME NEW s \in Seq(Entries), InTurn(s)
      PROVE  \E m \in 0 .. Len(s) : Kept(s, Y) = SubSeq(s, m + 1, Len(s))
  <2>1. ASSUME NEW i \in 1 .. Len(s), NEW j \in 1 .. Len(s), i < j, s[i] \in Y
        PROVE  s[j] \in Y
    <3>1. s[i] \in Entries /\ s[j] \in Entries
      OBVIOUS
    <3>2. s[i].createdAt <= s[j].createdAt
      BY <1>6, <2>1 DEF InTurn
    <3> QED BY <2>1, <3>1, <3>2 DEF Young, Entries
  <2> HIDE DEF Y
  <2> QED BY <2>1, KeptRest
<1>7. PICK i \in 0 .. Len(f) : Kept(f, Y) = SubSeq(f, i + 1, Len(f))
  BY <1>4, <1>5, <1>6
<1>8. PICK j \in 0 .. Len(b) : Kept(b, Y) = SubSeq(b, j + 1, Len(b))
  BY <1>4, <1>5, <1>6
<1>9. CASE \A x \in 1 .. Len(b) : b[x] \in Y
  <2>1. Kept(b, Y) = b
    <3> HIDE DEF Y
    <3> QED BY <1>4, <1>9, KeptAll
  <2>2. SubSeq(b, 1, Len(b)) = b /\ 0 \in 0 .. Len(b) /\ ~(0 > 0) /\ 0 + 1 = 1
    BY <1>4
  <2> QED BY <1>2, <1>3, <1>7, <2>1, <2>2
<1>10. CASE \E x \in 1 .. Len(b) : b[x] \notin Y
  <2>1. PICK x \in 1 .. Len(b) : b[x] \notin Y
    BY <1>10
  <2>2. PICK z \in 1 .. Len(q) : q[z] = b[x]
    BY <1>4 DEF Within
  <2>3. ~q[z].forward /\ q[z].createdAt < c
    <3>1. b[x] \in Bwd
      BY <1>4
    <3> QED BY <2>1, <2>2, <3>1 DEF Bwd, Young, Entries
  <2>4. ASSUME NEW y \in 1 .. Len(f) PROVE f[y] \notin Y
    <3>1. f[y] \in Fwd
      BY <1>4
    <3>2. PICK a \in 1 .. Len(q) : q[a] = f[y]
      BY <1>4 DEF Within
    <3>3. q[a].forward /\ q[a] \in Entries /\ q[z] \in Entries
      BY <3>1, <3>2 DEF Fwd
    <3>4. ~(z < a) /\ z # a
      BY <2>3, <3>3 DEF InTurn
    <3>5. a < z
      BY <3>4
    <3>6. q[a].createdAt <= q[z].createdAt
      BY <3>5 DEF InTurn
    <3> QED BY <2>3, <3>2, <3>3, <3>6 DEF Young, Entries
  <2>5. Kept(f, Y) = <<>>
    <3> HIDE DEF Y
    <3> QED BY <1>4, <2>4, KeptNone
  <2>6. Len(f) \in 0 .. Len(f) /\ SubSeq(f, Len(f) + 1, Len(f)) = <<>>
    BY <1>4
  <2> QED BY <1>2, <1>3, <1>8, <2>5, <2>6
<1> QED BY <1>9, <1>10

\* The two classes, as TwoClassQueue sees them.
Announced == NamesOf(Forward(pendingQueue))
Departed  == NamesOf(Backward(pendingQueue))

LEMMA TwoClassDrop ==
  ASSUME NEW s, NEW name PROVE TwoClass!Drop(s, name) = Kept(s, Name \ {name})
  BY DEF TwoClass!Drop, TwoClass!Kept, Kept

LEMMA TwoClassInit == Init => TwoClass!Init
<1> SUFFICES ASSUME Init PROVE TwoClass!Init
  OBVIOUS
<1>1. pendingQueue = <<>> /\ pendingQueue \in Seq(Entries)
  BY DEF Init
<1>2. Forward(pendingQueue) = <<>> /\ Backward(pendingQueue) = <<>>
  BY <1>1, OpsKeep, KeptEmpty
<1>3. NamesOf(<<>>) = <<>>
  BY DEF NamesOf
<1> QED BY <1>2, <1>3 DEF TwoClass!Init

LEMMA RegisterRefines ==
  ASSUME QueueInv, NEW r \in Registrar, NEW name \in Name, NEW forward \in BOOLEAN,
         Register(r, name, forward)
  PROVE  TwoClass!Announce(name) \/ TwoClass!Depart(name)
<1> DEFINE q  == pendingQueue
           pc == [name |-> name, createdAt |-> now, forward |-> forward]
<1>1. q \in Seq(Entries) /\ pc \in Entries /\ q' = Pushed(q, pc)
  <2>1. q \in Seq(Aged(now)) /\ now \in Nat
    BY DEF QueueInv, TypeOK, Aged, Time
  <2>2. q \in Seq(Entries)
    BY <2>1, AgedIsEntry
  <2>3. pc \in Entries
    BY <2>1 DEF Entries
  <2> QED BY <2>2, <2>3 DEF Register
<1>2. pc.name = name /\ pc.forward = forward
  OBVIOUS
<1> HIDE DEF pc
<1>3. Forward(q) \in Seq(Entries) /\ Backward(q) \in Seq(Entries)
  BY <1>1, OpsKeep, KeptType
<1>4. Without(Forward(q), name) \in Seq(Entries)
      /\ Without(Backward(q), name) \in Seq(Entries)
  <2>1. ASSUME NEW s \in Seq(Entries) PROVE Without(s, name) \in Seq(Entries)
    <3>1. Without(s, name) = Kept(s, Other(name))
      BY OpsKeep
    <3>2. Kept(s, Other(name)) \in Seq(Entries)
      BY KeptType
    <3> QED BY <3>1, <3>2
  <2> QED BY <1>3, <2>1
<1>5. NamesOf(Without(Forward(q), name)) = TwoClass!Drop(Announced, name)
      /\ NamesOf(Without(Backward(q), name)) = TwoClass!Drop(Departed, name)
  BY <1>3, NamesDrop, TwoClassDrop DEF Announced, Departed
<1>6. CASE forward
  <2>1. Forward(q') = Append(Without(Forward(q), name), pc) /\ Backward(q') = <<>>
    BY <1>1, <1>2, <1>6, PushForward
  <2>2. Announced' = Append(TwoClass!Drop(Announced, name), name)
    BY <1>1, <1>2, <1>4, <1>5, <2>1, NamesAppend DEF Announced
  <2>3. Departed' = <<>>
    BY <2>1 DEF Departed, NamesOf
  <2> QED BY <2>2, <2>3 DEF TwoClass!Announce, Announced, Departed
<1>7. CASE ~forward
  <2>1. Forward(q') = Without(Forward(q), name)
        /\ Backward(q') = Append(Without(Backward(q), name), pc)
    BY <1>1, <1>2, <1>7, PushBackward
  <2>2. Announced' = TwoClass!Drop(Announced, name)
    BY <1>5, <2>1 DEF Announced
  <2>3. Departed' = Append(TwoClass!Drop(Departed, name), name)
    BY <1>1, <1>2, <1>4, <1>5, <2>1, NamesAppend DEF Departed
  <2> QED BY <2>2, <2>3 DEF TwoClass!Depart, Announced, Departed
<1> QED BY <1>6, <1>7

\* Taking the names commutes with Tail and keeps a class empty or not.
LEMMA NamesTail ==
  ASSUME NEW s \in Seq(Entries)
  PROVE  /\ NamesOf(s) = <<>> <=> s = <<>>
         /\ s # <<>> => NamesOf(Tail(s)) = Tail(NamesOf(s))
<1>1. NamesOf(s) \in Seq(Name) /\ Len(NamesOf(s)) = Len(s)
  BY NamesMapped
<1>2. NamesOf(s) = <<>> <=> s = <<>>
  <2> HIDE DEF NamesOf
  <2> QED BY <1>1
<1>3. ASSUME s # <<>> PROVE NamesOf(Tail(s)) = Tail(NamesOf(s))
  <2>1. 1 \in 0 .. Len(s) /\ 1 + 1 = 2
    BY <1>3
  <2>2. NamesOf(SubSeq(s, 2, Len(s))) = SubSeq(NamesOf(s), 2, Len(NamesOf(s)))
    BY <2>1, NamesRest
  <2>3. Tail(s) = SubSeq(s, 2, Len(s))
    BY <1>3
  <2>4. Tail(NamesOf(s)) = SubSeq(NamesOf(s), 2, Len(NamesOf(s)))
    <3> HIDE DEF NamesOf
    <3> QED BY <1>1, <1>2, <1>3
  <2> QED BY <2>2, <2>3, <2>4
<1> QED BY <1>2, <1>3

LEMMA PopRefines == ASSUME QueueInv, Pop PROVE TwoClass!Serve
<1> DEFINE q == pendingQueue
<1>1. q \in Seq(Entries) /\ InTurn(q) /\ q # <<>> /\ q' = Tail(q)
  <2>1. q \in Seq(Aged(now)) /\ now \in Nat
    BY DEF QueueInv, TypeOK, Aged, Time
  <2> QED BY <2>1, AgedIsEntry DEF Pop, QueueInv
<1>2. Forward(q) \in Seq(Entries) /\ Backward(q) \in Seq(Entries)
  BY <1>1, OpsKeep, KeptType
<1>3. CASE Forward(q) # <<>> /\ Forward(q') = Tail(Forward(q))
           /\ Backward(q') = Backward(q)
  <2>1. Announced # <<>> /\ Announced' = Tail(Announced) /\ Departed' = Departed
    BY <1>2, <1>3, NamesTail DEF Announced, Departed
  <2> QED BY <2>1 DEF TwoClass!Serve, Announced, Departed
<1>4. CASE Forward(q) = <<>> /\ Forward(q') = <<>> /\ Backward(q) # <<>>
           /\ Backward(q') = Tail(Backward(q))
  <2>1. Announced = <<>> /\ Announced' = Announced /\ Departed # <<>>
        /\ Departed' = Tail(Departed)
    BY <1>2, <1>4, NamesTail DEF Announced, Departed
  <2> QED BY <2>1 DEF TwoClass!Serve, Announced, Departed
<1> QED BY <1>1, <1>3, <1>4, PopServes

LEMMA PruneRefines == ASSUME QueueInv, Prune PROVE TwoClass!Expire
<1> DEFINE q == pendingQueue
           f == Forward(q)
           b == Backward(q)
<1>1. q \in Seq(Entries) /\ InTurn(q) /\ Cutoff \in Nat /\ q' = Fresh(q, Cutoff)
  <2>1. q \in Seq(Aged(now)) /\ now \in Nat
    BY DEF QueueInv, TypeOK, Aged, Time
  <2>2. Cutoff \in Nat
    BY <2>1, ClockAssumption DEF Cutoff, Unset
  <2> QED BY <2>1, <2>2, AgedIsEntry DEF Prune, QueueInv
<1>2. f \in Seq(Entries) /\ b \in Seq(Entries)
  BY <1>1, OpsKeep, KeptType
<1>3. Len(Announced) = Len(f) /\ Len(Departed) = Len(b)
  BY <1>2, NamesMapped DEF Announced, Departed
<1>4. PICK i \in 0 .. Len(f), j \in 0 .. Len(b) :
        /\ j > 0 => i = Len(f)
        /\ Forward(q') = SubSeq(f, i + 1, Len(f))
        /\ Backward(q') = SubSeq(b, j + 1, Len(b))
  BY <1>1, PruneExpires
<1>5. Announced' = SubSeq(Announced, i + 1, Len(Announced))
      /\ Departed' = SubSeq(Departed, j + 1, Len(Departed))
  BY <1>2, <1>4, NamesRest DEF Announced, Departed
<1>6. i \in 0 .. Len(Announced) /\ j \in 0 .. Len(Departed)
      /\ (j > 0 => i = Len(Announced))
  BY <1>3, <1>4
<1> QED BY <1>5, <1>6 DEF TwoClass!Expire, TwoClass!From, Announced, Departed

LEMMA TwoClassStep ==
  QueueInv /\ [Next]_vars => [TwoClass!Next]_(<<Announced, Departed>>)
<1> SUFFICES ASSUME QueueInv, [Next]_vars
             PROVE  TwoClass!Next \/ UNCHANGED <<Announced, Departed>>
  OBVIOUS
<1>1. CASE Prune
  BY <1>1, PruneRefines DEF TwoClass!Next
<1>2. CASE Pop
  BY <1>2, PopRefines DEF TwoClass!Next
<1>3. ASSUME NEW r \in Registrar, NEW name \in Name, NEW forward \in BOOLEAN,
             Register(r, name, forward)
      PROVE  TwoClass!Next
  BY <1>3, RegisterRefines DEF TwoClass!Next
<1>4. ASSUME pendingQueue' = pendingQueue PROVE UNCHANGED <<Announced, Departed>>
  BY <1>4 DEF Announced, Departed
<1>5. CASE Tick \/ UNCHANGED vars
  BY <1>4, <1>5 DEF Tick, vars
<1>6. ASSUME NEW r \in Registrar, Upsert(r) PROVE UNCHANGED <<Announced, Departed>>
  BY <1>4, <1>6 DEF Upsert
<1>7. ASSUME NEW r \in Registrar, NEW name \in Name, UpsertOnly(r, name)
      PROVE  UNCHANGED <<Announced, Departed>>
  BY <1>4, <1>7 DEF UpsertOnly
<1> QED BY <1>1, <1>2, <1>3, <1>5, <1>6, <1>7 DEF Next

\* The flagged slice is the queue of two classes that CreateEndpoint counts on:
\* announced containers are served first, in the order of their last announcement,
\* departed ones only when none is announced, and age takes a prefix of that order.
\* Every push, pop and prune is a step of TwoClassQueue; the metadata's are none.
THEOREM QueueServesInOrder == Spec => ServesInOrder
<1>1. QueueInv /\ [Next]_vars => [TwoClass!Next]_(<<NamesOf(Forward(pendingQueue)),
                                                    NamesOf(Backward(pendingQueue))>>)
  BY TwoClassStep DEF Announced, Departed
<1> QED BY <1>1, TwoClassInit, QueueInit, QueueStep,
           PTL DEF Spec, ServesInOrder, TwoClass!Spec
=============================================================================
