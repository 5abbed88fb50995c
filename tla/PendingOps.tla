----------------------------- MODULE PendingOps -----------------------------
(***************************************************************************)
(* The FIFO of recently active containers of one network, as operators on  *)
(* its value: what pushPendingContainer and pruneExpiredPending of         *)
(* pkg/plugin/plugin.go compute under the plugin's lock.  An entry is a    *)
(* record with (at least) a name and the forward flag.                     *)
(***************************************************************************)
EXTENDS Subsequences, Functions

Forward(q)  == Kept(q, {pc \in Range(q) : pc.forward})
Backward(q) == Kept(q, {pc \in Range(q) : ~pc.forward})
Without(q, name) == Kept(q, {pc \in Range(q) : pc.name # name})

\* Mutant: the dedup is skipped.
PushedTwice(q, pc) == Append(IF pc.forward THEN Forward(q) ELSE q, pc)

\* Mutant: a forward entry does not flush the backward ones.
PushedBehind(q, pc) == Append(Without(q, pc.name), pc)

\* A forward entry (create event) flushes the backward ones (die event, Leave);
\* an older entry of the same name goes; the new one is the last.
Pushed(q, pc) ==
  Append(Without(IF pc.forward THEN Forward(q) ELSE q, pc.name), pc)

\* Entries not created before the cutoff stay.
Fresh(q, cutoff) == Kept(q, {pc \in Range(q) : pc.createdAt >= cutoff})
=============================================================================
