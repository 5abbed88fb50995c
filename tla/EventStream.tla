---------------------------- MODULE EventStream ----------------------------
(***************************************************************************)
(* What udhcpc.DHCPClient promises the reader of its events, all the       *)
(* goroutines and buffers between them left out: the events come one by    *)
(* one, in the order udhcpc reported them, and none is skipped.  When the  *)
(* client is waited for the stream is cut: a tail of what is on its way,   *)
(* and all that would follow, never arrives.                               *)
(***************************************************************************)
EXTENDS Naturals, Sequences

CONSTANT Kind   \* the kinds of events, "bound" among them

VARIABLES
  stream,  \* the events on their way to the reader
  cut,     \* the client was waited for
  info     \* the reader has seen a lease

vars == <<stream, cut, info>>

Init == stream = <<>> /\ cut = FALSE /\ info = FALSE

Report == \E k \in Kind :
  /\ ~cut /\ stream' = Append(stream, k)
  /\ UNCHANGED <<cut, info>>

Receive ==
  /\ stream # <<>>
  /\ info' = (info \/ Head(stream) = "bound")
  /\ stream' = Tail(stream)
  /\ UNCHANGED cut

Cut ==
  /\ ~cut /\ cut' = TRUE
  /\ \E n \in 0 .. Len(stream) : stream' = SubSeq(stream, 1, n)
  /\ UNCHANGED info

Next == Report \/ Receive \/ Cut

Spec == Init /\ [][Next]_vars
=============================================================================
