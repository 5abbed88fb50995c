---------------------------- MODULE TwoClassQueue ----------------------------
(***************************************************************************)
(* What the pending queue promises to CreateEndpoint: two FIFO classes.    *)
(* Containers announced by a create event are served first, in the order   *)
(* of their last announcement; containers that died or left are served     *)
(* only when none was announced, and are forgotten as soon as one is.      *)
(* A waiting container may be forgotten when it gets too old, but never    *)
(* one that those ahead of it outlive.                                     *)
(***************************************************************************)
EXTENDS Subsequences

CONSTANT Name

VARIABLES announced, departed   \* sequences of names

Drop(s, name) == Kept(s, Name \ {name})
From(s, i) == SubSeq(s, i, Len(s))

Init == announced = <<>> /\ departed = <<>>

Announce(name) ==
  /\ announced' = Append(Drop(announced, name), name)
  /\ departed' = <<>>

Depart(name) ==
  /\ announced' = Drop(announced, name)
  /\ departed' = Append(Drop(departed, name), name)

Serve ==
  IF announced # <<>>
    THEN announced' = Tail(announced) /\ UNCHANGED departed
    ELSE /\ departed # <<>>
         /\ departed' = Tail(departed) /\ UNCHANGED announced

\* The first i announced containers and, if that is all of them, the first j
\* departed ones.
Expire == \E i \in 0 .. Len(announced), j \in 0 .. Len(departed) :
  /\ j > 0 => i = Len(announced)
  /\ announced' = From(announced, i + 1)
  /\ departed' = From(departed, j + 1)

Next == Serve \/ Expire \/ \E name \in Name : Announce(name) \/ Depart(name)

Spec == Init /\ [][Next]_<<announced, departed>>
=============================================================================
