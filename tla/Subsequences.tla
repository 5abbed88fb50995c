---------------------------- MODULE Subsequences ----------------------------
(***************************************************************************)
(* Filtering a slice in place, as pkg/plugin/plugin.go does it:            *)
(*   kept := queue[:0]; for _, pc := range queue { if ... append }.        *)
(***************************************************************************)
EXTENDS Naturals, Sequences

\* The elements of q that are in S, in their order; kept[i] is what the loop has
\* kept after i rounds.
Kept(q, S) ==
  LET kept[i \in 0 .. Len(q)] ==
        IF i = 0 THEN <<>>
        ELSE IF q[i] \in S THEN Append(kept[i - 1], q[i]) ELSE kept[i - 1]
  IN  kept[Len(q)]
=============================================================================
