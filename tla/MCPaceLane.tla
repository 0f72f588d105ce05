----------------------------- MODULE MCPaceLane -----------------------------
(* TLC instances of PaceLane: the admission ladder and the symmetry sets.   *)
EXTENDS PaceLane, TLC

\* Two priorities; the top of the queue is reserved for the higher one.
MCThreshold == (1 :> 2) @@ (2 :> 3)
MCThresholdOne == (1 :> 3)

Symmetry == Permutations(Requests) \cup Permutations(Indexers) \cup Permutations(Dispatchers)
=============================================================================
