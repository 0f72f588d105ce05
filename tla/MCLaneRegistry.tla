--------------------------- MODULE MCLaneRegistry ---------------------------
(* TLC instance of LaneRegistry. *)
EXTENDS LaneRegistry, TLC

Symmetry == Permutations(Callers) \cup Permutations(Keys) \cup Permutations(Handles)
=============================================================================
