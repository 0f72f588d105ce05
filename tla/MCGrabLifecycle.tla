---------------------------- MODULE MCGrabLifecycle ----------------------------
(* TLC instances of GrabLifecycle.                                           *)
EXTENDS GrabLifecycle, TLC

Symmetry == Permutations(Downloads) \cup Permutations(Tasks)
=============================================================================
