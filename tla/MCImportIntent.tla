---------------------------- MODULE MCImportIntent ----------------------------
(* TLC instances of ImportIntent: two works of different sizes.             *)
EXTENDS ImportIntent, TLC

CONSTANTS w1, w2
MCSize == (w1 :> 1) @@ (w2 :> 2)

Symmetry == Permutations(Imports)
=============================================================================
