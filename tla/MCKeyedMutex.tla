---------------------------- MODULE MCKeyedMutex ----------------------------
(* TLC instance of KeyedMutex: symmetric tasks, keys and mutex identities. *)
EXTENDS KeyedMutex, TLC

Symmetry == Permutations(Tasks) \cup Permutations(Keys) \cup Permutations(LockIds)
=============================================================================
