------------------------------ MODULE KeyedLock ------------------------------
(***************************************************************************)
(* What KeyedMutex promises its callers: lock(key) is asked, then given up *)
(* or granted, and granted only while nobody holds the key.  There is no   *)
(* map, no mutex object, no permit and no sweep: that is how KeyedMutex    *)
(* keeps the promise.  ImportIntent's Begin and GrabLifecycle's Lock take  *)
(* the lock of a work by this promise.                                     *)
(***************************************************************************)
CONSTANTS Tasks, Keys

VARIABLES
  phase,  \* task -> "idle", "asking" or "holding"
  on      \* task -> the key of its current or last call

klvars == <<phase, on>>

KLInit ==
  /\ phase = [t \in Tasks |-> "idle"]
  /\ on \in [Tasks -> Keys]

\* The tasks that hold the key.
Holders(k) == {t \in Tasks : phase[t] = "holding" /\ on[t] = k}

Ask(t) ==
  /\ phase[t] = "idle"
  /\ phase' = [phase EXCEPT ![t] = "asking"]
  /\ \E k \in Keys : on' = [on EXCEPT ![t] = k]

Grant(t) ==
  /\ phase[t] = "asking" /\ Holders(on[t]) = {}
  /\ phase' = [phase EXCEPT ![t] = "holding"]
  /\ UNCHANGED on

\* The future is dropped, or the guard is.
Leave(t) ==
  /\ phase[t] \in {"asking", "holding"}
  /\ phase' = [phase EXCEPT ![t] = "idle"]
  /\ UNCHANGED on

KLNext == \E t \in Tasks : Ask(t) \/ Grant(t) \/ Leave(t)

KLSpec == KLInit /\ [][KLNext]_klvars
=============================================================================
