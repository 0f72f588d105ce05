----------------------------- MODULE RateLimiter -----------------------------
(***************************************************************************)
(* What an outbound lane promises the remote host: at most Cap requests    *)
(* are in flight, and a request starts no sooner than Interval ticks after *)
(* the one before it.  Nothing is said about queues, dispatchers, permits  *)
(* or breakers: that is how PaceLane keeps the promise.                    *)
(***************************************************************************)
EXTENDS Naturals, FiniteSets

CONSTANTS Requests, Cap, Interval

VARIABLES
  inFlight,  \* the requests being sent or whose body is being read
  idle       \* ticks since the last start, counted up to Interval

rlvars == <<inFlight, idle>>

RLInit == inFlight = {} /\ idle = Interval

Start(r) ==
  /\ r \notin inFlight
  /\ Cardinality(inFlight) < Cap
  /\ idle = Interval
  /\ inFlight' = inFlight \cup {r}
  /\ idle' = 0

Finish(r) ==
  /\ r \in inFlight
  /\ inFlight' = inFlight \ {r}
  /\ UNCHANGED idle

Pass ==
  /\ idle < Interval
  /\ idle' = idle + 1
  /\ UNCHANGED inFlight

RLNext == (\E r \in Requests : Start(r) \/ Finish(r)) \/ Pass

RLSpec == RLInit /\ [][RLNext]_rlvars
=============================================================================
