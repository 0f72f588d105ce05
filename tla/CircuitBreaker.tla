---------------------------- MODULE CircuitBreaker ----------------------------
(***************************************************************************)
(* The outbound circuit breaker of livrarr-http (breaker.rs) as operators  *)
(* on one breaker value.  Time is discrete: openLeft counts down what is   *)
(* left of the open window, and fails[a] is the number of recorded         *)
(* failures that are a ticks old.  A failure older than the evaluation     *)
(* window is forgotten by the tick instead of by the next record_failure,  *)
(* which prunes before it counts; a count above the threshold is the same  *)
(* to every comparison as the threshold, where it is capped.               *)
(***************************************************************************)
EXTENDS Naturals, FiniteSets

CONSTANTS
  FailureThreshold,  \* failure_threshold
  EvalWindow,        \* evaluation_window_secs, in ticks
  OpenDuration,      \* open_duration_secs, in ticks
  HalfOpenProbes,    \* half_open_probe_count
  OpenForSet         \* the open_for overrides reported by clients, in ticks

ASSUME BreakerAssumption ==
  /\ FailureThreshold \in Nat \ {0}
  /\ EvalWindow \in Nat
  /\ OpenDuration \in Nat
  /\ HalfOpenProbes \in Nat \ {0}
  /\ OpenForSet \subseteq Nat

CircuitState == {"Closed", "Open", "HalfOpen"}

Breaker ==
  [state : CircuitState,
   fails : [0..EvalWindow -> 0..FailureThreshold],
   openLeft : Nat,
   probes : Nat,     \* half_open_probes_taken
   wins : Nat]       \* half_open_probe_successes

NoFailures == [a \in 0..EvalWindow |-> 0]

NewBreaker ==
  [state |-> "Closed", fails |-> NoFailures, openLeft |-> 0, probes |-> 0, wins |-> 0]

\* current(): the Open -> HalfOpen transition is lazy, made by whoever looks.
Current(b) ==
  IF b.state = "Open" /\ b.openLeft = 0
  THEN [b EXCEPT !.state = "HalfOpen", !.probes = 0, !.wins = 0]
  ELSE b

IsOpen(b) == Current(b).state = "Open"

\* Mutant: the client's open_for override is ignored.
OpenedConfigured(b, for) ==
  [state |-> "Open", fails |-> NoFailures, openLeft |-> OpenDuration, probes |-> 0, wins |-> 0]

\* open(): the window starts now and every counter is cleared.
Opened(b, for) ==
  [state |-> "Open", fails |-> NoFailures, openLeft |-> for, probes |-> 0, wins |-> 0]

Close(b) == [b EXCEPT !.state = "Closed", !.openLeft = 0, !.fails = NoFailures]

\* Mutant: one good probe out of several closes the breaker.
RecordSuccessEager(b) == Close(b)

\* A success while Open is a late report and is taken for recovery.
RecordSuccess(b) ==
  CASE b.state = "Closed" -> [b EXCEPT !.fails = NoFailures]
    [] b.state = "Open" -> Close(b)
    [] b.state = "HalfOpen" ->
         LET p == b.probes + 1
             w == b.wins + 1
             probed == [b EXCEPT !.fails = NoFailures, !.probes = p, !.wins = w]
         IN  IF p >= HalfOpenProbes /\ w = p THEN Close(probed) ELSE probed

WithFailure(b) ==
  [b EXCEPT !.fails[0] = IF @ < FailureThreshold THEN @ + 1 ELSE @]

\* recent_failures.len(): the failures of every age in the window.
RecentFailures(b) ==
  Cardinality({p \in (0..EvalWindow) \X (1..FailureThreshold) : p[2] <= b.fails[p[1]]})

\* Mutant: the breaker trips one failure late.
RecordFailureLate(b) ==
  LET f == WithFailure(b) IN
  IF b.state = "HalfOpen" \/ (b.state = "Closed" /\ RecentFailures(f) > FailureThreshold)
  THEN Opened(f, OpenDuration)
  ELSE f

RecordFailure(b) ==
  LET f == WithFailure(b) IN
  IF b.state = "HalfOpen" \/ (b.state = "Closed" /\ RecentFailures(f) >= FailureThreshold)
  THEN Opened(f, OpenDuration)
  ELSE f

TripImmediately(b, for) == Opened(b, for)

\* One tick of the clock.
Aged(b) ==
  [b EXCEPT !.openLeft = IF @ > 0 THEN @ - 1 ELSE 0,
            !.fails = [a \in 0..EvalWindow |-> IF a = 0 THEN 0 ELSE b.fails[a - 1]]]
=============================================================================
