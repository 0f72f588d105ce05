----------------------------- MODULE BreakerTrace -----------------------------
(***************************************************************************)
(* One breaker driven by every bounded trace of reports and looks, next to *)
(* the trace itself, from which the promised behaviour is defined without  *)
(* the breaker's own counters.                                             *)
(***************************************************************************)
EXTENDS CircuitBreaker, Sequences

CONSTANTS MaxTime, MaxReports

VARIABLES
  b,        \* the breaker
  now,      \* the clock
  log,      \* the reports made so far, oldest first
  opening   \* the last opening: when, for how long, and after which report

vars == <<b, now, log, opening>>

Signal == {"success", "failure", "trip"}

Init ==
  /\ b = NewBreaker
  /\ now = 0
  /\ log = <<>>
  /\ opening = [at |-> 0, for |-> 0, after |-> 0]

Tick ==
  /\ now < MaxTime
  /\ now' = now + 1
  /\ b' = Aged(b)
  /\ UNCHANGED <<log, opening>>

\* The dispatcher or the quiescence check calls current().
Look ==
  /\ b' = Current(b)
  /\ UNCHANGED <<now, log, opening>>

\* The report is logged; a report that opens the breaker is remembered.
Logged(sig, new, for) ==
  /\ Len(log) < MaxReports
  /\ b' = new
  /\ log' = Append(log, [sig |-> sig, at |-> now])
  /\ opening' = IF new.state = "Open" /\ (b.state # "Open" \/ sig = "trip")
                THEN [at |-> now, for |-> for, after |-> Len(log')]
                ELSE opening
  /\ UNCHANGED now

ReportSuccess == Logged("success", RecordSuccess(b), 0)
ReportFailure == Logged("failure", RecordFailure(b), OpenDuration)
ReportTrip ==
  \E for \in OpenForSet \cup {OpenDuration} : Logged("trip", TripImmediately(b, for), for)

Next == Tick \/ Look \/ ReportSuccess \/ ReportFailure \/ ReportTrip

Spec == Init /\ [][Next]_vars

-----------------------------------------------------------------------------
(* Properties *)

\* The reports after the last opening.
Since == {i \in 1..Len(log) : i > opening.after}

\* The failures a closed breaker has to count: inside the window, since the
\* breaker last opened, with no success after them.
Streak == {i \in Since : /\ log[i].sig = "failure"
                         /\ now - log[i].at <= EvalWindow
                         /\ \A j \in i..Len(log) : log[j].sig # "success"}

\* breaker.rs record_failure: a closed breaker opens on a failure exactly when
\* the failures in the rolling window, unbroken by a success, reach the threshold.
TripsAtThreshold ==
  [][ (b.state = "Closed" /\ Len(log') > Len(log) /\ log'[Len(log')].sig = "failure")
      => (b'.state = "Open" <=> Cardinality(
            Streak \cup {Len(log')}) >= FailureThreshold) ]_vars

\* breaker.rs current(), open() and record_success: an open breaker goes half-open
\* only when the window of its last opening, overridden or configured, has run out;
\* nothing but a reported success, which the code takes for recovery however late it
\* lands, ends the cooldown before.
CooldownKept ==
  [][ b.state = "Open" /\ b'.state # "Open" =>
        \/ b'.state = "HalfOpen" /\ now >= opening.at + opening.for
        \/ b'.state = "Closed" /\ Len(log') > Len(log) /\ log'[Len(log')].sig = "success" ]_vars

\* breaker.rs record_success: a half-open breaker closes only after as many
\* successes in a row, and no failure, as it was configured to probe.
RecoveryProven ==
  [][ (b.state = "HalfOpen" /\ b'.state = "Closed")
      => /\ Len(log') >= HalfOpenProbes
         /\ \A i \in (Len(log') - HalfOpenProbes + 1)..Len(log') :
              i > opening.after /\ log'[i].sig = "success" ]_vars

=============================================================================
