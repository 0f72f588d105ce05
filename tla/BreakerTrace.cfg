\* Threshold 2 in a window of 2 ticks, open for 2 ticks unless overridden, two
\* probes: every trace of up to 5 reports in 6 ticks.
CONSTANTS
  FailureThreshold = 2
  EvalWindow = 2
  OpenDuration = 2
  HalfOpenProbes = 2
  OpenForSet = {1, 3}
  MaxTime = 6
  MaxReports = 5
SPECIFICATION Spec
PROPERTIES TripsAtThreshold CooldownKept RecoveryProven
