\* Two keys and room for one: every lookup of a key that is not there sweeps.
CONSTANTS
  Callers = {c1, c2, c3}
  Keys = {k1, k2}
  Handles = {h1, h2, h3, h4}
  NoHandle = NoHandle
  RegCap = 1
  Cap = 1
  Interval = 1
  FailureThreshold = 1
  EvalWindow = 0
  OpenDuration = 2
  HalfOpenProbes = 1
  OpenForSet = {}
SPECIFICATION Spec
SYMMETRY Symmetry
INVARIANT OneLane
