\* Two imports of two works, nothing fails.
CONSTANTS
  w1 = w1
  w2 = w2
  Imports = {t1, t2}
  Works = {w1, w2}
  Size <- MCSize
  Modes = {"Copy"}
  None = None
  MaxFaults = 0
  MaxCrashes = 0
SPECIFICATION Spec
INVARIANT RowKeepsItsFile
SYMMETRY Symmetry
CHECK_DEADLOCK FALSE
