\* Two imports; the process may die, and then the machine.
CONSTANTS
  w1 = w1
  w2 = w2
  Imports = {t1, t2}
  Works = {w1, w2}
  Size <- MCSize
  Modes = {"Copy"}
  None = None
  MaxFaults = 0
  MaxCrashes = 2
SPECIFICATION Spec
INVARIANT RowDurable
SYMMETRY Symmetry
CHECK_DEADLOCK FALSE
