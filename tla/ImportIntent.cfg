\* Two imports, of one work or of two, race for one path, with two failed calls
\* and two process deaths or power losses.
CONSTANTS
  w1 = w1
  w2 = w2
  Imports = {t1, t2}
  Works = {w1, w2}
  Size <- MCSize
  Modes = {"Copy", "AdoptInPlace"}
  None = None
  MaxFaults = 2
  MaxCrashes = 2
SPECIFICATION Spec
INVARIANTS NeverTorn Accounted CopyRowDurable
PROPERTIES SuccessIsOwned RecoverySettles
SYMMETRY Symmetry
CHECK_DEADLOCK FALSE
