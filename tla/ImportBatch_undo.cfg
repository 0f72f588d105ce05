\* What the undo dialog promises; violated.
CONSTANTS
  Users = {u1, u2}
  Books = {b}
  Imports = {1, 2}
  Works = {1, 2}
  None = None
  MaxActs = 3
  MaxFaults = 1
SPECIFICATION Spec
PROPERTIES UndoTakesWorks
CHECK_DEADLOCK FALSE
