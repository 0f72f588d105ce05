\* No undo beside the task of the import; violated.
CONSTANTS
  Users = {u1, u2}
  Books = {b}
  Imports = {1, 2}
  Works = {1, 2}
  None = None
  MaxActs = 3
  MaxFaults = 1
SPECIFICATION Spec
INVARIANT NotUndoneAtWork
CHECK_DEADLOCK FALSE
