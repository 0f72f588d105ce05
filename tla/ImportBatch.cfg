\* Two users, two imports, one book; three requests and one fault.
CONSTANTS
  Users = {u1, u2}
  Books = {b}
  Imports = {1, 2}
  Works = {1, 2}
  None = None
  MaxActs = 3
  MaxFaults = 1
SPECIFICATION Spec
INVARIANTS RunnerAlone RunningHasOwner
PROPERTIES UndoTakesOwn SlotFreed
CHECK_DEADLOCK FALSE
