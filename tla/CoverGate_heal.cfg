\* Two offers, the startup passes, the add path and the deletion on one slot.
CONSTANTS
  Tasks = {t1, t2}
  Covers <- MCCovers
  HostSource <- MCHostSource
  Audio = FALSE
  Foreign = FALSE
  NoTask = NoTask
  Recovery = Recovery
  NoFile = NoFile
  Torn = Torn
  Gone = Gone
  Idle = Idle
  MaxCrashes = 2
  MaxFaults = 1
SPECIFICATION Spec
PROPERTIES HealedRowDescribesFile
CHECK_DEADLOCK FALSE
