\* A release grabbed twice, nothing failing.
CONSTANTS
  Downloads = {d1, d2}
  Kinds = {"usenet"}
  Tasks = {t1}
  Permits = 1
  None = None
  MaxRetries = 0
  MaxGrabs = 2
  MaxTroubles = 0
SPECIFICATION Spec
INVARIANT ImportsOwnDownload
CHECK_DEADLOCK FALSE
