\* One download, which may fail, be removed and grabbed again.
CONSTANTS
  Downloads = {d1}
  Kinds = {"usenet", "torrent"}
  Tasks = {t1, t2}
  Permits = 1
  None = None
  MaxRetries = 1
  MaxGrabs = 2
  MaxTroubles = 1
SPECIFICATION FairSpec
INVARIANTS ImportingHasOwner OneImporterUndisturbed
PROPERTIES ImportingEnds PickedUp
CHECK_DEADLOCK FALSE
