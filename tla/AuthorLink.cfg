\* One settled work, two Goodreads pages and one at OpenLibrary; any two events
\* of users, imports, merges and failures, anywhere in any number of passes.
CONSTANTS
  k1 = k1
  rgr = rgr
  sgr = sgr
  rol = rol
  b1 = b1
  Keys = {k1}
  Bare = {b1}
  Routes = {rgr, sgr, rol}
  Guard <- MCGuard
  Legacy = {sgr}
  Provider <- MCProvider
  NoFingerprint = NoFingerprint
  MaxActs = 2
SPECIFICATION FairSpec
INVARIANTS PendingIsCurrent DisplayCurrent
PROPERTIES TombstoneStands NeverReasked PassAnswers RetryRuns
