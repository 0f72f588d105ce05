\* No user, no failure of the process: the provider alone fails the name search once.
CONSTANTS
  k1 = k1
  rgr = rgr
  sgr = sgr
  rol = rol
  b1 = b1
  Keys = {k1}
  Bare = {b1}
  Routes = {rgr, sgr, rol}
  Guard <- MCGuard
  Legacy = {sgr}
  Provider <- MCProvider
  NoFingerprint = NoFingerprint
  MaxActs = 0
SPECIFICATION FairSpec
PROPERTY SearchAnswered
