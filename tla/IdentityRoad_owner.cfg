\* The instance of IdentityRoad.cfg: any two acts of users and doors, around any number of
\* passes (up to MaxPasses).
CONSTANTS
  ra = ra
  rb = rb
  isbn = isbn
  ol = ol
  t1 = t1
  t2 = t2
  t3 = t3
  Works = {1, 2}
  Routes = {ra, rb, isbn}
  Isbns = {isbn}
  Providers = {ol}
  ProviderOf <- MCProviderOf
  Titles = {t1, t2, t3}
  Main <- MCMain
  Alike <- MCAlike
  Machines = {m}
  Doors = {d}
  Offers <- MCOffers
  Libraries <- MCLibraries
  None = None
  Threshold = 1
  MaxActs = 2
  MaxPasses = 2
SPECIFICATION Spec
INVARIANT OneActiveOwner
SYMMETRY Symmetry
CHECK_DEADLOCK FALSE
