CONSTANTS
  d1 = d1
  d2 = d2
  d3 = d3
  t1 = t1
  t2 = t2
  Threads = {t1, t2}
  Listers <- MCListers
  Watched = {t1}
  Devices = {d1, d2, d3}
  Kinds <- MCKinds
  Slots = {0, 1, 2}
  Listings <- MCListings
  User = User
  Nobody = Nobody
  Nothing = Nothing
SPECIFICATION Spec
SYMMETRY Symmetry
INVARIANTS
  TypeOK
  ListedWasAvailable
  FreeIsListed
  ListedOnce
  ProbesLeaveNoTrace
