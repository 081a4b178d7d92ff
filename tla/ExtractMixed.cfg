CONSTANTS
  p1 = p1
  p2 = p2
  p3 = p3
  r = r
  v1 = v1
  v2 = v2
  NoResource = NoResource
  Hole = Hole
  Processes = {p1, p2, r}
  Versions = {v1, v2}
  MaxLength = 3
  Length <- MCLength
  VersionOf <- Mixed
  Failures = TRUE
SPECIFICATION Spec
INVARIANTS
  TypeOK
  UndisturbedLoadIsOwn
