SPECIFICATION Spec
CONSTANTS
  u1 = u1
  p1 = p1
  p2 = p2
  r1 = r1
  r2 = r2
  User = {u1}
  Post = {p1, p2}
  Reader = {r1, r2}
  Capacity = 2
  Window = 1
  TTL = 1
  Retention = 3
  Lags = {0}
  RequestLife = 1
  MaxClock = 5
  MaxCalls = 2
  MaxPasses = 1
INVARIANTS
  TypeOK
  ServedWithinWindow
  DeletedServedBriefly
  FreshWithinTTL
SYMMETRY Symmetry
CHECK_DEADLOCK FALSE
