CONSTANTS
  r1 = r1
  r2 = r2
  Requests <- MCRequests
  Consumer = consumer
  Maintenance = maintenance
  NoThread = NoThread
  NumShards = 1
  Sized = TRUE
SPECIFICATION Spec
SYMMETRY MCSymmetry
INVARIANTS
  NoCircularWait
