CONSTANTS
  r1 = r1
  r2 = r2
  Requests <- MCOneRequest
  Consumer = consumer
  Maintenance = maintenance
  NoThread = NoThread
  NumShards = 2
  Sized = FALSE
SPECIFICATION Spec
INVARIANTS
  TypeOK
  NoCircularWait
