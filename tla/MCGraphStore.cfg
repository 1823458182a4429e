SPECIFICATION Spec
CONSTANTS
  alice = alice
  bob = bob
  p1 = p1
  p2 = p2
  like = like
  User = {alice}
  Post = {p1, p2}
  Author <- MCAuthor
  Signal = {like}
  MaxTime = 2
  MaxCalls = 3
  MaxPasses = 2
INVARIANTS
  TypeOK
  BitmapsMatchEdges
  DirectionsAgree
  IndexesFollowMetadata
  RecentCoversEdges
SYMMETRY Symmetry
CHECK_DEADLOCK FALSE
