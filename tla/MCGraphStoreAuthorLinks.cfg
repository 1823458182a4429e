SPECIFICATION Spec
CONSTANTS
  alice = alice
  bob = bob
  p1 = p1
  p2 = p2
  like = like
  User = {alice, bob}
  Post = {p1}
  Author <- MCAuthor
  Signal = {like}
  MaxTime = 2
  MaxCalls = 3
  MaxPasses = 2
PROPERTY
  AuthorLinksFollowMetadata
CHECK_DEADLOCK FALSE
