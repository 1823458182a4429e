SPECIFICATION FairSpec
CONSTANTS
  likes = likes
  posts = posts
  Slice = {likes, posts}
  MaxTime = 2
  EventsIn <- MCEventsIn
  ChannelCapacity = 2
  BatchMax = 2
  BackfillFloors = {0, 2}
  LiveHeads = {1}
  SavedCursors = {0, 1}
  MaxBoots = 1
INVARIANTS
  TypeOK
  NothingSkipped
  GracefulDrainLosesNothing
PROPERTIES
  AppliesInStreamOrder
  DrainCompletes
CHECK_DEADLOCK FALSE
