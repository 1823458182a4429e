SPECIFICATION Spec
CONSTANTS
  likes = likes
  posts = posts
  Slice = {likes, posts}
  MaxTime = 2
  EventsIn <- MCEventsIn
  ChannelCapacity = 2
  BatchMax = 2
  BackfillFloors = {1}
  LiveHeads = {1}
  SavedCursors = {0}
  MaxBoots = 2
INVARIANT SavedCursorIsProcessed
CHECK_DEADLOCK FALSE
