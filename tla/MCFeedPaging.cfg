CONSTANTS
  Posts <- MCPosts
  AuthorOf <- MCAuthorOf
  RootOf <- MCRootOf
  TopicOf <- MCTopicOf
  IsReply <- MCIsReply
  IsNsfw <- MCIsNsfw
  Endorsed <- MCEndorsed
  FollowsOf <- MCFollowsOf
  Recovered <- MCRecovered
  Dials <- MCDials
  DefaultDials <- MCDefault
  Viewers <- MCViewers
  Share = 12
  Tier1Likes = 1
  SharedOverlap = 1
  AuthorCap = 2
  MaxCount = 2
  d1 = d1
  d2 = d2
  Devices <- MCDevices
  Anonymous = "anonymous"
  Owners <- MCOwners
  PageSize = 1
  TTL = 1
  MaxSessions = 1
  MaxHistory = 2
  Newcomers = FALSE
  MaxNow = 2
  MaxRequests = 2
  MaxEvents = 1
SPECIFICATION Spec
CHECK_DEADLOCK FALSE
SYMMETRY Symmetry
INVARIANTS
  TypeOK
  RememberedIsQueued
  PagesContinue
  HiddenWithinTTL
PROPERTIES
  UnseenFirst
  PreviewAgrees
  MaintenanceKeepsFatigue
