CONSTANTS
  Posts <- MCPosts
  AuthorOf <- MCAuthorOf
  RootOf <- MCRootOf
  TopicOf <- MCMixedTopics
  IsReply <- MCIsReply
  IsNsfw <- MCIsNsfw
  Endorsed <- MCEndorsed
  FollowsOf <- MCFollowsOf
  Recovered <- MCRecovered
  Dials <- MCDials
  DefaultDials <- MCDefault
  Viewers <- MCViewers
  Share = 12
  Tier1Likes = 1
  SharedOverlap = 1
  AuthorCap = 2
  MaxCount = 2
  d1 = d1
  d2 = d2
  Devices <- MCDevices
  Anonymous = "anonymous"
  Owners <- MCOwners
  PageSize = 1
  TTL = 1
  MaxSessions = 1
  MaxHistory = 2
  Newcomers = TRUE
  MaxNow = 2
  MaxRequests = 2
  MaxEvents = 0
SPECIFICATION Spec
CHECK_DEADLOCK FALSE
INVARIANTS
  FirstVisitContinues
