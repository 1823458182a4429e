CONSTANTS
  l1 = l1
  l2 = l2
  l3 = l3
  c1 = c1
  c2 = c2
  p1 = p1
  r1 = r1
  r2 = r2
  Logins <- MCLogins
  Callbacks <- MCCallbacks
  Publishes <- MCPublishes
  Accounts <- MCAccounts
  Issuers <- MCIssuers
  IssuerOf <- MCIssuerOf
  Rkeys <- MCRkeys
  Configs <- MCConfigs
  Requests <- MCOne
  Dids <- MCAccounts
  CurveOf <- MCCurveOf
  Horizon <- MCServiceOnly
  StateTTL = 0
  MaxStates = 2
  MaxUserSessions = 1
  TokenLives = {1}
  KeyTTL = 1
  MaxKeys = 1
  MaxServed = 3
  MaxNow = 2
SPECIFICATION Spec
CHECK_DEADLOCK FALSE
PROPERTY NextAttemptResolves
