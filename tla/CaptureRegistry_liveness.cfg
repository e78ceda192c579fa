SPECIFICATION FairSpec
CONSTANTS
  c1 = c1  c2 = c2  a1 = a1  a2 = a2  NoAuth = NoAuth
  Captures = {c1}
  Ingests = {}
  Auths = {a1}
  MaxSessions = 1
CHECK_DEADLOCK FALSE
PROPERTIES ImplementsCustody DisconnectEndsCapture PurgeReachesEveryCapture
