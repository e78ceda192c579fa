SPECIFICATION LoginSpec
CONSTANTS
  s1 = s1  s2 = s2  cb1 = cb1  cb2 = cb2  l1 = l1  r1 = r1
  None = None  Ended = Ended
  States = {s1, s2}
  Callbacks = {cb1, cb2}
  Logins = {l1}
  Requests = {r1}
  Hosts = {"ui"}
  EnvUri = "env"
  RouteUri = "route"
  NoUri = "no uri"
  StateTTL = 1
  SessionTTL = 2
  MaxTime = 3
CHECK_DEADLOCK FALSE
CONSTRAINT SomeEnvironments
SYMMETRY Symmetry
INVARIANTS ExchangeMatchesAuthorize StateInv KubeconfigLivesWithSession RefusedMeansEnded
