SPECIFICATION Spec
CONSTANTS
  Tokens = {t1, t2}
  NoToken = NoToken
  Stale = 3
  Settle = 2
  Heartbeat = 1
  RouteAge = 1
  RouteSamples = 3
  RouteSpan = 2
  RouteKeep = 3
  Naps = {5}
  Horizon = 9
  Token = {t1, t2}
  Account = {a, b}
  Nobody = Nobody
  MaxPolls = 2
  Builds <- MCBuilds
  Failures <- MCFailures
INVARIANTS
  TypeOK
  NearbyTrusted
  RouteTrusted
  RouteUnbroken
  PatchedSafely
  CapturedIsLatest
PROPERTIES
  AccountMatches
  RevokedStays
CHECK_DEADLOCK FALSE
