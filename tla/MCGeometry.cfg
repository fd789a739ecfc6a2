SPECIFICATION GeoSpec
CONSTANTS
  Sides <- MCSides
  Colors <- MCColors
  Conns = {c1}
  Fallback <- MCFallback
  Ttl = 1
  Scenarios <- MCScenarios
CHECK_DEADLOCK FALSE
INVARIANTS
  GatewayFollowsConvex
  BytesShowLog
  RestoreShowsLive
CONSTRAINT UntilARace
