SPECIFICATION Spec
CONSTANTS
  d1 = d1
  d2 = d2
  c1 = c1
  c2 = c2
  c3 = c3
  Directives = {d1}
  Conns = {c1, c2}
  NoConn = NoConn
  Nothing = Nothing
  MaxDirectives = 1
  MaxFaults = 1
  MaxCancels = 1
  MaxCrashes = 0
  MayRevoke = TRUE
CHECK_DEADLOCK FALSE
CONSTRAINT CancelOrRevoke
PROPERTY CancelEnds
PROPERTY EverySlotFreed
PROPERTY RevokedStops
