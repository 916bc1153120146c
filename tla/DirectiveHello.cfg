SPECIFICATION Spec
CONSTANTS
  d1 = d1
  d2 = d2
  c1 = c1
  c2 = c2
  c3 = c3
  Directives = {d1}
  Conns = {c1, c2}
  NoConn = NoConn
  Nothing = Nothing
  MaxDirectives = 1
  MaxFaults = 0
  MaxCancels = 0
  MaxCrashes = 0
  MayRevoke = FALSE
CHECK_DEADLOCK FALSE
INVARIANT LostIsUnknown
