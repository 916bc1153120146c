SPECIFICATION Spec
CONSTANTS
  d1 = d1
  d2 = d2
  c1 = c1
  c2 = c2
  c3 = c3
  Directives = {d1, d2}
  Conns = {c1, c2}
  NoConn = NoConn
  Nothing = Nothing
  MaxDirectives = 1
  MaxFaults = 1
  MaxCancels = 0
  MaxCrashes = 1
  MayRevoke = FALSE
CHECK_DEADLOCK FALSE
CONSTRAINT OneOrTwo
SYMMETRY Symmetry
INVARIANT AtMostOnce
INVARIANT CapHeld
INVARIANT KeptUntilTaken
INVARIANT EndsAgree
