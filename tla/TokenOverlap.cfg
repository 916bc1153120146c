SPECIFICATION Spec
CONSTANTS
  c1 = c1
  c2 = c2
  c3 = c3
  home = home
  copy = copy
  Conns = {c1, c2}
  NoConn = NoConn
  Holders = {home}
  Home = home
  Overlap = TRUE
CHECK_DEADLOCK FALSE
INVARIANT NeverLockedOut
