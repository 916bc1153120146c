SPECIFICATION Spec
CONSTANTS
  alice = alice
  bob = bob
  a1 = a1
  a2 = a2
  m1 = m1
  m2 = m2
  Agents = {a1, a2}
  Messages = {m1, m2}
  Users = {alice, bob}
  Creator = alice
  Author <- TwoAuthors
  Route <- RelayMeetsQueue
  NoKey = NoKey
  NoTurn = NoTurn
  MaxSends = 1
  MaxFaults = 0
  MaxStops = 0
  MaxClears = 1
  Deletable = {}
  MayDelete = FALSE
CHECK_DEADLOCK FALSE
INVARIANT NoSignalLost
