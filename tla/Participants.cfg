SPECIFICATION Spec
CONSTANTS
  alice = alice
  bob = bob
  a1 = a1
  a2 = a2
  m1 = m1
  m2 = m2
  Agents = {a1, a2}
  Messages = {m1, m2}
  Users = {alice, bob}
  Creator = alice
  Author <- TwoAuthors
  Route <- RelayMeetsQueue
  NoKey = NoKey
  NoTurn = NoTurn
  MaxSends = 2
  MaxFaults = 1
  MaxStops = 1
  MaxClears = 1
  Deletable = {a2}
  MayDelete = TRUE
CONSTRAINT TwoOfThem
CHECK_DEADLOCK FALSE
INVARIANT AnsweredOnce
INVARIANT RelayedInOrder
INVARIANT EndTellsTheTruth
INVARIANT StoppedRightly
PROPERTY EveryMessageEnds
