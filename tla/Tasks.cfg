SPECIFICATION Spec
CONSTANTS
  t1 = t1
  t2 = t2
  a1 = a1
  Tasks = {t1, t2}
  Agents = {a1}
  OwnerOf <- SameOwner
  NoTask = NoTask
  MaxRunning = 1
  MaxFollowUps = 1
  MaxFaults = 2
  MaxStops = 2
  MayDelete = TRUE
CHECK_DEADLOCK FALSE
CONSTRAINT Within
INVARIANT CapHeld
INVARIANT WokenWasTold
INVARIANT FollowUpsKept
PROPERTY KeepsPromise
PROPERTY StopEnds
PROPERTY EveryTaskEnds
PROPERTY EveryEndWakes
