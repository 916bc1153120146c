SPECIFICATION Spec
CONSTANTS
    m1 = m1
    m2 = m2
    Machines = {m1, m2}
    None = None
    MaxIterations = 2
    Attempts = 2
    MaxCalls = 2
    MaxFaults = 2
CHECK_DEADLOCK FALSE
CONSTRAINT OneTrouble
INVARIANT ReadsTurnOnce
INVARIANT StoredWhole
INVARIANT CallsWhereAllowed
PROPERTY WritesWholeSteps
PROPERTY TurnEnds
