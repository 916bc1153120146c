SPECIFICATION Spec
CONSTANTS
    m1 = m1
    m2 = m2
    Machines = {m1, m2}
    None = None
    MaxIterations = 2
    Attempts = 2
    MaxCalls = 2
    MaxFaults = 1
INVARIANT StopIsSaid
CHECK_DEADLOCK FALSE
