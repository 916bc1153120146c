SPECIFICATION Spec
CONSTANTS
    RunAs = TRUE
    MaxCommits = 0
    MaxFaults = 0
INVARIANT RenewalKept
CHECK_DEADLOCK FALSE
