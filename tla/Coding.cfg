SPECIFICATION Spec
CONSTANTS
    RunAs = TRUE
    MaxCommits = 2
    MaxFaults = 2
CHECK_DEADLOCK FALSE
INVARIANT PublishedIsInspected
 
INVARIANT PushesWithItsConfig
INVARIANT PaidOnce
PROPERTY CloneOutlivesCLI
PROPERTY CallEnds
