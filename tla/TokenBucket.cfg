\* Time is bounded
CHECK_DEADLOCK FALSE
CONSTANTS
    Capacities = {1, 2}
    RefillInterval = 3
    MaxTime = 6
    MaxJumps = 2
    MaxFaults = 1
SPECIFICATION Spec
INVARIANTS RateBounded DenialsJustified
