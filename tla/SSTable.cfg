\* A table that is complete is never written again, and the attempts are bounded
CHECK_DEADLOCK FALSE
CONSTANTS
    v = v
    Keys <- MCKeys
    Values = {v}
    Absent = Absent
    Tombstone = Tombstone
    Size <- MCSize
    FnvHash <- MCHash
    FilterSize = 3
    SummarySteps = {2, 3}
    MaxAttempts = 2
SPECIFICATION Spec
INVARIANTS
    LookupExact
    LookupOfSomeAttempt
