SPECIFICATION FairSpec
CONSTANTS
    AllKeys = {k1, bucket}
    BucketKey = bucket
    Values = {v1}
    Absent = Absent
    Tombstone = Tombstone
    NoCall = NoCall
    MaxEntries = 2
    Instances = 1
    CacheCapacity = 1
    RecordsPerSegment = 2
    EarlyRotation = TRUE
    TokenCapacity = 1
    MaxCalls = 3
    MaxTables = 4
    MaxFaults = 2
    MaxOldRecords = 1
INVARIANTS PhaseOK LogPosition IDsFresh ReadsAgreeWithRecovery ResetCovered TornNeverServed
PROPERTIES OnlyAppendsChangeTheStore NoRecordOverwritten TablesImmutable WorkEnds
\* Calls, faults and the tables of failed starts are bounded: all three can be used up
CHECK_DEADLOCK FALSE
