SPECIFICATION Spec
CONSTANTS
    AllKeys = {k1, k2, bucket}
    BucketKey = bucket
    Values = {v1, v2}
    Absent = Absent
    Tombstone = Tombstone
    NoCall = NoCall
    MaxEntries = 2
    Instances = 2
    CacheCapacity = 1
    RecordsPerSegment = 100
    EarlyRotation = FALSE
    TokenCapacity = 2
    MaxCalls = 3
    MaxTables = 6
    MaxFaults = 2
    MaxOldRecords = 1
SYMMETRY Symmetry
INVARIANTS TypeOK CacheCoherent TokensKept
PROPERTIES KVStoreImplemented
