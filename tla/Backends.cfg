CONSTANTS
    Absent = Absent
    Tombstone = Tombstone
    HashKeys = {1, 2, 3, 4, 5}
    HashValues = {v1, v2}
    Hash <- MCHash
    DefaultBucketCount = 2
    ListKeys = {1, 2, 3, 4}
    ListValues = {v1}
    MaxLevel = 3
    TreeKeys = {1, 2, 3, 4, 5, 6, 7, 8, 9}
    TreeValues = {v1}
    Order = 4
    MaxTombstones = 1
SPECIFICATION Spec
VIEW MCView
INVARIANTS EveryKeyOnce LoadBounded LevelsNested Balanced EntriesInOrder
PROPERTIES BackendImplemented
