CONSTANTS
    BlockSize = 2
    LogFiles = {log}
    TableFiles = {table}
    LogBlocks = 2
    Bytes = {0, 1}
    MaxLength = 3
    CacheCapacity = 3
SPECIFICATION Spec
INVARIANTS
    BlocksCoherent
    FilesAsIntended
