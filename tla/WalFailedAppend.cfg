CONSTANTS
    BlockSize = 12
    FrameHeaderSize = 5
    SegmentSizeBlocks = 3
    RecordsPerSegment = 4
    Sizes = {1, 2, 3, 5, 7, 9, 16, 22}
    MaxFaults = 1
SPECIFICATION Spec
INVARIANT ReadableAfterFailure
