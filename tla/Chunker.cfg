SPECIFICATION ChunkingSpec
CONSTANTS
    IndexFlag = 0
    ChunkSize = {1, 2, 3, 4, 5, 6}
    MinSegment = 3
    MaxSegment = 4
    MinContainer = 3
    MaxContainer <- NegativeMax
    MaxIndexed = 0
    Byte = {0, 3}
    Files <- SmallFiles
    FileSizes = {0, 6, 11}
    LongSize = 17
    MinSize = 4
    AvgSize = 5
    MaxSize = 6
    WinSize = 2
    ReadSize = 10
    FixedReadSize = 10
    FixedSizes = {4, 5}
    FixedLengths <- SmallLengths
    Base = 5
    PolyRange = 32
    FpRange = 8
INVARIANTS
    ChunkerTypeOK
    ChunksTileFile
    ChunkSizes
    CutsAtAnchors
    FixedCount
    FixedCopies
    RepeatsCutAlike
