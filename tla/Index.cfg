SPECIFICATION IndexSpec
CONSTANTS
    IndexFlag = 1
    ChunkSize = {1, 2}
    MinSegment = 2
    MaxSegment = 3
    MinContainer = 4
    MaxContainer <- NegativeMax
    MaxIndexed = 10
INVARIANTS
    IndexTypeOK
    SegmentsTile
    ContainersTile
    SegmentSizes
    ContainerSizes
    EveryChunkGrouped
