SPECIFICATION BSpec
CONSTANTS
    c1 = c1
    c2 = c2
    c3 = c3
    Chunk <- TwoChunks
    Byte <- OwnByte
    NUL = NUL
    X80 = X80
    Junk = Junk
    Content <- OwnContent
    MaxContainerSize = 4
    MaxName = 2
    Wrap = 16
    NoName = NoName
    NoConfig = NoConfig
    NoLine = NoLine
    NoSave = NoSave
    Faults = {"crash", "torn"}
    MaxVersion = 1
    MaxChunks = 2
    MaxUncounted = 1
    MaxSessions = 3
    InOrder = FALSE
    NoJob = NoJob
    NoPath = NoPath
    NoResult = NoResult
SYMMETRY ChunkSymmetry
INVARIANTS
    CompleteRestores
    CountCoversReferences
    NoDanglingEntry
CHECK_DEADLOCK FALSE
