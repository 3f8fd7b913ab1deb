SPECIFICATION BSpec
CONSTANTS
    c1 = c1
    c2 = c2
    c3 = c3
    Chunk <- TwoChunks
    Byte <- MCByte
    NUL = 0
    X80 = 128
    Junk = Junk
    Content <- MCContent2
    MaxContainerSize = 5
    MaxName = 2
    Wrap = 16
    NoName = NoName
    NoConfig = NoConfig
    NoLine = NoLine
    NoSave = NoSave
    Faults = {"crash"}
    MaxVersion = 1
    MaxChunks = 2
    MaxUncounted = 0
    MaxSessions = 3
    InOrder = TRUE
    NoJob = NoJob
    NoPath = NoPath
    NoResult = NoResult
INVARIANTS RestoreFaithful
CHECK_DEADLOCK FALSE
