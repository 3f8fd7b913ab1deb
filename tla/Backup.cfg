SPECIFICATION FairBSpec
CONSTANTS
    c1 = c1
    c2 = c2
    c3 = c3
    Chunk <- ThreeChunks
    Byte <- MCByte
    NUL = 0
    X80 = 128
    Junk = Junk
    Content <- MCContent3
    MaxContainerSize = 5
    MaxName = 2
    Wrap = 16
    NoName = NoName
    NoConfig = NoConfig
    NoLine = NoLine
    NoSave = NoSave
    Faults = {}
    MaxVersion = 1
    MaxChunks = 2
    MaxUncounted = 0
    MaxSessions = 4
    InOrder = TRUE
    NoJob = NoJob
    NoPath = NoPath
    NoResult = NoResult
INVARIANTS
    BTypeOK
    RestoreFaithful
    Restorable
PROPERTIES
    BackupRecorded
CHECK_DEADLOCK FALSE
