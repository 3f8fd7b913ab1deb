SPECIFICATION BSpec
CONSTANTS
    c1 = c1
    c2 = c2
    c3 = c3
    Chunk <- ThreeChunks
    Byte <- MCByte
    NUL = 0
    X80 = 128
    Junk = Junk
    Content <- ShortContent3
    MaxContainerSize = 5
    MaxName = 3
    Wrap = 16
    NoName = NoName
    NoConfig = NoConfig
    NoLine = NoLine
    NoSave = NoSave
    Faults = {"crash", "interrupt", "noopen", "lost"}
    MaxVersion = 1
    MaxChunks = 2
    MaxUncounted = 0
    MaxSessions = 3
    InOrder = TRUE
    NoJob = NoJob
    NoPath = NoPath
    NoResult = NoResult

INVARIANTS
    CompleteRestores
PROPERTIES
    CompleteSurvives
CHECK_DEADLOCK FALSE
