SPECIFICATION Spec
CONSTANTS
    c1 = c1
    c2 = c2
    c3 = c3
    c4 = c4
    Chunk <- MCChunk
    Byte <- MCByte
    NUL = NUL
    X80 = X80
    Junk = Junk
    Content <- MCContent
    MaxContainerSize = 5
    MaxName = 1
    Wrap = 1
    NoName = NoName
    NoConfig = NoConfig
    NoLine = NoLine
    NoSave = NoSave
    Faults = {"crash", "torn", "interrupt", "noopen"}
INVARIANTS
    TypeOK
    InBounds
    CommittedIntact
PROPERTIES
    ConfigAdvances
    ImplementsChunkStore
SYMMETRY PairSymmetry
CHECK_DEADLOCK TRUE
