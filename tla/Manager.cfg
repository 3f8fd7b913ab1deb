SPECIFICATION MSpec
CONSTANTS
    c1 = c1
    c2 = c2
    c3 = c3
    Chunk <- MCChunk
    Byte <- MCByte
    NUL = NUL
    X80 = X80
    Junk = Junk
    Content <- MCContent
    MaxContainerSize = 7
    MaxName = 2
    Wrap = 2
    NoName = NoName
    NoConfig = NoConfig
    NoLine = NoLine
    NoSave = NoSave
    Faults = {"update", "list", "insert"}
    Base <- MCBase
    NoBase = NoBase
    Delta <- MCDelta
    MaxDeltaContainerSize = 5
    RewriteLimit = 5
    MaxDeltaCount = 1
    LastByte = {NUL, Junk}
    MaxProcesses = 4
    MaxAtRisk = 1
    NoChunk = NoChunk
INVARIANTS
    DeltaTypeOK
    
    NoDanglingDelta
SYMMETRY DeltaSymmetry
CHECK_DEADLOCK FALSE
