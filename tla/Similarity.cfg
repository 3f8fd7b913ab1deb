SPECIFICATION CompressorSpec
CONSTANTS
    N = 10
    Garbage = 0
    Fingerprint <- MCFingerprint
    Known <- MCKnown
    OldBeyond <- MCOldBeyond
    NewBeyond <- MCNewBeyond
    OldVersions <- MCOld
    NewVersions <- MCNew
    MinWin = 4
    MaxWin = 5
    F <- MCF
    S <- MCS
    Similar <- MCSimilar
    Earlier <- MCEarlier
INVARIANTS
    DectorTypeOK
    OpenRegionIsLast
    PairsInside
    NewChunksOnce
    GroupingComplete
PROPERTIES
    CompressionEnds
