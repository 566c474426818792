SPECIFICATION FairSpec
CONSTANTS
    DIM_W = 4
    ACC_W = 20
    MaxCommands = 2
    Memories <- MCMemories
    Cmd <- MCCmd
    ZeroCmd <- MCZeroCmd
INVARIANTS
    TypeOK
    MeanIsTruncated
    ResultsMatchReference
PROPERTIES
    RootIsFloor
    ImplementsSerialBackend
    EveryCommandFinishes
