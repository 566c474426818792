SPECIFICATION FairSpec
CONSTANTS
    DEPTH = 2
    NUM_WORDS = 2
    STAGES = 2
    ExtSpace = 1
    LocSpace = 2
    LenSpace = 2
    WindowBase = 1
    Data = {0, 1}
    Threads = {"t1", "t2"}
    Uses <- MCUses
    FaultSets = {{"probe"}, {"reset"}, {"timeout", "reset"}, {"timeout", "signal", "spurious"}}
    MaxSubmits = 2
    MaxDmas = 1
    MaxResets = 1
    BadCmds = {2}
    DmaReq <- MCDmaReq
    Word <- MCWord
    ValidWord <- MCValidWord
    Cmd <- MCCmd
    ZeroCmd <- MCZeroCmd
    Backend <- MCBackend
    DefaultBe = "conv"
    Route <- MCRoute
INVARIANTS
    TypeOK
    SuccessMeansDoneUnlessGivenUp
    NoUnearnedSuccess
    UntornUnlessGivenUp
    LineOnlyInSubmission
    TransferMeansMoved
PROPERTIES
    EveryCallReturns
