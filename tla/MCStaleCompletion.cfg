SPECIFICATION Spec
CONSTANTS
    DEPTH = 2
    NUM_WORDS = 2
    STAGES = 2
    ExtSpace = 1
    LocSpace = 2
    LenSpace = 2
    WindowBase = 1
    Data = {0, 1}
    Threads = {"t1", "t2"}
    Uses <- MCUses
    FaultSets = {{"timeout"}}
    MaxSubmits = 2
    MaxDmas = 0
    MaxResets = 0
    BadCmds = {}
    DmaReq <- MCDmaReq
    Word <- MCWord
    ValidWord <- MCValidWord
    Cmd <- MCCmd
    ZeroCmd <- MCZeroCmd
    Backend <- MCBackend
    DefaultBe = "conv"
    Route <- MCRoute
INVARIANTS
    SuccessMeansDone
