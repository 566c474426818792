SPECIFICATION Spec
CONSTANTS
    DEPTH = 2
    NUM_WORDS = 2
    STAGES = 2
    ExtSpace = 1
    LocSpace = 2
    LenSpace = 1
    WindowBase = 1
    Data = {0}
    MaxCmds = 3
    MaxResets = 0
    RunClocks = 0
    PulseClocks = 0
    BadCmds = {}
    HostModes = {"poll"}
    Word <- MCWord
    ValidWord <- MCValidWord
    Cmd <- MCCmd
    ZeroCmd <- MCZeroCmd
    Backend <- MCBackend
    DefaultBe = "conv"
    Route <- MCRoute
INVARIANTS
    CompletionMeansDone
