SPECIFICATION FairSpec
CONSTANTS
    DEPTH = 2
    NUM_WORDS = 4
    STAGES = 2
    ExtSpace = 1
    LocSpace = 2
    LenSpace = 1
    WindowBase = 1
    Data = {0}
    MaxCmds = 4
    MaxResets = 2
    RunClocks = 16
    PulseClocks = 5
    BadCmds = {2}
    HostModes = {"irq", "poll", "bench"}
    Word <- MCWord
    ValidWord <- MCValidWord
    Cmd <- MCCmd
    ZeroCmd <- MCZeroCmd
    Backend <- MCBackend
    DefaultBe = "conv"
    Route <- MCRoute
INVARIANTS
    ReportedMeansDone
    QuietWhileWriting
PROPERTIES
    HostHalts
    EveryCommandRuns
