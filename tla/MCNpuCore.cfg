SPECIFICATION FairSpec
CONSTANTS
    MacKinds = {"conv", "gemm"}
    Gap = 7
    MaxCmds = 4
    Cmd <- MCCmd
    ZeroCmd = "zero"
    Outs <- MCOuts
    Inner <- MCInner
    IsVec <- MCIsVec
    ZeroPad <- MCZeroPad
INVARIANTS
    ResultsCorrect
    DrainedByNextCommand
    PortNeverContended
PROPERTIES
    AllGetWritten
