SPECIFICATION Spec
CONSTANTS
    MacKinds = {"conv", "gemm"}
    Gap = 0
    MaxCmds = 3
    Cmd <- MCCmd
    ZeroCmd = "zero"
    Outs <- MCOuts
    Inner <- MCInner
    IsVec <- MCIsVec
    ZeroPad <- MCZeroPad
INVARIANTS
    DoneMeansWritten
