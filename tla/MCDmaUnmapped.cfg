SPECIFICATION FairSpec
CONSTANTS
    NUM_WORDS = 1
    Word = {0}
    STAGES = 2
    ExtSpace = 4
    LocSpace = 8
    LenSpace = 4
    WindowBase = 4
    ReqExt = {0}
    ReqLoc = {0}
    ReqLen = {2}
    ReqDir = {FALSE}
    MaxOps = 1
    MaxResets = 0
    Careful = {TRUE}
    CarelessDir = {FALSE}
    Reqs <- MCReqs
    CarelessReqs <- MCCarelessReqs
    Loads <- MCLoads
    Data <- MCData
    Buf0 <- MCBuf0
    Ext0 <- MCExt0
PROPERTIES
    CallsReturn
