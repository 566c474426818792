SPECIFICATION FairSpec
CONSTANTS
    NUM_WORDS = 1
    Word = {0}
    STAGES = 2
    ExtSpace = 4
    LocSpace = 8
    LenSpace = 4
    WindowBase = 4
    ReqExt = {0, 3}
    ReqLoc = {4, 5}
    ReqLen = {1, 3}
    ReqDir = {TRUE, FALSE}
    MaxOps = 2
    MaxResets = 1
    Careful = {TRUE, FALSE}
    CarelessDir = {FALSE}
    Reqs <- MCReqs
    CarelessReqs <- MCCarelessReqs
    Loads <- MCLoads
    Data <- MCData
    Buf0 <- MCBuf0
    Ext0 <- MCExt0
INVARIANTS
    TypeOK
    TransferCorrect
    NoStaleInterrupt
    AnswersMatchWaiters
    OnlyRequestedCopies
PROPERTIES
    CallsReturn
