CONSTANTS
    DIM_W = 4
    Garbage = 165
    ConvParams <- MCConvParams
    GemmParams <- MCGemmParams
    SoftmaxParams <- MCSoftmaxParams
    VecParams <- MCVecParams
    LnormParams <- MCLnormParams
    PoolParams <- MCPoolParams
    Tensors <- MCTensors
    BufSizes = {0, 4, 12, 272}
    BufMax = 272
    MaxCalls = 2
SPECIFICATION Spec
INVARIANTS
    DescriptorDecodes
    BuilderMatchesBench
    ConvertedIsNhwc
    FetchReadsTensor
PROPERTIES
    WritesOnlyTheTensor
CHECK_DEADLOCK FALSE
