---------------------------- MODULE MCDmaTransfer ----------------------------
\* Small instances of the DMA: four bytes of external memory, four of buffer.
EXTENDS DmaTransfer

CONSTANTS ReqExt, ReqLoc, ReqLen, ReqDir, CarelessDir

MCReqs == [ext : ReqExt, loc : ReqLoc, len : ReqLen, dir : ReqDir]
MCCarelessReqs == [ext : ReqExt, loc : {4}, len : {1, 2}, dir : CarelessDir]
MCLoads == {<<LocSpace - 1, 9>>}
MCData == 0 .. 9
MCBuf0 == [a \in BufAddr |-> 1 + (a - WindowBase)]
MCExt0 == [a \in ExtAddr |-> 5 + a]
=============================================================================
