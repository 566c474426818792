------------------------------ MODULE MCDriver ------------------------------
\* Small instances of the driver: two threads, descriptors of two words.
EXTENDS Driver

CONSTANTS BadCmds

MCWord == 0 .. MaxSubmits
MCValidWord == (1 .. MaxSubmits) \ BadCmds
MCCmd == [0 .. NUM_WORDS - 1 -> MCWord]
MCZeroCmd == [i \in 0 .. NUM_WORDS - 1 |-> 0]
MCBackend == {"vec"}
MCRoute(c) == "vec"
MCDmaReq == [ext |-> 0, loc |-> WindowBase, len |-> 1, dir |-> FALSE]

\* Each thread submits; one also moves data, the other resets.
MCUses(t) == {"submit"} \cup (IF t = "t1" THEN {"dma"} ELSE {"reset"})
=============================================================================
