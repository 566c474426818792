----------------------------- MODULE DmaTransfer -----------------------------
(***************************************************************************)
(* A host that moves tensors with the DMA: lgnpu_dma_transfer of           *)
(* sw/driver/npu_dma.c, which the driver runs under its command lock and   *)
(* the runtime offers in two halves (npu_dma_start, npu_dma_poll), and     *)
(* writes of the buffer windows.  A host may give a transfer up and reset  *)
(* the device.  A careful host otherwise waits for each transfer; one that *)
(* is not goes on when its poll loop has run out, and writes buffers       *)
(* between npu_dma_start and npu_dma_poll.                                 *)
(*                                                                         *)
(* One step is one clock edge of the register file, the DMA engine, the    *)
(* interrupt flag and the reset; the command path is idle.                 *)
(***************************************************************************)
EXTENDS DmaFrontend, IrqCtrl, ResetCtrl

CONSTANTS
    Careful,        \* which hosts: a subset of BOOLEAN
    Reqs,           \* the transfers a careful host asks for
    CarelessReqs,   \* and the other
    Loads,          \* the buffer writes either makes, pairs of address and byte
    MaxOps,         \* bound: transfers and writes together (one more if careless)
    MaxResets,      \* bound: calls of lgnpu_hw_reset
    Buf0, Ext0      \* what the memories hold at first

\* The calls ask for what the registers can hold: addresses in their spaces and
\* at least one byte.  A length counts in fewer bits than either address, so no
\* call comes round to its first byte, and a call that reads the buffers stays
\* inside them.
ASSUME HostAssumption ==
    /\ Careful \subseteq BOOLEAN
    /\ \A r \in Reqs \cup CarelessReqs :
          /\ r \in [ext : ExtAddr, loc : 0 .. LocSpace - 1, len : 1 .. LenSpace - 1,
                    dir : BOOLEAN]
          /\ r.dir => r.loc >= WindowBase /\ r.loc + r.len <= LocSpace
    /\ LenSpace <= ExtSpace /\ LenSpace <= LocSpace
    /\ Loads \subseteq BufAddr \X Data
    /\ MaxOps \in Nat \ {0} /\ MaxResets \in Nat
    /\ Buf0 \in [BufAddr -> Data] /\ Ext0 \in [ExtAddr -> Data]

VARIABLES
    careful,        \* the kind of host; never changes
    host_pc,
    host_req,       \* the arguments of the call in progress
    host_load,      \* the buffer write in progress
    ops, resets,
    want_buf,       \* history: the memories as the completed calls and the
    want_ext        \* one in progress should leave them

hostVars == <<careful, host_pc, host_req, host_load, ops, resets>>
wantVars == <<want_buf, want_ext>>
vars == <<regVars, dmaVars, pending, resetVars, hostVars, wantVars>>

-----------------------------------------------------------------------------
(***************************************************************************)
(* The promise: LEN consecutive bytes from the source replace as many at   *)
(* the destination, and nothing else changes.  Behind is the distance of   *)
(* an address from the first in a space that wraps.                        *)
(***************************************************************************)
Behind(a, base, space) == IF a >= base THEN a - base ELSE a - base + space

Copied(src, dst, from, to, n, srcSpace, dstSpace) ==
    [a \in DOMAIN dst |->
        LET i == Behind(a, to, dstSpace)
        IN  IF i < n THEN src[(from + i) % srcSpace] ELSE dst[a]]

\* What run_dma_read_test and run_dma_write_test of the integration bench
\* compare after a transfer in each direction.
ReadPromise(r) ==
    /\ want_buf' = Copied(want_ext, want_buf, r.ext, r.loc, r.len, ExtSpace, LocSpace)
    /\ UNCHANGED want_ext

WritePromise(r) ==
    /\ want_ext' = Copied(want_buf, want_ext, r.loc, r.ext, r.len, LocSpace, ExtSpace)
    /\ UNCHANGED want_buf

Promise(r) == IF r.dir THEN WritePromise(r) ELSE ReadPromise(r)

-----------------------------------------------------------------------------
(***************************************************************************)
(* The host.  Each step makes at most one bus cycle.                       *)
(***************************************************************************)
HostReqs == IF careful THEN Reqs ELSE CarelessReqs

MoreOps == ops < IF careful THEN MaxOps ELSE MaxOps + 1

CallTransfer ==
    /\ host_pc = "idle" /\ MoreOps
    /\ \E r \in HostReqs : host_req' = r
    /\ host_pc' = "ext"
    /\ ops' = ops + 1
    /\ UNCHANGED <<careful, host_load, resets, wantVars>>

\* The three register writes before DMA_CTRL.
Program(bus) ==
    /\ \/ host_pc = "ext" /\ host_pc' = "loc"
          /\ bus = WriteDma("DMA_EXT_ADDR", host_req.ext)
       \/ host_pc = "loc" /\ host_pc' = "len"
          /\ bus = WriteDma("DMA_LOC_ADDR", host_req.loc)
       \/ host_pc = "len" /\ host_pc' = "ctrl"
          /\ bus = WriteDma("DMA_LEN", host_req.len)
    /\ UNCHANGED <<careful, host_req, host_load, ops, resets, wantVars>>

StartDma(bus) ==
    /\ host_pc = "ctrl" /\ host_pc' = "poll"
    /\ bus = WriteDmaCtrl(TRUE, host_req.dir)
    /\ Promise(host_req)
    /\ UNCHANGED <<careful, host_req, host_load, ops, resets>>

\* One iteration of the poll loop; the read sees the state after the edge.
PollDma(bus) ==
    /\ host_pc = "poll" /\ bus = NoWrite
    /\ host_pc' = IF dma_busy' THEN "poll" ELSE "clear"
    /\ UNCHANGED <<careful, host_req, host_load, ops, resets, wantVars>>

ClearIrq(bus) ==
    /\ host_pc = "clear" /\ host_pc' = "idle"
    /\ bus = WriteIrqClear
    /\ UNCHANGED <<careful, host_req, host_load, ops, resets, wantVars>>

\* The poll loop has run out: -ETIMEDOUT, and the engine is left as it is.
TimeOut ==
    /\ ~careful /\ host_pc = "poll" /\ dma_busy
    /\ host_pc' = "idle"
    /\ UNCHANGED <<careful, host_req, host_load, ops, resets, wantVars>>

\* A write of a buffer window, which the bus holds until it is accepted.
BeginLoad ==
    /\ \/ host_pc = "idle"
       \/ ~careful /\ host_pc = "poll"
    /\ MoreOps
    /\ \E l \in Loads : host_load' = [addr |-> l[1], byte |-> l[2], then |-> host_pc]
    /\ host_pc' = "load"
    /\ ops' = ops + 1
    /\ UNCHANGED <<careful, host_req, resets, wantVars>>

Load(bus, contended) ==
    /\ host_pc = "load"
    /\ bus = WriteBuf(host_load.addr, host_load.byte)
    /\ \/ /\ mmio_ready(bus, contended)
          /\ host_pc' = host_load.then
          /\ want_buf' = [want_buf EXCEPT ![host_load.addr] = host_load.byte]
       \/ /\ ~mmio_ready(bus, contended)
          /\ UNCHANGED <<host_pc, want_buf>>
    /\ UNCHANGED <<careful, host_req, host_load, ops, resets, want_ext>>

\* lgnpu_hw_reset, and its udelay, which outlasts the reset.  What a reset in
\* mid-transfer leaves in the memories is what the next call starts from.
CallReset(bus) ==
    /\ host_pc = "poll" /\ resets < MaxResets
    /\ host_pc' = "settle"
    /\ resets' = resets + 1
    /\ bus = WriteCtrl({"SOFT_RESET"})
    /\ UNCHANGED <<careful, host_req, host_load, ops, wantVars>>

Settle ==
    /\ host_pc = "settle" /\ ~soft_reset /\ ~soft_reset_sync1 /\ rst_n
    /\ host_pc' = "idle"
    /\ want_buf' = buf /\ want_ext' = ext_mem
    /\ UNCHANGED <<careful, host_req, host_load, ops, resets>>

HostPause == UNCHANGED <<hostVars, wantVars>>

HostActs(bus, contended) ==
    \/ Program(bus)
    \/ StartDma(bus)
    \/ PollDma(bus)
    \/ ClearIrq(bus)
    \/ Load(bus, contended)
    \/ bus = NoWrite /\ (CallTransfer \/ BeginLoad \/ Settle)

HostGoesOn(bus, contended) ==
    \/ HostActs(bus, contended)
    \/ bus = NoWrite /\ HostPause

HostStep(bus, contended) ==
    \/ HostGoesOn(bus, contended)
    \/ CallReset(bus)
    \/ bus = NoWrite /\ TimeOut

BusCycle ==
    {NoWrite, WriteIrqClear, WriteCtrl({"SOFT_RESET"})}
        \cup {WriteDma("DMA_EXT_ADDR", r.ext) : r \in HostReqs}
        \cup {WriteDma("DMA_LOC_ADDR", r.loc) : r \in HostReqs}
        \cup {WriteDma("DMA_LEN", r.len) : r \in HostReqs}
        \cup {WriteDmaCtrl(TRUE, dir) : dir \in BOOLEAN}
        \cup {WriteBuf(l[1], l[2]) : l \in Loads}

\* The edge, on the part of the shell this module has.
DeviceClk(bus, accept, answer, contended) ==
    /\ ResetClk(TRUE, soft_reset)
    /\ \/ /\ InReset
          /\ RegBlockReset(bus) /\ DmaReset(bus, accept, contended) /\ IrqReset
       \/ /\ ~InReset
          /\ RegBlockClk(bus, FALSE, 0)
          /\ DmaClk(bus, accept, answer, contended)
          /\ IrqClk(dma_done, FALSE, irq_clear_r)

Step(Host(_, _), accept, answer, contended) ==
    \E bus \in BusCycle :
        /\ DeviceClk(bus, accept, answer, contended)
        /\ Host(bus, contended)

\* The host starts once the power-on reset is over.
Init ==
    /\ RegBlockInit /\ DmaInit(Buf0, Ext0) /\ IrqInit
    /\ sync_chain = STAGES /\ soft_reset_sync1 = FALSE /\ soft_reset_sync2 = FALSE
    /\ careful \in Careful
    /\ host_pc = "idle" /\ host_req \in HostReqs /\ host_load = Nothing
    /\ ops = 0 /\ resets = 0
    /\ want_buf = Buf0 /\ want_ext = Ext0

Next == \E accept, answer, contended \in BOOLEAN :
            Step(HostStep, accept, answer, contended)

Spec == Init /\ [][Next]_vars

\* The external memory accepts and answers, backends do not write in every
\* cycle, and a host in the middle of a call goes on with it.  No host has to
\* give up or to reset the device.
FairSpec ==
    /\ Spec
    /\ WF_vars(Step(HostGoesOn, TRUE, TRUE, FALSE))
    /\ WF_vars(Step(HostActs, TRUE, TRUE, FALSE))

-----------------------------------------------------------------------------
\* Type invariant.
TypeOK ==
    /\ RegBlockTypeOK
    /\ DmaTypeOK
    /\ pending \in BOOLEAN
    /\ ResetTypeOK
    /\ host_pc \in {"idle", "ext", "loc", "len", "ctrl", "poll", "clear", "load", "settle"}
    /\ host_req \in HostReqs
    /\ host_load # Nothing => /\ <<host_load.addr, host_load.byte>> \in Loads
                              /\ host_load.then \in {"idle", "poll"}
    /\ ops \in 0 .. MaxOps + 1 /\ resets \in 0 .. MaxResets
    /\ want_buf \in [BufAddr -> Data] /\ want_ext \in [ExtAddr -> Data]

\* Once a careful host has seen DMA_STATUS.BUSY low, the transfer is over and
\* right: both memories are what the calls so far promised, for every length,
\* at the ends of both address spaces, whatever the memories' timing, and also
\* for the transfers after one that was given up with a reset.
TransferCorrect ==
    careful /\ host_pc \in {"clear", "idle", "ext", "loc", "len", "ctrl"} =>
        buf = want_buf /\ ext_mem = want_ext

\* The assertion of npu_dma_frontend.sv: the engines share their ports without
\* an arbiter, so never both at once.
SingleDirection == ~(rd_busy /\ wr_busy)

\* Between the calls of a careful host the interrupt flag is clear: the IRQ_CLEAR of
\* lgnpu_dma_transfer comes after the pulse it is meant for, so a later
\* lgnpu_cmd_submit does not see a stale interrupt.
NoStaleInterrupt ==
    careful /\ host_pc \in {"idle", "ext"} /\ pending => irq_clear_r

\* A granted buffer read or external read always finds its engine waiting, and
\* an engine never waits for an answer nobody will give.
AnswersMatchWaiters ==
    /\ (buf_rsp # Nothing) <=> (wr.state = "S_LOC_WAIT")
    /\ (ext_rsp # Nothing) <=> (rd.state = "S_EXT_WAIT")

\* Whatever a careless host that only loads does too early (a call after one
\* that timed out, new addresses in the registers under a running engine,
\* buffer writes between start and poll), a byte of a buffer is its first
\* value, a host's write, or the byte some call asked to be put there.  Both
\* engines latch their arguments when they start.
OnlyRequestedCopies ==
    ~careful =>
        /\ ext_mem = Ext0
        /\ \A a \in BufAddr :
            \/ buf[a] = Buf0[a]
            \/ <<a, buf[a]>> \in Loads
            \/ \E r \in CarelessReqs : \E i \in 0 .. r.len - 1 :
                    r.loc + i = a /\ buf[a] = Ext0[(r.ext + i) % ExtSpace]

\* Every call returns.
CallsReturn == <>[](host_pc = "idle" /\ ~dma_busy)
=============================================================================
