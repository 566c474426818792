----------------------------- MODULE DmaFrontend -----------------------------
(***************************************************************************)
(* The DMA engine: rtl/memory/npu_dma_frontend.sv with npu_dma_reader.sv   *)
(* (external memory to local buffer) and npu_dma_writer.sv (the other      *)
(* way), the multiplexer of npu_shell.sv that gives the buffer port to the *)
(* DMA while it is busy, the window decode and the grant of                *)
(* npu_buffer_router.sv, and the buffers and the external memory behind    *)
(* the ports.                                                              *)
(*                                                                         *)
(* The buffers keep the low byte of a word; a datum is that byte.          *)
(***************************************************************************)
EXTENDS RegBlock, Sequences

CONSTANTS
    WindowBase,     \* WEIGHT_BUF_BASE: addresses below it select no buffer
    Data            \* bytes, with 0 for reset

ASSUME WindowAssumption == WindowBase \in 1 .. LocSpace - 1 /\ 0 \in Data

VARIABLES
    rd,             \* npu_dma_reader: state, ext, loc, len, cnt, data
    wr,             \* npu_dma_writer, likewise
    buf,            \* the local buffers; not reset
    buf_rsp,        \* the datum a buffer read returns in this cycle, if any
    ext_mem,        \* external memory
    ext_rsp         \* the datum an external read is going to return, if any

dmaVars == <<rd, wr, buf, buf_rsp, ext_mem, ext_rsp>>

ExtAddr == 0 .. ExtSpace - 1
BufAddr == WindowBase .. LocSpace - 1
Nothing == <<>>

\* Mutant: the last state of the writer does not count as busy.
wr_busyShort == wr.state \in {"S_LOC_RD", "S_LOC_WAIT"}

\* Mutant: nor does the last state of the reader.
rd_busyShort == rd.state \in {"S_EXT_RD", "S_EXT_WAIT"}

rd_busy == rd.state \in {"S_EXT_RD", "S_EXT_WAIT", "S_LOC_WR"}
wr_busy == wr.state \in {"S_LOC_RD", "S_LOC_WAIT", "S_EXT_WR"}
dma_busy == rd_busy \/ wr_busy
dma_done == rd.state = "S_DONE" \/ wr.state = "S_DONE"

-----------------------------------------------------------------------------
(***************************************************************************)
(* The ports.  An engine drives an address only in the state that makes    *)
(* the request; the frontend takes the address from the reader while the   *)
(* reader is busy, and everything else from whoever drives it.             *)
(***************************************************************************)
Drive(on, value) == IF on THEN value ELSE 0

ExtPort ==
    [req  |-> IF rd_busy THEN rd.state = "S_EXT_RD" ELSE wr.state = "S_EXT_WR",
     wr   |-> wr.state = "S_EXT_WR",
     addr |-> IF rd_busy THEN Drive(rd.state = "S_EXT_RD", rd.ext)
                         ELSE Drive(wr.state = "S_EXT_WR", wr.ext),
     data |-> Drive(wr.state = "S_EXT_WR", wr.data)]

DmaBufPort ==
    [req  |-> rd.state = "S_LOC_WR" \/ wr.state = "S_LOC_RD",
     wr   |-> rd.state = "S_LOC_WR",
     addr |-> IF rd_busy THEN Drive(rd.state = "S_LOC_WR", rd.loc)
                         ELSE Drive(wr.state = "S_LOC_RD", wr.loc),
     data |-> Drive(rd.state = "S_LOC_WR", rd.data)]

HostBufPort(bus) ==
    [req  |-> bus.reg = "BUF",
     wr   |-> bus.reg = "BUF",
     addr |-> IF bus.reg = "BUF" THEN bus.addr ELSE 0,
     data |-> IF bus.reg = "BUF" THEN bus.data ELSE 0]

BufPort(bus) == IF dma_busy THEN DmaBufPort ELSE HostBufPort(bus)

\* contended: a backend writes the same buffer in this cycle and goes first.
buf_gnt(bus, contended) ==
    BufPort(bus).req /\ BufPort(bus).addr \in BufAddr /\ ~contended

\* The bus handshake: a buffer write waits for the grant of the buffer port,
\* whoever's grant it is; everything else is accepted at once.
mmio_ready(bus, contended) == bus.reg = "BUF" => buf_gnt(bus, contended)

\* The external memory accepts a request (accept) and returns a datum in some
\* later cycle (answer).
ext_mem_gnt(accept) == ExtPort.req /\ accept
ext_mem_rvalid(answer) == ext_rsp # Nothing /\ answer

-----------------------------------------------------------------------------
(***************************************************************************)
(* The engines.                                                            *)
(***************************************************************************)
Started(e, first) ==
    [state |-> first, ext |-> dma_ext_addr_r, loc |-> dma_loc_addr_r,
     len |-> dma_len_r, cnt |-> 0, data |-> e.data]

\* Mutants: one byte too many; the count has to pass the length.
LastByteOffByOne(e) == e.cnt >= e.len
LastByteStrict(e) == (e.cnt + 1) % LenSpace > e.len

LastByte(e) == (e.cnt + 1) % LenSpace >= e.len

\* Mutant: the addresses are wider than the space they count in.
ByteDoneNoWrap(e, again) ==
    [e EXCEPT !.state = IF LastByte(e) THEN "S_DONE" ELSE again,
              !.cnt = (@ + 1) % LenSpace,
              !.ext = @ + 1,
              !.loc = @ + 1]

ByteDone(e, again) ==
    [e EXCEPT !.state = IF LastByte(e) THEN "S_DONE" ELSE again,
              !.cnt = (@ + 1) % LenSpace,
              !.ext = (@ + 1) % ExtSpace,
              !.loc = (@ + 1) % LocSpace]

rd_start == dma_start_r /\ ~dma_dir_r
wr_start == dma_start_r /\ dma_dir_r

ReaderStart ==
    /\ rd.state = "S_IDLE" /\ rd_start
    /\ rd' = Started(rd, "S_EXT_RD")

ReaderRequest(ext_gnt) ==
    /\ rd.state = "S_EXT_RD" /\ ext_gnt
    /\ rd' = [rd EXCEPT !.state = "S_EXT_WAIT"]

ReaderData(rvalid) ==
    /\ rd.state = "S_EXT_WAIT" /\ rvalid
    /\ rd' = [rd EXCEPT !.state = "S_LOC_WR", !.data = ext_rsp[1]]

ReaderStore(loc_gnt) ==
    /\ rd.state = "S_LOC_WR" /\ loc_gnt
    /\ rd' = ByteDone(rd, "S_EXT_RD")

ReaderDone ==
    /\ rd.state = "S_DONE"
    /\ rd' = [rd EXCEPT !.state = "S_IDLE"]

ReaderHold(ext_gnt, rvalid, loc_gnt) ==
    /\ \/ rd.state = "S_IDLE" /\ ~rd_start
       \/ rd.state = "S_EXT_RD" /\ ~ext_gnt
       \/ rd.state = "S_EXT_WAIT" /\ ~rvalid
       \/ rd.state = "S_LOC_WR" /\ ~loc_gnt
    /\ UNCHANGED rd

ReaderClk(ext_gnt, rvalid, loc_gnt) ==
    \/ ReaderStart
    \/ ReaderRequest(ext_gnt)
    \/ ReaderData(rvalid)
    \/ ReaderStore(loc_gnt)
    \/ ReaderDone
    \/ ReaderHold(ext_gnt, rvalid, loc_gnt)

WriterStart ==
    /\ wr.state = "S_IDLE" /\ wr_start
    /\ wr' = Started(wr, "S_LOC_RD")

WriterRequest(loc_gnt) ==
    /\ wr.state = "S_LOC_RD" /\ loc_gnt
    /\ wr' = [wr EXCEPT !.state = "S_LOC_WAIT"]

WriterData ==
    /\ wr.state = "S_LOC_WAIT" /\ buf_rsp # Nothing
    /\ wr' = [wr EXCEPT !.state = "S_EXT_WR", !.data = buf_rsp[1]]

WriterStore(ext_gnt) ==
    /\ wr.state = "S_EXT_WR" /\ ext_gnt
    /\ wr' = ByteDone(wr, "S_LOC_RD")

WriterDone ==
    /\ wr.state = "S_DONE"
    /\ wr' = [wr EXCEPT !.state = "S_IDLE"]

WriterHold(ext_gnt, loc_gnt) ==
    /\ \/ wr.state = "S_IDLE" /\ ~wr_start
       \/ wr.state = "S_LOC_RD" /\ ~loc_gnt
       \/ wr.state = "S_LOC_WAIT" /\ buf_rsp = Nothing
       \/ wr.state = "S_EXT_WR" /\ ~ext_gnt
    /\ UNCHANGED wr

WriterClk(ext_gnt, loc_gnt) ==
    \/ WriterStart
    \/ WriterRequest(loc_gnt)
    \/ WriterData
    \/ WriterStore(ext_gnt)
    \/ WriterDone
    \/ WriterHold(ext_gnt, loc_gnt)

-----------------------------------------------------------------------------
(***************************************************************************)
(* The memories behind the ports.  They have no reset, so a write that is  *)
(* granted on the edge that asserts it still lands.                        *)
(***************************************************************************)
Stored(m, port, gnt) ==
    IF gnt /\ port.wr THEN [m EXCEPT ![port.addr] = port.data] ELSE m

\* Mutant: a granted write is answered like a read.
BufferClkEcho(port, gnt) ==
    /\ buf' = Stored(buf, port, gnt)
    /\ buf_rsp' = IF gnt THEN <<buf[port.addr]>> ELSE Nothing

BufferClk(port, gnt) ==
    /\ buf' = Stored(buf, port, gnt)
    /\ buf_rsp' = IF gnt /\ ~port.wr THEN <<buf[port.addr]>> ELSE Nothing

\* External memory: one request at a time, and a read is answered once.
ExtMemClk(port, gnt, rvalid) ==
    /\ ext_mem' = Stored(ext_mem, port, gnt)
    /\ ext_rsp' = IF gnt /\ ~port.wr THEN <<ext_mem[port.addr]>>
                  ELSE IF rvalid THEN Nothing ELSE ext_rsp

DmaClk(bus, accept, answer, contended) ==
    LET ext_gnt == ext_mem_gnt(accept)
        rvalid == ext_mem_rvalid(answer)
        loc_gnt == buf_gnt(bus, contended)
    IN  /\ ReaderClk(ext_gnt, rvalid, loc_gnt)
        /\ WriterClk(ext_gnt, loc_gnt)
        /\ BufferClk(BufPort(bus), loc_gnt)
        /\ ExtMemClk(ExtPort, ext_gnt, rvalid)

IdleEngine ==
    [state |-> "S_IDLE", ext |-> 0, loc |-> 0, len |-> 0, cnt |-> 0, data |-> 0]

\* The external memory is assumed to answer an outstanding read before the
\* reset is over, so the answer finds nobody waiting.
DmaReset(bus, accept, contended) ==
    /\ rd' = IdleEngine
    /\ wr' = IdleEngine
    /\ buf' = Stored(buf, BufPort(bus), buf_gnt(bus, contended))
    /\ buf_rsp' = Nothing
    /\ ext_mem' = Stored(ext_mem, ExtPort, ext_mem_gnt(accept))
    /\ ext_rsp' = Nothing

DmaInit(buf0, ext0) ==
    /\ rd = IdleEngine
    /\ wr = IdleEngine
    /\ buf = buf0
    /\ buf_rsp = Nothing
    /\ ext_mem = ext0
    /\ ext_rsp = Nothing

EngineType(states) ==
    [state : states, ext : ExtAddr, loc : 0 .. LocSpace - 1,
     len : 0 .. LenSpace - 1, cnt : 0 .. LenSpace - 1, data : Data]

Answer == {Nothing} \cup {<<d>> : d \in Data}

\* Type invariant of the engines and the memories.
DmaTypeOK ==
    /\ rd \in EngineType({"S_IDLE", "S_EXT_RD", "S_EXT_WAIT", "S_LOC_WR", "S_DONE"})
    /\ wr \in EngineType({"S_IDLE", "S_LOC_RD", "S_LOC_WAIT", "S_EXT_WR", "S_DONE"})
    /\ buf \in [BufAddr -> Data]
    /\ ext_mem \in [ExtAddr -> Data]
    /\ buf_rsp \in Answer
    /\ ext_rsp \in Answer
=============================================================================
