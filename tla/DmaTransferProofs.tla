-------------------------- MODULE DmaTransferProofs --------------------------
(***************************************************************************)
(* Proofs about transfers: for every width of the addresses and the        *)
(* length, every window, every timing of the memories, any number of calls *)
(* and of resets between them.                                             *)
(***************************************************************************)
EXTENDS DmaTransfer, DmaFrontendProofs

-----------------------------------------------------------------------------
(***************************************************************************)
(* Addresses that wrap, and copies byte by byte.                           *)
(***************************************************************************)

\* Once round, it is the number less the width.
LEMMA ModWrap == \A n \in Nat \ {0} : \A x \in n .. 2 * n - 1 : x % n = x - n
  OBVIOUS

\* The next address of an engine.
LEMMA NextAddr ==
  ASSUME NEW n \in Nat \ {0}, NEW x \in 0 .. n - 1
  PROVE  (x + 1) % n = IF x + 1 = n THEN 0 ELSE x + 1
<1>1. CASE x + 1 = n
  <2>1. x + 1 \in n .. 2 * n - 1
    BY <1>1
  <2>2. QED
    BY <1>1, <2>1, ModWrap
<1>2. CASE x + 1 # n
  <2>1. x + 1 \in 0 .. n - 1
    BY <1>2
  <2>2. QED
    BY <1>2, <2>1, ModSmall
<1>3. QED
  BY <1>1, <1>2

\* Where the source of a byte lies, seen from the next address.
LEMMA SourceAddr ==
  ASSUME NEW S \in Nat \ {0}, NEW f \in 0 .. S - 1, NEW i \in 1 .. S - 1
  PROVE  (((f + 1) % S) + (i - 1)) % S = (f + i) % S
<1> DEFINE g == (f + 1) % S
<1>1. g = IF f + 1 = S THEN 0 ELSE f + 1
  BY NextAddr
<1> HIDE DEF g
<1>2. CASE f + 1 = S
  <2>1. f + i \in S .. 2 * S - 1 /\ i - 1 \in 0 .. S - 1 /\ g + (i - 1) = i - 1
    BY <1>1, <1>2
  <2>2. (f + i) % S = f + i - S
    <3> DEFINE h == f + i
    <3>1. h \in S .. 2 * S - 1
      BY <2>1
    <3> HIDE DEF h
    <3>2. h % S = h - S
      BY <3>1, ModWrap
    <3>3. QED
      BY <3>2 DEF h
  <2>3. (i - 1) % S = i - 1
    BY <2>1, ModSmall
  <2>4. QED
    BY <1>2, <2>1, <2>2, <2>3
<1>3. CASE f + 1 # S
  <2>1. g + (i - 1) = f + i
    BY <1>1, <1>3
  <2>2. QED
    BY <2>1
<1>4. QED
  BY <1>2, <1>3 DEF g

\* One byte is copied from f to t, n were left, and the addresses move on.
MovesByte(src, dst, f, t, n, S, now, g, u, m, D) ==
    /\ S \in Nat \ {0} /\ D \in Nat \ {0}
    /\ DOMAIN dst \subseteq 0 .. D - 1 /\ DOMAIN now = DOMAIN dst
    /\ f \in 0 .. S - 1 /\ t \in DOMAIN dst
    /\ n \in Nat /\ n >= 1 /\ n <= S /\ n <= D
    /\ now[t] = src[f]
    /\ \A a \in DOMAIN dst \ {t} : now[a] = dst[a]
    /\ g = (f + 1) % S /\ u = (t + 1) % D /\ m = n - 1

\* The engines' step: a copy is its first byte and the copy of the rest.
LEMMA CopyStep ==
  ASSUME NEW S, NEW D, NEW src, NEW dst, NEW f, NEW t, NEW n, NEW now, NEW g, NEW u, NEW m,
         MovesByte(src, dst, f, t, n, S, now, g, u, m, D)
  PROVE  Copied(src, dst, f, t, n, S, D) = Copied(src, now, g, u, m, S, D)
<1> USE DEF MovesByte
<1> DEFINE Old(a) == IF Behind(a, t, D) < n THEN src[(f + Behind(a, t, D)) % S] ELSE dst[a]
           New(a) == IF Behind(a, u, D) < m THEN src[(g + Behind(a, u, D)) % S] ELSE now[a]
<1>1. u = IF t + 1 = D THEN 0 ELSE t + 1
  <2>1. t \in 0 .. D - 1
    OBVIOUS
  <2>2. QED
    BY <2>1, NextAddr
<1>2. ASSUME NEW a \in DOMAIN dst PROVE Old(a) = New(a)
  <2> DEFINE i == Behind(a, t, D)
  <2>1. i \in 0 .. D - 1 /\ (i = 0 <=> a = t)
    BY DEF Behind
  <2>2. Behind(a, u, D) = IF i = 0 THEN D - 1 ELSE i - 1
    BY <1>1 DEF Behind
  <2>3. CASE a = t
    <3>1. Old(a) = src[f % S]
      BY <2>1, <2>3
    <3>2. f % S = f
      BY ModSmall
    <3>3. New(a) = src[f]
      BY <2>1, <2>2, <2>3
    <3>4. QED
      BY <3>1, <3>2, <3>3
  <2>4. CASE a # t /\ i < n
    <3>1. i \in 1 .. S - 1
      BY <2>1, <2>4
    <3>2. (g + (i - 1)) % S = (f + i) % S
      BY <3>1, SourceAddr
    <3>3. Old(a) = src[(f + i) % S]
      BY <2>4
    <3>4. New(a) = src[(g + (i - 1)) % S]
      BY <2>1, <2>2, <2>4
    <3>5. QED
      BY <3>2, <3>3, <3>4
  <2>5. CASE a # t /\ ~(i < n)
    <3>1. Old(a) = dst[a]
      BY <2>5
    <3>2. New(a) = dst[a]
      BY <2>1, <2>2, <2>5
    <3>3. QED
      BY <3>1, <3>2
  <2>6. QED
    BY <2>3, <2>4, <2>5
<1>3. Copied(src, dst, f, t, n, S, D) = [a \in DOMAIN dst |-> Old(a)]
  BY DEF Copied
<1>4. Copied(src, now, g, u, m, S, D) = [a \in DOMAIN dst |-> New(a)]
  BY DEF Copied
<1> HIDE DEF Old, New
<1>5. [a \in DOMAIN dst |-> Old(a)] = [a \in DOMAIN dst |-> New(a)]
  BY <1>2
<1>6. QED
  BY <1>3, <1>4, <1>5

\* The end of an engine's work: nothing more to copy.
LEMMA CopyNothing ==
  ASSUME NEW D \in Nat \ {0}, NEW A \in SUBSET (0 .. D - 1), NEW V, NEW src,
         NEW dst \in [A -> V], NEW f, NEW t \in 0 .. D - 1, NEW S
  PROVE  Copied(src, dst, f, t, 0, S, D) = dst
<1>1. ASSUME NEW a \in A PROVE ~(Behind(a, t, D) < 0)
  BY DEF Behind
<1>2. QED
  BY <1>1 DEF Copied

\* A copy has the type of its destination when it reads inside its source.
LEMMA CopyType ==
  ASSUME NEW S, NEW D \in Nat \ {0}, NEW A \in SUBSET (0 .. D - 1), NEW V, NEW src,
         NEW dst \in [A -> V], NEW f, NEW t \in 0 .. D - 1, NEW n \in Nat,
         \A i \in 0 .. D - 1 : i < n => src[(f + i) % S] \in V
  PROVE  Copied(src, dst, f, t, n, S, D) \in [A -> V]
<1>1. ASSUME NEW a \in A PROVE Behind(a, t, D) \in 0 .. D - 1
  BY DEF Behind
<1>2. QED
  BY <1>1 DEF Copied

-----------------------------------------------------------------------------
(***************************************************************************)
(* The inductive invariant.                                                *)
(***************************************************************************)

\* The types, and what a buffer write in progress goes back to.
HostInv ==
    /\ TypeOK
    /\ careful \in BOOLEAN
    /\ host_pc = "load" => /\ host_load # Nothing
                           /\ careful => host_load.then = "idle"

\* What a reset leaves of the engines.
Flushed ==
    /\ rd = IdleEngine /\ wr = IdleEngine
    /\ buf_rsp = Nothing /\ ext_rsp = Nothing
    /\ ~dma_start_r /\ ~pending

\* A reset is on its way or under way only while the host waits for it, and
\* when CTRL has been cleared the engines have been too.
ResetInv ==
    /\ sync_chain = STAGES
    /\ host_pc # "settle" => ~soft_reset /\ ~soft_reset_sync1 /\ ~soft_reset_sync2
    /\ host_pc = "settle" => \/ soft_reset /\ ~soft_reset_sync2
                             \/ /\ ~soft_reset /\ (soft_reset_sync1 => soft_reset_sync2)
                                /\ Flushed

\* The registers hold the arguments the host has written so far, and an engine
\* is started with the arguments of the call in progress.
RegInv ==
    /\ host_pc \in {"loc", "len", "ctrl"} => dma_ext_addr_r = host_req.ext
    /\ host_pc \in {"len", "ctrl"} => dma_loc_addr_r = host_req.loc
    /\ host_pc = "ctrl" => dma_len_r = host_req.len
    /\ dma_start_r =>
          /\ host_pc = "poll"
          /\ dma_ext_addr_r = host_req.ext /\ dma_loc_addr_r = host_req.loc
          /\ dma_len_r = host_req.len /\ dma_dir_r = host_req.dir

\* The phases of a careful host's call.
AtRest == rd.state = "S_IDLE" /\ wr.state = "S_IDLE" /\ ~dma_start_r

Over ==
    /\ rd.state \in {"S_IDLE", "S_DONE"} /\ wr.state \in {"S_IDLE", "S_DONE"}
    /\ ~dma_start_r

AsWanted == buf = want_buf /\ ext_mem = want_ext

Starting ==
    /\ dma_start_r /\ rd.state = "S_IDLE" /\ wr.state = "S_IDLE"
    /\ IF dma_dir_r
       THEN /\ want_ext = Copied(buf, ext_mem, dma_loc_addr_r, dma_ext_addr_r, dma_len_r,
                                 LocSpace, ExtSpace)
            /\ want_buf = buf
       ELSE /\ want_buf = Copied(ext_mem, buf, dma_ext_addr_r, dma_loc_addr_r, dma_len_r,
                                 ExtSpace, LocSpace)
            /\ want_ext = ext_mem

\* What is left to copy leads from the memories as they are to what the calls
\* promised, and the byte under way is the next one.
Reading ==
    /\ rd_busy /\ wr.state = "S_IDLE" /\ ~dma_start_r
    /\ rd.cnt < rd.len
    /\ want_buf = Copied(ext_mem, buf, rd.ext, rd.loc, rd.len - rd.cnt, ExtSpace, LocSpace)
    /\ want_ext = ext_mem
    /\ rd.state = "S_EXT_WAIT" => ext_rsp = <<ext_mem[rd.ext]>>
    /\ rd.state = "S_LOC_WR" => rd.data = ext_mem[rd.ext]

Writing ==
    /\ wr_busy /\ rd.state = "S_IDLE" /\ ~dma_start_r
    /\ wr.cnt < wr.len
    /\ want_ext = Copied(buf, ext_mem, wr.loc, wr.ext, wr.len - wr.cnt, LocSpace, ExtSpace)
    /\ want_buf = buf
    /\ wr.state = "S_LOC_WAIT" => buf_rsp = <<buf[wr.loc]>>
    /\ wr.state = "S_EXT_WR" => wr.data = buf[wr.loc]

CallInv ==
    careful =>
        /\ host_pc \in {"idle", "load", "ext", "loc", "len", "ctrl"} =>
              AtRest /\ AsWanted /\ (pending => irq_clear_r)
        /\ host_pc = "poll" => Starting \/ Reading \/ Writing \/ (Over /\ AsWanted)
        /\ host_pc = "clear" => Over /\ AsWanted

DmaInv == HostInv /\ ResetInv /\ RegInv /\ CallInv

-----------------------------------------------------------------------------
(***************************************************************************)
(* The edge of the device.                                                 *)
(***************************************************************************)

\* The bus cycles of a host fit the registers they name.
LEMMA HostBusGood ==
  ASSUME NEW bus \in BusCycle
  PROVE  GoodBus(bus)
<1>1. HostReqs \subseteq Reqs \cup CarelessReqs
  BY DEF HostReqs
<1>2. \A r \in HostReqs : r.ext \in Nat /\ r.loc \in Nat /\ r.len \in Nat
  BY <1>1, HostAssumption DEF ExtAddr
<1>3. \A l \in Loads : l[1] \in BufAddr /\ l[2] \in Data
  BY HostAssumption
<1>4. CASE bus \in {NoWrite, WriteIrqClear, WriteCtrl({"SOFT_RESET"})}
  BY <1>4 DEF GoodBus, NoWrite, WriteIrqClear, WriteCtrl
<1>5. CASE \E r \in HostReqs : \/ bus = WriteDma("DMA_EXT_ADDR", r.ext)
                               \/ bus = WriteDma("DMA_LOC_ADDR", r.loc)
                               \/ bus = WriteDma("DMA_LEN", r.len)
  BY <1>2, <1>5 DEF GoodBus, WriteDma
<1>6. CASE \E dir \in BOOLEAN : bus = WriteDmaCtrl(TRUE, dir)
  BY <1>6 DEF GoodBus, WriteDmaCtrl
<1>7. CASE \E l \in Loads : bus = WriteBuf(l[1], l[2])
  BY <1>3, <1>7 DEF GoodBus, WriteBuf
<1>8. QED
  BY <1>4, <1>5, <1>6, <1>7 DEF BusCycle

\* The whole device keeps its types.
LEMMA DeviceTypes ==
  ASSUME RegBlockTypeOK, DmaTypeOK, pending \in BOOLEAN, ResetTypeOK,
         NEW bus \in BusCycle, NEW accept \in BOOLEAN, NEW answer \in BOOLEAN,
         NEW contended \in BOOLEAN, DeviceClk(bus, accept, answer, contended)
  PROVE  RegBlockTypeOK' /\ DmaTypeOK' /\ pending' \in BOOLEAN /\ ResetTypeOK'
<1>1. GoodBus(bus)
  BY HostBusGood
<1>2. RegBlockTypeOK'
  <2>1. 0 \in WordIdx
    BY NumWordsAssumption DEF WordIdx
  <2>2. RegBlockClk(bus, FALSE, 0) \/ RegBlockReset(bus)
    BY DEF DeviceClk
  <2>3. QED
    BY <1>1, <2>1, <2>2, RegBlockTypes
<1>3. DmaTypeOK'
  BY <1>1, DmaTypes, DmaResetTypes DEF DeviceClk
<1>4. pending' \in BOOLEAN
  BY DEF DeviceClk, IrqClk, IrqReset
<1>5. ResetTypeOK'
  BY StagesAssumption
    DEF DeviceClk, ResetClk, ChainClk, SoftClk, ResetTypeOK, hard_rst_n
<1>6. QED
  BY <1>2, <1>3, <1>4, <1>5

\* While no reset is on its way every edge is an ordinary one.
LEMMA RunningEdge ==
  ASSUME ResetInv, host_pc # "settle",
         NEW bus, NEW accept, NEW answer, NEW contended,
         DeviceClk(bus, accept, answer, contended)
  PROVE  /\ sync_chain' = STAGES /\ ~soft_reset_sync1' /\ ~soft_reset_sync2'
         /\ RegBlockClk(bus, FALSE, 0)
         /\ DmaClk(bus, accept, answer, contended)
         /\ IrqClk(dma_done, FALSE, irq_clear_r)
<1>1. sync_chain' = STAGES
  BY StagesAssumption DEF ResetInv, DeviceClk, ResetClk, ChainClk
<1>2. ~soft_reset_sync1' /\ ~soft_reset_sync2'
  BY <1>1 DEF ResetInv, DeviceClk, ResetClk, SoftClk, hard_rst_n
<1>3. ~InReset
  BY <1>1, <1>2 DEF ResetInv, InReset, rst_n, hard_rst_n
<1>4. QED
  BY <1>1, <1>2, <1>3 DEF DeviceClk

\* Engines at rest leave the memories to the host's writes.
LEMMA RestEdge ==
  ASSUME AtRest, NEW bus, NEW accept, NEW answer, NEW contended,
         DmaClk(bus, accept, answer, contended)
  PROVE  /\ rd' = rd /\ wr' = wr /\ ext_mem' = ext_mem
         /\ buf' = IF bus.reg = "BUF" /\ mmio_ready(bus, contended)
                   THEN [buf EXCEPT ![bus.addr] = bus.data]
                   ELSE buf
<1>1. rd' = rd
  BY DEF AtRest, DmaClk, ReaderClk, ReaderStart, ReaderRequest, ReaderData, ReaderStore,
         ReaderDone, ReaderHold, rd_start
<1>2. wr' = wr
  BY DEF AtRest, DmaClk, WriterClk, WriterStart, WriterRequest, WriterData, WriterStore,
         WriterDone, WriterHold, wr_start
<1>3. ~rd_busy /\ ~wr_busy /\ ~dma_busy
  BY DEF AtRest, rd_busy, wr_busy, dma_busy
<1>4. ext_mem' = ext_mem
  BY <1>3 DEF AtRest, DmaClk, ExtMemClk, Stored, ExtPort
<1>5. BufPort(bus) = HostBufPort(bus)
  BY <1>3 DEF BufPort
<1>6. buf' = IF bus.reg = "BUF" /\ mmio_ready(bus, contended)
             THEN [buf EXCEPT ![bus.addr] = bus.data]
             ELSE buf
  <2>1. buf' = Stored(buf, HostBufPort(bus), buf_gnt(bus, contended))
    BY <1>5 DEF DmaClk, BufferClk
  <2>2. CASE bus.reg = "BUF"
    <3>1. /\ HostBufPort(bus).wr /\ HostBufPort(bus).addr = bus.addr
          /\ HostBufPort(bus).data = bus.data
      BY <2>2 DEF HostBufPort
    <3>2. QED
      BY <2>1, <2>2, <3>1 DEF Stored, mmio_ready
  <2>3. CASE bus.reg # "BUF"
    BY <2>1, <2>3 DEF Stored, HostBufPort
  <2>4. QED
    BY <2>2, <2>3
<1>7. QED
  BY <1>1, <1>2, <1>4, <1>6

\* An engine that is done goes back to rest, and the memories stay as they are.
LEMMA OverEdge ==
  ASSUME Over, NEW bus, NEW accept, NEW answer, NEW contended, bus.reg # "BUF",
         DmaTypeOK, DmaClk(bus, accept, answer, contended)
  PROVE  /\ rd'.state = "S_IDLE" /\ wr'.state = "S_IDLE"
         /\ buf' = buf /\ ext_mem' = ext_mem
<1>1. rd'.state = "S_IDLE"
  BY DEF Over, DmaTypeOK, EngineType, DmaClk, ReaderClk, ReaderStart, ReaderRequest,
         ReaderData, ReaderStore, ReaderDone, ReaderHold, rd_start
<1>2. wr'.state = "S_IDLE"
  BY DEF Over, DmaTypeOK, EngineType, DmaClk, WriterClk, WriterStart, WriterRequest,
         WriterData, WriterStore, WriterDone, WriterHold, wr_start
<1>3. ~rd_busy /\ ~wr_busy /\ ~dma_busy
  BY DEF Over, rd_busy, wr_busy, dma_busy
<1>4. ext_mem' = ext_mem
  BY <1>3 DEF Over, DmaClk, ExtMemClk, Stored, ExtPort
<1>5. buf' = buf
  BY <1>3 DEF DmaClk, BufferClk, Stored, BufPort, HostBufPort
<1>6. QED
  BY <1>1, <1>2, <1>4, <1>5

\* What an engine copies is the number of bytes the call asked for.
LEMMA StartEdge ==
  ASSUME Starting, dma_len_r >= 1, RegBlockTypeOK, DmaTypeOK,
         NEW bus, NEW accept, NEW answer, NEW contended, bus.reg # "BUF",
         DmaClk(bus, accept, answer, contended), ~dma_start_r', UNCHANGED wantVars
  PROVE  Reading' \/ Writing'
<1>1. ~rd_busy /\ ~wr_busy /\ ~dma_busy
  BY DEF Starting, rd_busy, wr_busy, dma_busy
<1>2. buf' = buf
  BY <1>1 DEF DmaClk, BufferClk, Stored, BufPort, HostBufPort
<1>3. ext_mem' = ext_mem
  BY <1>1 DEF Starting, DmaClk, ExtMemClk, Stored, ExtPort
<1>4. dma_len_r - 0 = dma_len_r
  BY DEF RegBlockTypeOK
<1>5. CASE dma_dir_r
  <2>1. rd' = rd
    BY <1>5 DEF Starting, DmaClk, ReaderClk, ReaderStart, ReaderRequest, ReaderData,
                ReaderStore, ReaderDone, ReaderHold, rd_start
  <2>2. wr' = Started(wr, "S_LOC_RD")
    BY <1>5 DEF Starting, DmaClk, WriterClk, WriterStart, WriterRequest, WriterData,
                WriterStore, WriterDone, WriterHold, wr_start
  <2>3. /\ wr'.state = "S_LOC_RD" /\ wr'.ext = dma_ext_addr_r /\ wr'.loc = dma_loc_addr_r
        /\ wr'.len = dma_len_r /\ wr'.cnt = 0
    BY <2>2 DEF Started
  <2>4. QED
    BY <1>2, <1>3, <1>4, <1>5, <2>1, <2>3 DEF Starting, Writing, wr_busy, wantVars, RegBlockTypeOK
<1>6. CASE ~dma_dir_r
  <2>1. wr' = wr
    BY <1>6 DEF Starting, DmaClk, WriterClk, WriterStart, WriterRequest, WriterData,
                WriterStore, WriterDone, WriterHold, wr_start
  <2>2. rd' = Started(rd, "S_EXT_RD")
    BY <1>6 DEF Starting, DmaClk, ReaderClk, ReaderStart, ReaderRequest, ReaderData,
                ReaderStore, ReaderDone, ReaderHold, rd_start
  <2>3. /\ rd'.state = "S_EXT_RD" /\ rd'.ext = dma_ext_addr_r /\ rd'.loc = dma_loc_addr_r
        /\ rd'.len = dma_len_r /\ rd'.cnt = 0
    BY <2>2 DEF Started
  <2>4. QED
    BY <1>2, <1>3, <1>4, <1>6, <2>1, <2>3 DEF Starting, Reading, rd_busy, wantVars, RegBlockTypeOK
<1>7. QED
  BY <1>5, <1>6

\* The reader stores the next byte, or waits; after the last one the buffers
\* are what was promised.
LEMMA ReadEdge ==
  ASSUME Reading, DmaTypeOK, DmaTypeOK', NEW bus, NEW accept, NEW answer, NEW contended,
         DmaClk(bus, accept, answer, contended), ~dma_start_r', UNCHANGED wantVars
  PROVE  Reading' \/ (Over' /\ AsWanted')
<1> DEFINE ext_gnt == ext_mem_gnt(accept)
           rvalid == ext_mem_rvalid(answer)
           loc_gnt == buf_gnt(bus, contended)
           RdStates == {"S_IDLE", "S_EXT_RD", "S_EXT_WAIT", "S_LOC_WR", "S_DONE"}
<1>clk. /\ ReaderClk(ext_gnt, rvalid, loc_gnt)
        /\ BufferClk(BufPort(bus), loc_gnt)
        /\ ExtMemClk(ExtPort, ext_gnt, rvalid)
  BY DEF DmaClk
<1>old. /\ rd \in EngineType(RdStates)
        /\ buf \in [BufAddr -> Data] /\ ext_mem \in [ExtAddr -> Data]
  BY DEF DmaTypeOK
<1>wr. wr' = wr
  BY DEF Reading, DmaClk, WriterClk, WriterStart, WriterRequest, WriterData, WriterStore,
         WriterDone, WriterHold, wr_start
<1>port. /\ BufPort(bus) = DmaBufPort /\ rd_busy /\ dma_busy
  BY DEF Reading, BufPort, dma_busy
<1>ext. ext_mem' = ext_mem
  BY <1>clk DEF Reading, ExtMemClk, Stored, ExtPort
<1>buf. rd.state # "S_LOC_WR" \/ ~loc_gnt => buf' = buf
  <2>1. rd.state # "S_LOC_WR" => ~DmaBufPort.wr
    BY DEF DmaBufPort
  <2>2. buf' = Stored(buf, DmaBufPort, loc_gnt)
    BY <1>clk, <1>port DEF BufferClk
  <2>3. QED
    BY <2>1, <2>2 DEF Stored
<1>1. CASE ReaderRequest(ext_gnt)
  <2>1. rd.state = "S_EXT_RD" /\ ext_gnt /\ rd' = [rd EXCEPT !.state = "S_EXT_WAIT"]
    BY <1>1 DEF ReaderRequest
  <2>2. buf' = buf
    BY <1>buf, <2>1
  <2>3. /\ rd'.state = "S_EXT_WAIT" /\ rd'.ext = rd.ext /\ rd'.loc = rd.loc
        /\ rd'.len = rd.len /\ rd'.cnt = rd.cnt
    BY <2>1, <1>old DEF EngineType
  <2>4. ~ExtPort.wr /\ ExtPort.addr = rd.ext
    BY <1>port, <2>1 DEF Reading, ExtPort, Drive
  <2>5. ext_rsp' = <<ext_mem[rd.ext]>>
    BY <1>clk, <2>1, <2>4 DEF ExtMemClk
  <2>6. QED
    BY <1>wr, <1>ext, <2>2, <2>3, <2>5 DEF Reading, rd_busy, wantVars
<1>2. CASE ReaderData(rvalid)
  <2>1. /\ rd.state = "S_EXT_WAIT"
        /\ rd' = [rd EXCEPT !.state = "S_LOC_WR", !.data = ext_rsp[1]]
    BY <1>2 DEF ReaderData
  <2>2. buf' = buf
    BY <1>buf, <2>1
  <2>3. ext_rsp[1] = ext_mem[rd.ext]
    BY <2>1 DEF Reading
  <2>4. /\ rd'.state = "S_LOC_WR" /\ rd'.ext = rd.ext /\ rd'.loc = rd.loc
        /\ rd'.len = rd.len /\ rd'.cnt = rd.cnt /\ rd'.data = ext_rsp[1]
    BY <2>1, <1>old DEF EngineType
  <2>5. QED
    BY <1>wr, <1>ext, <2>2, <2>3, <2>4 DEF Reading, rd_busy, wantVars
<1>3. CASE ReaderStore(loc_gnt)
  <2>1. rd.state = "S_LOC_WR" /\ loc_gnt /\ rd' = ByteDone(rd, "S_EXT_RD")
    BY <1>3 DEF ReaderStore
  <2>2. rd.loc \in BufAddr /\ buf' = [buf EXCEPT ![rd.loc] = ext_mem[rd.ext]]
    <3>1. /\ DmaBufPort.addr = rd.loc /\ DmaBufPort.wr /\ DmaBufPort.data = rd.data
      BY <2>1, <1>port DEF DmaBufPort, Drive
    <3>2. rd.loc \in BufAddr
      BY <2>1, <3>1, <1>port DEF buf_gnt
    <3>3. QED
      BY <2>1, <3>1, <3>2, <1>port, <1>clk DEF BufferClk, Stored, Reading
  <2>3. /\ rd'.state = (IF LastByte(rd) THEN "S_DONE" ELSE "S_EXT_RD")
        /\ rd'.cnt = (rd.cnt + 1) % LenSpace
        /\ rd'.ext = (rd.ext + 1) % ExtSpace
        /\ rd'.loc = (rd.loc + 1) % LocSpace
        /\ rd'.len = rd.len
    BY <2>1, <1>old, ByteDoneFields
  <2>4. rd'.cnt = rd.cnt + 1 /\ (LastByte(rd) <=> rd.len - rd.cnt = 1)
    BY <1>old, <2>3, LastByteExact DEF Reading
  <2> DEFINE left == rd.len - rd.cnt
             f == rd.ext
             t == rd.loc
  <2>5. want_buf = Copied(ext_mem, buf', rd'.ext, rd'.loc, left - 1, ExtSpace, LocSpace)
    <3>1. left \in Nat /\ left >= 1 /\ left <= ExtSpace /\ left <= LocSpace
      BY <1>old, HostAssumption, WidthAssumption DEF Reading, EngineType
    <3>2. DOMAIN buf = BufAddr /\ DOMAIN buf \subseteq 0 .. LocSpace - 1
      BY <1>old, WindowAssumption, WidthAssumption DEF BufAddr
    <3>3. f \in 0 .. ExtSpace - 1 /\ t \in DOMAIN buf
      BY <1>old, <2>2, <3>2 DEF ExtAddr, EngineType
    <3>4. want_buf = Copied(ext_mem, buf, f, t, left, ExtSpace, LocSpace)
      BY DEF Reading
    <3>5. /\ buf' = [buf EXCEPT ![t] = ext_mem[f]]
          /\ rd'.ext = (f + 1) % ExtSpace /\ rd'.loc = (t + 1) % LocSpace
      BY <2>2, <2>3
    <3> DEFINE now == buf'
    <3> HIDE DEF left, f, t
    <3>6. /\ DOMAIN now = DOMAIN buf /\ now[t] = ext_mem[f]
          /\ \A a \in DOMAIN buf \ {t} : now[a] = buf[a]
      BY <1>old, <3>2, <3>3, <3>5
    <3>7. ExtSpace \in Nat \ {0} /\ LocSpace \in Nat \ {0}
      BY WidthAssumption
    <3> HIDE DEF now
    <3> DEFINE g == rd'.ext
               u == rd'.loc
               rest == left - 1
    <3>8. g = (f + 1) % ExtSpace /\ u = (t + 1) % LocSpace /\ rest = left - 1
      BY <3>5
    <3> HIDE DEF g, u, rest
    <3>9. Copied(ext_mem, buf, f, t, left, ExtSpace, LocSpace)
            = Copied(ext_mem, now, g, u, rest, ExtSpace, LocSpace)
      <4>1. MovesByte(ext_mem, buf, f, t, left, ExtSpace, now, g, u, rest, LocSpace)
        BY <3>1, <3>2, <3>3, <3>6, <3>7, <3>8 DEF MovesByte
      <4>2. QED
        BY <4>1, CopyStep
    <3>10. QED
      BY <3>4, <3>9 DEF now, g, u, rest
  <2>6. CASE LastByte(rd)
    <3>1. left - 1 = 0 /\ rd'.state = "S_DONE"
      BY <2>3, <2>4, <2>6
    <3>2. rd'.loc \in 0 .. LocSpace - 1 /\ buf' \in [BufAddr -> Data]
      BY DEF DmaTypeOK, EngineType
    <3>3. BufAddr \in SUBSET (0 .. LocSpace - 1)
      BY WindowAssumption, WidthAssumption DEF BufAddr
    <3>4. Copied(ext_mem, buf', rd'.ext, rd'.loc, 0, ExtSpace, LocSpace) = buf'
      <4> DEFINE u == rd'.loc
                 b == buf'
      <4>1. u \in 0 .. LocSpace - 1 /\ b \in [BufAddr -> Data]
        BY <3>2
      <4> HIDE DEF u, b
      <4>2. Copied(ext_mem, b, rd'.ext, u, 0, ExtSpace, LocSpace) = b
        BY <4>1, <3>3, CopyNothing, WidthAssumption
      <4>3. QED
        BY <4>2 DEF u, b
    <3>5. QED
      BY <1>wr, <1>ext, <2>5, <3>1, <3>4 DEF Reading, Over, AsWanted, wantVars
  <2>7. CASE ~LastByte(rd)
    <3>1. rd'.cnt < rd'.len /\ rd'.len - rd'.cnt = left - 1 /\ rd'.state = "S_EXT_RD"
      BY <1>old, <2>3, <2>4, <2>7 DEF Reading, EngineType
    <3>2. QED
      BY <1>wr, <1>ext, <2>5, <3>1 DEF Reading, rd_busy, wantVars
  <2>8. QED
    BY <2>6, <2>7
<1>4. CASE ReaderHold(ext_gnt, rvalid, loc_gnt)
  <2>1. rd' = rd
    BY <1>4 DEF ReaderHold
  <2>2. buf' = buf
    BY <1>buf, <1>4 DEF ReaderHold, Reading, rd_busy
  <2>3. rd.state = "S_EXT_WAIT" => ext_rsp' = ext_rsp
    BY <1>clk, <1>4, <1>port DEF Reading, ReaderHold, ExtMemClk, ExtPort, ext_mem_gnt
  <2>4. QED
    BY <1>wr, <1>ext, <2>1, <2>2, <2>3 DEF Reading, rd_busy, wantVars
<1>5. CASE ReaderStart \/ ReaderDone
  BY <1>5 DEF Reading, rd_busy, ReaderStart, ReaderDone
<1>6. QED
  BY <1>clk, <1>1, <1>2, <1>3, <1>4, <1>5 DEF ReaderClk

\* The same for the writer.
LEMMA WriteEdge ==
  ASSUME Writing, DmaTypeOK, DmaTypeOK', NEW bus, NEW accept, NEW answer, NEW contended,
         DmaClk(bus, accept, answer, contended), ~dma_start_r', UNCHANGED wantVars
  PROVE  Writing' \/ (Over' /\ AsWanted')
<1> DEFINE ext_gnt == ext_mem_gnt(accept)
           rvalid == ext_mem_rvalid(answer)
           loc_gnt == buf_gnt(bus, contended)
           WrStates == {"S_IDLE", "S_LOC_RD", "S_LOC_WAIT", "S_EXT_WR", "S_DONE"}
<1>clk. /\ WriterClk(ext_gnt, loc_gnt)
        /\ BufferClk(BufPort(bus), loc_gnt)
        /\ ExtMemClk(ExtPort, ext_gnt, rvalid)
  BY DEF DmaClk
<1>old. /\ wr \in EngineType(WrStates)
        /\ buf \in [BufAddr -> Data] /\ ext_mem \in [ExtAddr -> Data]
  BY DEF DmaTypeOK
<1>rd. rd' = rd
  BY DEF Writing, DmaClk, ReaderClk, ReaderStart, ReaderRequest, ReaderData, ReaderStore,
         ReaderDone, ReaderHold, rd_start
<1>port. BufPort(bus) = DmaBufPort /\ ~rd_busy /\ dma_busy
  BY DEF Writing, BufPort, dma_busy, rd_busy
<1>buf. buf' = buf /\ ~DmaBufPort.wr
  <2>1. ~DmaBufPort.wr
    BY DEF Writing, DmaBufPort
  <2>2. QED
    BY <1>clk, <1>port, <2>1 DEF BufferClk, Stored
<1>ext. wr.state # "S_EXT_WR" \/ ~ext_gnt => ext_mem' = ext_mem
  <2>1. wr.state # "S_EXT_WR" => ~ExtPort.wr
    BY DEF ExtPort
  <2>2. QED
    BY <1>clk, <2>1 DEF ExtMemClk, Stored
<1>1. CASE WriterRequest(loc_gnt)
  <2>1. wr.state = "S_LOC_RD" /\ loc_gnt /\ wr' = [wr EXCEPT !.state = "S_LOC_WAIT"]
    BY <1>1 DEF WriterRequest
  <2>2. /\ wr'.state = "S_LOC_WAIT" /\ wr'.ext = wr.ext /\ wr'.loc = wr.loc
        /\ wr'.len = wr.len /\ wr'.cnt = wr.cnt
    BY <2>1, <1>old DEF EngineType
  <2>3. DmaBufPort.addr = wr.loc
    BY <1>port, <2>1 DEF DmaBufPort, Drive
  <2>4. buf_rsp' = <<buf[wr.loc]>>
    BY <1>clk, <1>port, <1>buf, <2>1, <2>3 DEF BufferClk
  <2>5. ext_mem' = ext_mem
    BY <1>ext, <2>1
  <2>6. QED
    BY <1>rd, <1>buf, <2>2, <2>4, <2>5 DEF Writing, wr_busy, wantVars
<1>2. CASE WriterData
  <2>1. /\ wr.state = "S_LOC_WAIT"
        /\ wr' = [wr EXCEPT !.state = "S_EXT_WR", !.data = buf_rsp[1]]
    BY <1>2 DEF WriterData
  <2>2. buf_rsp[1] = buf[wr.loc]
    BY <2>1 DEF Writing
  <2>3. /\ wr'.state = "S_EXT_WR" /\ wr'.ext = wr.ext /\ wr'.loc = wr.loc
        /\ wr'.len = wr.len /\ wr'.cnt = wr.cnt /\ wr'.data = buf_rsp[1]
    BY <2>1, <1>old DEF EngineType
  <2>4. ext_mem' = ext_mem
    BY <1>ext, <2>1
  <2>5. QED
    BY <1>rd, <1>buf, <2>2, <2>3, <2>4 DEF Writing, wr_busy, wantVars
<1>3. CASE WriterStore(ext_gnt)
  <2>1. wr.state = "S_EXT_WR" /\ ext_gnt /\ wr' = ByteDone(wr, "S_LOC_RD")
    BY <1>3 DEF WriterStore
  <2>2. ext_mem' = [ext_mem EXCEPT ![wr.ext] = buf[wr.loc]]
    <3>1. ExtPort.addr = wr.ext /\ ExtPort.wr /\ ExtPort.data = wr.data
      BY <2>1, <1>port DEF ExtPort, Drive
    <3>2. QED
      BY <2>1, <3>1, <1>clk DEF ExtMemClk, Stored, Writing
  <2>3. /\ wr'.state = (IF LastByte(wr) THEN "S_DONE" ELSE "S_LOC_RD")
        /\ wr'.cnt = (wr.cnt + 1) % LenSpace
        /\ wr'.ext = (wr.ext + 1) % ExtSpace
        /\ wr'.loc = (wr.loc + 1) % LocSpace
        /\ wr'.len = wr.len
    BY <2>1, <1>old, ByteDoneFields
  <2>4. wr'.cnt = wr.cnt + 1 /\ (LastByte(wr) <=> wr.len - wr.cnt = 1)
    BY <1>old, <2>3, LastByteExact DEF Writing
  <2> DEFINE left == wr.len - wr.cnt
             f == wr.loc
             t == wr.ext
  <2>5. want_ext = Copied(buf, ext_mem', wr'.loc, wr'.ext, left - 1, LocSpace, ExtSpace)
    <3>1. left \in Nat /\ left >= 1 /\ left <= ExtSpace /\ left <= LocSpace
      BY <1>old, HostAssumption, WidthAssumption DEF Writing, EngineType
    <3>2. DOMAIN ext_mem = ExtAddr /\ DOMAIN ext_mem \subseteq 0 .. ExtSpace - 1
      BY <1>old DEF ExtAddr
    <3>3. f \in 0 .. LocSpace - 1 /\ t \in DOMAIN ext_mem
      BY <1>old, <3>2 DEF EngineType
    <3>4. want_ext = Copied(buf, ext_mem, f, t, left, LocSpace, ExtSpace)
      BY DEF Writing
    <3>5. /\ ext_mem' = [ext_mem EXCEPT ![t] = buf[f]]
          /\ wr'.loc = (f + 1) % LocSpace /\ wr'.ext = (t + 1) % ExtSpace
      BY <2>2, <2>3
    <3> DEFINE now == ext_mem'
    <3> HIDE DEF left, f, t
    <3>6. /\ DOMAIN now = DOMAIN ext_mem /\ now[t] = buf[f]
          /\ \A a \in DOMAIN ext_mem \ {t} : now[a] = ext_mem[a]
      BY <1>old, <3>2, <3>3, <3>5
    <3>7. ExtSpace \in Nat \ {0} /\ LocSpace \in Nat \ {0}
      BY WidthAssumption
    <3> DEFINE g == wr'.loc
               u == wr'.ext
               rest == left - 1
    <3>8. g = (f + 1) % LocSpace /\ u = (t + 1) % ExtSpace /\ rest = left - 1
      BY <3>5
    <3> HIDE DEF now, g, u, rest
    <3>9. MovesByte(buf, ext_mem, f, t, left, LocSpace, now, g, u, rest, ExtSpace)
      BY <3>1, <3>2, <3>3, <3>6, <3>7, <3>8 DEF MovesByte
    <3>10. Copied(buf, ext_mem, f, t, left, LocSpace, ExtSpace)
             = Copied(buf, now, g, u, rest, LocSpace, ExtSpace)
      BY <3>9, CopyStep
    <3>11. QED
      BY <3>4, <3>10 DEF now, g, u, rest
  <2>6. CASE LastByte(wr)
    <3>1. left - 1 = 0 /\ wr'.state = "S_DONE"
      BY <2>3, <2>4, <2>6
    <3> DEFINE u == wr'.ext
               m == ext_mem'
    <3>2. u \in 0 .. ExtSpace - 1 /\ m \in [ExtAddr -> Data]
      BY DEF DmaTypeOK, EngineType, ExtAddr
    <3>3. ExtAddr \in SUBSET (0 .. ExtSpace - 1)
      BY DEF ExtAddr
    <3>4. Copied(buf, m, wr'.loc, u, 0, LocSpace, ExtSpace) = m
      <4> HIDE DEF u, m
      <4>1. QED
        BY <3>2, <3>3, CopyNothing, WidthAssumption
    <3>5. QED
      BY <1>rd, <1>buf, <2>5, <3>1, <3>4 DEF Writing, Over, AsWanted, wantVars
  <2>7. CASE ~LastByte(wr)
    <3>1. wr'.cnt < wr'.len /\ wr'.len - wr'.cnt = left - 1 /\ wr'.state = "S_LOC_RD"
      BY <1>old, <2>3, <2>4, <2>7 DEF Writing, EngineType
    <3>2. QED
      BY <1>rd, <1>buf, <2>5, <3>1 DEF Writing, wr_busy, wantVars
  <2>8. QED
    BY <2>6, <2>7
<1>4. CASE WriterHold(ext_gnt, loc_gnt)
  <2>1. wr' = wr /\ wr.state # "S_LOC_WAIT"
    BY <1>4, SomethingIsNotNothing DEF WriterHold, Writing
  <2>2. ext_mem' = ext_mem
    BY <1>ext, <1>4 DEF WriterHold, Writing, wr_busy
  <2>3. QED
    BY <1>rd, <1>buf, <2>1, <2>2 DEF Writing, wr_busy, wantVars
<1>5. CASE WriterStart \/ WriterDone
  BY <1>5 DEF Writing, wr_busy, WriterStart, WriterDone
<1>6. QED
  BY <1>clk, <1>1, <1>2, <1>3, <1>4, <1>5 DEF WriterClk

-----------------------------------------------------------------------------
(***************************************************************************)
(* One step of the host with one edge of the device.                       *)
(***************************************************************************)

\* The initial states.
LEMMA DmaInvInit == Init => DmaInv
<1> SUFFICES ASSUME Init PROVE DmaInv
  OBVIOUS
<1>1. RegBlockTypeOK
  <2>1. 0 \in 0 .. ExtSpace - 1 /\ 0 \in 0 .. LocSpace - 1 /\ 0 \in 0 .. LenSpace - 1
    BY WidthAssumption
  <2>2. QED
    BY <2>1, WordAssumption DEF Init, RegBlockInit, RegBlockTypeOK
<1>2. DmaTypeOK
  BY HostAssumption, WindowAssumption, WidthAssumption
    DEF Init, DmaInit, DmaTypeOK, IdleEngine, EngineType, ExtAddr, Answer
<1>3. HostInv
  <2>1. ops \in 0 .. MaxOps + 1 /\ resets \in 0 .. MaxResets
    BY HostAssumption DEF Init
  <2>2. ResetTypeOK /\ pending \in BOOLEAN
    <3>1. STAGES \in 0 .. STAGES
      BY StagesAssumption
    <3>2. sync_chain = STAGES /\ soft_reset_sync1 \in BOOLEAN /\ soft_reset_sync2 \in BOOLEAN
      BY DEF Init
    <3>3. pending \in BOOLEAN
      BY DEF Init, IrqInit
    <3>4. QED
      BY <3>1, <3>2, <3>3 DEF ResetTypeOK
  <2>3. careful \in BOOLEAN
    BY HostAssumption DEF Init
  <2>4. /\ want_buf \in [BufAddr -> Data] /\ want_ext \in [ExtAddr -> Data]
        /\ host_req \in HostReqs
    BY HostAssumption DEF Init
  <2>5. host_pc = "idle" /\ host_load = Nothing
    BY DEF Init
  <2>6. QED
    BY <1>1, <1>2, <2>1, <2>2, <2>3, <2>4, <2>5 DEF HostInv, TypeOK
<1>4. ResetInv
  BY DEF Init, ResetInv, soft_reset, RegBlockInit
<1>5. RegInv
  BY DEF Init, RegInv, RegBlockInit
<1>6. CallInv
  BY DEF Init, CallInv, AtRest, AsWanted, DmaInit, IdleEngine, RegBlockInit, IrqInit
<1>7. QED
  BY <1>3, <1>4, <1>5, <1>6 DEF DmaInv

\* A call that stays within the spaces promises memories of the right type.
LEMMA PromiseTypes ==
  ASSUME TypeOK, Promise(host_req)
  PROVE  want_buf' \in [BufAddr -> Data] /\ want_ext' \in [ExtAddr -> Data]
<1> DEFINE r == host_req
<1>1. /\ r \in [ext : ExtAddr, loc : 0 .. LocSpace - 1, len : 1 .. LenSpace - 1, dir : BOOLEAN]
      /\ r.dir => r.loc >= WindowBase /\ r.loc + r.len <= LocSpace
  BY HostAssumption DEF TypeOK, HostReqs
<1>2. want_buf \in [BufAddr -> Data] /\ want_ext \in [ExtAddr -> Data]
  BY DEF TypeOK
<1> HIDE DEF r
<1>3. CASE r.dir
  <2>1. ASSUME NEW i \in 0 .. ExtSpace - 1, i < r.len
        PROVE  want_buf[(r.loc + i) % LocSpace] \in Data
    <3> DEFINE h == r.loc + i
    <3>1. h \in 0 .. LocSpace - 1 /\ h \in BufAddr
      BY <1>1, <1>3, <2>1, WindowAssumption, WidthAssumption DEF BufAddr
    <3> HIDE DEF h
    <3>2. h % LocSpace = h
      BY <3>1, ModSmall, WidthAssumption
    <3>3. want_buf[h % LocSpace] \in Data
      BY <1>2, <3>1, <3>2
    <3>4. QED
      BY <3>3 DEF h
  <2>2. ExtAddr \in SUBSET (0 .. ExtSpace - 1) /\ r.ext \in 0 .. ExtSpace - 1 /\ r.len \in Nat
    BY <1>1 DEF ExtAddr
  <2>3. Copied(want_buf, want_ext, r.loc, r.ext, r.len, LocSpace, ExtSpace) \in [ExtAddr -> Data]
    BY <1>2, <2>1, <2>2, CopyType, WidthAssumption
  <2>4. QED
    BY <1>2, <1>3, <2>3 DEF Promise, WritePromise, r
<1>4. CASE ~r.dir
  <2>1. ASSUME NEW i \in 0 .. LocSpace - 1, i < r.len
        PROVE  want_ext[(r.ext + i) % ExtSpace] \in Data
    <3> DEFINE h == r.ext + i
    <3>1. h \in Nat
      BY <1>1 DEF ExtAddr
    <3> HIDE DEF h
    <3>2. h % ExtSpace \in ExtAddr
      BY <3>1, ModRange, WidthAssumption DEF ExtAddr
    <3>3. want_ext[h % ExtSpace] \in Data
      BY <1>2, <3>2
    <3>4. QED
      BY <3>3 DEF h
  <2>2. BufAddr \in SUBSET (0 .. LocSpace - 1) /\ r.loc \in 0 .. LocSpace - 1 /\ r.len \in Nat
    BY <1>1, WindowAssumption, WidthAssumption DEF BufAddr
  <2>3. Copied(want_ext, want_buf, r.ext, r.loc, r.len, ExtSpace, LocSpace) \in [BufAddr -> Data]
    BY <1>2, <2>1, <2>2, CopyType, WidthAssumption
  <2>4. QED
    BY <1>2, <1>4, <2>3 DEF Promise, ReadPromise, r
<1>5. QED
  BY <1>3, <1>4

\* The host keeps its types, and a write of a buffer returns to where it began.
LEMMA HostInvStep ==
  ASSUME DmaInv, NEW bus \in BusCycle, NEW accept \in BOOLEAN, NEW answer \in BOOLEAN,
         NEW contended \in BOOLEAN, DeviceClk(bus, accept, answer, contended),
         HostStep(bus, contended)
  PROVE  HostInv'
<1>inv. HostInv /\ TypeOK
  BY DEF DmaInv, HostInv
<1>dev. RegBlockTypeOK' /\ DmaTypeOK' /\ pending' \in BOOLEAN /\ ResetTypeOK'
  BY <1>inv, DeviceTypes DEF TypeOK
<1>req. careful' = careful /\ HostReqs' = HostReqs
  <2>1. careful' = careful
    BY DEF HostStep, HostGoesOn, HostActs, Program, StartDma, PollDma, ClearIrq, Load,
           CallTransfer, BeginLoad, Settle, HostPause, CallReset, TimeOut, hostVars
  <2>2. QED
    BY <2>1 DEF HostReqs
<1>nat. MaxOps \in Nat /\ MaxResets \in Nat /\ ops \in Nat /\ resets \in Nat
  BY <1>inv, HostAssumption DEF TypeOK
<1>1. CASE Program(bus)
  BY <1>1, <1>inv, <1>dev, <1>req DEF Program, HostInv, TypeOK, wantVars
<1>2. CASE StartDma(bus)
  <2>1. want_buf' \in [BufAddr -> Data] /\ want_ext' \in [ExtAddr -> Data]
    BY <1>2, <1>inv, PromiseTypes DEF StartDma
  <2>2. QED
    BY <1>2, <2>1, <1>inv, <1>dev, <1>req DEF StartDma, HostInv, TypeOK
<1>3. CASE PollDma(bus)
  BY <1>3, <1>inv, <1>dev, <1>req DEF PollDma, HostInv, TypeOK, wantVars
<1>4. CASE ClearIrq(bus)
  BY <1>4, <1>inv, <1>dev, <1>req DEF ClearIrq, HostInv, TypeOK, wantVars
<1>5. CASE Load(bus, contended)
  <2>1. want_buf' \in [BufAddr -> Data]
    BY <1>5, <1>inv, HostAssumption DEF Load, HostInv, TypeOK
  <2>2. QED
    BY <1>5, <2>1, <1>inv, <1>dev, <1>req DEF Load, HostInv, TypeOK
<1>6. CASE CallTransfer
  <2>1. ops' \in 0 .. MaxOps + 1
    BY <1>6, <1>nat DEF CallTransfer, MoreOps
  <2>2. QED
    BY <1>6, <2>1, <1>inv, <1>dev, <1>req DEF CallTransfer, HostInv, TypeOK, wantVars
<1>7. CASE BeginLoad
  <2>1. ops' \in 0 .. MaxOps + 1
    BY <1>7, <1>nat DEF BeginLoad, MoreOps
  <2>2. PICK l \in Loads : host_load' = [addr |-> l[1], byte |-> l[2], then |-> host_pc]
    BY <1>7 DEF BeginLoad
  <2>3. /\ host_load' # Nothing /\ host_load'.then = host_pc
        /\ <<host_load'.addr, host_load'.byte>> \in Loads
    <3>1. l = <<l[1], l[2]>>
      BY HostAssumption
    <3>2. host_load' # Nothing
      <4>1. host_load'.then = host_pc /\ host_pc \in {"idle", "poll"}
        BY <1>7, <2>2 DEF BeginLoad
      <4>2. DOMAIN host_load' = {"addr", "byte", "then"} /\ DOMAIN Nothing = {}
        BY <2>2 DEF Nothing
      <4>3. QED
        BY <4>2
    <3>3. QED
      BY <2>2, <3>1, <3>2
  <2>4. host_pc \in {"idle", "poll"} /\ (careful => host_pc = "idle")
    BY <1>7 DEF BeginLoad
  <2>5. QED
    BY <1>7, <2>1, <2>3, <2>4, <1>inv, <1>dev, <1>req DEF BeginLoad, HostInv, TypeOK, wantVars
<1>8. CASE Settle
  BY <1>8, <1>inv, <1>dev, <1>req DEF Settle, HostInv, TypeOK, DmaTypeOK
<1>9. CASE HostPause
  BY <1>9, <1>inv, <1>dev, <1>req DEF HostPause, hostVars, wantVars, HostInv, TypeOK
<1>10. CASE CallReset(bus)
  <2>1. resets' \in 0 .. MaxResets
    BY <1>10, <1>nat DEF CallReset
  <2>2. QED
    BY <1>10, <2>1, <1>inv, <1>dev, <1>req DEF CallReset, HostInv, TypeOK, wantVars
<1>11. CASE TimeOut
  BY <1>11, <1>inv, <1>dev, <1>req DEF TimeOut, HostInv, TypeOK, wantVars
<1>12. QED
  BY <1>1, <1>2, <1>3, <1>4, <1>5, <1>6, <1>7, <1>8, <1>9, <1>10, <1>11
    DEF HostStep, HostGoesOn, HostActs

\* A reset is only seen by a host that waits for it.
LEMMA ResetInvStep ==
  ASSUME DmaInv, NEW bus \in BusCycle, NEW accept \in BOOLEAN, NEW answer \in BOOLEAN,
         NEW contended \in BOOLEAN, DeviceClk(bus, accept, answer, contended),
         HostStep(bus, contended)
  PROVE  ResetInv'
<1>inv. ResetInv
  BY DEF DmaInv
<1>1. CASE host_pc # "settle"
  <2>1. /\ sync_chain' = STAGES /\ ~soft_reset_sync1' /\ ~soft_reset_sync2'
        /\ RegBlockClk(bus, FALSE, 0)
    BY <1>1, <1>inv, RunningEdge
  <2>2. CASE CallReset(bus)
    <3>1. soft_reset' /\ host_pc' = "settle"
      BY <2>1, <2>2 DEF CallReset, WriteCtrl, RegBlockClk, ControlRegsClk, soft_reset
    <3>2. QED
      BY <2>1, <3>1 DEF ResetInv
  <2>3. CASE ~CallReset(bus)
    <3>1. host_pc' # "settle"
      BY <1>1, <2>3, HostInvStep DEF DmaInv, HostInv, TypeOK, HostStep, HostGoesOn, HostActs,
         Program, StartDma, PollDma, ClearIrq, Load, CallTransfer, BeginLoad, Settle,
         HostPause, TimeOut, hostVars
    <3>2. bus.reg # "CTRL"
      BY <1>1, <2>3 DEF HostStep, HostGoesOn, HostActs, Program, StartDma, PollDma, ClearIrq,
         Load, Settle, NoWrite, WriteIrqClear, WriteDma, WriteDmaCtrl, WriteBuf
    <3>3. ~soft_reset'
      BY <1>1, <1>inv, <2>1, <3>2 DEF ResetInv, RegBlockClk, ControlRegsClk, soft_reset
    <3>4. QED
      BY <2>1, <3>1, <3>3 DEF ResetInv
  <2>4. QED
    BY <2>2, <2>3
<1>2. CASE host_pc = "settle"
  <2>1. bus = NoWrite /\ host_pc' \in {"settle", "idle"}
    BY <1>2 DEF HostStep, HostGoesOn, HostActs, Program, StartDma, PollDma, ClearIrq, Load,
       CallTransfer, BeginLoad, Settle, HostPause, CallReset, TimeOut, hostVars
  <2>2. host_pc' = "idle" => ~soft_reset /\ ~soft_reset_sync1 /\ ~soft_reset_sync2
    BY <1>2 DEF HostStep, HostGoesOn, HostActs, Program, StartDma, PollDma, ClearIrq, Load,
       CallTransfer, BeginLoad, Settle, HostPause, CallReset, TimeOut, hostVars, rst_n
  <2>3. /\ sync_chain' = STAGES
        /\ soft_reset_sync1' <=> soft_reset
        /\ soft_reset_sync2' <=> soft_reset_sync1
    <3>1. sync_chain' = STAGES
      BY <1>inv, StagesAssumption DEF ResetInv, DeviceClk, ResetClk, ChainClk
    <3>2. QED
      BY <1>inv, <3>1 DEF ResetInv, DeviceClk, ResetClk, SoftClk, hard_rst_n, soft_reset
  <2>4. InReset <=> soft_reset_sync2 \/ soft_reset_sync1
    BY <1>inv, <2>3 DEF ResetInv, InReset, rst_n, hard_rst_n
  <2>5. CASE InReset
    <3>1. Flushed' /\ ~soft_reset'
      <4>1. /\ RegBlockReset(bus) /\ DmaReset(bus, accept, contended) /\ IrqReset
        BY <2>5 DEF DeviceClk
      <4>2. rd' = IdleEngine /\ wr' = IdleEngine /\ buf_rsp' = Nothing /\ ext_rsp' = Nothing
        BY <4>1 DEF DmaReset
      <4>3. ~dma_start_r' /\ ~pending' /\ ~soft_reset'
        BY <4>1 DEF RegBlockReset, ControlRegsReset, IrqReset, soft_reset
      <4>4. QED
        BY <4>2, <4>3 DEF Flushed, IdleEngine, Nothing
    <3>2. host_pc' = "settle"
      BY <2>1, <2>2, <2>4, <2>5
    <3>3. soft_reset_sync1' => soft_reset_sync2'
      BY <1>2, <1>inv, <2>3, <2>4, <2>5 DEF ResetInv
    <3>4. QED
      BY <2>3, <3>1, <3>2, <3>3 DEF ResetInv
  <2>6. CASE ~InReset
    <3>1. /\ RegBlockClk(bus, FALSE, 0) /\ DmaClk(bus, accept, answer, contended)
          /\ IrqClk(dma_done, FALSE, irq_clear_r)
      BY <2>6 DEF DeviceClk
    <3>2. soft_reset' = soft_reset /\ ~dma_start_r'
      BY <2>1, <3>1 DEF RegBlockClk, ControlRegsClk, DmaRegsClk, NoWrite, soft_reset
    <3>3. CASE soft_reset
      <4>1. soft_reset' /\ ~soft_reset_sync2' /\ host_pc' = "settle"
        BY <2>1, <2>2, <2>3, <2>4, <2>6, <3>2, <3>3
      <4>2. QED
        BY <2>3, <4>1 DEF ResetInv
    <3>4. CASE ~soft_reset
      <4>1. Flushed /\ ~soft_reset_sync1 /\ ~soft_reset_sync2
        BY <1>2, <1>inv, <2>4, <2>6, <3>4 DEF ResetInv
      <4>2. AtRest
        BY <4>1 DEF Flushed, AtRest, IdleEngine
      <4>3. rd' = rd /\ wr' = wr
        BY <3>1, <4>2, RestEdge
      <4>4. ~dma_done /\ ~ExtPort.req /\ ~BufPort(bus).req
        BY <2>1, <4>2 DEF AtRest, dma_done, ExtPort, BufPort, HostBufPort, NoWrite,
                          dma_busy, rd_busy, wr_busy
      <4>5. buf_rsp' = Nothing /\ ext_rsp' = Nothing
        BY <3>1, <4>1, <4>4 DEF Flushed, DmaClk, BufferClk, ExtMemClk, buf_gnt, ext_mem_gnt
      <4>6. ~pending'
        BY <3>1, <4>1, <4>4 DEF Flushed, IrqClk
      <4>7. Flushed'
        BY <3>2, <4>1, <4>3, <4>5, <4>6 DEF Flushed, IdleEngine
      <4>8. QED
        BY <2>1, <2>3, <3>2, <3>4, <4>1, <4>7 DEF ResetInv
    <3>5. QED
      BY <3>3, <3>4
  <2>7. QED
    BY <2>5, <2>6
<1>3. QED
  BY <1>1, <1>2

\* The registers hold what the host wrote: its arguments fit them.
LEMMA RegInvStep ==
  ASSUME DmaInv, NEW bus \in BusCycle, NEW accept \in BOOLEAN, NEW answer \in BOOLEAN,
         NEW contended \in BOOLEAN, DeviceClk(bus, accept, answer, contended),
         HostStep(bus, contended)
  PROVE  RegInv'
<1>inv. ResetInv /\ RegInv /\ HostInv /\ TypeOK
  BY DEF DmaInv, HostInv
<1>1. CASE host_pc = "settle"
  <2>1. bus = NoWrite /\ host_pc' \in {"settle", "idle"}
    BY <1>1 DEF HostStep, HostGoesOn, HostActs, Program, StartDma, PollDma, ClearIrq, Load,
       CallTransfer, BeginLoad, Settle, HostPause, CallReset, TimeOut, hostVars
  <2>2. ~dma_start_r'
    BY <2>1 DEF DeviceClk, RegBlockReset, RegBlockClk, DmaRegsClk, NoWrite
  <2>3. QED
    BY <2>1, <2>2 DEF RegInv
<1>2. CASE host_pc # "settle"
  <2>clk. DmaRegsClk(bus)
    BY <1>2, <1>inv, RunningEdge DEF RegBlockClk
  <2>1. CASE Program(bus)
    <3>1. /\ host_req.ext \in 0 .. ExtSpace - 1
          /\ host_req.loc \in 0 .. LocSpace - 1 /\ host_req.len \in 0 .. LenSpace - 1
      BY <1>inv, HostAssumption, WidthAssumption DEF TypeOK, HostReqs, ExtAddr
    <3>2. /\ host_req.ext % ExtSpace = host_req.ext
          /\ host_req.loc % LocSpace = host_req.loc
          /\ host_req.len % LenSpace = host_req.len
      BY <3>1, ModSmall, WidthAssumption
    <3>3. host_req' = host_req /\ ~dma_start_r'
      <4>1. bus.reg # "DMA_CTRL" /\ host_req' = host_req
        BY <2>1 DEF Program, WriteDma
      <4>2. QED
        BY <4>1, <2>clk DEF DmaRegsClk
    <3>4. CASE host_pc = "ext" /\ host_pc' = "loc" /\ bus = WriteDma("DMA_EXT_ADDR", host_req.ext)
      BY <3>2, <3>3, <3>4, <2>clk DEF DmaRegsClk, WriteDma, RegInv
    <3>5. CASE host_pc = "loc" /\ host_pc' = "len" /\ bus = WriteDma("DMA_LOC_ADDR", host_req.loc)
      BY <1>inv, <3>2, <3>3, <3>5, <2>clk DEF DmaRegsClk, WriteDma, RegInv
    <3>6. CASE host_pc = "len" /\ host_pc' = "ctrl" /\ bus = WriteDma("DMA_LEN", host_req.len)
      BY <1>inv, <3>2, <3>3, <3>6, <2>clk DEF DmaRegsClk, WriteDma, RegInv
    <3>7. QED
      BY <2>1, <3>4, <3>5, <3>6 DEF Program
  <2>2. CASE StartDma(bus)
    BY <2>2, <2>clk, <1>inv DEF StartDma, DmaRegsClk, WriteDmaCtrl, RegInv
  <2>3. CASE PollDma(bus)
    BY <2>3, <2>clk DEF PollDma, DmaRegsClk, NoWrite, RegInv
  <2>4. CASE ClearIrq(bus)
    BY <2>4, <2>clk DEF ClearIrq, DmaRegsClk, WriteIrqClear, RegInv
  <2>5. CASE Load(bus, contended)
    <3>1. ~dma_start_r' /\ host_pc' \in {"load", "idle", "poll"}
      BY <2>5, <2>clk, <1>inv DEF Load, DmaRegsClk, WriteBuf, HostInv, TypeOK
    <3>2. QED
      BY <3>1 DEF RegInv
  <2>6. CASE bus = NoWrite /\ (CallTransfer \/ BeginLoad \/ Settle \/ TimeOut)
    BY <2>6, <2>clk DEF CallTransfer, BeginLoad, Settle, TimeOut, DmaRegsClk, NoWrite, RegInv
  <2>7. CASE bus = NoWrite /\ HostPause
    BY <2>7, <2>clk, <1>inv DEF HostPause, hostVars, DmaRegsClk, NoWrite, RegInv
  <2>8. CASE CallReset(bus)
    BY <2>8, <2>clk DEF CallReset, DmaRegsClk, WriteCtrl, RegInv
  <2>9. QED
    BY <2>1, <2>2, <2>3, <2>4, <2>5, <2>6, <2>7, <2>8 DEF HostStep, HostGoesOn, HostActs
<1>3. QED
  BY <1>1, <1>2

\* A careful host's call goes through its phases, and only a host that has
\* seen the end of one begins another.
LEMMA CallInvStep ==
  ASSUME DmaInv, NEW bus \in BusCycle, NEW accept \in BOOLEAN, NEW answer \in BOOLEAN,
         NEW contended \in BOOLEAN, DeviceClk(bus, accept, answer, contended),
         HostStep(bus, contended)
  PROVE  CallInv'
<1>inv. ResetInv /\ RegInv /\ HostInv /\ TypeOK /\ CallInv
  BY DEF DmaInv, HostInv
<1>typ. RegBlockTypeOK /\ DmaTypeOK /\ DmaTypeOK' /\ host_req \in HostReqs
  BY <1>inv, HostInvStep DEF HostInv, TypeOK
<1> SUFFICES ASSUME careful' PROVE CallInv'
  BY DEF CallInv
<1>car. careful
  BY DEF HostStep, HostGoesOn, HostActs, Program, StartDma, PollDma, ClearIrq, Load,
         CallTransfer, BeginLoad, Settle, HostPause, CallReset, TimeOut, hostVars
<1>1. CASE host_pc = "settle"
  <2>1. CASE Settle /\ bus = NoWrite
    <3>1. /\ Flushed /\ ~soft_reset_sync1 /\ ~soft_reset_sync2 /\ ~soft_reset
      BY <2>1, <1>inv DEF Settle, ResetInv, rst_n
    <3>2. AtRest
      BY <3>1 DEF Flushed, AtRest, IdleEngine
    <3>3. sync_chain' = STAGES /\ ~soft_reset_sync1' /\ ~soft_reset_sync2'
      <4>1. sync_chain' = STAGES
        BY <1>inv, StagesAssumption DEF ResetInv, DeviceClk, ResetClk, ChainClk
      <4>2. QED
        BY <1>inv, <3>1, <4>1 DEF ResetInv, DeviceClk, ResetClk, SoftClk, hard_rst_n
    <3>4. ~InReset
      BY <1>inv, <3>1, <3>3 DEF ResetInv, InReset, rst_n, hard_rst_n
    <3>5. /\ RegBlockClk(bus, FALSE, 0) /\ DmaClk(bus, accept, answer, contended)
          /\ IrqClk(dma_done, FALSE, irq_clear_r)
      BY <3>4 DEF DeviceClk
    <3>6. rd' = rd /\ wr' = wr /\ ext_mem' = ext_mem /\ buf' = buf
      BY <2>1, <3>2, <3>5, RestEdge DEF NoWrite
    <3>7. ~dma_start_r'
      BY <2>1, <3>5 DEF RegBlockClk, DmaRegsClk, NoWrite
    <3>8. ~pending'
      BY <3>1, <3>2, <3>5 DEF IrqClk, Flushed, dma_done, AtRest
    <3>9. QED
      BY <2>1, <3>2, <3>6, <3>7, <3>8 DEF Settle, CallInv, AtRest, AsWanted
  <2>2. CASE host_pc' = "settle"
    BY <2>2 DEF CallInv
  <2>3. QED
    BY <1>1, <2>1, <2>2 DEF HostStep, HostGoesOn, HostActs, Program, StartDma, PollDma,
       ClearIrq, Load, CallTransfer, BeginLoad, HostPause, CallReset, TimeOut, hostVars
<1>2. CASE host_pc # "settle"
  <2>clk. /\ RegBlockClk(bus, FALSE, 0) /\ DmaClk(bus, accept, answer, contended)
          /\ IrqClk(dma_done, FALSE, irq_clear_r)
    BY <1>2, <1>inv, RunningEdge
  <2>reg. /\ dma_start_r' <=> bus.reg = "DMA_CTRL" /\ bus.start
          /\ irq_clear_r' <=> bus.reg = "IRQ_CLEAR"
    BY <2>clk DEF RegBlockClk, DmaRegsClk, ControlRegsClk
  <2>1. CASE host_pc \in {"idle", "load", "ext", "loc", "len", "ctrl"}
    <3>1. AtRest /\ AsWanted /\ (pending => irq_clear_r)
      BY <2>1, <1>inv, <1>car DEF CallInv
    <3>2. /\ rd' = rd /\ wr' = wr /\ ext_mem' = ext_mem
          /\ buf' = IF bus.reg = "BUF" /\ mmio_ready(bus, contended)
                    THEN [buf EXCEPT ![bus.addr] = bus.data]
                    ELSE buf
      BY <3>1, <2>clk, RestEdge
    <3>3. ~pending'
      BY <3>1, <2>clk DEF IrqClk, dma_done, AtRest
    <3>4. CASE Program(bus)
      <4>1. /\ ~dma_start_r' /\ bus.reg # "BUF" /\ host_pc' \in {"loc", "len", "ctrl"}
            /\ UNCHANGED wantVars
        BY <3>4, <2>reg DEF Program, WriteDma, wantVars
      <4>2. QED
        BY <3>1, <3>2, <3>3, <4>1 DEF CallInv, AtRest, AsWanted, wantVars
    <3>5. CASE StartDma(bus)
      <4>1. dma_start_r' /\ bus.reg # "BUF" /\ host_pc' = "poll" /\ host_pc = "ctrl"
        BY <3>5, <2>reg DEF StartDma, WriteDmaCtrl
      <4>2. buf' = buf /\ ext_mem' = ext_mem
        BY <3>2, <4>1
      <4>3. /\ dma_ext_addr_r' = host_req.ext /\ dma_loc_addr_r' = host_req.loc
            /\ dma_len_r' = host_req.len /\ dma_dir_r' = host_req.dir
        BY <3>5, <4>1, <1>inv, <2>clk DEF StartDma, WriteDmaCtrl, RegInv, RegBlockClk, DmaRegsClk
      <4>4. Promise(host_req) /\ want_buf = buf /\ want_ext = ext_mem
        BY <3>5, <3>1 DEF StartDma, AsWanted
      <4>5. CASE host_req.dir
        <5>1. want_ext' = Copied(buf, ext_mem, host_req.loc, host_req.ext, host_req.len,
                                 LocSpace, ExtSpace)
              /\ want_buf' = buf
          BY <4>4, <4>5 DEF Promise, WritePromise
        <5>2. Starting'
          BY <3>1, <3>2, <4>1, <4>2, <4>3, <4>5, <5>1 DEF Starting, AtRest
        <5>3. QED
          BY <4>1, <5>2 DEF CallInv
      <4>6. CASE ~host_req.dir
        <5>1. want_buf' = Copied(ext_mem, buf, host_req.ext, host_req.loc, host_req.len,
                                 ExtSpace, LocSpace)
              /\ want_ext' = ext_mem
          BY <4>4, <4>6 DEF Promise, ReadPromise
        <5>2. Starting'
          BY <3>1, <3>2, <4>1, <4>2, <4>3, <4>6, <5>1 DEF Starting, AtRest
        <5>3. QED
          BY <4>1, <5>2 DEF CallInv
      <4>7. QED
        BY <4>5, <4>6
    <3>6. CASE Load(bus, contended)
      <4>1. /\ ~dma_start_r' /\ host_pc = "load" /\ want_ext' = want_ext
            /\ bus.reg = "BUF" /\ bus.addr = host_load.addr /\ bus.data = host_load.byte
        BY <3>6, <2>reg DEF Load, WriteBuf
      <4>2. buf' = want_buf'
        BY <3>6, <3>1, <3>2, <4>1 DEF Load, AsWanted
      <4>3. host_pc' \in {"idle", "load"}
        BY <3>6, <4>1, <1>inv, <1>car DEF Load, HostInv
      <4>4. QED
        BY <3>1, <3>2, <3>3, <4>1, <4>2, <4>3 DEF CallInv, AtRest, AsWanted
    <3>7. CASE bus = NoWrite /\ (CallTransfer \/ BeginLoad \/ HostPause)
      <4>1. /\ ~dma_start_r' /\ bus.reg # "BUF" /\ UNCHANGED wantVars
            /\ host_pc' \in {"idle", "load", "ext", "loc", "len", "ctrl"}
        BY <3>7, <2>1, <2>reg DEF CallTransfer, BeginLoad, HostPause, NoWrite, wantVars, hostVars
      <4>2. QED
        BY <3>1, <3>2, <3>3, <4>1 DEF CallInv, AtRest, AsWanted, wantVars
    <3>8. QED
      BY <2>1, <3>4, <3>5, <3>6, <3>7 DEF HostStep, HostGoesOn, HostActs, PollDma, ClearIrq,
         Settle, CallReset, TimeOut
  <2>2. CASE host_pc = "poll"
    <3>1. CASE CallReset(bus)
      BY <3>1 DEF CallReset, CallInv
    <3>2. CASE PollDma(bus) \/ (bus = NoWrite /\ HostPause)
      <4>1. /\ bus.reg # "BUF" /\ ~dma_start_r' /\ UNCHANGED wantVars
            /\ host_pc' = "poll" \/ (host_pc' = "clear" /\ ~dma_busy')
        <5>1. bus = NoWrite /\ UNCHANGED wantVars
          BY <3>2 DEF PollDma, HostPause, wantVars
        <5>2. bus.reg # "BUF" /\ ~dma_start_r'
          BY <5>1, <2>reg DEF NoWrite
        <5>3. host_pc' = "poll" \/ (host_pc' = "clear" /\ ~dma_busy')
          BY <3>2, <2>2 DEF PollDma, HostPause, hostVars
        <5>4. QED
          BY <5>1, <5>2, <5>3
      <4>2. CASE Starting
        <5>1. dma_len_r >= 1
          BY <4>2, <1>inv, <1>typ, HostAssumption, WidthAssumption DEF Starting, RegInv, HostReqs
        <5>2. Reading' \/ Writing'
          BY <4>1, <4>2, <5>1, <2>clk, <1>typ, StartEdge
        <5>3. QED
          BY <4>1, <5>2 DEF CallInv, Reading, Writing, dma_busy
      <4>3. CASE Reading
        <5>1. Reading' \/ (Over' /\ AsWanted')
          BY <4>1, <4>3, <2>clk, <1>typ, ReadEdge
        <5>2. QED
          BY <4>1, <5>1 DEF CallInv, Reading, dma_busy
      <4>4. CASE Writing
        <5>1. Writing' \/ (Over' /\ AsWanted')
          BY <4>1, <4>4, <2>clk, <1>typ, WriteEdge
        <5>2. QED
          BY <4>1, <5>1 DEF CallInv, Writing, dma_busy
      <4>5. CASE Over /\ AsWanted
        <5>1. /\ rd'.state = "S_IDLE" /\ wr'.state = "S_IDLE"
              /\ buf' = buf /\ ext_mem' = ext_mem
          BY <4>1, <4>5, <2>clk, <1>typ, OverEdge
        <5>2. QED
          BY <4>1, <4>5, <5>1 DEF CallInv, Over, AsWanted, wantVars
      <4>6. QED
        BY <2>2, <1>inv, <1>car, <4>2, <4>3, <4>4, <4>5 DEF CallInv
    <3>3. QED
      BY <2>2, <1>car, <3>1, <3>2 DEF HostStep, HostGoesOn, HostActs, Program, StartDma,
         ClearIrq, Load, CallTransfer, BeginLoad, Settle, TimeOut
  <2>3. CASE host_pc = "clear"
    <3>1. Over /\ AsWanted
      BY <2>3, <1>inv, <1>car DEF CallInv
    <3>2. /\ bus.reg # "BUF" /\ ~dma_start_r' /\ UNCHANGED wantVars
          /\ host_pc' = "clear" \/ (host_pc' = "idle" /\ irq_clear_r')
      <4>1. ClearIrq(bus) \/ (bus = NoWrite /\ HostPause)
        BY <2>3 DEF HostStep, HostGoesOn, HostActs, Program, StartDma, PollDma, Load,
           CallTransfer, BeginLoad, Settle, CallReset, TimeOut
      <4>2. CASE ClearIrq(bus)
        <5>1. bus.reg = "IRQ_CLEAR"
          BY <4>2 DEF ClearIrq, WriteIrqClear
        <5>2. host_pc' = "idle" /\ UNCHANGED wantVars
          BY <4>2 DEF ClearIrq, wantVars
        <5>3. QED
          BY <2>reg, <5>1, <5>2
      <4>3. CASE bus = NoWrite /\ HostPause
        <5>1. bus.reg = "NONE"
          BY <4>3 DEF NoWrite
        <5>2. host_pc' = "clear" /\ UNCHANGED wantVars
          BY <2>3, <4>3 DEF HostPause, hostVars, wantVars
        <5>3. QED
          BY <2>reg, <5>1, <5>2
      <4>4. QED
        BY <4>1, <4>2, <4>3
    <3>3. /\ rd'.state = "S_IDLE" /\ wr'.state = "S_IDLE"
          /\ buf' = buf /\ ext_mem' = ext_mem
      BY <3>1, <3>2, <2>clk, <1>typ, OverEdge
    <3>4. QED
      BY <3>1, <3>2, <3>3 DEF CallInv, AtRest, Over, AsWanted, wantVars
  <2>4. QED
    BY <1>2, <1>inv, <2>1, <2>2, <2>3 DEF TypeOK
<1>3. QED
  BY <1>1, <1>2

\* The invariant holds in every reachable state.
THEOREM DmaInvHolds == Spec => []DmaInv
<1>1. Init => DmaInv
  BY DmaInvInit
<1>2. ASSUME DmaInv, [Next]_vars PROVE DmaInv'
  <2>1. CASE Next
    <3>1. PICK accept \in BOOLEAN, answer \in BOOLEAN, contended \in BOOLEAN, bus \in BusCycle :
             DeviceClk(bus, accept, answer, contended) /\ HostStep(bus, contended)
      BY <2>1 DEF Next, Step
    <3>2. HostInv' /\ ResetInv' /\ RegInv' /\ CallInv'
      BY <1>2, <3>1, HostInvStep, ResetInvStep, RegInvStep, CallInvStep
    <3>3. QED
      BY <3>2 DEF DmaInv
  <2>2. CASE UNCHANGED vars
    <3>1. /\ UNCHANGED <<ctrl_reg, irq_en_reg, doorbell_r, irq_clear_r, cmd_mem,
                         fetch_rvalid_r, fetch_rdata_r>>
          /\ UNCHANGED dmaRegVars /\ UNCHANGED dmaVars /\ UNCHANGED pending
          /\ UNCHANGED resetVars /\ UNCHANGED hostVars /\ UNCHANGED wantVars
      BY <2>2 DEF vars, regVars
    <3>2. RegBlockTypeOK' = RegBlockTypeOK /\ DmaTypeOK' = DmaTypeOK /\ ResetTypeOK' = ResetTypeOK
      BY <3>1 DEF RegBlockTypeOK, DmaTypeOK, ResetTypeOK, dmaRegVars, dmaVars, resetVars
    <3>3. HostInv'
      BY <1>2, <3>1, <3>2 DEF DmaInv, HostInv, TypeOK, HostReqs, hostVars, wantVars
    <3>4. ResetInv'
      BY <1>2, <3>1 DEF DmaInv, ResetInv, Flushed, soft_reset, dmaRegVars, dmaVars, resetVars, hostVars
    <3>5. RegInv'
      BY <1>2, <3>1 DEF DmaInv, RegInv, dmaRegVars, hostVars
    <3>6. CallInv'
      <4>1. /\ AtRest' = AtRest /\ Over' = Over /\ AsWanted' = AsWanted /\ Starting' = Starting
            /\ Reading' = Reading /\ Writing' = Writing
        BY <3>1 DEF AtRest, Over, AsWanted, Starting, Reading, Writing, rd_busy, wr_busy,
                    dmaRegVars, dmaVars, wantVars
      <4>2. QED
        BY <1>2, <3>1, <4>1 DEF DmaInv, CallInv, hostVars
    <3>7. QED
      BY <3>3, <3>4, <3>5, <3>6 DEF DmaInv
  <2>3. QED
    BY <1>2, <2>1, <2>2
<1>3. QED
  BY <1>1, <1>2, PTL DEF Spec

-----------------------------------------------------------------------------
\* Every variable keeps its type: no engine leaves its address spaces or the
\* width of its count, and no answer is anything but a byte.
THEOREM TypesHold == Spec => []TypeOK
<1>1. DmaInv => TypeOK
  BY DEF DmaInv, HostInv
<1>2. QED
  BY <1>1, DmaInvHolds, PTL

\* lgnpu_dma_transfer does what it promises: whenever a careful host has seen
\* DMA_STATUS.BUSY low, both memories are what the calls so far asked for.
THEOREM TransferIsCorrect == Spec => []TransferCorrect
<1>1. DmaInv => TransferCorrect
  BY DEF DmaInv, CallInv, TransferCorrect, AsWanted
<1>2. QED
  BY <1>1, DmaInvHolds, PTL

\* The IRQ_CLEAR at the end of lgnpu_dma_transfer comes after the pulse it is
\* meant for: no call begins with an interrupt left over from another.
THEOREM InterruptIsFresh == Spec => []NoStaleInterrupt
<1>1. DmaInv => NoStaleInterrupt
  BY DEF DmaInv, CallInv, NoStaleInterrupt
<1>2. QED
  BY <1>1, DmaInvHolds, PTL

-----------------------------------------------------------------------------
(***************************************************************************)
(* Careless hosts that only load.  Both engines at once would mix up each  *)
(* other's answers, so what follows is about hosts that never start the    *)
(* writer under a running reader.                                          *)
(***************************************************************************)
CarelessOnlyLoad == \A r \in CarelessReqs : ~r.dir

\* One engine at a time, and every answer has its waiter.
AnswerInv ==
    /\ rd.state = "S_IDLE" \/ wr.state = "S_IDLE"
    /\ ~careful => wr.state = "S_IDLE"
    /\ AnswersMatchWaiters

\* An engine is started only when the other is idle, and a careless host never
\* starts the writer.
LEMMA StartsAlone ==
  ASSUME DmaInv, AnswerInv, CarelessOnlyLoad, dma_start_r
  PROVE  /\ dma_dir_r => careful /\ rd.state = "S_IDLE"
         /\ ~dma_dir_r => wr.state = "S_IDLE"
<1>1. CASE careful
  <2>1. host_pc = "poll"
    BY DEF DmaInv, RegInv
  <2>2. Starting
    BY <1>1, <2>1 DEF DmaInv, CallInv, Reading, Writing, Over
  <2>3. QED
    BY <1>1, <2>2 DEF Starting
<1>2. CASE ~careful
  <2>1. host_req \in CarelessReqs
    BY <1>2 DEF DmaInv, HostInv, TypeOK, HostReqs
  <2>2. ~dma_dir_r
    BY <2>1 DEF CarelessOnlyLoad, DmaInv, RegInv
  <2>3. QED
    BY <1>2, <2>2 DEF AnswerInv
<1>3. QED
  BY <1>1, <1>2

\* An edge out of reset keeps one engine at a time and answers its reads.
LEMMA AnswerEdge ==
  ASSUME DmaInv, AnswerInv, CarelessOnlyLoad, careful' = careful, NEW bus, NEW accept,
         NEW answer, NEW contended, DmaClk(bus, accept, answer, contended)
  PROVE  AnswerInv'
<1> DEFINE ext_gnt == ext_mem_gnt(accept)
           rvalid == ext_mem_rvalid(answer)
           loc_gnt == buf_gnt(bus, contended)
<1>clk. /\ ReaderClk(ext_gnt, rvalid, loc_gnt) /\ WriterClk(ext_gnt, loc_gnt)
        /\ BufferClk(BufPort(bus), loc_gnt) /\ ExtMemClk(ExtPort, ext_gnt, rvalid)
  BY DEF DmaClk
<1>typ. DmaTypeOK
  BY DEF DmaInv, HostInv, TypeOK
<1>old. /\ rd \in EngineType({"S_IDLE", "S_EXT_RD", "S_EXT_WAIT", "S_LOC_WR", "S_DONE"})
        /\ wr \in EngineType({"S_IDLE", "S_LOC_RD", "S_LOC_WAIT", "S_EXT_WR", "S_DONE"})
  BY <1>typ DEF DmaTypeOK
<1>rd. /\ rd.state = "S_IDLE" /\ ~rd_start => rd'.state = "S_IDLE"
       /\ rd'.state = "S_EXT_WAIT" <=> \/ rd.state = "S_EXT_RD" /\ ext_gnt
                                       \/ rd.state = "S_EXT_WAIT" /\ ~rvalid
  <2>1. CASE ReaderStart
    BY <2>1 DEF ReaderStart, Started
  <2>2. CASE ReaderRequest(ext_gnt)
    BY <2>2, <1>old DEF ReaderRequest, EngineType
  <2>3. CASE ReaderData(rvalid)
    BY <2>3, <1>old DEF ReaderData, EngineType
  <2>4. CASE ReaderStore(loc_gnt)
    <3>1. rd.state = "S_LOC_WR" /\ rd'.state \in {"S_DONE", "S_EXT_RD"}
      BY <2>4, <1>old, ByteDoneFields DEF ReaderStore
    <3>2. QED
      BY <3>1
  <2>5. CASE ReaderDone
    BY <2>5, <1>old DEF ReaderDone, EngineType
  <2>6. CASE ReaderHold(ext_gnt, rvalid, loc_gnt)
    BY <2>6 DEF ReaderHold
  <2>7. QED
    BY <1>clk, <2>1, <2>2, <2>3, <2>4, <2>5, <2>6 DEF ReaderClk
<1>wr. /\ wr.state = "S_IDLE" /\ ~wr_start => wr'.state = "S_IDLE"
       /\ wr'.state = "S_LOC_WAIT" <=> wr.state = "S_LOC_RD" /\ loc_gnt
  <2>1. CASE WriterStart
    BY <2>1 DEF WriterStart, Started
  <2>2. CASE WriterRequest(loc_gnt)
    BY <2>2, <1>old DEF WriterRequest, EngineType
  <2>3. CASE WriterData
    BY <2>3, <1>old DEF WriterData, EngineType
  <2>4. CASE WriterStore(ext_gnt)
    <3>1. wr.state = "S_EXT_WR" /\ wr'.state \in {"S_DONE", "S_LOC_RD"}
      BY <2>4, <1>old, ByteDoneFields DEF WriterStore
    <3>2. QED
      BY <3>1
  <2>5. CASE WriterDone
    BY <2>5, <1>old DEF WriterDone, EngineType
  <2>6. CASE WriterHold(ext_gnt, loc_gnt)
    <3>1. wr' = wr /\ (wr.state = "S_LOC_WAIT" => buf_rsp = Nothing)
      BY <2>6 DEF WriterHold
    <3>2. wr.state # "S_LOC_WAIT"
      BY <3>1 DEF AnswerInv, AnswersMatchWaiters
    <3>3. QED
      BY <2>6, <3>1, <3>2 DEF WriterHold
  <2>7. QED
    BY <1>clk, <2>1, <2>2, <2>3, <2>4, <2>5, <2>6 DEF WriterClk
<1>1. /\ rd'.state = "S_IDLE" \/ wr'.state = "S_IDLE"
      /\ ~careful => wr'.state = "S_IDLE"
  BY <1>rd, <1>wr, StartsAlone DEF AnswerInv, rd_start, wr_start
<1>2. (buf_rsp' # Nothing) <=> (wr'.state = "S_LOC_WAIT")
  <2>1. loc_gnt /\ ~BufPort(bus).wr <=> wr.state = "S_LOC_RD" /\ loc_gnt
    <3>1. CASE dma_busy
      BY <3>1 DEF AnswerInv, BufPort, DmaBufPort, buf_gnt
    <3>2. CASE ~dma_busy
      BY <3>2 DEF BufPort, HostBufPort, buf_gnt, dma_busy, wr_busy
    <3>3. QED
      BY <3>1, <3>2
  <2>2. buf_rsp' # Nothing <=> loc_gnt /\ ~BufPort(bus).wr
    BY <1>clk, SomethingIsNotNothing DEF BufferClk
  <2>3. QED
    BY <1>wr, <2>1, <2>2
<1>3. (ext_rsp' # Nothing) <=> (rd'.state = "S_EXT_WAIT")
  <2>1. ext_gnt /\ ~ExtPort.wr <=> rd.state = "S_EXT_RD" /\ ext_gnt
    BY DEF AnswerInv, ExtPort, ext_mem_gnt, rd_busy
  <2>2. ext_rsp' # Nothing <=> \/ ext_gnt /\ ~ExtPort.wr
                               \/ ext_rsp # Nothing /\ ~rvalid
    BY <1>clk, SomethingIsNotNothing DEF ExtMemClk, ext_mem_rvalid
  <2>3. (ext_rsp # Nothing) <=> (rd.state = "S_EXT_WAIT")
    BY DEF AnswerInv, AnswersMatchWaiters
  <2>4. QED
    BY <1>rd, <2>1, <2>2, <2>3
<1>4. QED
  BY <1>1, <1>2, <1>3 DEF AnswerInv, AnswersMatchWaiters

\* Where a byte of a buffer may come from.
Asked(a, byte) ==
    \/ byte = Buf0[a]
    \/ <<a, byte>> \in Loads
    \/ \E r \in CarelessReqs : \E i \in 0 .. r.len - 1 :
            r.loc + i = a /\ byte = Ext0[(r.ext + i) % ExtSpace]

\* A busy reader serves one call; past the last address it asks for address 0,
\* which selects no buffer, and never gets its grant.
Serves(r) ==
    /\ rd.len = r.len /\ rd.cnt < r.len
    /\ rd.ext = (r.ext + rd.cnt) % ExtSpace
    /\ rd.loc = r.loc + rd.cnt \/ rd.loc = 0

CopyInv ==
    ~careful =>
        /\ ext_mem = Ext0
        /\ \A a \in BufAddr : Asked(a, buf[a])
        /\ rd_busy => \E r \in CarelessReqs : Serves(r)
        /\ rd.state = "S_EXT_WAIT" => ext_rsp = <<Ext0[rd.ext]>>
        /\ rd.state = "S_LOC_WR" => rd.data = Ext0[rd.ext]

\* The source address of the byte after the next.
LEMMA AddrAfter ==
  ASSUME NEW S \in Nat \ {0}, NEW f \in 0 .. S - 1, NEW i \in 0 .. S - 2
  PROVE  (((f + i) % S) + 1) % S = (f + (i + 1)) % S
<1> DEFINE h == f + i
           k == f + (i + 1)
<1>1. h \in 0 .. 2 * S - 2 /\ k = h + 1 /\ k \in 0 .. 2 * S - 2
  OBVIOUS
<1> HIDE DEF h, k
<1>2. CASE h < S
  <2>1. h % S = h
    <3>1. h \in 0 .. S - 1
      BY <1>1, <1>2
    <3>2. QED
      BY <3>1, ModSmall
  <2>2. QED
    BY <1>1, <2>1 DEF h, k
<1>3. CASE h >= S
  <2>1. h % S = h - S /\ h - S \in 0 .. S - 1
    <3>1. h \in S .. 2 * S - 1 /\ h - S \in 0 .. S - 1
      BY <1>1, <1>3
    <3>2. QED
      BY <3>1, ModWrap
  <2>2. k % S = k - S
    <3>1. k \in S .. 2 * S - 1
      BY <1>1, <1>3
    <3>2. QED
      BY <3>1, ModWrap
  <2>3. (k - S) % S = k - S
    <3> DEFINE j == k - S
    <3>1. j \in 0 .. S - 1
      BY <1>1, <1>3
    <3> HIDE DEF j
    <3>2. j % S = j
      BY <3>1, ModSmall
    <3>3. QED
      BY <3>2 DEF j
  <2>4. (h % S) + 1 = k - S
    BY <1>1, <2>1
  <2>5. QED
    BY <2>2, <2>3, <2>4 DEF h, k
<1>4. QED
  BY <1>1, <1>2, <1>3

\* A granted write puts a byte somebody asked for into the buffers, in reset too.
LEMMA AskedStored ==
  ASSUME DmaInv, AnswerInv, CopyInv, ~careful, NEW bus \in BusCycle, NEW contended,
         bus.reg = "BUF" => <<bus.addr, bus.data>> \in Loads,
         buf' = Stored(buf, BufPort(bus), buf_gnt(bus, contended))
  PROVE  \A a \in BufAddr : Asked(a, buf'[a])
<1> DEFINE port == BufPort(bus)
           gnt == buf_gnt(bus, contended)
<1>typ. DmaTypeOK /\ buf \in [BufAddr -> Data]
  BY DEF DmaInv, HostInv, TypeOK, DmaTypeOK
<1>1. ASSUME gnt /\ port.wr PROVE port.addr \in BufAddr /\ Asked(port.addr, port.data)
  <2>1. port.addr \in BufAddr
    BY <1>1 DEF buf_gnt
  <2>2. CASE ~dma_busy
    <3>1. bus.reg = "BUF" /\ port.addr = bus.addr /\ port.data = bus.data
      BY <1>1, <2>2 DEF BufPort, HostBufPort
    <3>2. QED
      BY <2>1, <3>1 DEF Asked
  <2>3. CASE dma_busy
    <3>1. rd.state = "S_LOC_WR"
      BY <1>1, <2>3 DEF BufPort, DmaBufPort
    <3>2. port.addr = rd.loc /\ port.data = rd.data /\ rd_busy
      BY <2>3, <3>1 DEF BufPort, DmaBufPort, rd_busy, Drive
    <3>3. rd.data = Ext0[rd.ext]
      BY <3>1 DEF CopyInv
    <3>4. PICK r \in CarelessReqs : Serves(r)
      BY <3>2 DEF CopyInv
    <3>5. rd.loc # 0
      BY <2>1, <3>2, WindowAssumption DEF BufAddr
    <3>6. rd.cnt \in 0 .. r.len - 1 /\ r.loc + rd.cnt = rd.loc
          /\ rd.ext = (r.ext + rd.cnt) % ExtSpace
      BY <1>typ, <3>4, <3>5, HostAssumption, WidthAssumption DEF Serves, DmaTypeOK, EngineType
    <3>7. QED
      BY <2>1, <3>2, <3>3, <3>6 DEF Asked
  <2>4. QED
    BY <2>2, <2>3
<1>2. \A a \in BufAddr : Asked(a, buf[a])
  BY DEF CopyInv
<1>3. CASE gnt /\ port.wr
  <2>1. buf' = [buf EXCEPT ![port.addr] = port.data]
    BY <1>3 DEF Stored
  <2>2. ASSUME NEW a \in BufAddr PROVE Asked(a, buf'[a])
    <3> HIDE DEF port, gnt
    <3>1. CASE a = port.addr
      <4>1. buf'[a] = port.data
        BY <1>typ, <2>1, <3>1
      <4>2. QED
        BY <1>1, <1>3, <3>1, <4>1
    <3>2. CASE a # port.addr
      <4>1. buf'[a] = buf[a]
        BY <1>typ, <2>1, <3>2
      <4>2. QED
        BY <1>2, <4>1
    <3>3. QED
      BY <3>1, <3>2
  <2>3. QED
    BY <2>2
<1>4. CASE ~(gnt /\ port.wr)
  <2>1. buf' = buf
    BY <1>4 DEF Stored
  <2>2. QED
    BY <1>2, <2>1
<1>5. QED
  BY <1>3, <1>4

\* The reader of a careless host goes on with its call, byte by byte.
LEMMA CopyEdge ==
  ASSUME DmaInv, AnswerInv, CopyInv, CarelessOnlyLoad, ~careful, NEW bus \in BusCycle,
         NEW accept, NEW answer, NEW contended, DmaClk(bus, accept, answer, contended),
         bus.reg = "BUF" => <<bus.addr, bus.data>> \in Loads
  PROVE  CopyInv'
<1> DEFINE ext_gnt == ext_mem_gnt(accept)
           rvalid == ext_mem_rvalid(answer)
           loc_gnt == buf_gnt(bus, contended)
<1>clk. /\ ReaderClk(ext_gnt, rvalid, loc_gnt)
        /\ BufferClk(BufPort(bus), loc_gnt) /\ ExtMemClk(ExtPort, ext_gnt, rvalid)
  BY DEF DmaClk
<1>old. rd \in EngineType({"S_IDLE", "S_EXT_RD", "S_EXT_WAIT", "S_LOC_WR", "S_DONE"})
  BY DEF DmaInv, HostInv, TypeOK, DmaTypeOK
<1>wr. wr.state = "S_IDLE"
  BY DEF AnswerInv
<1>ext. ext_mem' = Ext0 /\ ext_mem = Ext0
  BY <1>clk, <1>wr DEF CopyInv, ExtMemClk, Stored, ExtPort
<1>buf. \A a \in BufAddr : Asked(a, buf'[a])
  BY <1>clk, AskedStored DEF BufferClk
<1>1. CASE ReaderStart
  <2>1. /\ rd'.state = "S_EXT_RD" /\ rd'.ext = dma_ext_addr_r /\ rd'.loc = dma_loc_addr_r
        /\ rd'.len = dma_len_r /\ rd'.cnt = 0
    BY <1>1 DEF ReaderStart, Started
  <2>2. PICK r \in CarelessReqs : dma_ext_addr_r = r.ext /\ dma_loc_addr_r = r.loc /\ dma_len_r = r.len
    BY <1>1 DEF ReaderStart, rd_start, DmaInv, RegInv, HostInv, TypeOK, HostReqs
  <2>3. r.ext \in 0 .. ExtSpace - 1 /\ r.loc \in Nat /\ r.len \in Nat /\ r.len >= 1
    BY HostAssumption, WidthAssumption DEF ExtAddr
  <2>4. (r.ext + 0) % ExtSpace = r.ext
    <3>1. r.ext % ExtSpace = r.ext
      BY <2>3, ModSmall, WidthAssumption
    <3>2. QED
      BY <2>3, <3>1
  <2>5. Serves(r)'
    BY <2>1, <2>2, <2>3, <2>4 DEF Serves
  <2>6. QED
    BY <1>ext, <1>buf, <2>1, <2>5 DEF CopyInv
<1>2. CASE ReaderRequest(ext_gnt)
  <2>1. rd.state = "S_EXT_RD" /\ ext_gnt /\ rd' = [rd EXCEPT !.state = "S_EXT_WAIT"]
    BY <1>2 DEF ReaderRequest
  <2>2. /\ rd'.state = "S_EXT_WAIT" /\ rd'.ext = rd.ext /\ rd'.loc = rd.loc
        /\ rd'.len = rd.len /\ rd'.cnt = rd.cnt
    BY <2>1, <1>old DEF EngineType
  <2>3. ~ExtPort.wr /\ ExtPort.addr = rd.ext
    BY <1>wr, <2>1 DEF ExtPort, Drive, rd_busy
  <2>4. ext_rsp' = <<Ext0[rd.ext]>>
    BY <1>clk, <1>ext, <2>1, <2>3 DEF ExtMemClk
  <2>5. \E r \in CarelessReqs : Serves(r)'
    BY <2>1, <2>2 DEF CopyInv, Serves, rd_busy
  <2>6. QED
    BY <1>ext, <1>buf, <2>2, <2>4, <2>5 DEF CopyInv
<1>3. CASE ReaderData(rvalid)
  <2>1. /\ rd.state = "S_EXT_WAIT"
        /\ rd' = [rd EXCEPT !.state = "S_LOC_WR", !.data = ext_rsp[1]]
    BY <1>3 DEF ReaderData
  <2>2. /\ rd'.state = "S_LOC_WR" /\ rd'.ext = rd.ext /\ rd'.loc = rd.loc
        /\ rd'.len = rd.len /\ rd'.cnt = rd.cnt /\ rd'.data = ext_rsp[1]
    BY <2>1, <1>old DEF EngineType
  <2>3. ext_rsp[1] = Ext0[rd.ext]
    BY <2>1 DEF CopyInv
  <2>4. \E r \in CarelessReqs : Serves(r)'
    BY <2>1, <2>2 DEF CopyInv, Serves, rd_busy
  <2>5. QED
    BY <1>ext, <1>buf, <2>2, <2>3, <2>4 DEF CopyInv
<1>4. CASE ReaderStore(loc_gnt)
  <2>1. rd.state = "S_LOC_WR" /\ loc_gnt /\ rd' = ByteDone(rd, "S_EXT_RD")
    BY <1>4 DEF ReaderStore
  <2>2. /\ rd'.state = (IF LastByte(rd) THEN "S_DONE" ELSE "S_EXT_RD")
        /\ rd'.cnt = (rd.cnt + 1) % LenSpace
        /\ rd'.ext = (rd.ext + 1) % ExtSpace
        /\ rd'.loc = (rd.loc + 1) % LocSpace
        /\ rd'.len = rd.len
    BY <2>1, <1>old, ByteDoneFields
  <2>3. PICK r \in CarelessReqs : Serves(r)
    BY <2>1 DEF CopyInv, rd_busy
  <2>4. rd.cnt < rd.len /\ rd.cnt \in 0 .. LenSpace - 1 /\ rd.len \in 0 .. LenSpace - 1
    BY <1>old, <2>3 DEF Serves, EngineType
  <2>5. rd'.cnt = rd.cnt + 1 /\ (LastByte(rd) <=> rd.len - rd.cnt = 1)
    BY <1>old, <2>2, <2>4, LastByteExact
  <2>6. CASE LastByte(rd)
    BY <1>ext, <1>buf, <2>2, <2>6 DEF CopyInv, rd_busy
  <2>7. CASE ~LastByte(rd)
    <3>1. rd'.state = "S_EXT_RD" /\ rd'.cnt < r.len /\ rd'.len = r.len
      BY <2>2, <2>3, <2>4, <2>5, <2>7 DEF Serves
    <3>2. rd'.ext = (r.ext + rd'.cnt) % ExtSpace
      <4> DEFINE f == r.ext
                 i == rd.cnt
      <4>1. f \in 0 .. ExtSpace - 1 /\ i \in 0 .. ExtSpace - 2
        BY <2>4, HostAssumption, WidthAssumption DEF ExtAddr
      <4>2. rd'.ext = (((f + i) % ExtSpace) + 1) % ExtSpace
        BY <2>2, <2>3 DEF Serves
      <4>3. rd'.cnt = i + 1
        BY <2>5
      <4> HIDE DEF f, i
      <4>4. (((f + i) % ExtSpace) + 1) % ExtSpace = (f + (i + 1)) % ExtSpace
        BY <4>1, AddrAfter, WidthAssumption
      <4>5. QED
        BY <4>2, <4>3, <4>4 DEF f
    <3>3. rd'.loc = r.loc + rd'.cnt \/ rd'.loc = 0
      <4>1. rd.loc \in 0 .. LocSpace - 1 /\ rd.loc # 0
        <5>1. DmaBufPort.addr = rd.loc /\ BufPort(bus) = DmaBufPort
          BY <2>1 DEF DmaBufPort, Drive, BufPort, rd_busy, dma_busy
        <5>2. rd.loc \in BufAddr
          BY <2>1, <5>1 DEF buf_gnt
        <5>3. QED
          BY <5>2, WindowAssumption, WidthAssumption DEF BufAddr
      <4> DEFINE l == rd.loc
      <4>2. (l + 1) % LocSpace = IF l + 1 = LocSpace THEN 0 ELSE l + 1
        <5>1. l \in 0 .. LocSpace - 1
          BY <4>1
        <5> HIDE DEF l
        <5>2. QED
          BY <5>1, NextAddr, WidthAssumption
      <4>3. rd.loc = r.loc + rd.cnt /\ r.loc \in Nat
        BY <2>3, <4>1, HostAssumption, WidthAssumption DEF Serves
      <4>4. rd'.loc = IF l + 1 = LocSpace THEN 0 ELSE l + 1
        BY <2>2, <4>2
      <4>5. QED
        BY <2>4, <2>5, <4>3, <4>4
    <3>4. Serves(r)'
      BY <3>1, <3>2, <3>3 DEF Serves
    <3>5. QED
      BY <1>ext, <1>buf, <3>1, <3>4 DEF CopyInv
  <2>8. QED
    BY <2>6, <2>7
<1>5. CASE ReaderDone
  <2>1. rd'.state = "S_IDLE"
    BY <1>5, <1>old DEF ReaderDone, EngineType
  <2>2. QED
    BY <1>ext, <1>buf, <2>1 DEF CopyInv, rd_busy
<1>6. CASE ReaderHold(ext_gnt, rvalid, loc_gnt)
  <2>1. rd' = rd
    BY <1>6 DEF ReaderHold
  <2>2. rd.state = "S_EXT_WAIT" => ext_rsp' = ext_rsp
    BY <1>clk, <1>6 DEF ReaderHold, ExtMemClk, ExtPort, ext_mem_gnt, rd_busy
  <2>3. rd_busy => \E r \in CarelessReqs : Serves(r)'
    BY <2>1 DEF CopyInv, Serves
  <2>4. QED
    BY <1>ext, <1>buf, <2>1, <2>2, <2>3 DEF CopyInv, rd_busy
<1>7. QED
  BY <1>clk, <1>1, <1>2, <1>3, <1>4, <1>5, <1>6 DEF ReaderClk

\* One step keeps both, in reset and out of it.
LEMMA CarelessStep ==
  ASSUME DmaInv, AnswerInv, CopyInv, CarelessOnlyLoad, NEW bus \in BusCycle,
         NEW accept \in BOOLEAN, NEW answer \in BOOLEAN, NEW contended \in BOOLEAN,
         DeviceClk(bus, accept, answer, contended), HostStep(bus, contended)
  PROVE  AnswerInv' /\ CopyInv'
<1>1. careful' = careful
  BY DEF HostStep, HostGoesOn, HostActs, Program, StartDma, PollDma, ClearIrq, Load,
         CallTransfer, BeginLoad, Settle, HostPause, CallReset, TimeOut, hostVars
<1>2. bus.reg = "BUF" => <<bus.addr, bus.data>> \in Loads
  <2>1. CASE Load(bus, contended)
    BY <2>1 DEF Load, WriteBuf, DmaInv, HostInv, TypeOK
  <2>2. CASE ~Load(bus, contended)
    <3>1. bus.reg # "BUF"
      BY <2>2 DEF HostStep, HostGoesOn, HostActs, Program, StartDma, PollDma, ClearIrq,
         CallReset, NoWrite, WriteIrqClear, WriteDma, WriteDmaCtrl, WriteCtrl
    <3>2. QED
      BY <3>1
  <2>3. QED
    BY <2>1, <2>2
<1>3. CASE InReset
  <2>1. DmaReset(bus, accept, contended)
    BY <1>3 DEF DeviceClk
  <2>2. /\ rd'.state = "S_IDLE" /\ wr'.state = "S_IDLE"
        /\ buf_rsp' = Nothing /\ ext_rsp' = Nothing
    BY <2>1 DEF DmaReset, IdleEngine
  <2>3. AnswerInv'
    BY <2>2 DEF AnswerInv, AnswersMatchWaiters
  <2>4. ASSUME ~careful' PROVE CopyInv'
    <3>1. \A a \in BufAddr : Asked(a, buf'[a])
      BY <1>1, <1>2, <2>1, <2>4, AskedStored DEF DmaReset
    <3>2. ext_mem' = Ext0
      BY <1>1, <2>1, <2>4 DEF CopyInv, AnswerInv, DmaReset, Stored, ExtPort
    <3>3. QED
      BY <2>2, <3>1, <3>2 DEF CopyInv, rd_busy
  <2>5. QED
    BY <2>3, <2>4 DEF CopyInv
<1>4. CASE ~InReset
  <2>1. DmaClk(bus, accept, answer, contended)
    BY <1>4 DEF DeviceClk
  <2>2. AnswerInv'
    BY <1>1, <2>1, AnswerEdge
  <2>3. ~careful => CopyInv'
    BY <1>2, <2>1, CopyEdge
  <2>4. QED
    BY <1>1, <2>2, <2>3 DEF CopyInv
<1>5. QED
  BY <1>3, <1>4

\* Both hold as long as careless hosts only load.
THEOREM CarelessInvHolds ==
  ASSUME CarelessOnlyLoad
  PROVE  Spec => [](AnswerInv /\ CopyInv)
<1>1. Init => AnswerInv /\ CopyInv
  <2> SUFFICES ASSUME Init PROVE AnswerInv /\ CopyInv
    OBVIOUS
  <2>1. AnswerInv
    BY DEF Init, DmaInit, IdleEngine, AnswerInv, AnswersMatchWaiters
  <2>2. CopyInv
    BY DEF Init, DmaInit, IdleEngine, CopyInv, Asked, rd_busy
  <2>3. QED
    BY <2>1, <2>2
<1>2. DmaInv /\ AnswerInv /\ CopyInv /\ [Next]_vars => (AnswerInv /\ CopyInv)'
  <2> SUFFICES ASSUME DmaInv, AnswerInv, CopyInv, [Next]_vars PROVE AnswerInv' /\ CopyInv'
    OBVIOUS
  <2>1. CASE Next
    <3>1. PICK accept \in BOOLEAN, answer \in BOOLEAN, contended \in BOOLEAN, bus \in BusCycle :
             DeviceClk(bus, accept, answer, contended) /\ HostStep(bus, contended)
      BY <2>1 DEF Next, Step
    <3>2. QED
      BY <3>1, CarelessStep
  <2>2. CASE UNCHANGED vars
    <3>1. UNCHANGED dmaVars /\ UNCHANGED hostVars
      BY <2>2 DEF vars
    <3>2. AnswerInv'
      BY <3>1 DEF AnswerInv, AnswersMatchWaiters, dmaVars, hostVars
    <3>3. CopyInv'
      BY <3>1 DEF CopyInv, Asked, Serves, rd_busy, dmaVars, hostVars
    <3>4. QED
      BY <3>2, <3>3
  <2>3. QED
    BY <2>1, <2>2
<1>3. QED
  BY <1>1, <1>2, DmaInvHolds, PTL DEF Spec

\* A read the memories were asked for is answered to an engine that waits for
\* it, whatever the host does under a running transfer, if it only loads.
THEOREM AnswersFindWaiters ==
  ASSUME CarelessOnlyLoad
  PROVE  Spec => []AnswersMatchWaiters
<1>1. AnswerInv => AnswersMatchWaiters
  BY DEF AnswerInv
<1>2. QED
  BY <1>1, CarelessInvHolds, PTL

\* Whatever a host that only loads does too early, a buffer holds nothing but
\* its first value, the host's own writes and what some call asked for.
THEOREM CopiesAreRequested ==
  ASSUME CarelessOnlyLoad
  PROVE  Spec => []OnlyRequestedCopies
<1>1. CopyInv => OnlyRequestedCopies
  BY DEF CopyInv, Asked, OnlyRequestedCopies
<1>2. QED
  BY <1>1, CarelessInvHolds, PTL
=============================================================================
