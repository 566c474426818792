-------------------------- MODULE DmaFrontendProofs --------------------------
(***************************************************************************)
(* What one clock edge does to the register file and the DMA engine,       *)
(* whatever the bus cycle: the types, for every width of the addresses and *)
(* the length, every window and every set of bytes.                        *)
(***************************************************************************)
EXTENDS DmaFrontend, TLAPS

\* Bus cycles a host can make: what it writes fits the register it names.
GoodBus(bus) ==
    /\ bus.reg = "CTRL" => bus.bits \subseteq {"SOFT_RESET", "ENABLE"}
    /\ bus.reg = "IRQ_ENABLE" => bus.on \in BOOLEAN
    /\ bus.reg = "CMD_QUEUE" => bus.idx \in WordIdx /\ bus.word \in Word
    /\ bus.reg \in {"DMA_EXT_ADDR", "DMA_LOC_ADDR", "DMA_LEN"} => bus.val \in Nat
    /\ bus.reg = "DMA_CTRL" => bus.start \in BOOLEAN /\ bus.dir \in BOOLEAN
    /\ bus.reg = "BUF" => bus.addr \in BufAddr /\ bus.data \in Data

-----------------------------------------------------------------------------
\* A remainder is below the width of its register.
LEMMA ModRange == \A x \in Nat, n \in Nat \ {0} : x % n \in 0 .. n - 1
  OBVIOUS

\* Below the width a remainder is the number itself.
LEMMA ModSmall == \A n \in Nat \ {0} : \A x \in 0 .. n - 1 : x % n = x
  OBVIOUS

\* The register file keeps its types, out of reset and in it.
LEMMA RegBlockTypes ==
  ASSUME RegBlockTypeOK, NEW bus, GoodBus(bus), NEW req \in BOOLEAN, NEW idx \in WordIdx,
         RegBlockClk(bus, req, idx) \/ RegBlockReset(bus)
  PROVE  RegBlockTypeOK'
<1>1. cmd_mem' \in [WordIdx -> Word]
  BY DEF RegBlockTypeOK, RegBlockClk, RegBlockReset, CmdMemClk, GoodBus
<1>2. CASE RegBlockClk(bus, req, idx)
  <2>1. /\ ctrl_reg' \subseteq {"SOFT_RESET", "ENABLE"}
        /\ irq_en_reg' \in BOOLEAN /\ doorbell_r' \in BOOLEAN /\ irq_clear_r' \in BOOLEAN
    BY <1>2 DEF RegBlockTypeOK, RegBlockClk, ControlRegsClk, GoodBus
  <2>2. fetch_rvalid_r' \in BOOLEAN /\ fetch_rdata_r' \in Word
    BY <1>2 DEF RegBlockTypeOK, RegBlockClk, FetchPortClk
  <2>3. /\ dma_ext_addr_r' \in 0 .. ExtSpace - 1
        /\ dma_loc_addr_r' \in 0 .. LocSpace - 1
        /\ dma_len_r' \in 0 .. LenSpace - 1
    <3>1. /\ bus.reg = "DMA_EXT_ADDR" => bus.val % ExtSpace \in 0 .. ExtSpace - 1
          /\ bus.reg = "DMA_LOC_ADDR" => bus.val % LocSpace \in 0 .. LocSpace - 1
          /\ bus.reg = "DMA_LEN" => bus.val % LenSpace \in 0 .. LenSpace - 1
      BY ModRange, WidthAssumption DEF GoodBus
    <3>2. QED
      BY <1>2, <3>1 DEF RegBlockTypeOK, RegBlockClk, DmaRegsClk
  <2>4. dma_start_r' \in BOOLEAN /\ dma_dir_r' \in BOOLEAN
    BY <1>2 DEF RegBlockTypeOK, RegBlockClk, DmaRegsClk, GoodBus
  <2>5. QED
    BY <1>1, <2>1, <2>2, <2>3, <2>4 DEF RegBlockTypeOK
<1>3. CASE RegBlockReset(bus)
  <2>1. 0 \in 0 .. ExtSpace - 1 /\ 0 \in 0 .. LocSpace - 1 /\ 0 \in 0 .. LenSpace - 1
    BY WidthAssumption
  <2>2. QED
    BY <1>1, <1>3, <2>1, WordAssumption
      DEF RegBlockTypeOK, RegBlockReset, ControlRegsReset
<1>4. QED
  BY <1>2, <1>3

\* A buffer write that is granted names a byte of a buffer.
LEMMA BufPortTypes ==
  ASSUME DmaTypeOK, NEW bus, GoodBus(bus)
  PROVE  BufPort(bus).data \in Data
  BY WindowAssumption
    DEF DmaTypeOK, EngineType, GoodBus, BufPort, DmaBufPort, HostBufPort, Drive

\* The external port always names a byte of the external memory.
LEMMA ExtPortTypes ==
  ASSUME DmaTypeOK
  PROVE  ExtPort.addr \in ExtAddr /\ ExtPort.data \in Data
  BY WindowAssumption, WidthAssumption DEF DmaTypeOK, EngineType, ExtPort, ExtAddr, Drive

\* A port that is granted stores a byte and leaves the memory a memory.
LEMMA StoredType ==
  ASSUME NEW A, NEW m \in [A -> Data], NEW port, NEW gnt \in BOOLEAN,
         gnt => port.addr \in A, port.data \in Data
  PROVE  Stored(m, port, gnt) \in [A -> Data]
  BY DEF Stored

\* After a byte an engine is within its widths, one address further on.
LEMMA ByteDoneFields ==
  ASSUME NEW States, NEW e \in EngineType(States), NEW again \in States, "S_DONE" \in States
  PROVE  /\ ByteDone(e, again) \in EngineType(States)
         /\ ByteDone(e, again).state = (IF LastByte(e) THEN "S_DONE" ELSE again)
         /\ ByteDone(e, again).cnt = (e.cnt + 1) % LenSpace
         /\ ByteDone(e, again).ext = (e.ext + 1) % ExtSpace
         /\ ByteDone(e, again).loc = (e.loc + 1) % LocSpace
         /\ ByteDone(e, again).len = e.len
         /\ ByteDone(e, again).data = e.data
<1> DEFINE s == IF LastByte(e) THEN "S_DONE" ELSE again
           c == (e.cnt + 1) % LenSpace
           x == (e.ext + 1) % ExtSpace
           l == (e.loc + 1) % LocSpace
<1>1. e.cnt + 1 \in Nat /\ e.ext + 1 \in Nat /\ e.loc + 1 \in Nat
  BY DEF EngineType, ExtAddr
<1>2. c \in 0 .. LenSpace - 1 /\ x \in ExtAddr /\ l \in 0 .. LocSpace - 1
  BY <1>1, ModRange, WidthAssumption DEF ExtAddr
<1>3. s \in States
  OBVIOUS
<1>4. ByteDone(e, again) = [e EXCEPT !.state = s, !.cnt = c, !.ext = x, !.loc = l]
  BY DEF ByteDone
<1> HIDE DEF s, c, x, l
<1>5. /\ ByteDone(e, again) \in EngineType(States)
      /\ ByteDone(e, again).state = s
      /\ ByteDone(e, again).cnt = c
      /\ ByteDone(e, again).ext = x
      /\ ByteDone(e, again).loc = l
      /\ ByteDone(e, again).len = e.len
      /\ ByteDone(e, again).data = e.data
  <2> DEFINE f == ByteDone(e, again)
  <2>1. f = [e EXCEPT !.state = s, !.cnt = c, !.ext = x, !.loc = l]
    BY <1>4
  <2> HIDE DEF f
  <2>2. f \in EngineType(States)
    BY <2>1, <1>2, <1>3 DEF EngineType
  <2>3. /\ f.state = s /\ f.cnt = c /\ f.ext = x /\ f.loc = l
        /\ f.len = e.len /\ f.data = e.data
    BY <2>1, <1>2, <1>3 DEF EngineType
  <2>4. QED
    BY <2>2, <2>3 DEF f
<1>6. QED
  BY <1>5 DEF s, c, x, l

\* The count does not wrap, so an engine stops after exactly its length.
LEMMA LastByteExact ==
  ASSUME NEW States, NEW e \in EngineType(States), e.cnt < e.len
  PROVE  /\ (e.cnt + 1) % LenSpace = e.cnt + 1
         /\ LastByte(e) <=> e.len - e.cnt = 1
<1>1. e.cnt + 1 \in 0 .. LenSpace - 1
  BY WidthAssumption DEF EngineType
<1> DEFINE h == e.cnt + 1
<1>2. h % LenSpace = h
  <2>1. h \in 0 .. LenSpace - 1
    BY <1>1
  <2> HIDE DEF h
  <2>2. QED
    BY <2>1, ModSmall, WidthAssumption
<1>3. LastByte(e) <=> h >= e.len
  BY <1>2 DEF LastByte
<1>4. QED
  BY <1>2, <1>3, WidthAssumption DEF EngineType

\* An answer with a byte in it is an answer.
LEMMA SomethingIsNotNothing == \A x : <<x>> # Nothing
<1>1. \A x : Len(<<x>>) = 1 /\ Len(<<>>) = 0
  OBVIOUS
<1>2. QED
  BY <1>1 DEF Nothing

\* The engines and the memories keep their types on every edge out of reset.
LEMMA DmaTypes ==
  ASSUME RegBlockTypeOK, DmaTypeOK, NEW bus, GoodBus(bus),
         NEW accept \in BOOLEAN, NEW answer \in BOOLEAN, NEW contended \in BOOLEAN,
         DmaClk(bus, accept, answer, contended)
  PROVE  DmaTypeOK'
<1> DEFINE ext_gnt == ext_mem_gnt(accept)
           rvalid == ext_mem_rvalid(answer)
           loc_gnt == buf_gnt(bus, contended)
           RdStates == {"S_IDLE", "S_EXT_RD", "S_EXT_WAIT", "S_LOC_WR", "S_DONE"}
           WrStates == {"S_IDLE", "S_LOC_RD", "S_LOC_WAIT", "S_EXT_WR", "S_DONE"}
<1>gnt. ext_gnt \in BOOLEAN /\ rvalid \in BOOLEAN /\ loc_gnt \in BOOLEAN
  BY DEF ext_mem_gnt, ext_mem_rvalid, buf_gnt, ExtPort, BufPort, DmaBufPort, HostBufPort
<1>clk. /\ ReaderClk(ext_gnt, rvalid, loc_gnt)
        /\ WriterClk(ext_gnt, loc_gnt)
        /\ BufferClk(BufPort(bus), loc_gnt)
        /\ ExtMemClk(ExtPort, ext_gnt, rvalid)
  BY DEF DmaClk
<1>old. /\ rd \in EngineType(RdStates) /\ wr \in EngineType(WrStates)
        /\ buf \in [BufAddr -> Data] /\ ext_mem \in [ExtAddr -> Data]
        /\ buf_rsp \in Answer /\ ext_rsp \in Answer
  BY DEF DmaTypeOK
<1>new. ASSUME NEW States, NEW e \in EngineType(States), NEW first \in States
        PROVE  Started(e, first) \in EngineType(States)
  BY WidthAssumption DEF Started, EngineType, RegBlockTypeOK, ExtAddr
<1>rd. rd' \in EngineType(RdStates)
  <2>1. CASE ReaderStart
    BY <2>1, <1>old, <1>new DEF ReaderStart
  <2>2. CASE ReaderRequest(ext_gnt) \/ ReaderDone
    BY <2>2, <1>old DEF ReaderRequest, ReaderDone, EngineType
  <2>3. CASE ReaderData(rvalid)
    <3>1. ext_rsp[1] \in Data
      BY <2>3, <1>old DEF ReaderData, ext_mem_rvalid, Answer
    <3>2. QED
      BY <2>3, <3>1, <1>old DEF ReaderData, EngineType
  <2>4. CASE ReaderStore(loc_gnt)
    BY <2>4, <1>old, ByteDoneFields DEF ReaderStore
  <2>5. CASE ReaderHold(ext_gnt, rvalid, loc_gnt)
    BY <2>5, <1>old DEF ReaderHold
  <2>6. QED
    BY <1>clk, <2>1, <2>2, <2>3, <2>4, <2>5 DEF ReaderClk
<1>wr. wr' \in EngineType(WrStates)
  <2>1. CASE WriterStart
    BY <2>1, <1>old, <1>new DEF WriterStart
  <2>2. CASE WriterRequest(loc_gnt) \/ WriterDone
    BY <2>2, <1>old DEF WriterRequest, WriterDone, EngineType
  <2>3. CASE WriterData
    <3>1. buf_rsp[1] \in Data
      BY <2>3, <1>old DEF WriterData, Answer
    <3>2. QED
      BY <2>3, <3>1, <1>old DEF WriterData, EngineType
  <2>4. CASE WriterStore(ext_gnt)
    BY <2>4, <1>old, ByteDoneFields DEF WriterStore
  <2>5. CASE WriterHold(ext_gnt, loc_gnt)
    BY <2>5, <1>old DEF WriterHold
  <2>6. QED
    BY <1>clk, <2>1, <2>2, <2>3, <2>4, <2>5 DEF WriterClk
<1>buf. buf' \in [BufAddr -> Data] /\ buf_rsp' \in Answer
  <2>1. loc_gnt => BufPort(bus).addr \in BufAddr
    BY DEF buf_gnt
  <2>2. buf' \in [BufAddr -> Data]
    BY <1>clk, <1>old, <1>gnt, <2>1, BufPortTypes, StoredType DEF BufferClk
  <2>3. buf_rsp' \in Answer
    BY <1>clk, <1>old, <2>1 DEF BufferClk, Answer
  <2>4. QED
    BY <2>2, <2>3
<1>ext. ext_mem' \in [ExtAddr -> Data] /\ ext_rsp' \in Answer
  <2>1. ext_mem' \in [ExtAddr -> Data]
    BY <1>clk, <1>old, <1>gnt, ExtPortTypes, StoredType DEF ExtMemClk
  <2>2. ext_rsp' \in Answer
    BY <1>clk, <1>old, ExtPortTypes DEF ExtMemClk, Answer
  <2>3. QED
    BY <2>1, <2>2
<1> QED
  BY <1>rd, <1>wr, <1>buf, <1>ext DEF DmaTypeOK

\* And on every edge in reset, on which a granted write still lands.
LEMMA DmaResetTypes ==
  ASSUME DmaTypeOK, NEW bus, GoodBus(bus), NEW accept \in BOOLEAN, NEW contended \in BOOLEAN,
         DmaReset(bus, accept, contended)
  PROVE  DmaTypeOK'
<1>1. buf_gnt(bus, contended) \in BOOLEAN /\ ext_mem_gnt(accept) \in BOOLEAN
  BY DEF ext_mem_gnt, buf_gnt, ExtPort, BufPort, DmaBufPort, HostBufPort
<1>2. buf' \in [BufAddr -> Data]
  BY <1>1, BufPortTypes, StoredType DEF DmaTypeOK, DmaReset, buf_gnt
<1>3. ext_mem' \in [ExtAddr -> Data]
  BY <1>1, ExtPortTypes, StoredType DEF DmaTypeOK, DmaReset
<1>4. QED
  BY <1>2, <1>3, WindowAssumption, WidthAssumption
    DEF DmaReset, DmaTypeOK, IdleEngine, EngineType, ExtAddr, Answer
=============================================================================
