--------------------------- MODULE NpuShellProofs ---------------------------
(***************************************************************************)
(* Proofs about the command queue, for every DEPTH and every command set:  *)
(* its types, its flags, and that the ring implements the bounded FIFO;     *)
(* and about the command path of the shell around it, for every host, every*)
(* descriptor length, queue depth, command set and set of backends.        *)
(***************************************************************************)
EXTENDS NpuShell, DmaFrontendProofs

USE DepthAssumption, ZeroCmdAssumption

-----------------------------------------------------------------------------
\* The inductive invariant: the types, and pointers at most DEPTH apart.  The
\* types alone allow an occupancy of 2 * DEPTH - 1, from which a push would
\* overrun the oldest entry; the bound needs the full test of the push.
QueueInv == QueueTypeOK /\ Occupancy <= DEPTH

-----------------------------------------------------------------------------
(***************************************************************************)
(* Pointer arithmetic.                                                     *)
(***************************************************************************)

\* A slot number addresses the ring, and an advanced pointer is a pointer:
\* the low bits and the wrap of fifo.sv never leave their ranges.
LEMMA PointerRanges ==
    /\ \A p \in Ptr : Slot(p) \in 0 .. DEPTH - 1
    /\ \A p \in Ptr, k \in 0 .. DEPTH : Advance(p, k) \in Ptr
  BY DEF Ptr, Slot, Advance

\* The full and empty flags of fifo.sv, computed from pointer bits, mean an
\* occupancy of DEPTH and of zero.
LEMMA FlagsFromPointers ==
  ASSUME wr_ptr \in Ptr, rd_ptr \in Ptr
  PROVE  /\ Occupancy \in 0 .. 2 * DEPTH - 1
         /\ full <=> Occupancy = DEPTH
         /\ empty <=> Occupancy = 0
  BY DEF Ptr, Slot, Msb, Occupancy, full, empty

-----------------------------------------------------------------------------
\* The queue's invariant holds initially and is kept by every clock edge.
LEMMA QueueInvInit == QueueInit => QueueInv
  BY DEF QueueInit, QueueInv, QueueTypeOK, Ptr, Occupancy

\* No clock edge, in reset or out of it, overfills the ring.
LEMMA QueueInvStep == QueueInv /\ [QueueNext]_queueVars => QueueInv'
<1> SUFFICES ASSUME QueueInv, [QueueNext]_queueVars
             PROVE  QueueInv'
  OBVIOUS
<1>types. QueueTypeOK /\ Occupancy <= DEPTH
  BY DEF QueueInv
<1>1. ASSUME NEW wr_valid \in BOOLEAN, NEW rd_ready \in BOOLEAN,
             NEW wr_data \in Cmd, QueueClk(wr_valid, wr_data, rd_ready)
      PROVE  QueueInv'
  <2>1. mem' \in [0 .. DEPTH - 1 -> Cmd]
    BY <1>1, <1>types, PointerRanges DEF QueueClk, QueueStore, QueueTypeOK
  <2>2. wr_ptr' \in Ptr /\ rd_ptr' \in Ptr
    BY <1>1, <1>types DEF QueueClk, MovePointers, QueueTypeOK, Advance, Ptr
  <2>3. Occupancy' <= DEPTH
    <3>1. wr_valid /\ ~full => Occupancy < DEPTH
      BY <1>types, FlagsFromPointers DEF QueueTypeOK
    <3>2. \/ wr_ptr' = wr_ptr
          \/ wr_ptr' = Advance(wr_ptr, 1) /\ Occupancy < DEPTH
      BY <1>1, <3>1 DEF QueueClk, MovePointers
    <3>3. \/ rd_ptr' = rd_ptr
          \/ rd_ptr' = Advance(rd_ptr, 1) /\ rd_ptr # wr_ptr
      BY <1>1 DEF QueueClk, MovePointers, empty
    <3>4. QED
      BY <3>2, <3>3, <1>types DEF QueueTypeOK, Occupancy, Advance, Ptr
  <2>4. QED
    BY <2>1, <2>2, <2>3 DEF QueueInv, QueueTypeOK
<1>2. ASSUME NEW wr_valid \in BOOLEAN, NEW wr_data \in Cmd,
             QueueReset(wr_valid, wr_data)
      PROVE  QueueInv'
  <2>1. mem' \in [0 .. DEPTH - 1 -> Cmd]
    BY <1>2, <1>types, PointerRanges DEF QueueReset, QueueStore, QueueTypeOK
  <2>2. QED
    BY <2>1, <1>2 DEF QueueReset, QueueInv, QueueTypeOK, Ptr, Occupancy
<1>3. CASE UNCHANGED queueVars
  BY <1>3, <1>types DEF queueVars, QueueInv, QueueTypeOK, Occupancy
<1>4. QED
  BY <1>1, <1>2, <1>3 DEF QueueNext

\* The ring and its pointers keep their types and stay at most DEPTH apart.
THEOREM QueueInvariant == QueueSpec => []QueueInv
  BY QueueInvInit, QueueInvStep, PTL DEF QueueSpec

\* Type correctness of the command queue, for every depth and command set.
THEOREM QueueTypes == QueueSpec => []QueueTypeOK
<1>1. QueueInv => QueueTypeOK
  BY DEF QueueInv
<1>2. QED
  BY <1>1, QueueInvariant, PTL

\* The pointers never drift further apart than the ring is long, and the full
\* and empty flags of fifo.sv tell the extreme occupancies exactly.
THEOREM QueueFlags == QueueSpec => []FlagsMatchOccupancy
<1>1. QueueInv => FlagsMatchOccupancy
  BY FlagsFromPointers DEF QueueInv, QueueTypeOK, FlagsMatchOccupancy
<1>2. QED
  BY <1>1, QueueInvariant, PTL

-----------------------------------------------------------------------------
(***************************************************************************)
(* The ring implements the bounded FIFO.                                   *)
(***************************************************************************)

\* What the ring holds is a sequence of commands as long as the occupancy.
ContentsShape ==
    /\ Occupancy \in 0 .. DEPTH
    /\ Contents \in Seq(Cmd)
    /\ Len(Contents) = Occupancy
    /\ \A i \in 1 .. Occupancy :
           Contents[i] = mem[Slot(Advance(rd_ptr, i - 1))]

\* The invariant gives the contents their shape.
LEMMA ContentsSeq == QueueInv => ContentsShape
<1> SUFFICES ASSUME QueueInv PROVE ContentsShape
  OBVIOUS
<1>1. Occupancy \in 0 .. DEPTH
  BY FlagsFromPointers DEF QueueInv, QueueTypeOK
<1>2. ASSUME NEW i \in 1 .. Occupancy
      PROVE  mem[Slot(Advance(rd_ptr, i - 1))] \in Cmd
  <2>1. i - 1 \in 0 .. DEPTH
    BY <1>1
  <2>2. Slot(Advance(rd_ptr, i - 1)) \in 0 .. DEPTH - 1
    BY <2>1, PointerRanges DEF QueueInv, QueueTypeOK
  <2>3. QED
    BY <2>2 DEF QueueInv, QueueTypeOK
<1>3. QED
  BY <1>1, <1>2 DEF Contents, ContentsShape

\* Two sequences of the same length with the same entries are the same.
LEMMA SameSeq ==
  ASSUME NEW S, NEW a \in Seq(S), NEW b \in Seq(S), Len(a) = Len(b),
         \A i \in 1 .. Len(a) : a[i] = b[i]
  PROVE  a = b
  OBVIOUS

\* What one clock edge does to the contents: a push appends, a pop takes the
\* oldest, and both may happen on the same edge.
LEMMA QueueEdge ==
  ASSUME QueueInv, QueueInv', NEW wr_valid \in BOOLEAN, NEW rd_ready \in BOOLEAN,
         NEW wr_data \in Cmd, QueueClk(wr_valid, wr_data, rd_ready)
  PROVE  LET push == wr_valid /\ ~full
             pop == rd_ready /\ ~empty
         IN  /\ push /\ pop => Contents' = Append(Tail(Contents), wr_data)
             /\ push /\ ~pop => Contents' = Append(Contents, wr_data)
             /\ ~push /\ pop => Contents' = Tail(Contents)
             /\ ~push /\ ~pop => Contents' = Contents
             /\ push => Len(Contents) < DEPTH
             /\ pop => Contents # <<>>
<1> USE DEF QueueInv, QueueTypeOK
<1>old. ContentsShape
  BY ContentsSeq
<1>new. ContentsShape'
  BY ContentsSeq, PTL
<1> USE DEF ContentsShape
<1> DEFINE push == wr_valid /\ ~full
           pop == rd_ready /\ ~empty
<1>flags. /\ push => Occupancy < DEPTH
          /\ pop => Occupancy > 0
  BY <1>old, FlagsFromPointers
<1>ptrs. /\ wr_ptr' = IF push THEN Advance(wr_ptr, 1) ELSE wr_ptr
         /\ rd_ptr' = IF pop THEN Advance(rd_ptr, 1) ELSE rd_ptr
         /\ mem' = IF push THEN [mem EXCEPT ![Slot(wr_ptr)] = wr_data]
                           ELSE mem
  BY DEF QueueClk, QueueStore, MovePointers
<1>kept. ASSUME NEW i \in 0 .. DEPTH - 1, i < Occupancy
         PROVE  mem'[Slot(Advance(rd_ptr, i))] = mem[Slot(Advance(rd_ptr, i))]
  <2>1. push => Slot(Advance(rd_ptr, i)) # Slot(wr_ptr)
    BY <1>kept, <1>flags DEF Slot, Advance, Occupancy, Ptr
  <2>2. QED
    BY <2>1, <1>ptrs, PointerRanges
<1>fresh. push => /\ mem'[Slot(wr_ptr)] = wr_data
                  /\ wr_ptr = Advance(rd_ptr, Occupancy)
  <2>1. push => mem'[Slot(wr_ptr)] = wr_data
    BY <1>ptrs, PointerRanges
  <2>2. wr_ptr = Advance(rd_ptr, Occupancy)
    BY DEF Advance, Occupancy, Ptr
  <2>3. QED
    BY <2>1, <2>2
<1> HIDE DEF push, pop
<1> DEFINE Goal == /\ push /\ pop => Contents' = Append(Tail(Contents), wr_data)
                   /\ push /\ ~pop => Contents' = Append(Contents, wr_data)
                   /\ ~push /\ pop => Contents' = Tail(Contents)
                   /\ ~push /\ ~pop => Contents' = Contents
<1>1. ASSUME push /\ pop PROVE Goal
  <2>1. Occupancy' = Occupancy
    BY <1>1, <1>ptrs, <1>flags, <1>new DEF Occupancy, Advance, Ptr
  <2>2. \A i \in 1 .. Occupancy' :
           Advance(rd_ptr', i - 1) = Advance(rd_ptr, i)
    BY <1>1, <1>ptrs, <1>new DEF Advance, Ptr
  <2>3. Contents' = Append(Tail(Contents), wr_data)
    <3> DEFINE b == Append(Tail(Contents), wr_data)
    <3>1. /\ b \in Seq(Cmd)
          /\ Len(b) = Occupancy
          /\ \A i \in 1 .. Occupancy - 1 : b[i] = Contents[i + 1]
          /\ b[Occupancy] = wr_data
      BY <1>old, <1>1, <1>flags
    <3>2. \A i \in 1 .. Occupancy : Contents'[i] = b[i]
      <4>1. ASSUME NEW i \in 1 .. Occupancy - 1
            PROVE  Contents'[i] = b[i]
        <5>1. Contents'[i] = mem'[Slot(Advance(rd_ptr, i))]
          BY <1>old, <1>new, <2>1, <2>2
        <5>2. mem'[Slot(Advance(rd_ptr, i))] = mem[Slot(Advance(rd_ptr, i))]
          BY <1>old, <1>kept
        <5>3. i + 1 \in 1 .. Occupancy /\ (i + 1) - 1 = i
          BY <1>old
        <5>4. Contents[i + 1] = mem[Slot(Advance(rd_ptr, i))]
          BY <1>old, <5>3
        <5>5. QED
          BY <5>1, <5>2, <5>4, <3>1
      <4>2. Contents'[Occupancy] = b[Occupancy]
        BY <1>old, <1>new, <2>1, <2>2, <1>fresh, <1>1, <1>flags, <3>1
      <4>3. QED
        BY <4>1, <4>2, <1>old
    <3> HIDE DEF b
    <3>3. Contents' = b
      BY <1>new, <2>1, <3>1, <3>2, SameSeq
    <3>4. QED
      BY <3>3 DEF b
  <2>4. QED
    BY <2>3, <1>1
<1>2. ASSUME push /\ ~pop PROVE Goal
  <2>1. Occupancy' = Occupancy + 1
    BY <1>2, <1>ptrs, <1>flags, <1>new DEF Occupancy, Advance, Ptr
  <2>2. Contents' = Append(Contents, wr_data)
    <3> DEFINE b == Append(Contents, wr_data)
    <3>1. /\ b \in Seq(Cmd)
          /\ Len(b) = Occupancy + 1
          /\ \A i \in 1 .. Occupancy : b[i] = Contents[i]
          /\ b[Occupancy + 1] = wr_data
      BY <1>old
    <3>2. \A i \in 1 .. Occupancy + 1 : Contents'[i] = b[i]
      <4>1. ASSUME NEW i \in 1 .. Occupancy
            PROVE  Contents'[i] = b[i]
        <5>1. Contents'[i] = mem'[Slot(Advance(rd_ptr, i - 1))]
          BY <1>old, <1>new, <2>1, <1>2, <1>ptrs
        <5>2. i - 1 \in 0 .. DEPTH - 1 /\ i - 1 < Occupancy
          BY <1>old
        <5>3. QED
          BY <5>1, <5>2, <1>kept, <1>old, <3>1
      <4>2. Contents'[Occupancy + 1] = b[Occupancy + 1]
        <5>1. Occupancy + 1 \in 1 .. Occupancy' /\ (Occupancy + 1) - 1 = Occupancy
          BY <1>old, <2>1
        <5>2. Contents'[Occupancy + 1] = mem'[Slot(Advance(rd_ptr', Occupancy))]
          BY <1>new, <5>1
        <5>3. rd_ptr' = rd_ptr
          BY <1>2, <1>ptrs
        <5>4. QED
          BY <5>2, <5>3, <1>2, <1>fresh, <3>1
      <4>3. QED
        BY <4>1, <4>2, <1>old
    <3> HIDE DEF b
    <3>3. Contents' = b
      BY <1>new, <2>1, <3>1, <3>2, SameSeq
    <3>4. QED
      BY <3>3 DEF b
  <2>3. QED
    BY <2>2, <1>2
<1>3. ASSUME ~push /\ pop PROVE Goal
  <2>1. Occupancy' = Occupancy - 1
    BY <1>3, <1>ptrs, <1>flags, <1>new DEF Occupancy, Advance, Ptr
  <2>2. \A i \in 1 .. Occupancy' :
           Advance(rd_ptr', i - 1) = Advance(rd_ptr, i)
    BY <1>3, <1>ptrs, <1>new DEF Advance, Ptr
  <2>3. Contents' = Tail(Contents)
    <3> DEFINE b == Tail(Contents)
    <3>1. /\ b \in Seq(Cmd)
          /\ Len(b) = Occupancy - 1
          /\ \A i \in 1 .. Occupancy - 1 : b[i] = Contents[i + 1]
      BY <1>old, <1>3, <1>flags
    <3>2. \A i \in 1 .. Occupancy - 1 : Contents'[i] = b[i]
      BY <1>old, <1>new, <2>1, <2>2, <1>kept, <3>1
    <3> HIDE DEF b
    <3>3. Contents' = b
      BY <1>new, <2>1, <3>1, <3>2, SameSeq
    <3>4. QED
      BY <3>3 DEF b
  <2>4. QED
    BY <2>3, <1>3
<1>4. ASSUME ~push /\ ~pop PROVE Goal
  BY <1>4, <1>ptrs DEF Contents, Occupancy
<1>5. Goal
  BY <1>1, <1>2, <1>3, <1>4
<1>6. (push => Len(Contents) < DEPTH) /\ (pop => Contents # <<>>)
  BY <1>flags, <1>old
<1>7. QED
  BY <1>5, <1>6 DEF push, pop

\* Every clock edge of the ring is a step, or a stutter, of the FIFO.
LEMMA QueueStepRefines ==
  ASSUME QueueInv, QueueInv', [QueueNext]_queueVars
  PROVE  [Fifo!Next]_Contents
<1> USE DEF QueueInv, QueueTypeOK
<1>old. ContentsShape
  BY ContentsSeq
<1>new. ContentsShape'
  BY ContentsSeq, PTL
<1> USE DEF ContentsShape
<1>1. ASSUME NEW wr_valid \in BOOLEAN, NEW rd_ready \in BOOLEAN,
             NEW wr_data \in Cmd, QueueClk(wr_valid, wr_data, rd_ready)
      PROVE  [Fifo!Next]_Contents
  <2> DEFINE push == wr_valid /\ ~full
             pop == rd_ready /\ ~empty
  <2>1. /\ push /\ pop => Contents' = Append(Tail(Contents), wr_data)
        /\ push /\ ~pop => Contents' = Append(Contents, wr_data)
        /\ ~push /\ pop => Contents' = Tail(Contents)
        /\ ~push /\ ~pop => Contents' = Contents
        /\ push => Len(Contents) < DEPTH
        /\ pop => Contents # <<>>
    BY <1>1, QueueEdge
  <2> HIDE DEF push, pop
  <2>2. CASE push /\ pop
    BY <2>1, <2>2, <1>1 DEF Fifo!PushPop, Fifo!Next
  <2>3. CASE push /\ ~pop
    BY <2>1, <2>3, <1>1 DEF Fifo!Push, Fifo!Next
  <2>4. CASE ~push /\ pop
    BY <2>1, <2>4 DEF Fifo!Pop, Fifo!Next
  <2>5. CASE ~push /\ ~pop
    BY <2>1, <2>5
  <2>6. QED
    BY <2>2, <2>3, <2>4, <2>5
<1>2. ASSUME NEW wr_valid \in BOOLEAN, NEW wr_data \in Cmd,
             QueueReset(wr_valid, wr_data)
      PROVE  [Fifo!Next]_Contents
  <2>1. Occupancy' = 0
    BY <1>2 DEF QueueReset, Occupancy
  <2>2. Contents' = <<>>
    BY <2>1, <1>new
  <2>3. QED
    BY <2>2 DEF Fifo!Next, Fifo!Flush
<1>3. CASE UNCHANGED queueVars
  BY <1>3 DEF queueVars, Contents, Occupancy
<1>4. QED
  BY <1>1, <1>2, <1>3 DEF QueueNext

\* The command queue of npu_queue.sv is a bounded FIFO for every depth and
\* command set: commands leave in the order they entered, none is lost while
\* it waits, none is duplicated or invented, and only reset discards them.
THEOREM QueueImplementsFifo == QueueSpec => ImplementsFifo
<1>1. QueueInit => Fifo!Init
  <2> SUFFICES ASSUME QueueInit PROVE Contents = <<>>
    BY DEF Fifo!Init
  <2>1. Occupancy = 0
    BY DEF QueueInit, Occupancy
  <2>2. QED
    BY <2>1, QueueInvInit, ContentsSeq DEF ContentsShape
<1>2. QueueInv /\ QueueInv' /\ [QueueNext]_queueVars => [Fifo!Next]_Contents
  BY QueueStepRefines
<1>3. QED
  BY <1>1, <1>2, QueueInvariant, PTL
    DEF QueueSpec, ImplementsFifo, Fifo!Spec

-----------------------------------------------------------------------------
(***************************************************************************)
(* The inductive invariant, in three parts that follow a command along its *)
(* way.  Each part gives the next the types of what it hands over.         *)
(***************************************************************************)

\* From the window to the decoder: the read port answers exactly in S_WAIT, so
\* word_cnt is the index of the word that arrives.
FetchInv ==
    /\ cmd_mem \in [WordIdx -> Word]
    /\ fetch_rdata_r \in Word
    /\ fetch_rvalid_r \in BOOLEAN
    /\ FetchTypeOK
    /\ FetchPortInStep

\* The decoder and the ring: what is offered without an error and what waits
\* has a valid opcode.
DecodeInv ==
    /\ DecodeTypeOK
    /\ cmd_valid => decode_cmd_r[0] \in ValidWord

RingValid == \A i \in 1 .. Occupancy :
                 mem[Slot(Advance(rd_ptr, i - 1))][0] \in ValidWord

\* The scheduler and the backends: outside S_WAIT every backend is idle, and in
\* S_WAIT the one the held command routes to works on it and owns the ports
\* while the others are idle.  It says what OneBackendAtATime says, command by
\* command, and is inductive with the types and the valid opcode beside it.
BackendsServe ==
    /\ sched_state # "S_WAIT" => \A b \in Backend : be_state[b] = "S_IDLE"
    /\ sched_state = "S_WAIT" =>
          /\ be_state[Route(sched_cmd_r)] # "S_IDLE"
          /\ be_cmd_r[Route(sched_cmd_r)] = sched_cmd_r
          /\ be_sel_r = Route(sched_cmd_r)
          /\ \A b \in Backend \ {Route(sched_cmd_r)} : be_state[b] = "S_IDLE"

ComputeInv ==
    /\ SchedTypeOK
    /\ BackendTypeOK
    /\ sched_state # "S_IDLE" => sched_cmd_r[0] \in ValidWord
    /\ BackendsServe

ShellInv == FetchInv /\ DecodeInv /\ QueueInv /\ RingValid /\ ComputeInv

-----------------------------------------------------------------------------
\* Power-on establishes the invariant.
LEMMA PathInvInit == PathInit => ShellInv
<1> SUFFICES ASSUME PathInit PROVE ShellInv
  OBVIOUS
<1>1. FetchInv
  <2>1. cmd_mem \in [WordIdx -> Word] /\ fetch_rdata_r \in Word /\ FetchTypeOK
    BY WordAssumption, NumWordsAssumption
      DEF PathInit, RegBlockInit, FetchInit, FetchTypeOK
  <2>2. fetch_rvalid_r = FALSE /\ fetch_state = "S_IDLE"
    BY DEF PathInit, RegBlockInit, FetchInit
  <2>3. QED
    BY <2>1, <2>2 DEF FetchInv, FetchPortInStep
<1>2. DecodeInv
  BY WordAssumption
    DEF PathInit, DecodeInit, DecodeInv, DecodeTypeOK, cmd_valid
<1>3. QueueInv
  BY DEF PathInit, QueueInv, QueueTypeOK, Ptr, Occupancy
<1>4. RingValid
  BY DEF PathInit, RingValid, Occupancy
<1>5. ComputeInv
  BY DEF PathInit, SchedInit, BackendInit, ComputeInv, SchedTypeOK, BackendTypeOK,
         BackendsServe
<1>6. QED
  BY <1>1, <1>2, <1>3, <1>4, <1>5 DEF ShellInv

\* The invariant holds at power-on.
LEMMA ShellInvInit == ShellInit => ShellInv
  BY PathInvInit DEF ShellInit

\* A write of the descriptor window stays inside it and writes a word.
LEMMA BusCmdWord ==
  ASSUME NEW bus \in Bus, bus.reg = "CMD_QUEUE"
  PROVE  bus.idx \in WordIdx /\ bus.word \in Word
  BY DEF Bus, NoWrite, WriteDoorbell, WriteIrqClear, WriteCtrl, WriteIrqEnable,
         WriteCmdWord, WriteDma, WriteDmaCtrl, WriteBuf

\* The window keeps its type, in and out of reset.
LEMMA CmdMemType ==
  ASSUME NEW bus \in Bus, cmd_mem \in [WordIdx -> Word], CmdMemClk(bus)
  PROVE  cmd_mem' \in [WordIdx -> Word]
  BY BusCmdWord DEF CmdMemClk

\* Fetching keeps the port in step with the FSM.
LEMMA FetchStep ==
  ASSUME FetchInv, NEW bus \in Bus,
         RegBlockClk(bus, cmd_rd_req, word_cnt),
         FetchClk(doorbell_r, fetch_rvalid_r)
  PROVE  FetchInv'
<1>1. cmd_mem' \in [WordIdx -> Word]
  BY CmdMemType DEF FetchInv, RegBlockClk
<1>2. fetch_rdata_r' \in Word /\ fetch_rvalid_r' \in BOOLEAN
  BY DEF FetchInv, FetchTypeOK, RegBlockClk, FetchPortClk, cmd_rd_req, WordIdx
<1>3. FetchTypeOK'
  BY NumWordsAssumption
    DEF FetchInv, FetchTypeOK, FetchClk, FetchAccept, FetchRead, FetchDeliver, FetchHold,
        desc_word_valid, desc_done, NextWord, fetchVars
<1>4. FetchPortInStep'
  BY DEF FetchInv, FetchTypeOK, FetchPortInStep, RegBlockClk, FetchPortClk, cmd_rd_req,
         FetchClk, FetchAccept, FetchRead, FetchDeliver, FetchHold, desc_word_valid,
         fetchVars
<1>5. QED
  BY <1>1, <1>2, <1>3, <1>4 DEF FetchInv

\* Decoding lets only valid opcodes through.
LEMMA DecodeStep ==
  ASSUME FetchInv, DecodeInv,
         DecodeClk(desc_word_valid(fetch_rvalid_r), word_cnt, fetch_rdata_r,
                   desc_done(fetch_rvalid_r), ~full)
  PROVE  DecodeInv'
<1>1. desc_regs' \in [WordIdx -> Word]
  BY DEF FetchInv, FetchTypeOK, DecodeInv, DecodeTypeOK, DecodeClk, DescRegsClk, WordIdx
<1>2. /\ decode_state' \in {"S_IDLE", "S_CHECK", "S_VALID"}
      /\ decode_cmd_r' \in [WordIdx -> Word]
      /\ err_r' \in BOOLEAN
  BY DEF DecodeInv, DecodeTypeOK, DecodeClk, DecodeStart, DecodeCheck, DecodeHandOver,
         DecodeHold
<1>3. cmd_valid' => decode_cmd_r'[0] \in ValidWord
  <2>1. CASE DecodeCheck
    BY <2>1 DEF DecodeCheck, cmd_valid
  <2>2. CASE decode_state' \in {"S_IDLE", "S_CHECK"}
    BY <2>2 DEF cmd_valid
  <2>3. CASE UNCHANGED <<decode_state, decode_cmd_r, err_r>>
    BY <2>3 DEF DecodeInv, cmd_valid
  <2>4. QED
    BY <2>1, <2>2, <2>3 DEF DecodeClk, DecodeStart, DecodeHandOver, DecodeHold
<1>4. QED
  BY <1>1, <1>2, <1>3 DEF DecodeInv, DecodeTypeOK

\* The commands in the ring stay valid when a valid one is pushed.
LEMMA RingStep ==
  ASSUME QueueInv, QueueInv', RingValid,
         NEW wr_valid \in BOOLEAN, NEW rd_ready \in BOOLEAN, NEW wr_data \in Cmd,
         wr_valid => wr_data[0] \in ValidWord,
         QueueClk(wr_valid, wr_data, rd_ready)
  PROVE  RingValid'
<1> DEFINE push == wr_valid /\ ~full
           pop == rd_ready /\ ~empty
           At(i) == Slot(Advance(rd_ptr, i))
<1>ptrs. /\ wr_ptr' = IF push THEN Advance(wr_ptr, 1) ELSE wr_ptr
         /\ rd_ptr' = IF pop THEN Advance(rd_ptr, 1) ELSE rd_ptr
         /\ mem' = IF push THEN [mem EXCEPT ![Slot(wr_ptr)] = wr_data] ELSE mem
  BY DEF QueueClk, QueueStore, MovePointers
<1>occ. /\ Occupancy \in 0 .. DEPTH
        /\ push => Occupancy < DEPTH
        /\ pop => Occupancy > 0
  BY FlagsFromPointers DEF QueueInv, QueueTypeOK
<1>push. push => wr_data[0] \in ValidWord
  OBVIOUS
<1> HIDE DEF push, pop
<1>old. ASSUME NEW i \in 0 .. DEPTH - 1, i < Occupancy
        PROVE  mem'[At(i)][0] \in ValidWord
  <2>1. mem[At(i)][0] \in ValidWord
    <3>1. i + 1 \in 1 .. Occupancy /\ (i + 1) - 1 = i
      BY <1>old, <1>occ
    <3>2. QED
      BY <3>1 DEF RingValid
  <2>2. push => At(i) # Slot(wr_ptr)
    BY <1>old, <1>occ DEF QueueInv, QueueTypeOK, Slot, Advance, Occupancy, Ptr
  <2>3. At(i) \in 0 .. DEPTH - 1
    BY DEF QueueInv, QueueTypeOK, Slot, Advance, Ptr
  <2>4. mem'[At(i)] = mem[At(i)]
    BY <1>ptrs, <2>2, <2>3 DEF QueueInv, QueueTypeOK
  <2>5. QED
    BY <2>1, <2>4
<1>new. push => mem'[At(Occupancy)][0] \in ValidWord
  <2> SUFFICES ASSUME push PROVE mem'[At(Occupancy)][0] \in ValidWord
    OBVIOUS
  <2>1. wr_ptr = Advance(rd_ptr, Occupancy)
    BY DEF QueueInv, QueueTypeOK, Advance, Occupancy, Ptr
  <2>2. mem'[Slot(wr_ptr)] = wr_data
    BY <1>ptrs, PointerRanges DEF QueueInv, QueueTypeOK
  <2>3. QED
    BY <2>1, <2>2, <1>push
<1>shift. ASSUME NEW i \in 1 .. Occupancy'
          PROVE  \E j \in 0 .. DEPTH :
                    /\ Advance(rd_ptr', i - 1) = Advance(rd_ptr, j)
                    /\ j < Occupancy \/ (push /\ j = Occupancy)
  <2> DEFINE j == IF pop THEN i ELSE i - 1
  <2>1. /\ j \in 0 .. DEPTH
        /\ Advance(rd_ptr', i - 1) = Advance(rd_ptr, j)
        /\ j < Occupancy \/ (push /\ j = Occupancy)
    BY <1>ptrs, <1>occ DEF QueueInv, QueueTypeOK, Advance, Occupancy, Ptr
  <2>2. QED
    BY <2>1
<1> QED
  <2> SUFFICES ASSUME NEW i \in 1 .. Occupancy'
               PROVE  mem'[Slot(Advance(rd_ptr', i - 1))][0] \in ValidWord
    BY DEF RingValid
  <2>1. PICK j \in 0 .. DEPTH :
             /\ Advance(rd_ptr', i - 1) = Advance(rd_ptr, j)
             /\ j < Occupancy \/ (push /\ j = Occupancy)
    BY <1>shift
  <2>2. CASE j < Occupancy
    <3>1. j \in 0 .. DEPTH - 1
      BY <2>2, <1>occ
    <3>2. QED
      BY <2>1, <2>2, <3>1, <1>old
  <2>3. CASE push /\ j = Occupancy
    BY <2>1, <2>3, <1>new
  <2>4. QED
    BY <2>1, <2>2, <2>3

\* The oldest command of a ring that is not empty is a valid command.
LEMMA RingHead ==
  ASSUME QueueInv, RingValid, ~empty
  PROVE  rd_data \in Cmd /\ rd_data[0] \in ValidWord
<1>1. Occupancy \in 1 .. DEPTH /\ 1 \in 1 .. Occupancy
  BY FlagsFromPointers DEF QueueInv, QueueTypeOK
<1>2. Advance(rd_ptr, 1 - 1) = rd_ptr
  BY DEF QueueInv, QueueTypeOK, Advance, Ptr
<1>3. mem[Slot(rd_ptr)] \in Cmd /\ mem[Slot(rd_ptr)][0] \in ValidWord
  BY <1>1, <1>2, PointerRanges DEF RingValid, QueueInv, QueueTypeOK
<1>4. QED
  BY <1>3 DEF rd_data

\* A clock edge keeps scheduler and backends in agreement.
LEMMA ComputeStep ==
  ASSUME QueueInv, RingValid, ComputeInv, NEW finish \in BOOLEAN,
         SchedClk(~empty, rd_data, be_ready(sched_cmd_r), be_done),
         BackendClk(dispatch_valid, sched_cmd_r, finish)
  PROVE  ComputeInv'
<1> DEFINE me == Route(sched_cmd_r)
<1>me. me \in Backend
  BY RouteAssumption DEF ComputeInv, SchedTypeOK
<1>types. BackendTypeOK'
  <2>1. be_state' \in [Backend -> {"S_IDLE", "S_WORK", "S_DONE"}]
    <3>1. ASSUME NEW b \in Backend
          PROVE  BackendNext(b, dispatch_valid, sched_cmd_r, finish)
                     \in {"S_IDLE", "S_WORK", "S_DONE"}
      BY DEF BackendNext, ComputeInv, BackendTypeOK
    <3>2. QED
      BY <3>1 DEF BackendClk
  <2>2. be_cmd_r' \in [Backend -> Cmd]
    BY DEF BackendClk, ComputeInv, BackendTypeOK, SchedTypeOK
  <2>3. be_sel_r' \in Backend \cup {DefaultBe}
    BY <1>me DEF BackendClk, SelectClk, ComputeInv, BackendTypeOK
  <2>4. QED
    BY <2>1, <2>2, <2>3 DEF BackendTypeOK
<1>1. CASE sched_state = "S_IDLE"
  <2>1. be_state' = be_state
    BY <1>1 DEF BackendClk, BackendNext, dispatch_valid, ComputeInv, BackendsServe,
                BackendTypeOK
  <2>2. \/ UNCHANGED schedVars
        \/ sched_state' = "S_ISSUE" /\ ~empty /\ sched_cmd_r' = rd_data
    BY <1>1 DEF SchedClk, SchedTake, SchedIssue, SchedRetire, SchedHold
  <2>3. SchedTypeOK' /\ sched_state' # "S_WAIT"
        /\ (sched_state' # "S_IDLE" => sched_cmd_r'[0] \in ValidWord)
    BY <1>1, <2>2, RingHead DEF SchedTypeOK, ComputeInv, schedVars
  <2>4. QED
    BY <1>1, <1>types, <2>1, <2>3 DEF ComputeInv, BackendsServe
<1>2. CASE sched_state = "S_ISSUE"
  <2>1. \A b \in Backend : be_state[b] = "S_IDLE"
    BY <1>2 DEF ComputeInv, BackendsServe
  <2>2. be_ready(sched_cmd_r) /\ dispatch_valid
    BY <1>2, <1>me, <2>1 DEF be_ready, dispatch_valid
  <2>3. sched_state' = "S_WAIT" /\ sched_cmd_r' = sched_cmd_r
    BY <1>2, <2>2 DEF SchedClk, SchedTake, SchedIssue, SchedRetire, SchedHold
  <2>4. /\ be_state'[me] = "S_WORK"
        /\ be_cmd_r'[me] = sched_cmd_r
        /\ be_sel_r' = me
        /\ \A b \in Backend \ {me} : be_state'[b] = "S_IDLE"
    BY <1>me, <2>1, <2>2 DEF BackendClk, BackendNext, SelectClk
  <2>5. QED
    BY <1>2, <1>types, <2>3, <2>4 DEF ComputeInv, BackendsServe, SchedTypeOK
<1>3. CASE sched_state = "S_WAIT"
  <2>1. /\ be_state[me] \in {"S_WORK", "S_DONE"}
        /\ be_cmd_r[me] = sched_cmd_r /\ be_sel_r = me
        /\ \A b \in Backend \ {me} : be_state[b] = "S_IDLE"
    BY <1>3, <1>me DEF ComputeInv, BackendsServe, BackendTypeOK
  <2>2. ~dispatch_valid
    BY <1>3 DEF dispatch_valid
  <2>3. /\ be_cmd_r' = be_cmd_r /\ be_sel_r' = be_sel_r
        /\ \A b \in Backend \ {me} : be_state'[b] = "S_IDLE"
    <3>1. be_cmd_r' = be_cmd_r
      BY <2>2 DEF BackendClk, ComputeInv, BackendTypeOK
    <3>2. be_sel_r' = be_sel_r
      BY <2>2 DEF BackendClk, SelectClk
    <3>3. QED
      BY <3>1, <3>2, <2>1, <2>2 DEF BackendClk, BackendNext
  <2>4. CASE be_state[me] = "S_WORK"
    <3>1. ~be_done
      BY <2>1, <2>4 DEF be_done
    <3>2. UNCHANGED schedVars
      BY <1>3, <3>1 DEF SchedClk, SchedTake, SchedIssue, SchedRetire, SchedHold
    <3>3. be_state'[me] \in {"S_WORK", "S_DONE"}
      BY <1>me, <2>4, <2>2 DEF BackendClk, BackendNext
    <3>4. QED
      BY <1>3, <1>me, <1>types, <2>1, <2>3, <3>2, <3>3
        DEF ComputeInv, BackendsServe, SchedTypeOK, schedVars
  <2>5. CASE be_state[me] = "S_DONE"
    <3>1. be_done
      BY <1>me, <2>5 DEF be_done
    <3>2. sched_state' = "S_IDLE" /\ sched_cmd_r' = sched_cmd_r
      BY <1>3, <3>1 DEF SchedClk, SchedTake, SchedIssue, SchedRetire, SchedHold
    <3>3. be_state'[me] = "S_IDLE"
      BY <1>me, <2>5, <2>2 DEF BackendClk, BackendNext
    <3>4. QED
      BY <1>types, <2>3, <3>2, <3>3 DEF ComputeInv, BackendsServe, SchedTypeOK
  <2>6. QED
    BY <2>1, <2>4, <2>5
<1>4. QED
  BY <1>1, <1>2, <1>3 DEF ComputeInv, SchedTypeOK

\* Reset leaves every part of the path as power-on does, but for the window,
\* which takes the host's write, and the ring, which may take a last push.
LEMMA ResetStep ==
  ASSUME ShellInv, NEW bus \in Bus, NEW env \in Env, ShellReset(bus, env)
  PROVE  ShellInv'
<1>1. FetchInv'
  <2>1. cmd_mem' \in [WordIdx -> Word]
    BY CmdMemType DEF ShellInv, FetchInv, ShellReset, RegBlockReset
  <2>2. fetch_rvalid_r' = FALSE /\ fetch_state' = "S_IDLE"
    BY DEF ShellReset, RegBlockReset, FetchReset
  <2>3. fetch_rdata_r' \in Word /\ FetchTypeOK'
    BY WordAssumption, NumWordsAssumption
      DEF ShellReset, RegBlockReset, FetchReset, FetchTypeOK
  <2>4. QED
    BY <2>1, <2>2, <2>3 DEF FetchInv, FetchPortInStep
<1>2. DecodeInv'
  BY WordAssumption DEF ShellReset, DecodeReset, DecodeInv, DecodeTypeOK, cmd_valid
<1>3. wr_ptr' = 0 /\ rd_ptr' = 0 /\ mem' \in [0 .. DEPTH - 1 -> Cmd]
  BY CmdAssumption, PointerRanges
    DEF ShellInv, DecodeInv, DecodeTypeOK, QueueInv, QueueTypeOK, ShellReset, QueueReset,
        QueueStore
<1>4. QueueInv' /\ RingValid'
  BY <1>3 DEF QueueInv, QueueTypeOK, RingValid, Ptr, Occupancy
<1>5. ComputeInv'
  BY DEF ShellReset, SchedReset, BackendReset, ComputeInv, SchedTypeOK, BackendTypeOK,
         BackendsServe
<1>6. QED
  BY <1>1, <1>2, <1>4, <1>5 DEF ShellInv

\* An edge out of reset keeps the invariant, part by part.
LEMMA RunStep ==
  ASSUME ShellInv, NEW bus \in Bus, NEW finish \in BOOLEAN, NEW env \in Env,
         ShellRun(bus, finish, env)
  PROVE  ShellInv'
<1> USE DEF ShellInv, ShellRun
<1>1. FetchInv'
  BY FetchStep
<1>2. DecodeInv'
  BY DecodeStep
<1>3. QueueInv'
  <2>1. cmd_valid \in BOOLEAN /\ queue_ready \in BOOLEAN
    BY DEF cmd_valid, queue_ready
  <2>2. decode_cmd_r \in Cmd
    BY CmdAssumption DEF DecodeInv, DecodeTypeOK
  <2>3. QueueNext
    BY <2>1, <2>2 DEF QueueNext
  <2>4. QED
    BY <2>3, QueueInvStep
<1>4. RingValid'
  <2>1. cmd_valid \in BOOLEAN /\ queue_ready \in BOOLEAN
    BY DEF cmd_valid, queue_ready
  <2>2. decode_cmd_r \in Cmd /\ (cmd_valid => decode_cmd_r[0] \in ValidWord)
    BY CmdAssumption DEF DecodeInv, DecodeTypeOK
  <2>3. QED
    BY <1>3, <2>1, <2>2, RingStep
<1>5. ComputeInv'
  BY ComputeStep
<1>6. QED
  BY <1>1, <1>2, <1>3, <1>4, <1>5

\* Every step of the shell keeps the invariant.
LEMMA ShellInvStep == ShellInv /\ [ShellNext]_shellVars => ShellInv'
<1> SUFFICES ASSUME ShellInv, [ShellNext]_shellVars PROVE ShellInv'
  OBVIOUS
<1>1. CASE ShellNext
  BY <1>1, ResetStep, RunStep DEF ShellNext, ShellClk
<1>2. CASE UNCHANGED shellVars
  <2>1. UNCHANGED <<regVars, fetchVars, decodeVars, queueVars, schedVars, backendVars>>
    BY <1>2 DEF shellVars
  <2>2. FetchInv' /\ DecodeInv'
    BY <2>1 DEF ShellInv, FetchInv, FetchTypeOK, FetchPortInStep, DecodeInv, DecodeTypeOK,
                cmd_valid, regVars, fetchVars, decodeVars
  <2>3. QueueInv' /\ RingValid'
    BY <2>1 DEF ShellInv, QueueInv, QueueTypeOK, RingValid, Occupancy, queueVars
  <2>4. ComputeInv'
    BY <2>1 DEF ShellInv, ComputeInv, SchedTypeOK, BackendTypeOK, BackendsServe,
                schedVars, backendVars
  <2>5. QED
    BY <2>2, <2>3, <2>4 DEF ShellInv
<1>3. QED
  BY <1>1, <1>2

\* The invariant of the command path, for any host.
THEOREM ShellInvariant == ShellSpec => []ShellInv
  BY ShellInvInit, ShellInvStep, PTL DEF ShellSpec

-----------------------------------------------------------------------------
\* Under the in-order scheduler at most one serial backend is busy, it owns the
\* memory ports and it works on the command the scheduler waits for (the
\* assertion of npu_core.sv), for any host and any set of backends; and the
\* scheduler never waits for a done pulse that nobody is going to give.
THEOREM ShellOneBackend == ShellSpec => []OneBackendAtATime
<1>1. ASSUME ShellInv, sched_state = "S_WAIT" PROVE be_state[Route(sched_cmd_r)] # "S_IDLE"
  BY <1>1 DEF ShellInv, ComputeInv, BackendsServe
<1>2. ShellInv => OneBackendAtATime
  <2> SUFFICES ASSUME ShellInv, NEW b \in Backend, be_state[b] # "S_IDLE"
               PROVE  /\ be_sel_r = b
                      /\ sched_state = "S_WAIT"
                      /\ be_cmd_r[b] = sched_cmd_r
                      /\ \A other \in Backend \ {b} : be_state[other] = "S_IDLE"
    BY <1>1 DEF OneBackendAtATime
  <2>1. sched_state = "S_WAIT"
    BY DEF ShellInv, ComputeInv, BackendsServe
  <2>2. b = Route(sched_cmd_r)
    BY <2>1 DEF ShellInv, ComputeInv, BackendsServe
  <2>3. QED
    BY <2>1, <2>2 DEF ShellInv, ComputeInv, BackendsServe
<1>3. QED
  BY <1>2, ShellInvariant, PTL

\* The register block answers npu_cmd_fetch exactly when it waits, whenever
\* doorbells and resets come.
THEOREM ShellFetchInStep == ShellSpec => []FetchPortInStep
<1>1. ShellInv => FetchPortInStep
  BY DEF ShellInv, FetchInv
<1>2. QED
  BY <1>1, ShellInvariant, PTL

\* Whatever the host writes and whenever it rings, nothing with a bad opcode is
\* ever queued, dispatched or run.
THEOREM ShellOnlyValid == ShellSpec => []OnlyValidCommands
<1>1. ShellInv => OnlyValidCommands
  <2> SUFFICES ASSUME ShellInv PROVE OnlyValidCommands
    OBVIOUS
  <2>1. \A i \in 1 .. Occupancy : Contents[i] = mem[Slot(Advance(rd_ptr, i - 1))]
    BY ContentsSeq DEF ShellInv, ContentsShape
  <2>2. QED
    BY <2>1 DEF ShellInv, RingValid, ComputeInv, OnlyValidCommands
<1>2. QED
  BY <1>1, ShellInvariant, PTL

-----------------------------------------------------------------------------
(***************************************************************************)
(* The types of the whole shell.                                           *)
(***************************************************************************)

\* Whatever a host of the shell writes fits the register it names.
LEMMA BusIsGood == \A bus \in Bus : GoodBus(bus)
<1> SUFFICES ASSUME NEW bus \in Bus PROVE GoodBus(bus)
  OBVIOUS
<1>1. CASE bus \in {NoWrite, WriteDoorbell, WriteIrqClear}
  BY <1>1 DEF GoodBus, NoWrite, WriteDoorbell, WriteIrqClear
<1>2. ASSUME NEW bits \in SUBSET {"SOFT_RESET", "ENABLE"}, bus = WriteCtrl(bits)
      PROVE  GoodBus(bus)
  BY <1>2 DEF GoodBus, WriteCtrl
<1>3. ASSUME NEW on \in BOOLEAN, bus = WriteIrqEnable(on) PROVE GoodBus(bus)
  BY <1>3 DEF GoodBus, WriteIrqEnable
<1>4. ASSUME NEW i \in WordIdx, NEW w \in Word, bus = WriteCmdWord(i, w)
      PROVE  GoodBus(bus)
  BY <1>4 DEF GoodBus, WriteCmdWord
<1>5. ASSUME NEW reg \in {"DMA_EXT_ADDR", "DMA_LOC_ADDR", "DMA_LEN"}, NEW val \in Nat,
             bus = WriteDma(reg, val)
      PROVE  GoodBus(bus)
  BY <1>5 DEF GoodBus, WriteDma
<1>6. CASE bus \in [reg : {"DMA_CTRL"}, start : BOOLEAN, dir : BOOLEAN]
  BY <1>6 DEF GoodBus
<1>7. ASSUME NEW a \in BufAddr, NEW d \in Data, bus = WriteBuf(a, d) PROVE GoodBus(bus)
  BY <1>7 DEF GoodBus, WriteBuf
<1>8. QED
  BY <1>1, <1>2, <1>3, <1>4, <1>5, <1>6, <1>7 DEF Bus

\* The synchronisers keep their types.
LEMMA ResetTypes ==
  ASSUME ResetTypeOK, NEW soft \in BOOLEAN, ResetClk(TRUE, soft)
  PROVE  ResetTypeOK'
<1>1. sync_chain' \in 0 .. STAGES
  BY StagesAssumption DEF ResetTypeOK, ResetClk, ChainClk
<1>2. soft_reset_sync1' \in BOOLEAN /\ soft_reset_sync2' \in BOOLEAN
  BY DEF ResetTypeOK, ResetClk, SoftClk, hard_rst_n
<1>3. QED
  BY <1>1, <1>2 DEF ResetTypeOK

\* Power-on has the types, whatever the memories hold, and every clock edge keeps
\* them.
LEMMA PathTypesInit == PathInit /\ DmaTypeOK /\ ResetTypeOK => ShellTypeOK
<1> SUFFICES ASSUME PathInit, DmaTypeOK, ResetTypeOK PROVE ShellTypeOK
  OBVIOUS
<1>1. FetchTypeOK /\ DecodeTypeOK /\ QueueTypeOK /\ SchedTypeOK /\ BackendTypeOK
  BY PathInvInit DEF ShellInv, FetchInv, DecodeInv, QueueInv, ComputeInv
<1>2. RegBlockTypeOK
  <2>1. /\ dma_ext_addr_r \in 0 .. ExtSpace - 1
        /\ dma_loc_addr_r \in 0 .. LocSpace - 1
        /\ dma_len_r \in 0 .. LenSpace - 1
    BY WidthAssumption DEF PathInit, RegBlockInit
  <2>2. /\ irq_en_reg \in BOOLEAN /\ doorbell_r \in BOOLEAN /\ irq_clear_r \in BOOLEAN
        /\ fetch_rvalid_r \in BOOLEAN /\ dma_start_r \in BOOLEAN /\ dma_dir_r \in BOOLEAN
    BY DEF PathInit, RegBlockInit
  <2>3. QED
    BY <2>1, <2>2, WordAssumption DEF PathInit, RegBlockInit, RegBlockTypeOK
<1>3. pending \in BOOLEAN
  BY DEF PathInit, IrqInit
<1>4. QED
  BY <1>1, <1>2, <1>3 DEF ShellTypeOK

\* The engines start with their types,
LEMMA DmaTypesInit ==
  ASSUME NEW b \in [BufAddr -> Data], NEW e \in [ExtAddr -> Data], DmaInit(b, e)
  PROVE  DmaTypeOK
  BY WindowAssumption, WidthAssumption
    DEF DmaInit, DmaTypeOK, IdleEngine, EngineType, ExtAddr, Answer

\* and so does the whole shell.
LEMMA ShellTypesInit == ShellInit => ShellTypeOK
<1> SUFFICES ASSUME ShellInit PROVE ShellTypeOK
  OBVIOUS
<1>1. DmaTypeOK
  <2>1. [a \in BufAddr |-> 0] \in [BufAddr -> Data] /\ [a \in ExtAddr |-> 0] \in [ExtAddr -> Data]
    BY WindowAssumption
  <2>2. QED
    BY <2>1, DmaTypesInit DEF ShellInit
<1>2. ResetTypeOK
  <2>1. sync_chain \in 0 .. STAGES
    BY StagesAssumption DEF ShellInit, ResetInit
  <2>2. soft_reset_sync1 \in BOOLEAN /\ soft_reset_sync2 \in BOOLEAN
    BY DEF ShellInit, ResetInit
  <2>3. QED
    BY <2>1, <2>2 DEF ResetTypeOK
<1>3. QED
  BY <1>1, <1>2, PathTypesInit DEF ShellInit

\* Types are kept on every edge.
LEMMA ShellTypesStep ==
  ASSUME ShellTypeOK, ShellInv', NEW bus, GoodBus(bus), NEW finish \in BOOLEAN,
         NEW env \in Env, ShellClk(bus, finish, env)
  PROVE  ShellTypeOK'
<1> USE DEF ShellTypeOK
<1>env. env.accept \in BOOLEAN /\ env.answer \in BOOLEAN /\ env.contended \in BOOLEAN
  BY DEF Env
<1>1. (FetchTypeOK /\ DecodeTypeOK /\ QueueTypeOK /\ SchedTypeOK /\ BackendTypeOK)'
  BY DEF ShellInv, FetchInv, DecodeInv, QueueInv, ComputeInv
<1>2. RegBlockTypeOK'
  <2>1. cmd_rd_req \in BOOLEAN /\ word_cnt \in WordIdx
    BY DEF cmd_rd_req, FetchTypeOK, WordIdx
  <2>2. RegBlockClk(bus, cmd_rd_req, word_cnt) \/ RegBlockReset(bus)
    BY DEF ShellClk, ShellRun, ShellReset
  <2>3. QED
    BY <2>1, <2>2, RegBlockTypes
<1>3. DmaTypeOK'
  BY <1>env, DmaTypes, DmaResetTypes DEF ShellClk, ShellRun, ShellReset
<1>4. pending' \in BOOLEAN
  BY DEF ShellClk, ShellRun, ShellReset, IrqClk, IrqReset
<1>5. ResetTypeOK'
  <2>1. soft_reset \in BOOLEAN
    BY DEF soft_reset
  <2>2. QED
    BY <2>1, ResetTypes DEF ShellClk
<1>6. QED
  BY <1>1, <1>2, <1>3, <1>4, <1>5

\* Type correctness of the shell, whatever the host writes: no counter, address
\* or pointer leaves its width, no FSM its states.
THEOREM ShellTypes == ShellSpec => []ShellTypeOK
<1>1. ShellTypeOK /\ ShellInv' /\ [ShellNext]_shellVars => ShellTypeOK'
  <2> SUFFICES ASSUME ShellTypeOK, ShellInv', [ShellNext]_shellVars PROVE ShellTypeOK'
    OBVIOUS
  <2>1. CASE ShellNext
    BY <2>1, BusIsGood, ShellTypesStep DEF ShellNext
  <2>2. CASE UNCHANGED shellVars
    <3>1. (FetchTypeOK /\ DecodeTypeOK /\ QueueTypeOK /\ SchedTypeOK /\ BackendTypeOK)'
      BY DEF ShellInv, FetchInv, DecodeInv, QueueInv, ComputeInv
    <3>2. RegBlockTypeOK' /\ DmaTypeOK' /\ pending' \in BOOLEAN /\ ResetTypeOK'
      BY <2>2 DEF shellVars, regVars, dmaRegVars, dmaVars, resetVars, ShellTypeOK,
                  RegBlockTypeOK, DmaTypeOK, ResetTypeOK
    <3>3. QED
      BY <3>1, <3>2 DEF ShellTypeOK
  <2>3. QED
    BY <2>1, <2>2
<1>2. QED
  BY <1>1, ShellTypesInit, ShellInvariant, PTL DEF ShellSpec

-----------------------------------------------------------------------------
(***************************************************************************)
(* When a descriptor is lost.                                              *)
(***************************************************************************)

\* How far the next fetch can be while the decoder is busy: it has not begun in
\* S_CHECK and has read nothing in the first cycle of S_VALID, and the decoder
\* only stays there when the queue was full on the last edge, so that at most
\* one command has left it since.
DropInv ==
    /\ decode_state = "S_CHECK" => fetch_state = "S_IDLE"
    /\ decode_state = "S_VALID" =>
          \/ fetch_state = "S_IDLE"
          \/ fetch_state = "S_READ" /\ word_cnt = 0
          \/ ~err_r /\ Occupancy >= DEPTH - 1

\* A full queue loses at most one entry on an edge.
LEMMA FullLosesOne ==
  ASSUME QueueInv, QueueInv', full, NEW wr_valid \in BOOLEAN, NEW rd_ready \in BOOLEAN,
         NEW wr_data \in Cmd, QueueClk(wr_valid, wr_data, rd_ready)
  PROVE  Occupancy' >= DEPTH - 1
<1>1. Occupancy = DEPTH
  BY FlagsFromPointers DEF QueueInv, QueueTypeOK
<1>2. wr_ptr' = wr_ptr /\ (rd_ptr' = rd_ptr \/ rd_ptr' = Advance(rd_ptr, 1))
  BY DEF QueueClk, MovePointers
<1>3. CASE rd_ptr' = rd_ptr
  BY <1>1, <1>2, <1>3 DEF Occupancy
<1>4. CASE rd_ptr' = Advance(rd_ptr, 1)
  <2>1. Occupancy' = DEPTH - 1
    BY <1>1, <1>2, <1>4 DEF QueueInv, QueueTypeOK, Occupancy, Advance, Ptr
  <2>2. QED
    BY <2>1
<1>5. QED
  BY <1>2, <1>3, <1>4

\* What a drop presupposes is kept on every edge.
LEMMA DropStep == ShellInv /\ ShellInv' /\ DropInv /\ [ShellNext]_shellVars => DropInv'
<1> SUFFICES ASSUME ShellInv, ShellInv', DropInv, [ShellNext]_shellVars PROVE DropInv'
  OBVIOUS
<1>1. ASSUME NEW bus \in Bus, NEW finish \in BOOLEAN, NEW env \in Env,
             ShellRun(bus, finish, env)
      PROVE  DropInv'
  <2>fetch. FetchClk(doorbell_r, fetch_rvalid_r)
    BY <1>1 DEF ShellRun
  <2>dec. \/ DecodeStart(desc_done(fetch_rvalid_r)) \/ DecodeCheck
          \/ DecodeHandOver(~full) \/ DecodeHold(desc_done(fetch_rvalid_r), ~full)
    BY <1>1 DEF ShellRun, DecodeClk
  <2>1. CASE DecodeStart(desc_done(fetch_rvalid_r))
    <3>1. fetch_state' = "S_IDLE" /\ decode_state' = "S_CHECK"
      BY <2>1, <2>fetch DEF DecodeStart, FetchClk, FetchAccept, FetchRead, FetchDeliver,
                            FetchHold, desc_done, desc_word_valid
    <3>2. QED
      BY <3>1 DEF DropInv
  <2>2. CASE DecodeCheck
    <3>1. fetch_state = "S_IDLE" /\ decode_state' = "S_VALID"
      BY <2>2 DEF DecodeCheck, DropInv
    <3>2. fetch_state' = "S_IDLE" \/ (fetch_state' = "S_READ" /\ word_cnt' = 0)
      <4>1. FetchAccept(doorbell_r) \/ FetchHold(doorbell_r, fetch_rvalid_r)
        BY <3>1, <2>fetch DEF FetchClk, FetchRead, FetchDeliver, desc_word_valid
      <4>2. QED
        BY <3>1, <4>1 DEF FetchAccept, FetchHold, fetchVars
    <3>3. QED
      BY <3>1, <3>2 DEF DropInv
  <2>3. CASE DecodeHandOver(~full)
    BY <2>3 DEF DecodeHandOver, DropInv
  <2>4. CASE DecodeHold(desc_done(fetch_rvalid_r), ~full)
    <3>1. CASE decode_state = "S_IDLE"
      BY <3>1, <2>4 DEF DecodeHold, DropInv
    <3>2. CASE decode_state = "S_VALID" /\ full /\ ~err_r
      <4>1. Occupancy' >= DEPTH - 1
        <5>1. cmd_valid \in BOOLEAN /\ queue_ready \in BOOLEAN /\ decode_cmd_r \in Cmd
          BY CmdAssumption DEF cmd_valid, queue_ready, ShellInv, DecodeInv, DecodeTypeOK
        <5>2. QueueClk(cmd_valid, decode_cmd_r, queue_ready)
          BY <1>1 DEF ShellRun
        <5>3. QueueInv /\ QueueInv'
          BY DEF ShellInv
        <5>4. QED
          BY <5>1, <5>2, <5>3, <3>2, FullLosesOne
      <4>2. QED
        BY <3>2, <4>1, <2>4 DEF DecodeHold, DropInv
    <3>3. QED
      BY <3>1, <3>2, <2>4 DEF DecodeHold, HandedOver
  <2>5. QED
    BY <2>dec, <2>1, <2>2, <2>3, <2>4
<1>2. ASSUME NEW bus, NEW env, ShellReset(bus, env)
      PROVE  DropInv'
  BY <1>2 DEF ShellReset, DecodeReset, DropInv
<1>3. CASE UNCHANGED shellVars
  BY <1>3 DEF shellVars, fetchVars, decodeVars, queueVars, DropInv, Occupancy
<1>4. QED
  BY <1>1, <1>2, <1>3 DEF ShellNext, ShellClk

\* Whatever the host does, npu_cmd_decode drops a complete descriptor only while
\* it holds a command that a full queue has refused.
THEOREM ShellDrops == ShellSpec => []DropsOnlyUnderBackpressure
<1>1. ShellInit => DropInv
  BY DEF ShellInit, PathInit, DecodeInit, DropInv
<1>2. ShellInv /\ DropInv => DropsOnlyUnderBackpressure
  <2> SUFFICES ASSUME ShellInv, DropInv, desc_done(fetch_rvalid_r), decode_busy
               PROVE  cmd_valid /\ Occupancy >= DEPTH - 1
    BY DEF DropsOnlyUnderBackpressure
  <2>1. fetch_state = "S_WAIT"
    BY DEF desc_done, desc_word_valid
  <2>2. decode_state = "S_VALID"
    BY <2>1 DEF ShellInv, DecodeInv, DecodeTypeOK, decode_busy, DropInv
  <2>3. QED
    BY <2>1, <2>2 DEF DropInv, cmd_valid
<1>3. QED
  BY <1>1, <1>2, DropStep, ShellInvariant, PTL DEF ShellSpec

-----------------------------------------------------------------------------
(***************************************************************************)
(* What one edge does to a single command on its way from the doorbell to  *)
(* the backend's done, and to an idle path: the lemmas that hosts which    *)
(* wait for their commands are proved about with.                          *)
(*                                                                         *)
(* Where a command is.  A host that waits has at most one command in the   *)
(* path, and the stages below follow it from the doorbell to the backend.  *)
(***************************************************************************)
FrontIdle == ~doorbell_r /\ fetch_state = "S_IDLE" /\ decode_state = "S_IDLE"
BackIdle == Contents = <<>> /\ sched_state = "S_IDLE"
Quiet == FrontIdle /\ BackIdle

\* No transfer runs or is about to start.
DmaIdle == rd.state = "S_IDLE" /\ wr.state = "S_IDLE" /\ ~dma_start_r

Fetching(id, w) ==
    /\ BackIdle /\ ~doorbell_r /\ decode_state = "S_IDLE"
    /\ cmd_mem = Whole(id)
    /\ word_cnt = w
    /\ \A i \in WordIdx : i < w => desc_regs[i] = id

Ringing(id) ==
    /\ BackIdle /\ doorbell_r /\ decode_state = "S_IDLE" /\ fetch_state = "S_IDLE"
    /\ cmd_mem = Whole(id)
Reading(id, w) == Fetching(id, w) /\ fetch_state = "S_READ"
Arriving(id, w) == Fetching(id, w) /\ fetch_state = "S_WAIT" /\ fetch_rdata_r = id
Checking(id) ==
    /\ BackIdle /\ ~doorbell_r /\ fetch_state = "S_IDLE"
    /\ decode_state = "S_CHECK" /\ desc_regs = Whole(id)
Offering(id) ==
    /\ BackIdle /\ ~doorbell_r /\ fetch_state = "S_IDLE"
    /\ decode_state = "S_VALID" /\ decode_cmd_r = Whole(id)
    /\ err_r <=> id \notin ValidWord
Queued(id) ==
    /\ FrontIdle /\ sched_state = "S_IDLE"
    /\ Contents = <<Whole(id)>>
Issuing(id) ==
    /\ FrontIdle /\ Contents = <<>>
    /\ sched_state = "S_ISSUE" /\ sched_cmd_r = Whole(id)
Running(id) ==
    /\ FrontIdle /\ Contents = <<>>
    /\ sched_state = "S_WAIT" /\ sched_cmd_r = Whole(id)

\* The stages in order: p clocks after the doorbell write the command is here.
LastStage == 2 * NUM_WORDS + 5
Stage(p, id) ==
    \/ p = 0 /\ Ringing(id)
    \/ \E w \in WordIdx : p = 2 * w + 1 /\ Reading(id, w)
    \/ \E w \in WordIdx : p = 2 * w + 2 /\ Arriving(id, w)
    \/ p = 2 * NUM_WORDS + 1 /\ Checking(id)
    \/ p = 2 * NUM_WORDS + 2 /\ Offering(id)
    \/ p = 2 * NUM_WORDS + 3 /\ Queued(id)
    \/ p = 2 * NUM_WORDS + 4 /\ Issuing(id)
    \/ p = LastStage /\ Running(id)

-----------------------------------------------------------------------------
\* The flag and the output of the queue, on its contents.
LEMMA QueueOutput ==
  ASSUME QueueInv
  PROVE  /\ Contents \in Seq(Cmd)
         /\ empty <=> Contents = <<>>
         /\ ~empty => rd_data = Head(Contents)
         /\ Contents = <<>> => ~full
<1>1. ContentsShape
  BY ContentsSeq
<1>2. /\ empty <=> Occupancy = 0
      /\ full <=> Occupancy = DEPTH
  BY FlagsFromPointers DEF QueueInv, QueueTypeOK
<1>3. empty <=> Contents = <<>>
  BY <1>1, <1>2 DEF ContentsShape
<1>4. Contents = <<>> => ~full
  BY <1>1, <1>2, DepthAssumption DEF ContentsShape
<1>5. ~empty => rd_data = Head(Contents)
  <2> SUFFICES ASSUME ~empty PROVE rd_data = Head(Contents)
    OBVIOUS
  <2>1. 1 \in 1 .. Occupancy
    BY <1>1, <1>2 DEF ContentsShape
  <2>2. Contents[1] = mem[Slot(Advance(rd_ptr, 1 - 1))]
    BY <1>1, <2>1 DEF ContentsShape
  <2>3. Advance(rd_ptr, 1 - 1) = rd_ptr
    BY DepthAssumption DEF QueueInv, QueueTypeOK, Advance, Ptr
  <2>4. Head(Contents) = Contents[1]
    BY <1>1, <1>3 DEF ContentsShape
  <2>5. QED
    BY <2>2, <2>3, <2>4 DEF rd_data
<1>6. QED
  BY <1>1, <1>3, <1>4, <1>5 DEF ContentsShape

\* What one edge out of reset does to the queue, as the shell wires it.
LEMMA QueueInShell ==
  ASSUME ShellInv, ShellInv', QueueClk(cmd_valid, decode_cmd_r, queue_ready)
  PROVE  LET push == cmd_valid /\ ~full
             pop == sched_state = "S_IDLE" /\ ~empty
         IN  /\ push /\ pop => Contents' = Append(Tail(Contents), decode_cmd_r)
             /\ push /\ ~pop => Contents' = Append(Contents, decode_cmd_r)
             /\ ~push /\ pop => Contents' = Tail(Contents)
             /\ ~push /\ ~pop => Contents' = Contents
<1>1. cmd_valid \in BOOLEAN /\ queue_ready \in BOOLEAN /\ decode_cmd_r \in Cmd
  BY CmdAssumption DEF cmd_valid, queue_ready, ShellInv, DecodeInv, DecodeTypeOK
<1>2. QueueInv /\ QueueInv'
  BY DEF ShellInv
<1>3. queue_ready <=> sched_state = "S_IDLE"
  BY DEF queue_ready
<1>4. QED
  BY <1>1, <1>2, <1>3, QueueEdge

-----------------------------------------------------------------------------
(***************************************************************************)
(* One command on its way.  Every lemma is about one clock edge out of     *)
(* reset.                                                                  *)
(***************************************************************************)
RunEdge(bus) ==
    /\ ShellInv /\ ShellInv'
    /\ \E finish \in BOOLEAN, env \in Env : ShellRun(bus, finish, env)

\* The front end does nothing without a doorbell, and a front end that has no
\* command to hand over leaves an idle back end idle.
LEMMA FrontStaysIdle ==
  ASSUME NEW bus, RunEdge(bus), FrontIdle, bus.reg # "DOORBELL"
  PROVE  FrontIdle'
<1>1. doorbell_r' = FALSE
  BY DEF RunEdge, ShellRun, RegBlockClk, ControlRegsClk
<1>2. fetch_state' = "S_IDLE"
  BY DEF RunEdge, ShellRun, FrontIdle, FetchClk, FetchAccept, FetchRead, FetchDeliver,
         FetchHold, desc_word_valid, fetchVars
<1>3. decode_state' = "S_IDLE"
  BY DEF RunEdge, ShellRun, FrontIdle, DecodeClk, DecodeStart, DecodeCheck, DecodeHandOver,
         DecodeHold, desc_done, desc_word_valid
<1>4. QED
  BY <1>1, <1>2, <1>3 DEF FrontIdle

\* The back end.
LEMMA BackStaysIdle ==
  ASSUME NEW bus, RunEdge(bus), BackIdle, ~cmd_valid
  PROVE  BackIdle' /\ ~be_done
<1>1. empty
  BY QueueOutput DEF RunEdge, ShellInv, BackIdle
<1>2. Contents' = <<>>
  BY <1>1, QueueInShell DEF RunEdge, ShellRun, BackIdle
<1>3. sched_state' = "S_IDLE"
  BY <1>1 DEF RunEdge, ShellRun, BackIdle, SchedClk, SchedTake, SchedIssue, SchedRetire,
              SchedHold, schedVars
<1>4. ~be_done
  BY DEF RunEdge, ShellInv, ComputeInv, BackendsServe, BackIdle, be_done
<1>5. QED
  BY <1>2, <1>3, <1>4 DEF BackIdle

\* Reset empties the path.
LEMMA ResetQuiets ==
  ASSUME ShellInv', NEW bus, NEW env, ShellReset(bus, env)
  PROVE  Quiet'
<1>1. doorbell_r' = FALSE
  BY DEF ShellReset, RegBlockReset, ControlRegsReset
<1>2. fetch_state' = "S_IDLE" /\ decode_state' = "S_IDLE" /\ sched_state' = "S_IDLE"
  BY DEF ShellReset, FetchReset, DecodeReset, SchedReset
<1>3. Contents' = <<>>
  <2>1. Occupancy' = 0
    BY DEF ShellReset, QueueReset, Occupancy
  <2>2. QueueInv'
    BY DEF ShellInv
  <2>3. ContentsShape'
    BY <2>2, ContentsSeq, PTL
  <2>4. QED
    BY <2>1, <2>3 DEF ContentsShape
<1>4. QED
  BY <1>1, <1>2, <1>3 DEF Quiet, FrontIdle, BackIdle

\* An idle path stays idle without a doorbell, and takes one.
LEMMA QuietStays ==
  ASSUME NEW bus, RunEdge(bus), Quiet, bus.reg # "DOORBELL"
  PROVE  Quiet' /\ ~be_done /\ ~decode_err
<1>1. ~cmd_valid /\ ~decode_err
  BY DEF Quiet, FrontIdle, cmd_valid, decode_err
<1>2. QED
  BY <1>1, FrontStaysIdle, BackStaysIdle DEF Quiet

\* A doorbell puts the descriptor in the window on its way.
LEMMA QuietRings ==
  ASSUME NEW id, RunEdge(WriteDoorbell), Quiet, cmd_mem = Whole(id)
  PROVE  Ringing(id)' /\ ~be_done /\ ~decode_err
<1>1. ~cmd_valid /\ ~decode_err
  BY DEF Quiet, FrontIdle, cmd_valid, decode_err
<1>2. BackIdle' /\ ~be_done
  BY <1>1, BackStaysIdle DEF Quiet
<1>3. doorbell_r' /\ cmd_mem' = cmd_mem
  BY DEF RunEdge, ShellRun, RegBlockClk, ControlRegsClk, CmdMemClk, WriteDoorbell
<1>4. fetch_state' = "S_IDLE"
  BY DEF RunEdge, ShellRun, Quiet, FrontIdle, FetchClk, FetchAccept, FetchRead, FetchDeliver,
         FetchHold, desc_word_valid, fetchVars
<1>5. decode_state' = "S_IDLE"
  BY DEF RunEdge, ShellRun, Quiet, FrontIdle, DecodeClk, DecodeStart, DecodeCheck,
         DecodeHandOver, DecodeHold, desc_done, desc_word_valid
<1>6. QED
  BY <1>1, <1>2, <1>3, <1>4, <1>5 DEF Ringing, Whole

\* An edge on which nobody rings or writes the window, and what it leaves alone.
PassEdge(bus) == RunEdge(bus) /\ bus.reg \notin {"DOORBELL", "CMD_QUEUE"}

\* The window and the doorbell on such an edge.
LEMMA IdleBus ==
  ASSUME NEW bus, PassEdge(bus)
  PROVE  doorbell_r' = FALSE /\ cmd_mem' = cmd_mem
  BY DEF PassEdge, RunEdge, ShellRun, RegBlockClk, ControlRegsClk, CmdMemClk

\* An edge without a write is one.
LEMMA NoWritePasses == RunEdge(NoWrite) => PassEdge(NoWrite)
  BY DEF PassEdge, NoWrite

\* From the doorbell to the first read.
LEMMA RingingStep ==
  ASSUME NEW id, NEW bus, PassEdge(bus), Ringing(id)
  PROVE  Reading(id, 0)' /\ ~be_done /\ ~decode_err
<1> USE DEF PassEdge
<1>1. ~cmd_valid /\ ~decode_err
  BY DEF Ringing, cmd_valid, decode_err
<1>2. BackIdle' /\ ~be_done
  BY <1>1, BackStaysIdle DEF Ringing
<1>3. fetch_state' = "S_READ" /\ word_cnt' = 0
  BY DEF RunEdge, ShellRun, Ringing, FetchClk, FetchAccept, FetchRead, FetchDeliver,
         FetchHold, desc_word_valid
<1>4. decode_state' = "S_IDLE"
  BY DEF RunEdge, ShellRun, Ringing, DecodeClk, DecodeStart, DecodeCheck,
         DecodeHandOver, DecodeHold, desc_done, desc_word_valid
<1>5. \A i \in WordIdx : ~(i < 0)
  BY DEF WordIdx
<1>6. QED
  BY <1>1, <1>2, <1>3, <1>4, <1>5, IdleBus DEF Ringing, Reading, Fetching, Whole

\* The read port takes the word out of the window.
LEMMA ReadingStep ==
  ASSUME NEW id, NEW w \in WordIdx, NEW bus, PassEdge(bus), Reading(id, w)
  PROVE  Arriving(id, w)' /\ ~be_done /\ ~decode_err
<1> USE DEF PassEdge, Reading, Fetching
<1>1. ~cmd_valid /\ ~decode_err
  BY DEF cmd_valid, decode_err
<1>2. BackIdle' /\ ~be_done
  BY <1>1, BackStaysIdle
<1>3. fetch_state' = "S_WAIT" /\ word_cnt' = w
  BY DEF RunEdge, ShellRun, FetchClk, FetchAccept, FetchRead, FetchDeliver,
         FetchHold, desc_word_valid
<1>4. fetch_rdata_r' = id
  BY DEF RunEdge, ShellRun, RegBlockClk, FetchPortClk, cmd_rd_req, Whole
<1>5. decode_state' = "S_IDLE" /\ desc_regs' = desc_regs
  BY DEF RunEdge, ShellRun, DecodeClk, DecodeStart, DecodeCheck, DescRegsClk,
         DecodeHandOver, DecodeHold, desc_done, desc_word_valid
<1>6. QED
  BY <1>1, <1>2, <1>3, <1>4, <1>5, IdleBus DEF Arriving, Whole

\* The decoder takes the word that arrives; the last one starts the check.
LEMMA ArrivingStep ==
  ASSUME NEW id, NEW w \in WordIdx, NEW bus, PassEdge(bus), Arriving(id, w)
  PROVE  /\ IF w = NUM_WORDS - 1 THEN Checking(id)' ELSE Reading(id, w + 1)'
         /\ ~be_done /\ ~decode_err
<1> USE DEF PassEdge, Arriving, Fetching
<1>1. ~cmd_valid /\ ~decode_err
  BY DEF cmd_valid, decode_err
<1>2. BackIdle' /\ ~be_done
  BY <1>1, BackStaysIdle
<1>3. fetch_rvalid_r
  BY DEF RunEdge, ShellInv, FetchInv, FetchPortInStep
<1>4. /\ fetch_state' = IF w = NUM_WORDS - 1 THEN "S_IDLE" ELSE "S_READ"
      /\ word_cnt' = IF w = NUM_WORDS - 1 THEN 0 ELSE w + 1
  BY <1>3 DEF RunEdge, ShellRun, FetchClk, FetchAccept, FetchRead, FetchDeliver,
              FetchHold, desc_word_valid, desc_done, NextWord
<1>5. decode_state' = IF w = NUM_WORDS - 1 THEN "S_CHECK" ELSE "S_IDLE"
  BY <1>3 DEF RunEdge, ShellRun, DecodeClk, DecodeStart, DecodeCheck,
              DecodeHandOver, DecodeHold, desc_done, desc_word_valid
<1>6. desc_regs' = [desc_regs EXCEPT ![w] = id] /\ desc_regs \in [WordIdx -> Word]
  BY <1>3 DEF RunEdge, ShellRun, ShellInv, DecodeInv, DecodeTypeOK, DecodeClk, DescRegsClk,
              desc_word_valid
<1>7. \A i \in WordIdx : i < w + 1 => desc_regs'[i] = id
  <2>1. ASSUME NEW i \in WordIdx, i < w + 1 PROVE i = w \/ i < w
    BY <2>1 DEF WordIdx
  <2>2. QED
    BY <2>1, <1>6
<1>8. CASE w = NUM_WORDS - 1
  <2>1. desc_regs' = Whole(id)
    <3>1. \A i \in WordIdx : i < w + 1
      BY <1>8, NumWordsAssumption DEF WordIdx
    <3>2. QED
      BY <3>1, <1>6, <1>7 DEF Whole
  <2>2. QED
    BY <2>1, <1>1, <1>2, <1>4, <1>5, <1>8, IdleBus DEF Checking, Whole
<1>9. CASE w # NUM_WORDS - 1
  BY <1>1, <1>2, <1>4, <1>5, <1>7, <1>9, IdleBus DEF Reading, Whole
<1>10. QED
  BY <1>8, <1>9

\* The opcode is looked at.
LEMMA CheckingStep ==
  ASSUME NEW id, NEW bus, PassEdge(bus), Checking(id)
  PROVE  Offering(id)' /\ ~be_done /\ ~decode_err
<1> USE DEF PassEdge, Checking
<1>1. ~cmd_valid /\ ~decode_err
  BY DEF cmd_valid, decode_err
<1>2. BackIdle' /\ ~be_done
  BY <1>1, BackStaysIdle
<1>3. fetch_state' = "S_IDLE"
  BY DEF RunEdge, ShellRun, FetchClk, FetchAccept, FetchRead, FetchDeliver,
         FetchHold, desc_word_valid, fetchVars
<1>4. /\ decode_state' = "S_VALID" /\ decode_cmd_r' = desc_regs
      /\ err_r' <=> desc_regs[0] \notin ValidWord
  BY DEF RunEdge, ShellRun, DecodeClk, DecodeStart, DecodeCheck, DecodeHandOver, DecodeHold
<1>5. desc_regs[0] = id
  BY NumWordsAssumption DEF Whole, WordIdx
<1>6. QED
  BY <1>1, <1>2, <1>3, <1>4, <1>5, IdleBus DEF Offering, Whole

\* An empty queue takes a good command at once; a bad one is refused.
LEMMA OfferingStep ==
  ASSUME NEW id, NEW bus, PassEdge(bus), Offering(id)
  PROVE  /\ ~be_done
         /\ IF id \in ValidWord THEN Queued(id)' /\ ~decode_err
                                ELSE Quiet' /\ decode_err /\ decode_cmd_r = Whole(id)
<1> USE DEF PassEdge, Offering
<1>1. empty /\ ~full
  BY QueueOutput DEF RunEdge, ShellInv, BackIdle
<1>2. ~be_done
  BY DEF RunEdge, ShellInv, ComputeInv, BackendsServe, BackIdle, be_done
<1>3. fetch_state' = "S_IDLE"
  BY DEF RunEdge, ShellRun, FetchClk, FetchAccept, FetchRead, FetchDeliver,
         FetchHold, desc_word_valid, fetchVars
<1>4. decode_state' = "S_IDLE"
  BY <1>1 DEF RunEdge, ShellRun, DecodeClk, DecodeStart, DecodeCheck, DecodeHandOver,
              DecodeHold, HandedOver
<1>5. FrontIdle'
  BY <1>3, <1>4, IdleBus DEF FrontIdle
<1>6. CASE id \in ValidWord
  <2>1. cmd_valid /\ ~decode_err
    BY <1>6 DEF cmd_valid, decode_err
  <2>2. Contents' = Append(Contents, decode_cmd_r)
    BY <1>1, <2>1, QueueInShell DEF RunEdge, ShellRun
  <2>3. Contents' = <<Whole(id)>>
    BY <2>2 DEF BackIdle
  <2>4. sched_state' = "S_IDLE"
    BY <1>1 DEF RunEdge, ShellRun, BackIdle, SchedClk, SchedTake, SchedIssue, SchedRetire,
                SchedHold, schedVars
  <2>5. QED
    BY <1>2, <1>5, <1>6, <2>1, <2>3, <2>4 DEF Queued, Whole
<1>7. CASE id \notin ValidWord
  <2>1. ~cmd_valid /\ decode_err
    BY <1>7 DEF cmd_valid, decode_err
  <2>2. BackIdle'
    BY <2>1, BackStaysIdle
  <2>3. QED
    BY <1>2, <1>5, <1>7, <2>1, <2>2 DEF Quiet
<1>8. QED
  BY <1>6, <1>7

\* The scheduler takes it, ...
LEMMA QueuedStep ==
  ASSUME NEW id, NEW bus, PassEdge(bus), Queued(id)
  PROVE  Issuing(id)' /\ ~be_done /\ ~decode_err
<1> USE DEF PassEdge, Queued
<1>1. FrontIdle' /\ ~cmd_valid /\ ~decode_err
  BY FrontStaysIdle DEF FrontIdle, cmd_valid, decode_err
<1>2. ~be_done
  BY DEF RunEdge, ShellInv, ComputeInv, BackendsServe, be_done
<1>3. ~empty /\ rd_data = Whole(id)
  <2>1. Contents # <<>> /\ Head(Contents) = Whole(id)
    OBVIOUS
  <2>2. QED
    BY <2>1, QueueOutput DEF RunEdge, ShellInv
<1>4. Contents' = <<>>
  <2>1. Contents' = Tail(Contents)
    BY <1>1, <1>3, QueueInShell DEF RunEdge, ShellRun
  <2>2. QED
    BY <2>1
<1>5. sched_state' = "S_ISSUE" /\ sched_cmd_r' = Whole(id)
  BY <1>3 DEF RunEdge, ShellRun, SchedClk, SchedTake, SchedIssue, SchedRetire, SchedHold
<1>6. QED
  BY <1>1, <1>2, <1>4, <1>5 DEF Issuing, Whole

\* ... a backend accepts it, since all of them are idle, ...
LEMMA IssuingStep ==
  ASSUME NEW id, NEW bus, PassEdge(bus), Issuing(id)
  PROVE  Running(id)' /\ ~be_done /\ ~decode_err
<1> USE DEF PassEdge, Issuing
<1>1. FrontIdle' /\ ~cmd_valid /\ ~decode_err
  BY FrontStaysIdle DEF FrontIdle, cmd_valid, decode_err
<1>2. \A b \in Backend : be_state[b] = "S_IDLE"
  BY DEF RunEdge, ShellInv, ComputeInv, BackendsServe
<1>3. ~be_done /\ be_ready(sched_cmd_r)
  BY <1>2, RouteAssumption DEF be_done, be_ready, RunEdge, ShellInv, ComputeInv, SchedTypeOK
<1>4. Contents' = <<>>
  BY <1>1, QueueInShell DEF RunEdge, ShellRun
<1>5. sched_state' = "S_WAIT" /\ sched_cmd_r' = Whole(id)
  BY <1>3 DEF RunEdge, ShellRun, SchedClk, SchedTake, SchedIssue, SchedRetire, SchedHold
<1>6. QED
  BY <1>1, <1>3, <1>4, <1>5 DEF Running, Whole

\* ... and runs it until it is done.
LEMMA RunningStep ==
  ASSUME NEW id, NEW bus, PassEdge(bus), Running(id)
  PROVE  /\ ~decode_err /\ sched_state = "S_WAIT" /\ sched_cmd_r = Whole(id)
         /\ id \in ValidWord
         /\ IF be_done THEN Quiet' ELSE Running(id)'
<1> USE DEF PassEdge, Running
<1>1. FrontIdle' /\ ~cmd_valid /\ ~decode_err
  BY FrontStaysIdle DEF FrontIdle, cmd_valid, decode_err
<1>2. id \in ValidWord
  BY NumWordsAssumption DEF RunEdge, ShellInv, ComputeInv, Whole, WordIdx
<1>3. Contents' = <<>>
  BY <1>1, QueueInShell DEF RunEdge, ShellRun
<1>4. IF be_done THEN sched_state' = "S_IDLE"
                 ELSE sched_state' = "S_WAIT" /\ sched_cmd_r' = sched_cmd_r
  BY DEF RunEdge, ShellRun, SchedClk, SchedTake, SchedIssue, SchedRetire, SchedHold, schedVars
<1>5. QED
  BY <1>1, <1>2, <1>3, <1>4 DEF Quiet, BackIdle, Whole

\* A command in the path gets one stage further with every clock, except that
\* the backend takes its time, and leaves it done or refused.
Refused(id) == ~be_done /\ decode_err /\ decode_cmd_r = Whole(id) /\ id \notin ValidWord
Finished(id) ==
    /\ be_done /\ ~decode_err
    /\ sched_state = "S_WAIT" /\ sched_cmd_r = Whole(id) /\ id \in ValidWord

\* One clock of a command on its way.
LEMMA StageStep ==
  ASSUME NEW id, NEW p \in 0 .. LastStage, NEW bus, PassEdge(bus), Stage(p, id)
  PROVE  \/ Quiet' /\ (Refused(id) \/ Finished(id))
         \/ /\ ~be_done /\ ~decode_err
            /\ \E q \in 0 .. LastStage : /\ Stage(q, id)'
                                         /\ q = p + 1 \/ (p = LastStage /\ q = p)
<1> USE NumWordsAssumption DEF LastStage
<1> DEFINE Goes(q) == /\ ~be_done /\ ~decode_err
                      /\ q \in 0 .. LastStage /\ Stage(q, id)'
                      /\ q = p + 1 \/ (p = LastStage /\ q = p)
           Ends == Quiet' /\ (Refused(id) \/ Finished(id))
<1>1. CASE p = 0 /\ Ringing(id)
  <2>1. Reading(id, 0)' /\ ~be_done /\ ~decode_err /\ 0 \in WordIdx
    BY <1>1, RingingStep DEF WordIdx
  <2>2. Goes(1)
    BY <1>1, <2>1 DEF Stage
  <2>3. QED
    BY <2>2
<1>2. CASE \E w \in WordIdx : p = 2 * w + 1 /\ Reading(id, w)
  <2>1. PICK w \in WordIdx : p = 2 * w + 1 /\ Reading(id, w)
    BY <1>2
  <2>2. Arriving(id, w)' /\ ~be_done /\ ~decode_err
    BY <2>1, ReadingStep
  <2>3. 2 * w + 2 \in 0 .. LastStage /\ 2 * w + 2 = p + 1
    BY <2>1 DEF WordIdx
  <2>4. Goes(2 * w + 2)
    BY <2>2, <2>3 DEF Stage
  <2>5. QED
    BY <2>4
<1>3. CASE \E w \in WordIdx : p = 2 * w + 2 /\ Arriving(id, w)
  <2>1. PICK w \in WordIdx : p = 2 * w + 2 /\ Arriving(id, w)
    BY <1>3
  <2>2. /\ IF w = NUM_WORDS - 1 THEN Checking(id)' ELSE Reading(id, w + 1)'
        /\ ~be_done /\ ~decode_err
    BY <2>1, ArrivingStep
  <2>3. CASE w = NUM_WORDS - 1
    <3>1. 2 * NUM_WORDS + 1 \in 0 .. LastStage /\ 2 * NUM_WORDS + 1 = p + 1
      BY <2>1, <2>3
    <3>2. Goes(2 * NUM_WORDS + 1)
      BY <2>2, <2>3, <3>1 DEF Stage
    <3>3. QED
      BY <3>2
  <2>4. CASE w # NUM_WORDS - 1
    <3>1. w + 1 \in WordIdx /\ 2 * (w + 1) + 1 \in 0 .. LastStage /\ 2 * (w + 1) + 1 = p + 1
      BY <2>1, <2>4 DEF WordIdx
    <3>2. Goes(2 * (w + 1) + 1)
      BY <2>2, <2>4, <3>1 DEF Stage
    <3>3. QED
      BY <3>2
  <2>5. QED
    BY <2>3, <2>4
<1>4. CASE p = 2 * NUM_WORDS + 1 /\ Checking(id)
  <2>1. Goes(2 * NUM_WORDS + 2)
    BY <1>4, CheckingStep DEF Stage
  <2>2. QED
    BY <2>1
<1>5. CASE p = 2 * NUM_WORDS + 2 /\ Offering(id)
  <2>1. CASE id \in ValidWord
    <3>1. Goes(2 * NUM_WORDS + 3)
      BY <1>5, <2>1, OfferingStep DEF Stage
    <3>2. QED
      BY <3>1
  <2>2. CASE id \notin ValidWord
    BY <1>5, <2>2, OfferingStep DEF Refused
  <2>3. QED
    BY <2>1, <2>2
<1>6. CASE p = 2 * NUM_WORDS + 3 /\ Queued(id)
  <2>1. Goes(2 * NUM_WORDS + 4)
    BY <1>6, QueuedStep DEF Stage
  <2>2. QED
    BY <2>1
<1>7. CASE p = 2 * NUM_WORDS + 4 /\ Issuing(id)
  <2>1. Goes(LastStage)
    BY <1>7, IssuingStep DEF Stage
  <2>2. QED
    BY <2>1
<1>8. CASE p = LastStage /\ Running(id)
  <2>1. CASE be_done
    BY <1>8, <2>1, RunningStep DEF Finished
  <2>2. CASE ~be_done
    <3>1. Goes(LastStage)
      BY <1>8, <2>2, RunningStep DEF Stage
    <3>2. QED
      BY <3>1
  <2>3. QED
    BY <2>1, <2>2
<1>9. QED
  BY <1>1, <1>2, <1>3, <1>4, <1>5, <1>6, <1>7, <1>8 DEF Stage

\* A command in the last stage keeps the device from reporting idle.
LEMMA RunningIsBusy ==
  ASSUME ShellInv', NEW id, Running(id)'
  PROVE  ~core_idle'
<1>1. Route(sched_cmd_r') \in Backend /\ be_state'[Route(sched_cmd_r')] # "S_IDLE"
  BY RouteAssumption DEF Running, ShellInv, ComputeInv, SchedTypeOK, BackendsServe
<1>2. QED
  BY <1>1 DEF core_idle, be_busy

-----------------------------------------------------------------------------
\* The synchronisers: a soft reset takes two clocks to arrive, and an edge is
\* in reset exactly when it has arrived or the hard reset has not been released.
LEMMA SyncStep ==
  ASSUME ResetTypeOK, ResetClk(TRUE, soft_reset)
  PROVE  /\ hard_rst_n => /\ hard_rst_n'
                          /\ soft_reset_sync1' <=> soft_reset
                          /\ soft_reset_sync2' <=> soft_reset_sync1
         /\ ~hard_rst_n => /\ sync_chain' = sync_chain + 1
                           /\ ~soft_reset_sync1' /\ ~soft_reset_sync2'
         /\ InReset <=> ~hard_rst_n \/ soft_reset_sync1 \/ soft_reset_sync2
<1>1. hard_rst_n => hard_rst_n'
  BY StagesAssumption DEF ResetTypeOK, ResetClk, ChainClk, hard_rst_n
<1>2. ~hard_rst_n => sync_chain' = sync_chain + 1
  BY StagesAssumption DEF ResetTypeOK, ResetClk, ChainClk, hard_rst_n
<1>3. /\ soft_reset_sync1' <=> hard_rst_n /\ hard_rst_n' /\ soft_reset
      /\ soft_reset_sync2' <=> hard_rst_n /\ hard_rst_n' /\ soft_reset_sync1
  BY DEF ResetClk, SoftClk
<1>4. InReset <=> ~hard_rst_n \/ soft_reset_sync2 \/ ~hard_rst_n' \/ soft_reset_sync2'
  BY DEF InReset, rst_n
<1>5. QED
  BY <1>1, <1>2, <1>3, <1>4
=============================================================================
