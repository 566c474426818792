---------------------------- MODULE DriverProofs ----------------------------
(***************************************************************************)
(* Proofs about the kernel driver over the shell, for every number of      *)
(* threads, calls and descriptor words and every queue depth: who owns the *)
(* lock and the interrupt line, and what a successful call or transfer     *)
(* means.                                                                  *)
(***************************************************************************)
EXTENDS Driver, NpuShellProofs, FiniteSetTheorems

-----------------------------------------------------------------------------
(***************************************************************************)
(* Threads, the lock and the interrupt line.                               *)
(***************************************************************************)

\* Where a thread has the mutex, and where its descriptor is being submitted.
Held == {"write", "arm", "enable", "ring", "wait", "disable",
         "loc", "len", "ctrl", "poll", "clear"}
Submitting == {"write", "arm", "enable", "ring", "wait", "disable"}

ThreadType == [pc : SubmitPcs \cup DmaPcs \cup {"idle", "delay"},
               id : 0 .. MaxSubmits, word : 0 .. NUM_WORDS]

\* A thread in lgnpu_cmd_submit has a command, and has written as much of it as
\* its place in the call says.
ThreadOK(r) ==
    /\ r \in ThreadType
    /\ r.pc \in SubmitPcs => r.id \in 1 .. MaxSubmits
    /\ r.pc \notin Submitting => r.word = 0
    /\ r.pc = "write" => r.word < NUM_WORDS
    /\ r.pc \in Submitting \ {"write"} => r.word = NUM_WORDS

ThreadInv ==
    /\ th \in [Threads -> ThreadType]
    /\ \A t \in Threads : ThreadOK(th[t])

\* The mutex has one owner, the thread that is where it is held.
LockInv ==
    /\ cmd_lock \in Threads \cup {NoThread}
    /\ \A t \in Threads : th[t].pc \in Held <=> cmd_lock = t

SoftTypes ==
    /\ faults \in FaultSets
    /\ drv \in {"mmio", "irq", "reset", "delay", "enable", "feature", "register",
                "failed", "bound", "removing", "gone"}
    /\ cmd_done \in Nat
    /\ h_pc \in {"off", "read", "clear", "complete"}
    /\ calls \in [submit : 0 .. MaxSubmits, dma : 0 .. MaxDmas, reset : 0 .. MaxResets]
    /\ result \in [submit : SUBSET (1 .. MaxSubmits), dma : Nat]

SoftInv == ThreadInv /\ LockInv /\ SoftTypes

\* A thread that moves from one place to another takes or gives back the mutex
\* as it should.
LEMMA ThreadMoves ==
  ASSUME ThreadInv, LockInv, NEW t \in Threads, NEW r, ThreadOK(r),
         th' = [th EXCEPT ![t] = r],
         \/ r.pc \in Held /\ cmd_lock' = t /\ cmd_lock \in {t, NoThread}
         \/ r.pc \notin Held /\ th[t].pc \in Held /\ cmd_lock' = NoThread
         \/ r.pc \notin Held /\ th[t].pc \notin Held /\ cmd_lock' = cmd_lock
  PROVE  ThreadInv' /\ LockInv'
<1> USE DriverAssumption DEF ThreadInv, LockInv, NoThread
<1>1. r \in ThreadType
  BY DEF ThreadOK
<1>2. th' \in [Threads -> ThreadType]
  BY <1>1
<1>3. \A u \in Threads : th'[u] = IF u = t THEN r ELSE th[u]
  OBVIOUS
<1>4. \A u \in Threads : ThreadOK(th[u])'
  BY <1>3 DEF ThreadOK, ThreadType
<1>5. ThreadInv'
  BY <1>2, <1>4 DEF ThreadType
<1>6. CASE r.pc \in Held /\ cmd_lock' = t /\ cmd_lock \in {t, NoThread}
  BY <1>3, <1>5, <1>6
<1>7. CASE r.pc \notin Held /\ th[t].pc \in Held /\ cmd_lock' = NoThread
  BY <1>3, <1>5, <1>7
<1>8. CASE r.pc \notin Held /\ th[t].pc \notin Held /\ cmd_lock' = cmd_lock
  BY <1>3, <1>5, <1>8
<1>9. QED
  BY <1>6, <1>7, <1>8

\* Goto and Return, as such moves.
LEMMA GotoMoves ==
  ASSUME ThreadInv, LockInv, NEW t \in Threads, NEW pc \in SubmitPcs \cup DmaPcs,
         Goto(t, pc),
         \/ th[t].pc \in Submitting \ {"write"} /\ pc \in Submitting \ {"write"}
         \/ th[t].pc = "submit" /\ pc = "write"
         \/ th[t].pc \in DmaPcs /\ pc \in DmaPcs,
         \/ pc \in Held /\ cmd_lock' = t /\ cmd_lock \in {t, NoThread}
         \/ pc \notin Held /\ th[t].pc \in Held /\ cmd_lock' = NoThread
         \/ pc \notin Held /\ th[t].pc \notin Held /\ cmd_lock' = cmd_lock
  PROVE  ThreadInv' /\ LockInv'
<1> DEFINE r == [th[t] EXCEPT !.pc = pc]
<1>1. ThreadOK(th[t])
  BY DEF ThreadInv
<1>2. r.pc = pc /\ r.id = th[t].id /\ r.word = th[t].word /\ r \in ThreadType
  BY <1>1 DEF ThreadOK, ThreadType
<1>3. th' = [th EXCEPT ![t] = r]
  BY DEF Goto
<1>4. ThreadOK(r)
  BY <1>1, <1>2, NumWordsAssumption DEF ThreadOK, Submitting, SubmitPcs, DmaPcs
<1> HIDE DEF r
<1>5. QED
  BY <1>2, <1>3, <1>4, ThreadMoves

\* Returning from a call gives the mutex back, if the thread has it.
LEMMA ReturnMoves ==
  ASSUME ThreadInv, LockInv, NEW t \in Threads, Return(t),
         \/ th[t].pc \in Held /\ cmd_lock' = NoThread
         \/ th[t].pc \notin Held /\ cmd_lock' = cmd_lock
  PROVE  ThreadInv' /\ LockInv'
<1>1. Idle.pc = "idle" /\ Idle.word = 0 /\ ThreadOK(Idle)
  BY DriverAssumption, NumWordsAssumption
    DEF Idle, ThreadOK, ThreadType, Submitting, SubmitPcs
<1>2. th' = [th EXCEPT ![t] = Idle]
  BY DEF Return
<1> HIDE DEF Idle
<1>3. QED
  BY <1>1, <1>2, ThreadMoves DEF Held

\* A new call starts outside the mutex, a submission with the next command.
LEMMA EnterMoves ==
  ASSUME SoftInv, NEW t \in Threads,
         NEW k \in {"submit", "dma", "reset"}, NEW pc,
         \/ k = "submit" /\ pc = "submit" /\ Enter(t, k, MaxSubmits, pc)
         \/ k = "dma" /\ pc = "ext" /\ Enter(t, k, MaxDmas, pc)
         \/ k = "reset" /\ pc = "delay" /\ Enter(t, k, MaxResets, pc)
  PROVE  SoftInv'
<1> USE DriverAssumption DEF Enter
<1> DEFINE id == IF k = "submit" THEN calls[k] + 1 ELSE 0
           r == [th[t] EXCEPT !.pc = pc, !.id = id]
<1>1. ThreadOK(th[t]) /\ th[t].pc = "idle" /\ SoftTypes /\ LockInv /\ ThreadInv
  BY DEF SoftInv, ThreadInv, At
<1>2. calls' \in [submit : 0 .. MaxSubmits, dma : 0 .. MaxDmas, reset : 0 .. MaxResets]
      /\ id \in 0 .. MaxSubmits /\ (k = "submit" => id \in 1 .. MaxSubmits)
  BY <1>1 DEF SoftTypes
<1>3. r.pc = pc /\ r.id = id /\ r.word = th[t].word /\ r \in ThreadType
  BY <1>1, <1>2 DEF ThreadOK, ThreadType, SubmitPcs, DmaPcs
<1>4. th' = [th EXCEPT ![t] = r]
  BY DEF At
<1>5. ThreadOK(r)
  BY <1>1, <1>2, <1>3, NumWordsAssumption DEF ThreadOK, Submitting, SubmitPcs
<1> HIDE DEF r, id
<1>6. ThreadInv' /\ LockInv'
  BY <1>1, <1>3, <1>4, <1>5, ThreadMoves DEF Held
<1>7. SoftTypes'
  BY <1>1, <1>2 DEF SoftTypes
<1>8. QED
  BY <1>6, <1>7 DEF SoftInv

\* lgnpu_cmd_submit.
LEMMA SubmitSoft ==
  ASSUME SoftInv, NEW t \in Threads, NEW env,
         \/ SubmitCheck(t, env) \/ SubmitWrite(t, env) \/ SubmitArm(t) \/ SubmitEnable(t, env)
         \/ SubmitRing(t, env) \/ Completed(t) \/ TimedOut(t) \/ Interrupted(t)
         \/ SubmitDisable(t, env)
  PROVE  SoftInv'
<1> USE DEF SoftInv, At, exceptThread
<1>own. ThreadOK(th[t]) /\ (th[t].pc \in Held => cmd_lock = t)
  BY DEF ThreadInv, LockInv
<1>1. CASE SubmitCheck(t, env)
  <2>1. SoftTypes' /\ th[t].pc = "submit" /\ cmd_lock = NoThread
    BY <1>1 DEF SubmitCheck, SoftTypes, mutex_free
  <2>2. CASE Leave(t)
    BY <1>own, <2>1, <2>2, ReturnMoves DEF Leave, Held
  <2>3. CASE cmd_lock' = t /\ Goto(t, "write")
    BY <2>1, <2>3, GotoMoves DEF Held, SubmitPcs
  <2>4. QED
    BY <1>1, <2>2, <2>3 DEF SubmitCheck
<1>2. CASE SubmitWrite(t, env)
  <2> DEFINE pc == IF th[t].word = NUM_WORDS - 1 THEN "arm" ELSE "write"
             r == [th[t] EXCEPT !.pc = pc, !.word = @ + 1]
  <2>1. SoftTypes' /\ th[t].pc = "write" /\ cmd_lock' = cmd_lock
    BY <1>2 DEF SubmitWrite, SoftTypes
  <2>2. r.pc = pc /\ r.id = th[t].id /\ r.word = th[t].word + 1 /\ r \in ThreadType
    <3>1. th[t].word + 1 \in 0 .. NUM_WORDS /\ pc \in SubmitPcs /\ th[t] \in ThreadType
      BY <1>own, <2>1, NumWordsAssumption DEF ThreadOK, ThreadType, SubmitPcs
    <3> HIDE DEF pc
    <3>2. QED
      BY <3>1 DEF ThreadType
  <2>3. th' = [th EXCEPT ![t] = r]
    BY <1>2 DEF SubmitWrite
  <2>4. ThreadOK(r)
    BY <1>own, <2>1, <2>2, NumWordsAssumption DEF ThreadOK, ThreadType, Submitting, SubmitPcs
  <2>5. r.pc \in Held /\ cmd_lock = t
    BY <1>own, <2>1, <2>2 DEF Held
  <2> HIDE DEF r
  <2>6. QED
    BY <2>1, <2>3, <2>4, <2>5, ThreadMoves
<1>3. CASE SubmitArm(t)
  <2>1. SoftTypes' /\ th[t].pc = "arm" /\ cmd_lock' = cmd_lock /\ Goto(t, "enable")
    BY <1>3 DEF SubmitArm, SoftTypes, reinit_completion
  <2>2. QED
    BY <1>own, <2>1, GotoMoves DEF Held, SubmitPcs, Submitting
<1>4. CASE SubmitEnable(t, env)
  <2>1. SoftTypes' /\ th[t].pc = "enable" /\ cmd_lock' = cmd_lock /\ Goto(t, "ring")
    BY <1>4 DEF SubmitEnable, SoftTypes
  <2>2. QED
    BY <1>own, <2>1, GotoMoves DEF Held, SubmitPcs, Submitting
<1>5. CASE SubmitRing(t, env)
  <2>1. SoftTypes' /\ th[t].pc = "ring" /\ cmd_lock' = cmd_lock /\ Goto(t, "wait")
    BY <1>5 DEF SubmitRing, SoftTypes
  <2>2. QED
    BY <1>own, <2>1, GotoMoves DEF Held, SubmitPcs, Submitting
<1>6. CASE Completed(t) \/ TimedOut(t) \/ Interrupted(t)
  <2>1. th[t].pc = "wait" /\ cmd_lock' = cmd_lock /\ Goto(t, "disable")
    BY <1>6 DEF Completed, TimedOut, Interrupted
  <2>2. SoftTypes'
    <3>1. CASE Completed(t)
      <4>1. th[t].id \in 1 .. MaxSubmits
        BY <1>own, <2>1 DEF ThreadOK, SubmitPcs
      <4>2. cmd_done' \in Nat
        BY <3>1 DEF Completed, completion_done, SoftTypes
      <4>3. QED
        BY <3>1, <4>1, <4>2 DEF Completed, SoftTypes
    <3>2. CASE TimedOut(t) \/ Interrupted(t)
      BY <3>2 DEF TimedOut, Interrupted, SoftTypes
    <3>3. QED
      BY <1>6, <3>1, <3>2
  <2>3. QED
    BY <1>own, <2>1, <2>2, GotoMoves DEF Held, SubmitPcs, Submitting
<1>7. CASE SubmitDisable(t, env)
  <2>1. SoftTypes' /\ th[t].pc = "disable" /\ Leave(t)
    BY <1>7 DEF SubmitDisable, SoftTypes
  <2>2. QED
    BY <2>1, ReturnMoves DEF Leave, Held
<1>8. QED
  BY <1>1, <1>2, <1>3, <1>4, <1>5, <1>6, <1>7

\* lgnpu_dma_transfer, and the return from a reset.
LEMMA DmaSoft ==
  ASSUME SoftInv, NEW t \in Threads, NEW env,
         \/ DmaProgram(t, env) \/ DmaPoll(t, env) \/ DmaReturn(t, env) \/ DmaTimedOut(t)
         \/ ResetReturn(t)
  PROVE  SoftInv'
<1> USE DEF SoftInv, At, exceptThread
<1>own. ThreadOK(th[t]) /\ (th[t].pc \in Held => cmd_lock = t)
  BY DEF ThreadInv, LockInv
<1>1. CASE DmaProgram(t, env)
  <2>1. SoftTypes' /\ cmd_lock' = t
    BY <1>1 DEF DmaProgram, SoftTypes
  <2>2. PICK pc \in {"loc", "len", "ctrl", "poll"} :
            th[t].pc \in {"ext", "loc", "len", "ctrl"} /\ Goto(t, pc)
    BY <1>1 DEF DmaProgram
  <2>3. cmd_lock \in {t, NoThread}
    BY <1>own, <1>1 DEF DmaProgram, mutex_free, Held
  <2>4. QED
    BY <2>1, <2>2, <2>3, GotoMoves DEF Held, DmaPcs
<1>2. CASE DmaPoll(t, env)
  <2>1. SoftTypes' /\ th[t].pc = "poll" /\ cmd_lock' = cmd_lock
    BY <1>2 DEF DmaPoll, SoftTypes
  <2>2. PICK pc \in {"poll", "clear"} : Goto(t, pc)
    BY <1>2 DEF DmaPoll
  <2>3. QED
    BY <1>own, <2>1, <2>2, GotoMoves DEF Held, DmaPcs
<1>3. CASE DmaReturn(t, env)
  <2>1. SoftTypes' /\ th[t].pc = "clear" /\ Leave(t)
    BY <1>3 DEF DmaReturn, SoftTypes
  <2>2. QED
    BY <2>1, ReturnMoves DEF Leave, Held
<1>4. CASE DmaTimedOut(t)
  <2>1. SoftTypes' /\ th[t].pc = "poll" /\ Leave(t)
    BY <1>4 DEF DmaTimedOut, SoftTypes
  <2>2. QED
    BY <2>1, ReturnMoves DEF Leave, Held
<1>5. CASE ResetReturn(t)
  <2>1. SoftTypes' /\ th[t].pc = "delay" /\ Return(t) /\ cmd_lock' = cmd_lock
    BY <1>5 DEF ResetReturn, SoftTypes
  <2>2. QED
    BY <2>1, ReturnMoves DEF Held
<1>6. QED
  BY <1>1, <1>2, <1>3, <1>4, <1>5

\* The rest leaves the threads and the mutex alone.
LEMMA OtherSoft ==
  ASSUME SoftInv, UNCHANGED <<th, cmd_lock>>, SoftTypes'
  PROVE  SoftInv'
  BY DEF SoftInv, ThreadInv, ThreadOK, ThreadType, LockInv

\* Every step of the system keeps threads and mutex in step.
LEMMA SoftStep == SoftInv /\ [Next]_vars => SoftInv'
<1> SUFFICES ASSUME SoftInv, [Next]_vars PROVE SoftInv'
  OBVIOUS
<1>1. ASSUME NEW env, Pause(env) \/ HandlerBus(env) \/ ProbeHardware(env) \/ Remove(env)
      PROVE  SoftInv'
  <2>1. UNCHANGED <<th, cmd_lock>> /\ SoftTypes'
    BY <1>1 DEF Pause, HandlerBus, HandlerRead, HandlerClear, ProbeHardware, Remove, DrvOnly,
                softVars, exceptHandler, SoftInv, SoftTypes
  <2>2. QED
    BY <2>1, OtherSoft
<1>2. ASSUME NEW env, NEW t \in Threads, ThreadBus(t, env) PROVE SoftInv'
  BY <1>2, SubmitSoft, DmaSoft DEF ThreadBus
<1>3. ASSUME NEW env, NEW t \in Threads, CallReset(t, env) PROVE SoftInv'
  BY <1>3, EnterMoves DEF CallReset
<1>4. ASSUME NEW env, NEW t \in Threads, CallEnable(t, env) PROVE SoftInv'
  <2>1. UNCHANGED <<th, cmd_lock>> /\ SoftTypes'
    BY <1>4 DEF CallEnable, softVars, SoftInv, SoftTypes
  <2>2. QED
    BY <2>1, OtherSoft
<1>5. ASSUME \/ ProbeSoftware \/ ProbeFails \/ Removed \/ HandlerInvoked \/ HandlerComplete
      PROVE  SoftInv'
  <2>1. UNCHANGED <<th, cmd_lock>> /\ SoftTypes'
    BY <1>5 DEF ProbeSoftware, ProbeFails, Removed, HandlerInvoked, HandlerComplete, DrvOnly,
                exceptHandler, complete, SoftInv, SoftTypes
  <2>2. QED
    BY <2>1, OtherSoft
<1>6. ASSUME NEW t \in Threads,
             CallSubmit(t) \/ CallDma(t) \/ ThreadSoftware(t) \/ Interrupted(t)
      PROVE  SoftInv'
  BY <1>6, EnterMoves, SubmitSoft, DmaSoft DEF CallSubmit, CallDma, ThreadSoftware
<1>7. CASE UNCHANGED vars
  <2>1. UNCHANGED <<th, cmd_lock>> /\ SoftTypes'
    BY <1>7 DEF vars, softVars, SoftInv, SoftTypes
  <2>2. QED
    BY <2>1, OtherSoft
<1>8. QED
  BY <1>1, <1>2, <1>3, <1>4, <1>5, <1>6, <1>7 DEF Next, Clocked, SoftwareOnly

\* They start that way.
LEMMA SoftInit == Init => SoftInv
<1> SUFFICES ASSUME Init PROVE SoftInv
  OBVIOUS
<1>1. ThreadOK(Idle) /\ Idle.pc = "idle"
  BY DriverAssumption, NumWordsAssumption
    DEF Idle, ThreadOK, ThreadType, Submitting, SubmitPcs
<1>2. Idle \in ThreadType
  BY <1>1 DEF ThreadOK
<1> HIDE DEF Idle
<1>3. ThreadInv
  BY <1>1, <1>2 DEF Init, ThreadInv
<1>4. LockInv
  BY <1>1, DriverAssumption DEF Init, LockInv, Held, NoThread
<1>5. SoftTypes
  BY DriverAssumption DEF Init, SoftTypes
<1>6. QED
  BY <1>3, <1>4, <1>5 DEF SoftInv

-----------------------------------------------------------------------------
(***************************************************************************)
(* The shell under the driver.                                             *)
(***************************************************************************)
EdgeEnv == [finish : BOOLEAN, ready : BOOLEAN]

\* The bus cycles of the driver.
LEMMA DriverWrites ==
  /\ {NoWrite, WriteDoorbell, WriteIrqClear, WriteCtrl({"SOFT_RESET"}),
      WriteCtrl({"ENABLE"}), WriteIrqEnable(TRUE), WriteIrqEnable(FALSE),
      WriteDma("DMA_EXT_ADDR", DmaReq.ext), WriteDma("DMA_LOC_ADDR", DmaReq.loc),
      WriteDma("DMA_LEN", DmaReq.len), WriteDmaCtrl(TRUE, DmaReq.dir)} \subseteq Bus
  /\ \A i \in WordIdx, w \in Word : WriteCmdWord(i, w) \in Bus
<1>1. DmaReq.ext \in Nat /\ DmaReq.loc \in Nat /\ DmaReq.len \in Nat /\ DmaReq.dir \in BOOLEAN
  BY DriverAssumption
<1>2. {NoWrite, WriteDoorbell, WriteIrqClear} \subseteq Bus
  BY DEF Bus
<1>3. WriteCtrl({"SOFT_RESET"}) \in Bus /\ WriteCtrl({"ENABLE"}) \in Bus
  <2>1. /\ {"SOFT_RESET"} \in SUBSET {"SOFT_RESET", "ENABLE"}
        /\ {"ENABLE"} \in SUBSET {"SOFT_RESET", "ENABLE"}
    OBVIOUS
  <2>2. \A bits \in SUBSET {"SOFT_RESET", "ENABLE"} : WriteCtrl(bits) \in Bus
    BY DEF Bus
  <2>3. QED
    BY <2>1, <2>2
<1>4. WriteIrqEnable(TRUE) \in Bus /\ WriteIrqEnable(FALSE) \in Bus
  <2> DEFINE S == {WriteIrqEnable(on) : on \in BOOLEAN}
  <2>1. WriteIrqEnable(TRUE) \in S /\ WriteIrqEnable(FALSE) \in S
    OBVIOUS
  <2>2. S \subseteq Bus
    <3> HIDE DEF S
    <3>1. SUFFICES ASSUME NEW x \in S PROVE x \in Bus
      OBVIOUS
    <3>2. QED
      BY DEF Bus, S
  <2>3. QED
    BY <2>1, <2>2
<1>5. /\ WriteDma("DMA_EXT_ADDR", DmaReq.ext) \in Bus
      /\ WriteDma("DMA_LOC_ADDR", DmaReq.loc) \in Bus
      /\ WriteDma("DMA_LEN", DmaReq.len) \in Bus
  <2>1. \A reg \in {"DMA_EXT_ADDR", "DMA_LOC_ADDR", "DMA_LEN"}, val \in Nat :
            WriteDma(reg, val) \in Bus
    BY DEF Bus
  <2>2. QED
    BY <1>1, <2>1
<1>6. WriteDmaCtrl(TRUE, DmaReq.dir) \in Bus
  <2> DEFINE S == [reg : {"DMA_CTRL"}, start : BOOLEAN, dir : BOOLEAN]
  <2>1. WriteDmaCtrl(TRUE, DmaReq.dir) \in S
    BY <1>1 DEF WriteDmaCtrl
  <2>2. S \subseteq Bus
    <3> HIDE DEF S
    <3>1. SUFFICES ASSUME NEW x \in S PROVE x \in Bus
      OBVIOUS
    <3>2. QED
      BY DEF Bus, S
  <2> HIDE DEF S
  <2>3. QED
    BY <2>1, <2>2
<1>7. \A i \in WordIdx, w \in Word : WriteCmdWord(i, w) \in Bus
  BY DEF Bus
<1>8. QED
  BY <1>2, <1>3, <1>4, <1>5, <1>6, <1>7

\* A step is a clock edge with one of them, or leaves the device alone.
LEMMA StepIsEdge ==
  ASSUME SoftInv, Next
  PROVE  \/ UNCHANGED <<shellVars, finished, pulses>>
         \/ \E bus \in Bus, env \in EdgeEnv : Edge(bus, env)
<1> USE DriverWrites
<1>1. ASSUME NEW env \in EdgeEnv,
             Pause(env) \/ HandlerBus(env) \/ ProbeHardware(env) \/ Remove(env)
      PROVE  \E bus \in Bus : Edge(bus, env)
  BY <1>1 DEF Pause, HandlerBus, HandlerRead, HandlerClear, HandlerAck, ProbeHardware, Remove,
              lgnpu_irq_disable
<1>2. ASSUME NEW env \in EdgeEnv, NEW t \in Threads, CallReset(t, env) \/ CallEnable(t, env)
      PROVE  \E bus \in Bus : Edge(bus, env)
  BY <1>2 DEF CallReset, CallEnable
<1>3. ASSUME NEW env \in EdgeEnv, NEW t \in Threads, ThreadBus(t, env)
      PROVE  \E bus \in Bus : Edge(bus, env)
  <2>1. CASE SubmitWrite(t, env)
    <3>1. th[t].word \in WordIdx /\ th[t].id \in Word
      <4>1. ThreadOK(th[t]) /\ th[t].pc = "write"
        BY <2>1 DEF SoftInv, ThreadInv, SubmitWrite, At
      <4>2. QED
        BY <4>1, DriverAssumption, NumWordsAssumption DEF ThreadOK, ThreadType, WordIdx
    <3>2. QED
      BY <2>1, <3>1 DEF SubmitWrite
  <2>2. CASE \/ SubmitCheck(t, env) \/ SubmitEnable(t, env) \/ SubmitRing(t, env)
             \/ SubmitDisable(t, env)
    BY <2>2 DEF SubmitCheck, SubmitEnable, SubmitRing, SubmitDisable, lgnpu_irq_disable
  <2>3. CASE DmaProgram(t, env)
    BY <2>3 DEF DmaProgram
  <2>4. CASE DmaPoll(t, env) \/ DmaReturn(t, env)
    BY <2>4 DEF DmaPoll, DmaReturn, DmaAck
  <2>5. QED
    BY <1>3, <2>1, <2>2, <2>3, <2>4 DEF ThreadBus
<1>4. QED
  BY <1>1, <1>2, <1>3 DEF Next, Clocked, SoftwareOnly, EdgeEnv

\* What the shell sees of it.
ShellEnv(env) == [accept |-> env.ready, answer |-> env.ready, contended |-> FALSE]

\* An edge of the driver is an edge of the shell with some environment.
LEMMA EdgeIsShellStep ==
  ASSUME NEW bus \in Bus, NEW env \in EdgeEnv, Edge(bus, env)
  PROVE  /\ ShellEnv(env) \in Env /\ env.finish \in BOOLEAN
         /\ ShellClk(bus, env.finish, ShellEnv(env))
         /\ Record
         /\ ShellNext
<1>1. ShellEnv(env) \in Env /\ env.finish \in BOOLEAN
  BY DEF EdgeEnv, Env, ShellEnv
<1>2. ShellClk(bus, env.finish, ShellEnv(env)) /\ Record
  BY DEF Edge, ShellEnv
<1>3. QED
  BY <1>1, <1>2 DEF ShellNext

\* Everything proved of an edge of the shell is true of the driver's.
LEMMA StepIsShellStep == SoftInv /\ [Next]_vars => [ShellNext]_shellVars
<1> SUFFICES ASSUME SoftInv, [Next]_vars PROVE [ShellNext]_shellVars
  OBVIOUS
<1>1. CASE Next
  BY <1>1, StepIsEdge, EdgeIsShellStep
<1>2. CASE UNCHANGED vars
  BY <1>2 DEF vars
<1>3. QED
  BY <1>1, <1>2

\* The shell under the driver starts as the shell does.
LEMMA DriverShellInit == Init => ShellInv /\ ShellTypeOK
<1> SUFFICES ASSUME Init PROVE ShellInv /\ ShellTypeOK
  OBVIOUS
<1>1. PathInit /\ ShellInv
  BY PathInvInit DEF Init
<1>2. DmaTypeOK
  <2>1. /\ [a \in BufAddr |-> 0] \in [BufAddr -> Data]
        /\ [a \in ExtAddr |-> 1] \in [ExtAddr -> Data]
    BY WindowAssumption, DriverAssumption
  <2>2. QED
    BY <2>1, DmaTypesInit DEF Init
<1>3. ResetTypeOK
  <2>1. sync_chain \in 0 .. STAGES
    BY StagesAssumption DEF Init
  <2>2. soft_reset_sync1 \in BOOLEAN /\ soft_reset_sync2 \in BOOLEAN
    BY DEF Init
  <2>3. QED
    BY <2>1, <2>2 DEF ResetTypeOK
<1>4. QED
  BY <1>1, <1>2, <1>3, PathTypesInit

\* The histories are a set of commands and a count.
HistoryTypes == finished \subseteq Cmd /\ pulses \in Nat

\* What raises the pending flag on an edge out of reset.
Raised == {p \in {"done", "dma", "err"} :
              \/ p = "done" /\ be_done
              \/ p = "dma" /\ dma_done
              \/ p = "err" /\ decode_err}

\* Every pulse counts.
LEMMA RaisedCounts ==
  /\ IsFiniteSet(Raised) /\ Cardinality(Raised) \in Nat
  /\ be_done \/ dma_done \/ decode_err => Cardinality(Raised) >= 1
<1>1. IsFiniteSet({"done", "dma", "err"})
  <2>1. IsFiniteSet({"done"})
    BY FS_Singleton
  <2>2. IsFiniteSet({"done"} \cup {"dma"})
    BY <2>1, FS_AddElement
  <2>3. IsFiniteSet(({"done"} \cup {"dma"}) \cup {"err"})
    BY <2>2, FS_AddElement
  <2>4. ({"done"} \cup {"dma"}) \cup {"err"} = {"done", "dma", "err"}
    OBVIOUS
  <2>5. QED
    BY <2>3, <2>4
<1>2. IsFiniteSet(Raised)
  BY <1>1, FS_Subset DEF Raised
<1>3. Cardinality(Raised) \in Nat
  BY <1>2, FS_CardinalityType
<1>4. be_done \/ dma_done \/ decode_err => Raised # {}
  <2>1. /\ be_done => "done" \in Raised
        /\ dma_done => "dma" \in Raised
        /\ decode_err => "err" \in Raised
    BY DEF Raised
  <2>2. QED
    BY <2>1
<1>5. Raised # {} => Cardinality(Raised) # 0
  BY <1>2, FS_EmptySet
<1>6. QED
  BY <1>2, <1>3, <1>4, <1>5

\* The histories keep their types, and the count grows with every pulse.
LEMMA HistoryStep ==
  ASSUME HistoryTypes, ShellInv, Record
  PROVE  /\ HistoryTypes'
         /\ pulses' >= pulses
         /\ ~InReset /\ (be_done \/ dma_done \/ decode_err) => pulses' >= pulses + 1
<1>1. decode_cmd_r \in Cmd /\ sched_cmd_r \in Cmd
  BY CmdAssumption DEF ShellInv, DecodeInv, DecodeTypeOK, ComputeInv, SchedTypeOK
<1>2. finished' \subseteq Cmd
  BY <1>1 DEF Record, HistoryTypes
<1>3. PICK n \in Nat : /\ pulses' = pulses + n
                       /\ ~InReset /\ (be_done \/ dma_done \/ decode_err) => n >= 1
  <2>1. CASE InReset
    <3>1. pulses' = pulses + Cardinality({})
      BY <2>1 DEF Record
    <3>2. QED
      BY <2>1, <3>1, FS_EmptySet
  <2>2. CASE ~InReset
    <3>1. pulses' = pulses + Cardinality(Raised)
      BY <2>2 DEF Record, Raised
    <3>2. QED
      BY <3>1, RaisedCounts
  <2>3. QED
    BY <2>1, <2>2
<1>4. pulses \in Nat
  BY DEF HistoryTypes
<1>5. pulses' \in Nat /\ pulses' >= pulses /\ (n >= 1 => pulses' >= pulses + 1)
  BY <1>3, <1>4
<1>6. QED
  BY <1>2, <1>3, <1>5 DEF HistoryTypes

\* The driver's own state, the shell's, and the histories.
BaseInv == SoftInv /\ ShellInv /\ ShellTypeOK /\ HistoryTypes

\* All of it is kept by every step,
LEMMA BaseStep == BaseInv /\ [Next]_vars => BaseInv'
<1> SUFFICES ASSUME BaseInv, [Next]_vars PROVE BaseInv'
  OBVIOUS
<1> USE DEF BaseInv
<1>1. SoftInv'
  BY SoftStep
<1>2. ShellInv'
  BY StepIsShellStep, ShellInvStep
<1>3. ASSUME NEW bus \in Bus, NEW env \in EdgeEnv, Edge(bus, env)
      PROVE  ShellTypeOK' /\ HistoryTypes'
  <2>1. /\ ShellEnv(env) \in Env /\ env.finish \in BOOLEAN
        /\ ShellClk(bus, env.finish, ShellEnv(env)) /\ Record
    BY <1>3, EdgeIsShellStep
  <2>2. ShellTypeOK'
    BY <1>2, <2>1, BusIsGood, ShellTypesStep
  <2>3. QED
    BY <2>1, <2>2, HistoryStep
<1>4. ASSUME UNCHANGED <<shellVars, finished, pulses>>
      PROVE  ShellTypeOK' /\ HistoryTypes'
  <2>1. (FetchTypeOK /\ DecodeTypeOK /\ QueueTypeOK /\ SchedTypeOK /\ BackendTypeOK)'
    BY <1>2 DEF ShellInv, FetchInv, DecodeInv, QueueInv, ComputeInv
  <2>2. RegBlockTypeOK' /\ DmaTypeOK' /\ pending' \in BOOLEAN /\ ResetTypeOK'
    BY <1>4 DEF shellVars, regVars, dmaRegVars, dmaVars, resetVars, ShellTypeOK,
                RegBlockTypeOK, DmaTypeOK, ResetTypeOK
  <2>3. QED
    BY <1>4, <2>1, <2>2 DEF ShellTypeOK, HistoryTypes
<1>5. CASE Next
  BY <1>1, <1>2, <1>3, <1>4, <1>5, StepIsEdge
<1>6. CASE UNCHANGED vars
  BY <1>1, <1>2, <1>4, <1>6 DEF vars
<1>7. QED
  BY <1>5, <1>6

\* and true at first.
LEMMA BaseInit == Init => BaseInv
<1> SUFFICES ASSUME Init PROVE BaseInv
  OBVIOUS
<1>1. HistoryTypes
  BY DEF Init, HistoryTypes
<1>2. QED
  BY <1>1, SoftInit, DriverShellInit DEF BaseInv

\* The mutex has the owner it should have, and the shell its invariant, in every
\* reachable state of the driver.
THEOREM BaseInvariant == Spec => []BaseInv
  BY BaseInit, BaseStep, PTL DEF Spec

\* Type correctness of the driver and the device under it, with all the faults.
THEOREM DriverTypes == Spec => []TypeOK
<1>1. BaseInv => TypeOK
  BY DEF BaseInv, SoftInv, ThreadInv, ThreadType, LockInv, SoftTypes, HistoryTypes, TypeOK
<1>2. QED
  BY <1>1, BaseInvariant, PTL

-----------------------------------------------------------------------------
(***************************************************************************)
(* The interrupt line.                                                     *)
(***************************************************************************)

\* A write elsewhere never enables the line, and reset disables it.
LEMMA LineEdge ==
  ASSUME NEW bus, NEW env, Edge(bus, env), irq_en_reg'
  PROVE  IF bus.reg = "IRQ_ENABLE" THEN bus.on ELSE irq_en_reg
  BY DEF Edge, ShellClk, ShellRun, ShellReset, RegBlockClk, ControlRegsClk, RegBlockReset,
         ControlRegsReset

LineHeld == {"ring", "wait", "disable"}

\* An enabled line stays with its owner when a thread moves without giving it up.
LEMMA LineKept ==
  ASSUME SoftInv, LineOnlyInSubmission, irq_en_reg' => irq_en_reg,
         NEW t \in Threads, \A u \in Threads \ {t} : th'[u] = th[u],
         th[t].pc \in LineHeld => th'[t].pc \in LineHeld /\ cmd_lock' = cmd_lock,
         cmd_lock' = cmd_lock \/ cmd_lock = NoThread \/ cmd_lock = t
  PROVE  LineOnlyInSubmission'
<1> SUFFICES ASSUME irq_en_reg'
             PROVE  cmd_lock' # NoThread /\ th'[cmd_lock'].pc \in LineHeld
  BY DEF LineOnlyInSubmission, LineHeld
<1>1. /\ cmd_lock \in Threads /\ cmd_lock # NoThread
      /\ th[cmd_lock].pc \in LineHeld
  BY DEF LineOnlyInSubmission, SoftInv, LockInv, LineHeld
<1>2. CASE cmd_lock = t
  BY <1>1, <1>2
<1>3. CASE cmd_lock # t
  BY <1>1, <1>3
<1>4. QED
  BY <1>2, <1>3

\* The line stays with the owner of the mutex in every step.
LEMMA LineStep == BaseInv /\ LineOnlyInSubmission /\ [Next]_vars => LineOnlyInSubmission'
<1> SUFFICES ASSUME SoftInv, LineOnlyInSubmission, [Next]_vars PROVE LineOnlyInSubmission'
  BY DEF BaseInv
<1> USE DEF At, exceptThread
<1>th. th \in [Threads -> ThreadType] /\ \A t \in Threads : th[t].pc \in Held <=> cmd_lock = t
  BY DEF SoftInv, ThreadInv, LockInv
<1>rest. ASSUME UNCHANGED <<th, cmd_lock>>, irq_en_reg' => irq_en_reg
         PROVE  LineOnlyInSubmission'
  BY <1>rest DEF LineOnlyInSubmission
<1>soft. UNCHANGED shellVars => irq_en_reg' = irq_en_reg
  BY DEF shellVars, regVars
<1>nolock. NoThread \notin Threads
  BY DriverAssumption DEF NoThread
<1>1. ASSUME NEW env, Pause(env) \/ HandlerBus(env) \/ ProbeHardware(env) \/ Remove(env)
      PROVE  LineOnlyInSubmission'
  <2>1. UNCHANGED <<th, cmd_lock>>
    BY <1>1 DEF Pause, HandlerBus, HandlerRead, HandlerClear, ProbeHardware, Remove, DrvOnly,
                softVars, exceptHandler
  <2>2. irq_en_reg' => irq_en_reg
    BY <1>1, LineEdge DEF Pause, HandlerBus, HandlerRead, HandlerClear, HandlerAck,
          ProbeHardware, Remove, NoWrite, WriteIrqClear, WriteCtrl, lgnpu_irq_disable,
          WriteIrqEnable
  <2>3. QED
    BY <1>rest, <2>1, <2>2
<1>2. ASSUME NEW env, NEW t \in Threads, CallEnable(t, env) PROVE LineOnlyInSubmission'
  <2>1. UNCHANGED <<th, cmd_lock>>
    BY <1>2 DEF CallEnable, softVars
  <2>2. irq_en_reg' => irq_en_reg
    BY <1>2, LineEdge DEF CallEnable, WriteCtrl
  <2>3. QED
    BY <1>rest, <2>1, <2>2
<1>3. ASSUME NEW env, NEW t \in Threads, CallReset(t, env) PROVE LineOnlyInSubmission'
  <2>1. irq_en_reg' => irq_en_reg
    BY <1>3, LineEdge DEF CallReset, WriteCtrl
  <2>2. /\ \A u \in Threads \ {t} : th'[u] = th[u]
        /\ th[t].pc = "idle" /\ cmd_lock' = cmd_lock
    BY <1>3, <1>th DEF CallReset, Enter
  <2>3. QED
    BY <2>1, <2>2, LineKept DEF LineHeld
<1>4. ASSUME NEW env, NEW t \in Threads, SubmitEnable(t, env) PROVE LineOnlyInSubmission'
  <2>1. cmd_lock = t /\ cmd_lock' = t
    BY <1>4, <1>th DEF SubmitEnable, Held
  <2>2. th'[t].pc = "ring"
    BY <1>4, <1>th DEF SubmitEnable, Goto, ThreadType
  <2>3. QED
    BY <2>1, <2>2, <1>nolock DEF LineOnlyInSubmission
<1>5. ASSUME NEW env, NEW t \in Threads, SubmitDisable(t, env) PROVE LineOnlyInSubmission'
  <2>1. ~irq_en_reg'
    BY <1>5, LineEdge DEF SubmitDisable, lgnpu_irq_disable, WriteIrqEnable
  <2>2. QED
    BY <2>1 DEF LineOnlyInSubmission
<1>6. ASSUME NEW env, NEW t \in Threads,
             \/ SubmitCheck(t, env) \/ SubmitWrite(t, env) \/ SubmitRing(t, env)
             \/ DmaProgram(t, env) \/ DmaPoll(t, env) \/ DmaReturn(t, env)
      PROVE  LineOnlyInSubmission'
  <2>1. irq_en_reg' => irq_en_reg
    BY <1>6, LineEdge DEF SubmitCheck, SubmitWrite, SubmitRing, DmaProgram, DmaPoll, DmaReturn,
          DmaAck, NoWrite, WriteCmdWord, WriteDoorbell, WriteDma, WriteDmaCtrl, WriteIrqClear
  <2>2. \A u \in Threads \ {t} : th'[u] = th[u]
    BY <1>6, <1>th DEF SubmitCheck, SubmitWrite, SubmitRing, DmaProgram, DmaPoll, DmaReturn,
          Goto, Leave, Return
  <2>3. th[t].pc \in LineHeld => th'[t].pc \in LineHeld /\ cmd_lock' = cmd_lock
    <3>1. CASE SubmitRing(t, env)
      BY <3>1, <1>th DEF SubmitRing, Goto, LineHeld, ThreadType
    <3>2. CASE th[t].pc \notin LineHeld
      BY <3>2
    <3>3. QED
      BY <1>6, <3>1, <3>2 DEF SubmitCheck, SubmitWrite, DmaProgram, DmaPoll, DmaReturn, LineHeld
  <2>4. cmd_lock = NoThread \/ cmd_lock = t
    BY <1>6, <1>th DEF SubmitCheck, SubmitWrite, SubmitRing, DmaProgram, DmaPoll, DmaReturn,
          mutex_free, Held
  <2>5. QED
    BY <2>1, <2>2, <2>3, <2>4, LineKept
<1>7. ASSUME UNCHANGED shellVars,
             ProbeSoftware \/ ProbeFails \/ Removed \/ HandlerInvoked \/ HandlerComplete
      PROVE  LineOnlyInSubmission'
  <2>1. UNCHANGED <<th, cmd_lock>>
    BY <1>7 DEF ProbeSoftware, ProbeFails, Removed, HandlerInvoked, HandlerComplete, DrvOnly,
                exceptHandler
  <2>2. QED
    BY <1>7, <1>soft, <1>rest, <2>1
<1>8. ASSUME NEW t \in Threads, UNCHANGED shellVars,
             CallSubmit(t) \/ CallDma(t) \/ ThreadSoftware(t) \/ Interrupted(t)
      PROVE  LineOnlyInSubmission'
  <2>1. irq_en_reg' => irq_en_reg
    BY <1>8, <1>soft
  <2>2. \A u \in Threads \ {t} : th'[u] = th[u]
    BY <1>8, <1>th DEF CallSubmit, CallDma, Enter, ThreadSoftware, SubmitArm, Completed,
          TimedOut, Interrupted, DmaTimedOut, ResetReturn, Goto, Leave, Return
  <2>3. th[t].pc \in LineHeld => th'[t].pc \in LineHeld /\ cmd_lock' = cmd_lock
    <3>1. CASE Completed(t) \/ TimedOut(t) \/ Interrupted(t)
      BY <3>1, <1>th DEF Completed, TimedOut, Interrupted, Goto, LineHeld, ThreadType
    <3>2. CASE th[t].pc \notin LineHeld
      BY <3>2
    <3>3. QED
      BY <1>8, <3>1, <3>2 DEF CallSubmit, CallDma, Enter, ThreadSoftware, SubmitArm,
            DmaTimedOut, ResetReturn, LineHeld
  <2>4. cmd_lock' = cmd_lock \/ cmd_lock = t
    BY <1>8, <1>th DEF CallSubmit, CallDma, Enter, ThreadSoftware, SubmitArm, Completed,
          TimedOut, Interrupted, DmaTimedOut, ResetReturn, Held
  <2>5. QED
    BY <2>1, <2>2, <2>3, <2>4, LineKept
<1>9. CASE UNCHANGED vars
  BY <1>9, <1>rest, <1>soft DEF vars, softVars
<1>10. QED
  BY <1>1, <1>2, <1>3, <1>4, <1>5, <1>6, <1>7, <1>8, <1>9
    DEF Next, Clocked, ThreadBus, SoftwareOnly

\* Whatever fails, the device's line is high only inside a submission, of the
\* thread that owns cmd_lock.
THEOREM LineBelongsToOwner == Spec => []LineOnlyInSubmission
<1>1. Init => LineOnlyInSubmission
  BY DEF Init, PathInit, RegBlockInit, LineOnlyInSubmission
<1>2. QED
  BY <1>1, LineStep, BaseInvariant, PTL DEF Spec

-----------------------------------------------------------------------------
(***************************************************************************)
(* No success out of nothing.                                              *)
(***************************************************************************)

\* Completions on their way: the one the handler has read and not yet signalled,
\* and the pending flag, unless it is that one's or is being cleared.
InHandler == IF h_pc \in {"clear", "complete"} THEN 1 ELSE 0
InFlag == IF pending /\ ~irq_clear_r /\ h_pc # "clear" THEN 1 ELSE 0

\* Successes, completions not yet waited for and completions on their way have
\* each had an event.  NoUnearnedSuccess alone says nothing about what the
\* handler is going to signal.
EarnedInv == Cardinality(result.submit) + cmd_done + InHandler + InFlag <= pulses

\* A pending flag is an old one or has had its event on this edge.
LEMMA FlagEdge ==
  ASSUME BaseInv, NEW bus, NEW env, Edge(bus, env)
  PROVE  /\ pulses' >= pulses
         /\ pending' => \/ pending /\ ~irq_clear_r
                        \/ pulses' >= pulses + 1
         /\ irq_clear_r' \/ ~pending' \/ bus.reg # "IRQ_CLEAR"
<1>1. Record /\ HistoryTypes /\ ShellInv
  BY DEF Edge, BaseInv
<1>2. CASE InReset
  <2>1. pending' = FALSE
    BY <1>2 DEF Edge, ShellClk, ShellReset, IrqReset
  <2>2. QED
    BY <1>1, <2>1, HistoryStep
<1>3. CASE ~InReset
  <2>1. /\ pending' => be_done \/ dma_done \/ decode_err \/ (pending /\ ~irq_clear_r)
        /\ irq_clear_r' <=> bus.reg = "IRQ_CLEAR"
    BY <1>3 DEF Edge, ShellClk, ShellRun, IrqClk, RegBlockClk, ControlRegsClk
  <2>2. QED
    BY <1>1, <1>3, <2>1, HistoryStep
<1>4. QED
  BY <1>2, <1>3

\* The counts an inequality like EarnedInv is about.
LEMMA Counts ==
  BaseInv => /\ IsFiniteSet(result.submit) /\ Cardinality(result.submit) \in Nat
             /\ cmd_done \in Nat /\ pulses \in Nat
<1> SUFFICES ASSUME BaseInv
             PROVE  /\ IsFiniteSet(result.submit) /\ Cardinality(result.submit) \in Nat
                    /\ cmd_done \in Nat /\ pulses \in Nat
  OBVIOUS
<1>1. result.submit \in SUBSET (1 .. MaxSubmits) /\ cmd_done \in Nat /\ pulses \in Nat
  BY DEF BaseInv, SoftInv, SoftTypes, HistoryTypes
<1>2. IsFiniteSet(1 .. MaxSubmits)
  BY FS_Interval, DriverAssumption
<1>3. IsFiniteSet(result.submit)
  BY <1>1, <1>2, FS_Subset
<1>4. QED
  BY <1>1, <1>3, FS_CardinalityType

\* An edge on which the handler does not move, or moves on.
LEMMA EarnedEdge ==
  ASSUME BaseInv, BaseInv', EarnedInv, NEW bus, NEW env, Edge(bus, env),
         result'.submit = result.submit, cmd_done' = cmd_done,
         \/ h_pc' = h_pc
         \/ h_pc = "read" /\ h_pc' = IF pending' THEN "clear" ELSE "off"
         \/ h_pc = "clear" /\ h_pc' = "complete" /\ bus.reg = "IRQ_CLEAR"
  PROVE  EarnedInv'
<1>1. PICK s \in Nat, d \in Nat, n \in Nat, m \in Nat :
          /\ s = Cardinality(result.submit) /\ d = cmd_done /\ n = pulses /\ m = pulses'
  BY Counts DEF BaseInv, HistoryTypes
<1>2. s = Cardinality(result'.submit) /\ d = cmd_done'
  BY <1>1
<1>3. PICK a \in {0, 1}, b \in {0, 1} : a = InHandler /\ b = InFlag
  BY DEF InHandler, InFlag
<1>4. PICK x \in {0, 1}, y \in {0, 1} : x = InHandler' /\ y = InFlag'
  BY DEF InHandler, InFlag
<1>5. m >= n
  BY <1>1, FlagEdge
<1>6. x + y <= a + b \/ (m >= n + 1 /\ x + y <= a + b + 1)
  <2>1. CASE h_pc' = h_pc
    <3>1. x = a
      BY <1>3, <1>4, <2>1 DEF InHandler
    <3>2. y <= b \/ m >= n + 1
      BY <1>1, <1>3, <1>4, <2>1, FlagEdge DEF InFlag
    <3>3. QED
      BY <3>1, <3>2
  <2>2. CASE h_pc = "read" /\ h_pc' = IF pending' THEN "clear" ELSE "off"
    <3>1. a = 0 /\ y = 0 /\ (x = 1 => pending')
      BY <1>3, <1>4, <2>2 DEF InHandler, InFlag
    <3>2. x = 1 => b = 1 \/ m >= n + 1
      BY <1>1, <1>3, <2>2, <3>1, FlagEdge DEF InFlag
    <3>3. QED
      BY <3>1, <3>2
  <2>3. CASE h_pc = "clear" /\ h_pc' = "complete" /\ bus.reg = "IRQ_CLEAR"
    <3>1. a = 1 /\ x = 1
      BY <1>3, <1>4, <2>3 DEF InHandler
    <3>2. y = 0
      BY <1>4, <2>3, FlagEdge DEF InFlag
    <3>3. QED
      BY <3>1, <3>2
  <2>4. QED
    BY <2>1, <2>2, <2>3
<1>7. s + d + a + b <= n
  BY <1>1, <1>3 DEF EarnedInv
<1>8. s + d + x + y <= m
  BY <1>5, <1>6, <1>7
<1>9. QED
  BY <1>1, <1>2, <1>4, <1>8 DEF EarnedInv

\* The steps of the software that move an event on: the handler signals it, a
\* submission forgets it or takes it for its own.
LEMMA EarnedSoft ==
  ASSUME BaseInv, BaseInv', EarnedInv, UNCHANGED <<pending, irq_clear_r, pulses>>,
         \/ HandlerInvoked
         \/ HandlerComplete
         \/ \E t \in Threads : SubmitArm(t) \/ Completed(t)
         \/ UNCHANGED <<result.submit, cmd_done, h_pc>>
  PROVE  EarnedInv'
<1>1. PICK s \in Nat, d \in Nat, n \in Nat :
          /\ s = Cardinality(result.submit) /\ d = cmd_done /\ n = pulses /\ n = pulses'
  BY Counts
<1>2. PICK S \in Nat, D \in Nat : S = Cardinality(result'.submit) /\ D = cmd_done'
  <2>1. BaseInv' => Cardinality(result'.submit) \in Nat /\ cmd_done' \in Nat
    <3>1. ASSUME NEW F \in SUBSET (1 .. MaxSubmits) PROVE Cardinality(F) \in Nat
      <4>1. IsFiniteSet(1 .. MaxSubmits)
        BY FS_Interval, DriverAssumption
      <4>2. IsFiniteSet(F)
        BY <4>1, FS_Subset
      <4>3. QED
        BY <4>2, FS_CardinalityType
    <3>2. BaseInv' => result'.submit \in SUBSET (1 .. MaxSubmits) /\ cmd_done' \in Nat
      BY DEF BaseInv, SoftInv, SoftTypes
    <3>3. QED
      BY <3>1, <3>2
  <2>2. QED
    BY <2>1
<1>3. PICK a \in {0, 1}, b \in {0, 1} : a = InHandler /\ b = InFlag
  BY DEF InHandler, InFlag
<1>4. PICK x \in {0, 1}, y \in {0, 1} : x = InHandler' /\ y = InFlag'
  BY DEF InHandler, InFlag
<1>5. s + d + a + b <= n
  BY <1>1, <1>3 DEF EarnedInv
<1>6. S + D + x + y <= s + d + a + b
  <2>1. CASE HandlerInvoked
    <3>1. S = s /\ D = d
      BY <1>1, <1>2, <2>1 DEF HandlerInvoked, exceptHandler
    <3>2. x = a /\ y = b
      BY <1>3, <1>4, <2>1 DEF HandlerInvoked, InHandler, InFlag
    <3>3. QED
      BY <3>1, <3>2
  <2>2. CASE HandlerComplete
    <3>1. S = s /\ D = d + 1
      BY <1>1, <1>2, <2>2 DEF HandlerComplete, complete
    <3>2. x = 0 /\ a = 1 /\ y = b
      BY <1>3, <1>4, <2>2 DEF HandlerComplete, InHandler, InFlag
    <3>3. QED
      BY <3>1, <3>2
  <2>3. ASSUME NEW t \in Threads, SubmitArm(t) PROVE S + D + x + y <= s + d + a + b
    <3>1. S = s /\ D = 0
      BY <1>1, <1>2, <2>3 DEF SubmitArm, reinit_completion
    <3>2. x = a /\ y = b
      BY <1>3, <1>4, <2>3 DEF SubmitArm, InHandler, InFlag
    <3>3. QED
      BY <3>1, <3>2
  <2>4. ASSUME NEW t \in Threads, Completed(t) PROVE S + D + x + y <= s + d + a + b
    <3>1. D = d - 1
      BY <1>1, <1>2, <2>4 DEF Completed
    <3>2. S <= s + 1
      <4>1. result'.submit = result.submit \cup {th[t].id}
        BY <2>4 DEF Completed, BaseInv, SoftInv, SoftTypes
      <4>2. IsFiniteSet(result.submit)
        BY Counts
      <4>3. Cardinality(result'.submit) = s \/ Cardinality(result'.submit) = s + 1
        <5>1. PICK F : F = result.submit /\ IsFiniteSet(F)
          BY <4>2
        <5>2. Cardinality(F \cup {th[t].id}) \in {s, s + 1}
          BY <1>1, <5>1, FS_AddElement
        <5>3. QED
          BY <4>1, <5>1, <5>2
      <4>4. QED
        BY <1>2, <4>3
    <3>3. x = a /\ y = b
      BY <1>3, <1>4, <2>4 DEF Completed, InHandler, InFlag
    <3>4. QED
      BY <3>1, <3>2, <3>3
  <2>5. CASE UNCHANGED <<result.submit, cmd_done, h_pc>>
    <3>1. S = s /\ D = d
      BY <1>1, <1>2, <2>5
    <3>2. x = a /\ y = b
      BY <1>3, <1>4, <2>5 DEF InHandler, InFlag
    <3>3. QED
      BY <3>1, <3>2
  <2>6. QED
    BY <2>1, <2>2, <2>3, <2>4, <2>5
<1>7. S + D + x + y <= n
  BY <1>5, <1>6
<1>8. QED
  BY <1>1, <1>2, <1>4, <1>7 DEF EarnedInv

\* No step signals more than the device has raised.
LEMMA EarnedStep == BaseInv /\ BaseInv' /\ EarnedInv /\ [Next]_vars => EarnedInv'
<1> SUFFICES ASSUME BaseInv, BaseInv', EarnedInv, [Next]_vars PROVE EarnedInv'
  OBVIOUS
<1>soft. UNCHANGED shellVars => UNCHANGED <<pending, irq_clear_r>>
  BY DEF shellVars, regVars
<1>1. ASSUME NEW env, Pause(env) \/ HandlerBus(env) \/ ProbeHardware(env) \/ Remove(env)
      PROVE  EarnedInv'
  <2>1. CASE HandlerClear(env)
    <3>1. /\ Edge(WriteIrqClear, env) /\ h_pc = "clear" /\ h_pc' = "complete"
          /\ result' = result /\ cmd_done' = cmd_done
      BY <2>1 DEF HandlerClear, HandlerAck, exceptHandler
    <3>2. QED
      BY <3>1, EarnedEdge DEF WriteIrqClear
  <2>2. CASE HandlerRead(env)
    BY <2>2, EarnedEdge DEF HandlerRead, exceptHandler
  <2>3. CASE Pause(env) \/ ProbeHardware(env) \/ Remove(env)
    BY <2>3, EarnedEdge DEF Pause, ProbeHardware, Remove, DrvOnly, softVars
  <2>4. QED
    BY <1>1, <2>1, <2>2, <2>3 DEF HandlerBus
<1>2. ASSUME NEW env, NEW t \in Threads, ThreadBus(t, env) PROVE EarnedInv'
  <2>1. cmd_done' = cmd_done /\ h_pc' = h_pc
    BY <1>2 DEF ThreadBus, SubmitCheck, SubmitWrite, SubmitEnable, SubmitRing, SubmitDisable,
                DmaProgram, DmaPoll, DmaReturn, exceptThread
  <2>2. result'.submit = result.submit
    BY <1>2 DEF ThreadBus, SubmitCheck, SubmitWrite, SubmitEnable, SubmitRing, SubmitDisable,
                DmaProgram, DmaPoll, DmaReturn, exceptThread, BaseInv, SoftInv, SoftTypes
  <2>3. \E bus : Edge(bus, env)
    BY <1>2 DEF ThreadBus, SubmitCheck, SubmitWrite, SubmitEnable, SubmitRing, SubmitDisable,
                DmaProgram, DmaPoll, DmaReturn
  <2>4. QED
    BY <2>1, <2>2, <2>3, EarnedEdge
<1>3. ASSUME NEW env, NEW t \in Threads, CallReset(t, env) \/ CallEnable(t, env)
      PROVE  EarnedInv'
  BY <1>3, EarnedEdge DEF CallReset, CallEnable, Enter, softVars
<1>4. ASSUME UNCHANGED <<shellVars, finished, pulses>>,
             ProbeSoftware \/ ProbeFails \/ Removed \/ HandlerInvoked \/ HandlerComplete
      PROVE  EarnedInv'
  <2>1. HandlerInvoked \/ HandlerComplete \/ UNCHANGED <<result.submit, cmd_done, h_pc>>
    BY <1>4 DEF ProbeSoftware, ProbeFails, Removed, DrvOnly
  <2>2. QED
    BY <1>4, <1>soft, <2>1, EarnedSoft
<1>5. ASSUME NEW t \in Threads, UNCHANGED <<shellVars, finished, pulses>>,
             CallSubmit(t) \/ CallDma(t) \/ ThreadSoftware(t) \/ Interrupted(t)
      PROVE  EarnedInv'
  <2>1. SubmitArm(t) \/ Completed(t) \/ UNCHANGED <<result.submit, cmd_done, h_pc>>
    BY <1>5 DEF CallSubmit, CallDma, Enter, ThreadSoftware, TimedOut, Interrupted, DmaTimedOut,
                ResetReturn, exceptThread
  <2>2. QED
    BY <1>5, <1>soft, <2>1, EarnedSoft
<1>6. CASE UNCHANGED vars
  BY <1>6, <1>soft, EarnedSoft DEF vars, softVars
<1>7. QED
  BY <1>1, <1>2, <1>3, <1>4, <1>5, <1>6 DEF Next, Clocked, SoftwareOnly

\* With timeouts, signals, resets and a shared interrupt line, and for any number
\* of threads: the submissions that returned 0 and the completions waiting to be
\* taken are never more than the events of the device.
THEOREM NothingUnearned == Spec => []NoUnearnedSuccess
<1>1. Init => EarnedInv
  <2> SUFFICES ASSUME Init PROVE EarnedInv
    OBVIOUS
  <2>1. Cardinality(result.submit) = 0 /\ cmd_done = 0 /\ pulses = 0
    BY FS_EmptySet DEF Init
  <2>2. InHandler = 0 /\ InFlag = 0
    BY DEF Init, PathInit, IrqInit, InHandler, InFlag
  <2>3. QED
    BY <2>1, <2>2 DEF EarnedInv
<1>2. BaseInv /\ EarnedInv => NoUnearnedSuccess
  <2> SUFFICES ASSUME BaseInv, EarnedInv PROVE NoUnearnedSuccess
    OBVIOUS
  <2>1. PICK a \in {0, 1}, b \in {0, 1} : a = InHandler /\ b = InFlag
    BY DEF InHandler, InFlag
  <2>2. QED
    BY <2>1, Counts DEF EarnedInv, NoUnearnedSuccess
<1>3. QED
  BY <1>1, <1>2, EarnedStep, BaseInvariant, PTL DEF Spec

-----------------------------------------------------------------------------
(***************************************************************************)
(* What a successful submission means, and whose descriptor runs, when no  *)
(* wait is given up and the interrupt line is the device's own.            *)
(***************************************************************************)
Calm == faults \subseteq {"reset", "probe"}

\* The device rests: no command in the path, no transfer, no event that the
\* handler could still be called for; and the handler has nothing to signal.
FlagGone == pending => irq_clear_r
AtRest == Quiet /\ DmaIdle /\ FlagGone
Settled == h_pc = "off" /\ cmd_done = 0

\* The words written so far are the caller's.
Filled(r) == \A i \in WordIdx : i < r.word => cmd_mem[i] = r.id

\* While a caller waits, a reset has lost its command, ...
Lost == AtRest /\ Settled
\* ... or the command is on its way, ...
OnItsWay(id) == FlagGone /\ Settled /\ \E p \in 0 .. LastStage : Stage(p, id)
\* ... or it is over, and its event is with the flag, the handler or the
\* completion, and nowhere twice.
Over(id) ==
    /\ Quiet /\ Whole(id) \in finished
    /\ \/ h_pc \in {"off", "read", "clear"} /\ cmd_done = 0
       \/ h_pc = "complete" /\ cmd_done = 0 /\ FlagGone
       \/ h_pc = "off" /\ cmd_done = 1 /\ FlagGone

\* What the owner of the mutex can rely on at each of its places.
CallInv(r) ==
    /\ r.pc \in {"write", "arm", "enable", "ring"} => AtRest /\ Settled /\ Filled(r)
    /\ r.pc = "wait" => DmaIdle /\ (Lost \/ OnItsWay(r.id) \/ Over(r.id))
    /\ r.pc = "disable" => AtRest /\ Settled /\ Whole(r.id) \in finished
    /\ r.pc \in {"loc", "len", "ctrl"} => AtRest /\ Settled
    /\ r.pc = "poll" => Quiet /\ Settled
    /\ r.pc = "clear" => Quiet /\ Settled /\ ~dma_busy /\ ~dma_start_r

OwnerInv ==
    /\ cmd_lock = NoThread => AtRest /\ Settled
    /\ \A t \in Threads : cmd_lock = t => CallInv(th[t])

OutcomeInv == SuccessMeansDone /\ UntornCommands

CalmInv == Calm => OwnerInv /\ OutcomeInv

-----------------------------------------------------------------------------
\* An edge of the driver, as the lemmas about the path and the engines see it.
GoodEdge(bus) ==
    /\ BaseInv /\ BaseInv' /\ bus \in Bus
    /\ \E env \in EdgeEnv : Edge(bus, env)

\* Out of reset.
LEMMA RunningEdge ==
  ASSUME NEW bus, GoodEdge(bus), ~InReset
  PROVE  /\ RunEdge(bus)
         /\ \E env \in EdgeEnv : DmaClk(bus, env.ready, env.ready, FALSE)
         /\ DmaRegsClk(bus)
         /\ irq_clear_r' <=> bus.reg = "IRQ_CLEAR"
         /\ pending' <=> ~irq_clear_r /\ (pending \/ be_done \/ dma_done \/ decode_err)
         /\ Record
<1>1. PICK env \in EdgeEnv : Edge(bus, env)
  BY DEF GoodEdge
<1>2. /\ ShellEnv(env) \in Env /\ env.finish \in BOOLEAN
      /\ ShellClk(bus, env.finish, ShellEnv(env)) /\ Record
  BY <1>1, EdgeIsShellStep DEF GoodEdge
<1>3. ShellRun(bus, env.finish, ShellEnv(env))
  BY <1>2 DEF ShellClk
<1>4. RunEdge(bus)
  BY <1>2, <1>3 DEF RunEdge, GoodEdge, BaseInv
<1>5. DmaClk(bus, env.ready, env.ready, FALSE)
  BY <1>3 DEF ShellRun, ShellEnv
<1>6. /\ DmaRegsClk(bus)
      /\ irq_clear_r' <=> bus.reg = "IRQ_CLEAR"
      /\ pending' <=> ~irq_clear_r /\ (pending \/ be_done \/ dma_done \/ decode_err)
  BY <1>3 DEF ShellRun, RegBlockClk, ControlRegsClk, IrqClk
<1>7. QED
  BY <1>2, <1>4, <1>5, <1>6

\* Reset puts the device to rest, whatever it was doing, and finishes nothing.
LEMMA ResetRests ==
  ASSUME NEW bus, GoodEdge(bus), InReset
  PROVE  AtRest' /\ finished' = finished
<1>1. PICK env \in EdgeEnv : Edge(bus, env)
  BY DEF GoodEdge
<1>2. ShellReset(bus, ShellEnv(env)) /\ Record
  BY <1>1 DEF Edge, ShellClk, ShellEnv
<1>3. Quiet'
  BY <1>2, ResetQuiets DEF GoodEdge, BaseInv
<1>4. ~dma_start_r' /\ ~pending'
  BY <1>2 DEF ShellReset, RegBlockReset, IrqReset
<1>5. rd'.state = "S_IDLE" /\ wr'.state = "S_IDLE"
  BY <1>2 DEF ShellReset, DmaReset, IdleEngine
<1>6. finished' = finished
  BY <1>2 DEF Record
<1>7. QED
  BY <1>3, <1>4, <1>5, <1>6 DEF AtRest, DmaIdle, FlagGone

\* An idle engine stays idle without a start; an engine that is no longer busy
\* becomes idle.
LEMMA EngineStays ==
  ASSUME NEW bus, GoodEdge(bus), ~dma_busy, ~dma_start_r
  PROVE  /\ rd'.state = "S_IDLE" /\ wr'.state = "S_IDLE"
         /\ bus.reg # "DMA_CTRL" => DmaIdle'
         /\ DmaIdle => ~dma_done
<1>1. CASE InReset
  BY <1>1, ResetRests DEF AtRest, DmaIdle, dma_done
<1>2. CASE ~InReset
  <2>1. PICK env \in EdgeEnv : DmaClk(bus, env.ready, env.ready, FALSE)
    BY <1>2, RunningEdge
  <2>2. /\ rd \in EngineType({"S_IDLE", "S_EXT_RD", "S_EXT_WAIT", "S_LOC_WR", "S_DONE"})
        /\ wr \in EngineType({"S_IDLE", "S_LOC_RD", "S_LOC_WAIT", "S_EXT_WR", "S_DONE"})
    BY DEF GoodEdge, BaseInv, ShellTypeOK, DmaTypeOK
  <2>3. rd'.state = "S_IDLE"
    BY <2>1, <2>2 DEF DmaClk, ReaderClk, ReaderStart, ReaderRequest, ReaderData, ReaderStore,
          ReaderDone, ReaderHold, rd_start, dma_busy, rd_busy, EngineType
  <2>4. wr'.state = "S_IDLE"
    BY <2>1, <2>2 DEF DmaClk, WriterClk, WriterStart, WriterRequest, WriterData, WriterStore,
          WriterDone, WriterHold, wr_start, dma_busy, wr_busy, EngineType
  <2>5. bus.reg # "DMA_CTRL" => ~dma_start_r'
    BY <1>2, RunningEdge DEF DmaRegsClk
  <2>6. QED
    BY <2>3, <2>4, <2>5 DEF DmaIdle, dma_done
<1>3. QED
  BY <1>1, <1>2

\* A quiet path stays quiet without a doorbell, and finishes nothing.
LEMMA QuietEdge ==
  ASSUME NEW bus, GoodEdge(bus), Quiet, bus.reg # "DOORBELL"
  PROVE  Quiet' /\ finished' = finished
<1>1. CASE InReset
  BY <1>1, ResetRests DEF AtRest
<1>2. CASE ~InReset
  <2>1. Quiet' /\ ~be_done /\ ~decode_err /\ Record
    BY <1>2, RunningEdge, QuietStays
  <2>2. QED
    BY <2>1 DEF Record
<1>3. QED
  BY <1>1, <1>2

\* The device rests until the doorbell is rung or a transfer is started.
LEMMA RestEdge ==
  ASSUME NEW bus, GoodEdge(bus), AtRest, bus.reg \notin {"DOORBELL", "DMA_CTRL"}
  PROVE  AtRest' /\ finished' = finished
<1>1. CASE InReset
  BY <1>1, ResetRests
<1>2. CASE ~InReset
  <2>1. ~be_done /\ ~decode_err /\ Quiet'
    BY <1>2, RunningEdge, QuietStays DEF AtRest
  <2>2. DmaIdle' /\ ~dma_done
    BY EngineStays DEF AtRest, DmaIdle, dma_busy, rd_busy, wr_busy
  <2>3. ~pending'
    BY <1>2, <2>1, <2>2, RunningEdge DEF AtRest, FlagGone
  <2>4. QED
    BY <2>1, <2>2, <2>3, QuietEdge DEF AtRest, FlagGone
<1>3. QED
  BY <1>1, <1>2

\* The doorbell puts the caller's descriptor on its way, unless reset swallows it.
LEMMA RingEdge ==
  ASSUME NEW id, GoodEdge(WriteDoorbell), AtRest, cmd_mem = Whole(id)
  PROVE  /\ DmaIdle' /\ FlagGone' /\ finished' = finished
         /\ Quiet' \/ Stage(0, id)'
<1>1. CASE InReset
  BY <1>1, ResetRests DEF AtRest
<1>2. CASE ~InReset
  <2>1. ~be_done /\ ~decode_err /\ Ringing(id)'
    BY <1>2, RunningEdge, QuietRings DEF AtRest
  <2>2. DmaIdle' /\ ~dma_done
    BY EngineStays DEF AtRest, DmaIdle, dma_busy, rd_busy, wr_busy, WriteDoorbell
  <2>3. ~pending' /\ Record
    BY <1>2, <2>1, <2>2, RunningEdge DEF AtRest, FlagGone
  <2>4. finished' = finished
    BY <2>1, <2>3 DEF Record
  <2>5. Stage(0, id)'
    BY <2>1 DEF Stage
  <2>6. QED
    BY <2>2, <2>3, <2>4, <2>5 DEF FlagGone
<1>3. QED
  BY <1>1, <1>2

\* A command on its way gets further, is lost to reset, or is over.
LEMMA WayEdge ==
  ASSUME NEW id, NEW bus, GoodEdge(bus), DmaIdle, FlagGone,
         NEW p \in 0 .. LastStage, Stage(p, id),
         bus.reg \notin {"DOORBELL", "CMD_QUEUE", "DMA_CTRL"}
  PROVE  /\ DmaIdle'
         /\ \/ AtRest' /\ finished' = finished
            \/ /\ FlagGone' /\ finished' = finished
               /\ \E q \in 0 .. LastStage : Stage(q, id)'
            \/ Quiet' /\ finished' = finished \cup {Whole(id)}
<1>1. CASE InReset
  BY <1>1, ResetRests DEF AtRest
<1>2. CASE ~InReset
  <2>1. DmaIdle' /\ ~dma_done
    BY EngineStays DEF DmaIdle, dma_busy, rd_busy, wr_busy
  <2>2. PassEdge(bus) /\ Record
    BY <1>2, RunningEdge DEF PassEdge
  <2>3. CASE Quiet' /\ (Refused(id) \/ Finished(id))
    <3>1. finished' = finished \cup {Whole(id)}
      BY <1>2, <2>2, <2>3 DEF Record, Refused, Finished
    <3>2. QED
      BY <2>1, <2>3, <3>1
  <2>4. CASE ~be_done /\ ~decode_err /\ \E q \in 0 .. LastStage : Stage(q, id)'
    <3>1. ~pending'
      BY <1>2, <2>1, <2>4, RunningEdge DEF FlagGone
    <3>2. finished' = finished
      BY <2>2, <2>4 DEF Record
    <3>3. QED
      BY <2>1, <2>4, <3>1, <3>2 DEF FlagGone
  <2>5. QED
    BY <2>2, <2>3, <2>4, StageStep
<1>3. QED
  BY <1>1, <1>2

\* The handler on an edge.
HandlerMoves(bus) ==
    \/ h_pc' = h_pc
    \/ h_pc = "read" /\ h_pc' = IF pending' THEN "clear" ELSE "off"
    \/ h_pc = "clear" /\ h_pc' = "complete" /\ bus.reg = "IRQ_CLEAR"

\* A handler that is off stays off on an edge.
LEMMA SettledStays ==
  ASSUME Settled, NEW bus, HandlerMoves(bus), cmd_done' = cmd_done
  PROVE  Settled'
  BY DEF Settled, HandlerMoves

\* The event of a command that is over is not doubled.
LEMMA OverEdge ==
  ASSUME NEW id, NEW bus, GoodEdge(bus), DmaIdle, Over(id),
         bus.reg \notin {"DOORBELL", "DMA_CTRL"}, HandlerMoves(bus), cmd_done' = cmd_done
  PROVE  DmaIdle' /\ Over(id)'
<1>1. Quiet' /\ finished' = finished
  BY QuietEdge DEF Over
<1>2. DmaIdle'
  BY EngineStays DEF DmaIdle, dma_busy, rd_busy, wr_busy
<1>3. FlagGone => FlagGone'
  BY RestEdge DEF AtRest, Over
<1>4. bus.reg = "IRQ_CLEAR" => FlagGone'
  BY FlagEdge DEF GoodEdge, FlagGone
<1>5. /\ Whole(id) \in finished'
      /\ \/ h_pc' \in {"off", "read", "clear"} /\ cmd_done' = 0
         \/ h_pc' = "complete" /\ cmd_done' = 0 /\ FlagGone'
         \/ h_pc' = "off" /\ cmd_done' = 1 /\ FlagGone'
  <2>1. Whole(id) \in finished'
    BY <1>1 DEF Over
  <2>2. CASE h_pc \in {"off", "read", "clear"} /\ cmd_done = 0
    BY <2>1, <2>2, <1>4 DEF HandlerMoves
  <2>3. CASE h_pc = "complete" /\ cmd_done = 0 /\ FlagGone
    BY <2>1, <2>3, <1>3 DEF HandlerMoves
  <2>4. CASE h_pc = "off" /\ cmd_done = 1 /\ FlagGone
    BY <2>1, <2>4, <1>3 DEF HandlerMoves
  <2>5. QED
    BY <2>2, <2>3, <2>4 DEF Over
<1>6. QED
  BY <1>1, <1>2, <1>5 DEF Over, Whole

\* An edge of a waiting caller's.
LEMMA WaitEdge ==
  ASSUME NEW id, NEW bus, GoodEdge(bus), DmaIdle, Lost \/ OnItsWay(id) \/ Over(id),
         bus.reg \notin {"DOORBELL", "CMD_QUEUE", "DMA_CTRL"},
         HandlerMoves(bus), cmd_done' = cmd_done
  PROVE  /\ DmaIdle' /\ (Lost \/ OnItsWay(id) \/ Over(id))'
         /\ finished' \in {finished, finished \cup {Whole(id)}}
<1>1. CASE Lost
  BY <1>1, RestEdge, SettledStays DEF Lost, AtRest
<1>2. CASE OnItsWay(id)
  <2>1. PICK p \in 0 .. LastStage : Stage(p, id)
    BY <1>2 DEF OnItsWay
  <2>2. Settled' /\ FlagGone
    BY <1>2, SettledStays DEF OnItsWay
  <2>3. CASE AtRest' /\ finished' = finished
    BY <2>2, <2>3 DEF Lost, AtRest
  <2>4. CASE /\ DmaIdle' /\ FlagGone' /\ finished' = finished
             /\ \E q \in 0 .. LastStage : Stage(q, id)'
    BY <2>2, <2>4 DEF OnItsWay
  <2>5. CASE DmaIdle' /\ Quiet' /\ finished' = finished \cup {Whole(id)}
    <3>1. Over(id)'
      BY <2>2, <2>5 DEF Over, Settled, Whole
    <3>2. QED
      BY <2>5, <3>1
  <2>6. QED
    BY <2>1, <2>2, <2>3, <2>4, <2>5, WayEdge
<1>3. CASE Over(id)
  BY <1>3, OverEdge, QuietEdge DEF Over
<1>4. QED
  BY <1>1, <1>2, <1>3

\* The window keeps what was written into it, in reset as well.
LEMMA WindowEdge ==
  ASSUME NEW bus, GoodEdge(bus)
  PROVE  cmd_mem' = IF bus.reg = "CMD_QUEUE" THEN [cmd_mem EXCEPT ![bus.idx] = bus.word]
                                             ELSE cmd_mem
  BY DEF GoodEdge, Edge, ShellClk, ShellRun, ShellReset, RegBlockClk, RegBlockReset, CmdMemClk

\* The registers written by others than the owner of the mutex.
Foreign == {"NONE", "CTRL", "IRQ_CLEAR", "IRQ_ENABLE"}

\* An edge with such an access leaves the owner what it relies on, and nothing but
\* its own command becomes over.
LEMMA CallEdge ==
  ASSUME NEW r, r.pc \in Held, NEW bus, GoodEdge(bus), CallInv(r), bus.reg \in Foreign,
         HandlerMoves(bus), cmd_done' = cmd_done
  PROVE  /\ CallInv(r)'
         /\ r.pc = "poll" => ~dma_start_r'
         /\ finished' = finished \/ (r.pc = "wait" /\ finished' = finished \cup {Whole(r.id)})
<1> USE DEF Foreign
<1>1. CASE r.pc \in {"write", "arm", "enable", "ring"}
  <2>1. AtRest' /\ finished' = finished /\ Settled'
    BY <1>1, RestEdge, SettledStays DEF CallInv
  <2>2. Filled(r)'
    BY <1>1, WindowEdge DEF CallInv, Filled
  <2>3. QED
    BY <1>1, <2>1, <2>2 DEF CallInv
<1>2. CASE r.pc = "wait"
  <2>1. /\ DmaIdle' /\ (Lost \/ OnItsWay(r.id) \/ Over(r.id))'
        /\ finished' \in {finished, finished \cup {Whole(r.id)}}
    BY <1>2, WaitEdge DEF CallInv
  <2>2. QED
    BY <1>2, <2>1 DEF CallInv
<1>3. CASE r.pc = "disable"
  <2>1. AtRest' /\ finished' = finished /\ Settled'
    BY <1>3, RestEdge, SettledStays DEF CallInv
  <2>2. Whole(r.id) \in finished'
    BY <1>3, <2>1 DEF CallInv
  <2>3. QED
    BY <1>3, <2>1, <2>2 DEF CallInv, Whole
<1>4. CASE r.pc \in {"loc", "len", "ctrl"}
  <2>1. AtRest' /\ finished' = finished /\ Settled'
    BY <1>4, RestEdge, SettledStays DEF CallInv
  <2>2. QED
    BY <1>4, <2>1 DEF CallInv
<1>5. CASE r.pc = "poll"
  <2>1. Quiet' /\ finished' = finished /\ Settled'
    BY <1>5, QuietEdge, SettledStays DEF CallInv
  <2>2. ~dma_start_r'
    <3>1. CASE InReset
      BY <3>1, ResetRests DEF AtRest, DmaIdle
    <3>2. CASE ~InReset
      BY <3>2, RunningEdge DEF DmaRegsClk
    <3>3. QED
      BY <3>1, <3>2
  <2>3. QED
    BY <1>5, <2>1, <2>2 DEF CallInv
<1>6. CASE r.pc = "clear"
  <2>1. Quiet' /\ finished' = finished /\ Settled'
    BY <1>6, QuietEdge, SettledStays DEF CallInv
  <2>2. DmaIdle'
    BY <1>6, EngineStays DEF CallInv
  <2>3. QED
    BY <1>6, <2>1, <2>2 DEF CallInv, DmaIdle, dma_busy, rd_busy, wr_busy
<1>7. QED
  BY <1>1, <1>2, <1>3, <1>4, <1>5, <1>6 DEF Held

-----------------------------------------------------------------------------
(***************************************************************************)
(* Every step keeps what the owner relies on.                              *)
(***************************************************************************)

\* A step adds at most a whole descriptor to the commands that are over.
LEMMA OutcomeKept ==
  ASSUME OutcomeInv, result'.submit = result.submit,
         \/ finished' = finished
         \/ \E id \in 1 .. MaxSubmits : finished' = finished \cup {Whole(id)}
  PROVE  OutcomeInv'
<1>1. finished \subseteq finished'
  OBVIOUS
<1>2. SuccessMeansDone'
  BY <1>1 DEF OutcomeInv, SuccessMeansDone, Whole
<1>3. UntornCommands'
  BY DEF OutcomeInv, UntornCommands, Whole
<1>4. QED
  BY <1>2, <1>3 DEF OutcomeInv

\* The mutex has an owner with what it relies on, or none.
LEMMA OwnerIs ==
  ASSUME NEW t \in Threads, NEW r, cmd_lock' = t, th'[t] = r, CallInv(r)'
  PROVE  OwnerInv'
<1>1. cmd_lock' # NoThread
  BY DriverAssumption DEF NoThread
<1>2. ASSUME NEW u \in Threads, cmd_lock' = u PROVE CallInv(th[u])'
  <2>1. u = t /\ th'[u] = r
    BY <1>2
  <2>2. QED
    BY <2>1 DEF CallInv, Filled
<1>3. QED
  BY <1>1, <1>2 DEF OwnerInv

\* A free mutex means a device at rest.
LEMMA NobodyOwns ==
  ASSUME cmd_lock' = NoThread, AtRest', Settled'
  PROVE  OwnerInv'
  BY DriverAssumption DEF OwnerInv, NoThread

\* The owner in its place.
LEMMA OwnerHas ==
  ASSUME BaseInv, OwnerInv, NEW t \in Threads, th[t].pc \in Held
  PROVE  cmd_lock = t /\ ThreadOK(th[t]) /\ CallInv(th[t])
  BY DEF BaseInv, SoftInv, ThreadInv, LockInv, OwnerInv

\* An edge with an access of the handler, of probe or remove, or of a thread
\* outside the mutex.
LEMMA ForeignStep ==
  ASSUME OwnerInv, OutcomeInv, NEW bus, GoodEdge(bus), bus.reg \in Foreign,
         cmd_lock' = cmd_lock, cmd_lock \in Threads => th'[cmd_lock] = th[cmd_lock],
         HandlerMoves(bus), cmd_done' = cmd_done, result'.submit = result.submit
  PROVE  OwnerInv' /\ OutcomeInv'
<1>1. CASE cmd_lock = NoThread
  <2>1. AtRest' /\ Settled' /\ finished' = finished
    BY <1>1, RestEdge, SettledStays DEF OwnerInv, Foreign
  <2>2. QED
    BY <1>1, <2>1, NobodyOwns, OutcomeKept
<1>2. CASE cmd_lock \in Threads
  <2>1. PICK t \in Threads, r \in ThreadType : t = cmd_lock /\ r = th[t] /\ r = th'[t]
    BY <1>2 DEF GoodEdge, BaseInv, SoftInv, ThreadInv
  <2>2. r.pc \in Held /\ ThreadOK(r) /\ CallInv(r)
    <3>1. th[t].pc \in Held
      BY <2>1 DEF GoodEdge, BaseInv, SoftInv, LockInv
    <3>2. QED
      BY <2>1, <3>1, OwnerHas DEF GoodEdge
  <2>3. /\ CallInv(r)'
        /\ finished' = finished \/ (r.pc = "wait" /\ finished' = finished \cup {Whole(r.id)})
    BY <2>2, CallEdge
  <2>4. r.pc = "wait" => r.id \in 1 .. MaxSubmits
    BY <2>2 DEF ThreadOK, SubmitPcs
  <2>5. OutcomeInv'
    BY <2>3, <2>4, OutcomeKept
  <2>6. QED
    BY <2>1, <2>3, <2>5, OwnerIs
<1>3. QED
  BY <1>1, <1>2 DEF GoodEdge, BaseInv, SoftInv, LockInv

\* What a thread's move makes of its record.
LEMMA MovedTo ==
  ASSUME BaseInv, NEW t \in Threads, NEW pc, Goto(t, pc)
  PROVE  /\ th'[t].pc = pc /\ th'[t].id = th[t].id /\ th'[t].word = th[t].word
         /\ \A u \in Threads \ {t} : th'[u] = th[u]
  BY DEF BaseInv, SoftInv, ThreadInv, ThreadType, Goto

\* lgnpu_cmd_submit on the bus.
LEMMA SubmitCalm ==
  ASSUME OwnerInv, OutcomeInv, BaseInv, BaseInv', NEW t \in Threads, NEW env \in EdgeEnv,
         \/ SubmitCheck(t, env) \/ SubmitWrite(t, env) \/ SubmitEnable(t, env)
         \/ SubmitRing(t, env) \/ SubmitDisable(t, env)
  PROVE  OwnerInv' /\ OutcomeInv'
<1> USE DriverWrites DEF At, exceptThread
<1>r. PICK r : r = th'[t]
  OBVIOUS
<1>kept. /\ UNCHANGED <<h_pc, cmd_done, result>>
         /\ Settled => Settled'
  BY DEF SubmitCheck, SubmitWrite, SubmitEnable, SubmitRing, SubmitDisable, Settled
<1>out. finished' = finished => OutcomeInv'
  BY <1>kept, OutcomeKept
<1>1. CASE SubmitCheck(t, env)
  <2>1. GoodEdge(NoWrite) /\ cmd_lock = NoThread /\ th[t].pc = "submit"
    BY <1>1 DEF SubmitCheck, mutex_free, GoodEdge
  <2>2. AtRest' /\ Settled' /\ finished' = finished
    BY <2>1, <1>kept, RestEdge DEF OwnerInv, NoWrite
  <2>3. CASE Leave(t)
    BY <2>2, <2>3, <1>out, NobodyOwns DEF Leave
  <2>4. CASE cmd_lock' = t /\ Goto(t, "write")
    <3>1. r.pc = "write" /\ r.word = 0
      <4>1. th[t].word = 0
        BY <2>1 DEF BaseInv, SoftInv, ThreadInv, ThreadOK, Submitting
      <4>2. QED
        BY <1>r, <2>4, <4>1, MovedTo
    <3>2. CallInv(r)'
      BY <2>2, <3>1 DEF CallInv, Filled, WordIdx
    <3>3. QED
      BY <1>r, <2>2, <2>4, <3>2, <1>out, OwnerIs
  <2>5. QED
    BY <1>1, <2>3, <2>4 DEF SubmitCheck
<1>2. CASE SubmitWrite(t, env)
  <2>1. /\ th[t].pc = "write" /\ cmd_lock' = cmd_lock
        /\ Edge(WriteCmdWord(th[t].word, th[t].id), env)
    BY <1>2 DEF SubmitWrite
  <2>2. cmd_lock = t /\ ThreadOK(th[t]) /\ CallInv(th[t])
    BY <2>1, OwnerHas DEF Held
  <2>3. PICK w \in WordIdx, id \in 1 .. MaxSubmits : w = th[t].word /\ id = th[t].id
    BY <2>1, <2>2, NumWordsAssumption DEF ThreadOK, ThreadType, WordIdx, SubmitPcs
  <2>4. GoodEdge(WriteCmdWord(w, id))
    BY <2>1, <2>3, DriverAssumption DEF GoodEdge
  <2>5. AtRest' /\ Settled' /\ finished' = finished
    BY <2>1, <2>2, <2>4, <1>kept, RestEdge DEF CallInv, WriteCmdWord
  <2>6. /\ r.pc \in {"arm", "write"} /\ r.id = id /\ r.word = w + 1
    BY <1>r, <1>2, <2>3 DEF SubmitWrite, BaseInv, SoftInv, ThreadInv, ThreadType
  <2>7. \A i \in WordIdx : i < w + 1 => cmd_mem'[i] = id
    <3>1. cmd_mem' = [cmd_mem EXCEPT ![w] = id] /\ cmd_mem \in [WordIdx -> Word]
      BY <2>4, WindowEdge DEF WriteCmdWord, BaseInv, ShellTypeOK, RegBlockTypeOK
    <3>2. \A i \in WordIdx : i < w => cmd_mem[i] = id
      BY <2>1, <2>2, <2>3 DEF CallInv, Filled
    <3>3. \A i \in WordIdx : i < w + 1 => i = w \/ i < w
      BY DEF WordIdx
    <3>4. QED
      BY <3>1, <3>2, <3>3
  <2>8. CallInv(r)'
    BY <2>5, <2>6, <2>7 DEF CallInv, Filled
  <2>9. QED
    BY <1>r, <2>1, <2>2, <2>5, <2>8, <1>out, OwnerIs
<1>3. CASE SubmitEnable(t, env)
  <2>1. /\ th[t].pc = "enable" /\ cmd_lock' = cmd_lock
        /\ GoodEdge(WriteIrqEnable(TRUE)) /\ Goto(t, "ring")
    BY <1>3 DEF SubmitEnable, GoodEdge
  <2>2. cmd_lock = t /\ CallInv(th[t])
    BY <2>1, OwnerHas DEF Held
  <2>3. AtRest' /\ Settled' /\ finished' = finished
    BY <2>1, <2>2, <1>kept, RestEdge DEF CallInv, WriteIrqEnable
  <2>4. r.pc = "ring" /\ r.id = th[t].id /\ r.word = th[t].word
    BY <1>r, <2>1, MovedTo
  <2>5. cmd_mem' = cmd_mem
    BY <2>1, WindowEdge DEF WriteIrqEnable
  <2>6. CallInv(r)'
    BY <2>1, <2>2, <2>3, <2>4, <2>5 DEF CallInv, Filled
  <2>7. QED
    BY <1>r, <2>1, <2>2, <2>3, <2>6, <1>out, OwnerIs
<1>4. CASE SubmitRing(t, env)
  <2>1. /\ th[t].pc = "ring" /\ cmd_lock' = cmd_lock
        /\ GoodEdge(WriteDoorbell) /\ Goto(t, "wait")
    BY <1>4 DEF SubmitRing, GoodEdge
  <2>2. cmd_lock = t /\ ThreadOK(th[t]) /\ CallInv(th[t])
    BY <2>1, OwnerHas DEF Held
  <2>3. PICK id : id = th[t].id
    OBVIOUS
  <2>4. cmd_mem = Whole(id)
    <3>1. th[t].word = NUM_WORDS
      BY <2>1, <2>2 DEF ThreadOK, Submitting
    <3>2. \A i \in WordIdx : i < NUM_WORDS
      BY NumWordsAssumption DEF WordIdx
    <3>3. \A i \in WordIdx : cmd_mem[i] = id
      BY <2>1, <2>2, <2>3, <3>1, <3>2 DEF CallInv, Filled
    <3>4. cmd_mem \in [WordIdx -> Word]
      BY DEF BaseInv, ShellTypeOK, RegBlockTypeOK
    <3>5. QED
      BY <3>3, <3>4 DEF Whole
  <2>5. /\ DmaIdle' /\ FlagGone' /\ finished' = finished
        /\ Quiet' \/ Stage(0, id)'
    BY <2>1, <2>2, <2>4, RingEdge DEF CallInv
  <2>6. Settled' /\ r.pc = "wait" /\ r.id = id
    BY <1>r, <2>1, <2>2, <2>3, <1>kept, MovedTo DEF CallInv
  <2>7. (Lost \/ OnItsWay(id))'
    <3>1. 0 \in 0 .. LastStage
      BY NumWordsAssumption DEF LastStage
    <3>2. QED
      BY <2>5, <2>6, <3>1 DEF Lost, AtRest, OnItsWay
  <2>8. CallInv(r)'
    BY <2>5, <2>6, <2>7 DEF CallInv
  <2>9. QED
    BY <1>r, <2>1, <2>2, <2>5, <2>8, <1>out, OwnerIs
<1>5. CASE SubmitDisable(t, env)
  <2>1. th[t].pc = "disable" /\ GoodEdge(WriteIrqEnable(FALSE)) /\ cmd_lock' = NoThread
    BY <1>5 DEF SubmitDisable, GoodEdge, lgnpu_irq_disable, Leave
  <2>2. CallInv(th[t])
    BY <2>1, OwnerHas DEF Held
  <2>3. AtRest' /\ Settled' /\ finished' = finished
    BY <2>1, <2>2, <1>kept, RestEdge DEF CallInv, WriteIrqEnable
  <2>4. QED
    BY <2>1, <2>3, <1>out, NobodyOwns
<1>6. QED
  BY <1>1, <1>2, <1>3, <1>4, <1>5

\* lgnpu_dma_transfer on the bus.
LEMMA DmaCalm ==
  ASSUME OwnerInv, OutcomeInv, BaseInv, BaseInv', NEW t \in Threads, NEW env \in EdgeEnv,
         DmaProgram(t, env) \/ DmaPoll(t, env) \/ DmaReturn(t, env)
  PROVE  OwnerInv' /\ OutcomeInv'
<1> USE DriverWrites DEF At, exceptThread
<1>r. PICK r : r = th'[t]
  OBVIOUS
<1>kept. /\ UNCHANGED <<h_pc, cmd_done, result.submit>>
         /\ Settled => Settled'
  BY DEF DmaProgram, DmaPoll, DmaReturn, Settled, BaseInv, SoftInv, SoftTypes
<1>out. finished' = finished => OutcomeInv'
  BY <1>kept, OutcomeKept
<1>1. CASE DmaProgram(t, env)
  <2>1. cmd_lock' = t
    BY <1>1 DEF DmaProgram
  <2>2. ASSUME NEW bus \in Bus, Edge(bus, env), AtRest, Settled, NEW pc \in {"loc", "len", "ctrl"},
               Goto(t, pc), bus.reg \notin {"DOORBELL", "DMA_CTRL"}
        PROVE  OwnerInv' /\ OutcomeInv'
    <3>1. AtRest' /\ Settled' /\ finished' = finished
      BY <2>2, <1>kept, RestEdge DEF GoodEdge
    <3>2. r.pc \in {"loc", "len", "ctrl"}
      BY <1>r, <2>2, MovedTo
    <3>3. CallInv(r)'
      BY <3>1, <3>2 DEF CallInv
    <3>4. QED
      BY <1>r, <2>1, <3>1, <3>3, <1>out, OwnerIs
  <2>3. CASE At(t, "ext") /\ mutex_free
             /\ Edge(WriteDma("DMA_EXT_ADDR", DmaReq.ext), env) /\ Goto(t, "loc")
    <3>1. AtRest /\ Settled
      BY <2>3 DEF mutex_free, OwnerInv
    <3>2. QED
      BY <2>2, <2>3, <3>1 DEF WriteDma
  <2>4. CASE At(t, "loc") /\ Edge(WriteDma("DMA_LOC_ADDR", DmaReq.loc), env) /\ Goto(t, "len")
    <3>1. AtRest /\ Settled
      BY <2>4, OwnerHas DEF Held, CallInv
    <3>2. QED
      BY <2>2, <2>4, <3>1 DEF WriteDma
  <2>5. CASE At(t, "len") /\ Edge(WriteDma("DMA_LEN", DmaReq.len), env) /\ Goto(t, "ctrl")
    <3>1. AtRest /\ Settled
      BY <2>5, OwnerHas DEF Held, CallInv
    <3>2. QED
      BY <2>2, <2>5, <3>1 DEF WriteDma
  <2>6. CASE At(t, "ctrl") /\ Edge(WriteDmaCtrl(TRUE, DmaReq.dir), env) /\ Goto(t, "poll")
    <3>1. AtRest /\ Settled /\ GoodEdge(WriteDmaCtrl(TRUE, DmaReq.dir))
      BY <2>6, OwnerHas DEF Held, CallInv, GoodEdge
    <3>2. Quiet' /\ Settled' /\ finished' = finished
      BY <3>1, <1>kept, QuietEdge DEF AtRest, WriteDmaCtrl
    <3>3. r.pc = "poll"
      BY <1>r, <2>6, MovedTo
    <3>4. CallInv(r)'
      BY <3>2, <3>3 DEF CallInv
    <3>5. QED
      BY <1>r, <2>1, <3>2, <3>4, <1>out, OwnerIs
  <2>7. QED
    BY <1>1, <2>3, <2>4, <2>5, <2>6 DEF DmaProgram
<1>2. CASE DmaPoll(t, env)
  <2>1. /\ th[t].pc = "poll" /\ GoodEdge(NoWrite) /\ cmd_lock' = cmd_lock
        /\ Goto(t, IF dma_busy' THEN "poll" ELSE "clear")
    BY <1>2 DEF DmaPoll, GoodEdge
  <2>2. cmd_lock = t /\ CallInv(th[t])
    BY <2>1, OwnerHas DEF Held
  <2>3. Quiet' /\ Settled' /\ finished' = finished
    BY <2>1, <2>2, <1>kept, QuietEdge DEF CallInv, NoWrite
  <2>4. ~dma_start_r'
    <3>1. PICK q : q = th[t]
      OBVIOUS
    <3>2. QED
      BY <2>1, <2>2, <3>1, <1>kept, CallEdge DEF Held, Foreign, NoWrite, HandlerMoves
  <2>5. r.pc = IF dma_busy' THEN "poll" ELSE "clear"
    BY <1>r, <2>1, MovedTo
  <2>6. CallInv(r)'
    BY <2>3, <2>4, <2>5 DEF CallInv
  <2>7. QED
    BY <1>r, <2>1, <2>2, <2>3, <2>6, <1>out, OwnerIs
<1>3. CASE DmaReturn(t, env)
  <2>1. th[t].pc = "clear" /\ GoodEdge(WriteIrqClear) /\ cmd_lock' = NoThread
    BY <1>3 DEF DmaReturn, GoodEdge, DmaAck, Leave
  <2>2. CallInv(th[t])
    BY <2>1, OwnerHas DEF Held
  <2>3. Quiet' /\ Settled' /\ finished' = finished
    BY <2>1, <2>2, <1>kept, QuietEdge DEF CallInv, WriteIrqClear
  <2>4. DmaIdle'
    BY <2>1, <2>2, EngineStays DEF CallInv, WriteIrqClear
  <2>5. FlagGone'
    BY <2>1, FlagEdge DEF GoodEdge, FlagGone, WriteIrqClear
  <2>6. QED
    BY <2>1, <2>3, <2>4, <2>5, <1>out, NobodyOwns DEF AtRest
<1>4. QED
  BY <1>1, <1>2, <1>3

\* A step of the software leaves the device as it is.
DeviceKept == UNCHANGED <<shellVars, finished>>

\* Every predicate about the device is then what it was,
LEMMA DeviceStays ==
  ASSUME DeviceKept
  PROVE  /\ Quiet' <=> Quiet
         /\ DmaIdle' <=> DmaIdle
         /\ FlagGone' <=> FlagGone
         /\ dma_busy' <=> dma_busy
         /\ dma_start_r' <=> dma_start_r
         /\ cmd_mem' = cmd_mem
         /\ \A id : (\E p \in 0 .. LastStage : Stage(p, id)')
                        <=> \E p \in 0 .. LastStage : Stage(p, id)
<1> USE DEF DeviceKept, shellVars, regVars, dmaRegVars, fetchVars, decodeVars, queueVars,
            schedVars, dmaVars
<1>1. Contents' = Contents
  BY DEF Contents, Occupancy
<1>2. (FrontIdle' <=> FrontIdle) /\ (BackIdle' <=> BackIdle)
  BY <1>1 DEF FrontIdle, BackIdle
<1>3. ASSUME NEW id, NEW p \in 0 .. LastStage PROVE Stage(p, id)' <=> Stage(p, id)
  BY <1>1, <1>2 DEF Stage, Ringing, Reading, Arriving, Fetching, Checking, Offering, Queued,
        Issuing, Running, Whole
<1>4. QED
  BY <1>2, <1>3 DEF Quiet, DmaIdle, FlagGone, dma_busy, rd_busy, wr_busy

\* and so is what a caller relies on.
LEMMA CallStays ==
  ASSUME NEW r, CallInv(r), DeviceKept, UNCHANGED <<h_pc, cmd_done>>
  PROVE  CallInv(r)'
<1>1. finished' = finished /\ (Settled' <=> Settled) /\ (AtRest' <=> AtRest)
  BY DeviceStays DEF DeviceKept, Settled, AtRest
<1>2. (Lost \/ OnItsWay(r.id) \/ Over(r.id)) => (Lost \/ OnItsWay(r.id) \/ Over(r.id))'
  <2>1. Lost => Lost'
    BY <1>1 DEF Lost
  <2>2. OnItsWay(r.id) => OnItsWay(r.id)'
    BY <1>1, DeviceStays DEF OnItsWay
  <2>3. Over(r.id) => Over(r.id)'
    BY <1>1, DeviceStays DEF Over, Whole
  <2>4. QED
    BY <2>1, <2>2, <2>3
<1>3. Filled(r) => Filled(r)'
  BY DeviceStays DEF Filled
<1>4. QED
  BY <1>1, <1>2, <1>3, DeviceStays DEF CallInv, Whole

\* Software outside the mutex and the handler.
LEMMA SoftStays ==
  ASSUME OwnerInv, OutcomeInv, BaseInv, DeviceKept, UNCHANGED <<h_pc, cmd_done, cmd_lock>>,
         cmd_lock \in Threads => th'[cmd_lock] = th[cmd_lock], result'.submit = result.submit
  PROVE  OwnerInv' /\ OutcomeInv'
<1>1. OutcomeInv'
  BY OutcomeKept DEF DeviceKept
<1>2. CASE cmd_lock = NoThread
  <2>1. AtRest' /\ Settled'
    BY <1>2, DeviceStays DEF OwnerInv, AtRest, Settled
  <2>2. QED
    BY <1>1, <1>2, <2>1, NobodyOwns
<1>3. CASE cmd_lock \in Threads
  <2>1. PICK t \in Threads, r \in ThreadType : t = cmd_lock /\ r = th[t] /\ r = th'[t]
    BY <1>3 DEF BaseInv, SoftInv, ThreadInv
  <2>2. CallInv(r)
    BY <2>1 DEF OwnerInv
  <2>3. CallInv(r)'
    BY <2>2, CallStays
  <2>4. QED
    BY <1>1, <2>1, <2>3, OwnerIs
<1>4. QED
  BY <1>2, <1>3 DEF BaseInv, SoftInv, LockInv

\* The completion: armed, and taken by the caller whose command it is about.
LEMMA CompletionCalm ==
  ASSUME OwnerInv, OutcomeInv, BaseInv, DeviceKept, NEW t \in Threads,
         SubmitArm(t) \/ Completed(t)
  PROVE  OwnerInv' /\ OutcomeInv'
<1> USE DEF At
<1>r. PICK r : r = th'[t]
  OBVIOUS
<1>1. CASE SubmitArm(t)
  <2>1. th[t].pc = "arm" /\ Goto(t, "enable") /\ cmd_lock' = cmd_lock
    BY <1>1 DEF SubmitArm
  <2>2. cmd_lock = t /\ CallInv(th[t])
    BY <2>1, OwnerHas DEF Held
  <2>3. AtRest' /\ Settled' /\ cmd_mem' = cmd_mem
    BY <1>1, <2>1, <2>2, DeviceStays
      DEF CallInv, AtRest, Settled, SubmitArm, reinit_completion
  <2>4. r.pc = "enable" /\ r.id = th[t].id /\ r.word = th[t].word
    BY <1>r, <2>1, MovedTo
  <2>5. CallInv(r)'
    BY <2>1, <2>2, <2>3, <2>4 DEF CallInv, Filled
  <2>6. OutcomeInv'
    BY <1>1, OutcomeKept DEF SubmitArm, DeviceKept
  <2>7. QED
    BY <1>r, <2>1, <2>2, <2>5, <2>6, OwnerIs
<1>2. CASE Completed(t)
  <2>1. /\ th[t].pc = "wait" /\ Goto(t, "disable") /\ cmd_lock' = cmd_lock
        /\ cmd_done > 0 /\ cmd_done' = cmd_done - 1 /\ h_pc' = h_pc
        /\ result' = [result EXCEPT !.submit = @ \cup {th[t].id}]
    BY <1>2 DEF Completed, completion_done
  <2>2. cmd_lock = t /\ CallInv(th[t])
    BY <2>1, OwnerHas DEF Held
  <2>3. PICK id : id = th[t].id
    OBVIOUS
  <2>4. DmaIdle /\ Over(id) /\ cmd_done = 1 /\ h_pc = "off" /\ FlagGone
    BY <2>1, <2>2, <2>3 DEF CallInv, Lost, OnItsWay, Over, Settled
  <2>5. AtRest' /\ Settled'
    BY <2>1, <2>4, DeviceStays DEF Over, AtRest, Settled
  <2>6. finished' = finished /\ Whole(id) \in finished'
    BY <2>4 DEF Over, DeviceKept
  <2>7. r.pc = "disable" /\ r.id = id
    BY <1>r, <2>1, <2>3, MovedTo
  <2>8. CallInv(r)'
    BY <2>5, <2>6, <2>7 DEF CallInv, Whole
  <2>9. OutcomeInv'
    <3>1. result'.submit = result.submit \cup {id}
      BY <2>1, <2>3 DEF BaseInv, SoftInv, SoftTypes
    <3>2. SuccessMeansDone'
      BY <2>6, <3>1 DEF OutcomeInv, SuccessMeansDone, Whole
    <3>3. UntornCommands'
      BY <2>6 DEF OutcomeInv, UntornCommands, Whole
    <3>4. QED
      BY <3>2, <3>3 DEF OutcomeInv
  <2>10. QED
    BY <1>r, <2>1, <2>2, <2>8, <2>9, OwnerIs
<1>3. QED
  BY <1>1, <1>2

\* The handler is invoked, and signals, only for a command that is over and
\* whose caller is waiting.
LEMMA HandlerCalm ==
  ASSUME OwnerInv, OutcomeInv, BaseInv, LineOnlyInSubmission, Calm, DeviceKept,
         HandlerInvoked \/ HandlerComplete
  PROVE  OwnerInv' /\ OutcomeInv'
<1>1. UNCHANGED <<th, cmd_lock, result>> /\ finished' = finished
  BY DEF HandlerInvoked, HandlerComplete, exceptHandler, DeviceKept
<1>2. ~(Settled /\ FlagGone)
  BY DEF HandlerInvoked, HandlerComplete, irq, irq_out, irq_enable, Calm, FlagGone, Settled
<1>3. cmd_lock # NoThread
  BY <1>2 DEF OwnerInv, AtRest
<1>4. PICK t \in Threads, r \in ThreadType : t = cmd_lock /\ r = th[t] /\ r = th'[t]
  BY <1>1, <1>3 DEF BaseInv, SoftInv, ThreadInv, LockInv
<1>5. r.pc \in Held /\ CallInv(r)
  BY <1>4 DEF OwnerInv, BaseInv, SoftInv, LockInv
<1>6. ~Settled \/ (r.pc \in LineHeld /\ ~FlagGone)
  BY <1>2, <1>4 DEF LineOnlyInSubmission, LineHeld, HandlerInvoked, HandlerComplete, irq,
        irq_out, irq_enable, Calm, FlagGone, Settled
<1>7. r.pc = "wait" /\ DmaIdle /\ Over(r.id)
  BY <1>5, <1>6 DEF CallInv, Held, LineHeld, AtRest, Lost, OnItsWay
<1>8. Quiet' /\ DmaIdle' /\ Whole(r.id) \in finished' /\ (FlagGone => FlagGone')
  BY <1>1, <1>7, DeviceStays DEF Over
<1>9. \/ h_pc' \in {"off", "read", "clear"} /\ cmd_done' = 0
      \/ h_pc' = "complete" /\ cmd_done' = 0 /\ FlagGone'
      \/ h_pc' = "off" /\ cmd_done' = 1 /\ FlagGone'
  <2>1. CASE HandlerInvoked
    <3>1. h_pc = "off" /\ h_pc' = "read" /\ cmd_done' = cmd_done /\ ~FlagGone
      BY <2>1 DEF HandlerInvoked, exceptHandler, irq, irq_out, Calm, FlagGone
    <3>2. QED
      BY <1>7, <3>1 DEF Over
  <2>2. CASE HandlerComplete
    BY <1>7, <1>8, <2>2 DEF HandlerComplete, complete, Over
  <2>3. QED
    BY <2>1, <2>2
<1>10. Over(r.id)'
  BY <1>8, <1>9 DEF Over, Whole
<1>11. CallInv(r)'
  BY <1>7, <1>8, <1>10 DEF CallInv
<1>12. QED
  BY <1>1, <1>4, <1>11, OwnerIs, OutcomeKept

\* Which faults there are is settled at the start.
LEMMA FaultsStay == [Next]_vars => faults' = faults
<1>1. ASSUME NEW env, Pause(env) \/ HandlerBus(env) \/ ProbeHardware(env) \/ Remove(env)
      PROVE  faults' = faults
  BY <1>1 DEF Pause, HandlerBus, HandlerRead, HandlerClear, ProbeHardware, Remove, DrvOnly,
              softVars, exceptHandler
<1>2. ASSUME NEW env, NEW t, ThreadBus(t, env) \/ CallReset(t, env) \/ CallEnable(t, env)
      PROVE  faults' = faults
  BY <1>2 DEF ThreadBus, SubmitCheck, SubmitWrite, SubmitEnable, SubmitRing, SubmitDisable,
              DmaProgram, DmaPoll, DmaReturn, CallReset, CallEnable, Enter, exceptThread, softVars
<1>3. ASSUME \/ ProbeSoftware \/ ProbeFails \/ Removed \/ HandlerInvoked \/ HandlerComplete
      PROVE  faults' = faults
  BY <1>3 DEF ProbeSoftware, ProbeFails, Removed, HandlerInvoked, HandlerComplete, DrvOnly,
              exceptHandler
<1>4. ASSUME NEW t, CallSubmit(t) \/ CallDma(t) \/ ThreadSoftware(t) \/ Interrupted(t)
      PROVE  faults' = faults
  BY <1>4 DEF CallSubmit, CallDma, Enter, ThreadSoftware, SubmitArm, Completed, TimedOut,
              DmaTimedOut, ResetReturn, Interrupted, exceptThread
<1>5. UNCHANGED vars => faults' = faults
  BY DEF vars, softVars
<1>6. QED
  BY <1>1, <1>2, <1>3, <1>4, <1>5 DEF Next, Clocked, SoftwareOnly

\* Together, for every step of the system.
LEMMA CalmStep ==
  ASSUME BaseInv, BaseInv', LineOnlyInSubmission, CalmInv, [Next]_vars
  PROVE  CalmInv'
<1>0. faults' = faults
  BY FaultsStay
<1> SUFFICES ASSUME Calm, OwnerInv, OutcomeInv PROVE OwnerInv' /\ OutcomeInv'
  BY <1>0 DEF CalmInv, Calm
<1> USE DEF At
<1>free. ASSUME NEW t \in Threads, th[t].pc \notin Held,
                \A u \in Threads \ {t} : th'[u] = th[u]
         PROVE  cmd_lock \in Threads => th'[cmd_lock] = th[cmd_lock]
  BY <1>free DEF BaseInv, SoftInv, LockInv
<1>1. ASSUME NEW env \in EdgeEnv,
             Pause(env) \/ HandlerBus(env) \/ ProbeHardware(env) \/ Remove(env)
      PROVE  OwnerInv' /\ OutcomeInv'
  <2>1. UNCHANGED <<th, cmd_lock, cmd_done, result>>
    BY <1>1 DEF Pause, HandlerBus, HandlerRead, HandlerClear, ProbeHardware, Remove, DrvOnly,
                softVars, exceptHandler
  <2>2. PICK bus \in {NoWrite, WriteIrqClear, WriteCtrl({"SOFT_RESET"}), WriteCtrl({"ENABLE"}),
                      WriteIrqEnable(FALSE)} : Edge(bus, env) /\ HandlerMoves(bus)
    BY <1>1 DEF Pause, HandlerBus, HandlerRead, HandlerClear, HandlerAck, ProbeHardware, Remove,
                lgnpu_irq_disable, DrvOnly, softVars, HandlerMoves, WriteIrqClear
  <2>3. GoodEdge(bus) /\ bus.reg \in Foreign
    <3>1. bus \in Bus
      BY <2>2, DriverWrites
    <3>2. bus.reg \in Foreign
      BY <2>2 DEF Foreign, NoWrite, WriteIrqClear, WriteCtrl, WriteIrqEnable
    <3>3. QED
      BY <2>2, <3>1, <3>2 DEF GoodEdge
  <2>4. QED
    BY <2>1, <2>2, <2>3, ForeignStep
<1>2. ASSUME NEW env \in EdgeEnv, NEW t \in Threads, ThreadBus(t, env)
      PROVE  OwnerInv' /\ OutcomeInv'
  BY <1>2, SubmitCalm, DmaCalm DEF ThreadBus
<1>3. ASSUME NEW env \in EdgeEnv, NEW t \in Threads, CallReset(t, env) \/ CallEnable(t, env)
      PROVE  OwnerInv' /\ OutcomeInv'
  <2>1. UNCHANGED <<cmd_lock, cmd_done, result, h_pc>> /\ th[t].pc = "idle"
    BY <1>3 DEF CallReset, CallEnable, Enter, softVars
  <2>2. \A u \in Threads \ {t} : th'[u] = th[u]
    BY <1>3 DEF CallReset, CallEnable, Enter, softVars, BaseInv, SoftInv, ThreadInv
  <2>3. PICK bus \in {WriteCtrl({"SOFT_RESET"}), WriteCtrl({"ENABLE"})} : Edge(bus, env)
    BY <1>3 DEF CallReset, CallEnable
  <2>4. GoodEdge(bus) /\ bus.reg \in Foreign /\ HandlerMoves(bus)
    BY <2>1, <2>3, DriverWrites DEF GoodEdge, Foreign, WriteCtrl, HandlerMoves
  <2>5. cmd_lock \in Threads => th'[cmd_lock] = th[cmd_lock]
    BY <1>free, <2>1, <2>2 DEF Held
  <2>6. QED
    BY <2>1, <2>4, <2>5, ForeignStep
<1>4. ASSUME DeviceKept, HandlerInvoked \/ HandlerComplete
      PROVE  OwnerInv' /\ OutcomeInv'
  BY <1>4, HandlerCalm
<1>5. ASSUME DeviceKept, ProbeSoftware \/ ProbeFails \/ Removed
      PROVE  OwnerInv' /\ OutcomeInv'
  <2>1. UNCHANGED <<th, cmd_lock, cmd_done, h_pc, result>>
    BY <1>5 DEF ProbeSoftware, ProbeFails, Removed, DrvOnly
  <2>2. QED
    BY <1>5, <2>1, SoftStays
<1>6. ASSUME DeviceKept, NEW t \in Threads,
             CallSubmit(t) \/ CallDma(t) \/ ThreadSoftware(t) \/ Interrupted(t)
      PROVE  OwnerInv' /\ OutcomeInv'
  <2>1. CASE SubmitArm(t) \/ Completed(t)
    BY <1>6, <2>1, CompletionCalm
  <2>2. CASE CallSubmit(t) \/ CallDma(t) \/ ResetReturn(t)
    <3>1. UNCHANGED <<cmd_lock, cmd_done, result, h_pc>> /\ th[t].pc \in {"idle", "delay"}
      BY <2>2 DEF CallSubmit, CallDma, ResetReturn, Enter, exceptThread
    <3>2. \A u \in Threads \ {t} : th'[u] = th[u]
      BY <2>2 DEF CallSubmit, CallDma, ResetReturn, Enter, Return, BaseInv, SoftInv, ThreadInv
    <3>3. cmd_lock \in Threads => th'[cmd_lock] = th[cmd_lock]
      BY <1>free, <3>1, <3>2 DEF Held
    <3>4. QED
      BY <1>6, <3>1, <3>3, SoftStays
  <2>3. ~TimedOut(t) /\ ~DmaTimedOut(t) /\ ~Interrupted(t)
    BY DEF Calm, TimedOut, DmaTimedOut, Interrupted
  <2>4. QED
    BY <1>6, <2>1, <2>2, <2>3 DEF ThreadSoftware
<1>7. CASE UNCHANGED vars
  <2>1. DeviceKept /\ UNCHANGED <<th, cmd_lock, cmd_done, h_pc, result>>
    BY <1>7 DEF vars, softVars, DeviceKept
  <2>2. QED
    BY <2>1, SoftStays
<1>8. QED
  BY <1>1, <1>2, <1>3, <1>4, <1>5, <1>6, <1>7
    DEF Next, Clocked, SoftwareOnly, DeviceKept, EdgeEnv

\* And the device starts at rest.
LEMMA CalmInit == Init => CalmInv
<1> SUFFICES ASSUME Init PROVE CalmInv
  OBVIOUS
<1>1. Contents = <<>>
  <2>1. Occupancy = 0
    BY DEF Init, PathInit, Occupancy
  <2>2. ContentsShape
    BY ContentsSeq, DriverShellInit DEF ShellInv
  <2>3. QED
    BY <2>1, <2>2 DEF ContentsShape
<1>2. Quiet
  BY <1>1 DEF Init, PathInit, RegBlockInit, FetchInit, DecodeInit, SchedInit, Quiet, FrontIdle,
              BackIdle
<1>3. DmaIdle /\ FlagGone /\ Settled
  BY DEF Init, PathInit, RegBlockInit, IrqInit, DmaInit, IdleEngine, DmaIdle, FlagGone, Settled
<1>4. OwnerInv
  BY <1>2, <1>3, DriverAssumption DEF Init, OwnerInv, AtRest, NoThread
<1>5. OutcomeInv
  BY DEF Init, OutcomeInv, SuccessMeansDone, UntornCommands
<1>6. QED
  BY <1>4, <1>5 DEF CalmInv

\* What the owner of the mutex finds at each place of its call, as long as no
\* wait is given up: for any number of threads, transfers and resets.
THEOREM OwnerReliesOn == Spec => []CalmInv
  BY CalmInit, CalmStep, BaseInvariant, LineBelongsToOwner, PTL DEF Spec

\* A submission that returns 0 has been executed or refused, unless a wait was
\* given up or another device shares the line.
THEOREM SuccessIsDone == Spec => []SuccessMeansDoneUnlessGivenUp
<1>1. CalmInv => SuccessMeansDoneUnlessGivenUp
  BY DEF CalmInv, Calm, OutcomeInv, SuccessMeansDoneUnlessGivenUp
<1>2. QED
  BY <1>1, OwnerReliesOn, PTL

\* And what was executed or refused is a descriptor that one call wrote.
THEOREM CommandsAreWhole == Spec => []UntornUnlessGivenUp
<1>1. CalmInv => UntornUnlessGivenUp
  BY DEF CalmInv, Calm, OutcomeInv, UntornUnlessGivenUp
<1>2. QED
  BY <1>1, OwnerReliesOn, PTL
-----------------------------------------------------------------------------
(***************************************************************************)
(* Transfers.  All callers of lgnpu_dma_transfer ask for the same thing,   *)
(* DmaReq, so a transfer that timed out and goes on in the background does *)
(* what the next caller asks for.  What matters is that an engine that has *)
(* stopped has moved everything: the invariant follows it byte by byte.    *)
(***************************************************************************)

\* Requests that lgnpu_dma_transfer is meant for: at least one byte, no more
\* than the length register holds, inside the buffers and the external memory.
ReqFits ==
    /\ DmaReq.len \in 1 .. LenSpace - 1
    /\ DmaReq.ext + DmaReq.len <= ExtSpace
    /\ WindowBase <= DmaReq.loc /\ DmaReq.loc + DmaReq.len <= LocSpace

ReqBytes == 0 .. DmaReq.len - 1
SameByte(i) == buf[DmaReq.loc + i] = ext_mem[DmaReq.ext + i]
AllMoved == \A i \in ReqBytes : SameByte(i)

\* The registers hold the request when an engine is started.
StartInv ==
    dma_start_r => /\ dma_ext_addr_r = DmaReq.ext /\ dma_loc_addr_r = DmaReq.loc
                   /\ dma_len_r = DmaReq.len /\ dma_dir_r = DmaReq.dir

\* A busy engine has moved as many bytes of it as it has counted.
Carries(e) ==
    /\ e.len = DmaReq.len /\ e.cnt < e.len
    /\ e.ext = DmaReq.ext + e.cnt /\ e.loc = DmaReq.loc + e.cnt
    /\ \A i \in ReqBytes : i < e.cnt => SameByte(i)

ReaderInv ==
    /\ rd.state # "S_IDLE" => ~DmaReq.dir
    /\ rd_busy => Carries(rd)
    /\ rd.state = "S_EXT_WAIT" => ext_rsp = <<ext_mem[rd.ext]>>
    /\ rd.state = "S_LOC_WR" => rd.data = ext_mem[rd.ext]
    /\ rd.state = "S_DONE" => AllMoved

WriterInv ==
    /\ wr.state # "S_IDLE" => DmaReq.dir
    /\ wr_busy => Carries(wr)
    /\ wr.state = "S_LOC_WAIT" => buf_rsp = <<buf[wr.loc]>>
    /\ wr.state = "S_EXT_WR" => wr.data = buf[wr.loc]
    /\ wr.state = "S_DONE" => AllMoved

EngineInv == StartInv /\ ReaderInv /\ WriterInv

\* What an engine does to the request on one edge.
Progress ==
    /\ ReaderInv' /\ WriterInv'
    /\ AllMoved => AllMoved'
    /\ dma_start_r \/ dma_busy => dma_busy' \/ AllMoved'

\* After a byte, an engine that carries the request has it one byte further.
LEMMA CarriesOn ==
  ASSUME ReqFits, NEW States, NEW e \in EngineType(States), Carries(e),
         NEW again \in States, "S_DONE" \in States
  PROVE  /\ ByteDone(e, again).len = DmaReq.len
         /\ ByteDone(e, again).cnt = e.cnt + 1
         /\ ByteDone(e, again).state = (IF e.cnt + 1 = DmaReq.len THEN "S_DONE" ELSE again)
         /\ e.cnt + 1 # DmaReq.len =>
              /\ ByteDone(e, again).ext = DmaReq.ext + e.cnt + 1
              /\ ByteDone(e, again).loc = DmaReq.loc + e.cnt + 1
<1> DEFINE f == ByteDone(e, again)
<1>1. /\ f.state = (IF LastByte(e) THEN "S_DONE" ELSE again)
      /\ f.cnt = (e.cnt + 1) % LenSpace
      /\ f.ext = (e.ext + 1) % ExtSpace
      /\ f.loc = (e.loc + 1) % LocSpace
      /\ f.len = e.len
  BY ByteDoneFields
<1>2. e.cnt \in Nat /\ e.cnt < e.len /\ e.len = DmaReq.len /\ e.len \in Nat
  BY DEF Carries, EngineType
<1>3. (e.cnt + 1) % LenSpace = e.cnt + 1 /\ (LastByte(e) <=> e.len - e.cnt = 1)
  BY <1>2, LastByteExact
<1>4. ASSUME e.cnt + 1 # DmaReq.len
      PROVE  f.ext = DmaReq.ext + e.cnt + 1 /\ f.loc = DmaReq.loc + e.cnt + 1
  <2> DEFINE x == DmaReq.ext + e.cnt + 1
             l == DmaReq.loc + e.cnt + 1
  <2>1. x \in 0 .. ExtSpace - 1 /\ l \in 0 .. LocSpace - 1
    <3>1. DmaReq.ext \in Nat /\ DmaReq.loc \in Nat /\ DmaReq.len \in Nat
      BY DriverAssumption
    <3>2. e.cnt + 1 < DmaReq.len
      BY <1>2, <1>4
    <3>3. QED
      BY <1>2, <3>1, <3>2, WidthAssumption DEF ReqFits
  <2>2. e.ext + 1 = x /\ e.loc + 1 = l
    BY <1>2, DriverAssumption DEF Carries
  <2> HIDE DEF x, l
  <2>3. x % ExtSpace = x /\ l % LocSpace = l
    BY <2>1, ModSmall, WidthAssumption
  <2>4. QED
    BY <1>1, <2>2, <2>3 DEF x, l
<1>5. QED
  BY <1>1, <1>2, <1>3, <1>4

\* The reader, when the request is to load.
LEMMA LoadEdge ==
  ASSUME ReqFits, ~DmaReq.dir, EngineInv, DmaTypeOK, NEW bus, bus.reg # "BUF",
         NEW accept, NEW answer, DmaClk(bus, accept, answer, FALSE)
  PROVE  Progress
<1> DEFINE ext_gnt == ext_mem_gnt(accept)
           rvalid == ext_mem_rvalid(answer)
           loc_gnt == buf_gnt(bus, FALSE)
           RdStates == {"S_IDLE", "S_EXT_RD", "S_EXT_WAIT", "S_LOC_WR", "S_DONE"}
<1>clk. /\ ReaderClk(ext_gnt, rvalid, loc_gnt)
        /\ BufferClk(BufPort(bus), loc_gnt)
        /\ ExtMemClk(ExtPort, ext_gnt, rvalid)
  BY DEF DmaClk
<1>old. /\ rd \in EngineType(RdStates) /\ rd.state \in RdStates
        /\ buf \in [BufAddr -> Data] /\ ext_mem \in [ExtAddr -> Data]
  BY DEF DmaTypeOK, EngineType
<1>wr. wr.state = "S_IDLE" /\ wr' = wr
  <2>1. wr.state = "S_IDLE" /\ ~wr_start
    BY DEF EngineInv, WriterInv, StartInv, wr_start
  <2>2. QED
    BY <2>1 DEF DmaClk, WriterClk, WriterStart, WriterRequest, WriterData, WriterStore,
                WriterDone, WriterHold
<1>busy. (dma_busy <=> rd_busy) /\ (dma_busy' <=> rd_busy') /\ WriterInv'
  BY <1>wr DEF dma_busy, wr_busy, WriterInv
<1>ext. ext_mem' = ext_mem
  BY <1>clk, <1>wr DEF ExtMemClk, Stored, ExtPort
<1>buf. rd.state # "S_LOC_WR" \/ ~loc_gnt => buf' = buf
  <2>1. CASE dma_busy
    <3>1. BufPort(bus) = DmaBufPort /\ (rd.state # "S_LOC_WR" => ~DmaBufPort.wr)
      BY <2>1 DEF BufPort, DmaBufPort
    <3>2. QED
      BY <3>1, <1>clk DEF BufferClk, Stored
  <2>2. CASE ~dma_busy
    <3>1. ~BufPort(bus).wr
      BY <2>2 DEF BufPort, HostBufPort
    <3>2. QED
      BY <3>1, <1>clk DEF BufferClk, Stored
  <2>3. QED
    BY <2>1, <2>2
<1>same. ASSUME buf' = buf PROVE \A i \in ReqBytes : SameByte(i)' <=> SameByte(i)
  BY <1>same, <1>ext DEF SameByte
<1>req. DmaReq.ext \in Nat /\ DmaReq.loc \in Nat /\ DmaReq.len \in Nat /\ DmaReq.len > 0
  BY DriverAssumption DEF ReqFits
<1>1. CASE ReaderStart
  <2>1. rd.state = "S_IDLE" /\ dma_start_r /\ rd' = Started(rd, "S_EXT_RD")
    BY <1>1 DEF ReaderStart, rd_start
  <2>2. /\ rd'.state = "S_EXT_RD" /\ rd'.ext = DmaReq.ext /\ rd'.loc = DmaReq.loc
        /\ rd'.len = DmaReq.len /\ rd'.cnt = 0
    BY <2>1 DEF Started, EngineInv, StartInv
  <2>3. buf' = buf
    BY <1>buf, <2>1
  <2>4. \A i \in ReqBytes : ~(i < 0)
    BY <1>req DEF ReqBytes
  <2>5. Carries(rd)'
    BY <2>2, <2>4, <1>req DEF Carries
  <2>6. QED
    BY <2>2, <2>3, <2>5, <1>same, <1>busy DEF Progress, ReaderInv, rd_busy, AllMoved
<1>2. CASE ReaderRequest(ext_gnt)
  <2>1. rd.state = "S_EXT_RD" /\ ext_gnt /\ rd' = [rd EXCEPT !.state = "S_EXT_WAIT"]
    BY <1>2 DEF ReaderRequest
  <2>2. buf' = buf
    BY <1>buf, <2>1
  <2>3. /\ rd'.state = "S_EXT_WAIT" /\ rd'.ext = rd.ext /\ rd'.loc = rd.loc
        /\ rd'.len = rd.len /\ rd'.cnt = rd.cnt
    BY <2>1, <1>old DEF EngineType
  <2>4. ~ExtPort.wr /\ ExtPort.addr = rd.ext
    BY <1>wr, <2>1 DEF ExtPort, Drive, rd_busy
  <2>5. ext_rsp' = <<ext_mem[rd.ext]>>
    BY <1>clk, <2>1, <2>4 DEF ExtMemClk
  <2>6. Carries(rd)'
    BY <2>1, <2>2, <2>3, <1>same DEF EngineInv, ReaderInv, rd_busy, Carries
  <2>7. QED
    BY <2>2, <2>3, <2>5, <2>6, <1>ext, <1>same, <1>busy DEF Progress, ReaderInv, rd_busy, AllMoved
<1>3. CASE ReaderData(rvalid)
  <2>1. /\ rd.state = "S_EXT_WAIT"
        /\ rd' = [rd EXCEPT !.state = "S_LOC_WR", !.data = ext_rsp[1]]
    BY <1>3 DEF ReaderData
  <2>2. buf' = buf
    BY <1>buf, <2>1
  <2>3. ext_rsp[1] = ext_mem[rd.ext]
    BY <2>1 DEF EngineInv, ReaderInv
  <2>4. /\ rd'.state = "S_LOC_WR" /\ rd'.ext = rd.ext /\ rd'.loc = rd.loc
        /\ rd'.len = rd.len /\ rd'.cnt = rd.cnt /\ rd'.data = ext_rsp[1]
    BY <2>1, <1>old DEF EngineType
  <2>5. Carries(rd)'
    BY <2>1, <2>2, <2>4, <1>same DEF EngineInv, ReaderInv, rd_busy, Carries
  <2>6. QED
    BY <2>2, <2>3, <2>4, <2>5, <1>ext, <1>same, <1>busy
      DEF Progress, ReaderInv, rd_busy, AllMoved
<1>4. CASE ReaderStore(loc_gnt)
  <2>1. rd.state = "S_LOC_WR" /\ loc_gnt /\ rd' = ByteDone(rd, "S_EXT_RD") /\ rd_busy
    BY <1>4 DEF ReaderStore, rd_busy
  <2>2. Carries(rd) /\ rd.data = ext_mem[rd.ext]
    BY <2>1 DEF EngineInv, ReaderInv
  <2>3. buf' = [buf EXCEPT ![rd.loc] = ext_mem[rd.ext]]
    <3>1. /\ BufPort(bus) = DmaBufPort
          /\ DmaBufPort.addr = rd.loc /\ DmaBufPort.wr /\ DmaBufPort.data = rd.data
      BY <2>1, <1>busy DEF BufPort, DmaBufPort, Drive
    <3>2. QED
      BY <2>1, <2>2, <3>1, <1>clk DEF BufferClk, Stored
  <2>4. PICK c \in Nat : c = rd.cnt
    BY <1>old DEF EngineType
  <2>5. rd.ext = DmaReq.ext + c /\ rd.loc = DmaReq.loc + c /\ c < DmaReq.len
    BY <2>2, <2>4 DEF Carries
  <2>6. ASSUME NEW i \in ReqBytes PROVE (SameByte(i) \/ i = c) => SameByte(i)'
    <3>1. DmaReq.loc + i \in BufAddr
      BY <2>6, <1>req, WindowAssumption, WidthAssumption DEF ReqBytes, ReqFits, BufAddr
    <3>2. buf'[DmaReq.loc + i] = IF i = c THEN ext_mem[DmaReq.ext + c] ELSE buf[DmaReq.loc + i]
      BY <2>3, <2>5, <2>6, <3>1, <1>old, <1>req DEF ReqBytes
    <3>3. QED
      BY <3>2, <1>ext DEF SameByte
  <2>7. /\ rd'.len = DmaReq.len /\ rd'.cnt = c + 1
        /\ rd'.state = (IF c + 1 = DmaReq.len THEN "S_DONE" ELSE "S_EXT_RD")
        /\ c + 1 # DmaReq.len => rd'.ext = DmaReq.ext + c + 1 /\ rd'.loc = DmaReq.loc + c + 1
    BY <2>1, <2>2, <2>4, <1>old, CarriesOn
  <2>8. \A i \in ReqBytes : i < c + 1 => SameByte(i)'
    BY <2>2, <2>4, <2>6 DEF Carries, ReqBytes
  <2>9. CASE c + 1 = DmaReq.len
    <3>1. AllMoved'
      BY <2>8, <2>9, <1>req DEF AllMoved, ReqBytes
    <3>2. QED
      BY <2>7, <2>9, <3>1, <1>busy DEF Progress, ReaderInv, rd_busy
  <2>10. CASE c + 1 # DmaReq.len
    <3>1. Carries(rd)'
      BY <2>5, <2>7, <2>8, <2>10, <1>req DEF Carries
    <3>2. AllMoved => AllMoved'
      BY <2>6 DEF AllMoved
    <3>3. QED
      BY <2>7, <2>10, <3>1, <3>2, <1>busy DEF Progress, ReaderInv, rd_busy
  <2>11. QED
    BY <2>9, <2>10
<1>5. CASE ReaderDone
  <2>1. rd.state = "S_DONE" /\ rd'.state = "S_IDLE"
    BY <1>5, <1>old DEF ReaderDone, EngineType
  <2>2. AllMoved /\ buf' = buf
    BY <2>1, <1>buf DEF EngineInv, ReaderInv
  <2>3. QED
    BY <2>1, <2>2, <1>same, <1>busy DEF Progress, ReaderInv, rd_busy, AllMoved
<1>6. CASE ReaderHold(ext_gnt, rvalid, loc_gnt)
  <2>1. rd' = rd /\ rd.state # "S_DONE" /\ (rd.state = "S_IDLE" => ~dma_start_r)
    BY <1>6 DEF ReaderHold, rd_start, EngineInv, StartInv
  <2>2. buf' = buf
    BY <1>buf, <1>6 DEF ReaderHold
  <2>3. rd.state = "S_EXT_WAIT" => ext_rsp' = ext_rsp
    BY <1>clk, <1>6, <1>wr DEF ReaderHold, ExtMemClk, ExtPort, ext_mem_gnt, rd_busy
  <2>4. rd_busy => Carries(rd)'
    BY <2>1, <2>2, <1>same DEF EngineInv, ReaderInv, Carries
  <2>5. rd_busy' <=> rd_busy
    BY <2>1 DEF rd_busy
  <2>6. dma_start_r \/ dma_busy => rd_busy'
    BY <2>1, <2>5, <1>old, <1>busy DEF rd_busy
  <2>7. QED
    BY <2>1, <2>2, <2>3, <2>4, <2>5, <2>6, <1>ext, <1>same, <1>busy
      DEF Progress, EngineInv, ReaderInv, AllMoved
<1>7. QED
  BY <1>clk, <1>1, <1>2, <1>3, <1>4, <1>5, <1>6 DEF ReaderClk

\* The writer, when it is to store.
LEMMA StoreEdge ==
  ASSUME ReqFits, DmaReq.dir, EngineInv, DmaTypeOK, NEW bus, bus.reg # "BUF",
         NEW accept, NEW answer, DmaClk(bus, accept, answer, FALSE)
  PROVE  Progress
<1> DEFINE ext_gnt == ext_mem_gnt(accept)
           rvalid == ext_mem_rvalid(answer)
           loc_gnt == buf_gnt(bus, FALSE)
           WrStates == {"S_IDLE", "S_LOC_RD", "S_LOC_WAIT", "S_EXT_WR", "S_DONE"}
<1>clk. /\ WriterClk(ext_gnt, loc_gnt)
        /\ BufferClk(BufPort(bus), loc_gnt)
        /\ ExtMemClk(ExtPort, ext_gnt, rvalid)
  BY DEF DmaClk
<1>old. /\ wr \in EngineType(WrStates) /\ wr.state \in WrStates
        /\ buf \in [BufAddr -> Data] /\ ext_mem \in [ExtAddr -> Data]
  BY DEF DmaTypeOK, EngineType
<1>rd. rd.state = "S_IDLE" /\ rd' = rd
  <2>1. rd.state = "S_IDLE" /\ ~rd_start
    BY DEF EngineInv, ReaderInv, StartInv, rd_start
  <2>2. QED
    BY <2>1 DEF DmaClk, ReaderClk, ReaderStart, ReaderRequest, ReaderData, ReaderStore,
                ReaderDone, ReaderHold
<1>busy. ~rd_busy /\ (dma_busy <=> wr_busy) /\ (dma_busy' <=> wr_busy') /\ ReaderInv'
  BY <1>rd DEF dma_busy, rd_busy, ReaderInv
<1>buf. buf' = buf
  <2>1. ~BufPort(bus).wr
    BY <1>rd DEF BufPort, DmaBufPort, HostBufPort
  <2>2. QED
    BY <1>clk, <2>1 DEF BufferClk, Stored
<1>ext. wr.state # "S_EXT_WR" \/ ~ext_gnt => ext_mem' = ext_mem
  <2>1. wr.state # "S_EXT_WR" => ~ExtPort.wr
    BY DEF ExtPort
  <2>2. QED
    BY <1>clk, <2>1 DEF ExtMemClk, Stored
<1>same. ASSUME ext_mem' = ext_mem PROVE \A i \in ReqBytes : SameByte(i)' <=> SameByte(i)
  BY <1>same, <1>buf DEF SameByte
<1>req. DmaReq.ext \in Nat /\ DmaReq.loc \in Nat /\ DmaReq.len \in Nat /\ DmaReq.len > 0
  BY DriverAssumption DEF ReqFits
<1>1. CASE WriterStart
  <2>1. wr.state = "S_IDLE" /\ dma_start_r /\ wr' = Started(wr, "S_LOC_RD")
    BY <1>1 DEF WriterStart, wr_start
  <2>2. /\ wr'.state = "S_LOC_RD" /\ wr'.ext = DmaReq.ext /\ wr'.loc = DmaReq.loc
        /\ wr'.len = DmaReq.len /\ wr'.cnt = 0
    BY <2>1 DEF Started, EngineInv, StartInv
  <2>3. ext_mem' = ext_mem
    BY <1>ext, <2>1
  <2>4. \A i \in ReqBytes : ~(i < 0)
    BY <1>req DEF ReqBytes
  <2>5. Carries(wr)'
    BY <2>2, <2>4, <1>req DEF Carries
  <2>6. QED
    BY <2>2, <2>3, <2>5, <1>same, <1>busy DEF Progress, WriterInv, wr_busy, AllMoved
<1>2. CASE WriterRequest(loc_gnt)
  <2>1. wr.state = "S_LOC_RD" /\ loc_gnt /\ wr' = [wr EXCEPT !.state = "S_LOC_WAIT"]
    BY <1>2 DEF WriterRequest
  <2>2. ext_mem' = ext_mem
    BY <1>ext, <2>1
  <2>3. /\ wr'.state = "S_LOC_WAIT" /\ wr'.ext = wr.ext /\ wr'.loc = wr.loc
        /\ wr'.len = wr.len /\ wr'.cnt = wr.cnt
    BY <2>1, <1>old DEF EngineType
  <2>4. BufPort(bus) = DmaBufPort /\ ~DmaBufPort.wr /\ DmaBufPort.addr = wr.loc
    BY <1>rd, <1>busy, <2>1 DEF BufPort, DmaBufPort, Drive, wr_busy
  <2>5. buf_rsp' = <<buf[wr.loc]>>
    BY <1>clk, <2>1, <2>4 DEF BufferClk
  <2>6. Carries(wr)'
    BY <2>1, <2>2, <2>3, <1>same DEF EngineInv, WriterInv, wr_busy, Carries
  <2>7. QED
    BY <2>2, <2>3, <2>5, <2>6, <1>buf, <1>same, <1>busy DEF Progress, WriterInv, wr_busy, AllMoved
<1>3. CASE WriterData
  <2>1. /\ wr.state = "S_LOC_WAIT"
        /\ wr' = [wr EXCEPT !.state = "S_EXT_WR", !.data = buf_rsp[1]]
    BY <1>3 DEF WriterData
  <2>2. ext_mem' = ext_mem
    BY <1>ext, <2>1
  <2>3. buf_rsp[1] = buf[wr.loc]
    BY <2>1 DEF EngineInv, WriterInv
  <2>4. /\ wr'.state = "S_EXT_WR" /\ wr'.ext = wr.ext /\ wr'.loc = wr.loc
        /\ wr'.len = wr.len /\ wr'.cnt = wr.cnt /\ wr'.data = buf_rsp[1]
    BY <2>1, <1>old DEF EngineType
  <2>5. Carries(wr)'
    BY <2>1, <2>2, <2>4, <1>same DEF EngineInv, WriterInv, wr_busy, Carries
  <2>6. QED
    BY <2>2, <2>3, <2>4, <2>5, <1>buf, <1>same, <1>busy
      DEF Progress, WriterInv, wr_busy, AllMoved
<1>4. CASE WriterStore(ext_gnt)
  <2>1. wr.state = "S_EXT_WR" /\ ext_gnt /\ wr' = ByteDone(wr, "S_LOC_RD") /\ wr_busy
    BY <1>4 DEF WriterStore, wr_busy
  <2>2. Carries(wr) /\ wr.data = buf[wr.loc]
    BY <2>1 DEF EngineInv, WriterInv
  <2>3. ext_mem' = [ext_mem EXCEPT ![wr.ext] = buf[wr.loc]]
    <3>1. ExtPort.addr = wr.ext /\ ExtPort.wr /\ ExtPort.data = wr.data
      BY <2>1, <1>busy DEF ExtPort, Drive
    <3>2. QED
      BY <2>1, <2>2, <3>1, <1>clk DEF ExtMemClk, Stored
  <2>4. PICK c \in Nat : c = wr.cnt
    BY <1>old DEF EngineType
  <2>5. wr.ext = DmaReq.ext + c /\ wr.loc = DmaReq.loc + c /\ c < DmaReq.len
    BY <2>2, <2>4 DEF Carries
  <2>6. ASSUME NEW i \in ReqBytes PROVE (SameByte(i) \/ i = c) => SameByte(i)'
    <3>1. DmaReq.ext + i \in ExtAddr
      BY <2>6, <1>req, WidthAssumption DEF ReqBytes, ReqFits, ExtAddr
    <3>2. ext_mem'[DmaReq.ext + i] = IF i = c THEN buf[DmaReq.loc + c] ELSE ext_mem[DmaReq.ext + i]
      BY <2>3, <2>5, <2>6, <3>1, <1>old, <1>req DEF ReqBytes
    <3>3. QED
      BY <3>2, <1>buf DEF SameByte
  <2>7. /\ wr'.len = DmaReq.len /\ wr'.cnt = c + 1
        /\ wr'.state = (IF c + 1 = DmaReq.len THEN "S_DONE" ELSE "S_LOC_RD")
        /\ c + 1 # DmaReq.len => wr'.ext = DmaReq.ext + c + 1 /\ wr'.loc = DmaReq.loc + c + 1
    BY <2>1, <2>2, <2>4, <1>old, CarriesOn
  <2>8. \A i \in ReqBytes : i < c + 1 => SameByte(i)'
    BY <2>2, <2>4, <2>6 DEF Carries, ReqBytes
  <2>9. CASE c + 1 = DmaReq.len
    <3>1. AllMoved'
      BY <2>8, <2>9, <1>req DEF AllMoved, ReqBytes
    <3>2. QED
      BY <2>7, <2>9, <3>1, <1>busy DEF Progress, WriterInv, wr_busy
  <2>10. CASE c + 1 # DmaReq.len
    <3>1. Carries(wr)'
      BY <2>5, <2>7, <2>8, <2>10, <1>req DEF Carries
    <3>2. AllMoved => AllMoved'
      BY <2>6 DEF AllMoved
    <3>3. QED
      BY <2>7, <2>10, <3>1, <3>2, <1>busy DEF Progress, WriterInv, wr_busy
  <2>11. QED
    BY <2>9, <2>10
<1>5. CASE WriterDone
  <2>1. wr.state = "S_DONE" /\ wr'.state = "S_IDLE"
    BY <1>5, <1>old DEF WriterDone, EngineType
  <2>2. AllMoved /\ ext_mem' = ext_mem
    BY <2>1, <1>ext DEF EngineInv, WriterInv
  <2>3. QED
    BY <2>1, <2>2, <1>same, <1>busy DEF Progress, WriterInv, wr_busy, AllMoved
<1>6. CASE WriterHold(ext_gnt, loc_gnt)
  <2>1. /\ wr' = wr /\ wr.state \notin {"S_DONE", "S_LOC_WAIT"}
        /\ wr.state = "S_IDLE" => ~dma_start_r
    BY <1>6, SomethingIsNotNothing DEF WriterHold, wr_start, EngineInv, StartInv, WriterInv
  <2>2. ext_mem' = ext_mem
    BY <1>ext, <1>6 DEF WriterHold
  <2>3. wr_busy => Carries(wr)'
    BY <2>1, <2>2, <1>same DEF EngineInv, WriterInv, Carries
  <2>4. wr_busy' <=> wr_busy
    BY <2>1 DEF wr_busy
  <2>5. dma_start_r \/ dma_busy => wr_busy'
    BY <2>1, <2>4, <1>old, <1>busy DEF wr_busy
  <2>6. QED
    BY <2>1, <2>2, <2>3, <2>4, <2>5, <1>buf, <1>same, <1>busy
      DEF Progress, EngineInv, WriterInv, AllMoved
<1>7. QED
  BY <1>clk, <1>1, <1>2, <1>3, <1>4, <1>5, <1>6 DEF WriterClk


\* One edge of either.
LEMMA TransferProgress ==
  ASSUME ReqFits, EngineInv, DmaTypeOK, NEW bus, bus.reg # "BUF",
         NEW accept, NEW answer, DmaClk(bus, accept, answer, FALSE)
  PROVE  Progress
<1>1. DmaReq.dir \in BOOLEAN
  BY DriverAssumption
<1>2. QED
  BY <1>1, LoadEdge, StoreEdge

-----------------------------------------------------------------------------
\* What a caller relies on at each place of its call.
CallerHas(pc) ==
    /\ pc \in {"loc", "len", "ctrl"} => dma_ext_addr_r = DmaReq.ext
    /\ pc \in {"len", "ctrl"} => dma_loc_addr_r = DmaReq.loc
    /\ pc = "ctrl" => dma_len_r = DmaReq.len
    /\ pc = "poll" => dma_start_r \/ dma_busy \/ AllMoved
    /\ pc = "clear" => AllMoved

CallersInv ==
    /\ \A t \in Threads : CallerHas(th[t].pc)
    /\ result.dma > 0 => AllMoved

\* The only reset is that of probe, and nobody can make a call before the
\* device is bound.
Booting == drv \in {"mmio", "irq", "reset", "delay", "enable", "feature", "register"}

BootInv ==
    /\ drv # "delay" => ResetSettled
    /\ Booting => result.dma = 0 /\ \A t \in Threads : th[t].pc = "idle"

TransferInv == "reset" \notin faults => BootInv /\ EngineInv /\ CallersInv

\* Where a caller relies on anything at all.
Programmed == {"loc", "len", "ctrl", "poll", "clear"}

\* The writes of the driver: to the DMA registers, nothing but the request.
AsksFor(bus) ==
    /\ bus.reg # "BUF"
    /\ bus.reg = "DMA_EXT_ADDR" => bus.val = DmaReq.ext
    /\ bus.reg = "DMA_LOC_ADDR" => bus.val = DmaReq.loc
    /\ bus.reg = "DMA_LEN" => bus.val = DmaReq.len
    /\ bus.reg = "DMA_CTRL" => bus.start /\ bus.dir = DmaReq.dir

\* The request fits the registers.
LEMMA ReqExact ==
  ASSUME ReqFits
  PROVE  /\ DmaReq.ext % ExtSpace = DmaReq.ext /\ DmaReq.loc % LocSpace = DmaReq.loc
         /\ DmaReq.len % LenSpace = DmaReq.len
<1> PICK x, l, n : x = DmaReq.ext /\ l = DmaReq.loc /\ n = DmaReq.len
  OBVIOUS
<1>1. x \in Nat /\ l \in Nat /\ n \in Nat
  BY DriverAssumption
<1>2. x \in 0 .. ExtSpace - 1 /\ l \in 0 .. LocSpace - 1 /\ n \in 0 .. LenSpace - 1
  BY <1>1, WidthAssumption DEF ReqFits
<1>3. QED
  BY <1>2, ModSmall, WidthAssumption

\* What one edge does to all of them, out of reset.
LEMMA CallersEdge ==
  ASSUME ReqFits, EngineInv, NEW bus, GoodEdge(bus), AsksFor(bus), ~InReset,
         bus.reg = "DMA_CTRL" => CallerHas("ctrl")
  PROVE  /\ EngineInv'
         /\ AllMoved => AllMoved'
         /\ dma_start_r \/ dma_busy \/ AllMoved => dma_busy' \/ AllMoved'
         /\ \A pc : CallerHas(pc) => CallerHas(pc)'
         /\ bus.reg = "DMA_EXT_ADDR" => CallerHas("loc")'
         /\ bus.reg = "DMA_LOC_ADDR" /\ CallerHas("loc") => CallerHas("len")'
         /\ bus.reg = "DMA_LEN" /\ CallerHas("len") => CallerHas("ctrl")'
         /\ bus.reg = "DMA_CTRL" => CallerHas("poll")'
<1>1. PICK env \in EdgeEnv : DmaClk(bus, env.ready, env.ready, FALSE)
  BY RunningEdge
<1>2. Progress
  <2>1. DmaTypeOK /\ bus.reg # "BUF"
    BY DEF GoodEdge, BaseInv, ShellTypeOK, AsksFor
  <2>2. QED
    BY <1>1, <2>1, TransferProgress
<1>3. AllMoved => AllMoved'
  BY <1>2 DEF Progress
<1>4. dma_start_r \/ dma_busy \/ AllMoved => dma_busy' \/ AllMoved'
  BY <1>2 DEF Progress
<1>5. /\ dma_ext_addr_r' = IF bus.reg = "DMA_EXT_ADDR" THEN DmaReq.ext ELSE dma_ext_addr_r
      /\ dma_loc_addr_r' = IF bus.reg = "DMA_LOC_ADDR" THEN DmaReq.loc ELSE dma_loc_addr_r
      /\ dma_len_r' = IF bus.reg = "DMA_LEN" THEN DmaReq.len ELSE dma_len_r
      /\ dma_start_r' <=> bus.reg = "DMA_CTRL"
      /\ bus.reg = "DMA_CTRL" => dma_dir_r' = DmaReq.dir
  BY RunningEdge, ReqExact DEF DmaRegsClk, AsksFor
<1>6. StartInv'
  BY <1>5 DEF StartInv, CallerHas
<1>7. EngineInv'
  BY <1>2, <1>6 DEF EngineInv, Progress
<1> HIDE DEF AllMoved, dma_busy, EngineInv
<1>8. ASSUME NEW pc, CallerHas(pc) PROVE CallerHas(pc)'
  BY <1>3, <1>4, <1>5, <1>8 DEF CallerHas
<1>9. /\ bus.reg = "DMA_EXT_ADDR" => CallerHas("loc")'
      /\ bus.reg = "DMA_LOC_ADDR" /\ CallerHas("loc") => CallerHas("len")'
      /\ bus.reg = "DMA_LEN" /\ CallerHas("len") => CallerHas("ctrl")'
      /\ bus.reg = "DMA_CTRL" => CallerHas("poll")'
  BY <1>5 DEF CallerHas
<1>10. QED
  BY <1>3, <1>4, <1>7, <1>8, <1>9

\* The callers after a step that moves some of them.
LEMMA CallersNext ==
  ASSUME CallersInv, AllMoved => AllMoved', \A pc : CallerHas(pc) => CallerHas(pc)',
         \A t \in Threads : \/ th'[t].pc = th[t].pc \/ th'[t].pc \notin Programmed
                            \/ CallerHas(th[t].pc)',
         result'.dma > 0 => result.dma > 0 \/ AllMoved'
  PROVE  CallersInv'
<1> HIDE DEF AllMoved
<1>1. ASSUME NEW t \in Threads PROVE CallerHas(th[t].pc)'
  <2>1. CASE th'[t].pc = th[t].pc
    <3>1. PICK pc : pc = th[t].pc
      OBVIOUS
    <3>2. CallerHas(pc)'
      BY <1>1, <3>1 DEF CallersInv
    <3>3. QED
      BY <2>1, <3>1, <3>2 DEF CallerHas
  <2>2. CASE th'[t].pc \notin Programmed
    BY <2>2 DEF CallerHas, Programmed
  <2>3. QED
    BY <2>1, <2>2
<1>2. QED
  BY <1>1 DEF CallersInv

\* A device that has settled is out of reset, and stays so until a reset is
\* asked for.
LEMMA SettledEdge ==
  ASSUME NEW bus, GoodEdge(bus), ResetSettled
  PROVE  /\ ~InReset
         /\ (bus.reg = "CTRL" => "SOFT_RESET" \notin bus.bits) => ResetSettled'
<1>1. PICK env \in EdgeEnv : Edge(bus, env)
  BY DEF GoodEdge
<1>2. ResetClk(TRUE, soft_reset) /\ ShellClk(bus, env.finish, ShellEnv(env))
  BY <1>1 DEF Edge, ShellClk, ShellEnv
<1>3. sync_chain = STAGES /\ ~soft_reset /\ ~soft_reset_sync1 /\ rst_n
  BY DEF ResetSettled, rst_n, hard_rst_n
<1>4. sync_chain' = STAGES /\ ~soft_reset_sync1' /\ ~soft_reset_sync2'
  <2>1. ChainClk(TRUE) /\ SoftClk(soft_reset)
    BY <1>2 DEF ResetClk
  <2>2. ~(sync_chain < STAGES)
    BY <1>3, StagesAssumption
  <2>3. sync_chain' = STAGES
    BY <2>1, <2>2, <1>3 DEF ChainClk
  <2>4. QED
    BY <2>1, <2>3, <1>3 DEF SoftClk
<1>5. ~InReset /\ rst_n'
  BY <1>3, <1>4 DEF InReset, rst_n, hard_rst_n
<1>6. ctrl_reg' = IF bus.reg = "CTRL" THEN bus.bits ELSE ctrl_reg
  BY <1>2, <1>5 DEF ShellClk, ShellRun, RegBlockClk, ControlRegsClk
<1>7. QED
  BY <1>3, <1>4, <1>5, <1>6 DEF ResetSettled, soft_reset

\* The edges of everybody but a caller of lgnpu_dma_transfer.
LEMMA OthersTransfer ==
  ASSUME ReqFits, BootInv, EngineInv, CallersInv, NEW bus, GoodEdge(bus), AsksFor(bus),
         bus.reg # "DMA_CTRL",
         \A t \in Threads : th'[t].pc = th[t].pc \/ th'[t].pc \notin Programmed,
         result'.dma = result.dma,
         \/ /\ drv' = drv
            /\ bus.reg = "CTRL" => "SOFT_RESET" \notin bus.bits
            /\ Booting => th' = th
         \/ Booting /\ drv' = "delay" /\ th' = th
         \/ /\ drv \in {"enable", "feature"} /\ drv' \in {"feature", "register"} /\ th' = th
            /\ bus.reg = "CTRL" => "SOFT_RESET" \notin bus.bits
         \/ /\ drv = "bound" /\ drv' = "removing"
            /\ bus.reg = "CTRL" => "SOFT_RESET" \notin bus.bits
  PROVE  BootInv' /\ EngineInv' /\ CallersInv'
<1>1. BootInv'
  <2>1. drv' # "delay" => ResetSettled'
    BY SettledEdge DEF BootInv
  <2>2. Booting' => Booting /\ th' = th
    BY DEF Booting
  <2>3. QED
    BY <2>1, <2>2 DEF BootInv
<1>2. CASE InReset
  <2>1. Booting
    BY <1>2, SettledEdge DEF BootInv, Booting
  <2>2. th' = th
    BY <2>1 DEF Booting
  <2>3. \A t \in Threads : th'[t].pc = "idle"
    BY <2>1, <2>2 DEF BootInv
  <2>4. result'.dma = 0
    BY <2>1 DEF BootInv
  <2>5. CallersInv'
    BY <2>3, <2>4 DEF CallersInv, CallerHas
  <2>6. DmaIdle'
    BY <1>2, ResetRests DEF AtRest
  <2>7. EngineInv'
    BY <2>6 DEF EngineInv, StartInv, ReaderInv, WriterInv, DmaIdle, rd_busy, wr_busy
  <2>8. QED
    BY <1>1, <2>5, <2>7
<1>3. CASE ~InReset
  <2>1. EngineInv' /\ (AllMoved => AllMoved') /\ \A pc : CallerHas(pc) => CallerHas(pc)'
    BY <1>3, CallersEdge
  <2>2. CallersInv'
    <3> HIDE DEF AllMoved, CallerHas
    <3>1. QED
      BY <2>1, CallersNext
  <2>3. QED
    BY <1>1, <2>1, <2>2
<1>4. QED
  BY <1>2, <1>3

\* lgnpu_dma_transfer on the bus.
LEMMA DmaTransfers ==
  ASSUME ReqFits, BootInv, EngineInv, CallersInv, BaseInv, BaseInv',
         NEW t \in Threads, NEW env \in EdgeEnv,
         DmaProgram(t, env) \/ DmaPoll(t, env) \/ DmaReturn(t, env)
  PROVE  BootInv' /\ EngineInv' /\ CallersInv'
<1> USE DriverWrites DEF At, exceptThread
<1>pc. th[t].pc \in DmaPcs
  BY DEF DmaProgram, DmaPoll, DmaReturn, DmaPcs
<1>drv. ~Booting /\ drv' = drv /\ ResetSettled
  BY <1>pc DEF BootInv, Booting, DmaPcs, DmaProgram, DmaPoll, DmaReturn
<1>has. CallerHas(th[t].pc)
  BY DEF CallersInv
<1> HIDE DEF AllMoved, CallerHas, EngineInv, CallersInv, ResetSettled
<1>1. ASSUME NEW bus, GoodEdge(bus), AsksFor(bus), bus.reg # "CTRL",
             bus.reg = "DMA_CTRL" => CallerHas("ctrl"),
             \A u \in Threads \ {t} : th'[u] = th[u],
             th'[t].pc \notin Programmed \/ CallerHas(th[t].pc)',
             result'.dma > 0 => result.dma > 0 \/ AllMoved'
      PROVE  BootInv' /\ EngineInv' /\ CallersInv'
  <2>1. ~InReset /\ ResetSettled'
    BY <1>1, <1>drv, SettledEdge
  <2>2. BootInv'
    BY <2>1, <1>drv DEF BootInv, Booting
  <2>3. EngineInv' /\ (AllMoved => AllMoved') /\ \A pc : CallerHas(pc) => CallerHas(pc)'
    BY <1>1, <2>1, CallersEdge
  <2>4. \A u \in Threads : \/ th'[u].pc = th[u].pc \/ th'[u].pc \notin Programmed
                           \/ CallerHas(th[u].pc)'
    BY <1>1
  <2>5. CallersInv'
    BY <1>1, <2>3, <2>4, CallersNext
  <2>6. QED
    BY <2>2, <2>3, <2>5
<1>reset. ASSUME NEW bus, GoodEdge(bus) PROVE ~InReset
  BY <1>reset, <1>drv, SettledEdge
<1>to. ASSUME NEW pc, Goto(t, pc)
       PROVE  /\ \A u \in Threads \ {t} : th'[u] = th[u]
              /\ CallerHas(pc)' => CallerHas(th[t].pc)'
  <2>1. th'[t].pc = pc /\ \A u \in Threads \ {t} : th'[u] = th[u]
    BY <1>to, MovedTo
  <2>2. QED
    BY <2>1 DEF CallerHas
<1>2. CASE DmaProgram(t, env)
  <2>0. result' = result
    BY <1>2 DEF DmaProgram
  <2>1. CASE Edge(WriteDma("DMA_EXT_ADDR", DmaReq.ext), env) /\ Goto(t, "loc")
    <3>1. PICK bus : bus = WriteDma("DMA_EXT_ADDR", DmaReq.ext)
      OBVIOUS
    <3>2. GoodEdge(bus) /\ AsksFor(bus) /\ bus.reg = "DMA_EXT_ADDR"
      BY <2>1, <3>1 DEF GoodEdge, AsksFor, WriteDma
    <3>3. CallerHas("loc")'
      BY <3>2, <1>reset, CallersEdge
    <3>4. QED
      BY <2>0, <2>1, <3>2, <3>3, <1>1, <1>to
  <2>2. CASE /\ th[t].pc = "loc"
             /\ Edge(WriteDma("DMA_LOC_ADDR", DmaReq.loc), env) /\ Goto(t, "len")
    <3>1. PICK bus : bus = WriteDma("DMA_LOC_ADDR", DmaReq.loc)
      OBVIOUS
    <3>2. GoodEdge(bus) /\ AsksFor(bus) /\ bus.reg = "DMA_LOC_ADDR"
      BY <2>2, <3>1 DEF GoodEdge, AsksFor, WriteDma
    <3>3. CallerHas("len")'
      BY <2>2, <3>2, <1>has, <1>reset, CallersEdge
    <3>4. QED
      BY <2>0, <2>2, <3>2, <3>3, <1>1, <1>to
  <2>3. CASE /\ th[t].pc = "len"
             /\ Edge(WriteDma("DMA_LEN", DmaReq.len), env) /\ Goto(t, "ctrl")
    <3>1. PICK bus : bus = WriteDma("DMA_LEN", DmaReq.len)
      OBVIOUS
    <3>2. GoodEdge(bus) /\ AsksFor(bus) /\ bus.reg = "DMA_LEN"
      BY <2>3, <3>1 DEF GoodEdge, AsksFor, WriteDma
    <3>3. CallerHas("ctrl")'
      BY <2>3, <3>2, <1>has, <1>reset, CallersEdge
    <3>4. QED
      BY <2>0, <2>3, <3>2, <3>3, <1>1, <1>to
  <2>4. CASE /\ th[t].pc = "ctrl"
             /\ Edge(WriteDmaCtrl(TRUE, DmaReq.dir), env) /\ Goto(t, "poll")
    <3>1. PICK bus : bus = WriteDmaCtrl(TRUE, DmaReq.dir)
      OBVIOUS
    <3>2. GoodEdge(bus) /\ AsksFor(bus) /\ bus.reg = "DMA_CTRL"
      BY <2>4, <3>1 DEF GoodEdge, AsksFor, WriteDmaCtrl
    <3>3. CallerHas("poll")' /\ CallerHas("ctrl")
      BY <2>4, <3>2, <1>has, <1>reset, CallersEdge
    <3>4. QED
      BY <2>0, <2>4, <3>2, <3>3, <1>1, <1>to
  <2>5. QED
    BY <1>2, <2>1, <2>2, <2>3, <2>4 DEF DmaProgram
<1>3. CASE DmaPoll(t, env)
  <2>1. /\ th[t].pc = "poll" /\ GoodEdge(NoWrite) /\ result' = result
        /\ Goto(t, IF dma_busy' THEN "poll" ELSE "clear")
    BY <1>3 DEF DmaPoll, GoodEdge
  <2>2. AsksFor(NoWrite) /\ NoWrite.reg = "NONE"
    BY DEF AsksFor, NoWrite
  <2>3. dma_busy' \/ AllMoved'
    BY <2>1, <2>2, <1>has, <1>reset, CallersEdge DEF CallerHas
  <2>4. PICK pc : pc = (IF dma_busy' THEN "poll" ELSE "clear")
    OBVIOUS
  <2>5. CallerHas(pc)'
    BY <2>3, <2>4 DEF CallerHas
  <2>6. QED
    BY <2>1, <2>2, <2>4, <2>5, <1>1, <1>to
<1>4. CASE DmaReturn(t, env)
  <2>1. /\ th[t].pc = "clear" /\ GoodEdge(WriteIrqClear) /\ Return(t)
        /\ result' = [result EXCEPT !.dma = @ + 1]
    BY <1>4 DEF DmaReturn, GoodEdge, DmaAck, Leave
  <2>2. AsksFor(WriteIrqClear) /\ WriteIrqClear.reg = "IRQ_CLEAR"
    BY DEF AsksFor, WriteIrqClear
  <2>3. AllMoved'
    BY <2>1, <2>2, <1>has, <1>reset, CallersEdge DEF CallerHas
  <2>4. th'[t].pc \notin Programmed /\ \A u \in Threads \ {t} : th'[u] = th[u]
    BY <2>1 DEF Return, Idle, Programmed, BaseInv, SoftInv, ThreadInv
  <2>5. QED
    BY <2>1, <2>2, <2>3, <2>4, <1>1
<1>5. QED
  BY <1>2, <1>3, <1>4

\* A step of the software, and a call that begins or ends outside the device.
LEMMA SoftTransfers ==
  ASSUME BootInv, EngineInv, CallersInv, UNCHANGED shellVars,
         \A t \in Threads : th'[t].pc = th[t].pc \/ th'[t].pc \notin Programmed,
         result'.dma = result.dma,
         drv' = drv \/ ((drv = "delay" => ResetSettled) /\ drv' # "delay"),
         Booting' => Booting /\ th' = th
  PROVE  BootInv' /\ EngineInv' /\ CallersInv'
<1> USE DEF shellVars, regVars, dmaRegVars, dmaVars, resetVars
<1>1. ResetSettled' <=> ResetSettled
  BY DEF ResetSettled, soft_reset, rst_n, hard_rst_n
<1>2. BootInv'
  <2>1. drv' # "delay" => ResetSettled
    BY DEF BootInv
  <2>2. QED
    BY <1>1, <2>1 DEF BootInv
<1>3. (AllMoved' <=> AllMoved) /\ (dma_busy' <=> dma_busy)
  BY DEF AllMoved, SameByte, dma_busy, rd_busy, wr_busy
<1>4. EngineInv'
  BY <1>3 DEF EngineInv, StartInv, ReaderInv, WriterInv, Carries, SameByte, rd_busy, wr_busy
<1>5. ASSUME NEW pc, CallerHas(pc) PROVE CallerHas(pc)'
  BY <1>3, <1>5 DEF CallerHas
<1>6. CallersInv'
  <2> HIDE DEF AllMoved, CallerHas
  <2>1. QED
    BY <1>3, <1>5, CallersNext
<1>7. QED
  BY <1>2, <1>4, <1>6

\* lgnpu_cmd_submit does not touch the DMA registers.
LEMMA SubmitTransfers ==
  ASSUME ReqFits, BootInv, EngineInv, CallersInv, BaseInv, BaseInv',
         NEW t \in Threads, NEW env \in EdgeEnv,
         \/ SubmitCheck(t, env) \/ SubmitWrite(t, env) \/ SubmitEnable(t, env)
         \/ SubmitRing(t, env) \/ SubmitDisable(t, env)
  PROVE  BootInv' /\ EngineInv' /\ CallersInv'
<1> USE DriverWrites DEF At, exceptThread
<1>1. th[t].pc \in SubmitPcs /\ drv' = drv /\ result' = result
  BY DEF SubmitCheck, SubmitWrite, SubmitEnable, SubmitRing, SubmitDisable, SubmitPcs
<1>2. ~Booting
  BY <1>1 DEF BootInv, SubmitPcs
<1>3. \A u \in Threads : th'[u].pc = th[u].pc \/ th'[u].pc \notin Programmed
  <2>1. CASE SubmitWrite(t, env)
    <3>1. PICK pc \in {"arm", "write"} :
            th' = [th EXCEPT ![t].pc = pc, ![t].word = @ + 1]
      BY <2>1 DEF SubmitWrite
    <3>2. QED
      BY <3>1 DEF Programmed, BaseInv, SoftInv, ThreadInv, ThreadType
  <2>2. CASE Leave(t)
    BY <2>2 DEF Leave, Return, Idle, Programmed, BaseInv, SoftInv, ThreadInv
  <2>3. ASSUME NEW pc \in {"write", "ring", "wait"}, Goto(t, pc)
        PROVE  \A u \in Threads : th'[u].pc = th[u].pc \/ th'[u].pc \notin Programmed
    BY <2>3, MovedTo DEF Programmed
  <2>4. QED
    BY <2>1, <2>2, <2>3 DEF SubmitCheck, SubmitEnable, SubmitRing, SubmitDisable
<1>4. PICK bus \in Bus : /\ Edge(bus, env)
                         /\ bus.reg \in {"NONE", "CMD_QUEUE", "IRQ_ENABLE", "DOORBELL"}
  <2>1. CASE SubmitWrite(t, env)
    <3>1. th[t].word \in WordIdx /\ th[t].id \in Word
      <4>1. ThreadOK(th[t]) /\ th[t].pc = "write"
        BY <2>1 DEF BaseInv, SoftInv, ThreadInv, SubmitWrite
      <4>2. QED
        BY <4>1, DriverAssumption, NumWordsAssumption DEF ThreadOK, ThreadType, WordIdx
    <3>2. PICK bus : bus = WriteCmdWord(th[t].word, th[t].id)
      OBVIOUS
    <3>3. bus \in Bus /\ bus.reg = "CMD_QUEUE"
      BY <3>1, <3>2 DEF WriteCmdWord
    <3>4. QED
      BY <2>1, <3>2, <3>3 DEF SubmitWrite
  <2>2. CASE \/ SubmitCheck(t, env) \/ SubmitEnable(t, env) \/ SubmitRing(t, env)
             \/ SubmitDisable(t, env)
    BY <2>2 DEF SubmitCheck, SubmitEnable, SubmitRing, SubmitDisable, lgnpu_irq_disable,
                NoWrite, WriteIrqEnable, WriteDoorbell
  <2>3. QED
    BY <2>1, <2>2
<1>5. GoodEdge(bus) /\ AsksFor(bus) /\ bus.reg # "DMA_CTRL" /\ bus.reg # "CTRL"
  BY <1>4 DEF GoodEdge, AsksFor
<1>6. QED
  BY <1>1, <1>2, <1>3, <1>5, OthersTransfer

\* Together.
LEMMA TransferStep ==
  ASSUME ReqFits, BaseInv, BaseInv', TransferInv, [Next]_vars
  PROVE  TransferInv'
<1> DEFINE Kept == BootInv' /\ EngineInv' /\ CallersInv'
<1> SUFFICES ASSUME "reset" \notin faults, BootInv, EngineInv, CallersInv PROVE Kept
  BY FaultsStay DEF TransferInv
<1> USE DEF At
<1> HIDE DEF Kept
<1>1. ASSUME NEW env \in EdgeEnv, NEW t \in Threads, CallReset(t, env) PROVE FALSE
  BY <1>1 DEF CallReset
<1>2. ASSUME NEW env \in EdgeEnv,
             \/ Pause(env) \/ HandlerBus(env) \/ ProbeHardware(env) \/ Remove(env)
             \/ \E t \in Threads : CallEnable(t, env)
      PROVE  Kept
  <2>1. th' = th /\ result' = result
    BY <1>2 DEF Pause, HandlerBus, HandlerRead, HandlerClear, ProbeHardware, Remove, DrvOnly,
                CallEnable, softVars, exceptHandler
  <2>2. PICK bus \in {NoWrite, WriteIrqClear, WriteCtrl({"SOFT_RESET"}), WriteCtrl({"ENABLE"}),
                      WriteIrqEnable(FALSE)} :
            /\ Edge(bus, env)
            /\ \/ drv' = drv /\ bus # WriteCtrl({"SOFT_RESET"})
               \/ drv = "reset" /\ drv' = "delay"
               \/ /\ drv \in {"enable", "feature"} /\ drv' \in {"feature", "register"}
                  /\ bus # WriteCtrl({"SOFT_RESET"})
               \/ drv = "bound" /\ drv' = "removing" /\ bus # WriteCtrl({"SOFT_RESET"})
    <3>1. /\ NoWrite # WriteCtrl({"SOFT_RESET"}) /\ WriteIrqClear # WriteCtrl({"SOFT_RESET"})
          /\ WriteCtrl({"ENABLE"}) # WriteCtrl({"SOFT_RESET"})
          /\ WriteIrqEnable(FALSE) # WriteCtrl({"SOFT_RESET"})
      <4>1. /\ NoWrite.reg = "NONE" /\ WriteIrqClear.reg = "IRQ_CLEAR"
            /\ WriteIrqEnable(FALSE).reg = "IRQ_ENABLE"
            /\ WriteCtrl({"SOFT_RESET"}).reg = "CTRL"
            /\ WriteCtrl({"SOFT_RESET"}).bits = {"SOFT_RESET"}
            /\ WriteCtrl({"ENABLE"}).bits = {"ENABLE"}
        BY DEF NoWrite, WriteIrqClear, WriteIrqEnable, WriteCtrl
      <4>2. {"SOFT_RESET"} # {"ENABLE"}
        OBVIOUS
      <4>3. QED
        BY <4>1, <4>2
    <3> HIDE DEF NoWrite, WriteIrqClear, WriteCtrl, WriteIrqEnable
    <3>2. QED
      BY <1>2, <3>1 DEF Pause, HandlerBus, HandlerRead, HandlerClear, HandlerAck, ProbeHardware,
            Remove, lgnpu_irq_disable, CallEnable, softVars, exceptHandler
  <2>3. GoodEdge(bus)
    BY <2>2, DriverWrites DEF GoodEdge
  <2>4. /\ bus.reg \in {"NONE", "IRQ_CLEAR", "CTRL", "IRQ_ENABLE"}
        /\ bus # WriteCtrl({"SOFT_RESET"}) /\ bus.reg = "CTRL" => "SOFT_RESET" \notin bus.bits
    BY <2>2 DEF NoWrite, WriteIrqClear, WriteCtrl, WriteIrqEnable
  <2>5. AsksFor(bus) /\ bus.reg # "DMA_CTRL"
    BY <2>4 DEF AsksFor
  <2>6. QED
    BY <2>1, <2>2, <2>3, <2>4, <2>5, OthersTransfer DEF Booting, Kept
<1>3. ASSUME NEW env \in EdgeEnv, NEW t \in Threads, ThreadBus(t, env) PROVE Kept
  BY <1>3, SubmitTransfers, DmaTransfers DEF ThreadBus, Kept
<1>4. ASSUME UNCHANGED shellVars,
             \/ ProbeSoftware \/ ProbeFails \/ Removed \/ HandlerInvoked \/ HandlerComplete
      PROVE  Kept
  <2>1. th' = th /\ result' = result
    BY <1>4 DEF ProbeSoftware, ProbeFails, Removed, HandlerInvoked, HandlerComplete, DrvOnly,
                exceptHandler
  <2>2. /\ drv' = drv \/ ((drv = "delay" => ResetSettled) /\ drv' # "delay")
        /\ Booting' => Booting
    <3>1. CASE ProbeSoftware \/ ProbeFails \/ Removed
      BY <3>1 DEF ProbeSoftware, ProbeFails, Removed, Booting
    <3>2. CASE HandlerInvoked \/ HandlerComplete
      <4>1. drv' = drv
        BY <3>2 DEF HandlerInvoked, HandlerComplete, exceptHandler
      <4>2. QED
        BY <4>1 DEF Booting
    <3>3. QED
      BY <1>4, <3>1, <3>2
  <2>3. QED
    BY <1>4, <2>1, <2>2, SoftTransfers DEF Kept
<1>5. ASSUME UNCHANGED shellVars, NEW t \in Threads,
             CallSubmit(t) \/ CallDma(t) \/ ThreadSoftware(t) \/ Interrupted(t)
      PROVE  Kept
  <2>1. drv' = drv /\ result'.dma = result.dma
    BY <1>5 DEF CallSubmit, CallDma, Enter, ThreadSoftware, SubmitArm, Completed, TimedOut,
          DmaTimedOut, ResetReturn, Interrupted, exceptThread, BaseInv, SoftInv, SoftTypes
  <2>2. \A u \in Threads : th'[u].pc = th[u].pc \/ th'[u].pc \notin Programmed
    <3>1. CASE CallSubmit(t) \/ CallDma(t)
      <4>1. PICK pc \in {"submit", "ext"} : \E id :
                th' = [th EXCEPT ![t].pc = pc, ![t].id = id]
        BY <3>1 DEF CallSubmit, CallDma, Enter
      <4>2. PICK id : th' = [th EXCEPT ![t].pc = pc, ![t].id = id]
        BY <4>1
      <4>3. QED
        BY <4>2 DEF Programmed, BaseInv, SoftInv, ThreadInv, ThreadType
    <3>2. CASE DmaTimedOut(t) \/ ResetReturn(t)
      BY <3>2 DEF DmaTimedOut, ResetReturn, Leave, Return, Idle, Programmed, BaseInv, SoftInv,
                  ThreadInv
    <3>3. CASE SubmitArm(t) \/ Completed(t) \/ TimedOut(t) \/ Interrupted(t)
      <4>1. PICK pc \in {"enable", "disable"} : Goto(t, pc)
        BY <3>3 DEF SubmitArm, Completed, TimedOut, Interrupted
      <4>2. QED
        BY <4>1, MovedTo DEF Programmed
    <3>4. QED
      BY <1>5, <3>1, <3>2, <3>3 DEF ThreadSoftware
  <2>3. ~Booting
    <3>1. drv = "bound" \/ th[t].pc # "idle"
      BY <1>5 DEF CallSubmit, CallDma, Enter, ThreadSoftware, SubmitArm, Completed, TimedOut,
            DmaTimedOut, ResetReturn, Interrupted
    <3>2. QED
      BY <3>1 DEF BootInv, Booting
  <2>4. QED
    BY <1>5, <2>1, <2>2, <2>3, SoftTransfers DEF Booting, Kept
<1>6. CASE UNCHANGED vars
  <2>1. UNCHANGED shellVars /\ th' = th /\ result' = result /\ drv' = drv
    BY <1>6 DEF vars, softVars
  <2>2. Booting' => Booting /\ th' = th
    BY <2>1 DEF Booting
  <2>3. /\ \A t \in Threads : th'[t].pc = th[t].pc \/ th'[t].pc \notin Programmed
        /\ result'.dma = result.dma
        /\ drv' = drv \/ ((drv = "delay" => ResetSettled) /\ drv' # "delay")
    BY <2>1
  <2>4. BootInv' /\ EngineInv' /\ CallersInv'
    BY <2>1, <2>2, <2>3, SoftTransfers
  <2>5. QED
    BY <2>4 DEF Kept
<1>7. QED
  BY <1>1, <1>2, <1>3, <1>4, <1>5, <1>6 DEF Next, Clocked, SoftwareOnly, EdgeEnv

\* At the start nothing is under way.
LEMMA TransferInit == Init => TransferInv
<1> SUFFICES ASSUME Init PROVE TransferInv
  OBVIOUS
<1>1. BootInv
  BY DEF Init, PathInit, RegBlockInit, BootInv, ResetSettled, soft_reset, rst_n, hard_rst_n, Idle
<1>2. DmaIdle
  BY DEF Init, PathInit, RegBlockInit, DmaInit, IdleEngine, DmaIdle
<1>3. EngineInv
  BY <1>2 DEF EngineInv, StartInv, ReaderInv, WriterInv, DmaIdle, rd_busy, wr_busy
<1>4. CallersInv
  BY DEF Init, Idle, CallersInv, CallerHas
<1>5. QED
  BY <1>1, <1>3, <1>4 DEF TransferInv

\* A transfer that returns 0 has put its bytes in place, with any number of
\* callers, after polls that were given up and beside submissions, unless the
\* engine was reset under it.
THEOREM TransfersMoveTheirBytes == ASSUME ReqFits PROVE Spec => []TransferMeansMoved
<1>1. TransferInv => TransferMeansMoved
  BY DEF TransferInv, CallersInv, AllMoved, SameByte, ReqBytes, TransferMeansMoved
<1>2. BaseInv /\ BaseInv' /\ TransferInv /\ [Next]_vars => TransferInv'
  BY TransferStep
<1>3. QED
  BY <1>1, <1>2, TransferInit, BaseInvariant, PTL DEF Spec
=============================================================================
