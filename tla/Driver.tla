------------------------------- MODULE Driver -------------------------------
(***************************************************************************)
(* The kernel driver, sw/driver, on top of the shell: several threads in   *)
(* the ioctls of npu_drv.c, which end in lgnpu_cmd_submit (npu_queue.c),   *)
(* lgnpu_dma_transfer (npu_dma.c), lgnpu_hw_reset and lgnpu_hw_enable      *)
(* (npu_reset.c), the interrupt handler of npu_irq.c, and probe and remove *)
(* around them.                                                            *)
(*                                                                         *)
(* A step is either a clock edge, with at most one register access of some *)
(* thread or of the handler on it, or a step of the software alone.  In    *)
(* an action, Edge(bus, env) is the edge that carries its access; a        *)
(* register read sees the state after that edge.  A lock that guards a     *)
(* single access is taken and given back with it; irq_lock is held across  *)
(* steps by the handler only, while h_pc is "clear".                       *)
(*                                                                         *)
(* The rest of the kernel is external: a mutex, a completion that counts   *)
(* (complete adds one, a successful wait takes one, reinit_completion      *)
(* forgets), an interrupt line that invokes the handler while it is high   *)
(* and, since it is shared, possibly when it is not.                       *)
(***************************************************************************)
EXTENDS NpuShell, FiniteSets

CONSTANTS
    Threads,
    Uses(_),    \* the kinds of call a thread makes
    FaultSets,  \* which faults may occur together: sets of "timeout" (a wait
                \* or a poll runs out), "signal" (a wait is interrupted),
                \* "reset" (LGNPU_IOCTL_RESET), "spurious" (the handler runs
                \* for another device, or for an IRQ_CLEAR still under way),
                \* "probe" (a step of probe fails)
    MaxSubmits, \* bounds: how many calls of each kind are made
    MaxDmas,
    MaxResets,
    DmaReq      \* the arguments of LGNPU_IOCTL_DMA_XFER

ASSUME DriverAssumption ==
    /\ \A f \in FaultSets : f \subseteq {"timeout", "signal", "reset", "spurious", "probe"}
    /\ MaxSubmits \in Nat /\ MaxDmas \in Nat /\ MaxResets \in Nat
    /\ Word = 0 .. MaxSubmits /\ 1 \in Data
    /\ DmaReq \in [ext : Nat, loc : Nat, len : Nat, dir : BOOLEAN]
    /\ "none" \notin Threads

VARIABLES
    faults,     \* the faults of this behaviour; never changes
    drv,        \* where probe and remove are
    th,         \* each thread's pc, command, and next word of it to write
    cmd_lock,   \* the owner of the mutex, or NoThread
    cmd_done,   \* the count of the completion
    h_pc,       \* where the handler is
    calls,      \* how many calls of each kind were made
    result,     \* history: the commands whose submission returned 0, and how
                \* many transfers did
    finished,   \* history: the commands that retired or were refused
    pulses      \* history: how often something raised the pending flag

softVars == <<faults, drv, th, cmd_lock, cmd_done, h_pc, calls, result>>
vars == <<shellVars, softVars, finished, pulses>>

\* Everything of the software but a thread's own state, and but the handler's.
exceptThread == <<faults, drv, cmd_lock, cmd_done, h_pc, calls, result>>
exceptHandler == <<faults, drv, th, cmd_lock, cmd_done, calls, result>>

NoThread == "none"

At(t, pc) == th[t].pc = pc
Goto(t, pc) == th' = [th EXCEPT ![t].pc = pc]

Idle == [pc |-> "idle", id |-> 0, word |-> 0]
Return(t) == th' = [th EXCEPT ![t] = Idle]

\* Mutant: nobody waits for the mutex.
mutex_freeAlways == TRUE

mutex_free == cmd_lock = NoThread

\* mutex_unlock at the end of a call.
Leave(t) == cmd_lock' = NoThread /\ Return(t)

\* A new call of kind k, which may be at most max times.
Enter(t, k, max, pc) ==
    /\ drv = "bound" /\ At(t, "idle") /\ k \in Uses(t) /\ calls[k] < max
    /\ calls' = [calls EXCEPT ![k] = @ + 1]
    /\ th' = [th EXCEPT ![t].pc = pc,
                        ![t].id = IF k = "submit" THEN calls[k] + 1 ELSE 0]
    /\ UNCHANGED <<faults, drv, cmd_lock, cmd_done, h_pc, result>>

\* The udelay(1) after a reset outlasts it.
ResetSettled == ~soft_reset /\ ~soft_reset_sync1 /\ rst_n

\* The history follows the pulses into npu_irq_ctrl.
Record ==
    /\ finished' =
        finished
            \cup (IF ~InReset /\ sched_state = "S_WAIT" /\ be_done THEN {sched_cmd_r} ELSE {})
            \cup (IF ~InReset /\ decode_err THEN {decode_cmd_r} ELSE {})
    /\ pulses' = pulses + Cardinality(
                     IF InReset THEN {}
                     ELSE {p \in {"done", "dma", "err"} :
                              \/ p = "done" /\ be_done
                              \/ p = "dma" /\ dma_done
                              \/ p = "err" /\ decode_err})

\* One clock edge with a bus cycle.  In env.finish the working backend
\* finishes, in env.ready the external memory takes and answers requests.
Edge(bus, env) ==
    /\ ShellClk(bus, env.finish,
                [accept |-> env.ready, answer |-> env.ready, contended |-> FALSE])
    /\ Record

-----------------------------------------------------------------------------
(***************************************************************************)
(* lgnpu_cmd_submit.                                                       *)
(***************************************************************************)
CallSubmit(t) == Enter(t, "submit", MaxSubmits, "submit")

\* mutex_lock and the look at STATUS; a full queue ends the call with -EBUSY.
SubmitCheck(t, env) ==
    /\ At(t, "submit") /\ mutex_free
    /\ Edge(NoWrite, env)
    /\ \/ full' /\ Leave(t)
       \/ ~full' /\ cmd_lock' = t /\ Goto(t, "write")
    /\ UNCHANGED <<faults, drv, cmd_done, h_pc, calls, result>>

\* lgnpu_buf_write, word by word.
SubmitWrite(t, env) ==
    /\ At(t, "write")
    /\ Edge(WriteCmdWord(th[t].word, th[t].id), env)
    /\ th' = [th EXCEPT ![t].pc = IF th[t].word = NUM_WORDS - 1 THEN "arm" ELSE "write",
                        ![t].word = @ + 1]
    /\ UNCHANGED exceptThread

reinit_completion == 0

SubmitArm(t) ==
    /\ At(t, "arm")
    /\ cmd_done' = reinit_completion
    /\ Goto(t, "enable")
    /\ UNCHANGED <<faults, drv, cmd_lock, h_pc, calls, result>>

\* lgnpu_irq_enable, which waits for irq_lock.
SubmitEnable(t, env) ==
    /\ At(t, "enable") /\ h_pc # "clear"
    /\ Edge(WriteIrqEnable(TRUE), env)
    /\ Goto(t, "ring")
    /\ UNCHANGED exceptThread

SubmitRing(t, env) ==
    /\ At(t, "ring")
    /\ Edge(WriteDoorbell, env)
    /\ Goto(t, "wait")
    /\ UNCHANGED exceptThread

\* Mutant: the wait does not look whether anything was completed.
completion_doneAlways == TRUE

completion_done == cmd_done > 0

\* wait_for_completion_interruptible_timeout, in its three outcomes.  The
\* timeout is so long (5 s) that only a backend can still be at work.
Completed(t) ==
    /\ At(t, "wait") /\ completion_done
    /\ cmd_done' = cmd_done - 1
    /\ result' = [result EXCEPT !.submit = @ \cup {th[t].id}]
    /\ Goto(t, "disable")
    /\ UNCHANGED <<faults, drv, cmd_lock, h_pc, calls>>

PathQuiet == ResetSettled /\ ~doorbell_r /\ ~fetch_busy /\ ~decode_busy

TimedOut(t) ==
    /\ "timeout" \in faults
    /\ At(t, "wait") /\ ~completion_done
    /\ PathQuiet /\ h_pc = "off" /\ ~irq
    /\ Goto(t, "disable")
    /\ UNCHANGED exceptThread

Interrupted(t) ==
    /\ "signal" \in faults
    /\ At(t, "wait") /\ ~completion_done
    /\ Goto(t, "disable")
    /\ UNCHANGED exceptThread

\* Mutant: the line is left enabled.
lgnpu_irq_disableNot == NoWrite

lgnpu_irq_disable == WriteIrqEnable(FALSE)

\* lgnpu_irq_disable, mutex_unlock and the return.
SubmitDisable(t, env) ==
    /\ At(t, "disable") /\ h_pc # "clear"
    /\ Edge(lgnpu_irq_disable, env)
    /\ Leave(t)
    /\ UNCHANGED <<faults, drv, cmd_done, h_pc, calls, result>>

-----------------------------------------------------------------------------
(***************************************************************************)
(* lgnpu_dma_transfer.                                                     *)
(***************************************************************************)
CallDma(t) == Enter(t, "dma", MaxDmas, "ext")

\* mutex_lock and the four register writes.
DmaProgram(t, env) ==
    /\ \/ At(t, "ext") /\ mutex_free
          /\ Edge(WriteDma("DMA_EXT_ADDR", DmaReq.ext), env) /\ Goto(t, "loc")
       \/ At(t, "loc") /\ Edge(WriteDma("DMA_LOC_ADDR", DmaReq.loc), env) /\ Goto(t, "len")
       \/ At(t, "len") /\ Edge(WriteDma("DMA_LEN", DmaReq.len), env) /\ Goto(t, "ctrl")
       \/ At(t, "ctrl") /\ Edge(WriteDmaCtrl(TRUE, DmaReq.dir), env) /\ Goto(t, "poll")
    /\ cmd_lock' = t
    /\ UNCHANGED <<faults, drv, cmd_done, h_pc, calls, result>>

DmaPoll(t, env) ==
    /\ At(t, "poll")
    /\ Edge(NoWrite, env)
    /\ Goto(t, IF dma_busy' THEN "poll" ELSE "clear")
    /\ UNCHANGED exceptThread

\* Mutant: the transfer's pending flag is left for the next submission.
DmaAckNot == NoWrite

DmaAck == WriteIrqClear

DmaReturn(t, env) ==
    /\ At(t, "clear")
    /\ Edge(DmaAck, env)
    /\ result' = [result EXCEPT !.dma = @ + 1]
    /\ Leave(t)
    /\ UNCHANGED <<faults, drv, cmd_done, h_pc, calls>>

\* The poll loop runs out and leaves the engine as it is.
DmaTimedOut(t) ==
    /\ "timeout" \in faults
    /\ At(t, "poll") /\ dma_busy
    /\ Leave(t)
    /\ UNCHANGED <<faults, drv, cmd_done, h_pc, calls, result>>

-----------------------------------------------------------------------------
(***************************************************************************)
(* LGNPU_IOCTL_RESET and LGNPU_IOCTL_ENABLE, which take no lock.           *)
(***************************************************************************)
CallReset(t, env) ==
    /\ "reset" \in faults
    /\ Enter(t, "reset", MaxResets, "delay")
    /\ Edge(WriteCtrl({"SOFT_RESET"}), env)

ResetReturn(t) ==
    /\ At(t, "delay") /\ ResetSettled
    /\ Return(t)
    /\ UNCHANGED exceptThread

\* Enabling twice changes nothing.
CallEnable(t, env) ==
    /\ drv = "bound" /\ At(t, "idle") /\ ~npu_enable
    /\ Edge(WriteCtrl({"ENABLE"}), env)
    /\ UNCHANGED softVars

-----------------------------------------------------------------------------
(***************************************************************************)
(* lgnpu_irq_handler, registered by probe until devres frees it.           *)
(***************************************************************************)
IrqRequested == drv \notin {"mmio", "irq", "failed", "gone"}

HandlerInvoked ==
    /\ h_pc = "off" /\ IrqRequested
    /\ (irq /\ ~irq_clear_r) \/ "spurious" \in faults
    /\ h_pc' = "read"
    /\ UNCHANGED exceptHandler

\* spin_lock and the look at IRQ_STATUS; IRQ_NONE if nothing is pending.
HandlerRead(env) ==
    /\ h_pc = "read"
    /\ Edge(NoWrite, env)
    /\ h_pc' = IF pending' THEN "clear" ELSE "off"
    /\ UNCHANGED exceptHandler

\* Mutant: the flag is not taken back.
HandlerAckNot == NoWrite

HandlerAck == WriteIrqClear

HandlerClear(env) ==
    /\ h_pc = "clear"
    /\ Edge(HandlerAck, env)
    /\ h_pc' = "complete"
    /\ UNCHANGED exceptHandler

\* Mutant: nobody is told.
completeNot == cmd_done

complete == cmd_done + 1

HandlerComplete ==
    /\ h_pc = "complete"
    /\ cmd_done' = complete
    /\ h_pc' = "off"
    /\ UNCHANGED <<faults, drv, th, cmd_lock, calls, result>>

-----------------------------------------------------------------------------
(***************************************************************************)
(* lgnpu_probe and lgnpu_remove.  What drv names is the step to come next: *)
(* lgnpu_mmio_init, lgnpu_irq_init, the steps of lgnpu_hw_init (reset, its *)
(* delay, enable, FEATURE_ID), misc_register.  A step that fails ends it.  *)
(***************************************************************************)
DrvOnly == UNCHANGED <<faults, th, cmd_lock, cmd_done, h_pc, calls, result>>

ProbeSoftware ==
    /\ \/ drv = "mmio" /\ drv' = "irq"
       \/ drv = "irq" /\ drv' = "reset"
       \/ drv = "delay" /\ ResetSettled /\ drv' = "enable"
       \/ drv = "register" /\ drv' = "bound"
    /\ DrvOnly

ProbeHardware(env) ==
    /\ \/ drv = "reset" /\ Edge(WriteCtrl({"SOFT_RESET"}), env) /\ drv' = "delay"
       \/ drv = "enable" /\ Edge(WriteCtrl({"ENABLE"}), env) /\ drv' = "feature"
       \/ drv = "feature" /\ Edge(NoWrite, env) /\ drv' = "register"
    /\ DrvOnly

\* No mapping, no interrupt, FEATURE_ID zero, no device node.  devres frees
\* the interrupt, and waits for a running handler first.
ProbeFails ==
    /\ "probe" \in faults /\ h_pc = "off"
    /\ drv \in {"mmio", "irq", "register"}
    /\ drv' = "failed"
    /\ DrvOnly

\* The device is taken away when its users have left it.
Remove(env) ==
    /\ drv = "bound" /\ \A t \in Threads : At(t, "idle")
    /\ h_pc # "clear"
    /\ Edge(lgnpu_irq_disable, env)
    /\ drv' = "removing"
    /\ DrvOnly

\* misc_deregister, and devres.
Removed ==
    /\ drv = "removing" /\ h_pc = "off"
    /\ drv' = "gone"
    /\ DrvOnly

-----------------------------------------------------------------------------
ThreadBus(t, env) ==
    \/ SubmitCheck(t, env)
    \/ SubmitWrite(t, env)
    \/ SubmitEnable(t, env)
    \/ SubmitRing(t, env)
    \/ SubmitDisable(t, env)
    \/ DmaProgram(t, env)
    \/ DmaPoll(t, env)
    \/ DmaReturn(t, env)

ThreadSoftware(t) ==
    \/ SubmitArm(t)
    \/ Completed(t)
    \/ TimedOut(t)
    \/ DmaTimedOut(t)
    \/ ResetReturn(t)

HandlerBus(env) == HandlerRead(env) \/ HandlerClear(env)

Pause(env) == Edge(NoWrite, env) /\ UNCHANGED softVars

\* Steps of the software alone.
SoftwareOnly(act) == act /\ UNCHANGED <<shellVars, finished, pulses>>

Clocked(env) ==
    \/ Pause(env)
    \/ HandlerBus(env)
    \/ ProbeHardware(env)
    \/ Remove(env)
    \/ \E t \in Threads : ThreadBus(t, env) \/ CallReset(t, env) \/ CallEnable(t, env)

Init ==
    /\ PathInit /\ cmd_mem = Whole(0)
    /\ DmaInit([a \in BufAddr |-> 0], [a \in ExtAddr |-> 1])
    /\ sync_chain = STAGES /\ soft_reset_sync1 = FALSE /\ soft_reset_sync2 = FALSE
    /\ faults \in FaultSets
    /\ drv = "mmio"
    /\ th = [t \in Threads |-> Idle]
    /\ cmd_lock = NoThread /\ cmd_done = 0 /\ h_pc = "off"
    /\ calls = [submit |-> 0, dma |-> 0, reset |-> 0]
    /\ result = [submit |-> {}, dma |-> 0]
    /\ finished = {} /\ pulses = 0

Next ==
    \/ \E env \in [finish : BOOLEAN, ready : BOOLEAN] : Clocked(env)
    \/ SoftwareOnly(ProbeSoftware \/ ProbeFails \/ Removed)
    \/ SoftwareOnly(HandlerInvoked \/ HandlerComplete)
    \/ \E t \in Threads :
          SoftwareOnly(CallSubmit(t) \/ CallDma(t) \/ ThreadSoftware(t) \/ Interrupted(t))

Spec == Init /\ [][Next]_vars

\* The clock runs, backends finish and the external memory answers; a thread in
\* a call and an invoked handler are scheduled, and a timer that has run out
\* fires.  Nobody has to make a call (a reset least of all), to send a signal or
\* to unbind the device.
Fairness ==
    LET env == [finish |-> TRUE, ready |-> TRUE]
    IN  /\ WF_vars(Pause(env) \/ HandlerBus(env) \/ \E t \in Threads : ThreadBus(t, env))
        /\ WF_vars(\/ HandlerBus(env)
                   \/ SoftwareOnly(HandlerComplete \/ (irq /\ HandlerInvoked)))
        /\ \A t \in Threads : WF_vars(ThreadBus(t, env) \/ SoftwareOnly(ThreadSoftware(t)))

FairSpec == Spec /\ Fairness

-----------------------------------------------------------------------------
SubmitPcs == {"submit", "write", "arm", "enable", "ring", "wait", "disable"}
DmaPcs == {"ext", "loc", "len", "ctrl", "poll", "clear"}

\* Type invariant of the shell and the driver.
TypeOK ==
    /\ ShellTypeOK
    /\ faults \in FaultSets
    /\ drv \in {"mmio", "irq", "reset", "delay", "enable", "feature", "register",
                "failed", "bound", "removing", "gone"}
    /\ th \in [Threads -> [pc : SubmitPcs \cup DmaPcs \cup {"idle", "delay"},
                           id : 0 .. MaxSubmits, word : 0 .. NUM_WORDS]]
    /\ cmd_lock \in Threads \cup {NoThread}
    /\ cmd_done \in Nat
    /\ h_pc \in {"off", "read", "clear", "complete"}
    /\ calls \in [submit : 0 .. MaxSubmits, dma : 0 .. MaxDmas, reset : 0 .. MaxResets]
    /\ result \in [submit : SUBSET (1 .. MaxSubmits), dma : Nat]
    /\ finished \subseteq Cmd /\ pulses \in Nat

\* A submission that returns 0 is over: cmd_done is "signaled by IRQ on cmd
\* completion" (lgnpu_drv.h).
SuccessMeansDone == \A id \in result.submit : Whole(id) \in finished

\* It is as long as no wait is given up and the line is the device's own, with
\* several callers, transfers in between and resets at any time.
SuccessMeansDoneUnlessGivenUp == faults \subseteq {"reset", "probe"} => SuccessMeansDone

\* Whatever is given up, and whoever else is on the line, no submission
\* succeeds out of nothing: each success uses up an event of its own (a
\* command, an error or a transfer).
NoUnearnedSuccess == Cardinality(result.submit) + cmd_done <= pulses

\* No caller overwrites the descriptor of another: what runs, or is refused, is
\* a descriptor some call wrote as a whole.  cmd_lock "serializes command
\* submission" (lgnpu_drv.h).
UntornCommands == \A c \in finished : \E id \in 1 .. MaxSubmits : c = Whole(id)

\* It does as long as no wait is given up and the line is the device's own.  After
\* a timeout the completion of the command given up can end the next wait while
\* that command is still being fetched.
UntornUnlessGivenUp == faults \subseteq {"reset", "probe"} => UntornCommands

\* The line can be high only inside a submission, between lgnpu_irq_enable and
\* lgnpu_irq_disable of the owner of cmd_lock.
LineOnlyInSubmission ==
    irq_en_reg => cmd_lock # NoThread /\ th[cmd_lock].pc \in {"ring", "wait", "disable"}

\* Every call returns: without faults because the completion always comes, with
\* resets, which may lose it, because the wait ends.
EveryCallReturns ==
    ("reset" \in faults => "timeout" \in faults) =>
        \A t \in Threads : (th[t].pc # "idle") ~> (th[t].pc = "idle")

\* A transfer that returns 0 has put its bytes in place, unless the engine
\* was reset under it.
TransferMeansMoved ==
    "reset" \notin faults /\ result.dma > 0 =>
        \A i \in 0 .. DmaReq.len - 1 : buf[DmaReq.loc + i] = ext_mem[DmaReq.ext + i]
=============================================================================
