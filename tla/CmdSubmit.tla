------------------------------ MODULE CmdSubmit ------------------------------
(***************************************************************************)
(* Host software submitting commands to the shell, with the runtime of     *)
(* sw/runtime or as the class NpuTb of tb/integration/npu_tb.h does: the   *)
(* words of a descriptor in order, then the doorbell.  Before the next     *)
(* command the host                                                        *)
(*   - "irq":   polls npu_irq_pending and calls npu_irq_clear,             *)
(*   - "poll":  calls npu_poll_idle,                                       *)
(*   - "free":  waits for nothing (npu_submit itself checks nothing),      *)
(*   - "bench": runs the clock for a while and calls wait_idle.            *)
(* A reset (npu_reset, or soft_reset_pulse) may come at any time, after    *)
(* which the host starts over with its next command.  One step is one      *)
(* clock edge; the host uses the bus at most once per edge and may leave   *)
(* it idle for any number of edges.                                        *)
(*                                                                         *)
(* A descriptor word is the number of the command it belongs to.           *)
(***************************************************************************)
EXTENDS NpuShell

CONSTANTS
    HostModes,  \* which of "irq", "poll", "free" and "bench"
    RunClocks,  \* clocks the bench runs after a doorbell, 2000 in the code,
    PulseClocks,\* and after a soft reset, 5 in the code
    MaxCmds,    \* bound: how many commands the host submits
    MaxResets   \* bound: how often it calls npu_reset

ASSUME HostAssumption ==
    /\ HostModes \subseteq {"irq", "poll", "free", "bench"}
    /\ RunClocks \in Nat /\ PulseClocks \in Nat
    /\ MaxCmds \in Nat \ {0}
    /\ MaxResets \in Nat
    /\ Word = 0 .. MaxCmds

\* The bench runs long enough for its command to have reached a backend, and
\* writes so many words that a reset is over before the doorbell.
ASSUME BenchAssumption ==
    "bench" \in HostModes =>
        /\ RunClocks >= 2 * NUM_WORDS + 4
        /\ NUM_WORDS >= STAGES
        /\ PulseClocks + NUM_WORDS >= 3

VARIABLES
    host_mode,  \* how this host waits; never changes
    host_pc,    \* where the host is in its loop
    host_word,  \* the next word to write, or clocks run
    host_id,    \* the command being submitted
    host_since, \* the first command after the last reset
    resets,     \* calls of npu_reset so far
    accepted,   \* history: the commands the queue took since the last reset
    retired,    \* history: the commands finished since the last reset
    rejected    \* history: the commands the decoder refused

hostVars == <<host_mode, host_pc, host_word, host_id, host_since, resets>>
historyVars == <<accepted, retired, rejected>>
vars == <<shellVars, hostVars, historyVars>>

-----------------------------------------------------------------------------
NextCommand ==
    /\ host_word' = 0
    /\ IF host_id < MaxCmds
       THEN host_id' = host_id + 1 /\ host_pc' = "write"
       ELSE host_id' = host_id /\ host_pc' = "halt"

\* The descriptor loop of npu_submit and of submit_conv and its siblings.
SubmitWord ==
    /\ host_pc = "write"
    /\ host_word' = host_word + 1
    /\ host_pc' = IF host_word = NUM_WORDS - 1 THEN "ring" ELSE "write"
    /\ UNCHANGED <<host_mode, host_id, host_since, resets>>

\* The doorbell of npu_submit, and the choice of how to wait.
RingDoorbell ==
    /\ host_pc = "ring"
    /\ \/ host_mode = "free" /\ NextCommand
       \/ host_mode = "bench" /\ host_pc' = "run" /\ host_word' = 0 /\ UNCHANGED host_id
       \/ host_mode \in {"irq", "poll"} /\ host_pc' = host_mode
                                        /\ UNCHANGED <<host_word, host_id>>
    /\ UNCHANGED <<host_mode, host_since, resets>>

\* One iteration of npu_poll_idle.  A read sees the state after the edge.
PollIdle ==
    /\ host_pc = "poll"
    /\ \/ core_idle' /\ ~core_busy' /\ NextCommand
       \/ ~(core_idle' /\ ~core_busy') /\ UNCHANGED <<host_pc, host_word, host_id>>
    /\ UNCHANGED <<host_mode, host_since, resets>>

\* One iteration of waiting on npu_irq_pending.
PollIrq ==
    /\ host_pc = "irq"
    /\ host_pc' = IF pending' THEN "clear" ELSE "irq"
    /\ UNCHANGED <<host_mode, host_word, host_id, host_since, resets>>

ClearIrq ==
    /\ host_pc = "clear"
    /\ NextCommand
    /\ UNCHANGED <<host_mode, host_since, resets>>

\* run_clocks, after a doorbell or within soft_reset_pulse.
run_clocks ==
    /\ \/ host_pc = "run" /\ host_word < RunClocks
       \/ host_pc = "pulse" /\ host_word < PulseClocks
    /\ host_word' = host_word + 1
    /\ UNCHANGED <<host_mode, host_pc, host_id, host_since, resets>>

\* wait_idle looks at the idle bit only.
wait_idle ==
    /\ host_pc = "run" /\ host_word = RunClocks
    /\ \/ core_idle' /\ NextCommand
       \/ ~core_idle' /\ UNCHANGED <<host_pc, host_word, host_id>>
    /\ UNCHANGED <<host_mode, host_since, resets>>

\* The command after the one given up, if there is one, is the first again.
StartOver ==
    /\ resets < MaxResets /\ host_pc \notin {"pulse", "halt"}
    /\ resets' = resets + 1
    /\ host_since' = host_id + 1
    /\ UNCHANGED host_mode

\* npu_reset, called between two other bus cycles of the host.
CallReset ==
    /\ host_mode # "bench"
    /\ StartOver
    /\ NextCommand

\* The two ends of soft_reset_pulse.
PulseBegin ==
    /\ host_mode = "bench"
    /\ StartOver
    /\ host_pc' = "pulse" /\ host_word' = 0
    /\ UNCHANGED host_id

PulseEnd ==
    /\ host_pc = "pulse" /\ host_word = PulseClocks
    /\ NextCommand
    /\ UNCHANGED <<host_mode, host_since, resets>>

HostPause == UNCHANGED hostVars

\* The host's step together with the bus cycle it makes.
HostActs(bus) ==
    \/ SubmitWord /\ bus = WriteCmdWord(host_word, host_id)
    \/ RingDoorbell /\ bus = WriteDoorbell
    \/ PollIdle /\ bus = NoWrite
    \/ PollIrq /\ bus = NoWrite
    \/ ClearIrq /\ bus = WriteIrqClear
    \/ (run_clocks \/ wait_idle) /\ bus = NoWrite
    \/ PulseEnd /\ bus = WriteCtrl({"ENABLE"})

HostGoesOn(bus) ==
    \/ HostActs(bus)
    \/ HostPause /\ bus = NoWrite

HostStep(bus) ==
    \/ HostGoesOn(bus)
    \/ (CallReset \/ PulseBegin) /\ bus = WriteCtrl({"SOFT_RESET"})

\* The bus cycles the host can make next.
BusCycle ==
    {NoWrite}
        \cup (IF resets < MaxResets THEN {WriteCtrl({"SOFT_RESET"})} ELSE {})
        \cup (CASE host_pc = "write" -> {WriteCmdWord(host_word, host_id)}
                [] host_pc = "ring" -> {WriteDoorbell}
                [] host_pc = "clear" -> {WriteIrqClear}
                [] host_pc = "pulse" -> {WriteCtrl({"ENABLE"})}
                [] OTHER -> {})

\* The history variables follow the handshakes: queue push, scheduler retire,
\* decoder error.  Reset forgets what it drops.
Record ==
    /\ accepted' = IF InReset THEN <<>>
                   ELSE IF cmd_valid /\ ~full THEN Append(accepted, decode_cmd_r)
                   ELSE accepted
    /\ retired' = IF InReset THEN <<>>
                  ELSE IF sched_state = "S_WAIT" /\ be_done
                       THEN Append(retired, sched_cmd_r)
                  ELSE retired
    /\ rejected' = IF ~InReset /\ decode_err THEN rejected \cup {decode_cmd_r}
                                             ELSE rejected

\* The DMA is not used here.
QuietEnv == [accept |-> FALSE, answer |-> FALSE, contended |-> FALSE]

Step(Host(_), finish) ==
    \E bus \in BusCycle :
        /\ ShellClk(bus, finish, QuietEnv)
        /\ Host(bus)
        /\ Record

Init ==
    /\ ShellInit
    /\ host_mode \in HostModes
    /\ host_pc = "write" /\ host_word = 0 /\ host_id = 1
    /\ host_since = 1 /\ resets = 0
    /\ accepted = <<>> /\ retired = <<>> /\ rejected = {}

Next == \E finish \in BOOLEAN : Step(HostStep, finish)

Spec == Init /\ [][Next]_vars

\* The clock runs, a host that has something to do gets to the bus, and a
\* backend finishes what it works on.  No host has to reset the device.
Fairness ==
    /\ WF_vars(\E finish \in BOOLEAN : Step(HostActs, finish))
    /\ WF_vars(Step(HostGoesOn, TRUE))

FairSpec == Spec /\ Fairness

-----------------------------------------------------------------------------
\* Type invariant of the shell, the host and the history.
TypeOK ==
    /\ ShellTypeOK
    /\ host_mode \in HostModes
    /\ host_pc \in {"write", "ring", "poll", "irq", "clear", "run", "pulse", "halt"}
    /\ host_word \in 0 .. CASE host_pc = "run" -> RunClocks
                           [] host_pc = "pulse" -> PulseClocks
                           [] OTHER -> NUM_WORDS
    /\ host_id \in 1 .. MaxCmds /\ host_since \in 1 .. MaxCmds + 1
    /\ resets \in 0 .. MaxResets
    /\ accepted \in Seq(Cmd)
    /\ retired \in Seq(Cmd)
    /\ rejected \subseteq Cmd

\* The command the scheduler holds between its pop and the backend's done.
Current == IF sched_state = "S_IDLE" THEN <<>> ELSE <<sched_cmd_r>>

\* Once the queue has taken a command it is executed exactly once and in order:
\* what was accepted is what has retired, then what the scheduler holds, then
\* what waits in the ring (npu_queue.sv, npu_scheduler.sv, for any host).
Conservation == accepted = retired \o Current \o Contents

\* Every accepted command eventually retires, so the path drains.
EventuallyDrained == <>[](accepted = retired)

\* What the commands since the last reset, up to n, leave behind when each is
\* executed untorn, once and in order, or refused for its opcode.
DoneUpTo(n) ==
    /\ {retired[i] : i \in DOMAIN retired}
           = {Whole(k) : k \in (host_since .. n) \cap ValidWord}
    /\ \A i, j \in DOMAIN retired : i < j => retired[i][0] < retired[j][0]
    /\ \A k \in (host_since .. n) \ ValidWord : Whole(k) \in rejected

\* The host is writing a descriptor, and a reset before it has gone through the
\* synchronisers.
Writing == host_pc \in {"write", "ring"} /\ ~soft_reset /\ ~soft_reset_sync1

\* A host that was told a command is over may go on to the next: whenever it
\* writes a descriptor all the commands before are done.  For npu_poll_idle it
\* is what docs/arch/overview.md says of the idle flag.
CompletionMeansDone == Writing => DoneUpTo(host_id - 1)

\* npu_irq_pending and npu_irq_clear keep that promise, also after commands
\* given up with npu_reset: the interrupt the host sees is never an old one.
\* So does wait_idle of the test bench, which looks at the same flag as
\* npu_poll_idle, because of the clocks it runs first: a test that compares a
\* result has waited for it.
ReportedMeansDone == host_mode \in {"irq", "bench"} => CompletionMeansDone

\* A host that waits gets every command done that it has not given up
\* with a reset, in the end.
EveryCommandRuns == <>[]DoneUpTo(MaxCmds)

\* npu_poll_idle may return too early to mean that the command is done, but
\* no way of waiting ends so early that the next descriptor overwrites one
\* that is still being fetched, or its doorbell finds the fetch FSM busy.  For
\* the other hosts nothing of an earlier command is left in the path, also when
\* they gave it up with a reset: nothing is queued or running, and no interrupt
\* is left over (the test bench leaves them all pending).
QuietWhileWriting ==
    host_mode # "free" /\ Writing =>
        /\ ~fetch_busy /\ ~doorbell_r /\ ~decode_busy
        /\ host_mode \in {"irq", "bench"} =>
            /\ empty
            /\ sched_state = "S_IDLE" /\ ~be_busy
            /\ host_mode = "irq" /\ pending => irq_clear_r

\* Every submission comes to an end: no doorbell, completion or interrupt is
\* lost on the way, not even the doorbell of a command submitted right after
\* npu_reset, whose register writes fall into the reset itself.
HostHalts == <>(host_pc = "halt")
=============================================================================
