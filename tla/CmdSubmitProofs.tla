--------------------------- MODULE CmdSubmitProofs ---------------------------
(***************************************************************************)
(* Proofs about a host that submits commands: nothing the queue takes is   *)
(* lost, and a host that waits for its interrupt, or as the test bench     *)
(* does, was told the truth.  For every number of commands, words and      *)
(* resets, every queue depth and every timing of host and backends.        *)
(***************************************************************************)
EXTENDS CmdSubmit, NpuShellProofs

-----------------------------------------------------------------------------
(***************************************************************************)
(* The inductive invariant.                                                *)
(***************************************************************************)

\* The host's own variables.
HostInv ==
    /\ host_mode \in HostModes
    /\ host_pc \in {"write", "ring", "poll", "irq", "clear", "run", "pulse", "halt"}
    /\ host_word \in Nat
    /\ host_pc = "write" => host_word < NUM_WORDS
    /\ host_pc = "ring" => host_word = NUM_WORDS
    /\ host_pc \in {"poll", "irq", "clear", "halt"} => host_word <= NUM_WORDS
    /\ host_pc = "run" => host_word <= RunClocks
    /\ host_pc = "pulse" => host_word <= PulseClocks
    /\ host_id \in 1 .. MaxCmds /\ host_since \in 1 .. MaxCmds + 1
    /\ host_since <= IF host_pc \in {"pulse", "halt"} THEN host_id + 1 ELSE host_id
    /\ resets \in 0 .. MaxResets

\* The ways of waiting keep to their own places.
ModeInv ==
    /\ host_pc \in {"run", "pulse"} => host_mode = "bench"
    /\ host_pc \in {"irq", "clear"} => host_mode = "irq"
    /\ host_pc = "poll" => host_mode = "poll"

\* What is in the path is going to be swept out by a soft reset.
Doomed == soft_reset \/ (soft_reset_sync1 /\ ~soft_reset_sync2)

\* In reset nothing is left.
ResetInv ==
    /\ ~hard_rst_n => ~soft_reset_sync1
    /\ ~rst_n => ~soft_reset /\ Quiet /\ ~pending /\ ~irq_clear_r /\ retired = <<>>

\* A host that asked for a reset is at the start of a new command, the first
\* one that counts, or about to get there; or it rang in vain.
Restarting ==
    /\ host_pc \in {"write", "ring", "irq", "pulse", "halt"}
    /\ host_pc \in {"write", "ring", "irq"} => host_since = host_id
    /\ host_pc = "pulse" => host_since = host_id + 1

\* How far it can have got in k clocks.
Within(k) ==
    /\ host_mode = "bench" =>
          /\ host_pc = "pulse" => host_word <= k
          /\ host_pc \in {"write", "ring"} => PulseClocks + 1 + host_word <= k
    /\ host_mode = "irq" =>
          /\ k < 2 => host_pc # "irq"
          /\ k < 1 => host_pc # "ring" /\ (host_pc = "write" => host_word = 0)

\* A host that waits is no further than that while a reset is under way.
RestartInv ==
    host_mode \in {"irq", "bench"} =>
        /\ ~hard_rst_n =>
              Restarting /\ (host_mode = "bench" /\ host_pc # "halt" => host_word <= sync_chain)
        /\ soft_reset /\ ~soft_reset_sync1 => Restarting /\ Within(0)
        /\ soft_reset_sync1 /\ ~soft_reset_sync2 => Restarting /\ Within(1)
        /\ soft_reset_sync1 /\ soft_reset_sync2 => Restarting /\ Within(2)
        /\ ~soft_reset_sync1 /\ soft_reset_sync2 => Restarting /\ Within(3)

\* What the host has written of its command is in the window.
WindowInv ==
    host_pc \in {"write", "ring"} => \A i \in WordIdx : i < host_word => cmd_mem[i] = host_id

\* The commands before the host's own are done, or that one as well; or it is
\* on its way, and in the last stage after as many clocks as the bench has run.
DoneBefore == DoneUpTo(host_id - 1)
DoneNow == DoneUpTo(host_id)
OnItsWay == \E p \in 0 .. LastStage : Stage(p, host_id)
InTime == \E p \in 0 .. LastStage : Stage(p, host_id) /\ (p >= host_word \/ p = LastStage)

\* Where the path is when the host is there, unless a reset is coming.
PathInv ==
    /\ host_mode = "poll" /\ host_pc \in {"write", "ring"} => FrontIdle
    /\ host_mode \in {"irq", "bench"} =>
          /\ host_pc \in {"write", "ring"} => Quiet /\ DoneBefore
          /\ host_pc \in {"clear", "pulse"} => Quiet /\ DoneNow
          /\ host_pc = "irq" => \/ Quiet /\ (pending => DoneNow)
                                \/ ~pending /\ DoneBefore /\ OnItsWay
          /\ host_pc = "run" => \/ Quiet /\ DoneNow
                                \/ DoneBefore /\ InTime
    /\ host_mode = "irq" /\ host_pc \in {"write", "ring"} => (pending => irq_clear_r)

SubmitInv ==
    /\ HostInv /\ ModeInv /\ DmaIdle
    /\ ResetInv /\ RestartInv
    /\ WindowInv
    /\ ~Doomed => PathInv

-----------------------------------------------------------------------------
(***************************************************************************)
(* The host by itself, and the shell under it.                             *)
(***************************************************************************)

\* A host's bus cycle is one the shell is proved about.
LEMMA BusCycleIsBus == HostInv => BusCycle \subseteq Bus
<1> SUFFICES ASSUME HostInv, NEW bus \in BusCycle PROVE bus \in Bus
  OBVIOUS
<1>1. host_pc = "write" => host_word \in WordIdx /\ host_id \in Word
  BY HostAssumption, NumWordsAssumption DEF HostInv, WordIdx
<1>2. \/ bus \in {NoWrite, WriteDoorbell, WriteIrqClear}
      \/ bus = WriteCtrl({"SOFT_RESET"}) \/ bus = WriteCtrl({"ENABLE"})
      \/ bus = WriteCmdWord(host_word, host_id) /\ host_pc = "write"
  BY DEF BusCycle, HostInv
<1>3. CASE bus \in {NoWrite, WriteDoorbell, WriteIrqClear}
  BY <1>3 DEF Bus
<1>4. CASE bus = WriteCtrl({"SOFT_RESET"}) \/ bus = WriteCtrl({"ENABLE"})
  <2>1. {"SOFT_RESET"} \in SUBSET {"SOFT_RESET", "ENABLE"}
        /\ {"ENABLE"} \in SUBSET {"SOFT_RESET", "ENABLE"}
    OBVIOUS
  <2>2. bus \in {WriteCtrl(bits) : bits \in SUBSET {"SOFT_RESET", "ENABLE"}}
    BY <1>4, <2>1
  <2>3. QED
    BY <2>2 DEF Bus
<1>5. CASE bus = WriteCmdWord(host_word, host_id) /\ host_pc = "write"
  <2>1. bus \in {WriteCmdWord(i, w) : i \in WordIdx, w \in Word}
    BY <1>1, <1>5
  <2>2. QED
    BY <2>1 DEF Bus
<1>6. QED
  BY <1>2, <1>3, <1>4, <1>5

\* What the host writes, by kind.
LEMMA HostWrites ==
  ASSUME HostInv, NEW bus \in BusCycle, HostStep(bus)
  PROVE  /\ bus.reg \in {"NONE", "CTRL", "DOORBELL", "IRQ_CLEAR", "CMD_QUEUE"}
         /\ bus.reg = "CTRL" => bus.bits = {"SOFT_RESET"} \/ bus.bits = {"ENABLE"}
  BY DEF BusCycle, HostInv, NoWrite, WriteDoorbell, WriteIrqClear, WriteCtrl, WriteCmdWord

\* A host never changes its way of waiting.
LEMMA ModeStays ==
  ASSUME NEW bus, HostStep(bus)
  PROVE  host_mode' = host_mode
  BY DEF HostStep, HostGoesOn, HostActs, SubmitWord, RingDoorbell, PollIdle, PollIrq, ClearIrq,
         run_clocks, wait_idle, PulseEnd, HostPause, hostVars, CallReset, PulseBegin, StartOver

\* The host's loop keeps its counters in range and its modes apart.
LEMMA HostInvStep ==
  ASSUME HostInv, ModeInv, NEW bus, HostStep(bus)
  PROVE  HostInv' /\ ModeInv'
<1> USE HostAssumption, NumWordsAssumption DEF HostInv, ModeInv
<1>next. ASSUME NextCommand, host_mode' = host_mode, resets' \in 0 .. MaxResets,
                host_since' \in 1 .. host_id + 1
         PROVE  HostInv' /\ ModeInv'
  <2>1. CASE host_id < MaxCmds
    BY <1>next, <2>1 DEF NextCommand
  <2>2. CASE ~(host_id < MaxCmds)
    BY <1>next, <2>2 DEF NextCommand
  <2>3. QED
    BY <2>1, <2>2
<1>same. host_since \in 1 .. host_id + 1 /\ resets \in 0 .. MaxResets
  OBVIOUS
<1>1. CASE SubmitWord
  BY <1>1 DEF SubmitWord
<1>2. CASE RingDoorbell
  <2>1. CASE NextCommand
    BY <1>2, <2>1, <1>next, <1>same DEF RingDoorbell
  <2>2. CASE host_mode = "bench" /\ host_pc' = "run" /\ host_word' = 0 /\ UNCHANGED host_id
    BY <1>2, <2>2 DEF RingDoorbell
  <2>3. CASE /\ host_mode \in {"irq", "poll"} /\ host_pc' = host_mode
             /\ UNCHANGED <<host_word, host_id>>
    BY <1>2, <2>3 DEF RingDoorbell
  <2>4. QED
    BY <1>2, <2>1, <2>2, <2>3 DEF RingDoorbell
<1>3. CASE PollIdle
  BY <1>3, <1>next, <1>same DEF PollIdle
<1>4. CASE PollIrq
  BY <1>4 DEF PollIrq
<1>5. CASE ClearIrq
  BY <1>5, <1>next, <1>same DEF ClearIrq
<1>6. CASE run_clocks
  BY <1>6 DEF run_clocks
<1>7. CASE wait_idle
  BY <1>7, <1>next, <1>same DEF wait_idle
<1>8. CASE PulseEnd
  BY <1>8, <1>next, <1>same DEF PulseEnd
<1>9. CASE HostPause
  BY <1>9 DEF HostPause, hostVars
<1>10. CASE CallReset
  <2>1. host_since' \in 1 .. host_id + 1 /\ resets' \in 0 .. MaxResets
    BY <1>10 DEF CallReset, StartOver
  <2>2. QED
    BY <1>10, <2>1, <1>next DEF CallReset, StartOver
<1>11. CASE PulseBegin
  BY <1>11 DEF PulseBegin, StartOver
<1>12. QED
  BY <1>1, <1>2, <1>3, <1>4, <1>5, <1>6, <1>7, <1>8, <1>9, <1>10, <1>11
    DEF HostStep, HostGoesOn, HostActs

\* The host starts in its loop.
LEMMA HostInvInit == Init => HostInv /\ ModeInv
  BY HostAssumption, NumWordsAssumption DEF Init, HostInv, ModeInv

\* The host is at a place of its loop with the counters that belong there.
THEOREM HostInvariant == Spec => [](HostInv /\ ModeInv)
<1>1. HostInv /\ ModeInv /\ [Next]_vars => (HostInv /\ ModeInv)'
  <2> SUFFICES ASSUME HostInv, ModeInv, [Next]_vars PROVE (HostInv /\ ModeInv)'
    OBVIOUS
  <2>1. CASE Next
    BY <2>1, HostInvStep DEF Next, Step
  <2>2. CASE UNCHANGED vars
    BY <2>2 DEF vars, hostVars, HostInv, ModeInv
  <2>3. QED
    BY <2>1, <2>2
<1>2. QED
  BY <1>1, HostInvInit, PTL DEF Spec

\* A clock edge with a host is one of the shell with some host.
LEMMA StepIsShellStep == HostInv /\ [Next]_vars => [ShellNext]_shellVars
<1> SUFFICES ASSUME HostInv, [Next]_vars PROVE [ShellNext]_shellVars
  OBVIOUS
<1>1. CASE Next
  <2>1. PICK finish \in BOOLEAN, bus \in BusCycle : ShellClk(bus, finish, QuietEnv)
    BY <1>1 DEF Next, Step
  <2>2. QuietEnv \in Env
    BY DEF QuietEnv, Env
  <2>3. bus \in Bus
    BY BusCycleIsBus
  <2>4. QED
    BY <2>1, <2>2, <2>3 DEF ShellNext
<1>2. CASE UNCHANGED vars
  BY <1>2 DEF vars
<1>3. QED
  BY <1>1, <1>2

\* Everything proved about the shell for any host holds under this one.
THEOREM SubmitUsesShell == Spec => ShellSpec
<1>1. Init => ShellInit
  BY DEF Init
<1>2. QED
  BY <1>1, StepIsShellStep, HostInvariant, PTL DEF Spec, ShellSpec

-----------------------------------------------------------------------------
(***************************************************************************)
(* What the queue takes is executed once and in order.                     *)
(***************************************************************************)

\* Facts about sequences: appending to the second part, an empty part, and a
\* head that moves from the second part to the end of the first.
LEMMA AppendToSecond ==
  ASSUME NEW S, NEW r \in Seq(S), NEW t \in Seq(S), NEW d \in S
  PROVE  r \o Append(t, d) = Append(r \o t, d)
<1> DEFINE a == r \o Append(t, d)
           b == Append(r \o t, d)
<1>1. a \in Seq(S) /\ b \in Seq(S) /\ Len(a) = Len(r) + Len(t) + 1 /\ Len(b) = Len(a)
  OBVIOUS
<1>2. \A i \in 1 .. Len(a) : a[i] = b[i]
  OBVIOUS
<1> HIDE DEF a, b
<1>3. a = b
  BY <1>1, <1>2, SameSeq
<1>4. QED
  BY <1>3 DEF a, b

\* Sequences followed by nothing and by one element.
LEMMA EmptyParts ==
  ASSUME NEW S, NEW r \in Seq(S)
  PROVE  /\ r \o <<>> = r
         /\ \A x \in S : r \o <<x>> = Append(r, x)
  OBVIOUS

\* Moving the head of the second sequence to the end of the first.
LEMMA HeadMoves ==
  ASSUME NEW S, NEW r \in Seq(S), NEW t \in Seq(S), t # <<>>
  PROVE  r \o t = Append(r, Head(t)) \o Tail(t)
<1> DEFINE a == r \o t
           b == Append(r, Head(t)) \o Tail(t)
<1>1. a \in Seq(S) /\ b \in Seq(S) /\ Len(a) = Len(r) + Len(t) /\ Len(b) = Len(a)
  OBVIOUS
<1>2. \A i \in 1 .. Len(a) : a[i] = b[i]
  OBVIOUS
<1> HIDE DEF a, b
<1>3. a = b
  BY <1>1, <1>2, SameSeq
<1>4. QED
  BY <1>3 DEF a, b

\* The histories are sequences and sets of commands.
HistoryTypes == accepted \in Seq(Cmd) /\ retired \in Seq(Cmd) /\ rejected \subseteq Cmd

\* The histories keep their types.
LEMMA HistoryTypesStep == HistoryTypes /\ ShellInv /\ Record => HistoryTypes'
<1> SUFFICES ASSUME HistoryTypes, ShellInv, Record PROVE HistoryTypes'
  OBVIOUS
<1>1. decode_cmd_r \in Cmd /\ sched_cmd_r \in Cmd
  BY CmdAssumption DEF ShellInv, DecodeInv, DecodeTypeOK, ComputeInv, SchedTypeOK
<1>2. QED
  BY <1>1 DEF Record, HistoryTypes

\* An edge out of reset: a push is recorded at the end of both sides, a pop
\* moves the head of the queue to the scheduler, a retirement moves it on.
LEMMA ConservationRun ==
  ASSUME ShellInv, ShellInv', HistoryTypes, Conservation, ~InReset, Record,
         QueueClk(cmd_valid, decode_cmd_r, queue_ready),
         SchedClk(~empty, rd_data, be_ready(sched_cmd_r), be_done)
  PROVE  Conservation'
<1> DEFINE d == decode_cmd_r
           c == sched_cmd_r
           push == cmd_valid /\ ~full
           moved == retired' \o Current'
<1>types. /\ d \in Cmd /\ c \in Cmd
          /\ accepted \in Seq(Cmd) /\ retired \in Seq(Cmd) /\ Contents \in Seq(Cmd)
          /\ empty <=> Contents = <<>>
          /\ ~empty => rd_data = Head(Contents)
          /\ sched_state \in {"S_IDLE", "S_ISSUE", "S_WAIT"}
  BY CmdAssumption, QueueOutput
    DEF ShellInv, DecodeInv, DecodeTypeOK, ComputeInv, SchedTypeOK, HistoryTypes
<1>acc. accepted' = IF push THEN Append(accepted, d) ELSE accepted
  BY DEF Record
<1>ret. retired' = IF sched_state = "S_WAIT" /\ be_done THEN Append(retired, c) ELSE retired
  BY DEF Record
<1>sched. \/ /\ sched_state = "S_IDLE" /\ ~empty
             /\ sched_state' = "S_ISSUE" /\ sched_cmd_r' = Head(Contents)
          \/ /\ sched_state = "S_WAIT" /\ be_done
             /\ sched_state' = "S_IDLE"
          \/ /\ sched_state = "S_IDLE" /\ empty
             /\ sched_state' = sched_state
          \/ /\ sched_state \in {"S_ISSUE", "S_WAIT"} /\ ~(sched_state = "S_WAIT" /\ be_done)
             /\ sched_state' \in {"S_ISSUE", "S_WAIT"} /\ sched_cmd_r' = c
  BY <1>types DEF SchedClk, SchedTake, SchedIssue, SchedRetire, SchedHold, schedVars
\* Without the push, the queue would become rest.
<1>1. \E rest \in Seq(Cmd) : /\ accepted = moved \o rest
                            /\ moved \in Seq(Cmd)
                            /\ Contents' = IF push THEN Append(rest, d) ELSE rest
  <2>1. CASE sched_state = "S_IDLE" /\ ~empty
    <3>1. moved = Append(retired, Head(Contents))
      BY <2>1, <1>sched, <1>ret, <1>types, EmptyParts DEF Current
    <3>2. accepted = retired \o Contents
      BY <2>1, <1>types, EmptyParts DEF Conservation, Current
    <3>3. accepted = moved \o Tail(Contents)
      BY <3>1, <3>2, <2>1, <1>types, HeadMoves
    <3>4. Contents' = IF push THEN Append(Tail(Contents), d) ELSE Tail(Contents)
      BY <2>1, QueueInShell
    <3>5. moved \in Seq(Cmd) /\ Tail(Contents) \in Seq(Cmd)
      BY <3>1, <2>1, <1>types
    <3>6. QED
      BY <3>3, <3>4, <3>5
  <2>2. CASE ~(sched_state = "S_IDLE" /\ ~empty)
    <3>1. Contents' = IF push THEN Append(Contents, d) ELSE Contents
      BY <2>2, QueueInShell
    <3>2. moved = retired \o Current /\ moved \in Seq(Cmd)
      <4>1. CASE sched_state = "S_WAIT" /\ be_done
        <5>1. retired' = Append(retired, c) /\ Current' = <<>> /\ Current = <<c>>
          BY <4>1, <1>ret, <1>sched DEF Current
        <5>2. Append(retired, c) \in Seq(Cmd) /\ retired \o <<c>> = Append(retired, c)
          BY <1>types, EmptyParts
        <5>3. QED
          BY <5>1, <5>2, EmptyParts
      <4>2. CASE ~(sched_state = "S_WAIT" /\ be_done)
        <5>1. retired' = retired /\ Current' = Current
          BY <4>2, <2>2, <1>ret, <1>sched DEF Current
        <5>2. Current \in Seq(Cmd)
          BY <1>types DEF Current
        <5>3. QED
          BY <5>1, <5>2, <1>types
      <4>3. QED
        BY <4>1, <4>2
    <3>3. QED
      BY <3>1, <3>2, <1>types DEF Conservation
  <2>3. QED
    BY <2>1, <2>2
<1> HIDE DEF moved, push, d
<1>2. PICK rest \in Seq(Cmd) : /\ accepted = moved \o rest
                               /\ moved \in Seq(Cmd)
                               /\ Contents' = IF push THEN Append(rest, d) ELSE rest
  BY <1>1
<1>3. accepted' = moved \o Contents'
  <2>1. d \in Cmd
    BY <1>types DEF d
  <2>2. CASE push
    BY <2>1, <2>2, <1>2, <1>acc, AppendToSecond
  <2>3. CASE ~push
    BY <2>3, <1>2, <1>acc
  <2>4. QED
    BY <2>2, <2>3
<1>4. QED
  BY <1>3 DEF Conservation, moved

\* In reset all of it is forgotten together.
LEMMA ConservationReset ==
  ASSUME ShellInv', InReset, Record, NEW bus, NEW env, ShellReset(bus, env)
  PROVE  Conservation'
<1>1. accepted' = <<>> /\ retired' = <<>> /\ Current' = <<>>
  BY DEF Record, ShellReset, SchedReset, Current
<1>2. Contents' = <<>>
  BY ResetQuiets DEF Quiet, BackIdle
<1>3. QED
  BY <1>1, <1>2 DEF Conservation

\* Once the queue has taken a command it is executed exactly once and in order,
\* for any host of this module and any number of resets.
THEOREM NothingIsLost == Spec => []Conservation
<1> DEFINE I == HistoryTypes /\ Conservation
<1>1. Init => I
  <2> SUFFICES ASSUME Init PROVE I
    OBVIOUS
  <2>1. QueueInv /\ Occupancy = 0
    BY ShellInvInit DEF Init, ShellInit, PathInit, ShellInv, Occupancy
  <2>2. Contents = <<>> /\ Current = <<>>
    BY <2>1, ContentsSeq DEF ContentsShape, Current, Init, ShellInit, PathInit, SchedInit
  <2>3. QED
    BY <2>2 DEF Init, HistoryTypes, Conservation
<1>2. I /\ ShellInv /\ ShellInv' /\ [Next]_vars => I'
  <2> SUFFICES ASSUME HistoryTypes, Conservation, ShellInv, ShellInv', [Next]_vars PROVE I'
    OBVIOUS
  <2>1. CASE Next
    <3>1. PICK finish \in BOOLEAN, bus \in BusCycle :
              ShellClk(bus, finish, QuietEnv) /\ Record
      BY <2>1 DEF Next, Step
    <3>2. HistoryTypes'
      BY <3>1, HistoryTypesStep
    <3>3. Conservation'
      BY <3>1, ConservationRun, ConservationReset DEF ShellClk, ShellRun
    <3>4. QED
      BY <3>2, <3>3
  <2>2. CASE UNCHANGED vars
    BY <2>2 DEF vars, historyVars, shellVars, queueVars, schedVars, HistoryTypes,
                Conservation, Current, Contents, Occupancy
  <2>3. QED
    BY <2>1, <2>2
<1>3. QED
  BY <1>1, <1>2, SubmitUsesShell, ShellInvariant, PTL DEF Spec

\* Type correctness of the shell, the host and the history.
THEOREM SubmitTypes == Spec => []TypeOK
<1>1. Init => HistoryTypes
  BY DEF Init, HistoryTypes
<1>2. HistoryTypes /\ ShellInv /\ [Next]_vars => HistoryTypes'
  <2> SUFFICES ASSUME HistoryTypes, ShellInv, [Next]_vars PROVE HistoryTypes'
    OBVIOUS
  <2>1. CASE Next
    BY <2>1, HistoryTypesStep DEF Next, Step
  <2>2. CASE UNCHANGED vars
    BY <2>2 DEF vars, historyVars, HistoryTypes
  <2>3. QED
    BY <2>1, <2>2
<1>3. ShellTypeOK /\ HostInv /\ HistoryTypes => TypeOK
  <2> SUFFICES ASSUME ShellTypeOK, HostInv, HistoryTypes PROVE TypeOK
    OBVIOUS
  <2>1. host_word \in 0 .. CASE host_pc = "run" -> RunClocks
                             [] host_pc = "pulse" -> PulseClocks
                             [] OTHER -> NUM_WORDS
    BY HostAssumption, NumWordsAssumption DEF HostInv
  <2>2. QED
    BY <2>1 DEF TypeOK, HostInv, HistoryTypes
<1>4. QED
  BY <1>1, <1>2, <1>3, SubmitUsesShell, ShellInvariant, ShellTypes, HostInvariant, PTL
    DEF Spec

-----------------------------------------------------------------------------
(***************************************************************************)
(* What has been done.                                                     *)
(***************************************************************************)

\* Nothing retires, or nothing is left of what did.
LEMMA DoneKept ==
  ASSUME NEW n, DoneUpTo(n), retired' = retired, rejected' = rejected,
         host_since' = host_since
  PROVE  DoneUpTo(n)'
  BY DEF DoneUpTo, Whole

\* Nothing is done of no commands.
LEMMA DoneNone ==
  ASSUME NEW n \in Int, retired' = <<>>, host_since' = n + 1
  PROVE  DoneUpTo(n)'
<1>1. host_since' .. n = {}
  OBVIOUS
<1>2. DOMAIN retired' = {}
  OBVIOUS
<1>3. {retired'[i] : i \in DOMAIN retired'}
          = {Whole(k) : k \in (host_since' .. n) \cap ValidWord}
  BY <1>1, <1>2
<1>4. QED
  BY <1>1, <1>2, <1>3 DEF DoneUpTo, Whole

\* The next command is finished, or refused.
LEMMA DoneFinished ==
  ASSUME NEW id \in Nat, host_since \in 1 .. id, DoneUpTo(id - 1), retired \in Seq(Cmd),
         host_since' = host_since, id \in ValidWord,
         retired' = Append(retired, Whole(id)), rejected' = rejected
  PROVE  DoneUpTo(id)'
<1> DEFINE n == Len(retired)
<1>1. /\ DOMAIN retired = 1 .. n /\ DOMAIN retired' = 1 .. n + 1 /\ n \in Nat
      /\ \A i \in 1 .. n : retired'[i] = retired[i]
      /\ retired'[n + 1] = Whole(id)
  OBVIOUS
<1>2. (host_since .. id) = (host_since .. id - 1) \cup {id}
  OBVIOUS
<1>3. {retired'[i] : i \in 1 .. n + 1} = {retired[i] : i \in 1 .. n} \cup {Whole(id)}
  <2>1. 1 .. n + 1 = (1 .. n) \cup {n + 1}
    BY <1>1
  <2>2. QED
    BY <2>1, <1>1
<1>4. {retired'[i] : i \in DOMAIN retired'}
          = {Whole(k) : k \in (host_since' .. id) \cap ValidWord}
  <2> DEFINE K == (host_since .. id - 1) \cap ValidWord
  <2>1. (host_since' .. id) \cap ValidWord = K \cup {id}
    BY <1>2
  <2>2. {retired[i] : i \in 1 .. n} = {Whole(k) : k \in K}
    BY <1>1 DEF DoneUpTo
  <2> HIDE DEF K
  <2>3. {Whole(k) : k \in K \cup {id}} = {Whole(k) : k \in K} \cup {Whole(id)}
    OBVIOUS
  <2>4. QED
    BY <1>1, <1>3, <2>1, <2>2, <2>3
<1>5. ASSUME NEW i \in 1 .. n PROVE retired[i][0] < id
  <2>1. PICK k \in host_since .. id - 1 : retired[i] = Whole(k)
    BY <1>1 DEF DoneUpTo
  <2>2. Whole(k)[0] = k
    BY NumWordsAssumption DEF Whole, WordIdx
  <2>3. QED
    BY <2>1, <2>2
<1>6. ASSUME NEW i \in 1 .. n + 1, NEW j \in 1 .. n + 1, i < j
      PROVE  retired'[i][0] < retired'[j][0]
  <2>1. i \in 1 .. n
    BY <1>1, <1>6
  <2>2. CASE j \in 1 .. n
    BY <1>1, <1>6, <2>1, <2>2 DEF DoneUpTo
  <2>3. CASE j = n + 1
    <3>1. Whole(id)[0] = id
      BY NumWordsAssumption DEF Whole, WordIdx
    <3>2. QED
      BY <1>1, <1>5, <2>1, <2>3, <3>1
  <2>4. QED
    BY <1>1, <2>2, <2>3
<1>7. \A k \in (host_since' .. id) \ ValidWord : Whole(k) \in rejected'
  BY <1>2 DEF DoneUpTo
<1>8. QED
  BY <1>1, <1>4, <1>6, <1>7 DEF DoneUpTo, Whole

\* A refused command adds nothing to what has to be executed.
LEMMA DoneRefused ==
  ASSUME NEW id \in Nat, host_since \in 1 .. id, DoneUpTo(id - 1),
         host_since' = host_since, id \notin ValidWord,
         retired' = retired, rejected' = rejected \cup {Whole(id)}
  PROVE  DoneUpTo(id)'
<1>1. (host_since .. id) = (host_since .. id - 1) \cup {id}
  OBVIOUS
<1>2. QED
  BY <1>1 DEF DoneUpTo, Whole

\* The same with the host's number.
LEMMA DoneNames ==
  ASSUME NEW id \in Int
  PROVE  /\ host_id = id => (DoneBefore <=> DoneUpTo(id - 1)) /\ (DoneNow <=> DoneUpTo(id))
         /\ host_id' = id => /\ DoneBefore' <=> DoneUpTo(id - 1)'
                             /\ DoneNow' <=> DoneUpTo(id)'
         /\ host_id' = id + 1 => (DoneBefore' <=> DoneUpTo(id)')
<1>1. host_id' = id + 1 => host_id' - 1 = id
  OBVIOUS
<1>2. QED
  BY <1>1 DEF DoneBefore, DoneNow, DoneUpTo, Whole

-----------------------------------------------------------------------------
(***************************************************************************)
(* The invariant on edges out of reset.                                    *)
(***************************************************************************)

\* The DMA stays idle.
LEMMA DmaStaysIdle ==
  ASSUME HostInv, DmaIdle, NEW bus \in BusCycle, HostStep(bus), NEW finish,
         ShellClk(bus, finish, QuietEnv)
  PROVE  DmaIdle' /\ ~dma_done
<1>1. bus.reg # "DMA_CTRL"
  BY HostWrites
<1>2. dma_start_r' = FALSE
  BY <1>1 DEF ShellClk, ShellRun, ShellReset, RegBlockClk, DmaRegsClk, RegBlockReset
<1>3. CASE ShellReset(bus, QuietEnv)
  BY <1>2, <1>3 DEF ShellReset, DmaReset, IdleEngine, DmaIdle, dma_done
<1>4. CASE ShellRun(bus, finish, QuietEnv)
  <2>1. rd' = rd /\ wr' = wr
    BY <1>4 DEF ShellRun, DmaClk, DmaIdle, ReaderClk, ReaderStart, ReaderRequest, ReaderData,
                ReaderStore, ReaderDone, ReaderHold, WriterClk, WriterStart, WriterRequest,
                WriterData, WriterStore, WriterDone, WriterHold, rd_start, wr_start
  <2>2. QED
    BY <1>2, <2>1 DEF DmaIdle, dma_done
<1>5. QED
  BY <1>3, <1>4 DEF ShellClk

\* The edge as the host sees it: nothing is reported and nothing is recorded ...
Uneventful == ~be_done /\ ~decode_err

\* An edge without a pulse leaves the history alone.
LEMMA NoNews ==
  ASSUME NEW bus, RunEdge(bus), ~InReset, Record, ~dma_done, Uneventful
  PROVE  /\ pending' <=> pending /\ ~irq_clear_r
         /\ retired' = retired /\ rejected' = rejected
<1>1. pending' <=> pending /\ ~irq_clear_r
  BY DEF RunEdge, ShellRun, IrqClk, Uneventful
<1>2. retired' = retired /\ rejected' = rejected
  BY DEF Record, Uneventful
<1>3. QED
  BY <1>1, <1>2

\* ... so what was done is still done ...
LEMMA NoNewsDone ==
  ASSUME NEW bus, RunEdge(bus), ~InReset, Record, ~dma_done, Uneventful, HostInv,
         host_since' = host_since
  PROVE  /\ host_id' = host_id => (DoneBefore => DoneBefore') /\ (DoneNow => DoneNow')
         /\ host_id' = host_id + 1 => (DoneNow => DoneBefore')
<1>1. PICK id \in Int : id = host_id
  BY DEF HostInv
<1>2. retired' = retired /\ rejected' = rejected
  BY NoNews
<1>3. (DoneUpTo(id - 1) => DoneUpTo(id - 1)') /\ (DoneUpTo(id) => DoneUpTo(id)')
  BY <1>2, DoneKept
<1>4. QED
  BY <1>1, <1>3, DoneNames

\* ... or the host's command is over.
LEMMA CommandOver ==
  ASSUME NEW id \in Int, id = host_id, Refused(id) \/ Finished(id), ~InReset, Record,
         HostInv, HistoryTypes, host_pc \in {"irq", "run"}, host_since' = host_since, DoneBefore
  PROVE  DoneUpTo(id)'
<1>1. id \in Nat /\ host_since \in 1 .. id /\ DoneUpTo(id - 1) /\ retired \in Seq(Cmd)
  <2>1. id \in Nat /\ host_since \in 1 .. id /\ retired \in Seq(Cmd)
    BY DEF HostInv, HistoryTypes
  <2>2. QED
    BY <2>1, DoneNames
<1>2. CASE Finished(id)
  <2>1. retired' = Append(retired, Whole(id)) /\ rejected' = rejected /\ id \in ValidWord
    BY <1>2 DEF Finished, Record
  <2>2. QED
    BY <1>1, <2>1, DoneFinished
<1>3. CASE Refused(id)
  <2>1. retired' = retired /\ rejected' = rejected \cup {Whole(id)} /\ id \notin ValidWord
    BY <1>3 DEF Refused, Record
  <2>2. QED
    BY <1>1, <2>1, DoneRefused
<1>4. QED
  BY <1>2, <1>3

\* The stages with the host's number.
LEMMA WayNames ==
  ASSUME NEW id \in Int
  PROVE  /\ host_id = id => /\ OnItsWay <=> \E p \in 0 .. LastStage : Stage(p, id)
                            /\ InTime <=> \E p \in 0 .. LastStage :
                                             Stage(p, id) /\ (p >= host_word \/ p = LastStage)
         /\ host_id' = id => /\ OnItsWay' <=> \E p \in 0 .. LastStage : Stage(p, id)'
                             /\ InTime' <=> \E p \in 0 .. LastStage :
                                   Stage(p, id)' /\ (p >= host_word' \/ p = LastStage)
  BY DEF OnItsWay, InTime, Stage, Ringing, Reading, Arriving, Fetching, Checking, Offering,
         Queued, Issuing, Running, Whole, LastStage

\* A clock of a host that waits for a command on its way.
LEMMA WaitingStep ==
  ASSUME NEW id \in Int, id = host_id, host_id' = host_id, host_since' = host_since,
         HostInv, HistoryTypes, host_pc \in {"irq", "run"},
         RunEdge(NoWrite), ~InReset, Record, ~dma_done,
         DoneBefore, NEW p \in 0 .. LastStage, Stage(p, id)
  PROVE  \/ Quiet' /\ DoneUpTo(id)'
         \/ /\ Uneventful /\ DoneBefore'
            /\ \E q \in 0 .. LastStage : Stage(q, id)' /\ (q = p + 1 \/ (p = LastStage /\ q = p))
<1>1. CASE Quiet' /\ (Refused(id) \/ Finished(id))
  BY <1>1, CommandOver
<1>2. CASE Uneventful /\ \E q \in 0 .. LastStage : /\ Stage(q, id)'
                                                   /\ q = p + 1 \/ (p = LastStage /\ q = p)
  BY <1>2, NoNewsDone
<1>3. PassEdge(NoWrite)
  BY NoWritePasses
<1>4. QED
  BY <1>1, <1>2, <1>3, StageStep DEF Uneventful

\* The window holds the whole command when the host rings.
LEMMA WindowFull ==
  ASSUME ShellInv, HostInv, WindowInv, host_pc = "ring", NEW id, id = host_id
  PROVE  cmd_mem = Whole(id)
<1>1. cmd_mem \in [WordIdx -> Word]
  BY DEF ShellInv, FetchInv
<1>2. \A i \in WordIdx : i < host_word
  BY NumWordsAssumption DEF HostInv, WordIdx
<1>3. QED
  BY <1>1, <1>2 DEF WindowInv, Whole

\* The hypotheses of the next lemmas: an edge out of reset on which the host
\* goes on with what it is doing.
GoesOn(bus) ==
    /\ HostInv /\ ModeInv /\ WindowInv /\ PathInv /\ HistoryTypes
    /\ RunEdge(bus) /\ ~InReset /\ Record /\ ~dma_done
    /\ HostGoesOn(bus)

\* A host that polls starts over when the front end is idle.
LEMMA PollPath ==
  ASSUME NEW bus, GoesOn(bus), host_mode = "poll"
  PROVE  PathInv'
<1> USE DEF GoesOn
<1>1. host_mode' = "poll"
  BY DEF HostGoesOn, HostActs, SubmitWord, RingDoorbell, PollIdle, PollIrq, ClearIrq,
         run_clocks, wait_idle, PulseEnd, HostPause, hostVars
<1> SUFFICES ASSUME host_pc' \in {"write", "ring"} PROVE FrontIdle'
  BY <1>1 DEF PathInv
<1>2. CASE host_pc \in {"write", "ring"}
  <2>1. bus.reg # "DOORBELL"
    BY <1>2 DEF HostGoesOn, HostActs, SubmitWord, RingDoorbell, PollIdle, PollIrq, ClearIrq,
                run_clocks, wait_idle, PulseEnd, NoWrite, WriteCmdWord
  <2>2. QED
    BY <1>2, <2>1, FrontStaysIdle DEF PathInv
<1>3. CASE host_pc \notin {"write", "ring"}
  <2>1. core_idle' /\ bus = NoWrite
    BY <1>3 DEF ModeInv, HostGoesOn, HostActs, SubmitWord, RingDoorbell, PollIdle, PollIrq,
                ClearIrq, run_clocks, wait_idle, PulseEnd, HostPause, hostVars
  <2>2. QED
    BY <2>1, NoWritePasses, IdleBus DEF core_idle, fetch_busy, decode_busy, FrontIdle
<1>4. QED
  BY <1>2, <1>3

\* A host at rest, or writing: the path stays quiet and what is done is done.
LEMMA RestingStep ==
  ASSUME NEW bus, GoesOn(bus), Quiet, bus.reg # "DOORBELL", host_since' = host_since
  PROVE  /\ Quiet'
         /\ pending' <=> pending /\ ~irq_clear_r
         /\ host_id' = host_id => (DoneBefore => DoneBefore') /\ (DoneNow => DoneNow')
         /\ host_id' = host_id + 1 => (DoneNow => DoneBefore')
<1> USE DEF GoesOn
<1>1. Quiet' /\ Uneventful
  BY QuietStays DEF Uneventful
<1>2. QED
  BY <1>1, NoNews, NoNewsDone

\* The doorbell puts the command on its way.
LEMMA RingStarts ==
  ASSUME GoesOn(WriteDoorbell), Quiet, DoneBefore, host_pc = "ring",
         host_id' = host_id, host_since' = host_since
  PROVE  /\ DoneBefore' /\ OnItsWay' /\ (host_word' = 0 => InTime')
         /\ pending' <=> pending /\ ~irq_clear_r
<1> USE DEF GoesOn
<1>1. PICK id \in Int : id = host_id
  BY DEF HostInv
<1>2. cmd_mem = Whole(id)
  BY <1>1, WindowFull DEF RunEdge
<1>3. Ringing(id)' /\ Uneventful
  BY <1>2, QuietRings DEF Uneventful
<1>4. DoneBefore' /\ (pending' <=> pending /\ ~irq_clear_r)
  BY <1>3, NoNews, NoNewsDone
<1>5. 0 \in 0 .. LastStage /\ Stage(0, id)'
  BY <1>3, NumWordsAssumption DEF Stage, LastStage
<1>6. OnItsWay'
  BY <1>1, <1>5, WayNames
<1>7. host_word' = 0 => InTime'
  <2>1. host_word' = 0 => 0 >= host_word'
    OBVIOUS
  <2>2. QED
    BY <1>1, <1>5, <2>1, WayNames
<1>8. QED
  BY <1>4, <1>6, <1>7

\* A host that waits for its interrupt sees it when the command is over.
LEMMA IrqPath ==
  ASSUME NEW bus, GoesOn(bus), host_mode = "irq"
  PROVE  PathInv'
<1> USE DEF GoesOn
<1>same. host_mode' = "irq" /\ host_since' = host_since
  BY DEF HostGoesOn, HostActs, SubmitWord, RingDoorbell, PollIdle, PollIrq, ClearIrq,
         run_clocks, wait_idle, PulseEnd, HostPause, hostVars
<1>1. CASE host_pc \in {"write", "ring"} /\ bus.reg # "DOORBELL"
  <2>1. /\ host_id' = host_id
        /\ host_pc' \in {"write", "ring"}
    BY <1>1 DEF HostGoesOn, HostActs, SubmitWord, RingDoorbell, PollIdle, PollIrq, ClearIrq,
                run_clocks, wait_idle, PulseEnd, HostPause, hostVars, WriteDoorbell
  <2>2. Quiet /\ DoneBefore /\ (pending => irq_clear_r)
    BY <1>1 DEF PathInv
  <2>3. Quiet' /\ DoneBefore' /\ ~pending'
    BY <1>1, <1>same, <2>1, <2>2, RestingStep
  <2>4. QED
    BY <1>same, <2>1, <2>3 DEF PathInv
<1>2. CASE host_pc \in {"write", "ring"} /\ bus.reg = "DOORBELL"
  <2>1. /\ bus = WriteDoorbell /\ host_pc = "ring" /\ host_pc' = "irq"
        /\ host_id' = host_id
    BY <1>2 DEF HostGoesOn, HostActs, SubmitWord, RingDoorbell, PollIdle, PollIrq, ClearIrq,
                run_clocks, wait_idle, PulseEnd, NoWrite, WriteCmdWord
  <2>2. Quiet /\ DoneBefore /\ (pending => irq_clear_r)
    BY <1>2 DEF PathInv
  <2>3. DoneBefore' /\ OnItsWay' /\ ~pending'
    BY <1>same, <2>1, <2>2, RingStarts
  <2>4. QED
    BY <1>same, <2>1, <2>3 DEF PathInv
<1>3. CASE host_pc = "irq"
  <2>1. /\ bus = NoWrite /\ host_id' = host_id
        /\ host_pc' \in {"irq", "clear"} /\ (host_pc' = "clear" => pending')
    BY <1>3 DEF HostGoesOn, HostActs, SubmitWord, RingDoorbell, PollIdle, PollIrq, ClearIrq,
                run_clocks, wait_idle, PulseEnd, HostPause, hostVars
  <2>2. CASE Quiet /\ (pending => DoneNow)
    <3>1. Quiet' /\ (pending' => DoneNow')
      BY <1>same, <2>1, <2>2, RestingStep DEF NoWrite
    <3>2. QED
      BY <1>same, <2>1, <3>1 DEF PathInv
  <2>3. CASE ~pending /\ DoneBefore /\ OnItsWay
    <3>1. PICK id \in Int : id = host_id
      BY DEF HostInv
    <3>2. PICK p \in 0 .. LastStage : Stage(p, id)
      BY <2>3, <3>1, WayNames
    <3>3. CASE Quiet' /\ DoneUpTo(id)'
      <4>1. DoneNow'
        BY <2>1, <3>1, <3>3, DoneNames
      <4>2. QED
        BY <1>same, <2>1, <3>3, <4>1 DEF PathInv
    <3>4. CASE Uneventful /\ DoneBefore' /\ \E q \in 0 .. LastStage : Stage(q, id)'
      <4>1. OnItsWay'
        BY <2>1, <3>1, <3>4, WayNames
      <4>2. ~pending'
        BY <2>3, <3>4, NoNews
      <4>3. QED
        BY <1>same, <2>1, <3>4, <4>1, <4>2 DEF PathInv
    <3>5. QED
      BY <1>3, <1>same, <2>1, <2>3, <3>1, <3>2, <3>3, <3>4, WaitingStep
  <2>4. QED
    BY <1>3, <2>2, <2>3 DEF PathInv
<1>4. CASE host_pc = "clear"
  <2>1. \/ /\ bus = WriteIrqClear
           /\ \/ host_pc' = "write" /\ host_id' = host_id + 1
              \/ host_pc' = "halt"
        \/ bus = NoWrite /\ host_pc' = "clear" /\ host_id' = host_id
    BY <1>4 DEF HostGoesOn, HostActs, SubmitWord, RingDoorbell, PollIdle, PollIrq, ClearIrq,
                run_clocks, wait_idle, PulseEnd, HostPause, hostVars, NextCommand
  <2>2. Quiet /\ DoneNow
    BY <1>4 DEF PathInv
  <2>3. bus.reg # "DOORBELL"
    BY <2>1 DEF NoWrite, WriteIrqClear
  <2>4. /\ Quiet'
        /\ host_id' = host_id => DoneNow'
        /\ host_id' = host_id + 1 => DoneBefore'
    BY <1>same, <2>2, <2>3, RestingStep
  <2>5. bus = WriteIrqClear => irq_clear_r'
    <3>1. irq_clear_r' = (bus.reg = "IRQ_CLEAR")
      BY DEF RunEdge, ShellRun, RegBlockClk, ControlRegsClk
    <3>2. bus = WriteIrqClear => bus.reg = "IRQ_CLEAR"
      BY DEF WriteIrqClear
    <3> HIDE DEF GoesOn
    <3>3. QED
      BY <3>1, <3>2, Zenon
  <2>6. CASE host_pc' = "write" /\ host_id' = host_id + 1 /\ bus = WriteIrqClear
    BY <1>same, <2>4, <2>5, <2>6 DEF PathInv
  <2>7. CASE host_pc' = "halt"
    BY <1>same, <2>7 DEF PathInv
  <2>8. CASE host_pc' = "clear" /\ host_id' = host_id
    BY <1>same, <2>4, <2>8 DEF PathInv
  <2>9. QED
    BY <2>1, <2>6, <2>7, <2>8
<1>5. CASE host_pc = "halt"
  <2>1. host_pc' = "halt"
    BY <1>5 DEF HostGoesOn, HostActs, SubmitWord, RingDoorbell, PollIdle, PollIrq, ClearIrq,
                run_clocks, wait_idle, PulseEnd, HostPause, hostVars
  <2>2. QED
    BY <1>same, <2>1 DEF PathInv
<1>6. QED
  BY <1>1, <1>2, <1>3, <1>4, <1>5 DEF HostInv, ModeInv

\* The bench has run its clocks when its command is in a backend at least, so
\* the idle flag it waits for tells that the command is over.
LEMMA BenchPath ==
  ASSUME NEW bus, GoesOn(bus), host_mode = "bench"
  PROVE  PathInv'
<1> USE DEF GoesOn
<1>same. host_mode' = "bench" /\ host_since' = host_since
  BY DEF HostGoesOn, HostActs, SubmitWord, RingDoorbell, PollIdle, PollIrq, ClearIrq,
         run_clocks, wait_idle, PulseEnd, HostPause, hostVars
<1>1. CASE host_pc \in {"write", "ring"} /\ bus.reg # "DOORBELL"
  <2>1. /\ host_id' = host_id
        /\ host_pc' \in {"write", "ring"}
    BY <1>1 DEF HostGoesOn, HostActs, SubmitWord, RingDoorbell, PollIdle, PollIrq, ClearIrq,
                run_clocks, wait_idle, PulseEnd, HostPause, hostVars, WriteDoorbell
  <2>2. Quiet /\ DoneBefore
    BY <1>1 DEF PathInv
  <2>3. Quiet' /\ DoneBefore'
    BY <1>1, <1>same, <2>1, <2>2, RestingStep
  <2>4. QED
    BY <1>same, <2>1, <2>3 DEF PathInv
<1>2. CASE host_pc \in {"write", "ring"} /\ bus.reg = "DOORBELL"
  <2>1. /\ bus = WriteDoorbell /\ host_pc = "ring" /\ host_pc' = "run"
        /\ host_id' = host_id /\ host_word' = 0
    BY <1>2 DEF HostGoesOn, HostActs, SubmitWord, RingDoorbell, PollIdle, PollIrq, ClearIrq,
                run_clocks, wait_idle, PulseEnd, NoWrite, WriteCmdWord
  <2>2. Quiet /\ DoneBefore
    BY <1>2 DEF PathInv
  <2>3. DoneBefore' /\ InTime'
    BY <1>same, <2>1, <2>2, RingStarts
  <2>4. QED
    BY <1>same, <2>1, <2>3 DEF PathInv
<1>3. CASE host_pc = "run"
  <2>1. /\ bus = NoWrite
        /\ \/ host_pc' = "run" /\ host_id' = host_id /\ host_word' \in {host_word, host_word + 1}
           \/ /\ host_word = RunClocks /\ core_idle'
              /\ (host_pc' = "write" /\ host_id' = host_id + 1) \/ host_pc' = "halt"
    BY <1>3 DEF HostGoesOn, HostActs, SubmitWord, RingDoorbell, PollIdle, PollIrq, ClearIrq,
                run_clocks, wait_idle, PulseEnd, HostPause, hostVars, NextCommand
  <2>2. CASE Quiet /\ DoneNow
    <3>1. /\ Quiet'
          /\ host_id' = host_id => DoneNow'
          /\ host_id' = host_id + 1 => DoneBefore'
      BY <1>same, <2>1, <2>2, RestingStep DEF NoWrite
    <3>2. QED
      BY <1>same, <2>1, <3>1 DEF PathInv
  <2>3. CASE DoneBefore /\ InTime
    <3>1. PICK id \in Int : id = host_id
      BY DEF HostInv
    <3>2. PICK p \in 0 .. LastStage : Stage(p, id) /\ (p >= host_word \/ p = LastStage)
      BY <2>3, <3>1, WayNames
    <3>3. CASE host_pc' = "run" /\ host_id' = host_id /\ host_word' \in {host_word, host_word + 1}
      <4>1. \/ Quiet' /\ DoneUpTo(id)'
            \/ /\ Uneventful /\ DoneBefore'
               /\ \E q \in 0 .. LastStage :
                     Stage(q, id)' /\ (q = p + 1 \/ (p = LastStage /\ q = p))
        BY <1>3, <1>same, <2>1, <2>3, <3>1, <3>2, <3>3, WaitingStep
      <4>2. CASE Quiet' /\ DoneUpTo(id)'
        <5>1. DoneNow'
          BY <3>1, <3>3, <4>2, DoneNames
        <5>2. QED
          BY <1>same, <3>3, <4>2, <5>1 DEF PathInv
      <4>3. CASE DoneBefore' /\ \E q \in 0 .. LastStage :
                                   Stage(q, id)' /\ (q = p + 1 \/ (p = LastStage /\ q = p))
        <5>1. PICK q \in 0 .. LastStage : Stage(q, id)' /\ (q = p + 1 \/ (p = LastStage /\ q = p))
          BY <4>3
        <5>2. q >= host_word' \/ q = LastStage
          BY <3>2, <3>3, <5>1, NumWordsAssumption DEF HostInv, LastStage
        <5>3. InTime'
          BY <3>1, <3>3, <5>1, <5>2, WayNames
        <5>4. QED
          BY <1>same, <3>3, <4>3, <5>3 DEF PathInv
      <4>4. QED
        BY <4>1, <4>2, <4>3
    <3>4. CASE /\ host_word = RunClocks /\ core_idle'
               /\ (host_pc' = "write" /\ host_id' = host_id + 1) \/ host_pc' = "halt"
      <4>1. ASSUME NEW q \in 0 .. LastStage, Stage(q, id)', q = p + 1 \/ (p = LastStage /\ q = p)
            PROVE  FALSE
        <5>1. q = LastStage
          BY <3>2, <3>4, <4>1, BenchAssumption, NumWordsAssumption, HostAssumption
            DEF HostInv, LastStage
        <5>2. Running(id)'
          BY <4>1, <5>1, NumWordsAssumption DEF Stage, LastStage, WordIdx
        <5>3. QED
          BY <3>4, <5>2, RunningIsBusy DEF RunEdge
      <4>2. Quiet' /\ (Refused(id) \/ Finished(id))
        BY <2>1, <3>1, <3>2, <4>1, NoWritePasses, StageStep
      <4>3. DoneUpTo(id)'
        BY <1>3, <1>same, <2>3, <3>1, <4>2, CommandOver
      <4>4. host_id' = host_id + 1 => DoneBefore'
        BY <3>1, <4>3, DoneNames
      <4>5. QED
        BY <1>same, <3>4, <4>2, <4>4 DEF PathInv
    <3>5. QED
      BY <2>1, <3>3, <3>4
  <2>4. QED
    BY <1>3, <2>2, <2>3 DEF PathInv
<1>4. CASE host_pc = "pulse"
  <2>1. \/ /\ bus = WriteCtrl({"ENABLE"})
           /\ \/ host_pc' = "write" /\ host_id' = host_id + 1
              \/ host_pc' = "halt"
        \/ bus = NoWrite /\ host_pc' = "pulse" /\ host_id' = host_id
    BY <1>4 DEF HostGoesOn, HostActs, SubmitWord, RingDoorbell, PollIdle, PollIrq, ClearIrq,
                run_clocks, wait_idle, PulseEnd, HostPause, hostVars, NextCommand
  <2>2. Quiet /\ DoneNow
    BY <1>4 DEF PathInv
  <2>3. bus.reg # "DOORBELL"
    BY <2>1 DEF NoWrite, WriteCtrl
  <2>4. /\ Quiet'
        /\ host_id' = host_id => DoneNow'
        /\ host_id' = host_id + 1 => DoneBefore'
    BY <1>same, <2>2, <2>3, RestingStep
  <2>5. QED
    BY <1>same, <2>1, <2>4 DEF PathInv
<1>5. CASE host_pc = "halt"
  <2>1. host_pc' = "halt"
    BY <1>5 DEF HostGoesOn, HostActs, SubmitWord, RingDoorbell, PollIdle, PollIrq, ClearIrq,
                run_clocks, wait_idle, PulseEnd, HostPause, hostVars
  <2>2. QED
    BY <1>same, <2>1 DEF PathInv
<1>6. QED
  BY <1>1, <1>2, <1>3, <1>4, <1>5 DEF HostInv, ModeInv

\* Out of reset, the host and the path keep together.
LEMMA PathStep ==
  ASSUME NEW bus, GoesOn(bus)
  PROVE  PathInv'
<1>1. CASE host_mode \in {"poll", "irq", "bench"}
  BY <1>1, PollPath, IrqPath, BenchPath
<1>2. CASE host_mode \notin {"poll", "irq", "bench"}
  <2>1. host_mode' = host_mode
    BY DEF GoesOn, HostGoesOn, HostActs, SubmitWord, RingDoorbell, PollIdle, PollIrq,
           ClearIrq, run_clocks, wait_idle, PulseEnd, HostPause, hostVars
  <2>2. QED
    BY <1>2, <2>1 DEF PathInv
<1>3. QED
  BY <1>1, <1>2

-----------------------------------------------------------------------------
(***************************************************************************)
(* Reset.                                                                  *)
(***************************************************************************)

\* What reset leaves.
Flushed ==
    /\ Quiet /\ ~pending /\ ~irq_clear_r /\ ~soft_reset
    /\ retired = <<>>

\* It is what an edge in reset leads to.
LEMMA ResetFlushes ==
  ASSUME ShellInv', NEW bus, ShellReset(bus, QuietEnv), InReset, Record
  PROVE  Flushed'
<1>1. /\ doorbell_r' = FALSE /\ irq_clear_r' = FALSE /\ pending' = FALSE
      /\ ctrl_reg' = {}
  BY DEF ShellReset, RegBlockReset, ControlRegsReset, IrqReset
<1>2. Quiet'
  BY ResetQuiets
<1>3. retired' = <<>>
  BY DEF Record
<1>4. QED
  BY <1>1, <1>2, <1>3 DEF Flushed, soft_reset

\* A restarting host goes on restarting, as long as no interrupt comes and the
\* bench does not ring.
LEMMA RestartingStep ==
  ASSUME HostInv, ModeInv, host_mode \in {"irq", "bench"}, Restarting,
         NEW bus, HostStep(bus),
         host_pc = "irq" => ~pending', ~(host_mode = "bench" /\ host_pc = "ring")
  PROVE  Restarting'
<1>next. ASSUME NextCommand, host_since' = host_id + 1
         PROVE  Restarting'
  BY <1>next DEF NextCommand, Restarting
<1>1. CASE SubmitWord
  BY <1>1 DEF SubmitWord, Restarting
<1>2. CASE RingDoorbell
  BY <1>2 DEF RingDoorbell, Restarting
<1>3. CASE PollIdle
  BY <1>3 DEF PollIdle, Restarting
<1>4. CASE PollIrq
  BY <1>4 DEF PollIrq, Restarting
<1>5. CASE ClearIrq
  BY <1>5 DEF ClearIrq, Restarting
<1>6. CASE run_clocks \/ wait_idle
  BY <1>6 DEF run_clocks, wait_idle, Restarting
<1>7. CASE PulseEnd
  BY <1>7, <1>next DEF PulseEnd, Restarting
<1>8. CASE HostPause
  BY <1>8 DEF HostPause, hostVars, Restarting
<1>9. CASE CallReset
  BY <1>9, <1>next DEF CallReset, StartOver
<1>10. CASE PulseBegin
  BY <1>10 DEF PulseBegin, StartOver, Restarting
<1>11. QED
  BY <1>1, <1>2, <1>3, <1>4, <1>5, <1>6, <1>7, <1>8, <1>9, <1>10
    DEF HostStep, HostGoesOn, HostActs

\* In one more clock it gets at most one step further.
LEMMA WithinStep ==
  ASSUME HostInv, ModeInv, host_mode \in {"irq", "bench"}, Restarting,
         NEW k \in 0 .. 3, Within(k), NEW bus, HostStep(bus)
  PROVE  Within(k + 1)' /\ ~(host_mode = "bench" /\ host_pc = "ring")
<1> USE HostAssumption, NumWordsAssumption DEF HostInv, ModeInv, Within
<1>ring. ~(host_mode = "bench" /\ host_pc = "ring")
  BY BenchAssumption
<1>next. ASSUME NextCommand, host_mode' = host_mode,
                host_mode = "bench" => host_pc = "pulse" /\ host_word = PulseClocks
         PROVE  Within(k + 1)'
  BY <1>next DEF NextCommand
<1>1. CASE SubmitWord
  BY <1>1 DEF SubmitWord
<1>2. CASE RingDoorbell
  BY <1>2, <1>ring DEF RingDoorbell
<1>3. CASE PollIrq
  BY <1>3 DEF PollIrq
<1>4. CASE PollIdle \/ ClearIrq \/ wait_idle
  BY <1>4 DEF PollIdle, ClearIrq, wait_idle, Restarting
<1>5. CASE run_clocks
  BY <1>5 DEF run_clocks, Restarting
<1>6. CASE PulseEnd
  BY <1>ring, <1>6, <1>next DEF PulseEnd
<1>7. CASE HostPause
  BY <1>ring, <1>7 DEF HostPause, hostVars
<1>8. CASE CallReset
  BY <1>ring, <1>8, <1>next DEF CallReset, StartOver
<1>9. CASE PulseBegin
  BY <1>ring, <1>9 DEF PulseBegin, StartOver
<1>10. QED
  BY <1>ring, <1>1, <1>2, <1>3, <1>4, <1>5, <1>6, <1>7, <1>8, <1>9
    DEF HostStep, HostGoesOn, HostActs

\* While the hard reset is being released the bench has written no more words
\* than there were clocks.
LEMMA BootStep ==
  ASSUME HostInv, ModeInv, host_mode = "bench", Restarting, ResetTypeOK, ~hard_rst_n,
         host_pc # "halt" => host_word <= sync_chain, NEW bus, HostStep(bus),
         sync_chain' = sync_chain + 1
  PROVE  host_pc # "ring" /\ (host_pc' # "halt" => host_word' <= sync_chain')
<1> USE HostAssumption, NumWordsAssumption, StagesAssumption
    DEF HostInv, ModeInv, ResetTypeOK, hard_rst_n
<1>ring. host_pc # "ring"
  BY BenchAssumption
<1>next. ASSUME NextCommand PROVE host_word' <= sync_chain'
  BY <1>next DEF NextCommand
<1>1. CASE SubmitWord \/ run_clocks
  BY <1>1 DEF SubmitWord, run_clocks
<1>2. CASE RingDoorbell \/ PollIrq \/ PollIdle \/ ClearIrq \/ wait_idle
  BY <1>2, <1>ring DEF RingDoorbell, PollIrq, PollIdle, ClearIrq, wait_idle, Restarting
<1>3. CASE PulseEnd \/ CallReset
  BY <1>ring, <1>3, <1>next DEF PulseEnd, CallReset
<1>4. CASE HostPause
  BY <1>ring, <1>4 DEF HostPause, hostVars
<1>5. CASE PulseBegin
  BY <1>ring, <1>5 DEF PulseBegin
<1>6. QED
  BY <1>ring, <1>1, <1>2, <1>3, <1>4, <1>5 DEF HostStep, HostGoesOn, HostActs

\* The window keeps what the host has written, in reset too.
LEMMA WindowStep ==
  ASSUME HostInv, WindowInv, cmd_mem \in [WordIdx -> Word],
         NEW bus, HostStep(bus), CmdMemClk(bus)
  PROVE  WindowInv'
<1> SUFFICES ASSUME host_pc' \in {"write", "ring"}, NEW i \in WordIdx, i < host_word'
             PROVE  cmd_mem'[i] = host_id'
  BY DEF WindowInv
<1>next. ~NextCommand
  BY DEF NextCommand, WordIdx
<1>1. CASE SubmitWord /\ bus = WriteCmdWord(host_word, host_id)
  <2>1. cmd_mem' = [cmd_mem EXCEPT ![host_word] = host_id] /\ host_word \in WordIdx
    BY <1>1, NumWordsAssumption DEF CmdMemClk, WriteCmdWord, SubmitWord, HostInv, WordIdx
  <2>2. i = host_word \/ i < host_word
    BY <1>1 DEF SubmitWord, HostInv, WordIdx
  <2>3. QED
    BY <1>1, <2>1, <2>2 DEF SubmitWord, WindowInv
<1>2. CASE HostPause /\ bus = NoWrite
  BY <1>2 DEF HostPause, hostVars, CmdMemClk, NoWrite, WindowInv
<1>3. QED
  BY <1>next, <1>1, <1>2
    DEF HostStep, HostGoesOn, HostActs, RingDoorbell, PollIdle, PollIrq, ClearIrq, run_clocks,
        wait_idle, PulseEnd, CallReset, PulseBegin, HostInv

\* After reset a host that restarts has nothing to show and nobody has failed.
LEMMA RestartPath ==
  ASSUME HostInv', ModeInv', Flushed',
         host_mode' \in {"irq", "bench"} => Restarting'
  PROVE  PathInv'
<1>1. Quiet' /\ FrontIdle' /\ ~pending'
  BY DEF Flushed, Quiet
<1>2. PICK id \in Int : id = host_id'
  BY DEF HostInv
<1>3. host_since' = host_id' => DoneBefore'
  <2> SUFFICES ASSUME host_since' = host_id' PROVE DoneBefore'
    OBVIOUS
  <2>1. PICK n \in Int : n = id - 1
    OBVIOUS
  <2>2. id = n + 1
    BY <2>1
  <2>same. host_since' = id
    BY <1>2
  <2>3. DoneUpTo(n)'
    BY <2>2, <2>same, DoneNone DEF Flushed
  <2>4. QED
    BY <1>2, <2>1, <2>3, DoneNames
<1>4. host_since' = host_id' + 1 => DoneNow'
  <2> SUFFICES ASSUME host_since' = host_id' + 1 PROVE DoneNow'
    OBVIOUS
  <2>1. DoneUpTo(id)'
    BY <1>2, DoneNone DEF Flushed
  <2>2. QED
    BY <1>2, <2>1, DoneNames
<1>5. QED
  BY <1>1, <1>3, <1>4 DEF PathInv, Restarting

\* What is done in two clocks is done in three.
LEMMA WithinMore ==
  ASSUME HostInv', Within(2)'
  PROVE  Within(3)'
<1>1. PICK n \in Nat, h \in Nat : n = PulseClocks /\ h = host_word'
  BY HostAssumption DEF HostInv
<1>2. host_mode' = "bench" =>
        /\ host_pc' = "pulse" => h <= 3
        /\ host_pc' \in {"write", "ring"} => n + 1 + h <= 3
  <2>1. /\ h <= 2 => h <= 3
        /\ n + 1 + h <= 2 => n + 1 + h <= 3
    OBVIOUS
  <2>2. QED
    BY <1>1, <2>1 DEF Within
<1>3. ~(3 < 2) /\ ~(3 < 1)
  OBVIOUS
<1>4. QED
  BY <1>1, <1>2, <1>3 DEF Within

\* Edges in reset.
LEMMA SubmitInReset ==
  ASSUME SubmitInv, ShellInv, ShellInv', ResetTypeOK, InReset, ResetClk(TRUE, soft_reset),
         NEW bus \in BusCycle, HostStep(bus), ShellReset(bus, QuietEnv), Record,
         HostInv', ModeInv'
  PROVE  ResetInv' /\ RestartInv' /\ PathInv'
<1> USE DEF SubmitInv
<1>flush. Flushed'
  BY ResetFlushes
<1>mode. host_mode' = host_mode
  BY ModeStays
<1>1. ResetInv'
  <2>1. ~hard_rst_n' => ~soft_reset_sync1'
    BY SyncStep
  <2>2. QED
    BY <2>1, <1>flush DEF ResetInv, Flushed
<1>soft. ~soft_reset' /\ ~pending'
  BY <1>flush DEF Flushed
<1>2. CASE host_mode \notin {"irq", "bench"}
  BY <1>1, <1>2, <1>mode, <1>flush, RestartPath DEF RestartInv
<1>3. CASE host_mode \in {"irq", "bench"} /\ ~hard_rst_n
  <2>1. /\ Restarting
        /\ host_mode = "bench" /\ host_pc # "halt" => host_word <= sync_chain
    BY <1>3 DEF RestartInv
  <2>2. /\ sync_chain' = sync_chain + 1 /\ ~soft_reset_sync1' /\ ~soft_reset_sync2'
    BY <1>3, SyncStep
  <2>3. host_mode = "bench" => /\ host_pc # "ring"
                               /\ host_pc' # "halt" => host_word' <= sync_chain'
    BY <1>3, <2>1, <2>2, BootStep
  <2>4. Restarting'
    BY <1>3, <1>soft, <2>1, <2>3, RestartingStep
  <2>5. RestartInv'
    BY <1>mode, <1>soft, <2>2, <2>3, <2>4 DEF RestartInv
  <2>6. QED
    BY <1>1, <1>flush, <2>4, <2>5, RestartPath
<1>4. CASE host_mode \in {"irq", "bench"} /\ hard_rst_n
  <2>1. hard_rst_n' /\ (soft_reset_sync1' <=> soft_reset)
        /\ (soft_reset_sync2' <=> soft_reset_sync1) /\ (soft_reset_sync1 \/ soft_reset_sync2)
    BY <1>4, SyncStep
  <2>2. soft_reset_sync2 => ~soft_reset
    BY DEF ResetInv, rst_n
  <2>3. PICK k \in 1 .. 3 : /\ Restarting /\ Within(k)
                            /\ soft_reset_sync1 => k \in {1, 2}
                            /\ soft_reset_sync1 /\ soft_reset => k = 1
    <3>1. CASE soft_reset_sync1 /\ ~soft_reset_sync2
      BY <1>4, <3>1 DEF RestartInv
    <3>2. CASE soft_reset_sync1 /\ soft_reset_sync2
      BY <1>4, <2>2, <3>2 DEF RestartInv
    <3>3. CASE ~soft_reset_sync1 /\ soft_reset_sync2
      <4>1. Restarting /\ Within(3)
        BY <1>4, <3>3 DEF RestartInv
      <4>2. 3 \in 1 .. 3
        OBVIOUS
      <4>3. QED
        BY <3>3, <4>1, <4>2
    <3>4. QED
      BY <2>1, <3>1, <3>2, <3>3
  <2>4. Within(k + 1)' /\ ~(host_mode = "bench" /\ host_pc = "ring")
    BY <1>4, <2>3, WithinStep
  <2>5. Restarting'
    BY <1>4, <1>soft, <2>3, <2>4, RestartingStep
  <2>6. (soft_reset_sync1' /\ soft_reset_sync2' => Within(2)')
        /\ (soft_reset_sync2' => Within(3)')
    <3>1. CASE k = 1
      <4>1. Within(2)'
        BY <2>4, <3>1 DEF Within
      <4>3. Within(3)'
        BY <4>1, WithinMore
      <4>4. QED
        BY <4>1, <4>3
    <3>2. CASE k = 2
      <4>1. Within(3)'
        BY <2>4, <3>2 DEF Within
      <4>2. ~soft_reset_sync1'
        BY <2>1, <2>2, <2>3, <3>2
      <4>3. QED
        BY <4>1, <4>2
    <3>3. CASE k = 3
      <4>1. ~soft_reset_sync2'
        BY <2>1, <2>3, <3>3
      <4>2. QED
        BY <4>1
    <3>4. QED
      BY <3>1, <3>2, <3>3
  <2>7. soft_reset_sync1' => soft_reset_sync2'
    BY <2>1, <2>2
  <2>8. RestartInv'
    BY <1>mode, <1>soft, <2>1, <2>5, <2>6, <2>7 DEF RestartInv
  <2>9. QED
    BY <1>1, <1>flush, <2>5, <2>8, RestartPath
<1>5. QED
  BY <1>2, <1>3, <1>4

\* A host that has just asked for a reset is at a new command.
LEMMA StartsOver ==
  ASSUME HostInv, ModeInv, CallReset \/ PulseBegin
  PROVE  Restarting' /\ Within(0)'
<1> USE HostAssumption DEF HostInv, ModeInv
<1>1. CASE CallReset
  <2>1. /\ host_mode' # "bench" /\ host_pc' \in {"write", "halt"} /\ host_word' = 0
        /\ host_pc' = "write" => host_since' = host_id'
    BY <1>1 DEF CallReset, StartOver, NextCommand
  <2>2. QED
    BY <2>1 DEF Restarting, Within
<1>2. CASE PulseBegin
  <2>1. /\ host_mode' = "bench" /\ host_pc' = "pulse" /\ host_word' = 0
        /\ host_since' = host_id' + 1
    BY <1>2 DEF PulseBegin, StartOver
  <2>2. QED
    BY <2>1 DEF Restarting, Within
<1>3. QED
  BY <1>1, <1>2

\* Edges out of reset.  A soft reset that is asked for dooms what is in the path.
LEMMA SubmitOutOfReset ==
  ASSUME SubmitInv, ShellInv, ShellInv', ResetTypeOK, HistoryTypes, ~InReset,
         ResetClk(TRUE, soft_reset), NEW bus \in BusCycle, HostStep(bus),
         NEW finish \in BOOLEAN, ShellRun(bus, finish, QuietEnv), Record, ~dma_done
  PROVE  ResetInv' /\ RestartInv' /\ (~Doomed' => PathInv')
<1> USE DEF SubmitInv
<1>sync. /\ hard_rst_n' /\ ~soft_reset_sync1 /\ ~soft_reset_sync2
         /\ soft_reset_sync1' <=> soft_reset
         /\ ~soft_reset_sync2'
  BY SyncStep
<1>soft. CASE soft_reset
  <2>1. Doomed'
    BY <1>soft, <1>sync DEF Doomed
  <2>2. ASSUME host_mode \in {"irq", "bench"} PROVE Restarting' /\ Within(1)'
    <3>1. Restarting /\ Within(0)
      BY <2>2, <1>soft, <1>sync DEF RestartInv
    <3>2. PICK k \in 0 .. 3 : k = 0
      OBVIOUS
    <3>3. Within(k)
      BY <3>1, <3>2
    <3>4. Within(k + 1)' /\ ~(host_mode = "bench" /\ host_pc = "ring")
      BY <2>2, <3>1, <3>3, WithinStep
    <3>5. host_pc # "irq"
      BY <3>1 DEF Within, ModeInv
    <3>6. Restarting'
      BY <2>2, <3>1, <3>4, <3>5, RestartingStep
    <3>7. QED
      BY <3>2, <3>4, <3>6 DEF Within
  <2>3. host_mode' = host_mode
    BY ModeStays
  <2>4. ResetInv' /\ RestartInv'
    BY <1>soft, <1>sync, <2>2, <2>3 DEF ResetInv, RestartInv, rst_n
  <2>5. QED
    BY <2>1, <2>4
<1>run. CASE ~soft_reset
  <2>1. CASE HostGoesOn(bus)
    <3>1. ~soft_reset'
      BY <1>run, <2>1
        DEF soft_reset, ShellRun, RegBlockClk, ControlRegsClk, HostGoesOn, HostActs, NoWrite,
            WriteDoorbell, WriteIrqClear, WriteCtrl, WriteCmdWord
    <3>2. GoesOn(bus)
      <4>1. QuietEnv \in Env
        BY DEF QuietEnv, Env
      <4>2. RunEdge(bus)
        BY <4>1 DEF RunEdge
      <4>3. QED
        BY <1>run, <1>sync, <2>1, <4>2 DEF GoesOn, Doomed
    <3>3. PathInv'
      BY <3>2, PathStep
    <3>4. ResetInv' /\ RestartInv'
      BY <1>run, <1>sync, <3>1 DEF ResetInv, RestartInv, rst_n
    <3>5. QED
      BY <3>3, <3>4
  <2>2. CASE (CallReset \/ PulseBegin) /\ bus = WriteCtrl({"SOFT_RESET"})
    <3>1. soft_reset'
      BY <2>2 DEF soft_reset, ShellRun, RegBlockClk, ControlRegsClk, WriteCtrl
    <3>2. Doomed'
      BY <3>1 DEF Doomed
    <3>3. Restarting' /\ Within(0)'
      BY <2>2, StartsOver
    <3>4. ResetInv' /\ RestartInv'
      BY <1>run, <1>sync, <3>3 DEF ResetInv, RestartInv, rst_n
    <3>5. QED
      BY <3>2, <3>4
  <2>3. QED
    BY <2>1, <2>2 DEF HostStep
<1>1. QED
  BY <1>soft, <1>run

-----------------------------------------------------------------------------
(***************************************************************************)
(* The invariant, and what follows from it.                                *)
(***************************************************************************)
LEMMA SubmitInit == Init => SubmitInv
<1> SUFFICES ASSUME Init PROVE SubmitInv
  OBVIOUS
<1>1. HostInv /\ ModeInv
  BY HostInvInit
<1>2. DmaIdle
  BY DEF Init, ShellInit, PathInit, RegBlockInit, DmaInit, IdleEngine, DmaIdle
<1>3. /\ ~hard_rst_n /\ ~soft_reset /\ ~soft_reset_sync1 /\ ~soft_reset_sync2
      /\ sync_chain = 0 /\ host_word = 0
      /\ host_pc = "write" /\ host_since = host_id /\ host_id = 1
  BY StagesAssumption
    DEF Init, ShellInit, PathInit, ResetInit, RegBlockInit, hard_rst_n, soft_reset
<1>4. Quiet /\ ~pending /\ ~irq_clear_r /\ retired = <<>>
  <2>1. QueueInv /\ Occupancy = 0
    BY ShellInvInit DEF Init, ShellInit, PathInit, ShellInv, Occupancy
  <2>2. Contents = <<>>
    BY <2>1, ContentsSeq DEF ContentsShape
  <2>3. QED
    BY <2>2 DEF Init, ShellInit, PathInit, RegBlockInit, FetchInit, DecodeInit, SchedInit, IrqInit,
                Quiet, FrontIdle, BackIdle
<1>5. ResetInv
  BY <1>3, <1>4 DEF ResetInv
<1>6. RestartInv
  BY <1>3 DEF RestartInv, Restarting
<1>7. WindowInv
  BY <1>3, NumWordsAssumption DEF WindowInv, WordIdx
<1>8. DoneBefore
  <2>1. host_since .. host_id - 1 = {}
    BY <1>3
  <2>2. DOMAIN retired = {}
    BY <1>4
  <2>3. {retired[i] : i \in DOMAIN retired}
            = {Whole(k) : k \in (host_since .. host_id - 1) \cap ValidWord}
    BY <2>1, <2>2
  <2>4. QED
    BY <2>1, <2>2, <2>3 DEF DoneBefore, DoneUpTo
<1>9. PathInv
  BY <1>3, <1>4, <1>8 DEF PathInv, Quiet
<1>10. QED
  BY <1>1, <1>2, <1>5, <1>6, <1>7, <1>9 DEF SubmitInv

\* Every step of host and device keeps the invariant,
LEMMA SubmitStep ==
  ASSUME SubmitInv, ShellInv, ShellInv', ResetTypeOK, HistoryTypes, Next
  PROVE  SubmitInv'
<1>1. PICK finish \in BOOLEAN, bus \in BusCycle :
          ShellClk(bus, finish, QuietEnv) /\ HostStep(bus) /\ Record
  BY DEF Next, Step
<1>2. HostInv' /\ ModeInv'
  BY <1>1, HostInvStep DEF SubmitInv
<1>3. DmaIdle' /\ ~dma_done
  BY <1>1, DmaStaysIdle DEF SubmitInv
<1>4. WindowInv'
  <2>1. CmdMemClk(bus)
    BY <1>1 DEF ShellClk, ShellRun, ShellReset, RegBlockClk, RegBlockReset
  <2>2. cmd_mem \in [WordIdx -> Word]
    BY DEF ShellInv, FetchInv, RegBlockTypeOK
  <2>3. QED
    BY <1>1, <2>1, <2>2, WindowStep DEF SubmitInv
<1>5. ResetClk(TRUE, soft_reset)
  BY <1>1 DEF ShellClk
<1>6. ResetInv' /\ RestartInv' /\ (~Doomed' => PathInv')
  <2>1. CASE InReset
    BY <1>1, <1>2, <1>5, <2>1, SubmitInReset DEF ShellClk
  <2>2. CASE ~InReset
    BY <1>1, <1>3, <1>5, <2>2, SubmitOutOfReset DEF ShellClk
  <2>3. QED
    BY <2>1, <2>2
<1>7. QED
  BY <1>2, <1>3, <1>4, <1>6 DEF SubmitInv

\* and so does a stuttering step.
LEMMA SubmitStutters ==
  ASSUME SubmitInv, UNCHANGED vars
  PROVE  SubmitInv'
<1> USE DEF vars, hostVars, historyVars, shellVars, regVars, dmaRegVars, fetchVars, decodeVars,
            queueVars, schedVars, backendVars, dmaVars, resetVars
<1>1. HostInv' /\ ModeInv' /\ WindowInv' /\ DmaIdle'
  BY DEF SubmitInv, HostInv, ModeInv, WindowInv, DmaIdle
<1>2. (FrontIdle' <=> FrontIdle) /\ (BackIdle' <=> BackIdle) /\ (Quiet' <=> Quiet)
  BY DEF Quiet, FrontIdle, BackIdle, Contents, Occupancy
<1>3. ResetInv' /\ RestartInv'
  BY <1>2 DEF SubmitInv, ResetInv, RestartInv, Restarting, Within, hard_rst_n, rst_n, soft_reset
<1>4. (DoneBefore' <=> DoneBefore) /\ (DoneNow' <=> DoneNow)
  BY DEF DoneBefore, DoneNow, DoneUpTo, Whole
<1>5. (OnItsWay' <=> OnItsWay) /\ (InTime' <=> InTime)
  BY <1>2 DEF OnItsWay, InTime, Stage, Ringing, Reading, Arriving, Fetching, Checking, Offering,
         Queued, Issuing, Running, FrontIdle, BackIdle, Contents, Occupancy
<1>6. PathInv' <=> PathInv
  BY <1>2, <1>4, <1>5 DEF PathInv
<1>7. Doomed' <=> Doomed
  BY DEF Doomed, soft_reset
<1>8. QED
  BY <1>1, <1>3, <1>6, <1>7 DEF SubmitInv

\* Where the host and the path are, in every reachable state.
THEOREM HostAndPath == Spec => []SubmitInv
<1>1. SubmitInv /\ ShellInv /\ ShellInv' /\ TypeOK /\ [Next]_vars => SubmitInv'
  <2> SUFFICES ASSUME SubmitInv, ShellInv, ShellInv', TypeOK, [Next]_vars PROVE SubmitInv'
    OBVIOUS
  <2>1. ResetTypeOK /\ HistoryTypes
    BY DEF TypeOK, ShellTypeOK, HistoryTypes
  <2>2. CASE Next
    BY <2>1, <2>2, SubmitStep
  <2>3. CASE UNCHANGED vars
    BY <2>3, SubmitStutters
  <2>4. QED
    BY <2>2, <2>3
<1>2. QED
  BY <1>1, SubmitInit, SubmitTypes, SubmitUsesShell, ShellInvariant, PTL DEF Spec

\* A host that is writing is not about to see its path swept out.
LEMMA WritingIsSafe == SubmitInv /\ Writing => PathInv
  BY DEF SubmitInv, Writing, Doomed

\* An interrupt, or wait_idle after run_clocks, means that the command is done:
\* whenever such a host writes a descriptor, the commands since the last reset
\* have all been executed untorn, once and in order, or refused.
THEOREM ReportedIsDone == Spec => []ReportedMeansDone
<1>1. SubmitInv => ReportedMeansDone
  <2> SUFFICES ASSUME SubmitInv, host_mode \in {"irq", "bench"}, Writing
               PROVE  DoneUpTo(host_id - 1)
    BY DEF ReportedMeansDone, CompletionMeansDone
  <2>1. PathInv
    BY WritingIsSafe
  <2>2. QED
    BY <2>1 DEF PathInv, DoneBefore, Writing
<1>2. QED
  BY <1>1, HostAndPath, PTL

\* No way of waiting, npu_poll_idle included, lets the host write into a window
\* that is still being fetched; and a host that waits for its interrupt, or as
\* the bench does, writes its next descriptor when nothing is left of the one
\* before, given up or not.
THEOREM PathIsQuiet == Spec => []QuietWhileWriting
<1>1. ASSUME SubmitInv, host_mode # "free", Writing
      PROVE  PathInv /\ FrontIdle /\ ~fetch_busy /\ ~doorbell_r /\ ~decode_busy
  <2>1. PathInv /\ host_mode \in {"poll", "irq", "bench"}
    BY <1>1, WritingIsSafe, HostAssumption DEF SubmitInv, HostInv
  <2>2. FrontIdle
    BY <1>1, <2>1 DEF PathInv, Writing, Quiet
  <2>3. QED
    BY <2>1, <2>2 DEF FrontIdle, fetch_busy, decode_busy
<1>2. ASSUME SubmitInv, ShellInv, host_mode \in {"irq", "bench"}, Writing
      PROVE  /\ empty
             /\ sched_state = "S_IDLE" /\ ~be_busy
             /\ host_mode = "irq" /\ pending => irq_clear_r
  <2>1. PathInv
    BY <1>1, <1>2
  <2>2. Contents = <<>> /\ sched_state = "S_IDLE"
        /\ (host_mode = "irq" /\ pending => irq_clear_r)
    BY <1>2, <2>1 DEF PathInv, Writing, Quiet, BackIdle
  <2>3. empty
    BY <1>2, <2>2, QueueOutput DEF ShellInv
  <2>4. ~be_busy
    BY <1>2, <2>2 DEF ShellInv, ComputeInv, BackendsServe, be_busy
  <2>5. QED
    BY <2>2, <2>3, <2>4
<1>3. SubmitInv /\ ShellInv => QuietWhileWriting
  BY <1>1, <1>2 DEF QuietWhileWriting
<1>4. QED
  BY <1>3, HostAndPath, SubmitUsesShell, ShellInvariant, PTL
=============================================================================
