------------------------------ MODULE NpuShell ------------------------------
(***************************************************************************)
(* rtl/core/npu_shell.sv: register file, reset, DMA, fetch, decode, queue, *)
(* scheduler, backends, status and interrupt, wired as in the shell and    *)
(* stepped together by one clock edge.                                     *)
(***************************************************************************)
EXTENDS Integers, Sequences, CmdFetch, CmdDecode, NpuQueue, Scheduler,
        SerialBackend, IrqCtrl, ResetCtrl, DmaFrontend

\* A command is a whole descriptor, and the zero command the reset value.
ASSUME CmdAssumption ==
    /\ Cmd = [WordIdx -> Word]
    /\ ZeroCmd = [i \in WordIdx |-> 0]

ASSUME RouteAssumption == \A c \in Cmd : Route(c) \in Backend

\* A descriptor all of whose words belong to the command with that number.
Whole(id) == [i \in WordIdx |-> id]

shellVars == <<regVars, fetchVars, decodeVars, queueVars, schedVars,
               backendVars, dmaVars, pending, resetVars>>

\* Mutant: the command pipeline is left out of the idle status.
core_idleNoPipe == ~be_busy /\ ~dma_busy /\ empty

\* rtl/core/npu_status.sv; cmd_pipe_busy is fetch or decode.
core_idle == ~be_busy /\ ~dma_busy /\ empty /\ ~(fetch_busy \/ decode_busy)
core_busy == be_busy \/ dma_busy

\* What rings in the host's interrupt line.
irq == irq_out(irq_enable)

-----------------------------------------------------------------------------
\* One edge out of reset: every block sees the others' outputs before the edge.
\* env is what the surroundings do on it: accept and answer of the external
\* memory, and contended, a backend's write to the buffer the port wants.
ShellRun(bus, finish, env) ==
    /\ RegBlockClk(bus, cmd_rd_req, word_cnt)
    /\ FetchClk(doorbell_r, fetch_rvalid_r)
    /\ DecodeClk(desc_word_valid(fetch_rvalid_r), word_cnt, fetch_rdata_r,
                 desc_done(fetch_rvalid_r), ~full)
    /\ QueueClk(cmd_valid, decode_cmd_r, queue_ready)
    /\ SchedClk(~empty, rd_data, be_ready(sched_cmd_r), be_done)
    /\ BackendClk(dispatch_valid, sched_cmd_r, finish)
    /\ DmaClk(bus, env.accept, env.answer, env.contended)
    /\ IrqClk(be_done \/ dma_done, decode_err, irq_clear_r)

ShellReset(bus, env) ==
    /\ RegBlockReset(bus)
    /\ FetchReset
    /\ DecodeReset
    /\ QueueReset(cmd_valid /\ rst_n, decode_cmd_r)
    /\ SchedReset
    /\ BackendReset
    /\ DmaReset(bus, env.accept, env.contended)
    /\ IrqReset

\* One clock edge with the given bus cycle.  The platform reset is only
\* asserted at power-on.
ShellClk(bus, finish, env) ==
    /\ ResetClk(TRUE, soft_reset)
    /\ \/ InReset /\ ShellReset(bus, env)
       \/ ~InReset /\ ShellRun(bus, finish, env)

\* Power-on.  The memories are not reset either; QueueSpec is about a ring
\* with any contents, here it starts with zeros.
PathInit ==
    /\ RegBlockInit
    /\ FetchInit
    /\ DecodeInit
    /\ mem = [s \in 0 .. DEPTH - 1 |-> ZeroCmd] /\ wr_ptr = 0 /\ rd_ptr = 0
    /\ SchedInit
    /\ BackendInit
    /\ IrqInit

ShellInit ==
    /\ PathInit
    /\ DmaInit([a \in BufAddr |-> 0], [a \in ExtAddr |-> 0])
    /\ ResetInit

\* The shell on its own: any bus cycle, any backend and memory timing.
Bus ==
    {NoWrite, WriteDoorbell, WriteIrqClear}
        \cup {WriteCtrl(bits) : bits \in SUBSET {"SOFT_RESET", "ENABLE"}}
        \cup {WriteIrqEnable(on) : on \in BOOLEAN}
        \cup {WriteCmdWord(i, w) : i \in WordIdx, w \in Word}
        \cup {WriteDma(reg, val) : reg \in {"DMA_EXT_ADDR", "DMA_LOC_ADDR", "DMA_LEN"},
                                   val \in Nat}
        \cup [reg : {"DMA_CTRL"}, start : BOOLEAN, dir : BOOLEAN]
        \cup {WriteBuf(a, d) : a \in BufAddr, d \in Data}

Env == [accept : BOOLEAN, answer : BOOLEAN, contended : BOOLEAN]

ShellNext == \E bus \in Bus, finish \in BOOLEAN, env \in Env :
                 ShellClk(bus, finish, env)

ShellSpec == ShellInit /\ [][ShellNext]_shellVars

\* Type invariant of the command path.
ShellTypeOK ==
    /\ RegBlockTypeOK
    /\ FetchTypeOK
    /\ DecodeTypeOK
    /\ QueueTypeOK
    /\ SchedTypeOK
    /\ BackendTypeOK
    /\ DmaTypeOK
    /\ pending \in BOOLEAN
    /\ ResetTypeOK

-----------------------------------------------------------------------------
(***************************************************************************)
(* Properties of the command path, whatever the host does.                 *)
(***************************************************************************)

\* At most one backend works at a time, it is the one that owns the memory
\* ports, and it works on the command the scheduler holds in S_WAIT: the
\* assertion "multiple backends busy simultaneously" of npu_core.sv, and what
\* the registered memory mux relies on.  And the scheduler never waits without
\* one that works for it: a command that was issued has a done to come.
OneBackendAtATime ==
    /\ \A b \in Backend : be_state[b] # "S_IDLE" =>
        /\ be_sel_r = b
        /\ sched_state = "S_WAIT"
        /\ be_cmd_r[b] = sched_cmd_r
        /\ \A other \in Backend \ {b} : be_state[other] = "S_IDLE"
    /\ sched_state = "S_WAIT" => be_state[Route(sched_cmd_r)] # "S_IDLE"

\* The fetch FSM never waits for a word that is not coming: the read port
\* answers in exactly the cycle S_WAIT looks at it, and only then.
FetchPortInStep == fetch_rvalid_r <=> fetch_state = "S_WAIT"

\* No bad opcode gets past the decoder: what waits in the queue, is being
\* dispatched or runs has a valid first word.
OnlyValidCommands ==
    /\ \A i \in 1 .. Occupancy : Contents[i][0] \in ValidWord
    /\ sched_state # "S_IDLE" => sched_cmd_r[0] \in ValidWord

\* A complete descriptor is dropped only under back-pressure: npu_cmd_decode
\* ignores desc_done outside S_IDLE, and the only way to be outside S_IDLE then
\* is to hold a command that a full queue has refused (in the last such cycle
\* the scheduler has already made room, and the drop still happens).
DropsOnlyUnderBackpressure ==
    desc_done(fetch_rvalid_r) /\ decode_busy =>
        cmd_valid /\ Occupancy >= DEPTH - 1
=============================================================================
