------------------------------- MODULE NpuCore -------------------------------
(***************************************************************************)
(* rtl/core/npu_core.sv with a multiply-accumulate backend and the vector  *)
(* backend rtl/backends/vec/vec_ctrl.sv behind the scheduler: dispatch by  *)
(* opcode, the registered selector be_sel_r of the memory ports, and the   *)
(* ports themselves (npu_buffer_router.sv, npu_act_buffer.sv,              *)
(* npu_weight_buffer.sv), which grant every request of the selected        *)
(* backend and answer a read in the next cycle.                            *)
(*                                                                         *)
(* The command queue in front is any source of commands that leaves at     *)
(* least Gap cycles between a done pulse and the next command: none when   *)
(* commands are queued up, at least the fetch of a descriptor when the     *)
(* host waits for each completion.                                         *)
(***************************************************************************)
EXTENDS MacBackend, Scheduler, SequencesExt

CONSTANTS
    IsVec(_),       \* the command's opcode is OP_VEC
    Gap,
    MaxCmds         \* bound: commands issued

ASSUME CoreAssumption == Gap \in Nat /\ MaxCmds \in Nat \ {0}

VARIABLES
    vec,            \* vec_ctrl: state, cmd_r, idx, a_gnt, b_gnt, a, b
    be_sel_r,       \* "mac" or "vec"
    act_rsp,        \* the address an activation read answers now, if any
    wt_rsp,         \* the same for the weight buffer
    bias_was_sel,   \* the weight buffer's answer is for the bias port
    bias_pending_r, \* a bias read that collided with a weight read
    since_done,     \* cycles since the last done pulse, at most Gap
    issued,         \* history: the commands taken from the queue
    expected,       \* history: the results they are to write, in order
    written         \* history: the results written, in order

coreVars == <<vec, be_sel_r, act_rsp, wt_rsp, bias_was_sel, bias_pending_r>>
vars == <<macVars, schedVars, coreVars, since_done, issued, expected, written>>

vec_ready == vec.state = "S_IDLE"
vec_done == vec.state = "S_DONE"
be_done == mac_done \/ vec_done

\* npu_dispatch: the command goes to the backend of its opcode.
mac_cmd_valid == dispatch_valid /\ ~IsVec(sched_cmd_r)
vec_cmd_valid == dispatch_valid /\ IsVec(sched_cmd_r)
dispatch_ready == IF IsVec(sched_cmd_r) THEN vec_ready ELSE mac_cmd_ready

-----------------------------------------------------------------------------
(***************************************************************************)
(* The memory ports.  Only the selected backend's requests reach them and  *)
(* only the backend selected when the answer comes gets it.                *)
(***************************************************************************)
For(be, rsp) == IF be_sel_r = be THEN rsp ELSE Nothing

vec_addr == Operand(vec.cmd_r, vec.idx, 0)
vec_a_req == vec.state = "S_READ" /\ ~vec.a_gnt
vec_b_req == vec.state = "S_READ" /\ ~vec.b_gnt

be_act_req == IF be_sel_r = "mac" THEN act_rd_req ELSE vec_a_req
be_wt_req == IF be_sel_r = "mac" THEN wt_rd_req ELSE vec_b_req
be_bias_req == be_sel_r = "mac" /\ bias_rd_req
be_addr == IF be_sel_r = "mac" THEN ld.addr ELSE vec_addr

\* Weight and bias reads share a port; a bias read that finds it taken waits.
wt_issue_bias == bias_pending_r # Nothing \/ (be_bias_req /\ ~be_wt_req)
be_wt_gnt == be_wt_req /\ ~wt_issue_bias

RouterClk ==
    /\ act_rsp' = IF be_act_req THEN <<be_addr>> ELSE Nothing
    /\ wt_rsp' = CASE wt_issue_bias -> IF bias_pending_r # Nothing THEN bias_pending_r
                                       ELSE <<load_r.bias>>
                   [] ~wt_issue_bias /\ be_wt_req -> <<be_addr>>
                   [] OTHER -> Nothing
    /\ bias_was_sel' = IF be_wt_req \/ wt_issue_bias THEN wt_issue_bias ELSE bias_was_sel
    /\ bias_pending_r' = CASE wt_issue_bias -> Nothing
                           [] ~wt_issue_bias /\ be_bias_req /\ be_wt_req -> <<load_r.bias>>
                           [] OTHER -> bias_pending_r

wt_rsp_data == IF bias_was_sel THEN Nothing ELSE wt_rsp
bias_rsp_data == IF bias_was_sel THEN wt_rsp ELSE Nothing

macPort ==
    [act_gnt |-> be_sel_r = "mac" /\ act_rd_req,
     wt_gnt |-> be_sel_r = "mac" /\ be_wt_gnt,
     act_rsp |-> For("mac", act_rsp),
     wt_rsp |-> For("mac", wt_rsp_data),
     bias_rsp |-> For("mac", bias_rsp_data),
     wr_gnt |-> be_sel_r = "mac" /\ out_wr_req]

\* Mutant: the ports stay with the first backend.
SelectClkStuck == UNCHANGED be_sel_r

SelectClk ==
    be_sel_r' = CASE vec_cmd_valid /\ vec_ready -> "vec"
                  [] mac_cmd_valid /\ mac_cmd_ready -> "mac"
                  [] OTHER -> be_sel_r

-----------------------------------------------------------------------------
(***************************************************************************)
(* The vector backend: read two operands, write one result, element by     *)
(* element.                                                                *)
(***************************************************************************)
VecAccept ==
    /\ vec.state = "S_IDLE" /\ vec_cmd_valid
    /\ vec' = [vec EXCEPT !.state = "S_LOAD_CFG", !.cmd_r = sched_cmd_r]

VecLoadCfg ==
    /\ vec.state = "S_LOAD_CFG"
    /\ vec' = [vec EXCEPT !.state = "S_READ", !.idx = 0, !.a_gnt = FALSE,
                          !.b_gnt = FALSE, !.a = Nothing, !.b = Nothing]

VecRead ==
    /\ vec.state = "S_READ"
    /\ LET a == vec.a_gnt \/ (be_sel_r = "vec" /\ vec_a_req)
           b == vec.b_gnt \/ (be_sel_r = "vec" /\ be_wt_gnt)
       IN  vec' = [vec EXCEPT !.a_gnt = a, !.b_gnt = b,
                              !.state = IF a /\ b THEN "S_WAIT" ELSE @]

VecWait ==
    /\ vec.state = "S_WAIT"
    /\ LET a == IF For("vec", act_rsp) # Nothing THEN act_rsp ELSE vec.a
           b == IF For("vec", wt_rsp_data) # Nothing THEN wt_rsp ELSE vec.b
       IN  vec' = [vec EXCEPT !.a = a, !.b = b,
                              !.state = IF a # Nothing /\ b # Nothing THEN "S_WRITE" ELSE @]

VecWrite ==
    /\ vec.state = "S_WRITE" /\ be_sel_r = "vec"
    /\ vec' = [vec EXCEPT !.state = IF vec.idx = Outs(vec.cmd_r) - 1 THEN "S_DONE"
                                    ELSE "S_READ",
                          !.idx = @ + 1, !.a_gnt = FALSE, !.b_gnt = FALSE,
                          !.a = Nothing, !.b = Nothing]

VecDone ==
    /\ vec.state = "S_DONE"
    /\ vec' = [vec EXCEPT !.state = "S_IDLE"]

VecHold ==
    /\ \/ vec.state = "S_IDLE" /\ ~vec_cmd_valid
       \/ vec.state = "S_WRITE" /\ be_sel_r # "vec"
    /\ UNCHANGED vec

VecClk == VecAccept \/ VecLoadCfg \/ VecRead \/ VecWait \/ VecWrite \/ VecDone \/ VecHold

-----------------------------------------------------------------------------
\* What is written into the activation buffer on this edge.
Write ==
    CASE be_sel_r = "mac" /\ out_wr_req -> <<[addr |-> writer.addr, data |-> writer.data]>>
      [] be_sel_r = "vec" /\ vec.state = "S_WRITE" ->
            <<[addr |-> Element(vec.cmd_r, vec.idx), data |-> vec.a \o vec.b]>>
      [] OTHER -> <<>>

\* The results a command is to write.
VecExpected(c) ==
    [o \in 1 .. Outs(c) |->
        [addr |-> Element(c, o - 1),
         data |-> <<Operand(c, o - 1, 0), Operand(c, o - 1, 0)>>]]

ExpectedOf(c) == IF IsVec(c) THEN VecExpected(c) ELSE Expected(c)

\* The queue in front of the scheduler.
Offer(queue_valid, queue_cmd) ==
    queue_valid => /\ Len(issued) < MaxCmds
                   /\ since_done = Gap
                   /\ queue_cmd \notin Range(issued) \cup {ZeroCmd}

CoreClk(queue_valid, queue_cmd) ==
    /\ Offer(queue_valid, queue_cmd)
    /\ SchedClk(queue_valid, queue_cmd, dispatch_ready, be_done)
    /\ MacClk(sched_cmd_r, mac_cmd_valid, macPort)
    /\ VecClk
    /\ SelectClk
    /\ RouterClk
    /\ since_done' = IF be_done THEN 0 ELSE IF since_done < Gap THEN since_done + 1
                                       ELSE since_done
    /\ IF queue_valid /\ queue_ready
       THEN /\ issued' = Append(issued, queue_cmd)
            /\ expected' = expected \o ExpectedOf(queue_cmd)
       ELSE UNCHANGED <<issued, expected>>
    /\ written' = written \o Write

Init ==
    /\ MacInit /\ SchedInit
    /\ vec = [state |-> "S_IDLE", cmd_r |-> ZeroCmd, idx |-> 0, a_gnt |-> FALSE,
              b_gnt |-> FALSE, a |-> Nothing, b |-> Nothing]
    /\ be_sel_r = "mac"
    /\ act_rsp = Nothing /\ wt_rsp = Nothing
    /\ bias_was_sel = FALSE /\ bias_pending_r = Nothing
    /\ since_done = Gap
    /\ issued = <<>> /\ expected = <<>> /\ written = <<>>

Next ==
    \/ CoreClk(FALSE, ZeroCmd)
    \/ \E c \in Cmd : CoreClk(TRUE, c)

Spec == Init /\ [][Next]_vars

\* The clock runs.
FairSpec == Spec /\ WF_vars(Next)

-----------------------------------------------------------------------------
\* Every result is written once, in order, and is made of the right products,
\* bias, activation mode and shift: the metadata registers of the pipeline stay
\* in step with its data, no product or trigger is lost to the stage behind it,
\* and nothing of one command leaks into the results of another.
ResultsCorrect == IsPrefix(written, expected)

\* The next command finds the results of the earlier ones written: what is left
\* to write is its own.
DrainedByNextCommand ==
    dispatch_valid => expected = written \o ExpectedOf(Last(issued))

\* What npu_buffer_router.sv says of its shared port: weight and bias reads are
\* never simultaneous by construction.
PortNeverContended == ~(be_wt_req /\ be_bias_req) /\ bias_pending_r = Nothing

\* What conv_backend.sv and docs/arch/compute_dataflow.md say of done: it comes
\* when the last output element has been written.
DoneMeansWritten == mac_done => written = expected

\* Every command that is issued gets its results written.
AllGetWritten == <>[](written = expected /\ sched_state = "S_IDLE")
=============================================================================
