------------------------------ MODULE Backends ------------------------------
(***************************************************************************)
(* The six backends of rtl/core/npu_core.sv on real bytes, behind the      *)
(* scheduler and the dispatcher and over the same two local buffers, next  *)
(* to the reference functions of the integration tests.  The backend that  *)
(* took the last command has the ports; the others are idle.               *)
(*                                                                         *)
(* The done of convolution and GEMM comes before their last results are    *)
(* written.  Here the next command comes after them, from a host that      *)
(* waits for one command before it gives the next; NpuCore has the timing  *)
(* of that, and what a command meets that comes earlier.                   *)
(***************************************************************************)
EXTENDS VecCtrl, SoftmaxCtrl, LnormCtrl, PoolCtrl, MacLoop, Scheduler

CONSTANTS
    Memories,       \* pairs of initial contents of the two buffers
    MaxCommands     \* bound: commands issued

VARIABLES
    be_sel_r,
    be_cmd_r,       \* history: the command each backend took last,
    snap,           \* the buffers' contents when the last one was taken,
    issued          \* and the number of commands

ctrlVars == <<vec, smax, ln, pl, cv, gm>>
vars == <<portVars, ctrlVars, schedVars, be_sel_r, be_cmd_r, snap, issued>>

Backend == {"conv", "gemm", "softmax", "vec", "lnorm", "pool"}

Ref == INSTANCE RefOps

\* npu_dispatch: an opcode without a backend of its own goes to convolution.
Route(cmd) ==
    CASE cmd.opcode = opcode_e.OP_GEMM -> "gemm"
      [] cmd.opcode = opcode_e.OP_SOFTMAX -> "softmax"
      [] cmd.opcode = opcode_e.OP_VEC -> "vec"
      [] cmd.opcode = opcode_e.OP_LNORM -> "lnorm"
      [] cmd.opcode = opcode_e.OP_POOL -> "pool"
      [] OTHER -> "conv"

int8 == -128 .. 127

\* The fields of conv_cmd_t, and the bytes of the buffers, have their width.
ASSUME CmdTypeAssumption ==
    /\ Cmd \subseteq [opcode : Nat, act_in_addr : Addresses, act_out_addr : Addresses,
                      weight_addr : Addresses, bias_addr : Addresses,
                      in_h : Addresses, in_w : Addresses, in_c : Addresses,
                      out_k : Addresses, filt_r : Addresses, filt_s : Addresses,
                      stride_h : Addresses, stride_w : Addresses,
                      pad_h : Addresses, pad_w : Addresses,
                      out_h : Addresses, out_w : Addresses, quant_shift : Nat, act_mode : Nat]
    /\ \A cmd \in Cmd : 2^cmd.quant_shift > 0
    /\ \A m \in Memories : m[1] \in [Addresses -> int8] /\ m[2] \in [Addresses -> int8]

\* A command has something to compute: a counter does not meet a dimension of
\* 0 less 1 (the outer two of a convolution, which are cut to DIM_W bits, meet
\* it after 2^DIM_W rounds).
ASSUME ExtentAssumption ==
    \A cmd \in Cmd \ {ZeroCmd} :
        /\ Route(cmd) = "conv" => cmd.out_h > 0 /\ cmd.out_w > 0 /\ cmd.out_k > 0
        /\ Route(cmd) \in {"gemm", "lnorm"} => cmd.in_h > 0 /\ cmd.in_w > 0

ctrl_state ==
    [conv |-> cv.state, gemm |-> gm.state, softmax |-> smax.state,
     vec |-> vec.state, lnorm |-> ln.state, pool |-> pl.state]

\* cmd_ready of each backend.
be_ready(b) == ctrl_state[b] \in {"IDLE", "S_IDLE"}

\* be_done and be_busy by backend.
be_done(b) ==
    CASE b = "conv" -> mac_done(cv)
      [] b = "gemm" -> mac_done(gm)
      [] OTHER -> ctrl_state[b] = "S_DONE"

be_busy(b) ==
    CASE b = "conv" -> mac_busy(cv)
      [] b = "gemm" -> mac_busy(gm)
      [] OTHER -> ctrl_state[b] # "S_IDLE"

\* The backend has results to write that its done does not wait for.
InFlight(b) ==
    CASE b = "conv" -> in_flight(cv)
      [] b = "gemm" -> in_flight(gm)
      [] OTHER -> FALSE

Init ==
    /\ \E m \in Memories : act = m[1] /\ wt = m[2]
    /\ PortsInit
    /\ VecInit /\ SmaxInit /\ LnormInit /\ PoolInit /\ MacLoopInit
    /\ SchedInit
    /\ be_sel_r = "conv"
    /\ be_cmd_r = [b \in Backend |-> ZeroCmd]
    /\ snap = [act |-> act, wt |-> wt]
    /\ issued = 0

\* The queue gives the scheduler a command, or has none.  The host has waited
\* for the results of the last one.
Take(cmd) ==
    /\ issued < MaxCommands
    /\ ~ InFlight(be_sel_r)
    /\ issued' = issued + 1
    /\ SchedTake(TRUE, cmd)
    /\ NoAccess
    /\ UNCHANGED <<ctrlVars, be_sel_r, be_cmd_r, snap>>

NoCommand ==
    /\ sched_state = "S_IDLE"
    /\ SchedHold(FALSE, FALSE, FALSE)
    /\ NoAccess
    /\ UNCHANGED <<ctrlVars, be_sel_r, be_cmd_r, snap, issued>>

\* The selected backend's controller latches its view of the command.
Accept(b, cmd) ==
    \/ b = "conv" /\ ConvAccept(cmd) /\ UNCHANGED <<vec, smax, ln, pl, gm>>
    \/ b = "gemm" /\ GemmAccept(conv_to_gemm_cmd(cmd)) /\ UNCHANGED <<vec, smax, ln, pl, cv>>
    \/ b = "softmax" /\ SmaxAccept(conv_to_softmax_cmd(cmd)) /\ UNCHANGED <<vec, ln, pl, cv, gm>>
    \/ b = "vec" /\ VecAccept(conv_to_vec_cmd(cmd)) /\ UNCHANGED <<smax, ln, pl, cv, gm>>
    \/ b = "lnorm" /\ LnormAccept(conv_to_lnorm_cmd(cmd)) /\ UNCHANGED <<vec, smax, pl, cv, gm>>
    \/ b = "pool" /\ PoolAccept(conv_to_pool_cmd(cmd)) /\ UNCHANGED <<vec, smax, ln, cv, gm>>

Dispatch ==
    /\ dispatch_valid
    /\ LET b == Route(sched_cmd_r)
       IN /\ Accept(b, sched_cmd_r)
          /\ SchedIssue(be_ready(b))
          /\ be_sel_r' = b
          /\ be_cmd_r' = [be_cmd_r EXCEPT ![b] = sched_cmd_r]
    /\ snap' = [act |-> act, wt |-> wt]
    /\ UNCHANGED issued

\* A clock of the backend that has the ports.
Step(b) ==
    \/ b = "conv" /\ ConvStep /\ UNCHANGED <<vec, smax, ln, pl, gm>>
    \/ b = "gemm" /\ GemmStep /\ UNCHANGED <<vec, smax, ln, pl, cv>>
    \/ b = "softmax" /\ SmaxStep /\ UNCHANGED <<vec, ln, pl, cv, gm>>
    \/ b = "vec" /\ VecStep /\ UNCHANGED <<smax, ln, pl, cv, gm>>
    \/ b = "lnorm" /\ LnormStep(conv_to_lnorm_cmd(sched_cmd_r)) /\ UNCHANGED <<vec, smax, pl, cv, gm>>
    \/ b = "pool" /\ PoolStep /\ UNCHANGED <<vec, smax, ln, cv, gm>>

Work ==
    /\ sched_state = "S_WAIT"
    /\ Step(be_sel_r)
    /\ \/ SchedRetire(be_done(be_sel_r))
       \/ SchedHold(FALSE, FALSE, be_done(be_sel_r))
    /\ UNCHANGED <<be_sel_r, be_cmd_r, snap, issued>>

\* The rest of the results, after done.
Settle ==
    /\ sched_state = "S_IDLE" /\ InFlight(be_sel_r)
    /\ Step(be_sel_r)
    /\ SchedHold(FALSE, FALSE, be_done(be_sel_r))
    /\ UNCHANGED <<be_sel_r, be_cmd_r, snap, issued>>

Next ==
    \/ \E cmd \in Cmd \ {ZeroCmd} : Take(cmd)
    \/ NoCommand
    \/ Dispatch
    \/ Work
    \/ Settle

Spec == Init /\ [][Next]_vars

\* The clock runs.
FairSpec == Spec /\ WF_vars(Dispatch) /\ WF_vars(Work) /\ WF_vars(Settle)

-----------------------------------------------------------------------------
\* Type invariant: bytes and dimensions keep their width, also those on their
\* way to be written, and the loop indices of the controllers their bounds
\* while they compute; a backend without the ports has nothing to write.
TypeOK ==
    /\ act \in [Addresses -> int8] /\ wt \in [Addresses -> int8]
    /\ SchedTypeOK
    /\ be_sel_r \in Backend
    /\ \A b \in Backend \ {be_sel_r} : ~ be_busy(b) /\ ~ InFlight(b)
    /\ \A x \in {cv, gm} :
           /\ Len(x.sums) <= StagesBefore /\ Len(x.pipe) <= StagesAfter
           /\ \A q \in {x.sums, x.pipe} : \A i \in 1 .. Len(q) : q[i].data \in int8
    /\ cv.state = "COMPUTE" => /\ cv.oh_r < cv.cmd_r.out_h /\ cv.ow_r < cv.cmd_r.out_w
                               /\ cv.k_r < cv.cmd_r.out_k
    /\ gm.state = "COMPUTE" => gm.m_r < gm.cmd_r.m_dim /\ gm.n_r < gm.cmd_r.n_dim
    /\ ln.mean_r \in int8 /\ ln.std_r \in 1 .. 2^(ACC_W \div 2) - 1

\* From the end of its division to the end of the row, the mean of lnorm_ctrl is
\* the sum of the row over its length, rounded towards 0: the dividend, the
\* quotient and the sign of the serial divider are those of this row.
MeanIsTruncated ==
    ln.state \in {"S_VAR_RD", "S_VAR_WAIT", "S_VAR_DIV", "S_SQRT",
                  "S_NORM_RD", "S_NORM_WAIT", "S_NORM_DIV", "S_NORM_WR"} =>
        ln.mean_r = IF ln.sum_r < 0 THEN -((-ln.sum_r) \div ln.cmd.row_len)
                    ELSE ln.sum_r \div ln.cmd.row_len

\* The deviation the digit-by-digit root leaves is the integer square root of
\* the variance plus 1, which the divider still holds.
RootIsFloor ==
    [][ln.state = "S_SQRT" /\ ln'.state = "S_NORM_RD" =>
        LET v == (ln.div.quot + 1) % 2^ACC_W
        IN v > 0 => /\ ln'.std_r * ln'.std_r <= v
                    /\ v < (ln'.std_r + 1) * (ln'.std_r + 1)]_vars

Slice(mem, base, len) == [i \in 0 .. len - 1 |-> mem[base + i]]

Overwritten(mem, base, data) ==
    [a \in Addresses |-> IF a - base \in DOMAIN data THEN data[a - base] ELSE mem[a]]

Geometry(cmd) ==
    [H |-> cmd.in_h, W |-> cmd.in_w, C |-> cmd.in_c, K |-> cmd.out_k, R |-> cmd.filt_r,
     S |-> cmd.filt_s, stride_h |-> cmd.stride_h, stride_w |-> cmd.stride_w,
     pad_h |-> cmd.pad_h, pad_w |-> cmd.pad_w]

\* What each test of the integration bench expects to read back: it loads the
\* operands at the addresses of the command, calls the reference function on
\* them and fills in the descriptor with the same parameters.  a and w are
\* the contents of the two buffers.
run_conv_test(cmd, a, w) ==
    Ref!ref_conv(Slice(a, cmd.act_in_addr, cmd.in_h * cmd.in_w * cmd.in_c),
                 Slice(w, cmd.weight_addr, cmd.out_k * cmd.filt_r * cmd.filt_s * cmd.in_c),
                 Slice(w, cmd.bias_addr, cmd.out_k),
                 Geometry(cmd), cmd.quant_shift, cmd.act_mode)

run_gemm_test(cmd, a, w) ==
    LET g == conv_to_gemm_cmd(cmd)
    IN Ref!ref_gemm(Slice(a, g.a_addr, g.m_dim * g.k_dim), Slice(w, g.b_addr, g.k_dim * g.n_dim),
                    Slice(w, g.bias_addr, g.n_dim), g.m_dim, g.n_dim, g.k_dim,
                    g.quant_shift, g.act_mode)

run_softmax_test(cmd, a) ==
    Ref!ref_softmax(Slice(a, cmd.act_in_addr, cmd.in_h * cmd.in_w), cmd.in_h, cmd.in_w)

run_vec_test(cmd, a, w) ==
    LET v == conv_to_vec_cmd(cmd)
    IN Ref!ref_vec(Slice(a, v.a_addr, v.length), Slice(w, v.b_addr, v.length), v.length,
                   v.vec_op, v.quant_shift, v.act_mode)

run_lnorm_test(cmd, a) ==
    Ref!ref_lnorm(Slice(a, cmd.act_in_addr, cmd.in_h * cmd.in_w), cmd.in_h, cmd.in_w,
                  cmd.quant_shift)

run_pool_test(cmd, a) ==
    Ref!ref_pool(Slice(a, cmd.act_in_addr, cmd.in_h * cmd.in_w * cmd.in_c), Geometry(cmd),
                 cmd.quant_shift)

Expected(cmd, a, w) ==
    CASE Route(cmd) = "conv" -> run_conv_test(cmd, a, w)
      [] Route(cmd) = "gemm" -> run_gemm_test(cmd, a, w)
      [] Route(cmd) = "softmax" -> run_softmax_test(cmd, a)
      [] Route(cmd) = "vec" -> run_vec_test(cmd, a, w)
      [] Route(cmd) = "lnorm" -> run_lnorm_test(cmd, a)
      [] Route(cmd) = "pool" -> run_pool_test(cmd, a)

\* When a backend has reported done and written what was still on its way,
\* which for convolution and GEMM is after done, the activation buffer holds
\* what the reference function of its operation computes from the buffers'
\* contents at acceptance, at the command's output address, and is otherwise
\* as it was: no register left by an earlier command, no serial division or
\* saturation and no loop bound of the controllers shows in the result.
ResultsMatchReference ==
    LET cmd == be_cmd_r[be_sel_r]
    IN /\ be_done(be_sel_r) \/ sched_state = "S_IDLE"
       /\ ~ InFlight(be_sel_r)
       /\ cmd # ZeroCmd
       => /\ act = Overwritten(snap.act, cmd.act_out_addr, Expected(cmd, snap.act, snap.wt))
          /\ wt = snap.wt

-----------------------------------------------------------------------------
(***************************************************************************)
(* The abstract backends the command path is checked with.  They are the   *)
(* four serial controllers; a command of the other two is one that gives   *)
(* the ports to a backend outside.                                         *)
(***************************************************************************)
Serial == {"softmax", "vec", "lnorm", "pool"}

serial_state ==
    [b \in Serial |-> CASE ctrl_state[b] = "S_IDLE" -> "S_IDLE"
                        [] ctrl_state[b] = "S_DONE" -> "S_DONE"
                        [] OTHER -> "S_WORK"]

serial_cmd_r == [b \in Serial |-> be_cmd_r[b]]

serial_sel == IF be_sel_r \in Serial THEN be_sel_r ELSE "conv"

Abs == INSTANCE SerialBackend
       WITH Backend <- Serial, DefaultBe <- "conv",
            be_state <- serial_state, be_cmd_r <- serial_cmd_r, be_sel_r <- serial_sel

\* The selector goes to a backend that is not serial: the four are idle and
\* stay so.
SelectOther ==
    /\ dispatch_valid /\ Route(sched_cmd_r) \notin Serial
    /\ serial_state = [b \in Serial |-> "S_IDLE"]
    /\ UNCHANGED <<serial_state, serial_cmd_r>>
    /\ serial_sel' = "conv"

\* Each of the four serial controllers behaves as a backend of SerialBackend:
\* it takes a command only when idle, moves only while it has the ports, and
\* gives exactly one cycle of done between its work and the next idle cycle;
\* a command of convolution or GEMM takes the ports from none of them at work.
ImplementsSerialBackend ==
    /\ Abs!BackendInit
    /\ [][\/ \E valid, finish \in BOOLEAN :
                Abs!BackendClk(valid /\ dispatch_valid /\ Route(sched_cmd_r) \in Serial,
                               sched_cmd_r, finish)
          \/ SelectOther]_(Abs!backendVars)

\* A command that is dispatched is retired and its results are written: no
\* backend waits for a byte that does not come or walks past the end of its
\* loops, and what a done leaves behind is written without another command.
EveryCommandFinishes ==
    (sched_state = "S_ISSUE") ~> (sched_state = "S_IDLE" /\ ~ InFlight(be_sel_r))
=============================================================================
