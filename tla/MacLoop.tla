------------------------------ MODULE MacLoop -------------------------------
(***************************************************************************)
(* What the multiply-accumulate backends compute: the loop nests of        *)
(* rtl/backends/conv/conv_ctrl.sv and rtl/backends/gemm/gemm_ctrl.sv over  *)
(* the addresses of ConvAddrGen, the accumulator, rtl/ops/postproc and     *)
(* rtl/ops/activation, and the done and busy of the two backends.          *)
(*                                                                         *)
(* A product is added in the step that issues it.  The result it completes *)
(* is then on its way: in address generator, loader or processing element  *)
(* (sums), where pipe_empty does not look, then in postprocessing, address *)
(* queue or writer (pipe), and is written by a later step.  MacBackend has *)
(* these stages one by one, with their handshakes, on symbolic values.     *)
(***************************************************************************)
EXTENDS BackendPorts, ConvAddrGen, Sequences

VARIABLES
    cv,         \* registers of conv_backend
    gm          \* registers of gemm_backend

\* A value in the signed accumulator.
acc_t(x) == ((x + 2^(ACC_W - 1)) % 2^ACC_W) - 2^(ACC_W - 1)

\* bias_add, activation (the default arm is ReLU), quantize.
postproc(sum, bias_val, cmd) ==
    LET biased == acc_t(sum + bias_val)
        activated == IF biased >= 0 THEN biased
                     ELSE CASE cmd.act_mode = 0 -> biased
                            [] cmd.act_mode = 2 -> biased \div 2^3
                            [] OTHER -> 0
    IN sat8(activated \div 2^cmd.quant_shift)

\* conv_accum and conv_pe: the sum after a product.
Accumulated(acc_r, acc_clr, a, w) == acc_t((IF acc_clr THEN 0 ELSE acc_r) + a * w)

-----------------------------------------------------------------------------
(***************************************************************************)
(* The way of the results, the same in both backends; x is the register    *)
(* file of one of them.                                                    *)
(***************************************************************************)
\* The stages a result passes before and after pp_trigger.
StagesBefore == 3
StagesAfter == 3

\* The controller can hand over another product, or see the last one taken.
iter_ready(x) == Len(x.sums) < StagesBefore

pipe_empty(x) == x.pipe = <<>>

ctrl_done(x) == x.state = "DONE"

mac_done(x) == (ctrl_done(x) \/ x.ctrl_finished) /\ pipe_empty(x)
mac_busy(x) == x.state # "IDLE" \/ ~ pipe_empty(x) \/ x.ctrl_finished

\* Results that are not written yet.
in_flight(x) == x.sums # <<>> \/ x.pipe # <<>>

\* A cycle of done ends, and is remembered until the backend reports it.
Latched(x) ==
    [x EXCEPT !.state = IF ctrl_done(x) THEN "IDLE" ELSE @,
              !.ctrl_finished = ~ mac_done(x) /\ (@ \/ ctrl_done(x))]

\* pp_trigger: the processing element gives a result to postprocessing.
Triggered(x) ==
    [Latched(x) EXCEPT !.sums = Tail(@), !.pipe = Append(@, Head(x.sums))]

\* The writer has its grant.
Written(x) == [Latched(x) EXCEPT !.pipe = Tail(@)]

can_trigger(x) == x.sums # <<>> /\ Len(x.pipe) < StagesAfter

-----------------------------------------------------------------------------
ConvAccept(cmd) ==
    /\ cv.state = "IDLE"
    /\ cv' = [cv EXCEPT !.state = "LOAD_CFG", !.cmd_r = cmd, !.first_last_inner_seen_r = FALSE]
    /\ NoAccess

ConvLoadCfg ==
    /\ cv.state = "LOAD_CFG"
    /\ cv' = [cv EXCEPT !.state = "COMPUTE", !.oh_r = 0, !.ow_r = 0, !.k_r = 0,
                        !.r_r = 0, !.s_r = 0, !.c_r = 0]
    /\ NoAccess

last_c(x) == x.c_r = uint32(x.cmd_r.in_c - 1)
last_s(x) == x.s_r = uint32(x.cmd_r.filt_s - 1)
last_r(x) == x.r_r = uint32(x.cmd_r.filt_r - 1)
last_k(x) == x.k_r = uint32(x.cmd_r.out_k - 1)
last_ow(x) == x.ow_r = uint16(x.cmd_r.out_w - 1)
last_oh(x) == x.oh_r = uint16(x.cmd_r.out_h - 1)
conv_inner_last(x) == last_c(x) /\ last_s(x) /\ last_r(x)

conv_outer_last(x) == last_k(x) /\ last_ow(x) /\ last_oh(x)

\* The outer loops: k, then ow, then oh.
ConvNextOutput(x) ==
    IF ~ last_k(x) THEN [x EXCEPT !.k_r = uint16(@ + 1)]
    ELSE IF ~ last_ow(x) THEN [x EXCEPT !.k_r = 0, !.ow_r = uint16(@ + 1)]
    ELSE [x EXCEPT !.k_r = 0, !.ow_r = 0,
                   !.oh_r = IF @ < uint16(x.cmd_r.out_h - 1) THEN @ + 1 ELSE @]

\* The inner loops: c, then s, then r.
ConvNextProduct(x) ==
    IF ~ last_c(x) THEN [x EXCEPT !.c_r = uint16(@ + 1)]
    ELSE IF ~ last_s(x) THEN [x EXCEPT !.c_r = 0, !.s_r = uint16(@ + 1)]
    ELSE IF ~ last_r(x) THEN [x EXCEPT !.c_r = 0, !.s_r = 0, !.r_r = uint16(@ + 1)]
    ELSE ConvNextOutput([x EXCEPT !.c_r = 0, !.s_r = 0, !.r_r = 0])

\* Output addresses count up from the base.
conv_wr_addr(x) ==
    IF x.first_last_inner_seen_r THEN uint16(x.wr_addr_iter_r + 1) ELSE x.cmd_r.act_out_addr

ConvCompute ==
    /\ cv.state = "COMPUTE" /\ iter_ready(cv)
    /\ LET cmd == cv.cmd_r
           pad == zero_pad(cmd, cv.oh_r, cv.ow_r, cv.r_r, cv.s_r)
           a == IF pad THEN 0 ELSE act[act_addr(cmd, cv.oh_r, cv.ow_r, cv.r_r, cv.s_r, cv.c_r)]
           w == IF pad THEN 0 ELSE wt[wt_addr(cmd, cv.k_r, cv.r_r, cv.s_r, cv.c_r)]
           sum == Accumulated(cv.acc_r, cv.r_r = 0 /\ cv.s_r = 0 /\ cv.c_r = 0, a, w)
           inner_last == conv_inner_last(cv)
           result == [addr |-> conv_wr_addr(cv),
                      data |-> postproc(sum, wt[uint16(cmd.bias_addr + cv.k_r)], cmd)]
       IN cv' = [ConvNextProduct(cv) EXCEPT
                  !.state = IF inner_last /\ conv_outer_last(cv) THEN "DRAIN" ELSE @,
                  !.acc_r = sum,
                  !.wr_addr_iter_r = IF inner_last THEN conv_wr_addr(cv) ELSE @,
                  !.first_last_inner_seen_r = @ \/ inner_last,
                  !.sums = IF inner_last THEN Append(@, result) ELSE @]
    /\ NoAccess

ConvTrigger ==
    /\ can_trigger(cv)
    /\ cv' = Triggered(cv)
    /\ NoAccess

ConvWrite ==
    /\ ~ pipe_empty(cv)
    /\ cv' = Written(cv)
    /\ WriteAct(Head(cv.pipe).addr, Head(cv.pipe).data)

ConvDrain ==
    /\ cv.state = "DRAIN" /\ iter_ready(cv)
    /\ cv' = [cv EXCEPT !.state = "DONE"]
    /\ NoAccess

ConvDone ==
    /\ ctrl_done(cv) \/ mac_done(cv)
    /\ cv' = Latched(cv)
    /\ NoAccess

ConvStep == ConvLoadCfg \/ ConvCompute \/ ConvTrigger \/ ConvWrite \/ ConvDrain \/ ConvDone

-----------------------------------------------------------------------------
GemmAccept(cmd) ==
    /\ gm.state = "IDLE"
    /\ gm' = [gm EXCEPT !.state = "LOAD_CFG", !.cmd_r = cmd]
    /\ NoAccess

GemmLoadCfg ==
    /\ gm.state = "LOAD_CFG"
    /\ gm' = [gm EXCEPT !.state = "COMPUTE", !.m_r = 0, !.n_r = 0, !.k_r = 0]
    /\ NoAccess

gemm_last_k(x) == x.k_r = uint32(x.cmd_r.k_dim - 1)
gemm_last_n(x) == x.n_r = uint32(x.cmd_r.n_dim - 1)

\* Mutant: the last row is one too far.
gemm_last_mOff(x) == x.m_r = x.cmd_r.m_dim

gemm_last_m(x) == x.m_r = uint32(x.cmd_r.m_dim - 1)

\* The loops: k, then n, then m.
GemmNextProduct(x) ==
    IF ~ gemm_last_k(x) THEN [x EXCEPT !.k_r = uint16(@ + 1)]
    ELSE IF ~ gemm_last_n(x) THEN [x EXCEPT !.k_r = 0, !.n_r = uint16(@ + 1)]
    ELSE [x EXCEPT !.k_r = 0, !.n_r = 0,
                   !.m_r = IF @ < uint32(x.cmd_r.m_dim - 1) THEN uint16(@ + 1) ELSE @]

GemmCompute ==
    /\ gm.state = "COMPUTE" /\ iter_ready(gm)
    /\ LET cmd == gm.cmd_r
           sum == Accumulated(gm.acc_r, gm.k_r = 0, act[a_addr(cmd, gm.m_r, gm.k_r)],
                              wt[b_addr(cmd, gm.k_r, gm.n_r)])
           result == [addr |-> cmd.c_addr + gm.m_r * cmd.n_dim + gm.n_r,
                      data |-> postproc(sum, wt[uint16(cmd.bias_addr + gm.n_r)], cmd)]
       IN gm' = [GemmNextProduct(gm) EXCEPT
                  !.state = IF gemm_last_k(gm) /\ gemm_last_n(gm) /\ gemm_last_m(gm)
                            THEN "DRAIN" ELSE @,
                  !.acc_r = sum,
                  !.sums = IF gemm_last_k(gm) THEN Append(@, result) ELSE @]
    /\ NoAccess

GemmTrigger ==
    /\ can_trigger(gm)
    /\ gm' = Triggered(gm)
    /\ NoAccess

GemmWrite ==
    /\ ~ pipe_empty(gm)
    /\ gm' = Written(gm)
    /\ WriteAct(Head(gm.pipe).addr, Head(gm.pipe).data)

GemmDrain ==
    /\ gm.state = "DRAIN" /\ iter_ready(gm)
    /\ gm' = [gm EXCEPT !.state = "DONE"]
    /\ NoAccess

GemmDone ==
    /\ ctrl_done(gm) \/ mac_done(gm)
    /\ gm' = Latched(gm)
    /\ NoAccess

GemmStep == GemmLoadCfg \/ GemmCompute \/ GemmTrigger \/ GemmWrite \/ GemmDrain \/ GemmDone

\* cmd_r is read after the first accept only.
MacLoopInit ==
    /\ cv = [state |-> "IDLE", cmd_r |-> <<>>, oh_r |-> 0, ow_r |-> 0, k_r |-> 0, r_r |-> 0,
             s_r |-> 0, c_r |-> 0, acc_r |-> 0, wr_addr_iter_r |-> 0,
             first_last_inner_seen_r |-> FALSE,
             sums |-> <<>>, pipe |-> <<>>, ctrl_finished |-> FALSE]
    /\ gm = [state |-> "IDLE", cmd_r |-> <<>>, m_r |-> 0, n_r |-> 0, k_r |-> 0, acc_r |-> 0,
             sums |-> <<>>, pipe |-> <<>>, ctrl_finished |-> FALSE]
=============================================================================
