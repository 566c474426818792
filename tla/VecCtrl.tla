------------------------------ MODULE VecCtrl -------------------------------
(***************************************************************************)
(* rtl/backends/vec/vec_ctrl.sv: element-wise addition or multiplication.  *)
(* The read grants of the two buffers come in the same cycle, and so do    *)
(* the answers, so the flags that remember one of them are left out.       *)
(***************************************************************************)
EXTENDS BackendPorts

VARIABLE vec    \* the controller's registers

VecAt(s) == vec.state = s

\* Negative products by act_mode: ACT_RELU 1, ACT_LEAKY_RELU 2.
mul_activated(x, act_mode) ==
    IF x >= 0 THEN x ELSE CASE act_mode = 1 -> 0
                            [] act_mode = 2 -> x \div 2^3
                            [] OTHER -> x

vec_result(v) ==
    IF v.cmd.vec_op = 0 THEN sat8(v.a_data_r + v.b_data_r)
    ELSE sat8(mul_activated(v.a_data_r * v.b_data_r, v.cmd.act_mode) \div 2^v.cmd.quant_shift)

VecAccept(cmd) ==
    /\ VecAt("S_IDLE")
    /\ vec' = [vec EXCEPT !.state = "S_LOAD_CFG", !.cmd = cmd]
    /\ NoAccess

VecLoadCfg ==
    /\ VecAt("S_LOAD_CFG")
    /\ vec' = [vec EXCEPT !.state = "S_READ", !.idx_r = 0, !.a_addr_r = vec.cmd.a_addr,
                          !.b_addr_r = vec.cmd.b_addr, !.out_addr_r = vec.cmd.out_addr]
    /\ NoAccess

VecRead ==
    /\ VecAt("S_READ")
    /\ vec' = [vec EXCEPT !.state = "S_WAIT"]
    /\ ReadBoth(vec.a_addr_r, vec.b_addr_r)

VecWait ==
    /\ VecAt("S_WAIT") /\ act_rd.rvalid /\ wt_rd.rvalid
    /\ vec' = [vec EXCEPT !.state = "S_WRITE", !.a_data_r = act_rd.rdata, !.b_data_r = wt_rd.rdata]
    /\ NoAccess

VecWrite ==
    /\ VecAt("S_WRITE")
    /\ vec' = [vec EXCEPT
                !.state = IF vec.idx_r = uint32(vec.cmd.length - 1) THEN "S_DONE" ELSE "S_READ",
                !.idx_r = uint16(@ + 1), !.a_addr_r = uint16(@ + 1),
                !.b_addr_r = uint16(@ + 1), !.out_addr_r = uint16(@ + 1)]
    /\ WriteAct(vec.out_addr_r, vec_result(vec))

VecDone ==
    /\ VecAt("S_DONE")
    /\ vec' = [vec EXCEPT !.state = "S_IDLE"]
    /\ NoAccess

VecStep == VecLoadCfg \/ VecRead \/ VecWait \/ VecWrite \/ VecDone

VecInit ==
    vec = [state |-> "S_IDLE",
           cmd |-> [a_addr |-> 0, b_addr |-> 0, out_addr |-> 0, length |-> 0,
                    vec_op |-> 0, quant_shift |-> 0, act_mode |-> 0],
           idx_r |-> 0, a_addr_r |-> 0, b_addr_r |-> 0, out_addr_r |-> 0,
           a_data_r |-> 0, b_data_r |-> 0]
=============================================================================
