---------------------------- MODULE SerialBackend ----------------------------
(***************************************************************************)
(* The compute side of rtl/core/npu_core.sv as the command path sees it:   *)
(* npu_dispatch.sv routes a command by its opcode, the chosen backend's    *)
(* controller takes it when idle, works for any number of cycles and gives *)
(* a one-cycle done.  The four controllers of this shape are vec_ctrl,     *)
(* softmax_ctrl, lnorm_ctrl and pool_ctrl; the states between S_IDLE and   *)
(* S_DONE, which differ, are one state "S_WORK".  (The convolution and     *)
(* GEMM backends are pipelines whose done is not the end of their work:    *)
(* MacBackend and NpuCore.)  The registered selector be_sel_r gives the    *)
(* memory ports to the backend that took the last command; a backend that  *)
(* is not selected sees no grant and cannot move.                          *)
(***************************************************************************)
EXTENDS NpuCmdPkg

CONSTANTS
    Backend,    \* the backends of this shape
    DefaultBe,  \* the reset value of be_sel_r, the convolution backend
    Route(_)    \* the backend a command's opcode selects

VARIABLES
    be_state,
    be_cmd_r,   \* the command each controller latched last
    be_sel_r

backendVars == <<be_state, be_cmd_r, be_sel_r>>

be_busy == \E b \in Backend : be_state[b] # "S_IDLE"
be_done == \E b \in Backend : be_state[b] = "S_DONE"
be_ready(cmd) == be_state[Route(cmd)] = "S_IDLE"

\* Mutant: a backend goes idle without its done pulse.
BackendNextNoDone(b, valid, cmd, finish) ==
    CASE be_state[b] = "S_IDLE" /\ valid /\ Route(cmd) = b -> "S_WORK"
      [] be_state[b] = "S_WORK" /\ be_sel_r = b /\ finish -> "S_IDLE"
      [] OTHER -> be_state[b]

\* The state of backend b after an edge on which cmd is offered (if valid) and
\* the selected backend may find its work finished.
BackendNext(b, valid, cmd, finish) ==
    CASE be_state[b] = "S_IDLE" /\ valid /\ Route(cmd) = b -> "S_WORK"
      [] be_state[b] = "S_WORK" /\ be_sel_r = b /\ finish -> "S_DONE"
      [] be_state[b] = "S_DONE" -> "S_IDLE"
      [] OTHER -> be_state[b]

\* Mutant: the selector keeps its reset value.
SelectClkStuck(valid, cmd) == UNCHANGED be_sel_r

SelectClk(valid, cmd) ==
    be_sel_r' = IF valid /\ be_ready(cmd) THEN Route(cmd) ELSE be_sel_r

BackendClk(valid, cmd, finish) ==
    /\ be_state' = [b \in Backend |-> BackendNext(b, valid, cmd, finish)]
    /\ be_cmd_r' = [b \in Backend |->
                       IF be_state[b] = "S_IDLE" /\ valid /\ Route(cmd) = b
                       THEN cmd ELSE be_cmd_r[b]]
    /\ SelectClk(valid, cmd)

BackendReset ==
    /\ be_state' = [b \in Backend |-> "S_IDLE"]
    /\ be_cmd_r' = [b \in Backend |-> ZeroCmd]
    /\ be_sel_r' = DefaultBe

BackendInit ==
    /\ be_state = [b \in Backend |-> "S_IDLE"]
    /\ be_cmd_r = [b \in Backend |-> ZeroCmd]
    /\ be_sel_r = DefaultBe

\* Type invariant of the backends and their selector.
BackendTypeOK ==
    /\ be_state \in [Backend -> {"S_IDLE", "S_WORK", "S_DONE"}]
    /\ be_cmd_r \in [Backend -> Cmd]
    /\ be_sel_r \in Backend \cup {DefaultBe}
=============================================================================
