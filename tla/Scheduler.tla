------------------------------ MODULE Scheduler ------------------------------
(***************************************************************************)
(* rtl/core/npu_scheduler.sv: takes one command from the queue, offers it  *)
(* to the dispatcher until a backend accepts it, and waits for that        *)
(* backend's done pulse before it takes the next.                          *)
(***************************************************************************)
EXTENDS NpuCmdPkg

VARIABLES sched_state, sched_cmd_r

schedVars == <<sched_state, sched_cmd_r>>

queue_ready == sched_state = "S_IDLE"
dispatch_valid == sched_state = "S_ISSUE"

SchedTake(queue_valid, queue_cmd) ==
    /\ sched_state = "S_IDLE" /\ queue_valid
    /\ sched_state' = "S_ISSUE"
    /\ sched_cmd_r' = queue_cmd

SchedIssue(dispatch_ready) ==
    /\ sched_state = "S_ISSUE" /\ dispatch_ready
    /\ sched_state' = "S_WAIT"
    /\ UNCHANGED sched_cmd_r

SchedRetire(backend_done) ==
    /\ sched_state = "S_WAIT" /\ backend_done
    /\ sched_state' = "S_IDLE"
    /\ UNCHANGED sched_cmd_r

SchedHold(queue_valid, dispatch_ready, backend_done) ==
    /\ \/ sched_state = "S_IDLE" /\ ~queue_valid
       \/ sched_state = "S_ISSUE" /\ ~dispatch_ready
       \/ sched_state = "S_WAIT" /\ ~backend_done
    /\ UNCHANGED schedVars

SchedClk(queue_valid, queue_cmd, dispatch_ready, backend_done) ==
    \/ SchedTake(queue_valid, queue_cmd)
    \/ SchedIssue(dispatch_ready)
    \/ SchedRetire(backend_done)
    \/ SchedHold(queue_valid, dispatch_ready, backend_done)

SchedReset == sched_state' = "S_IDLE" /\ sched_cmd_r' = ZeroCmd

SchedInit == sched_state = "S_IDLE" /\ sched_cmd_r = ZeroCmd

\* Type invariant of the scheduler.
SchedTypeOK ==
    /\ sched_state \in {"S_IDLE", "S_ISSUE", "S_WAIT"}
    /\ sched_cmd_r \in Cmd
=============================================================================
