----------------------------- MODULE LnormCtrl ------------------------------
(***************************************************************************)
(* rtl/composites/lnorm/lnorm_ctrl.sv: per row a mean pass, a variance     *)
(* pass and a square root, and a normalising pass, over one serial         *)
(* divider.  The base addresses are taken from the command input one cycle *)
(* after the rest of the command was latched: sched_cmd is what the        *)
(* scheduler presents then.                                                *)
(***************************************************************************)
EXTENDS BackendPorts

VARIABLE ln     \* the controller's registers

LnormAt(s) == ln.state = s

lnormLastElem == ln.idx_r = uint32(ln.cmd.row_len - 1)

lnormNextIdx == IF lnormLastElem THEN 0 ELSE uint16(ln.idx_r + 1)

diff_w == act_rd.rdata - ln.mean_r

abs_diff_w == IF diff_w < 0 THEN -diff_w ELSE diff_w

\* A value saturated to ACC_W bits.
SatAcc(x) == IF x >= 2^ACC_W THEN 2^ACC_W - 1 ELSE x

LnormAccept(cmd) ==
    /\ LnormAt("S_IDLE")
    /\ ln' = [ln EXCEPT !.state = "S_LOAD_CFG",
                        !.cmd = [num_rows |-> cmd.num_rows, row_len |-> cmd.row_len,
                                 norm_shift |-> cmd.norm_shift]]
    /\ NoAccess

LnormLoadCfg(sched_cmd) ==
    /\ LnormAt("S_LOAD_CFG")
    /\ ln' = [ln EXCEPT !.state = "S_SUM_RD", !.row_r = 0, !.idx_r = 0, !.sum_r = 0, !.var_sum_r = 0,
                        !.in_row_base_r = sched_cmd.in_addr, !.out_row_base_r = sched_cmd.out_addr]
    /\ NoAccess

\* S_SUM_RD, S_VAR_RD and S_NORM_RD.
LnormRead ==
    /\ ln.state \in {"S_SUM_RD", "S_VAR_RD", "S_NORM_RD"}
    /\ ln' = [ln EXCEPT !.state = CASE @ = "S_SUM_RD" -> "S_SUM_WAIT"
                                    [] @ = "S_VAR_RD" -> "S_VAR_WAIT"
                                    [] @ = "S_NORM_RD" -> "S_NORM_WAIT"]
    /\ ReadAct(ln.in_row_base_r + ln.idx_r)

\* The last element also starts the division of the sum by the row length.
LnormSumWait ==
    /\ LnormAt("S_SUM_WAIT") /\ act_rd.rvalid
    /\ LET final_sum == ln.sum_r + act_rd.rdata
       IN ln' = [ln EXCEPT
                  !.state = IF lnormLastElem THEN "S_MEAN_DIV" ELSE "S_SUM_RD",
                  !.idx_r = lnormNextIdx,
                  !.sum_r = final_sum,
                  !.div_sign_r = IF lnormLastElem THEN final_sum < 0 ELSE @,
                  !.div = IF lnormLastElem
                          THEN div_start(IF final_sum < 0 THEN -final_sum ELSE final_sum, ln.cmd.row_len)
                          ELSE @]
    /\ NoAccess

\* Mutant: the mean of a negative sum keeps no sign.
LnormMeanDivUnsigned ==
    /\ LnormAt("S_MEAN_DIV")
    /\ LET last == ln.div.cnt = 0
       IN ln' = [ln EXCEPT
                  !.state = IF last THEN "S_VAR_RD" ELSE @,
                  !.div = div_step(@),
                  !.mean_r = IF last THEN div_step(ln.div).quot ELSE @]
    /\ NoAccess

LnormMeanDiv ==
    /\ LnormAt("S_MEAN_DIV")
    /\ LET last == ln.div.cnt = 0
       IN ln' = [ln EXCEPT
                  !.state = IF last THEN "S_VAR_RD" ELSE @,
                  !.div = div_step(@),
                  !.mean_r = IF ~ last THEN @
                             ELSE IF ln.div_sign_r THEN -div_step(ln.div).quot ELSE div_step(ln.div).quot]
    /\ NoAccess

LnormVarWait ==
    /\ LnormAt("S_VAR_WAIT") /\ act_rd.rvalid
    /\ LET final_var == ln.var_sum_r + abs_diff_w * abs_diff_w
       IN ln' = [ln EXCEPT
                  !.state = IF lnormLastElem THEN "S_VAR_DIV" ELSE "S_VAR_RD",
                  !.idx_r = lnormNextIdx,
                  !.var_sum_r = final_var % 2^ACC_W,
                  !.div_sign_r = IF lnormLastElem THEN FALSE ELSE @,
                  !.div = IF lnormLastElem THEN div_start(SatAcc(final_var), ln.cmd.row_len) ELSE @]
    /\ NoAccess

LnormVarDiv ==
    /\ LnormAt("S_VAR_DIV")
    /\ LET last == ln.div.cnt = 0
       IN ln' = [ln EXCEPT
                  !.state = IF last THEN "S_SQRT" ELSE @,
                  !.div = div_step(@),
                  !.sqrt = IF last
                           THEN [input |-> (div_step(ln.div).quot + 1) % 2^ACC_W,
                                 rem |-> 0, result |-> 0, cnt |-> ACC_W \div 2 - 1]
                           ELSE @]
    /\ NoAccess

\* Mutant: the digit is tried without its square.
sqrt_stepLoose(q) ==
    LET shifted == ((4 * q.rem) % 2^ACC_W) + q.input \div 2^(ACC_W - 2)
        fits == shifted >= 4 * q.result
    IN [input |-> (4 * q.input) % 2^ACC_W,
        rem |-> IF fits THEN shifted - 4 * q.result ELSE shifted,
        result |-> 2 * q.result + (IF fits THEN 1 ELSE 0),
        cnt |-> (q.cnt - 1) % ACC_W]

\* One digit of the root.
sqrt_step(q) ==
    LET shifted == ((4 * q.rem) % 2^ACC_W) + q.input \div 2^(ACC_W - 2)
        trial == 4 * q.result + 1
        fits == shifted >= trial
    IN [input |-> (4 * q.input) % 2^ACC_W,
        rem |-> IF fits THEN shifted - trial ELSE shifted,
        result |-> 2 * q.result + (IF fits THEN 1 ELSE 0),
        cnt |-> (q.cnt - 1) % ACC_W]

LnormSqrt ==
    /\ LnormAt("S_SQRT")
    /\ LET root == sqrt_step(ln.sqrt).result
       IN ln' = [ln EXCEPT
                  !.state = IF ln.sqrt.cnt = 0 THEN "S_NORM_RD" ELSE @,
                  !.sqrt = sqrt_step(@),
                  !.std_r = IF ln.sqrt.cnt # 0 THEN @ ELSE IF root = 0 THEN 1 ELSE root]
    /\ NoAccess

LnormNormWait ==
    /\ LnormAt("S_NORM_WAIT") /\ act_rd.rvalid
    /\ ln' = [ln EXCEPT !.state = "S_NORM_DIV",
                        !.norm_sign_r = diff_w < 0,
                        !.div_sign_r = FALSE,
                        !.div = div_start(SatAcc(abs_diff_w * 2^ln.cmd.norm_shift), ln.std_r)]
    /\ NoAccess

LnormNormDiv ==
    /\ LnormAt("S_NORM_DIV")
    /\ ln' = [ln EXCEPT !.state = IF ln.div.cnt = 0 THEN "S_NORM_WR" ELSE @, !.div = div_step(@)]
    /\ NoAccess

norm_result ==
    IF ln.norm_sign_r THEN (IF ln.div.quot > 128 THEN -128 ELSE -ln.div.quot)
                      ELSE (IF ln.div.quot > 127 THEN 127 ELSE ln.div.quot)

\* Mutant: the variance of a row starts from the one before.
LnormNextRowNoClear(l) ==
    [l EXCEPT !.row_r = uint16(@ + 1), !.sum_r = 0,
              !.in_row_base_r = uint16(@ + l.cmd.row_len),
              !.out_row_base_r = uint16(@ + l.cmd.row_len)]

LnormNextRow(l) ==
    [l EXCEPT !.row_r = uint16(@ + 1), !.sum_r = 0, !.var_sum_r = 0,
              !.in_row_base_r = uint16(@ + l.cmd.row_len),
              !.out_row_base_r = uint16(@ + l.cmd.row_len)]

LnormNormWrite ==
    /\ LnormAt("S_NORM_WR")
    /\ LET newRow == lnormLastElem /\ ln.row_r < uint32(ln.cmd.num_rows - 1)
       IN ln' = [IF newRow THEN LnormNextRow(ln) ELSE ln EXCEPT
                  !.state = IF ~ lnormLastElem THEN "S_NORM_RD"
                            ELSE IF ln.row_r = uint32(ln.cmd.num_rows - 1) THEN "S_DONE"
                            ELSE "S_SUM_RD",
                  !.idx_r = lnormNextIdx]
    /\ WriteAct(ln.out_row_base_r + ln.idx_r, norm_result)

LnormDone ==
    /\ LnormAt("S_DONE")
    /\ ln' = [ln EXCEPT !.state = "S_IDLE"]
    /\ NoAccess

LnormStep(sched_cmd) ==
    \/ LnormLoadCfg(sched_cmd) \/ LnormRead
    \/ LnormSumWait \/ LnormMeanDiv
    \/ LnormVarWait \/ LnormVarDiv \/ LnormSqrt
    \/ LnormNormWait \/ LnormNormDiv \/ LnormNormWrite
    \/ LnormDone

LnormInit ==
    ln = [state |-> "S_IDLE", cmd |-> [num_rows |-> 0, row_len |-> 0, norm_shift |-> 0],
          row_r |-> 0, in_row_base_r |-> 0, out_row_base_r |-> 0, idx_r |-> 0,
          sum_r |-> 0, mean_r |-> 0, var_sum_r |-> 0, std_r |-> 1, norm_sign_r |-> FALSE,
          div |-> [quot |-> 0, rem |-> 0, denom |-> 0, cnt |-> 0], div_sign_r |-> FALSE,
          sqrt |-> [input |-> 0, rem |-> 0, result |-> 0, cnt |-> 0]]
=============================================================================
