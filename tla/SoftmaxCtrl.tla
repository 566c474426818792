---------------------------- MODULE SoftmaxCtrl -----------------------------
(***************************************************************************)
(* rtl/composites/softmax/softmax_ctrl.sv with the table of                *)
(* softmax_exp_lut.sv: per row a maximum pass and a sum pass, whose reads  *)
(* overlap their answers, and a normalising pass with a serial divider.    *)
(***************************************************************************)
EXTENDS BackendPorts, Sequences

VARIABLE smax   \* the controller's registers

SmaxAt(s) == smax.state = s

\* exp(-d / 32) in 1/65536: (exp_int * exp_frac) >> 16, by the bytes of exp_frac.
exp_val(diff) ==
    LET exp_int == <<65535, 24109, 8869, 3263, 1200, 442, 162, 60>>[diff \div 32 + 1]
        exp_frac ==
            <<65535, 63519, 61564, 59670, 57834, 56055, 54330, 52659,
              51039, 49468, 47946, 46471, 45042, 43656, 42313, 41011,
              39749, 38526, 37341, 36192, 35078, 33999, 32953, 31939,
              30957, 30004, 29081, 28186, 27319, 26479, 25664, 24874>>[(diff % 32) + 1]
    IN (exp_int * (exp_frac \div 256) + (exp_int * (exp_frac % 256)) \div 256) \div 256

\* lut_diff: the 8-bit difference of the maximum and the byte read.
lut_exp_val == exp_val((smax.max_val_r - act_rd.rdata) % 256)

SmaxAccept(cmd) ==
    /\ SmaxAt("S_IDLE")
    /\ smax' = [smax EXCEPT !.state = "S_LOAD_CFG", !.cmd = cmd]
    /\ NoAccess

SmaxLoadCfg ==
    /\ SmaxAt("S_LOAD_CFG")
    /\ smax' = [smax EXCEPT !.state = "S_FIND_MAX", !.row_r = 0,
                            !.row_base_in_r = smax.cmd.in_addr, !.row_base_out_r = smax.cmd.out_addr,
                            !.req_cnt_r = 0, !.rcv_cnt_r = 0, !.max_val_r = -128, !.sum_r = 0]
    /\ NoAccess

\* A pass over the row: one request per cycle, while answers come in.
Requesting == smax.req_cnt_r < smax.cmd.row_len

PassRead == IF Requesting THEN ReadAct(smax.row_base_in_r + smax.req_cnt_r) ELSE NoAccess

SmaxFindMax ==
    /\ SmaxAt("S_FIND_MAX")
    /\ LET last == act_rd.rvalid /\ smax.rcv_cnt_r = uint32(smax.cmd.row_len - 1)
       IN smax' = [smax EXCEPT
                    !.state = IF last THEN "S_EXP_SUM" ELSE @,
                    !.req_cnt_r = IF last THEN 0 ELSE IF Requesting THEN @ + 1 ELSE @,
                    !.rcv_cnt_r = IF last THEN 0 ELSE IF act_rd.rvalid THEN @ + 1 ELSE @,
                    !.max_val_r = IF act_rd.rvalid /\ act_rd.rdata > @ THEN act_rd.rdata ELSE @]
    /\ PassRead

SmaxExpSum ==
    /\ SmaxAt("S_EXP_SUM")
    /\ LET last == smax.rcv_cnt_r = smax.cmd.row_len
       IN smax' = [smax EXCEPT
                    !.state = IF last THEN "S_NORM_RD" ELSE @,
                    !.norm_idx_r = IF last THEN 0 ELSE @,
                    !.req_cnt_r = IF Requesting THEN @ + 1 ELSE @,
                    !.rcv_cnt_r = IF act_rd.rvalid THEN @ + 1 ELSE @,
                    !.exp_sum_rvalid_d = act_rd.rvalid,
                    !.exp_sum_lut_d = IF act_rd.rvalid THEN lut_exp_val ELSE @,
                    !.sum_r = IF smax.exp_sum_rvalid_d THEN @ + smax.exp_sum_lut_d ELSE @]
    /\ PassRead

SmaxNormRead ==
    /\ SmaxAt("S_NORM_RD")
    /\ smax' = [smax EXCEPT !.state = "S_NORM_WAIT"]
    /\ ReadAct(smax.row_base_in_r + smax.norm_idx_r)

SmaxNormWait ==
    /\ SmaxAt("S_NORM_WAIT") /\ act_rd.rvalid
    /\ smax' = [smax EXCEPT !.state = "S_NORM_DIV", !.div_numer_r = lut_exp_val * 127,
                            !.div_rem_r = 0, !.div_quot_r = 0, !.div_cnt_r = 0]
    /\ NoAccess

\* A 24-bit numerator over the sum, the top bit first.
SmaxNormDiv ==
    /\ SmaxAt("S_NORM_DIV")
    /\ LET trial == 2 * smax.div_rem_r + smax.div_numer_r \div 2^23
           fits == trial >= smax.sum_r
       IN smax' = [smax EXCEPT
                    !.state = IF smax.div_cnt_r = 23 THEN "S_NORM_WR" ELSE @,
                    !.div_cnt_r = @ + 1,
                    !.div_rem_r = IF fits THEN trial - smax.sum_r ELSE trial,
                    !.div_quot_r = (2 * @ + (IF fits THEN 1 ELSE 0)) % 256,
                    !.div_numer_r = (2 * @) % 2^24]
    /\ NoAccess

SmaxNormWrite ==
    /\ SmaxAt("S_NORM_WR")
    /\ LET lastElem == smax.norm_idx_r = uint32(smax.cmd.row_len - 1)
           newRow == lastElem /\ smax.row_r < uint32(smax.cmd.num_rows - 1)
           Next(s) == IF newRow
                      THEN [s EXCEPT !.row_r = uint16(@ + 1), !.req_cnt_r = 0, !.rcv_cnt_r = 0,
                                     !.max_val_r = -128, !.sum_r = 0,
                                     !.row_base_in_r = uint16(@ + smax.cmd.row_len),
                                     !.row_base_out_r = uint16(@ + smax.cmd.row_len)]
                      ELSE s
       IN smax' = [Next(smax) EXCEPT
                    !.state = IF ~ lastElem THEN "S_NORM_RD"
                              ELSE IF smax.row_r = uint32(smax.cmd.num_rows - 1) THEN "S_DONE"
                              ELSE "S_FIND_MAX",
                    !.norm_idx_r = IF lastElem THEN 0 ELSE @ + 1]
    /\ WriteAct(smax.row_base_out_r + smax.norm_idx_r,
                IF smax.div_quot_r > 127 THEN 127 ELSE smax.div_quot_r)

\* Mutant: done stays up.
SmaxDoneHold ==
    /\ SmaxAt("S_DONE")
    /\ UNCHANGED smax
    /\ NoAccess

SmaxDone ==
    /\ SmaxAt("S_DONE")
    /\ smax' = [smax EXCEPT !.state = "S_IDLE"]
    /\ NoAccess

SmaxStep ==
    \/ SmaxLoadCfg \/ SmaxFindMax \/ SmaxExpSum
    \/ SmaxNormRead \/ SmaxNormWait \/ SmaxNormDiv \/ SmaxNormWrite
    \/ SmaxDone

SmaxInit ==
    smax = [state |-> "S_IDLE",
            cmd |-> [in_addr |-> 0, out_addr |-> 0, num_rows |-> 0, row_len |-> 0],
            row_r |-> 0, req_cnt_r |-> 0, rcv_cnt_r |-> 0, max_val_r |-> -128, sum_r |-> 0,
            row_base_in_r |-> 0, row_base_out_r |-> 0, norm_idx_r |-> 0,
            exp_sum_rvalid_d |-> FALSE, exp_sum_lut_d |-> 0,
            div_numer_r |-> 0, div_rem_r |-> 0, div_quot_r |-> 0, div_cnt_r |-> 0]
=============================================================================
