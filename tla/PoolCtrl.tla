------------------------------ MODULE PoolCtrl ------------------------------
(***************************************************************************)
(* rtl/composites/pooling/pool_ctrl.sv: maximum or average over windows of *)
(* a channel-last tensor, one read per window cell.                        *)
(***************************************************************************)
EXTENDS BackendPorts

VARIABLE pl     \* the controller's registers

PoolAt(s) == pl.state = s

\* ih_w and iw_w.
pool_ih == pl.oh_base_r + pl.r_r - pl.cmd.pad_h
pool_iw == pl.ow_base_r + pl.s_r - pl.cmd.pad_w

oob_w == pool_ih < 0 \/ pool_ih >= pl.cmd.in_h \/ pool_iw < 0 \/ pool_iw >= pl.cmd.in_w

rd_addr_w ==
    uint16(pl.cmd.in_addr + uint16(pool_ih) * uint16(pl.cmd.in_w * pl.cmd.in_c)
                          + uint16(pool_iw) * pl.cmd.in_c + pl.c_r)

\* pool_area_r: only the low half of each extent is multiplied.
pool_area(cmd) ==
    (cmd.pool_r % 2^(DIM_W \div 2)) * (cmd.pool_s % 2^(DIM_W \div 2))

last_inner_w ==
    pl.r_r = uint32(pl.cmd.pool_r - 1) /\ pl.s_r = uint32(pl.cmd.pool_s - 1)

last_output_w ==
    /\ pl.oh_r = uint32(pl.cmd.out_h - 1)
    /\ pl.ow_r = uint32(pl.cmd.out_w - 1)
    /\ pl.c_r = uint32(pl.cmd.in_c - 1)

\* The accumulator before the first cell of a window.
ClearedAcc == IF pl.cmd.pool_mode = 0 THEN -128 ELSE 0

PoolAccept(cmd) ==
    /\ PoolAt("S_IDLE")
    /\ pl' = [pl EXCEPT !.state = "S_LOAD_CFG", !.cmd = cmd]
    /\ NoAccess

PoolLoadCfg ==
    /\ PoolAt("S_LOAD_CFG")
    /\ pl' = [pl EXCEPT !.state = "S_RD", !.oh_r = 0, !.ow_r = 0, !.c_r = 0,
                        !.oh_base_r = 0, !.ow_base_r = 0, !.out_pix_base_r = 0,
                        !.r_r = 0, !.s_r = 0, !.acc_r = ClearedAcc, !.has_valid_r = FALSE]
    /\ NoAccess

PoolSkip ==
    /\ PoolAt("S_RD") /\ oob_w
    /\ pl' = [pl EXCEPT !.state = "S_NEXT"]
    /\ NoAccess

PoolRead ==
    /\ PoolAt("S_RD") /\ ~ oob_w
    /\ pl' = [pl EXCEPT !.state = "S_WAIT"]
    /\ ReadAct(rd_addr_w)

PoolWait ==
    /\ PoolAt("S_WAIT") /\ act_rd.rvalid
    /\ pl' = [pl EXCEPT
                !.state = "S_NEXT", !.has_valid_r = TRUE,
                !.acc_r = IF pl.cmd.pool_mode # 0 THEN @ + act_rd.rdata
                          ELSE IF ~ pl.has_valid_r \/ act_rd.rdata > @ THEN act_rd.rdata ELSE @]
    /\ NoAccess

PoolNextCell ==
    /\ PoolAt("S_NEXT") /\ ~ last_inner_w
    /\ LET more == pl.s_r < uint32(pl.cmd.pool_s - 1)
       IN pl' = [pl EXCEPT !.state = "S_RD",
                           !.s_r = IF more THEN uint16(@ + 1) ELSE 0,
                           !.r_r = IF more THEN @ ELSE uint16(@ + 1)]
    /\ NoAccess

PoolWindowEnd ==
    /\ PoolAt("S_NEXT") /\ last_inner_w
    /\ IF pl.cmd.pool_mode = 0
       THEN pl' = [pl EXCEPT !.state = "S_WR"]
       ELSE pl' = [pl EXCEPT !.state = "S_AVG_DIV", !.div_sign_r = pl.acc_r < 0,
                             !.div = div_start(IF pl.acc_r < 0 THEN -pl.acc_r ELSE pl.acc_r,
                                               pool_area(pl.cmd))]
    /\ NoAccess

PoolAvgDiv ==
    /\ PoolAt("S_AVG_DIV")
    /\ pl' = [pl EXCEPT !.state = IF pl.div.cnt = 0 THEN "S_WR" ELSE @, !.div = div_step(@)]
    /\ NoAccess

result_w ==
    LET quot == pl.div.quot % 2^(ACC_W - 1)
    IN sat8(IF pl.cmd.pool_mode = 0 THEN pl.acc_r ELSE IF pl.div_sign_r THEN -quot ELSE quot)

\* The loops over channel, column and row of the output.
NextOutput(p) ==
    IF p.c_r < uint32(p.cmd.in_c - 1) THEN [p EXCEPT !.c_r = uint16(@ + 1)]
    ELSE LET q == [p EXCEPT !.c_r = 0, !.out_pix_base_r = uint16(@ + p.cmd.in_c)]
         IN IF p.ow_r < uint32(p.cmd.out_w - 1)
            THEN [q EXCEPT !.ow_r = uint16(@ + 1), !.ow_base_r = @ + p.cmd.stride_w]
            ELSE [q EXCEPT !.ow_r = 0, !.ow_base_r = 0,
                           !.oh_r = uint16(@ + 1), !.oh_base_r = @ + p.cmd.stride_h]

PoolWrite ==
    /\ PoolAt("S_WR")
    /\ pl' = [IF last_output_w THEN pl ELSE NextOutput(pl) EXCEPT
                !.state = IF last_output_w THEN "S_DONE" ELSE "S_RD",
                !.r_r = 0, !.s_r = 0, !.acc_r = ClearedAcc, !.has_valid_r = FALSE]
    /\ WriteAct(pl.cmd.out_addr + pl.out_pix_base_r + pl.c_r, result_w)

PoolDone ==
    /\ PoolAt("S_DONE")
    /\ pl' = [pl EXCEPT !.state = "S_IDLE"]
    /\ NoAccess

PoolStep ==
    \/ PoolLoadCfg \/ PoolSkip \/ PoolRead \/ PoolWait \/ PoolNextCell
    \/ PoolWindowEnd \/ PoolAvgDiv \/ PoolWrite \/ PoolDone

PoolInit ==
    pl = [state |-> "S_IDLE",
          cmd |-> [in_addr |-> 0, out_addr |-> 0, in_h |-> 0, in_w |-> 0, in_c |-> 0,
                   pool_r |-> 0, pool_s |-> 0, stride_h |-> 0, stride_w |-> 0,
                   pad_h |-> 0, pad_w |-> 0, out_h |-> 0, out_w |-> 0, pool_mode |-> 0],
          oh_r |-> 0, ow_r |-> 0, c_r |-> 0, oh_base_r |-> 0, ow_base_r |-> 0,
          out_pix_base_r |-> 0, r_r |-> 0, s_r |-> 0, acc_r |-> 0, has_valid_r |-> FALSE,
          div |-> [quot |-> 0, rem |-> 0, denom |-> 0, cnt |-> 0], div_sign_r |-> FALSE]
=============================================================================
