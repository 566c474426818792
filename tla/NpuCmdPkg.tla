----------------------------- MODULE NpuCmdPkg -----------------------------
(***************************************************************************)
(* include/pkg/npu_cmd_pkg.sv: the opcodes, the decoded command conv_cmd_t *)
(* that the queue stores, the scheduler holds and a backend latches, and   *)
(* the views of it that the other backends take.  What a command is made   *)
(* of matters to the runtime's command builder only, so the set of         *)
(* commands is a parameter and the views apply where it is a set of        *)
(* records.                                                                *)
(***************************************************************************)
LOCAL INSTANCE Integers

CONSTANTS
    Cmd,        \* the values of a decoded command
    ZeroCmd     \* the all-zero command, reset value of the registers

ASSUME ZeroCmdAssumption == ZeroCmd \in Cmd

opcode_e == [OP_CONV |-> 1, OP_GEMM |-> 2, OP_SOFTMAX |-> 3,
             OP_VEC |-> 4, OP_LNORM |-> 5, OP_POOL |-> 6]

-----------------------------------------------------------------------------
\* The fields of conv_cmd_t under the names of each backend.
conv_to_gemm_cmd(cmd) ==
    [a_addr |-> cmd.act_in_addr, c_addr |-> cmd.act_out_addr,
     b_addr |-> cmd.weight_addr, bias_addr |-> cmd.bias_addr,
     m_dim |-> cmd.in_h, n_dim |-> cmd.in_w, k_dim |-> cmd.in_c,
     quant_shift |-> cmd.quant_shift, act_mode |-> cmd.act_mode]

conv_to_softmax_cmd(cmd) ==
    [in_addr |-> cmd.act_in_addr, out_addr |-> cmd.act_out_addr,
     num_rows |-> cmd.in_h, row_len |-> cmd.in_w]

conv_to_vec_cmd(cmd) ==
    [a_addr |-> cmd.act_in_addr, out_addr |-> cmd.act_out_addr,
     b_addr |-> cmd.weight_addr, length |-> cmd.in_h, vec_op |-> cmd.in_w % 2,
     quant_shift |-> cmd.quant_shift, act_mode |-> cmd.act_mode]

conv_to_lnorm_cmd(cmd) ==
    [in_addr |-> cmd.act_in_addr, out_addr |-> cmd.act_out_addr,
     num_rows |-> cmd.in_h, row_len |-> cmd.in_w, norm_shift |-> cmd.quant_shift]

conv_to_pool_cmd(cmd) ==
    [in_addr |-> cmd.act_in_addr, out_addr |-> cmd.act_out_addr,
     in_h |-> cmd.in_h, in_w |-> cmd.in_w, in_c |-> cmd.in_c,
     pool_r |-> cmd.filt_r, pool_s |-> cmd.filt_s,
     stride_h |-> cmd.stride_h, stride_w |-> cmd.stride_w,
     pad_h |-> cmd.pad_h, pad_w |-> cmd.pad_w,
     out_h |-> cmd.out_h, out_w |-> cmd.out_w, pool_mode |-> cmd.quant_shift % 2]
=============================================================================
