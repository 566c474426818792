--------------------------- MODULE CommandBuilder ---------------------------
(***************************************************************************)
(* sw/runtime/command_builder.c: the six functions that pack typed         *)
(* parameters into the 16 words of a descriptor, which the caller reuses   *)
(* from one command to the next.  Beside it the two other readings of the  *)
(* same layout, written independently: the fields npu_cmd_decode.sv takes  *)
(* out of the words, and the packing of the integration tests' to_words.   *)
(*                                                                         *)
(* The quantisation shift and the activation mode keep their 5 and 2 bits  *)
(* and the 8-bit fields their values.                                      *)
(***************************************************************************)
EXTENDS FixedWidth, FiniteSets

CONSTANTS
    ConvParams, GemmParams, SoftmaxParams, VecParams, LnormParams, PoolParams,
    Garbage         \* what an uninitialised descriptor word holds

uint16_t == 0 .. 2^DIM_W - 1
uint8_t == 0 .. 255

\* The parameter structures of sw/uapi/lgnpu_cmd.h.
npu_conv_params ==
    [act_in_addr : uint16_t, act_out_addr : uint16_t, weight_addr : uint16_t, bias_addr : uint16_t,
     in_h : uint16_t, in_w : uint16_t, in_c : uint16_t, out_k : uint16_t,
     filt_r : uint16_t, filt_s : uint16_t, stride_h : uint16_t, stride_w : uint16_t,
     pad_h : uint16_t, pad_w : uint16_t, out_h : uint16_t, out_w : uint16_t,
     quant_shift : uint8_t, act_mode : uint8_t]

npu_gemm_params ==
    [a_addr : uint16_t, c_addr : uint16_t, b_addr : uint16_t, bias_addr : uint16_t,
     M : uint16_t, N : uint16_t, K : uint16_t, quant_shift : uint8_t, act_mode : uint8_t]

npu_softmax_params ==
    [in_addr : uint16_t, out_addr : uint16_t, num_rows : uint16_t, row_len : uint16_t]

npu_vec_params ==
    [a_addr : uint16_t, out_addr : uint16_t, b_addr : uint16_t, length : uint16_t,
     vec_op : uint8_t, quant_shift : uint8_t, act_mode : uint8_t]

npu_lnorm_params ==
    [in_addr : uint16_t, out_addr : uint16_t, num_rows : uint16_t, row_len : uint16_t,
     norm_shift : uint8_t]

npu_pool_params ==
    [in_addr : uint16_t, out_addr : uint16_t, in_h : uint16_t, in_w : uint16_t, in_c : uint16_t,
     pool_r : uint16_t, pool_s : uint16_t, stride_h : uint16_t, stride_w : uint16_t,
     pad_h : uint16_t, pad_w : uint16_t, out_h : uint16_t, out_w : uint16_t, pool_mode : uint8_t]

ASSUME ParamsAssumption ==
    /\ ConvParams \subseteq npu_conv_params /\ GemmParams \subseteq npu_gemm_params
    /\ SoftmaxParams \subseteq npu_softmax_params /\ VecParams \subseteq npu_vec_params
    /\ LnormParams \subseteq npu_lnorm_params /\ PoolParams \subseteq npu_pool_params

VARIABLES
    desc,   \* the 16 words of the caller's struct npu_cmd_desc
    made    \* history: the operation and the parameters of the last build

builder_vars == <<desc, made>>

\* lo | (hi << 16)
Packed(lo, hi) == uint32(lo + hi * 2^DIM_W)

\* (quant_shift & 0x1F) | ((act_mode & 3) << 5)
PackedPost(p) == (p.quant_shift % 32) + 32 * (p.act_mode % 4)

\* Mutant: the descriptor's old words stay.
cmd_clearNot == desc

cmd_clear == [i \in 0 .. 15 |-> 0]

\* Mutant: one window position short.
derive_out_dimShort(in_dim, pad, filt, stride, provided) ==
    IF provided # 0 THEN provided
    ELSE IF stride = 0 THEN 0
    ELSE uint16(uint32(in_dim + 2 * pad - filt) \div stride)

derive_out_dim(in_dim, pad, filt, stride, provided) ==
    IF provided # 0 THEN provided
    ELSE IF stride = 0 THEN 0
    ELSE uint16(uint32(in_dim + 2 * pad - filt) \div stride + 1)

-----------------------------------------------------------------------------
npu_cmd_build_conv(p) ==
    LET out_h == derive_out_dim(p.in_h, p.pad_h, p.filt_r, p.stride_h, p.out_h)
        out_w == derive_out_dim(p.in_w, p.pad_w, p.filt_s, p.stride_w, p.out_w)
    IN [cmd_clear EXCEPT
            ![0] = 1, ![1] = p.act_in_addr, ![2] = p.act_out_addr,
            ![3] = p.weight_addr, ![4] = p.bias_addr,
            ![5] = p.in_h, ![6] = p.in_w, ![7] = p.in_c, ![8] = p.out_k,
            ![9] = p.filt_r, ![10] = p.filt_s,
            ![11] = p.stride_h, ![12] = p.stride_w,
            ![13] = Packed(p.pad_h, out_h), ![14] = Packed(p.pad_w, out_w),
            ![15] = PackedPost(p)]

npu_cmd_build_gemm(p) ==
    [cmd_clear EXCEPT
        ![0] = 2, ![1] = p.a_addr, ![2] = p.c_addr, ![3] = p.b_addr,
        ![4] = p.bias_addr, ![5] = p.M, ![6] = p.N, ![7] = p.K,
        ![15] = PackedPost(p)]

npu_cmd_build_softmax(p) ==
    [cmd_clear EXCEPT
        ![0] = 3, ![1] = p.in_addr, ![2] = p.out_addr,
        ![5] = p.num_rows, ![6] = p.row_len]

npu_cmd_build_vec(p) ==
    [cmd_clear EXCEPT
        ![0] = 4, ![1] = p.a_addr, ![2] = p.out_addr, ![3] = p.b_addr,
        ![5] = p.length, ![6] = p.vec_op, ![15] = PackedPost(p)]

npu_cmd_build_lnorm(p) ==
    [cmd_clear EXCEPT
        ![0] = 5, ![1] = p.in_addr, ![2] = p.out_addr,
        ![5] = p.num_rows, ![6] = p.row_len, ![15] = p.norm_shift % 32]

npu_cmd_build_pool(p) ==
    LET out_h == derive_out_dim(p.in_h, p.pad_h, p.pool_r, p.stride_h, p.out_h)
        out_w == derive_out_dim(p.in_w, p.pad_w, p.pool_s, p.stride_w, p.out_w)
    IN [cmd_clear EXCEPT
            ![0] = 6, ![1] = p.in_addr, ![2] = p.out_addr,
            ![5] = p.in_h, ![6] = p.in_w, ![7] = p.in_c,
            ![9] = p.pool_r, ![10] = p.pool_s,
            ![11] = p.stride_h, ![12] = p.stride_w,
            ![13] = Packed(p.pad_h, out_h), ![14] = Packed(p.pad_w, out_w),
            ![15] = p.pool_mode % 2]

Built(op, p, words) ==
    /\ desc' = words
    /\ made' = [op |-> op, p |-> p]

Build ==
    \/ \E p \in ConvParams : Built("conv", p, npu_cmd_build_conv(p))
    \/ \E p \in GemmParams : Built("gemm", p, npu_cmd_build_gemm(p))
    \/ \E p \in SoftmaxParams : Built("softmax", p, npu_cmd_build_softmax(p))
    \/ \E p \in VecParams : Built("vec", p, npu_cmd_build_vec(p))
    \/ \E p \in LnormParams : Built("lnorm", p, npu_cmd_build_lnorm(p))
    \/ \E p \in PoolParams : Built("pool", p, npu_cmd_build_pool(p))

BuilderInit ==
    /\ desc = [i \in 0 .. 15 |-> Garbage]
    /\ made = [op |-> "none"]

-----------------------------------------------------------------------------
(***************************************************************************)
(* npu_cmd_decode.sv: the fields the device takes out of the words.        *)
(***************************************************************************)
cmd_r(words) ==
    [opcode |-> words[0] % 16,
     act_in_addr |-> uint16(words[1]), act_out_addr |-> uint16(words[2]),
     weight_addr |-> uint16(words[3]), bias_addr |-> uint16(words[4]),
     in_h |-> uint16(words[5]), in_w |-> uint16(words[6]),
     in_c |-> uint16(words[7]), out_k |-> uint16(words[8]),
     filt_r |-> uint16(words[9]), filt_s |-> uint16(words[10]),
     stride_h |-> uint16(words[11]), stride_w |-> uint16(words[12]),
     pad_h |-> uint16(words[13]), pad_w |-> uint16(words[14]),
     out_h |-> words[13] \div 2^DIM_W, out_w |-> words[14] \div 2^DIM_W,
     quant_shift |-> words[15] % 32, act_mode |-> (words[15] \div 32) % 4]

INSTANCE NpuCmdPkg WITH Cmd <- {cmd_r(desc)}, ZeroCmd <- cmd_r(desc)

-----------------------------------------------------------------------------
(***************************************************************************)
(* tb/integration/npu_tb.h: the descriptor structures of the integration   *)
(* tests.  Their fields are uint32_t; they are compared on the values the  *)
(* runtime's structures can hold.                                          *)
(***************************************************************************)
\* The output extent of ConvDesc::to_words and PoolDesc::to_words.
BenchExtent(in, pad, filt, stride, out) ==
    IF out = 0 /\ stride # 0
    THEN uint32(uint32(in + 2 * pad - filt) \div stride + 1)
    ELSE out

\* std::memset of the 16 words.
Zeroed == [i \in 0 .. 15 |-> 0]

ConvDesc_to_words(p) ==
    LET oh == BenchExtent(p.in_h, p.pad_h, p.filt_r, p.stride_h, p.out_h)
        ow == BenchExtent(p.in_w, p.pad_w, p.filt_s, p.stride_w, p.out_w)
        out == <<p.act_in_addr, p.act_out_addr, p.weight_addr, p.bias_addr,
                 p.in_h, p.in_w, p.in_c, p.out_k, p.filt_r, p.filt_s,
                 p.stride_h, p.stride_w,
                 uint16(p.pad_h) + uint16(oh) * 2^DIM_W,
                 uint16(p.pad_w) + uint16(ow) * 2^DIM_W,
                 (p.quant_shift % 32) + (p.act_mode % 4) * 32>>
    IN [i \in 0 .. 15 |-> IF i = 0 THEN opcode_e.OP_CONV ELSE out[i]]

GemmDesc_to_words(p) ==
    [Zeroed EXCEPT
        ![0] = opcode_e.OP_GEMM, ![1] = p.a_addr, ![2] = p.c_addr,
        ![3] = p.b_addr, ![4] = p.bias_addr, ![5] = p.M, ![6] = p.N, ![7] = p.K,
        ![15] = (p.quant_shift % 32) + (p.act_mode % 4) * 32]

SoftmaxDesc_to_words(p) ==
    [Zeroed EXCEPT
        ![0] = opcode_e.OP_SOFTMAX, ![1] = p.in_addr, ![2] = p.out_addr,
        ![5] = p.num_rows, ![6] = p.row_len]

VecDesc_to_words(p) ==
    [Zeroed EXCEPT
        ![0] = opcode_e.OP_VEC, ![1] = p.a_addr, ![2] = p.out_addr,
        ![3] = p.b_addr, ![5] = p.length, ![6] = p.vec_op,
        ![15] = (p.quant_shift % 32) + (p.act_mode % 4) * 32]

LnormDesc_to_words(p) ==
    [Zeroed EXCEPT
        ![0] = opcode_e.OP_LNORM, ![1] = p.in_addr, ![2] = p.out_addr,
        ![5] = p.num_rows, ![6] = p.row_len, ![15] = p.norm_shift % 32]

PoolDesc_to_words(p) ==
    LET oh == BenchExtent(p.in_h, p.pad_h, p.pool_r, p.stride_h, p.out_h)
        ow == BenchExtent(p.in_w, p.pad_w, p.pool_s, p.stride_w, p.out_w)
    IN [Zeroed EXCEPT
            ![0] = opcode_e.OP_POOL, ![1] = p.in_addr, ![2] = p.out_addr,
            ![5] = p.in_h, ![6] = p.in_w, ![7] = p.in_c,
            ![9] = p.pool_r, ![10] = p.pool_s,
            ![11] = p.stride_h, ![12] = p.stride_w,
            ![13] = uint16(p.pad_h) + uint16(oh) * 2^DIM_W,
            ![14] = uint16(p.pad_w) + uint16(ow) * 2^DIM_W,
            ![15] = p.pool_mode % 2]

to_words(op, p) ==
    CASE op = "conv"    -> ConvDesc_to_words(p)
      [] op = "gemm"    -> GemmDesc_to_words(p)
      [] op = "softmax" -> SoftmaxDesc_to_words(p)
      [] op = "vec"     -> VecDesc_to_words(p)
      [] op = "lnorm"   -> LnormDesc_to_words(p)
      [] op = "pool"    -> PoolDesc_to_words(p)

-----------------------------------------------------------------------------
\* The number of positions of a window of filt cells, moved by stride, that
\* lie within in cells with pad cells of padding on both sides: the extent
\* of the output.
WindowPositions(in, pad, filt, stride) ==
    Cardinality({i \in 0 .. in + 2 * pad : i * stride + filt <= in + 2 * pad})

\* A provided extent, or a window that fits and moves.
Extent(in, pad, filt, stride, out) ==
    IF out # 0 THEN {out}
    ELSE IF stride # 0 /\ filt <= in + 2 * pad
         THEN {WindowPositions(in, pad, filt, stride) % 2^DIM_W}
         ELSE 0 .. 2^DIM_W - 1

\* The fields r of a decoded command are those asked for by p, renamed.
Asks(p, r) == \A f \in DOMAIN r : f \in DOMAIN p => r[f] = p[f]

\* What the device makes of the descriptor is what the caller asked for:
\* every backend's view of the decoded command carries the parameters given
\* to the builder, truncated only where the structure is wider than the
\* field, and an output extent left at 0 becomes the number of windows that
\* fit.  (A window larger than its padded input, or a stride of 0, is not
\* refused: nothing is said of the extent then.)
DescriptorDecodes ==
    LET cmd == cmd_r(desc)
        p == made.p
    IN CASE made.op = "none" -> TRUE
         [] made.op = "conv" ->
              /\ cmd.opcode = opcode_e.OP_CONV
              /\ Asks([p EXCEPT !.quant_shift = @ % 32, !.act_mode = @ % 4,
                                !.out_h = cmd.out_h, !.out_w = cmd.out_w], cmd)
              /\ cmd.out_h \in Extent(p.in_h, p.pad_h, p.filt_r, p.stride_h, p.out_h)
              /\ cmd.out_w \in Extent(p.in_w, p.pad_w, p.filt_s, p.stride_w, p.out_w)
         [] made.op = "gemm" ->
              LET v == conv_to_gemm_cmd(cmd)
              IN /\ cmd.opcode = opcode_e.OP_GEMM
                 /\ Asks([p EXCEPT !.quant_shift = @ % 32, !.act_mode = @ % 4], v)
                 /\ <<v.m_dim, v.n_dim, v.k_dim>> = <<p.M, p.N, p.K>>
         [] made.op = "softmax" ->
              /\ cmd.opcode = opcode_e.OP_SOFTMAX
              /\ conv_to_softmax_cmd(cmd) = p
         [] made.op = "vec" ->
              /\ cmd.opcode = opcode_e.OP_VEC
              /\ conv_to_vec_cmd(cmd) =
                   [p EXCEPT !.vec_op = @ % 2, !.quant_shift = @ % 32, !.act_mode = @ % 4]
         [] made.op = "lnorm" ->
              /\ cmd.opcode = opcode_e.OP_LNORM
              /\ conv_to_lnorm_cmd(cmd) = [p EXCEPT !.norm_shift = @ % 32]
         [] made.op = "pool" ->
              LET v == conv_to_pool_cmd(cmd)
              IN /\ cmd.opcode = opcode_e.OP_POOL
                 /\ v = [p EXCEPT !.pool_mode = @ % 2, !.out_h = v.out_h, !.out_w = v.out_w]
                 /\ v.out_h \in Extent(p.in_h, p.pad_h, p.pool_r, p.stride_h, p.out_h)
                 /\ v.out_w \in Extent(p.in_w, p.pad_w, p.pool_s, p.stride_w, p.out_w)

\* The runtime's builder and the packing of the integration tests give the
\* same words for the same parameters, whatever the descriptor held before,
\* also where the extent wraps: what those tests show of the device under
\* their own packing holds under the runtime's.
BuilderMatchesBench == made.op # "none" => desc = to_words(made.op, made.p)
=============================================================================
