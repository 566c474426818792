---------------------------- MODULE ConvAddrGen -----------------------------
(***************************************************************************)
(* The addresses the multiply-accumulate backends compute from a command   *)
(* and their loop indices: rtl/backends/conv/conv_addr_gen.sv and          *)
(* rtl/backends/gemm/gemm_addr_gen.sv.  Both are pipelines that hold one   *)
(* iteration at a time; here an address is a function of its iteration.    *)
(***************************************************************************)
EXTENDS FixedWidth

\* Mutant: coordinates that cannot be negative.
in_calcUnsigned(o, stride, r, pad) == uint16(o * stride + r - pad)

\* ih_calc_w and iw_calc_w, logic signed [DIM_W:0].
in_calc(o, stride, r, pad) == signed17(o * stride + r - pad)

zero_pad(cmd, oh, ow, r, s) ==
    LET ih == in_calc(oh, cmd.stride_h, r, cmd.pad_h)
        iw == in_calc(ow, cmd.stride_w, s, cmd.pad_w)
    IN ih < 0 \/ ih >= cmd.in_h \/ iw < 0 \/ iw >= cmd.in_w

\* Stages 1 to 3: 32-bit products, the index and the sum narrowed to ADDR_W.
act_addr(cmd, oh, ow, r, s, c) ==
    LET ih == uint16(in_calc(oh, cmd.stride_h, r, cmd.pad_h))
        iw == uint16(in_calc(ow, cmd.stride_w, s, cmd.pad_w))
    IN uint16(cmd.act_in_addr + uint32(uint32(ih * cmd.in_w + iw) * cmd.in_c) + c)

wt_addr(cmd, k, r, s, c) ==
    LET row == uint32((k * cmd.filt_r + r) * cmd.filt_s)
    IN uint16(cmd.weight_addr + uint32((row + s) * cmd.in_c + c))

a_addr(cmd, m, k_idx) == uint16(cmd.a_addr + m * cmd.k_dim + k_idx)

b_addr(cmd, k_idx, n) == uint16(cmd.b_addr + k_idx * cmd.n_dim + n)
=============================================================================
