----------------------------- MODULE MCRuntime ------------------------------
(***************************************************************************)
(* Dimensions of 4 bits.  Geometries cover windows that fit, just fit and  *)
(* do not fit, strides 0 to 2, and sizes at the top of the range, where    *)
(* padded coordinates leave it; the 8-bit fields hold values above their   *)
(* masks.  Tensors cover both layouts, all error returns, a product that   *)
(* overflows uint32_t though the buffer holds it (9 x 15 x 2), and one     *)
(* that is accepted and overflows int in its last column (1 x 14 x 10).    *)
(***************************************************************************)
EXTENDS Runtime

\* (in, pad, filt, stride, provided out)
Axes == {<<2, 0, 2, 1, 0>>, <<2, 1, 3, 2, 0>>, <<1, 0, 2, 1, 0>>, <<2, 1, 1, 0, 0>>,
         <<2, 0, 1, 1, 3>>, <<15, 15, 2, 1, 0>>, <<15, 0, 15, 2, 0>>, <<15, 15, 15, 2, 0>>,
         <<0, 0, 1, 1, 0>>, <<1, 15, 15, 3, 0>>, <<3, 1, 2, 2, 0>>, <<1, 0, 1, 1, 0>>}

Shifts == {<<0, 0>>, <<3, 2>>, <<33, 5>>, <<255, 255>>}

MCConvParams ==
    {[act_in_addr |-> a, act_out_addr |-> 9, weight_addr |-> 10, bias_addr |-> 11,
      in_h |-> y[1], in_w |-> x[1], in_c |-> c, out_k |-> 5,
      filt_r |-> y[3], filt_s |-> x[3], stride_h |-> y[4], stride_w |-> x[4],
      pad_h |-> y[2], pad_w |-> x[2], out_h |-> y[5], out_w |-> x[5],
      quant_shift |-> 33, act_mode |-> 6] :
        a \in {1, 12}, y \in Axes, x \in Axes, c \in {1, 2}}

MCPoolParams ==
    {[in_addr |-> 7, out_addr |-> 9,
      in_h |-> y[1], in_w |-> x[1], in_c |-> 2,
      pool_r |-> y[3], pool_s |-> x[3], stride_h |-> y[4], stride_w |-> x[4],
      pad_h |-> y[2], pad_w |-> x[2], out_h |-> y[5], out_w |-> x[5],
      pool_mode |-> q] : y \in Axes, x \in Axes, q \in {1, 254}}

MCGemmParams ==
    {[a_addr |-> 1, c_addr |-> 2, b_addr |-> 3, bias_addr |-> 4, M |-> 5, N |-> 6, K |-> 15,
      quant_shift |-> q[1], act_mode |-> q[2]] : q \in Shifts}

MCVecParams ==
    {[a_addr |-> 1, out_addr |-> 2, b_addr |-> 3, length |-> 15, vec_op |-> v,
      quant_shift |-> q[1], act_mode |-> q[2]] : q \in Shifts, v \in {0, 1, 255}}

MCSoftmaxParams == {[in_addr |-> 1, out_addr |-> 2, num_rows |-> 3, row_len |-> 15]}

MCLnormParams ==
    {[in_addr |-> 1, out_addr |-> 2, num_rows |-> 3, row_len |-> 15, norm_shift |-> q] :
        q \in {0, 31, 32, 255}}

MCTensors ==
    {[base_addr |-> a, dim_n |-> d[1], dim_h |-> d[2], dim_w |-> d[3], dim_c |-> d[4], layout |-> l] :
        a \in {1, 12}, l \in {"NHWC", "NCHW", "OTHER"},
        d \in {<<1, 1, 1, 1>>, <<1, 2, 2, 2>>, <<1, 2, 3, 2>>, <<1, 3, 2, 1>>, <<1, 1, 15, 1>>,
               <<1, 15, 1, 1>>, <<1, 1, 1, 2>>, <<1, 1, 2, 2>>, <<1, 0, 2, 2>>, <<2, 1, 2, 2>>,
               <<1, 15, 15, 2>>}}
    \cup
    {[base_addr |-> 1, dim_n |-> 1, dim_h |-> d[1], dim_w |-> d[2], dim_c |-> d[3], layout |-> l] :
        l \in {"NHWC", "NCHW"}, d \in {<<1, 14, 10>>, <<9, 15, 2>>}}
=============================================================================
