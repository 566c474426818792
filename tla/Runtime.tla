------------------------------ MODULE Runtime -------------------------------
(***************************************************************************)
(* A program of the user-space runtime: it converts tensors, reusing its   *)
(* staging buffer, and builds commands, reusing its descriptor; and the    *)
(* address generator of the convolution backend, which reads back what     *)
(* these two prepared (rtl/backends/conv/conv_addr_gen.sv).                *)
(***************************************************************************)
EXTENDS CommandBuilder, TensorDesc, ConvAddrGen

CONSTANT MaxCalls   \* bound: calls the program makes

VARIABLE calls

vars == <<builder_vars, tensor_vars, calls>>

Init ==
    /\ BuilderInit
    /\ TensorInit
    /\ calls = 0

ConvertTensor ==
    /\ IF err = "LOOPING" THEN UNCHANGED calls
       ELSE calls < MaxCalls /\ calls' = calls + 1
    /\ Convert
    /\ UNCHANGED builder_vars

BuildCommand ==
    /\ calls < MaxCalls /\ err # "LOOPING"
    /\ calls' = calls + 1
    /\ Build
    /\ UNCHANGED tensor_vars

\* A null descriptor or parameter pointer: the builder returns -1.
BuildRefused ==
    /\ calls < MaxCalls /\ err # "LOOPING"
    /\ calls' = calls + 1
    /\ UNCHANGED <<builder_vars, tensor_vars>>

Next == ConvertTensor \/ BuildCommand \/ BuildRefused

Spec == Init /\ [][Next]_vars

-----------------------------------------------------------------------------
\* The tensor last converted, within the device's address space, is the
\* input of the convolution last built, whose windows move and fit and whose
\* output extent the builder derived.
ConvOnTensor ==
    /\ err = "OK" /\ made.op = "conv"
    /\ LET p == made.p
       IN /\ <<p.act_in_addr, p.in_h, p.in_w, p.in_c>>
               = <<tensor.base_addr, tensor.dim_h, tensor.dim_w, tensor.dim_c>>
          /\ tensor.base_addr + npu_tensor_byte_size(tensor) <= 2^DIM_W
          /\ 0 \notin {p.stride_h, p.stride_w} /\ <<p.out_h, p.out_w>> = <<0, 0>>
          /\ p.filt_r <= p.in_h + 2 * p.pad_h /\ p.filt_s <= p.in_w + 2 * p.pad_w

\* From the framework's buffer to the multiplier: for a convolution built on
\* a converted tensor loaded at its base address, and every filter tap of
\* every output the command computes, the address generator pads exactly the
\* taps that lie outside the tensor, and otherwise reads the byte that holds
\* the tensor's own element there, also where a padded coordinate does not
\* fit the generator's signed 17 bits.
FetchReadsTensor ==
    ConvOnTensor =>
        LET cmd == cmd_r(desc)
            p == made.p
        IN \A oh \in 0 .. cmd.out_h - 1, ow \in 0 .. cmd.out_w - 1,
              r \in 0 .. p.filt_r - 1, s \in 0 .. p.filt_s - 1, c \in 0 .. p.in_c - 1 :
                LET ih == oh * p.stride_h + r - p.pad_h
                    iw == ow * p.stride_w + s - p.pad_w
                    inside == ih \in 0 .. p.in_h - 1 /\ iw \in 0 .. p.in_w - 1
                IN /\ zero_pad(cmd, oh, ow, r, s) <=> ~ inside
                   /\ inside => dst[act_addr(cmd, oh, ow, r, s, c) - tensor.base_addr]
                                  = Element(tensor, ih, iw, c)
=============================================================================
