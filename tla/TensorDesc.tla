----------------------------- MODULE TensorDesc -----------------------------
(***************************************************************************)
(* sw/runtime/tensor_desc.c and the helpers of sw/uapi/lgnpu_tensor.h:     *)
(* validation of a tensor descriptor and the conversion of a framework's   *)
(* buffer to the channel-last order the device works in.                   *)
(*                                                                         *)
(* Dimensions are uint16_t (DIM_W bits), the element count is checked      *)
(* against uint32_t (2 * DIM_W bits), and size_t does not overflow.  An    *)
(* int has 2 * DIM_W bits with its sign: the index w * C of the permuted   *)
(* store is a product of two uint16_t promoted to int, which overflows     *)
(* for tensors the validation accepts.  That is undefined; the compiled    *)
(* code widens the product to the pointer's width or wraps it.             *)
(*                                                                         *)
(* The source buffer holds distinct values and does not overlap the        *)
(* destination (both pointers are RESTRICT).                               *)
(***************************************************************************)
EXTENDS FixedWidth

CONSTANTS
    Tensors,        \* the tensor descriptors the caller may pass
    BufSizes,       \* the values of buf_bytes
    BufMax          \* size of the source and destination arrays

\* The fields of struct npu_tensor_desc fit their types, the caller does not
\* pass a size its arrays do not have.
ASSUME TensorAssumption ==
    /\ \A t \in Tensors :
           {t.base_addr, t.dim_n, t.dim_h, t.dim_w, t.dim_c} \subseteq 0 .. 2^DIM_W - 1
    /\ Tensors # {}
    /\ BufMax \in Nat /\ BufSizes \subseteq 0 .. BufMax

VARIABLES
    dst,        \* the destination buffer
    tensor,     \* history: the descriptor of the last call
    err,        \* what the last call returned, "LOOPING" inside convert_nchw_to_nhwc
    at,         \* the counters c, h and w of its loops
    wraps,      \* the compiled loop wraps an index that overflows int
    stray       \* history: a store of the last call fell outside dst

tensor_vars == <<dst, tensor, err, at, wraps, stray>>

\* Byte i of the source buffer.
src == [i \in 0 .. BufMax - 1 |-> i + 1]

Layouts == {"NHWC", "NCHW"}

npu_tensor_element_count(t) == t.dim_n * t.dim_h * t.dim_w * t.dim_c

\* INT8: one byte per element.
npu_tensor_byte_size(t) == npu_tensor_element_count(t)

npu_tensor_nhwc_offset(t, n, h, w, c) ==
    t.base_addr + ((n * t.dim_h + h) * t.dim_w + w) * t.dim_c + c

\* __builtin_mul_overflow on uint32_t.
MulOverflow(x, y) == x * y >= 2^DIM_W * 2^DIM_W

\* Mutant: only the first of the two products is checked.
npu_tensor_validateHw(t) ==
    IF 0 \in {t.dim_n, t.dim_h, t.dim_w, t.dim_c} THEN "ZERO_DIM"
    ELSE IF t.dim_n # 1 THEN "BATCH_UNSUP"
    ELSE IF t.layout \notin Layouts THEN "LAYOUT_UNKNOWN"
    ELSE IF MulOverflow(t.dim_h, t.dim_w) THEN "OVERFLOW"
    ELSE "OK"

npu_tensor_validate(t) ==
    IF 0 \in {t.dim_n, t.dim_h, t.dim_w, t.dim_c} THEN "ZERO_DIM"
    ELSE IF t.dim_n # 1 THEN "BATCH_UNSUP"
    ELSE IF t.layout \notin Layouts THEN "LAYOUT_UNKNOWN"
    ELSE IF \/ MulOverflow(t.dim_h, t.dim_w)
            \/ MulOverflow(t.dim_h * t.dim_w, t.dim_c) THEN "OVERFLOW"
    ELSE "OK"

\* The loop nest: c, then h, then w; dim_n is 1, so the loop around them runs once.
NextIteration(t) ==
    IF at.w + 1 < t.dim_w THEN [at EXCEPT !.w = @ + 1]
    ELSE IF at.h + 1 < t.dim_h THEN [at EXCEPT !.w = 0, !.h = @ + 1]
    ELSE [c |-> at.c + 1, h |-> 0, w |-> 0]

\* x fits int.
FitsInt(x) == 2 * x < 2^DIM_W * 2^DIM_W

\* A product of two promoted uint16_t in the compiled code.
int_product(x) == IF wraps /\ ~ FitsInt(x) THEN x - 2^DIM_W * 2^DIM_W ELSE x

\* Mutant: the strides of h and w are swapped.
StoreIndexSwapped(t, wC) == at.c + at.h * t.dim_c + t.dim_h * wC

\* The index in dst of dh[w * C].
StoreIndex(t, wC) == at.c + at.h * (t.dim_w * t.dim_c) + wC

\* The byte of src at sh[w].
LoadIndex(t) == at.c * (t.dim_h * t.dim_w) + at.h * t.dim_w + at.w

\* An iteration; the call returns after the last one.
convert_nchw_to_nhwc ==
    /\ err = "LOOPING"
    /\ LET i == StoreIndex(tensor, int_product(at.w * tensor.dim_c))
       IN IF i \in 0 .. BufMax - 1
          THEN dst' = [dst EXCEPT ![i] = src[LoadIndex(tensor)]] /\ UNCHANGED stray
          ELSE stray' = TRUE /\ UNCHANGED dst
    /\ at' = NextIteration(tensor)
    /\ err' = IF at'.c < tensor.dim_c THEN "LOOPING" ELSE "OK"
    /\ UNCHANGED <<tensor, wraps>>

memmove(total) == [i \in 0 .. BufMax - 1 |-> IF i < total THEN src[i] ELSE dst[i]]

\* What npu_tensor_convert_to_nhwc returns; null: one of its pointers is.
ConvertError(null, t, buf_bytes) ==
    IF null THEN "NULL_PTR"
    ELSE IF npu_tensor_validate(t) # "OK" THEN npu_tensor_validate(t)
    ELSE IF buf_bytes < npu_tensor_byte_size(t) THEN "BUF_TOO_SMALL"
    ELSE "OK"

\* The conversion of this tensor does not overflow int: it has no permuted
\* store, or the last column's index fits.
IntSuffices(t) == t.layout = "NHWC" \/ FitsInt((t.dim_w - 1) * t.dim_c)

\* Everything up to the loops, and what an overflow in them will do.
npu_tensor_convert_to_nhwc(null, t, buf_bytes) ==
    LET ok == ConvertError(null, t, buf_bytes) = "OK"
        loops == ok /\ t.layout = "NCHW"
    IN /\ err # "LOOPING"
       /\ tensor' = t
       /\ err' = IF loops THEN "LOOPING" ELSE ConvertError(null, t, buf_bytes)
       /\ dst' = IF ok /\ ~ loops THEN memmove(npu_tensor_byte_size(t)) ELSE dst
       /\ at' = [c |-> 0, h |-> 0, w |-> 0]
       /\ wraps' \in {FALSE, loops /\ ~ IntSuffices(t)}
       /\ stray' = FALSE

Convert ==
    \/ \E t \in Tensors, n \in BufSizes, null \in BOOLEAN :
           npu_tensor_convert_to_nhwc(null, t, n)
    \/ convert_nchw_to_nhwc

TensorInit ==
    /\ dst = [i \in 0 .. BufMax - 1 |-> 0]
    /\ tensor = CHOOSE t \in Tensors : TRUE
    /\ err = "NULL_PTR"
    /\ at = [c |-> 0, h |-> 0, w |-> 0]
    /\ wraps = FALSE /\ stray = FALSE

-----------------------------------------------------------------------------
\* Element (h, w, c) of a tensor in the caller's buffer, by the definition of
\* its layout.
Element(t, h, w, c) ==
    IF t.layout = "NHWC" THEN src[(h * t.dim_w + w) * t.dim_c + c]
                         ELSE src[(c * t.dim_h + h) * t.dim_w + w]

Positions(t) == (0 .. t.dim_h - 1) \X (0 .. t.dim_w - 1) \X (0 .. t.dim_c - 1)

\* After a successful conversion every element of the caller's tensor is
\* where npu_tensor_nhwc_offset says the device will find it, whatever the
\* buffer held before, provided that the index of the last column fits int:
\* a wider tensor is accepted too, and may return OK without its columns.
ConvertedIsNhwc ==
    err = "OK" /\ IntSuffices(tensor) =>
        \A x \in Positions(tensor) :
            dst[npu_tensor_nhwc_offset(tensor, 0, x[1], x[2], x[3]) - tensor.base_addr]
                = Element(tensor, x[1], x[2], x[3])

\* A step changes only bytes of a tensor that was accepted, and one is
\* accepted only if its element count is what uint32_t can hold: a refused
\* call leaves the destination alone, an accepted one the bytes past it.
\* A store falls outside the destination only where the index of the last
\* column does not fit int.
WritesOnlyTheTensor ==
    [][/\ dst' # dst =>
              /\ err' \in {"OK", "LOOPING"}
              /\ \A i \in 0 .. BufMax - 1 : dst'[i] # dst[i] =>
                     i < tensor'.dim_h * tensor'.dim_w * tensor'.dim_c
              /\ tensor'.dim_h * tensor'.dim_w * tensor'.dim_c < 2^DIM_W * 2^DIM_W
              /\ tensor'.dim_n = 1 /\ tensor'.layout \in Layouts
       /\ stray' => ~ IntSuffices(tensor')]_tensor_vars
=============================================================================
