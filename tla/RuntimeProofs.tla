--------------------------- MODULE RuntimeProofs ----------------------------
(***************************************************************************)
(* Proofs about the runtime: what the command builder packs, what the      *)
(* tensor helpers convert and what the address generator makes of both,    *)
(* for every width of the dimensions, every parameter and every tensor.    *)
(***************************************************************************)
EXTENDS Runtime, FiniteSetTheorems, TLAPS

-----------------------------------------------------------------------------
(***************************************************************************)
(* Arithmetic of a fixed width.                                            *)
(***************************************************************************)
\* Quotient and remainder of a number given by them.
LEMMA DivMod ==
    ASSUME NEW m \in Nat \ {0}, NEW q \in Int, NEW r \in 0 .. m - 1
    PROVE  (q * m + r) \div m = q /\ (q * m + r) % m = r
OBVIOUS

\* Every number is given by them.
LEMMA DivModOf ==
    ASSUME NEW m \in Nat \ {0}, NEW x \in Int
    PROVE  /\ x \div m \in Int /\ x % m \in 0 .. m - 1
           /\ x = (x \div m) * m + (x % m)
OBVIOUS

\* A number within the range is not changed.
LEMMA Small ==
    ASSUME NEW m \in Nat \ {0}, NEW r \in 0 .. m - 1
    PROVE  r % m = r
OBVIOUS

\* Products are monotone.
LEMMA Times ==
    ASSUME NEW a \in Int, NEW b \in Int, NEW m \in Nat, a <= b
    PROVE  a * m <= b * m
OBVIOUS

\* A dim_t keeps its value in 16 and in 32 bits.
LEMMA Fits ==
    /\ 2^DIM_W \in Nat \ {0} /\ 2^DIM_W * 2^DIM_W \in Nat \ {0}
    /\ \A x \in Int : uint16(x) \in uint16_t
    /\ \A x \in uint16_t : uint16(x) = x
    /\ \A x \in 0 .. 2^DIM_W * 2^DIM_W - 1 : uint32(x) = x
<1> DEFINE M == 2^DIM_W
<1>1. M \in Nat \ {0}
    BY DimRangeAssumption
<1> HIDE DEF M
<1>2. M * M \in Nat \ {0}
    BY <1>1
<1>3. \A x \in Int : x % M \in 0 .. M - 1
    BY <1>1, DivModOf
<1>4. \A x \in 0 .. M - 1 : x % M = x
    BY <1>1, Small
<1>5. \A x \in 0 .. M * M - 1 : x % (M * M) = x
    BY <1>2, Small
<1> QED BY <1>1, <1>2, <1>3, <1>4, <1>5 DEF M, uint16, uint16_t, uint32

\* lo | (hi << 16) and the two halves npu_cmd_decode.sv takes out of it.
LEMMA PackedFields ==
    ASSUME NEW lo \in uint16_t, NEW hi \in uint16_t
    PROVE  /\ Packed(lo, hi) = lo + hi * 2^DIM_W
           /\ uint16(Packed(lo, hi)) = lo
           /\ Packed(lo, hi) \div 2^DIM_W = hi
<1> DEFINE M == 2^DIM_W
<1>1. M \in Nat \ {0} /\ lo \in 0 .. M - 1 /\ hi \in 0 .. M - 1
    BY DimRangeAssumption DEF uint16_t
<1>2. Packed(lo, hi) = (lo + hi * M) % (M * M)
    BY DEF Packed, uint32
<1> HIDE DEF M
<1>3. lo + hi * M \in 0 .. M * M - 1 /\ M * M \in Nat \ {0}
    <2>1. hi * M <= (M - 1) * M
        BY <1>1, Times
    <2>2. (M - 1) * M = M * M - M /\ M * M \in Nat /\ hi * M \in Nat /\ M * M > 0
        BY <1>1
    <2> QED BY <2>1, <2>2, <1>1
<1>4. Packed(lo, hi) = lo + hi * M
    BY <1>2, <1>3, Small
<1>5. (hi * M + lo) \div M = hi /\ (hi * M + lo) % M = lo
    BY <1>1, DivMod
<1>6. lo + hi * M = hi * M + lo
    BY <1>1
<1> QED BY <1>4, <1>5, <1>6 DEF M, uint16

\* The word of the quantisation shift and the activation mode.
LEMMA PostFields ==
    ASSUME NEW q \in uint8_t, NEW a \in uint8_t
    PROVE  LET word == (q % 32) + 32 * (a % 4)
           IN  word % 32 = q % 32 /\ (word \div 32) % 4 = a % 4
<1>1. q % 32 \in 0 .. 31 /\ a % 4 \in 0 .. 3
    BY DEF uint8_t
<1>2. ASSUME NEW x \in 0 .. 31, NEW y \in 0 .. 3
      PROVE  (x + 32 * y) % 32 = x /\ ((x + 32 * y) \div 32) % 4 = y
    OBVIOUS
<1> QED BY <1>1, <1>2

-----------------------------------------------------------------------------
(***************************************************************************)
(* The extent of an output.                                                *)
(***************************************************************************)
\* The quotient of derive_out_dim counts the positions of the window.
LEMMA PositionsCounted ==
    ASSUME NEW in \in Nat, NEW pad \in Nat, NEW filt \in Nat, NEW stride \in Nat \ {0},
           filt <= in + 2 * pad
    PROVE  WindowPositions(in, pad, filt, stride) = (in + 2 * pad - filt) \div stride + 1
<1> DEFINE T == in + 2 * pad
           D == T - filt
           q == D \div stride
           S == {i \in 0 .. T : i * stride + filt <= T}
<1>1. T \in Nat /\ D \in Nat /\ D <= T
    OBVIOUS
<1> HIDE DEF D
<1>2. q \in Int /\ D % stride \in 0 .. stride - 1 /\ D = q * stride + (D % stride)
    BY <1>1, DivModOf
<1> DEFINE r == D % stride
<1> USE DEF D
<1> HIDE DEF T, q, r
<1>3. q * stride <= D /\ D < q * stride + stride
    BY <1>1, <1>2 DEF r
<1>4. q \in Nat
    <2> SUFFICES ASSUME q < 0 PROVE FALSE
        BY <1>2
    <2>1. (q + 1) * stride <= 0 * stride
        BY <1>2, Times
    <2>2. (q + 1) * stride = q * stride + stride
        BY <1>2
    <2> QED BY <2>1, <2>2, <1>3, <1>1, <1>2
<1>5. q <= T
    <2>1. q * 1 <= q * stride
        BY <1>4
    <2> QED BY <2>1, <1>1, <1>3, <1>4
<1>6. ASSUME NEW i \in 0 .. T PROVE i * stride + filt <= T <=> i <= q
    <2>1. CASE i <= q
        <3>1. i * stride <= q * stride
            BY <2>1, <1>2, <1>1, Times
        <3> QED BY <3>1, <1>3, <1>1, <1>2, <2>1
    <2>2. CASE i > q
        <3>1. (q + 1) * stride <= i * stride
            BY <2>2, <1>4, <1>1, Times
        <3>2. (q + 1) * stride = q * stride + stride
            BY <1>2
        <3> QED BY <3>1, <3>2, <1>3, <1>1, <1>2, <2>2
    <2> QED BY <2>1, <2>2, <1>1, <1>4
<1>7. S = 0 .. q
    <2>1. \A i \in S : i \in 0 .. q
        BY <1>6, <1>4, <1>1
    <2>2. \A i \in 0 .. q : i \in S
        BY <1>6, <1>5, <1>4, <1>1
    <2> QED BY <2>1, <2>2
<1>8. Cardinality(0 .. q) = q + 1
    BY <1>4, FS_Interval
<1>9. WindowPositions(in, pad, filt, stride) = Cardinality(S)
    BY DEF WindowPositions, T
<1>10. q = (in + 2 * pad - filt) \div stride
    BY DEF T, D, q
<1> HIDE DEF S
<1> QED BY <1>7, <1>8, <1>9, <1>10

\* The 32-bit difference of derive_out_dim does not wrap for a window that fits.
LEMMA NoWrap ==
    ASSUME NEW in \in uint16_t, NEW pad \in uint16_t, NEW filt \in uint16_t,
           filt <= in + 2 * pad
    PROVE  uint32(in + 2 * pad - filt) = in + 2 * pad - filt
<1> DEFINE M == 2^DIM_W
<1>1. M \in Nat /\ M >= 16 /\ in \in 0 .. M - 1 /\ pad \in 0 .. M - 1 /\ filt \in 0 .. M - 1
    BY DimRangeAssumption DEF uint16_t
<1>2. \A x \in 0 .. M * M - 1 : uint32(x) = x
    BY Fits
<1> HIDE DEF M
<1>3. 3 * M <= M * M
    BY <1>1, Times
<1>4. in + 2 * pad - filt \in 0 .. M * M - 1
    BY <1>1, <1>3
<1> QED BY <1>2, <1>4

\* derive_out_dim gives an extent, the right one where there is one.
LEMMA DerivedExtent ==
    ASSUME NEW in \in uint16_t, NEW pad \in uint16_t, NEW filt \in uint16_t,
           NEW stride \in uint16_t, NEW out \in uint16_t
    PROVE  /\ derive_out_dim(in, pad, filt, stride, out) \in uint16_t
           /\ derive_out_dim(in, pad, filt, stride, out) \in Extent(in, pad, filt, stride, out)
<1> DEFINE d == derive_out_dim(in, pad, filt, stride, out)
<1>1. in \in Nat /\ pad \in Nat /\ filt \in Nat /\ stride \in Nat /\ 0 \in uint16_t
    BY DimRangeAssumption DEF uint16_t
<1>2. CASE out # 0
    BY <1>2 DEF derive_out_dim, Extent
<1>3. CASE out = 0 /\ stride = 0
    BY <1>1, <1>3 DEF derive_out_dim, Extent, uint16_t
<1>4. CASE out = 0 /\ stride # 0
    <2> DEFINE u == uint32(in + 2 * pad - filt)
    <2>1. u \in Int
        BY <1>1, Fits, DivModOf DEF uint32
    <2>2. d = uint16(u \div stride + 1)
        BY <1>4 DEF derive_out_dim
    <2>3. u \div stride + 1 \in Int
        BY <2>1, <1>1, <1>4, DivModOf
    <2>4. d \in uint16_t
        BY <2>2, <2>3, Fits
    <2>5. ASSUME filt <= in + 2 * pad
          PROVE  d = WindowPositions(in, pad, filt, stride) % 2^DIM_W
        <3>1. u = in + 2 * pad - filt
            BY <2>5, NoWrap
        <3>2. WindowPositions(in, pad, filt, stride) = (in + 2 * pad - filt) \div stride + 1
            BY <2>5, <1>1, <1>4, PositionsCounted
        <3> QED BY <2>2, <3>1, <3>2 DEF uint16
    <2> QED BY <2>4, <2>5, <1>4 DEF Extent, uint16_t
<1> QED BY <1>2, <1>3, <1>4

\* The extent the bench computes in 32 bits, cut to 16, is derive_out_dim's.
LEMMA SameExtent ==
    ASSUME NEW in \in uint16_t, NEW pad \in uint16_t, NEW filt \in uint16_t,
           NEW stride \in uint16_t, NEW out \in uint16_t
    PROVE  uint16(BenchExtent(in, pad, filt, stride, out))
             = derive_out_dim(in, pad, filt, stride, out)
<1> DEFINE M == 2^DIM_W
<1>1. M \in Nat \ {0} /\ in \in Int /\ pad \in Int /\ filt \in Int /\ stride \in Nat
    BY DimRangeAssumption DEF uint16_t
<1>2. CASE out # 0 \/ stride = 0
    BY <1>2, Fits DEF derive_out_dim, BenchExtent
<1>3. CASE out = 0 /\ stride # 0
    <2> DEFINE u == uint32(in + 2 * pad - filt)
               y == u \div stride + 1
    <2> HIDE DEF M
    <2>1. u \in 0 .. M * M - 1
        <3>1. M * M \in Nat \ {0} /\ in + 2 * pad - filt \in Int
            BY <1>1
        <3>2. (in + 2 * pad - filt) % (M * M) \in 0 .. M * M - 1
            BY <3>1, DivModOf
        <3> QED BY <3>2 DEF uint32, M
    <2> HIDE DEF u
    <2>2. u \div stride \in 0 .. u
        BY <2>1, <1>1, <1>3
    <2> HIDE DEF y
    <2>3. y \in 0 .. M * M
        BY <2>1, <2>2, <1>1 DEF y
    <2>4. uint16(uint32(y)) = uint16(y)
        <3>1. CASE y # M * M
            BY <3>1, <2>3, <1>1, Fits DEF M
        <3>2. CASE y = M * M
            <4>1. M * M \in Nat \ {0} /\ M * M = 1 * (M * M) + 0 /\ M * M = M * M + 0
                BY <1>1
            <4>2. (M * M) % (M * M) = 0
                BY <4>1, DivMod
            <4>3. (M * M) % M = 0 /\ 0 % M = 0
                BY <1>1, <4>1, DivMod, Small
            <4> QED BY <3>2, <4>2, <4>3 DEF uint16, uint32, M
        <3> QED BY <3>1, <3>2
    <2> QED BY <2>4, <1>3 DEF derive_out_dim, BenchExtent, u, y
<1> QED BY <1>2, <1>3

-----------------------------------------------------------------------------
(***************************************************************************)
(* The command builder.                                                    *)
(***************************************************************************)
\* The packed words of the bench are those of the builder.
LEMMA SamePacking ==
    ASSUME NEW in \in uint16_t, NEW pad \in uint16_t, NEW filt \in uint16_t,
           NEW stride \in uint16_t, NEW out \in uint16_t
    PROVE  Packed(pad, derive_out_dim(in, pad, filt, stride, out))
             = uint16(pad) + uint16(BenchExtent(in, pad, filt, stride, out)) * 2^DIM_W
<1>1. derive_out_dim(in, pad, filt, stride, out) \in uint16_t
    BY DerivedExtent
<1>2. uint16(BenchExtent(in, pad, filt, stride, out)) = derive_out_dim(in, pad, filt, stride, out)
    BY SameExtent
<1>3. uint16(pad) = pad
    BY Fits
<1> QED BY <1>1, <1>2, <1>3, PackedFields

\* The words of a convolution.
LEMMA ConvWords ==
    ASSUME NEW p \in npu_conv_params, NEW f, f = npu_cmd_build_conv(p)
    PROVE  /\ f = [i \in 0 .. 15 |-> f[i]]
           /\ f[0] = 1 /\ f[1] = p.act_in_addr /\ f[2] = p.act_out_addr /\ f[3] = p.weight_addr
           /\ f[4] = p.bias_addr /\ f[5] = p.in_h /\ f[6] = p.in_w /\ f[7] = p.in_c
           /\ f[8] = p.out_k /\ f[9] = p.filt_r /\ f[10] = p.filt_s
           /\ f[11] = p.stride_h /\ f[12] = p.stride_w
           /\ f[13] = Packed(p.pad_h, derive_out_dim(p.in_h, p.pad_h, p.filt_r, p.stride_h, p.out_h))
           /\ f[14] = Packed(p.pad_w, derive_out_dim(p.in_w, p.pad_w, p.filt_s, p.stride_w, p.out_w))
           /\ f[15] = PackedPost(p)
<1> DEFINE a == Packed(p.pad_h, derive_out_dim(p.in_h, p.pad_h, p.filt_r, p.stride_h, p.out_h))
           b == Packed(p.pad_w, derive_out_dim(p.in_w, p.pad_w, p.filt_s, p.stride_w, p.out_w))
           q == PackedPost(p)
<1>1. f = [cmd_clear EXCEPT
        ![0] = 1, ![1] = p.act_in_addr, ![2] = p.act_out_addr, ![3] = p.weight_addr,
        ![4] = p.bias_addr, ![5] = p.in_h, ![6] = p.in_w, ![7] = p.in_c, ![8] = p.out_k,
        ![9] = p.filt_r, ![10] = p.filt_s, ![11] = p.stride_h, ![12] = p.stride_w,
        ![13] = a, ![14] = b, ![15] = q]
    BY DEF npu_cmd_build_conv
<1> HIDE DEF a, b, q
<1>2. PICK h : h = [cmd_clear EXCEPT
        ![0] = 1, ![1] = p.act_in_addr, ![2] = p.act_out_addr, ![3] = p.weight_addr,
        ![4] = p.bias_addr, ![5] = p.in_h, ![6] = p.in_w, ![7] = p.in_c]
    OBVIOUS
<1>3. f = [h EXCEPT ![8] = p.out_k, ![9] = p.filt_r, ![10] = p.filt_s, ![11] = p.stride_h,
                    ![12] = p.stride_w, ![13] = a, ![14] = b, ![15] = q]
    BY <1>1, <1>2
<1>4. h = [i \in 0 .. 15 |-> h[i]]
    BY <1>2 DEF cmd_clear
<1>5. /\ h[0] = 1 /\ h[1] = p.act_in_addr /\ h[2] = p.act_out_addr /\ h[3] = p.weight_addr
      /\ h[4] = p.bias_addr /\ h[5] = p.in_h /\ h[6] = p.in_w /\ h[7] = p.in_c
    BY <1>2 DEF cmd_clear
<1>6. f = [i \in 0 .. 15 |-> f[i]]
    BY <1>3, <1>4
<1>7. /\ f[0] = h[0] /\ f[1] = h[1] /\ f[2] = h[2] /\ f[3] = h[3]
      /\ f[4] = h[4] /\ f[5] = h[5] /\ f[6] = h[6] /\ f[7] = h[7] /\ f[8] = p.out_k
      /\ f[9] = p.filt_r /\ f[10] = p.filt_s /\ f[11] = p.stride_h /\ f[12] = p.stride_w
      /\ f[13] = a /\ f[14] = b /\ f[15] = q
    BY <1>3, <1>4
<1> QED BY <1>5, <1>6, <1>7 DEF a, b, q

\* The words of a pooling that are not zero.
LEMMA PoolWords ==
    ASSUME NEW p \in npu_pool_params, NEW f, f = npu_cmd_build_pool(p)
    PROVE  /\ f[0] = 6 /\ f[1] = p.in_addr /\ f[2] = p.out_addr /\ f[5] = p.in_h
           /\ f[6] = p.in_w /\ f[7] = p.in_c /\ f[9] = p.pool_r /\ f[10] = p.pool_s
           /\ f[11] = p.stride_h /\ f[12] = p.stride_w
           /\ f[13] = Packed(p.pad_h, derive_out_dim(p.in_h, p.pad_h, p.pool_r, p.stride_h, p.out_h))
           /\ f[14] = Packed(p.pad_w, derive_out_dim(p.in_w, p.pad_w, p.pool_s, p.stride_w, p.out_w))
           /\ f[15] = p.pool_mode % 2
<1> DEFINE a == Packed(p.pad_h, derive_out_dim(p.in_h, p.pad_h, p.pool_r, p.stride_h, p.out_h))
           b == Packed(p.pad_w, derive_out_dim(p.in_w, p.pad_w, p.pool_s, p.stride_w, p.out_w))
           q == p.pool_mode % 2
<1>1. f = [cmd_clear EXCEPT
        ![0] = 6, ![1] = p.in_addr, ![2] = p.out_addr, ![5] = p.in_h, ![6] = p.in_w,
        ![7] = p.in_c, ![9] = p.pool_r, ![10] = p.pool_s, ![11] = p.stride_h,
        ![12] = p.stride_w, ![13] = a, ![14] = b, ![15] = q]
    BY DEF npu_cmd_build_pool
<1> HIDE DEF a, b, q
<1>2. PICK h : h = [cmd_clear EXCEPT
        ![0] = 6, ![1] = p.in_addr, ![2] = p.out_addr, ![5] = p.in_h, ![6] = p.in_w,
        ![7] = p.in_c]
    OBVIOUS
<1>3. f = [h EXCEPT ![9] = p.pool_r, ![10] = p.pool_s, ![11] = p.stride_h,
                    ![12] = p.stride_w, ![13] = a, ![14] = b, ![15] = q]
    BY <1>1, <1>2
<1>4. h = [i \in 0 .. 15 |-> h[i]]
    BY <1>2 DEF cmd_clear
<1>5. /\ h[0] = 6 /\ h[1] = p.in_addr /\ h[2] = p.out_addr
      /\ h[5] = p.in_h /\ h[6] = p.in_w /\ h[7] = p.in_c
    BY <1>2 DEF cmd_clear
<1>6. /\ f[0] = h[0] /\ f[1] = h[1] /\ f[2] = h[2] /\ f[5] = h[5] /\ f[6] = h[6] /\ f[7] = h[7]
      /\ f[9] = p.pool_r /\ f[10] = p.pool_s /\ f[11] = p.stride_h /\ f[12] = p.stride_w
      /\ f[13] = a /\ f[14] = b /\ f[15] = q
    BY <1>3, <1>4
<1> QED BY <1>5, <1>6 DEF a, b, q

\* The masked shift and mode of the bench are those of the builder.
LEMMA SamePost ==
    ASSUME NEW q \in uint8_t, NEW a \in uint8_t
    PROVE  (q % 32) + 32 * (a % 4) = (q % 32) + (a % 4) * 32
BY DEF uint8_t

\* ConvDesc::to_words and npu_cmd_build_conv.
LEMMA SameConv ==
    ASSUME NEW p \in npu_conv_params
    PROVE  npu_cmd_build_conv(p) = ConvDesc_to_words(p)
<1> DEFINE f == npu_cmd_build_conv(p)
           g == ConvDesc_to_words(p)
           oh == derive_out_dim(p.in_h, p.pad_h, p.filt_r, p.stride_h, p.out_h)
           ow == derive_out_dim(p.in_w, p.pad_w, p.filt_s, p.stride_w, p.out_w)
<1>1. Packed(p.pad_h, oh)
        = uint16(p.pad_h) + uint16(BenchExtent(p.in_h, p.pad_h, p.filt_r, p.stride_h, p.out_h)) * 2^DIM_W
    <2>1. /\ p.in_h \in uint16_t /\ p.pad_h \in uint16_t /\ p.filt_r \in uint16_t
          /\ p.stride_h \in uint16_t /\ p.out_h \in uint16_t
        BY DEF npu_conv_params
    <2> QED BY <2>1, SamePacking
<1>2. Packed(p.pad_w, ow)
        = uint16(p.pad_w) + uint16(BenchExtent(p.in_w, p.pad_w, p.filt_s, p.stride_w, p.out_w)) * 2^DIM_W
    <2>1. /\ p.in_w \in uint16_t /\ p.pad_w \in uint16_t /\ p.filt_s \in uint16_t
          /\ p.stride_w \in uint16_t /\ p.out_w \in uint16_t
        BY DEF npu_conv_params
    <2> QED BY <2>1, SamePacking
<1>3. PackedPost(p) = (p.quant_shift % 32) + (p.act_mode % 4) * 32
    BY SamePost DEF PackedPost, npu_conv_params
<1>4. /\ f = [i \in 0 .. 15 |-> f[i]]
      /\ f[0] = 1 /\ f[1] = p.act_in_addr /\ f[2] = p.act_out_addr /\ f[3] = p.weight_addr
      /\ f[4] = p.bias_addr /\ f[5] = p.in_h /\ f[6] = p.in_w /\ f[7] = p.in_c /\ f[8] = p.out_k
      /\ f[9] = p.filt_r /\ f[10] = p.filt_s /\ f[11] = p.stride_h /\ f[12] = p.stride_w
      /\ f[13] = Packed(p.pad_h, oh) /\ f[14] = Packed(p.pad_w, ow) /\ f[15] = PackedPost(p)
    BY ConvWords
<1>5. /\ g = [i \in 0 .. 15 |-> g[i]]
      /\ g[0] = 1 /\ g[1] = p.act_in_addr /\ g[2] = p.act_out_addr /\ g[3] = p.weight_addr
      /\ g[4] = p.bias_addr /\ g[5] = p.in_h /\ g[6] = p.in_w /\ g[7] = p.in_c /\ g[8] = p.out_k
      /\ g[9] = p.filt_r /\ g[10] = p.filt_s /\ g[11] = p.stride_h /\ g[12] = p.stride_w
      /\ g[13] = Packed(p.pad_h, oh) /\ g[14] = Packed(p.pad_w, ow) /\ g[15] = PackedPost(p)
    BY <1>1, <1>2, <1>3 DEF ConvDesc_to_words, opcode_e
<1> HIDE DEF f, g
<1>6. \A i \in 0 .. 15 : f[i] = g[i]
    <2>1. \A i \in 0 .. 15 : i \in {0, 1, 2, 3, 4, 5, 6, 7, 8, 9, 10, 11, 12, 13, 14, 15}
        OBVIOUS
    <2> QED BY <1>4, <1>5, <2>1
<1>7. f = g
    BY <1>4, <1>5, <1>6
<1> QED BY <1>7 DEF f, g

\* PoolDesc::to_words and npu_cmd_build_pool.
LEMMA SamePool ==
    ASSUME NEW p \in npu_pool_params
    PROVE  npu_cmd_build_pool(p) = PoolDesc_to_words(p)
<1> DEFINE a == Packed(p.pad_h, derive_out_dim(p.in_h, p.pad_h, p.pool_r, p.stride_h, p.out_h))
           b == Packed(p.pad_w, derive_out_dim(p.in_w, p.pad_w, p.pool_s, p.stride_w, p.out_w))
<1>1. a = uint16(p.pad_h) + uint16(BenchExtent(p.in_h, p.pad_h, p.pool_r, p.stride_h, p.out_h)) * 2^DIM_W
    <2>1. /\ p.in_h \in uint16_t /\ p.pad_h \in uint16_t /\ p.pool_r \in uint16_t
          /\ p.stride_h \in uint16_t /\ p.out_h \in uint16_t
        BY DEF npu_pool_params
    <2> QED BY <2>1, SamePacking
<1>2. b = uint16(p.pad_w) + uint16(BenchExtent(p.in_w, p.pad_w, p.pool_s, p.stride_w, p.out_w)) * 2^DIM_W
    <2>1. /\ p.in_w \in uint16_t /\ p.pad_w \in uint16_t /\ p.pool_s \in uint16_t
          /\ p.stride_w \in uint16_t /\ p.out_w \in uint16_t
        BY DEF npu_pool_params
    <2> QED BY <2>1, SamePacking
<1>3. cmd_clear = Zeroed /\ opcode_e.OP_POOL = 6
    BY DEF cmd_clear, Zeroed, opcode_e
<1> QED BY <1>1, <1>2, <1>3, Zenon DEF npu_cmd_build_pool, PoolDesc_to_words

\* The other four.
LEMMA SameOthers ==
    /\ \A p \in npu_gemm_params : npu_cmd_build_gemm(p) = GemmDesc_to_words(p)
    /\ \A p \in npu_softmax_params : npu_cmd_build_softmax(p) = SoftmaxDesc_to_words(p)
    /\ \A p \in npu_vec_params : npu_cmd_build_vec(p) = VecDesc_to_words(p)
    /\ \A p \in npu_lnorm_params : npu_cmd_build_lnorm(p) = LnormDesc_to_words(p)
<1>1. /\ cmd_clear = Zeroed /\ opcode_e.OP_GEMM = 2 /\ opcode_e.OP_SOFTMAX = 3
      /\ opcode_e.OP_VEC = 4 /\ opcode_e.OP_LNORM = 5
    BY DEF cmd_clear, Zeroed, opcode_e
<1>2. \A p \in npu_gemm_params \cup npu_vec_params :
          PackedPost(p) = (p.quant_shift % 32) + (p.act_mode % 4) * 32
    BY SamePost DEF PackedPost, npu_gemm_params, npu_vec_params
<1>3. ASSUME NEW p \in npu_gemm_params PROVE npu_cmd_build_gemm(p) = GemmDesc_to_words(p)
    BY <1>1, <1>2, Zenon DEF npu_cmd_build_gemm, GemmDesc_to_words
<1>4. ASSUME NEW p \in npu_vec_params PROVE npu_cmd_build_vec(p) = VecDesc_to_words(p)
    BY <1>1, <1>2, Zenon DEF npu_cmd_build_vec, VecDesc_to_words
<1>5. ASSUME NEW p \in npu_softmax_params PROVE npu_cmd_build_softmax(p) = SoftmaxDesc_to_words(p)
    BY <1>1, Zenon DEF npu_cmd_build_softmax, SoftmaxDesc_to_words
<1>6. ASSUME NEW p \in npu_lnorm_params PROVE npu_cmd_build_lnorm(p) = LnormDesc_to_words(p)
    BY <1>1, Zenon DEF npu_cmd_build_lnorm, LnormDesc_to_words
<1> QED BY <1>3, <1>4, <1>5, <1>6

-----------------------------------------------------------------------------
(***************************************************************************)
(* What npu_cmd_decode.sv takes out of the words.                          *)
(***************************************************************************)
\* A packed word decodes to the padding and to an extent of the output.
LEMMA PackedDecodes ==
    ASSUME NEW in \in uint16_t, NEW pad \in uint16_t, NEW filt \in uint16_t,
           NEW stride \in uint16_t, NEW out \in uint16_t,
           NEW word, word = Packed(pad, derive_out_dim(in, pad, filt, stride, out))
    PROVE  /\ uint16(word) = pad
           /\ word \div 2^DIM_W = derive_out_dim(in, pad, filt, stride, out)
           /\ word \div 2^DIM_W \in Extent(in, pad, filt, stride, out)
<1>1. /\ derive_out_dim(in, pad, filt, stride, out) \in uint16_t
      /\ derive_out_dim(in, pad, filt, stride, out) \in Extent(in, pad, filt, stride, out)
    BY DerivedExtent
<1>2. /\ uint16(word) = pad
      /\ word \div 2^DIM_W = derive_out_dim(in, pad, filt, stride, out)
    BY <1>1, PackedFields
<1> QED BY <1>1, <1>2

\* The command a convolution's words decode to.
LEMMA ConvFields ==
    ASSUME NEW p \in npu_conv_params
    PROVE  \E oh \in Extent(p.in_h, p.pad_h, p.filt_r, p.stride_h, p.out_h),
              ow \in Extent(p.in_w, p.pad_w, p.filt_s, p.stride_w, p.out_w) :
               cmd_r(npu_cmd_build_conv(p)) =
                   [opcode |-> 1,
                    act_in_addr |-> p.act_in_addr, act_out_addr |-> p.act_out_addr,
                    weight_addr |-> p.weight_addr, bias_addr |-> p.bias_addr,
                    in_h |-> p.in_h, in_w |-> p.in_w, in_c |-> p.in_c, out_k |-> p.out_k,
                    filt_r |-> p.filt_r, filt_s |-> p.filt_s,
                    stride_h |-> p.stride_h, stride_w |-> p.stride_w,
                    pad_h |-> p.pad_h, pad_w |-> p.pad_w, out_h |-> oh, out_w |-> ow,
                    quant_shift |-> p.quant_shift % 32, act_mode |-> p.act_mode % 4]
<1>1. PICK f : f = npu_cmd_build_conv(p)
    OBVIOUS
<1>2. /\ f[0] = 1 /\ f[1] = p.act_in_addr /\ f[2] = p.act_out_addr /\ f[3] = p.weight_addr
      /\ f[4] = p.bias_addr /\ f[5] = p.in_h /\ f[6] = p.in_w /\ f[7] = p.in_c /\ f[8] = p.out_k
      /\ f[9] = p.filt_r /\ f[10] = p.filt_s /\ f[11] = p.stride_h /\ f[12] = p.stride_w
      /\ f[13] = Packed(p.pad_h, derive_out_dim(p.in_h, p.pad_h, p.filt_r, p.stride_h, p.out_h))
      /\ f[14] = Packed(p.pad_w, derive_out_dim(p.in_w, p.pad_w, p.filt_s, p.stride_w, p.out_w))
      /\ f[15] = PackedPost(p)
    BY <1>1, ConvWords
<1>3. uint16(f[13]) = p.pad_h
      /\ f[13] \div 2^DIM_W \in Extent(p.in_h, p.pad_h, p.filt_r, p.stride_h, p.out_h)
    <2>1. /\ p.in_h \in uint16_t /\ p.pad_h \in uint16_t /\ p.filt_r \in uint16_t
          /\ p.stride_h \in uint16_t /\ p.out_h \in uint16_t
        BY DEF npu_conv_params
    <2> QED BY <2>1, <1>2, PackedDecodes
<1>4. uint16(f[14]) = p.pad_w
      /\ f[14] \div 2^DIM_W \in Extent(p.in_w, p.pad_w, p.filt_s, p.stride_w, p.out_w)
    <2>1. /\ p.in_w \in uint16_t /\ p.pad_w \in uint16_t /\ p.filt_s \in uint16_t
          /\ p.stride_w \in uint16_t /\ p.out_w \in uint16_t
        BY DEF npu_conv_params
    <2> QED BY <2>1, <1>2, PackedDecodes
<1>5. f[15] % 32 = p.quant_shift % 32 /\ (f[15] \div 32) % 4 = p.act_mode % 4
    BY <1>2, PostFields DEF PackedPost, npu_conv_params
<1>6. /\ uint16(f[1]) = p.act_in_addr /\ uint16(f[2]) = p.act_out_addr
      /\ uint16(f[3]) = p.weight_addr /\ uint16(f[4]) = p.bias_addr
      /\ uint16(f[5]) = p.in_h /\ uint16(f[6]) = p.in_w /\ uint16(f[7]) = p.in_c
      /\ uint16(f[8]) = p.out_k /\ uint16(f[9]) = p.filt_r /\ uint16(f[10]) = p.filt_s
      /\ uint16(f[11]) = p.stride_h /\ uint16(f[12]) = p.stride_w
    BY <1>2, Fits DEF npu_conv_params
<1>7. cmd_r(npu_cmd_build_conv(p)) =
            [opcode |-> 1,
             act_in_addr |-> p.act_in_addr, act_out_addr |-> p.act_out_addr,
             weight_addr |-> p.weight_addr, bias_addr |-> p.bias_addr,
             in_h |-> p.in_h, in_w |-> p.in_w, in_c |-> p.in_c, out_k |-> p.out_k,
             filt_r |-> p.filt_r, filt_s |-> p.filt_s,
             stride_h |-> p.stride_h, stride_w |-> p.stride_w,
             pad_h |-> p.pad_h, pad_w |-> p.pad_w,
             out_h |-> f[13] \div 2^DIM_W, out_w |-> f[14] \div 2^DIM_W,
             quant_shift |-> p.quant_shift % 32, act_mode |-> p.act_mode % 4]
    <2>1. f[0] % 16 = 1
        BY <1>2
    <2> QED BY <1>1, <1>3, <1>4, <1>5, <1>6, <2>1 DEF cmd_r
<1> QED BY <1>3, <1>4, <1>7

\* The convolution's view.
LEMMA ConvDecodes ==
    ASSUME NEW p \in npu_conv_params, NEW cmd, cmd = cmd_r(npu_cmd_build_conv(p))
    PROVE  /\ cmd.opcode = opcode_e.OP_CONV
           /\ Asks([p EXCEPT !.quant_shift = @ % 32, !.act_mode = @ % 4,
                             !.out_h = cmd.out_h, !.out_w = cmd.out_w], cmd)
           /\ cmd.out_h \in Extent(p.in_h, p.pad_h, p.filt_r, p.stride_h, p.out_h)
           /\ cmd.out_w \in Extent(p.in_w, p.pad_w, p.filt_s, p.stride_w, p.out_w)
<1>1. PICK oh \in Extent(p.in_h, p.pad_h, p.filt_r, p.stride_h, p.out_h),
           ow \in Extent(p.in_w, p.pad_w, p.filt_s, p.stride_w, p.out_w) :
          cmd = [opcode |-> 1,
                 act_in_addr |-> p.act_in_addr, act_out_addr |-> p.act_out_addr,
                 weight_addr |-> p.weight_addr, bias_addr |-> p.bias_addr,
                 in_h |-> p.in_h, in_w |-> p.in_w, in_c |-> p.in_c, out_k |-> p.out_k,
                 filt_r |-> p.filt_r, filt_s |-> p.filt_s,
                 stride_h |-> p.stride_h, stride_w |-> p.stride_w,
                 pad_h |-> p.pad_h, pad_w |-> p.pad_w, out_h |-> oh, out_w |-> ow,
                 quant_shift |-> p.quant_shift % 32, act_mode |-> p.act_mode % 4]
    BY ConvFields
<1>2. cmd.opcode = 1 /\ cmd.out_h = oh /\ cmd.out_w = ow
    BY <1>1
<1>3. Asks([p EXCEPT !.quant_shift = @ % 32, !.act_mode = @ % 4,
                     !.out_h = cmd.out_h, !.out_w = cmd.out_w], cmd)
    <2>1. PICK e : e = [p EXCEPT !.quant_shift = @ % 32, !.act_mode = @ % 4,
                                 !.out_h = cmd.out_h, !.out_w = cmd.out_w]
        OBVIOUS
    <2>2. /\ "opcode" \notin DOMAIN e
          /\ e.act_in_addr = p.act_in_addr /\ e.act_out_addr = p.act_out_addr
          /\ e.weight_addr = p.weight_addr /\ e.bias_addr = p.bias_addr
          /\ e.in_h = p.in_h /\ e.in_w = p.in_w /\ e.in_c = p.in_c /\ e.out_k = p.out_k
          /\ e.filt_r = p.filt_r /\ e.filt_s = p.filt_s
          /\ e.stride_h = p.stride_h /\ e.stride_w = p.stride_w
          /\ e.pad_h = p.pad_h /\ e.pad_w = p.pad_w
          /\ e.out_h = cmd.out_h /\ e.out_w = cmd.out_w
          /\ e.quant_shift = p.quant_shift % 32 /\ e.act_mode = p.act_mode % 4
        BY <2>1 DEF npu_conv_params
    <2>3. DOMAIN cmd = {"opcode", "act_in_addr", "act_out_addr", "weight_addr", "bias_addr",
                        "in_h", "in_w", "in_c", "out_k", "filt_r", "filt_s", "stride_h",
                        "stride_w", "pad_h", "pad_w", "out_h", "out_w", "quant_shift", "act_mode"}
        BY <1>1
    <2>4. \A d \in DOMAIN cmd : d \in DOMAIN e => cmd[d] = e[d]
        BY <2>2, <2>3, <1>1
    <2> QED BY <2>1, <2>4 DEF Asks
<1> QED BY <1>1, <1>2, <1>3 DEF opcode_e

\* The low bit of a byte survives the 16-bit field that carries it.
LEMMA LowBit ==
    ASSUME NEW x \in uint8_t
    PROVE  uint16(x) % 2 = x % 2
<1>1. PICK M : M = 2^DIM_W
    OBVIOUS
<1>2. M \in Nat \ {0} /\ M = 2 * (8 * (M \div 16)) /\ M \div 16 \in Int
    BY <1>1, DimRangeAssumption
<1>3. PICK h \in Int : M = 2 * h
    <2>1. 8 * (M \div 16) \in Int
        BY <1>2
    <2> QED BY <1>2, <2>1
<1>4. x \in Int /\ x \div M \in Int /\ x % M \in Int /\ x = (x \div M) * M + (x % M)
    BY <1>2, DivModOf DEF uint8_t
<1>5. ASSUME NEW q \in Int, NEW r \in Int, x = q * M + r
      PROVE  r % 2 = x % 2
    <2>1. PICK n \in Int : n = q * h
        BY <1>3
    <2>2. x = 2 * n + r
        BY <1>5, <1>3, <2>1
    <2> QED BY <2>2
<1> QED BY <1>1, <1>4, <1>5 DEF uint16

\* The view of a matrix product.
LEMMA GemmDecodes ==
    ASSUME NEW p \in npu_gemm_params, NEW cmd, cmd = cmd_r(npu_cmd_build_gemm(p)),
           NEW v, v = conv_to_gemm_cmd(cmd)
    PROVE  /\ cmd.opcode = opcode_e.OP_GEMM
           /\ Asks([p EXCEPT !.quant_shift = @ % 32, !.act_mode = @ % 4], v)
           /\ <<v.m_dim, v.n_dim, v.k_dim>> = <<p.M, p.N, p.K>>
<1>1. PICK f : f = npu_cmd_build_gemm(p)
    OBVIOUS
<1>2. /\ f[0] = 2 /\ f[1] = p.a_addr /\ f[2] = p.c_addr /\ f[3] = p.b_addr /\ f[4] = p.bias_addr
      /\ f[5] = p.M /\ f[6] = p.N /\ f[7] = p.K /\ f[15] = PackedPost(p)
    BY <1>1 DEF npu_cmd_build_gemm, cmd_clear
<1>3. f[15] % 32 = p.quant_shift % 32 /\ (f[15] \div 32) % 4 = p.act_mode % 4
    BY <1>2, PostFields DEF PackedPost, npu_gemm_params
<1>4. /\ uint16(f[1]) = p.a_addr /\ uint16(f[2]) = p.c_addr
      /\ uint16(f[3]) = p.b_addr /\ uint16(f[4]) = p.bias_addr
      /\ uint16(f[5]) = p.M /\ uint16(f[6]) = p.N /\ uint16(f[7]) = p.K
    BY <1>2, Fits DEF npu_gemm_params
<1>5. /\ cmd.opcode = 2 /\ cmd.act_in_addr = p.a_addr /\ cmd.act_out_addr = p.c_addr
      /\ cmd.weight_addr = p.b_addr /\ cmd.bias_addr = p.bias_addr
      /\ cmd.in_h = p.M /\ cmd.in_w = p.N /\ cmd.in_c = p.K
      /\ cmd.quant_shift = p.quant_shift % 32 /\ cmd.act_mode = p.act_mode % 4
    <2>1. f[0] % 16 = 2
        BY <1>2
    <2> QED BY <1>1, <1>3, <1>4, <2>1 DEF cmd_r
<1>6. v = [a_addr |-> p.a_addr, c_addr |-> p.c_addr, b_addr |-> p.b_addr,
           bias_addr |-> p.bias_addr, m_dim |-> p.M, n_dim |-> p.N, k_dim |-> p.K,
           quant_shift |-> p.quant_shift % 32, act_mode |-> p.act_mode % 4]
    BY <1>5 DEF conv_to_gemm_cmd
<1>7. PICK e : e = [p EXCEPT !.quant_shift = @ % 32, !.act_mode = @ % 4]
    OBVIOUS
<1>8. /\ "m_dim" \notin DOMAIN e /\ "n_dim" \notin DOMAIN e /\ "k_dim" \notin DOMAIN e
      /\ e.a_addr = p.a_addr /\ e.c_addr = p.c_addr /\ e.b_addr = p.b_addr
      /\ e.bias_addr = p.bias_addr
      /\ e.quant_shift = p.quant_shift % 32 /\ e.act_mode = p.act_mode % 4
    BY <1>7 DEF npu_gemm_params
<1>9. DOMAIN v = {"a_addr", "c_addr", "b_addr", "bias_addr", "m_dim", "n_dim", "k_dim",
                  "quant_shift", "act_mode"}
    BY <1>6
<1>10. \A d \in DOMAIN v : d \in DOMAIN e => v[d] = e[d]
    BY <1>6, <1>8, <1>9
<1> QED BY <1>5, <1>6, <1>7, <1>10 DEF Asks, opcode_e

\* The view of the softmax composite.
LEMMA SoftmaxDecodes ==
    ASSUME NEW p \in npu_softmax_params, NEW cmd, cmd = cmd_r(npu_cmd_build_softmax(p))
    PROVE  cmd.opcode = opcode_e.OP_SOFTMAX /\ conv_to_softmax_cmd(cmd) = p
<1>1. PICK f : f = npu_cmd_build_softmax(p)
    OBVIOUS
<1>2. f[0] = 3 /\ f[1] = p.in_addr /\ f[2] = p.out_addr /\ f[5] = p.num_rows /\ f[6] = p.row_len
    BY <1>1 DEF npu_cmd_build_softmax, cmd_clear
<1>3. /\ uint16(f[1]) = p.in_addr /\ uint16(f[2]) = p.out_addr
      /\ uint16(f[5]) = p.num_rows /\ uint16(f[6]) = p.row_len
    BY <1>2, Fits DEF npu_softmax_params
<1>4. /\ cmd.opcode = 3 /\ cmd.act_in_addr = p.in_addr /\ cmd.act_out_addr = p.out_addr
      /\ cmd.in_h = p.num_rows /\ cmd.in_w = p.row_len
    <2>1. f[0] % 16 = 3
        BY <1>2
    <2> QED BY <1>1, <1>3, <2>1 DEF cmd_r
<1> QED BY <1>4 DEF conv_to_softmax_cmd, npu_softmax_params, opcode_e

\* The view of the vector backend.
LEMMA VecDecodes ==
    ASSUME NEW p \in npu_vec_params, NEW cmd, cmd = cmd_r(npu_cmd_build_vec(p))
    PROVE  /\ cmd.opcode = opcode_e.OP_VEC
           /\ conv_to_vec_cmd(cmd) =
                [p EXCEPT !.vec_op = @ % 2, !.quant_shift = @ % 32, !.act_mode = @ % 4]
<1>1. PICK f : f = npu_cmd_build_vec(p)
    OBVIOUS
<1>2. /\ f[0] = 4 /\ f[1] = p.a_addr /\ f[2] = p.out_addr /\ f[3] = p.b_addr
      /\ f[5] = p.length /\ f[6] = p.vec_op /\ f[15] = PackedPost(p)
    BY <1>1 DEF npu_cmd_build_vec, cmd_clear
<1>3. f[15] % 32 = p.quant_shift % 32 /\ (f[15] \div 32) % 4 = p.act_mode % 4
    BY <1>2, PostFields DEF PackedPost, npu_vec_params
<1>4. /\ uint16(f[1]) = p.a_addr /\ uint16(f[2]) = p.out_addr
      /\ uint16(f[3]) = p.b_addr /\ uint16(f[5]) = p.length
    BY <1>2, Fits DEF npu_vec_params
<1>5. uint16(f[6]) % 2 = p.vec_op % 2
    BY <1>2, LowBit DEF npu_vec_params
<1>6. /\ cmd.opcode = 4 /\ cmd.act_in_addr = p.a_addr /\ cmd.act_out_addr = p.out_addr
      /\ cmd.weight_addr = p.b_addr /\ cmd.in_h = p.length /\ cmd.in_w = uint16(f[6])
      /\ cmd.quant_shift = p.quant_shift % 32 /\ cmd.act_mode = p.act_mode % 4
    <2>1. f[0] % 16 = 4
        BY <1>2
    <2> QED BY <1>1, <1>3, <1>4, <2>1 DEF cmd_r
<1>7. conv_to_vec_cmd(cmd) =
        [a_addr |-> p.a_addr, out_addr |-> p.out_addr, b_addr |-> p.b_addr, length |-> p.length,
         vec_op |-> p.vec_op % 2, quant_shift |-> p.quant_shift % 32, act_mode |-> p.act_mode % 4]
    BY <1>5, <1>6 DEF conv_to_vec_cmd
<1>8. [p EXCEPT !.vec_op = @ % 2, !.quant_shift = @ % 32, !.act_mode = @ % 4] =
        [a_addr |-> p.a_addr, out_addr |-> p.out_addr, b_addr |-> p.b_addr, length |-> p.length,
         vec_op |-> p.vec_op % 2, quant_shift |-> p.quant_shift % 32, act_mode |-> p.act_mode % 4]
    <2>1. PICK e : e = [p EXCEPT !.vec_op = @ % 2, !.quant_shift = @ % 32, !.act_mode = @ % 4]
        OBVIOUS
    <2>2. /\ DOMAIN e = {"a_addr", "out_addr", "b_addr", "length", "vec_op", "quant_shift", "act_mode"}
          /\ e.a_addr = p.a_addr /\ e.out_addr = p.out_addr /\ e.b_addr = p.b_addr
          /\ e.length = p.length /\ e.vec_op = p.vec_op % 2
          /\ e.quant_shift = p.quant_shift % 32 /\ e.act_mode = p.act_mode % 4
        BY <2>1 DEF npu_vec_params
    <2>3. e = [i \in DOMAIN e |-> e[i]]
        BY <2>1 DEF npu_vec_params
    <2> QED BY <2>1, <2>2, <2>3
<1> QED BY <1>6, <1>7, <1>8 DEF opcode_e

\* The view of the layer norm composite.
LEMMA LnormDecodes ==
    ASSUME NEW p \in npu_lnorm_params, NEW cmd, cmd = cmd_r(npu_cmd_build_lnorm(p))
    PROVE  /\ cmd.opcode = opcode_e.OP_LNORM
           /\ conv_to_lnorm_cmd(cmd) = [p EXCEPT !.norm_shift = @ % 32]
<1>1. PICK f : f = npu_cmd_build_lnorm(p)
    OBVIOUS
<1>2. /\ f[0] = 5 /\ f[1] = p.in_addr /\ f[2] = p.out_addr
      /\ f[5] = p.num_rows /\ f[6] = p.row_len /\ f[15] = p.norm_shift % 32
    BY <1>1 DEF npu_cmd_build_lnorm, cmd_clear
<1>3. /\ uint16(f[1]) = p.in_addr /\ uint16(f[2]) = p.out_addr
      /\ uint16(f[5]) = p.num_rows /\ uint16(f[6]) = p.row_len
    BY <1>2, Fits DEF npu_lnorm_params
<1>4. /\ cmd.opcode = 5 /\ cmd.act_in_addr = p.in_addr /\ cmd.act_out_addr = p.out_addr
      /\ cmd.in_h = p.num_rows /\ cmd.in_w = p.row_len /\ cmd.quant_shift = p.norm_shift % 32
    <2>1. f[0] % 16 = 5 /\ f[15] % 32 = p.norm_shift % 32
        BY <1>2 DEF npu_lnorm_params, uint8_t
    <2> QED BY <1>1, <1>3, <2>1 DEF cmd_r
<1> QED BY <1>4 DEF conv_to_lnorm_cmd, npu_lnorm_params, opcode_e

\* The view of the pooling composite.
LEMMA PoolDecodes ==
    ASSUME NEW p \in npu_pool_params, NEW cmd, cmd = cmd_r(npu_cmd_build_pool(p)),
           NEW v, v = conv_to_pool_cmd(cmd)
    PROVE  /\ cmd.opcode = opcode_e.OP_POOL
           /\ v = [p EXCEPT !.pool_mode = @ % 2, !.out_h = v.out_h, !.out_w = v.out_w]
           /\ v.out_h \in Extent(p.in_h, p.pad_h, p.pool_r, p.stride_h, p.out_h)
           /\ v.out_w \in Extent(p.in_w, p.pad_w, p.pool_s, p.stride_w, p.out_w)
<1>1. PICK f : f = npu_cmd_build_pool(p)
    OBVIOUS
<1>2. /\ f[0] = 6 /\ f[1] = p.in_addr /\ f[2] = p.out_addr /\ f[5] = p.in_h
      /\ f[6] = p.in_w /\ f[7] = p.in_c /\ f[9] = p.pool_r /\ f[10] = p.pool_s
      /\ f[11] = p.stride_h /\ f[12] = p.stride_w
      /\ f[13] = Packed(p.pad_h, derive_out_dim(p.in_h, p.pad_h, p.pool_r, p.stride_h, p.out_h))
      /\ f[14] = Packed(p.pad_w, derive_out_dim(p.in_w, p.pad_w, p.pool_s, p.stride_w, p.out_w))
      /\ f[15] = p.pool_mode % 2
    BY <1>1, PoolWords
<1>3. uint16(f[13]) = p.pad_h
      /\ f[13] \div 2^DIM_W \in Extent(p.in_h, p.pad_h, p.pool_r, p.stride_h, p.out_h)
    <2>1. /\ p.in_h \in uint16_t /\ p.pad_h \in uint16_t /\ p.pool_r \in uint16_t
          /\ p.stride_h \in uint16_t /\ p.out_h \in uint16_t
        BY DEF npu_pool_params
    <2> QED BY <2>1, <1>2, PackedDecodes
<1>4. uint16(f[14]) = p.pad_w
      /\ f[14] \div 2^DIM_W \in Extent(p.in_w, p.pad_w, p.pool_s, p.stride_w, p.out_w)
    <2>1. /\ p.in_w \in uint16_t /\ p.pad_w \in uint16_t /\ p.pool_s \in uint16_t
          /\ p.stride_w \in uint16_t /\ p.out_w \in uint16_t
        BY DEF npu_pool_params
    <2> QED BY <2>1, <1>2, PackedDecodes
<1>5. /\ uint16(f[1]) = p.in_addr /\ uint16(f[2]) = p.out_addr
      /\ uint16(f[5]) = p.in_h /\ uint16(f[6]) = p.in_w /\ uint16(f[7]) = p.in_c
      /\ uint16(f[9]) = p.pool_r /\ uint16(f[10]) = p.pool_s
      /\ uint16(f[11]) = p.stride_h /\ uint16(f[12]) = p.stride_w
    BY <1>2, Fits DEF npu_pool_params
<1>6. f[0] % 16 = 6 /\ (f[15] % 32) % 2 = p.pool_mode % 2
    BY <1>2 DEF npu_pool_params, uint8_t
<1>7. cmd.opcode = 6 /\ cmd.quant_shift = f[15] % 32
    BY <1>1, <1>6 DEF cmd_r
<1>8. v = [in_addr |-> p.in_addr, out_addr |-> p.out_addr,
           in_h |-> p.in_h, in_w |-> p.in_w, in_c |-> p.in_c,
           pool_r |-> p.pool_r, pool_s |-> p.pool_s,
           stride_h |-> p.stride_h, stride_w |-> p.stride_w, pad_h |-> p.pad_h, pad_w |-> p.pad_w,
           out_h |-> f[13] \div 2^DIM_W, out_w |-> f[14] \div 2^DIM_W,
           pool_mode |-> p.pool_mode % 2]
    BY <1>1, <1>3, <1>4, <1>5, <1>6 DEF cmd_r, conv_to_pool_cmd
<1>9. v.out_h = f[13] \div 2^DIM_W /\ v.out_w = f[14] \div 2^DIM_W
    BY <1>8
<1>10. v = [p EXCEPT !.pool_mode = @ % 2, !.out_h = v.out_h, !.out_w = v.out_w]
    <2>1. PICK oh, ow, m : oh = v.out_h /\ ow = v.out_w /\ m = p.pool_mode % 2
        OBVIOUS
    <2>2. [p EXCEPT !.pool_mode = m, !.out_h = oh, !.out_w = ow] =
            [in_addr |-> p.in_addr, out_addr |-> p.out_addr,
             in_h |-> p.in_h, in_w |-> p.in_w, in_c |-> p.in_c,
             pool_r |-> p.pool_r, pool_s |-> p.pool_s,
             stride_h |-> p.stride_h, stride_w |-> p.stride_w, pad_h |-> p.pad_h, pad_w |-> p.pad_w,
             out_h |-> oh, out_w |-> ow, pool_mode |-> m]
        <3>1. PICK e : e = [p EXCEPT !.pool_mode = m, !.out_h = oh, !.out_w = ow]
            OBVIOUS
        <3>2. /\ DOMAIN e = {"in_addr", "out_addr", "in_h", "in_w", "in_c", "pool_r", "pool_s",
                             "stride_h", "stride_w", "pad_h", "pad_w", "out_h", "out_w", "pool_mode"}
              /\ e.in_addr = p.in_addr /\ e.out_addr = p.out_addr /\ e.in_h = p.in_h
              /\ e.in_w = p.in_w /\ e.in_c = p.in_c /\ e.pool_r = p.pool_r /\ e.pool_s = p.pool_s
              /\ e.stride_h = p.stride_h /\ e.stride_w = p.stride_w /\ e.pad_h = p.pad_h
              /\ e.pad_w = p.pad_w /\ e.out_h = oh /\ e.out_w = ow /\ e.pool_mode = m
            BY <3>1 DEF npu_pool_params
        <3>3. e = [i \in DOMAIN e |-> e[i]]
            BY <3>1 DEF npu_pool_params
        <3> QED BY <3>1, <3>2, <3>3
    <2> QED BY <1>8, <1>9, <2>1, <2>2
<1> QED BY <1>3, <1>4, <1>7, <1>9, <1>10 DEF opcode_e

-----------------------------------------------------------------------------
\* The descriptor is what the last call to the builder made of its parameters,
\* and nothing of what it held before.
BuilderInv ==
    \/ made = [op |-> "none"]
    \/ \E p \in ConvParams : made = [op |-> "conv", p |-> p] /\ desc = npu_cmd_build_conv(p)
    \/ \E p \in GemmParams : made = [op |-> "gemm", p |-> p] /\ desc = npu_cmd_build_gemm(p)
    \/ \E p \in SoftmaxParams : made = [op |-> "softmax", p |-> p] /\ desc = npu_cmd_build_softmax(p)
    \/ \E p \in VecParams : made = [op |-> "vec", p |-> p] /\ desc = npu_cmd_build_vec(p)
    \/ \E p \in LnormParams : made = [op |-> "lnorm", p |-> p] /\ desc = npu_cmd_build_lnorm(p)
    \/ \E p \in PoolParams : made = [op |-> "pool", p |-> p] /\ desc = npu_cmd_build_pool(p)

\* It holds of every descriptor a program sees.
LEMMA BuilderInvariant == Spec => []BuilderInv
<1>1. Init => BuilderInv
    BY DEF Init, BuilderInit, BuilderInv
<1>2. BuilderInv /\ [Next]_vars => BuilderInv'
    <2> SUFFICES ASSUME BuilderInv, [Next]_vars PROVE BuilderInv'
        OBVIOUS
    <2>1. CASE BuildCommand
        <3>1. Build
            BY <2>1 DEF BuildCommand
        <3> QED BY <3>1, Zenon
            DEF Build, Built, BuilderInv, cmd_clear, npu_cmd_build_conv, npu_cmd_build_gemm,
                npu_cmd_build_softmax, npu_cmd_build_vec, npu_cmd_build_lnorm, npu_cmd_build_pool
    <2>2. CASE UNCHANGED builder_vars
        BY <2>2, Zenon
            DEF builder_vars, BuilderInv, cmd_clear, npu_cmd_build_conv, npu_cmd_build_gemm,
                npu_cmd_build_softmax, npu_cmd_build_vec, npu_cmd_build_lnorm, npu_cmd_build_pool
    <2> QED BY <2>1, <2>2 DEF Next, ConvertTensor, BuildRefused, vars, builder_vars
<1> QED BY <1>1, <1>2, PTL DEF Spec

\* The builder agrees with the integration tests' packing, for every parameter
\* and every width of the dimensions.
THEOREM BuilderAgreesWithBench == Spec => []BuilderMatchesBench
<1>1. BuilderInv => BuilderMatchesBench
    <2> SUFFICES ASSUME BuilderInv PROVE BuilderMatchesBench
        OBVIOUS
    <2> USE DEF BuilderMatchesBench, to_words
    <2>1. CASE made = [op |-> "none"]
        BY <2>1
    <2>2. CASE \E p \in ConvParams : made = [op |-> "conv", p |-> p] /\ desc = npu_cmd_build_conv(p)
        BY <2>2, SameConv, ParamsAssumption
    <2>3. CASE \E p \in GemmParams : made = [op |-> "gemm", p |-> p] /\ desc = npu_cmd_build_gemm(p)
        BY <2>3, SameOthers, ParamsAssumption
    <2>4. CASE \E p \in SoftmaxParams : made = [op |-> "softmax", p |-> p] /\ desc = npu_cmd_build_softmax(p)
        BY <2>4, SameOthers, ParamsAssumption
    <2>5. CASE \E p \in VecParams : made = [op |-> "vec", p |-> p] /\ desc = npu_cmd_build_vec(p)
        BY <2>5, SameOthers, ParamsAssumption
    <2>6. CASE \E p \in LnormParams : made = [op |-> "lnorm", p |-> p] /\ desc = npu_cmd_build_lnorm(p)
        BY <2>6, SameOthers, ParamsAssumption
    <2>7. CASE \E p \in PoolParams : made = [op |-> "pool", p |-> p] /\ desc = npu_cmd_build_pool(p)
        BY <2>7, SamePool, ParamsAssumption
    <2> HIDE DEF BuilderMatchesBench
    <2> QED BY <2>1, <2>2, <2>3, <2>4, <2>5, <2>6, <2>7 DEF BuilderInv
<1> QED BY <1>1, BuilderInvariant, PTL

\* The device decodes what the caller asked for, for every parameter and every
\* width of the dimensions.
THEOREM DescriptorIsDecoded == Spec => []DescriptorDecodes
<1>1. BuilderInv => DescriptorDecodes
    <2> SUFFICES ASSUME BuilderInv PROVE DescriptorDecodes
        OBVIOUS
    <2>1. CASE made = [op |-> "none"]
        BY <2>1 DEF DescriptorDecodes
    <2>2. CASE \E p \in ConvParams : made = [op |-> "conv", p |-> p] /\ desc = npu_cmd_build_conv(p)
        <3>1. PICK p \in ConvParams : made = [op |-> "conv", p |-> p] /\ desc = npu_cmd_build_conv(p)
            BY <2>2
        <3>2. made.op = "conv" /\ made.p = p
            BY <3>1
        <3>3. /\ cmd_r(desc).opcode = opcode_e.OP_CONV
              /\ Asks([p EXCEPT !.quant_shift = @ % 32, !.act_mode = @ % 4,
                                !.out_h = cmd_r(desc).out_h, !.out_w = cmd_r(desc).out_w], cmd_r(desc))
              /\ cmd_r(desc).out_h \in Extent(p.in_h, p.pad_h, p.filt_r, p.stride_h, p.out_h)
              /\ cmd_r(desc).out_w \in Extent(p.in_w, p.pad_w, p.filt_s, p.stride_w, p.out_w)
            BY <3>1, ConvDecodes, ParamsAssumption, Zenon
        <3> QED BY <3>2, <3>3, Zenon DEF DescriptorDecodes
    <2>3. CASE \E p \in GemmParams : made = [op |-> "gemm", p |-> p] /\ desc = npu_cmd_build_gemm(p)
        <3>1. PICK p \in GemmParams : made = [op |-> "gemm", p |-> p] /\ desc = npu_cmd_build_gemm(p)
            BY <2>3
        <3>2. made.op = "gemm" /\ made.p = p
            BY <3>1
        <3>3. LET v == conv_to_gemm_cmd(cmd_r(desc))
              IN  /\ cmd_r(desc).opcode = opcode_e.OP_GEMM
                  /\ Asks([p EXCEPT !.quant_shift = @ % 32, !.act_mode = @ % 4], v)
                  /\ <<v.m_dim, v.n_dim, v.k_dim>> = <<p.M, p.N, p.K>>
            BY <3>1, GemmDecodes, ParamsAssumption, Zenon
        <3> QED BY <3>2, <3>3, Zenon DEF DescriptorDecodes
    <2>4. CASE \E p \in SoftmaxParams : made = [op |-> "softmax", p |-> p] /\ desc = npu_cmd_build_softmax(p)
        BY <2>4, SoftmaxDecodes, ParamsAssumption DEF DescriptorDecodes
    <2>5. CASE \E p \in VecParams : made = [op |-> "vec", p |-> p] /\ desc = npu_cmd_build_vec(p)
        <3>1. PICK p \in VecParams : made = [op |-> "vec", p |-> p] /\ desc = npu_cmd_build_vec(p)
            BY <2>5
        <3>2. made.op = "vec" /\ made.p = p
            BY <3>1
        <3>3. /\ cmd_r(desc).opcode = opcode_e.OP_VEC
              /\ conv_to_vec_cmd(cmd_r(desc)) =
                   [p EXCEPT !.vec_op = @ % 2, !.quant_shift = @ % 32, !.act_mode = @ % 4]
            BY <3>1, VecDecodes, ParamsAssumption, Zenon
        <3> QED BY <3>2, <3>3, Zenon DEF DescriptorDecodes
    <2>6. CASE \E p \in LnormParams : made = [op |-> "lnorm", p |-> p] /\ desc = npu_cmd_build_lnorm(p)
        BY <2>6, LnormDecodes, ParamsAssumption DEF DescriptorDecodes
    <2>7. CASE \E p \in PoolParams : made = [op |-> "pool", p |-> p] /\ desc = npu_cmd_build_pool(p)
        <3>1. PICK p \in PoolParams : made = [op |-> "pool", p |-> p] /\ desc = npu_cmd_build_pool(p)
            BY <2>7
        <3>2. made.op = "pool" /\ made.p = p
            BY <3>1
        <3>3. LET v == conv_to_pool_cmd(cmd_r(desc))
              IN  /\ cmd_r(desc).opcode = opcode_e.OP_POOL
                  /\ v = [p EXCEPT !.pool_mode = @ % 2, !.out_h = v.out_h, !.out_w = v.out_w]
                  /\ v.out_h \in Extent(p.in_h, p.pad_h, p.pool_r, p.stride_h, p.out_h)
                  /\ v.out_w \in Extent(p.in_w, p.pad_w, p.pool_s, p.stride_w, p.out_w)
            BY <3>1, PoolDecodes, ParamsAssumption, Zenon
        <3> QED BY <3>2, <3>3, Zenon DEF DescriptorDecodes
    <2> QED BY <2>1, <2>2, <2>3, <2>4, <2>5, <2>6, <2>7 DEF BuilderInv
<1> QED BY <1>1, BuilderInvariant, PTL

-----------------------------------------------------------------------------
(***************************************************************************)
(* The conversion of a tensor.                                             *)
(***************************************************************************)
\* Where element (h, w, c) goes, counted from the tensor's base.
Offset(t, h, w, c) == (h * t.dim_w + w) * t.dim_c + c

\* The loops reach (c, h, w) before their counters have the values x.
Before(c, h, w, x) == c < x.c \/ (c = x.c /\ (h < x.h \/ (h = x.h /\ w < x.w)))

\* A tensor the runtime accepted: its extents are those of real buffers.
Accepted(t) ==
    /\ t.dim_n = 1 /\ t.dim_h >= 1 /\ t.dim_w >= 1 /\ t.dim_c >= 1
    /\ t.layout \in Layouts
    /\ t.dim_h * t.dim_w * t.dim_c <= BufMax
    /\ t.dim_h * t.dim_w * t.dim_c < 2^DIM_W * 2^DIM_W

\* What has been converted: everything the loops have passed, and every
\* element once the call has returned, unless the stores' indices overflow.
TensorInv ==
    /\ tensor \in Tensors
    /\ dst \in [0 .. BufMax - 1 -> Int]
    /\ at \in [c : Nat, h : Nat, w : Nat]
    /\ err \in {"OK", "LOOPING"} => Accepted(tensor)
    /\ err = "LOOPING" =>
           /\ tensor.layout = "NCHW"
           /\ at.c < tensor.dim_c /\ at.h < tensor.dim_h /\ at.w < tensor.dim_w
    /\ stray => ~ IntSuffices(tensor)
    /\ IntSuffices(tensor) =>
         \A h \in 0 .. tensor.dim_h - 1, w \in 0 .. tensor.dim_w - 1, c \in 0 .. tensor.dim_c - 1 :
           (err = "OK" \/ (err = "LOOPING" /\ Before(c, h, w, at)))
           => dst[Offset(tensor, h, w, c)] = Element(tensor, h, w, c)

\* Digits are unique.
LEMMA Digits ==
    ASSUME NEW m \in Nat \ {0}, NEW a \in Int, NEW b \in Int,
           NEW x \in 0 .. m - 1, NEW y \in 0 .. m - 1, a * m + x = b * m + y
    PROVE  a = b /\ x = y
<1>1. (a * m + x) \div m = a /\ (a * m + x) % m = x
    BY DivMod
<1>2. (b * m + y) \div m = b /\ (b * m + y) % m = y
    BY DivMod
<1> QED BY <1>1, <1>2

\* A number below a product.
LEMMA Below ==
    ASSUME NEW m \in Nat \ {0}, NEW n \in Nat, NEW a \in 0 .. n - 1, NEW x \in 0 .. m - 1
    PROVE  a * m + x \in 0 .. n * m - 1
<1>1. a * m <= (n - 1) * m /\ (n - 1) * m = n * m - m
    BY Times
<1>2. a * m \in Nat /\ n * m \in Nat
    OBVIOUS
<1> QED BY <1>1, <1>2

\* Within a tensor, offsets are distinct and below its size.
LEMMA Offsets ==
    ASSUME NEW t, t.dim_h \in Nat \ {0}, t.dim_w \in Nat \ {0}, t.dim_c \in Nat \ {0},
           NEW h \in 0 .. t.dim_h - 1, NEW w \in 0 .. t.dim_w - 1, NEW c \in 0 .. t.dim_c - 1
    PROVE  /\ Offset(t, h, w, c) \in 0 .. t.dim_h * t.dim_w * t.dim_c - 1
           /\ \A h1 \in 0 .. t.dim_h - 1, w1 \in 0 .. t.dim_w - 1, c1 \in 0 .. t.dim_c - 1 :
                  Offset(t, h, w, c) = Offset(t, h1, w1, c1) => h = h1 /\ w = w1 /\ c = c1
<1>1. PICK H \in Nat \ {0}, W \in Nat \ {0}, C \in Nat \ {0} :
          H = t.dim_h /\ W = t.dim_w /\ C = t.dim_c
    OBVIOUS
<1>2. h * W + w \in 0 .. H * W - 1
    BY <1>1, Below
<1>3. H * W \in Nat
    BY <1>1
<1>4. (h * W + w) * C + c \in 0 .. (H * W) * C - 1
    BY <1>1, <1>2, <1>3, Below
<1>5. ASSUME NEW h1 \in 0 .. H - 1, NEW w1 \in 0 .. W - 1, NEW c1 \in 0 .. C - 1,
             (h * W + w) * C + c = (h1 * W + w1) * C + c1
      PROVE  h = h1 /\ w = w1 /\ c = c1
    <2>1. PICK a \in Int, b \in Int : a = h * W + w /\ b = h1 * W + w1
        BY <1>1
    <2>2. a = b /\ c = c1
        <3>1. a * C + c = b * C + c1
            BY <1>5, <2>1
        <3> QED BY <1>1, <3>1, Digits
    <2>3. h = h1 /\ w = w1
        BY <1>1, <2>1, <2>2, Digits
    <2> QED BY <2>2, <2>3
<1> QED BY <1>1, <1>4, <1>5 DEF Offset

\* The pointers of the loop nest are those of the two layouts.
LEMMA StoreIsElement ==
    ASSUME tensor.dim_h \in Nat, tensor.dim_w \in Nat, tensor.dim_c \in Nat,
           tensor.layout = "NCHW", at \in [c : Nat, h : Nat, w : Nat]
    PROVE  /\ StoreIndex(tensor, at.w * tensor.dim_c) = Offset(tensor, at.h, at.w, at.c)
           /\ src[LoadIndex(tensor)] = Element(tensor, at.h, at.w, at.c)
<1>1. PICK H \in Nat, W \in Nat, C \in Nat, h \in Nat, w \in Nat, c \in Nat :
          /\ H = tensor.dim_h /\ W = tensor.dim_w /\ C = tensor.dim_c
          /\ h = at.h /\ w = at.w /\ c = at.c
    OBVIOUS
<1>2. c + h * (W * C) + w * C = (h * W + w) * C + c
    OBVIOUS
<1>3. c * (H * W) + h * W + w = (c * H + h) * W + w
    OBVIOUS
<1>4. StoreIndex(tensor, at.w * tensor.dim_c) = c + h * (W * C) + w * C
    BY <1>1, Zenon DEF StoreIndex
<1>5. LoadIndex(tensor) = c * (H * W) + h * W + w
    BY <1>1, Zenon DEF LoadIndex
<1>6. Element(tensor, at.h, at.w, at.c) = src[(c * H + h) * W + w]
    BY <1>1 DEF Element
<1>7. Offset(tensor, at.h, at.w, at.c) = (h * W + w) * C + c
    BY <1>1, Zenon DEF Offset
<1> QED BY <1>2, <1>3, <1>4, <1>5, <1>6, <1>7, Zenon

\* A store is at its element's offset, or a whole int's range below it where
\* the index overflows.
LEMMA StoreOffset ==
    ASSUME tensor.dim_h \in Nat, tensor.dim_w \in Nat, tensor.dim_c \in Nat,
           tensor.layout = "NCHW", at \in [c : Nat, h : Nat, w : Nat], at.w < tensor.dim_w,
           NEW o \in Int, o = Offset(tensor, at.h, at.w, at.c),
           NEW i, i = StoreIndex(tensor, int_product(at.w * tensor.dim_c))
    PROVE  i = o \/ (i = o - 2^DIM_W * 2^DIM_W /\ ~ IntSuffices(tensor))
<1>1. PICK M \in Nat, W \in Nat, C \in Nat, h \in Nat, w \in Nat, c \in Nat :
          /\ M = 2^DIM_W /\ W = tensor.dim_w /\ C = tensor.dim_c
          /\ h = at.h /\ w = at.w /\ c = at.c
    BY DimRangeAssumption
<1>2. PICK x \in Int, y \in Int, z \in Int : x = w * C /\ y = (W - 1) * C /\ z = h * (W * C)
    OBVIOUS
<1>3. o = c + z + x
    <2>1. o = StoreIndex(tensor, at.w * tensor.dim_c)
        BY StoreIsElement
    <2> QED BY <2>1, <1>1, <1>2, Zenon DEF StoreIndex
<1>4. CASE int_product(at.w * tensor.dim_c) = x
    <2>1. i = c + z + x
        BY <1>1, <1>2, <1>4, Zenon DEF StoreIndex
    <2> QED BY <2>1, <1>3
<1>5. CASE int_product(at.w * tensor.dim_c) # x
    <2>1. int_product(at.w * tensor.dim_c) = x - M * M /\ ~ FitsInt(x)
        BY <1>1, <1>2, <1>5, Zenon DEF int_product
    <2>2. PICK n \in Nat : n = M * M
        BY <1>1
    <2>3. i = c + z + (x - n)
        BY <1>1, <1>2, <2>1, <2>2, Zenon DEF StoreIndex
    <2>4. i = o - n
        BY <1>2, <1>3, <2>2, <2>3, <1>1
    <2>5. ~ (2 * x < n)
        BY <1>1, <2>1, <2>2, Zenon DEF FitsInt
    <2>6. x <= y
        BY <1>1, <1>2, Times
    <2>7. ~ (2 * y < n)
        BY <2>2, <2>5, <2>6, <1>2
    <2>8. ~ FitsInt((tensor.dim_w - 1) * tensor.dim_c)
        BY <1>1, <1>2, <2>2, <2>7, Zenon DEF FitsInt
    <2>9. ~ IntSuffices(tensor)
        BY <2>8 DEF IntSuffices
    <2> QED BY <1>1, <2>2, <2>4, <2>9, Zenon
<1> QED BY <1>4, <1>5

\* A call that returns no error was given a tensor within the runtime's limits.
LEMMA OkIsAccepted ==
    ASSUME NEW t \in Tensors, NEW n \in BufSizes, NEW null \in BOOLEAN,
           ConvertError(null, t, n) = "OK"
    PROVE  /\ Accepted(t)
           /\ npu_tensor_byte_size(t) = t.dim_h * t.dim_w * t.dim_c
<1>1. /\ t.dim_n \in Nat /\ t.dim_h \in Nat /\ t.dim_w \in Nat /\ t.dim_c \in Nat
      /\ n \in Nat /\ n <= BufMax /\ BufMax \in Nat
    BY TensorAssumption, DimRangeAssumption
<1>2. npu_tensor_validate(t) = "OK" /\ ~ (n < npu_tensor_byte_size(t))
    BY DEF ConvertError
<1>3. /\ 0 \notin {t.dim_n, t.dim_h, t.dim_w, t.dim_c} /\ t.dim_n = 1 /\ t.layout \in Layouts
      /\ ~ MulOverflow(t.dim_h * t.dim_w, t.dim_c)
    BY <1>2 DEF npu_tensor_validate
<1>4. npu_tensor_byte_size(t) = t.dim_h * t.dim_w * t.dim_c
    BY <1>1, <1>3 DEF npu_tensor_byte_size, npu_tensor_element_count
<1>5. t.dim_h * t.dim_w * t.dim_c < 2^DIM_W * 2^DIM_W
    BY <1>1, <1>3, Fits DEF MulOverflow
<1>6. t.dim_h * t.dim_w * t.dim_c \in Nat
    BY <1>1
<1> QED BY <1>1, <1>2, <1>3, <1>4, <1>5, <1>6 DEF Accepted

\* What there is to show of a step.
LEMMA TensorInvPrime ==
    ASSUME tensor' \in Tensors,
           dst' \in [0 .. BufMax - 1 -> Int],
           at' \in [c : Nat, h : Nat, w : Nat],
           err' \in {"OK", "LOOPING"} => Accepted(tensor'),
           err' = "LOOPING" =>
               /\ tensor'.layout = "NCHW"
               /\ at'.c < tensor'.dim_c /\ at'.h < tensor'.dim_h /\ at'.w < tensor'.dim_w,
           stray' => ~ IntSuffices(tensor'),
           IntSuffices(tensor') =>
             \A h \in 0 .. tensor'.dim_h - 1, w \in 0 .. tensor'.dim_w - 1, c \in 0 .. tensor'.dim_c - 1 :
               (err' = "OK" \/ (err' = "LOOPING" /\ Before(c, h, w, at')))
               => dst'[Offset(tensor', h, w, c)] = Element(tensor', h, w, c)
    PROVE  TensorInv'
BY DEF TensorInv, Accepted, Offset, Before, Element, src, IntSuffices, FitsInt

\* A step of the loops stores the element they are at, or nothing, and passes it.
LEMMA LoopStep ==
    ASSUME TensorInv, convert_nchw_to_nhwc
    PROVE  TensorInv'
<1> DEFINE H == tensor.dim_h
           W == tensor.dim_w
           C == tensor.dim_c
<1>1. /\ tensor \in Tensors /\ dst \in [0 .. BufMax - 1 -> Int] /\ at \in [c : Nat, h : Nat, w : Nat]
      /\ Accepted(tensor) /\ tensor.layout = "NCHW" /\ at.c < C /\ at.h < H /\ at.w < W
      /\ err = "LOOPING" /\ tensor' = tensor
    BY DEF TensorInv, convert_nchw_to_nhwc
<1>2. /\ H \in Nat \ {0} /\ W \in Nat \ {0} /\ C \in Nat \ {0} /\ H * W * C <= BufMax /\ BufMax \in Nat
    BY <1>1, TensorAssumption, DimRangeAssumption DEF Accepted
<1>3. at.h \in 0 .. H - 1 /\ at.w \in 0 .. W - 1 /\ at.c \in 0 .. C - 1
    BY <1>1, <1>2
<1>4. PICK o, e, st : /\ o = Offset(tensor, at.h, at.w, at.c) /\ e = Element(tensor, at.h, at.w, at.c)
                     /\ st = StoreIndex(tensor, int_product(at.w * tensor.dim_c))
    OBVIOUS
<1>5. IF st \in 0 .. BufMax - 1 THEN dst' = [dst EXCEPT ![st] = e] /\ stray' = stray
      ELSE stray' = TRUE /\ dst' = dst
    BY <1>1, <1>2, <1>4, StoreIsElement DEF convert_nchw_to_nhwc
<1>6. o \in 0 .. BufMax - 1
    <2>1. H * W * C \in Nat /\ o \in 0 .. H * W * C - 1
        BY <1>2, <1>3, <1>4, Offsets
    <2> QED BY <2>1, <1>2
<1>7. e \in Int
    <2>1. PICK i \in Int : i = (at.c * H + at.h) * W + at.w
        BY <1>1, <1>2
    <2>2. at.c * H + at.h \in 0 .. C * H - 1 /\ C * H \in Nat
        BY <1>2, <1>3, Below
    <2>3. i \in 0 .. (C * H) * W - 1
        BY <1>2, <1>3, <2>1, <2>2, Below
    <2>4. (C * H) * W = H * W * C
        BY <1>2
    <2>5. i \in 0 .. BufMax - 1
        BY <1>2, <2>1, <2>3, <2>4
    <2> QED BY <1>1, <1>4, <2>1, <2>5 DEF Element, src
<1>8. dst' \in [0 .. BufMax - 1 -> Int]
    BY <1>1, <1>5, <1>7
<1>8a. IntSuffices(tensor) => st = o
    BY <1>1, <1>2, <1>4, <1>6, StoreOffset
<1>8b. stray' => ~ IntSuffices(tensor')
    BY <1>1, <1>5, <1>6, <1>8a DEF TensorInv
<1>9. /\ at' \in [c : Nat, h : Nat, w : Nat]
      /\ \/ at.w + 1 < W /\ at'.c = at.c /\ at'.h = at.h /\ at'.w = at.w + 1
         \/ ~ (at.w + 1 < W) /\ at.h + 1 < H /\ at'.c = at.c /\ at'.h = at.h + 1 /\ at'.w = 0
         \/ ~ (at.w + 1 < W) /\ ~ (at.h + 1 < H) /\ at'.c = at.c + 1 /\ at'.h = 0 /\ at'.w = 0
    <2>1. at' = NextIteration(tensor)
        BY DEF convert_nchw_to_nhwc
    <2>2. CASE at.w + 1 < W
        <3>1. at' = [at EXCEPT !.w = @ + 1]
            BY <2>1, <2>2 DEF NextIteration
        <3> QED BY <3>1, <2>2, <1>1
    <2>3. CASE ~ (at.w + 1 < W) /\ at.h + 1 < H
        <3>1. at' = [at EXCEPT !.w = 0, !.h = @ + 1]
            BY <2>1, <2>3 DEF NextIteration
        <3>2. at.h + 1 \in Nat
            BY <1>1
        <3>3. at' \in [c : Nat, h : Nat, w : Nat]
            BY <3>1, <3>2, <1>1
        <3>4. at'.c = at.c /\ at'.h = at.h + 1 /\ at'.w = 0
            BY <3>1, <1>1
        <3> QED BY <3>3, <3>4, <2>3
    <2>4. CASE ~ (at.w + 1 < W) /\ ~ (at.h + 1 < H)
        <3>1. at' = [c |-> at.c + 1, h |-> 0, w |-> 0]
            BY <2>1, <2>4 DEF NextIteration
        <3> QED BY <3>1, <2>4, <1>1
    <2> QED BY <2>2, <2>3, <2>4
<1>10. /\ err' = IF at'.c < C THEN "LOOPING" ELSE "OK"
       /\ at'.h < H /\ at'.w < W
    BY <1>1, <1>2, <1>9 DEF convert_nchw_to_nhwc
<1>11. ASSUME NEW h \in 0 .. H - 1, NEW w \in 0 .. W - 1, NEW c \in 0 .. C - 1,
              err' = "OK" \/ Before(c, h, w, at')
       PROVE  Before(c, h, w, at) \/ (c = at.c /\ h = at.h /\ w = at.w)
    <2>1. err' = "OK" => c < at'.c
        BY <1>2, <1>9, <1>10
    <2>2. Before(c, h, w, at')
        BY <1>11, <2>1 DEF Before
    <2>3. PICK x \in Nat, y \in Nat, z \in Nat, x1 \in Nat, y1 \in Nat, z1 \in Nat :
              /\ x = at.c /\ y = at.h /\ z = at.w /\ x1 = at'.c /\ y1 = at'.h /\ z1 = at'.w
        BY <1>1, <1>9
    <2>4. c < x1 \/ (c = x1 /\ (h < y1 \/ (h = y1 /\ w < z1)))
        BY <2>2, <2>3 DEF Before
    <2>5. \/ z + 1 < W /\ x1 = x /\ y1 = y /\ z1 = z + 1
          \/ ~ (z + 1 < W) /\ y + 1 < H /\ x1 = x /\ y1 = y + 1 /\ z1 = 0
          \/ ~ (z + 1 < W) /\ ~ (y + 1 < H) /\ x1 = x + 1 /\ y1 = 0 /\ z1 = 0
        BY <1>9, <2>3
    <2>6. \/ c < x \/ (c = x /\ (h < y \/ (h = y /\ w < z)))
          \/ c = x /\ h = y /\ w = z
        <3>1. PICK H1 \in Nat, W1 \in Nat : H1 = H /\ W1 = W
            BY <1>2
        <3> QED BY <2>4, <2>5, <3>1
    <2> QED BY <2>3, <2>6 DEF Before
<1>12. ASSUME IntSuffices(tensor),
              NEW h \in 0 .. H - 1, NEW w \in 0 .. W - 1, NEW c \in 0 .. C - 1,
              err' = "OK" \/ Before(c, h, w, at')
       PROVE  dst'[Offset(tensor, h, w, c)] = Element(tensor, h, w, c)
    <2>0. dst' = [dst EXCEPT ![o] = e]
        BY <1>5, <1>6, <1>12, <1>8a
    <2>1. CASE c = at.c /\ h = at.h /\ w = at.w
        BY <2>0, <2>1, <1>1, <1>4, <1>6
    <2>2. CASE Before(c, h, w, at) /\ ~ (c = at.c /\ h = at.h /\ w = at.w)
        <3>1. dst[Offset(tensor, h, w, c)] = Element(tensor, h, w, c)
            BY <2>2, <1>1, <1>12 DEF TensorInv
        <3>2. Offset(tensor, h, w, c) # o /\ Offset(tensor, h, w, c) \in 0 .. H * W * C - 1
            BY <2>2, <1>2, <1>3, <1>4, Offsets
        <3>3. Offset(tensor, h, w, c) \in 0 .. BufMax - 1
            BY <3>2, <1>2
        <3> QED BY <2>0, <3>1, <3>2, <3>3, <1>1
    <2> QED BY <2>1, <2>2, <1>11, <1>12
<1>13. IntSuffices(tensor) =>
         \A h \in 0 .. H - 1, w \in 0 .. W - 1, c \in 0 .. C - 1 :
           (err' = "OK" \/ (err' = "LOOPING" /\ Before(c, h, w, at')))
           => dst'[Offset(tensor, h, w, c)] = Element(tensor, h, w, c)
    BY <1>12
<1>14. /\ err' = "LOOPING" => at'.c < C
       /\ Accepted(tensor')
    BY <1>1, <1>10
<1> QED BY <1>1, <1>8, <1>9, <1>10, <1>13, <1>14, <1>8b, TensorInvPrime

\* A call copies the tensor, starts the loops or leaves the buffer alone.
LEMMA CallStep ==
    ASSUME TensorInv, NEW t \in Tensors, NEW n \in BufSizes, NEW null \in BOOLEAN,
           npu_tensor_convert_to_nhwc(null, t, n)
    PROVE  TensorInv'
<1> DEFINE ok == ConvertError(null, t, n) = "OK"
           loops == ok /\ t.layout = "NCHW"
<1>1. /\ tensor' = t
      /\ err' = IF loops THEN "LOOPING" ELSE ConvertError(null, t, n)
      /\ dst' = IF ok /\ ~ loops THEN memmove(npu_tensor_byte_size(t)) ELSE dst
      /\ at' = [c |-> 0, h |-> 0, w |-> 0]
      /\ stray' = FALSE
    BY DEF npu_tensor_convert_to_nhwc
<1>2. ConvertError(null, t, n) # "LOOPING"
    BY DEF ConvertError, npu_tensor_validate
<1>3. /\ t.dim_h \in Nat /\ t.dim_w \in Nat /\ t.dim_c \in Nat /\ BufMax \in Nat
      /\ dst \in [0 .. BufMax - 1 -> Int]
    BY TensorAssumption, DimRangeAssumption DEF TensorInv
<1>4. /\ at' \in [c : Nat, h : Nat, w : Nat] /\ at'.c = 0 /\ at'.h = 0 /\ at'.w = 0
      /\ tensor' \in Tensors
    BY <1>1
<1>5. ok => /\ Accepted(t) /\ npu_tensor_byte_size(t) = t.dim_h * t.dim_w * t.dim_c
            /\ t.dim_h \in Nat \ {0} /\ t.dim_w \in Nat \ {0} /\ t.dim_c \in Nat \ {0}
    BY <1>3, OkIsAccepted DEF Accepted
<1>6. dst' \in [0 .. BufMax - 1 -> Int]
    BY <1>1, <1>3 DEF memmove, src
<1>7. /\ err' \in {"OK", "LOOPING"} => ok
      /\ err' = "LOOPING" => loops
      /\ err' = "OK" => ok /\ ~ loops
    BY <1>1, <1>2
<1>8. ASSUME NEW h \in 0 .. t.dim_h - 1, NEW w \in 0 .. t.dim_w - 1, NEW c \in 0 .. t.dim_c - 1,
             err' = "OK" \/ (err' = "LOOPING" /\ Before(c, h, w, at'))
      PROVE  dst'[Offset(t, h, w, c)] = Element(t, h, w, c)
    <2>1. ~ Before(c, h, w, at')
        BY <1>3, <1>4 DEF Before
    <2>2. ok /\ ~ loops
        BY <1>8, <1>7, <2>1
    <2>3. t.layout = "NHWC"
        BY <2>2, <1>5 DEF Accepted, Layouts
    <2>4. PICK s \in Nat : s = t.dim_h * t.dim_w * t.dim_c
        BY <1>3
    <2>5. Offset(t, h, w, c) \in 0 .. s - 1 /\ s <= BufMax
        BY <2>2, <2>4, <1>5, Offsets DEF Accepted
    <2>6. PICK i \in Int : i = Offset(t, h, w, c)
        BY <2>5
    <2>7. i \in 0 .. BufMax - 1 /\ i < s
        <3>1. i \in 0 .. s - 1 /\ s <= BufMax
            BY <2>5, <2>6, Zenon
        <3> QED BY <3>1, <1>3
    <2>8. dst'[i] = src[i]
        BY <2>2, <2>4, <2>7, <1>1, <1>5 DEF memmove
    <2>9. Element(t, h, w, c) = src[i]
        BY <2>3, <2>6 DEF Element, Offset
    <2> QED BY <2>6, <2>8, <2>9
<1>9. /\ err' \in {"OK", "LOOPING"} => Accepted(tensor')
      /\ err' = "LOOPING" =>
             /\ tensor'.layout = "NCHW"
             /\ at'.c < tensor'.dim_c /\ at'.h < tensor'.dim_h /\ at'.w < tensor'.dim_w
    BY <1>1, <1>3, <1>4, <1>5, <1>7
<1> QED BY <1>1, <1>4, <1>6, <1>8, <1>9, TensorInvPrime

\* The steps of a program that leave the tensors alone.
LEMMA TensorStutter ==
    ASSUME TensorInv, UNCHANGED tensor_vars
    PROVE  TensorInv'
BY DEF TensorInv, tensor_vars, Accepted, Offset, Before, Element, src, IntSuffices, FitsInt

\* TensorInv holds throughout.
LEMMA TensorInvariant == Spec => []TensorInv
<1>1. Init => TensorInv
    <2> SUFFICES ASSUME Init PROVE TensorInv
        OBVIOUS
    <2>1. tensor \in Tensors
        BY TensorAssumption DEF Init, TensorInit
    <2> QED BY <2>1 DEF Init, TensorInit, TensorInv
<1>2. TensorInv /\ [Next]_vars => TensorInv'
    <2> SUFFICES ASSUME TensorInv, [Next]_vars PROVE TensorInv'
        OBVIOUS
    <2>1. CASE ConvertTensor
        <3>1. CASE convert_nchw_to_nhwc
            BY <3>1, LoopStep
        <3>2. CASE \E t \in Tensors, n \in BufSizes, null \in BOOLEAN :
                       npu_tensor_convert_to_nhwc(null, t, n)
            BY <3>2, CallStep
        <3> QED BY <2>1, <3>1, <3>2 DEF ConvertTensor, Convert
    <2>2. CASE UNCHANGED tensor_vars
        BY <2>2, TensorStutter
    <2> QED BY <2>1, <2>2 DEF Next, BuildCommand, BuildRefused, vars, tensor_vars
<1> QED BY <1>1, <1>2, PTL DEF Spec

\* A converted tensor is in channel-last order where the device looks for it,
\* for every tensor whose last column's index fits int, every size of the
\* buffers and whatever they held.
THEOREM ConversionIsNhwc == Spec => []ConvertedIsNhwc
<1>1. TensorInv => ConvertedIsNhwc
    <2> SUFFICES ASSUME TensorInv, err = "OK", IntSuffices(tensor), NEW x \in Positions(tensor)
                 PROVE  dst[npu_tensor_nhwc_offset(tensor, 0, x[1], x[2], x[3]) - tensor.base_addr]
                            = Element(tensor, x[1], x[2], x[3])
        BY DEF ConvertedIsNhwc
    <2>1. PICK h \in 0 .. tensor.dim_h - 1, w \in 0 .. tensor.dim_w - 1, c \in 0 .. tensor.dim_c - 1 :
              x[1] = h /\ x[2] = w /\ x[3] = c
        BY DEF Positions
    <2>2. /\ tensor.base_addr \in Nat /\ tensor.dim_h \in Nat /\ tensor.dim_w \in Nat
          /\ tensor.dim_c \in Nat
        BY TensorAssumption, DimRangeAssumption DEF TensorInv
    <2>3. npu_tensor_nhwc_offset(tensor, 0, h, w, c) - tensor.base_addr = Offset(tensor, h, w, c)
        <3>1. PICK i \in Int : i = (h * tensor.dim_w + w) * tensor.dim_c
            BY <2>2
        <3>2. ((0 * tensor.dim_h + h) * tensor.dim_w + w) * tensor.dim_c = i
            BY <2>2, <3>1
        <3> QED BY <2>2, <3>1, <3>2 DEF npu_tensor_nhwc_offset, Offset
    <2>4. dst[Offset(tensor, h, w, c)] = Element(tensor, h, w, c)
        BY DEF TensorInv
    <2> QED BY <2>1, <2>3, <2>4
<1> QED BY <1>1, TensorInvariant, PTL

\* No call changes bytes outside a tensor it accepted, for every tensor and
\* every size of its buffers; none stores outside the destination where the
\* last column's index fits int.
THEOREM ConversionStaysInside == Spec => WritesOnlyTheTensor
<1>1. ASSUME TensorInv, TensorInv', [Next]_vars
      PROVE  [/\ dst' # dst =>
                     /\ err' \in {"OK", "LOOPING"}
                     /\ \A i \in 0 .. BufMax - 1 : dst'[i] # dst[i] =>
                            i < tensor'.dim_h * tensor'.dim_w * tensor'.dim_c
                     /\ tensor'.dim_h * tensor'.dim_w * tensor'.dim_c < 2^DIM_W * 2^DIM_W
                     /\ tensor'.dim_n = 1 /\ tensor'.layout \in Layouts
              /\ stray' => ~ IntSuffices(tensor')]_tensor_vars
    <2>0. stray' => ~ IntSuffices(tensor')
        BY <1>1 DEF TensorInv
    <2> SUFFICES ASSUME dst' # dst
                 PROVE  /\ err' \in {"OK", "LOOPING"}
                        /\ \A i \in 0 .. BufMax - 1 : dst'[i] # dst[i] =>
                               i < tensor'.dim_h * tensor'.dim_w * tensor'.dim_c
                        /\ tensor'.dim_h * tensor'.dim_w * tensor'.dim_c < 2^DIM_W * 2^DIM_W
                        /\ tensor'.dim_n = 1 /\ tensor'.layout \in Layouts
        BY <2>0
    <2>1. CASE convert_nchw_to_nhwc
        <3>1. /\ tensor \in Tensors /\ at \in [c : Nat, h : Nat, w : Nat] /\ err = "LOOPING"
              /\ Accepted(tensor) /\ tensor.layout = "NCHW" /\ tensor' = tensor
              /\ at.c < tensor.dim_c /\ at.h < tensor.dim_h /\ at.w < tensor.dim_w
              /\ err' \in {"OK", "LOOPING"}
            BY <1>1, <2>1 DEF TensorInv, convert_nchw_to_nhwc
        <3>2. /\ tensor.dim_h \in Nat \ {0} /\ tensor.dim_w \in Nat \ {0} /\ tensor.dim_c \in Nat \ {0}
            BY <3>1, TensorAssumption, DimRangeAssumption DEF Accepted
        <3>3. PICK o, j : /\ o = Offset(tensor, at.h, at.w, at.c)
                          /\ j = StoreIndex(tensor, int_product(at.w * tensor.dim_c))
            OBVIOUS
        <3>4. dst' = [dst EXCEPT ![j] = src[LoadIndex(tensor)]]
            BY <2>1, <3>3 DEF convert_nchw_to_nhwc
        <3>5. at.h \in 0 .. tensor.dim_h - 1 /\ at.w \in 0 .. tensor.dim_w - 1
              /\ at.c \in 0 .. tensor.dim_c - 1
            BY <3>1, <3>2
        <3>6. PICK s \in Nat : s = tensor.dim_h * tensor.dim_w * tensor.dim_c
            BY <3>2
        <3>7. o \in 0 .. s - 1
            BY <3>2, <3>3, <3>5, <3>6, Offsets
        <3>8. j < s
            <4>1. j = o \/ j = o - 2^DIM_W * 2^DIM_W
                BY <3>1, <3>2, <3>3, <3>7, StoreOffset
            <4>2. PICK n \in Nat : n = 2^DIM_W * 2^DIM_W
                BY DimRangeAssumption
            <4> QED BY <4>1, <4>2, <3>6, <3>7
        <3>9. ASSUME NEW i \in 0 .. BufMax - 1, dst'[i] # dst[i] PROVE i < s
            <4>1. i = j
                BY <3>4, <3>9, <1>1 DEF TensorInv
            <4> QED BY <4>1, <3>8
        <3> QED BY <3>1, <3>6, <3>9 DEF Accepted
    <2>2. ASSUME NEW t \in Tensors, NEW n \in BufSizes, NEW null \in BOOLEAN,
                 npu_tensor_convert_to_nhwc(null, t, n)
          PROVE  /\ err' \in {"OK", "LOOPING"}
                 /\ \A i \in 0 .. BufMax - 1 : dst'[i] # dst[i] =>
                        i < tensor'.dim_h * tensor'.dim_w * tensor'.dim_c
                 /\ tensor'.dim_h * tensor'.dim_w * tensor'.dim_c < 2^DIM_W * 2^DIM_W
                 /\ tensor'.dim_n = 1 /\ tensor'.layout \in Layouts
        <3>1. /\ ConvertError(null, t, n) = "OK" /\ tensor' = t /\ err' = "OK"
              /\ dst' = memmove(npu_tensor_byte_size(t))
            BY <2>2 DEF npu_tensor_convert_to_nhwc
        <3>2. /\ Accepted(t) /\ npu_tensor_byte_size(t) = t.dim_h * t.dim_w * t.dim_c
            BY <3>1, OkIsAccepted
        <3>3. \A i \in 0 .. BufMax - 1 : dst'[i] # dst[i] => i < t.dim_h * t.dim_w * t.dim_c
            BY <3>1, <3>2 DEF memmove
        <3> QED BY <3>1, <3>2, <3>3 DEF Accepted
    <2>3. CASE UNCHANGED tensor_vars
        BY <2>3 DEF tensor_vars
    <2> QED BY <1>1, <2>1, <2>2, <2>3
            DEF Next, ConvertTensor, Convert, BuildCommand, BuildRefused, vars, tensor_vars
<1> QED BY <1>1, TensorInvariant, PTL DEF Spec, WritesOnlyTheTensor

-----------------------------------------------------------------------------
(***************************************************************************)
(* From the framework's buffer to the multiplier.                          *)
(***************************************************************************)
\* A window the command computes ends within the padded input.
LEMMA WindowFits ==
    ASSUME NEW in \in uint16_t, NEW pad \in uint16_t, NEW filt \in uint16_t,
           NEW stride \in uint16_t, stride # 0, filt <= in + 2 * pad,
           NEW out \in Extent(in, pad, filt, stride, 0), NEW o \in 0 .. out - 1
    PROVE  o * stride + filt <= in + 2 * pad /\ o * stride \in Nat
<1>1. PICK M : M = 2^DIM_W
    OBVIOUS
<1>2. M \in Nat \ {0} /\ in \in Nat /\ pad \in Nat /\ filt \in Nat /\ stride \in Nat \ {0}
    BY <1>1, DimRangeAssumption DEF uint16_t
<1>3. PICK D \in Nat : D = in + 2 * pad - filt
    BY <1>2
<1>4. PICK q \in Int : /\ q = D \div stride
                       /\ D % stride \in 0 .. stride - 1 /\ D = q * stride + (D % stride)
    <2>1. stride \in Nat \ {0} /\ D \in Int
        BY <1>2, <1>3
    <2> QED BY <2>1, DivModOf, Zenon
<1>5. D % stride \in 0 .. stride - 1 /\ D = q * stride + (D % stride)
    BY <1>4
<1>6. q * stride \in Int /\ q * stride <= D /\ D < q * stride + stride
    BY <1>2, <1>3, <1>4, <1>5
<1>7. q \in Nat
    <2> SUFFICES ASSUME q < 0 PROVE FALSE
        BY <1>4
    <2>1. (q + 1) * stride <= 0 * stride /\ 0 * stride = 0
        BY <1>2, <1>4, Times
    <2>2. (q + 1) * stride = q * stride + stride
        BY <1>2, <1>4
    <2> QED BY <2>1, <2>2, <1>6, <1>3, <1>2
<1>8. out = (q + 1) % M
    BY <1>1, <1>2, <1>3, <1>4, PositionsCounted DEF Extent
<1>9. out \in Nat /\ out <= q + 1
    <2>1. PICK d \in Int : q + 1 = d * M + out /\ out \in 0 .. M - 1
        <3>1. M \in Nat \ {0} /\ q + 1 \in Int
            BY <1>2, <1>7
        <3> QED BY <3>1, <1>8, DivModOf, Zenon
    <2>2. q + 1 = d * M + out /\ out \in 0 .. M - 1
        BY <2>1
    <2>3. d >= 0
        <3> SUFFICES ASSUME d < 0 PROVE FALSE
            BY <2>1
        <3>1. (d + 1) * M <= 0 * M /\ 0 * M = 0 /\ (d + 1) * M = d * M + M
            BY <1>2, <2>1, Times
        <3> QED BY <3>1, <2>2, <1>7, <1>2
    <2>4. 0 * M <= d * M /\ 0 * M = 0
        BY <1>2, <2>1, <2>3, Times
    <2> QED BY <2>2, <2>4, <1>2, <1>7, <2>1
<1>10. o \in Nat /\ o <= q
    BY <1>9, <1>7
<1>11. o * stride <= q * stride /\ o * stride \in Nat
    BY <1>10, <1>7, <1>2, Times
<1> QED BY <1>11, <1>6, <1>3, <1>2

\* A coordinate of such a window in the generator's signed 17 bits: within the
\* input it is itself, outside it is negative or too large.
LEMMA Coordinate ==
    ASSUME NEW in \in uint16_t, NEW pad \in uint16_t, NEW filt \in uint16_t,
           NEW stride \in uint16_t, NEW o \in Nat, NEW r \in 0 .. filt - 1,
           o * stride \in Nat, o * stride + filt <= in + 2 * pad,
           NEW x, x = o * stride + r - pad
    PROVE  /\ x \in Int
           /\ (in_calc(o, stride, r, pad) < 0 \/ in_calc(o, stride, r, pad) >= in)
                <=> x \notin 0 .. in - 1
           /\ x \in 0 .. in - 1 => uint16(in_calc(o, stride, r, pad)) = x
<1>1. PICK M : M = 2^DIM_W
    OBVIOUS
<1>2. /\ M \in Nat /\ M >= 16 /\ in \in 0 .. M - 1 /\ pad \in 0 .. M - 1
      /\ filt \in 0 .. M - 1 /\ stride \in 0 .. M - 1
    BY <1>1, DimRangeAssumption DEF uint16_t
<1>3. x \in Int /\ x >= 1 - M /\ x <= in + pad - 1 /\ x <= 2 * M - 3
    BY <1>2
<1>4. PICK y : y = in_calc(o, stride, r, pad)
    OBVIOUS
<1>5. y = ((x + M) % (2 * M)) - M
    BY <1>1, <1>4 DEF in_calc, signed17
<1>6. CASE x < M
    <2>1. x + M \in 0 .. 2 * M - 1 /\ 2 * M \in Nat \ {0}
        BY <1>6, <1>2, <1>3
    <2>2. (x + M) % (2 * M) = x + M
        BY <2>1, Small
    <2>3. y = x
        BY <2>2, <1>5, <1>2, <1>3
    <2>4. x \in 0 .. in - 1 => x % M = x
        <3> SUFFICES ASSUME x \in 0 .. in - 1 PROVE x % M = x
            OBVIOUS
        <3>1. x \in 0 .. M - 1 /\ M \in Nat \ {0}
            BY <1>2
        <3> QED BY <3>1, Small
    <2> QED BY <2>3, <2>4, <1>1, <1>2, <1>3, <1>4 DEF uint16
<1>7. CASE x >= M
    <2>1. /\ 2 * M \in Nat \ {0} /\ x - M \in 0 .. 2 * M - 1
          /\ x + M = 1 * (2 * M) + (x - M)
        BY <1>7, <1>2, <1>3
    <2>2. (x + M) % (2 * M) = x - M
        <3>1. \A m \in Nat \ {0} : \A v \in 0 .. m - 1 : (1 * m + v) % m = v
            BY DivMod
        <3> QED BY <2>1, <3>1, Zenon
    <2>3. y < 0
        BY <2>2, <1>5, <1>2, <1>3
    <2>4. x \notin 0 .. in - 1
        BY <1>7, <1>2, <1>3
    <2> QED BY <2>3, <2>4, <1>3, <1>4
<1> QED BY <1>3, <1>6, <1>7, <1>2

\* A tensor of these extents at address b lies within the device's memory.
Addressable(b, H, W, C) == b + H * W * C <= 2^DIM_W

\* The generator computes the address of each of its elements exactly.
AddressedExactly(b, H, W, C) ==
    \A h \in 0 .. H - 1, w \in 0 .. W - 1, c \in 0 .. C - 1 :
        uint16(b + uint32(uint32(h * W + w) * C) + c) = b + ((h * W + w) * C + c)

\* The address of an element of a tensor within the device's memory does not
\* wrap in any of the stages that compute it.
LEMMA NoAddressWrap ==
    ASSUME NEW b \in Nat, NEW H \in Nat \ {0}, NEW W \in Nat \ {0}, NEW C \in Nat \ {0},
           Addressable(b, H, W, C)
    PROVE  AddressedExactly(b, H, W, C)
<1> SUFFICES ASSUME NEW h \in 0 .. H - 1, NEW w \in 0 .. W - 1, NEW c \in 0 .. C - 1
             PROVE  uint16(b + uint32(uint32(h * W + w) * C) + c) = b + ((h * W + w) * C + c)
    BY DEF AddressedExactly
<1>1. PICK M : M = 2^DIM_W
    OBVIOUS
<1>2. M \in Nat /\ M >= 16
    BY <1>1, DimRangeAssumption
<1>3. PICK i \in Int : i = h * W + w
    OBVIOUS
<1>4. i \in 0 .. H * W - 1 /\ H * W \in Nat
    BY <1>3, Below
<1>5. i * C + c \in 0 .. (H * W) * C - 1
    BY <1>4, Below
<1>6. PICK S \in Nat : S = H * W * C
    OBVIOUS
<1>7. PICK j \in Int : j = i * C
    OBVIOUS
<1>8. i <= j /\ i >= 0
    <2>1. i * 1 <= i * C
        BY <1>4
    <2> QED BY <2>1, <1>3, <1>4, <1>7
<1>9. j + c \in 0 .. S - 1 /\ b + S <= M
    BY <1>1, <1>5, <1>6, <1>7 DEF Addressable
<1>10. M <= M * M /\ M * M \in Nat
    BY <1>2
<1>11. /\ i \in 0 .. M * M - 1 /\ j \in 0 .. M * M - 1 /\ b + j + c \in 0 .. M - 1
    BY <1>2, <1>6, <1>8, <1>9, <1>10
<1>12. uint32(i) = i /\ uint32(j) = j /\ uint16(b + j + c) = b + j + c
    BY <1>1, <1>11, Fits DEF uint16_t
<1>13. uint16(b + uint32(uint32(i) * C) + c) = b + j + c
    BY <1>7, <1>12, Zenon
<1>14. b + j + c = b + (j + c)
    BY <1>7
<1> QED BY <1>3, <1>7, <1>13, <1>14, Zenon

\* The indices of such a tensor fit int.
LEMMA SmallFitsInt ==
    ASSUME NEW b \in Nat, NEW H \in Nat \ {0}, NEW W \in Nat \ {0}, NEW C \in Nat \ {0},
           H = tensor.dim_h, W = tensor.dim_w, C = tensor.dim_c, Addressable(b, H, W, C)
    PROVE  IntSuffices(tensor)
<1>1. PICK M : M = 2^DIM_W
    OBVIOUS
<1>2. M \in Nat /\ M >= 16
    BY <1>1, DimRangeAssumption
<1>3. PICK x \in Nat, y \in Nat, s \in Nat : x = (W - 1) * C /\ y = W * C /\ s = H * y
    OBVIOUS
<1>4. x <= y /\ y <= s
    <2>1. (W - 1) * C = W * C - C
        OBVIOUS
    <2>2. 1 * y <= H * y
        BY <1>3, Times
    <2> QED BY <2>1, <2>2, <1>3
<1>5. s = H * W * C
    BY <1>3
<1>6. b + s <= M
    BY <1>1, <1>5 DEF Addressable
<1>7. 2 * M < M * M
    BY <1>2, Times
<1>8. M * M \in Nat /\ 2 * x < M * M
    BY <1>2, <1>3, <1>4, <1>6, <1>7
<1> QED BY <1>1, <1>3, <1>8 DEF IntSuffices, FitsInt

\* The convolution backend reads the caller's elements: for every tensor,
\* every geometry whose windows move and fit, and every width of the
\* dimensions.
THEOREM FetchIsCorrect == Spec => []FetchReadsTensor
<1>1. BuilderInv /\ TensorInv => FetchReadsTensor
    <2> SUFFICES ASSUME BuilderInv, TensorInv, ConvOnTensor
                 PROVE  LET cmd == cmd_r(desc)
                            p == made.p
                        IN \A oh \in 0 .. cmd.out_h - 1, ow \in 0 .. cmd.out_w - 1,
                              r \in 0 .. p.filt_r - 1, s \in 0 .. p.filt_s - 1,
                              c \in 0 .. p.in_c - 1 :
                                LET ih == oh * p.stride_h + r - p.pad_h
                                    iw == ow * p.stride_w + s - p.pad_w
                                    inside == ih \in 0 .. p.in_h - 1 /\ iw \in 0 .. p.in_w - 1
                                IN /\ zero_pad(cmd, oh, ow, r, s) <=> ~ inside
                                   /\ inside => dst[act_addr(cmd, oh, ow, r, s, c) - tensor.base_addr]
                                                  = Element(tensor, ih, iw, c)
        BY Zenon DEF FetchReadsTensor
    <2>1. PICK p \in npu_conv_params : made.p = p /\ desc = npu_cmd_build_conv(p)
        BY ParamsAssumption DEF BuilderInv, ConvOnTensor
    <2>2. /\ p.act_in_addr = tensor.base_addr /\ p.in_h = tensor.dim_h
          /\ p.in_w = tensor.dim_w /\ p.in_c = tensor.dim_c
          /\ tensor.base_addr + npu_tensor_byte_size(tensor) <= 2^DIM_W
          /\ p.stride_h # 0 /\ p.stride_w # 0 /\ p.out_h = 0 /\ p.out_w = 0
          /\ p.filt_r <= p.in_h + 2 * p.pad_h /\ p.filt_s <= p.in_w + 2 * p.pad_w
          /\ err = "OK"
        BY <2>1 DEF ConvOnTensor
    <2>3. PICK cmd : cmd = cmd_r(desc)
        OBVIOUS
    <2>4. /\ cmd.out_h \in Extent(p.in_h, p.pad_h, p.filt_r, p.stride_h, 0)
          /\ cmd.out_w \in Extent(p.in_w, p.pad_w, p.filt_s, p.stride_w, 0)
          /\ cmd.act_in_addr = p.act_in_addr /\ cmd.in_h = p.in_h /\ cmd.in_w = p.in_w
          /\ cmd.in_c = p.in_c /\ cmd.stride_h = p.stride_h /\ cmd.stride_w = p.stride_w
          /\ cmd.pad_h = p.pad_h /\ cmd.pad_w = p.pad_w
        BY <2>1, <2>2, <2>3, ConvFields
    <2>5. /\ p.in_h \in uint16_t /\ p.pad_h \in uint16_t /\ p.filt_r \in uint16_t
          /\ p.stride_h \in uint16_t /\ p.in_w \in uint16_t /\ p.pad_w \in uint16_t
          /\ p.filt_s \in uint16_t /\ p.stride_w \in uint16_t
        BY DEF npu_conv_params
    <2>6. ASSUME NEW oh \in 0 .. cmd.out_h - 1, NEW ow \in 0 .. cmd.out_w - 1,
                 NEW r \in 0 .. p.filt_r - 1, NEW s \in 0 .. p.filt_s - 1,
                 NEW c \in 0 .. p.in_c - 1, NEW ih, ih = oh * p.stride_h + r - p.pad_h,
                 NEW iw, iw = ow * p.stride_w + s - p.pad_w
          PROVE  /\ zero_pad(cmd, oh, ow, r, s) <=> ~ (ih \in 0 .. p.in_h - 1 /\ iw \in 0 .. p.in_w - 1)
                 /\ ih \in 0 .. p.in_h - 1 /\ iw \in 0 .. p.in_w - 1 =>
                        dst[act_addr(cmd, oh, ow, r, s, c) - tensor.base_addr]
                            = Element(tensor, ih, iw, c)
        <3> DEFINE y == in_calc(oh, p.stride_h, r, p.pad_h)
                   x == in_calc(ow, p.stride_w, s, p.pad_w)
        <3>1. /\ y < 0 \/ y >= p.in_h <=> ih \notin 0 .. p.in_h - 1
              /\ ih \in 0 .. p.in_h - 1 => uint16(y) = ih
            <4>1. oh \in Nat /\ oh * p.stride_h + p.filt_r <= p.in_h + 2 * p.pad_h
                  /\ oh * p.stride_h \in Nat
                BY <2>2, <2>4, <2>5, WindowFits
            <4> QED BY <4>1, <2>5, <2>6, Coordinate
        <3>2. /\ x < 0 \/ x >= p.in_w <=> iw \notin 0 .. p.in_w - 1
              /\ iw \in 0 .. p.in_w - 1 => uint16(x) = iw
            <4>1. ow \in Nat /\ ow * p.stride_w + p.filt_s <= p.in_w + 2 * p.pad_w
                  /\ ow * p.stride_w \in Nat
                BY <2>2, <2>4, <2>5, WindowFits
            <4> QED BY <4>1, <2>5, <2>6, Coordinate
        <3> HIDE DEF x, y
        <3>3. zero_pad(cmd, oh, ow, r, s) <=> y < 0 \/ y >= p.in_h \/ x < 0 \/ x >= p.in_w
            BY <2>4 DEF zero_pad, x, y
        <3>4. ASSUME ih \in 0 .. p.in_h - 1, iw \in 0 .. p.in_w - 1
              PROVE  dst[act_addr(cmd, oh, ow, r, s, c) - tensor.base_addr] = Element(tensor, ih, iw, c)
            <4>1. PICK H \in Nat \ {0}, W \in Nat \ {0}, C \in Nat \ {0}, b \in Nat :
                      /\ H = tensor.dim_h /\ W = tensor.dim_w /\ C = tensor.dim_c
                      /\ b = tensor.base_addr
                <5>1. /\ tensor.dim_h \in Nat /\ tensor.dim_w \in Nat /\ tensor.dim_c \in Nat
                      /\ tensor.base_addr \in Nat
                    BY TensorAssumption, DimRangeAssumption DEF TensorInv
                <5>2. tensor.dim_h >= 1 /\ tensor.dim_w >= 1 /\ tensor.dim_c >= 1
                    BY <2>2 DEF TensorInv, Accepted
                <5> QED BY <5>1, <5>2
            <4>2. Addressable(b, H, W, C)
                <5>1. npu_tensor_byte_size(tensor) = 1 * H * W * C
                    BY <2>2, <4>1 DEF TensorInv, Accepted, npu_tensor_byte_size, npu_tensor_element_count
                <5>2. 1 * H * W * C = H * W * C
                    BY <4>1
                <5> QED BY <5>1, <5>2, <2>2, <4>1 DEF Addressable
            <4>3. act_addr(cmd, oh, ow, r, s, c) = uint16(b + uint32(uint32(ih * W + iw) * C) + c)
                BY <2>2, <2>4, <3>1, <3>2, <3>4, <4>1 DEF act_addr, x, y
            <4>4. ih \in 0 .. H - 1 /\ iw \in 0 .. W - 1 /\ c \in 0 .. C - 1
                BY <2>2, <3>4, <4>1
            <4>5. act_addr(cmd, oh, ow, r, s, c) = b + ((ih * W + iw) * C + c)
                <5>1. AddressedExactly(b, H, W, C)
                    BY <4>2, NoAddressWrap
                <5> QED BY <4>3, <4>4, <5>1, Zenon DEF AddressedExactly
            <4>6. act_addr(cmd, oh, ow, r, s, c) - b = Offset(tensor, ih, iw, c)
                <5>1. PICK k \in Int : k = (ih * W + iw) * C + c
                    BY <4>4
                <5> QED BY <4>1, <4>5, <5>1 DEF Offset
            <4>7. dst[Offset(tensor, ih, iw, c)] = Element(tensor, ih, iw, c)
                <5>1. IntSuffices(tensor)
                    BY <4>1, <4>2, SmallFitsInt
                <5> QED BY <2>2, <4>1, <4>4, <5>1 DEF TensorInv
            <4> QED BY <4>1, <4>6, <4>7
        <3> QED BY <3>1, <3>2, <3>3, <3>4
    <2> QED BY <2>1, <2>3, <2>6
<1> QED BY <1>1, BuilderInvariant, TensorInvariant, PTL
=============================================================================
