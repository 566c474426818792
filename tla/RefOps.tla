------------------------------- MODULE RefOps -------------------------------
(***************************************************************************)
(* tb/integration/npu_tb.h: the functions the integration tests compare    *)
(* the device's results with.  A vector is a function on 0 .. n - 1 of     *)
(* INT8 values.  The 32 bits of the C++ integers are ACC_W bits where a    *)
(* value saturates at them.                                                *)
(***************************************************************************)
EXTENDS Integers, Sequences, FiniteSetsExt

CONSTANT ACC_W      \* width of the accumulators and dividers, 32 in the code

\* if (x > 127) x = 127; if (x < -128) x = -128
Clamped(x) == IF x > 127 THEN 127 ELSE IF x < -128 THEN -128 ELSE x

\* x >> n on a signed integer.
Shifted(x, n) == x \div 2^n

\* C++ division, which truncates.
Quotient(x, n) == IF x < 0 THEN -((-x) \div n) ELSE x \div n

LEAKY_SHIFT == 3

\* The activation of ref_gemm, ref_conv and ref_vec, by ACT_MODE_RELU (1) and
\* ACT_MODE_LEAKY_RELU (2).
Activation(acc, act_mode) ==
    IF acc < 0 /\ act_mode = 1 THEN 0
    ELSE IF acc < 0 /\ act_mode = 2 THEN Shifted(acc, LEAKY_SHIFT)
    ELSE acc

\* Digit-by-digit square root of a uint32_t.
isqrt_hw(n) ==
    LET digit[i \in 0 .. 16] ==     \* after i iterations
            IF i = 0 THEN [rem |-> 0, result |-> 0]
            ELSE LET rem == 4 * digit[i - 1].rem + ((n \div 4^(16 - i)) % 4)
                     result == digit[i - 1].result
                 IN IF rem >= 4 * result + 1
                    THEN [rem |-> rem - (4 * result + 1), result |-> 2 * result + 1]
                    ELSE [rem |-> rem, result |-> 2 * result]
    IN digit[16].result

-----------------------------------------------------------------------------
ref_vec(a, b, length, vec_op, quant_shift, act_mode) ==
    [i \in 0 .. length - 1 |->
        IF vec_op = 0 THEN Clamped(a[i] + b[i])
        ELSE Clamped(Shifted(Activation(a[i] * b[i], act_mode), quant_shift))]

ref_gemm(a, b, bias, M, N, K, quant_shift, act_mode) ==
    [x \in 0 .. M * N - 1 |->
        LET m == x \div N
            n == x % N
            acc == MapThenSumSet(LAMBDA k : a[m * K + k] * b[k * N + n], 0 .. K - 1) + bias[n]
        IN Clamped(Shifted(Activation(acc, act_mode), quant_shift))]

\* The extent of ref_conv's and ref_pool's output.
RefExtent(in, pad, filt, stride) == Quotient(in + 2 * pad - filt, stride) + 1

ref_conv(act, wt, bias, d, quant_shift, act_mode) ==
    LET OH == RefExtent(d.H, d.pad_h, d.R, d.stride_h)
        OW == RefExtent(d.W, d.pad_w, d.S, d.stride_w)
    IN [x \in 0 .. OH * OW * d.K - 1 |->
          LET k == x % d.K
              ow == (x \div d.K) % OW
              oh == x \div (d.K * OW)
              Tap(r, s, c) ==
                  LET ih == oh * d.stride_h + r - d.pad_h
                      iw == ow * d.stride_w + s - d.pad_w
                  IN IF ih >= 0 /\ ih < d.H /\ iw >= 0 /\ iw < d.W
                     THEN act[(ih * d.W + iw) * d.C + c] * wt[((k * d.R + r) * d.S + s) * d.C + c]
                     ELSE 0
              acc == MapThenSumSet(LAMBDA t : Tap(t[1], t[2], t[3]),
                                   (0 .. d.R - 1) \X (0 .. d.S - 1) \X (0 .. d.C - 1)) + bias[k]
          IN Clamped(Shifted(Activation(acc, act_mode), quant_shift))]

-----------------------------------------------------------------------------
ExpInt == <<65535, 24109, 8869, 3263, 1200, 442, 162, 60>>

ExpFrac ==
    <<65535, 63519, 61564, 59670, 57834, 56055, 54330, 52659,
      51039, 49468, 47946, 46471, 45042, 43656, 42313, 41011,
      39749, 38526, 37341, 36192, 35078, 33999, 32953, 31939,
      30957, 30004, 29081, 28186, 27319, 26479, 25664, 24874>>

\* (a * b) >> 16 of two 16-bit values, by the bytes of b.
ProductHigh(a, b) == (a * (b \div 256) + (a * (b % 256)) \div 256) \div 256

softmax_exp_approx(diff) ==
    ProductHigh(ExpInt[diff \div 32 + 1], ExpFrac[(diff % 32) + 1])

ref_softmax(input, num_rows, row_len) ==
    [x \in 0 .. num_rows * row_len - 1 |->
        LET base == (x \div row_len) * row_len
            row == {input[base + i] : i \in 0 .. row_len - 1}
            max_val == Max(row)
            Exp(i) == softmax_exp_approx((max_val - input[i]) % 256)
            sum == MapThenSumSet(Exp, base .. base + row_len - 1)
        IN Min({(Exp(x) * 127) \div sum, 127})]

ref_lnorm(input, num_rows, row_len, norm_shift) ==
    [x \in 0 .. num_rows * row_len - 1 |->
        LET base == (x \div row_len) * row_len
            row == base .. base + row_len - 1
            mean == Quotient(MapThenSumSet(LAMBDA i : input[i], row), row_len)
            variance == MapThenSumSet(LAMBDA i : (input[i] - mean) * (input[i] - mean), row)
                            \div row_len
            std_val == Max({isqrt_hw(variance + 1), 1})
            diff == input[x] - mean
            scaled == Min({(IF diff < 0 THEN -diff ELSE diff) * 2^norm_shift, 2^ACC_W - 1})
            quot == scaled \div std_val
        IN IF diff < 0 THEN -Min({quot, 128}) ELSE Min({quot, 127})]

ref_pool(input, d, pool_mode) ==
    LET OH == RefExtent(d.H, d.pad_h, d.R, d.stride_h)
        OW == RefExtent(d.W, d.pad_w, d.S, d.stride_w)
    IN [x \in 0 .. OH * OW * d.C - 1 |->
          LET c == x % d.C
              ow == (x \div d.C) % OW
              oh == x \div (d.C * OW)
              window == {w \in (0 .. d.H - 1) \X (0 .. d.W - 1) :
                            /\ w[1] - (oh * d.stride_h - d.pad_h) \in 0 .. d.R - 1
                            /\ w[2] - (ow * d.stride_w - d.pad_w) \in 0 .. d.S - 1}
              Value(w) == input[(w[1] * d.W + w[2]) * d.C + c]
          IN IF pool_mode = 0
             THEN Max({-128} \cup {Value(w) : w \in window})
             ELSE Clamped(Quotient(MapThenSumSet(Value, window), d.R * d.S))]
=============================================================================
