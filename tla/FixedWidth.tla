---------------------------- MODULE FixedWidth ------------------------------
(***************************************************************************)
(* The integer types the runtime and the device compute in, at a           *)
(* parametric width: uint16_t and dim_t are DIM_W bits wide, uint32_t and  *)
(* the registers 2 * DIM_W.  DIM_W is 16 in the code                       *)
(* (include/pkg/npu_types_pkg.sv, sw/uapi/lgnpu_cmd.h).                    *)
(***************************************************************************)
EXTENDS Integers

CONSTANT DIM_W

\* The last word of a descriptor needs seven bits.
ASSUME DimWAssumption == DIM_W \in Nat /\ 2 * DIM_W >= 8

\* What that says of the range of a dim_t.
ASSUME DimRangeAssumption == 2^DIM_W \in Nat /\ 2^DIM_W >= 16 /\ 2^DIM_W % 16 = 0

uint16(x) == x % 2^DIM_W

uint32(x) == x % (2^DIM_W * 2^DIM_W)

\* dim_t arithmetic that is one bit wider and signed: logic signed [DIM_W:0].
signed17(x) == ((x + 2^DIM_W) % (2 * 2^DIM_W)) - 2^DIM_W
=============================================================================
