---------------------------- MODULE BackendPorts ----------------------------
(***************************************************************************)
(* The local buffers as a backend's controller sees them: the read ports   *)
(* of rtl/memory/npu_act_buffer.sv and npu_weight_buffer.sv and the write  *)
(* port of the former.  A request is granted in its own cycle and a read   *)
(* answered in the next one.  A byte is its INT8 value.                    *)
(***************************************************************************)
EXTENDS FixedWidth

CONSTANT ACC_W      \* width of the accumulators and dividers, 32 in the code

ASSUME AccWAssumption == ACC_W \in Nat \ {0} /\ ACC_W % 2 = 0

\* Powers of two up to that width, and the room it leaves for the sum of a row
\* of bytes.
ASSUME PowerAssumption ==
    /\ \A n \in 0 .. ACC_W : 2^n > 0 /\ 2^(n + 1) = 2 * 2^n
    /\ 2^(ACC_W \div 2) * 2^(ACC_W \div 2) = 2^ACC_W
ASSUME AccRangeAssumption == 128 * 2^DIM_W <= 2^ACC_W

VARIABLES
    act, wt,            \* contents of the activation and weight buffers
    act_rd, wt_rd       \* rvalid and rdata of the backend read ports

portVars == <<act, wt, act_rd, wt_rd>>

Addresses == 0 .. 2^DIM_W - 1

NoData == [rvalid |-> FALSE, rdata |-> 0]

ReadAct(addr) ==
    /\ act_rd' = [rvalid |-> TRUE, rdata |-> act[uint16(addr)]]
    /\ wt_rd' = NoData
    /\ UNCHANGED <<act, wt>>

ReadBoth(aaddr, waddr) ==
    /\ act_rd' = [rvalid |-> TRUE, rdata |-> act[uint16(aaddr)]]
    /\ wt_rd' = [rvalid |-> TRUE, rdata |-> wt[uint16(waddr)]]
    /\ UNCHANGED <<act, wt>>

WriteAct(addr, data) ==
    /\ act' = [act EXCEPT ![uint16(addr)] = data]
    /\ act_rd' = NoData /\ wt_rd' = NoData
    /\ UNCHANGED wt

NoAccess ==
    /\ act_rd' = NoData /\ wt_rd' = NoData
    /\ UNCHANGED <<act, wt>>

PortsInit == act_rd = NoData /\ wt_rd = NoData

\* Mutant: the remainder is not reduced.
div_stepBare(d) ==
    LET trial == ((2 * d.rem) % 2^ACC_W) + d.quot \div 2^(ACC_W - 1)
    IN [d EXCEPT !.quot = ((2 * @) % 2^ACC_W) + (IF trial >= d.denom THEN 1 ELSE 0),
                 !.rem = trial, !.cnt = (@ - 1) % ACC_W]

\* One cycle of the restoring divider of lnorm_ctrl and pool_ctrl: the
\* dividend leaves quot at the top while the quotient enters at the bottom.
div_step(d) ==
    LET trial == ((2 * d.rem) % 2^ACC_W) + d.quot \div 2^(ACC_W - 1)
        fits == trial >= d.denom
    IN [d EXCEPT !.quot = ((2 * @) % 2^ACC_W) + (IF fits THEN 1 ELSE 0),
                 !.rem = IF fits THEN trial - d.denom ELSE trial,
                 !.cnt = (@ - 1) % ACC_W]

\* A dividend and a divisor set up for ACC_W such cycles.
div_start(numer, denom) ==
    [quot |-> numer, rem |-> 0, denom |-> denom, cnt |-> ACC_W - 1]

\* INT8 saturation.
sat8(x) == IF x > 127 THEN 127 ELSE IF x < -128 THEN -128 ELSE x
=============================================================================
