------------------------------ MODULE NpuQueue ------------------------------
(***************************************************************************)
(* The command queue: rtl/control/npu_queue.sv, a wrapper around the       *)
(* synchronous FIFO rtl/common/fifo.sv.  One step is one clock edge.       *)
(*                                                                         *)
(* The pointers carry one bit more than a slot number needs, so they count *)
(* modulo 2 * DEPTH; the extra bit tells a full ring from an empty one.    *)
(* The code insists that DEPTH is a power of two, which makes the low bits *)
(* of a pointer its slot; here Slot and Msb say the same for any DEPTH.    *)
(***************************************************************************)
EXTENDS Integers, Sequences, NpuCmdPkg

CONSTANT DEPTH      \* number of entries, CMD_QUEUE_DEPTH in npu_cfg_pkg

ASSUME DepthAssumption == DEPTH \in Nat \ {0}

VARIABLES
    mem,        \* the ring; not reset, so any contents at power-on
    wr_ptr,
    rd_ptr

queueVars == <<mem, wr_ptr, rd_ptr>>

Ptr == 0 .. 2 * DEPTH - 1

\* The low PTR_W bits of a pointer, and its top bit.
Slot(p) == IF p < DEPTH THEN p ELSE p - DEPTH
Msb(p) == p >= DEPTH

\* A pointer k entries further on, wrapping at PTR_W + 1 bits.
Advance(p, k) == IF p + k < 2 * DEPTH THEN p + k ELSE p + k - 2 * DEPTH

full == Msb(wr_ptr) # Msb(rd_ptr) /\ Slot(wr_ptr) = Slot(rd_ptr)
empty == wr_ptr = rd_ptr

\* An empty queue reads as zeros.
rd_data == IF empty THEN ZeroCmd ELSE mem[Slot(rd_ptr)]

-----------------------------------------------------------------------------
\* The reset branch leaves the memory alone, and a push on the edge that asserts
\* reset still lands; the pointers are what forgets it.
QueueStore(wr_valid, wr_data) ==
    mem' = IF wr_valid /\ ~full THEN [mem EXCEPT ![Slot(wr_ptr)] = wr_data]
                                ELSE mem

\* Mutants: the write side forgets to look at full; the read side pops an
\* empty ring.
MovePointersOverrun(wr_valid, rd_ready) ==
    /\ wr_ptr' = IF wr_valid THEN Advance(wr_ptr, 1) ELSE wr_ptr
    /\ rd_ptr' = IF rd_ready /\ ~empty THEN Advance(rd_ptr, 1) ELSE rd_ptr

MovePointersUnderrun(wr_valid, rd_ready) ==
    /\ wr_ptr' = IF wr_valid /\ ~full THEN Advance(wr_ptr, 1) ELSE wr_ptr
    /\ rd_ptr' = IF rd_ready THEN Advance(rd_ptr, 1) ELSE rd_ptr

MovePointers(wr_valid, rd_ready) ==
    /\ wr_ptr' = IF wr_valid /\ ~full THEN Advance(wr_ptr, 1) ELSE wr_ptr
    /\ rd_ptr' = IF rd_ready /\ ~empty THEN Advance(rd_ptr, 1) ELSE rd_ptr

QueueClk(wr_valid, wr_data, rd_ready) ==
    /\ QueueStore(wr_valid, wr_data)
    /\ MovePointers(wr_valid, rd_ready)

\* Mutant: only one of the pointers is reset.
QueueResetHalf(wr_valid, wr_data) ==
    /\ QueueStore(wr_valid, wr_data)
    /\ wr_ptr' = 0
    /\ UNCHANGED rd_ptr

QueueReset(wr_valid, wr_data) ==
    /\ QueueStore(wr_valid, wr_data)
    /\ wr_ptr' = 0
    /\ rd_ptr' = 0

QueueInit ==
    /\ mem \in [0 .. DEPTH - 1 -> Cmd]
    /\ wr_ptr = 0
    /\ rd_ptr = 0

-----------------------------------------------------------------------------
(***************************************************************************)
(* The queue on its own, with any traffic on its ports.                    *)
(***************************************************************************)
QueueNext ==
    \E wr_valid, rd_ready \in BOOLEAN, wr_data \in Cmd :
        \/ QueueClk(wr_valid, wr_data, rd_ready)
        \/ QueueReset(wr_valid, wr_data)

QueueSpec == QueueInit /\ [][QueueNext]_queueVars

\* The number of entries between the pointers, and the entries themselves,
\* oldest first.
Occupancy ==
    IF wr_ptr >= rd_ptr THEN wr_ptr - rd_ptr ELSE wr_ptr - rd_ptr + 2 * DEPTH

Contents == [i \in 1 .. Occupancy |-> mem[Slot(Advance(rd_ptr, i - 1))]]

\* Type invariant of the ring and its pointers.
QueueTypeOK ==
    /\ mem \in [0 .. DEPTH - 1 -> Cmd]
    /\ wr_ptr \in Ptr
    /\ rd_ptr \in Ptr

\* The pointers never drift further apart than the ring is long, and the flags
\* computed from the pointer bits tell the extreme occupancies exactly
\* (formal/properties/queue_props.sv: a_occ_le_depth, a_full_iff_depth,
\* a_empty_iff_zero).
FlagsMatchOccupancy ==
    /\ Occupancy <= DEPTH
    /\ full <=> Occupancy = DEPTH
    /\ empty <=> Occupancy = 0

\* The ring implements the bounded FIFO: every clock edge of the pointers and
\* the memory is a push, a pop, both, a flush or nothing on its contents, so
\* commands leave in the order they entered, none twice and none invented.
Fifo == INSTANCE CommandFifo
            WITH Capacity <- DEPTH, Item <- Cmd, items <- Contents

ImplementsFifo == Fifo!Spec
=============================================================================
