------------------------------ MODULE ResetCtrl ------------------------------
(***************************************************************************)
(* rtl/control/npu_reset_ctrl.sv and rtl/platform/reset_sync.sv: the hard  *)
(* reset is released through a chain of STAGES flip-flops, the soft reset  *)
(* of CTRL[0] passes two more, and either holds rst_n low.                 *)
(*                                                                         *)
(* rst_n resets every other register asynchronously, those of CTRL too, so *)
(* a state in which rst_n is low is one in which they already have their   *)
(* reset values.  InReset says when a clock edge leaves them there: rst_n  *)
(* is low before the edge, or goes low with it.                            *)
(***************************************************************************)
EXTENDS Integers

CONSTANT STAGES         \* stages of the hard-reset synchroniser, 2 in the code

ASSUME StagesAssumption == STAGES \in Nat \ {0}

VARIABLES
    sync_chain,         \* how many stages have shifted in the released 1
    soft_reset_sync1,
    soft_reset_sync2

resetVars == <<sync_chain, soft_reset_sync1, soft_reset_sync2>>

hard_rst_n == sync_chain = STAGES
rst_n == hard_rst_n /\ ~soft_reset_sync2

ChainClk(rst_async_n) ==
    sync_chain' = CASE ~rst_async_n -> 0
                    [] rst_async_n /\ sync_chain < STAGES -> sync_chain + 1
                    [] OTHER -> sync_chain

SoftClk(soft) ==
    /\ soft_reset_sync1' = (hard_rst_n /\ hard_rst_n' /\ soft)
    /\ soft_reset_sync2' = (hard_rst_n /\ hard_rst_n' /\ soft_reset_sync1)

ResetClk(rst_async_n, soft) == ChainClk(rst_async_n) /\ SoftClk(soft)

InReset == ~rst_n \/ ~rst_n'

\* Power-on: nothing has been shifted in yet.
ResetInit ==
    /\ sync_chain = 0
    /\ soft_reset_sync1 = FALSE
    /\ soft_reset_sync2 = FALSE

\* Type invariant of the synchronisers.
ResetTypeOK ==
    /\ sync_chain \in 0 .. STAGES
    /\ soft_reset_sync1 \in BOOLEAN
    /\ soft_reset_sync2 \in BOOLEAN
=============================================================================
