------------------------------- MODULE IrqCtrl -------------------------------
(***************************************************************************)
(* rtl/control/npu_irq_ctrl.sv: one pending flag, set by a completion or   *)
(* an error pulse and cleared by IRQ_CLEAR, which wins when both come on   *)
(* the same edge.                                                          *)
(***************************************************************************)
VARIABLE pending

irq_out(enable) == pending /\ enable

\* Mutants: an error pulse does not raise the interrupt; a new pulse keeps it
\* from being cleared and so does an old one.
IrqClkDoneOnly(cmd_done, err, clear) ==
    pending' = (~clear /\ (pending \/ cmd_done))

IrqClkNoClear(cmd_done, err, clear) ==
    pending' = (pending \/ cmd_done \/ err)

IrqClk(cmd_done, err, clear) ==
    pending' = (~clear /\ (pending \/ cmd_done \/ err))

IrqReset == pending' = FALSE

IrqInit == pending = FALSE
=============================================================================
