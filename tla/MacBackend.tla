----------------------------- MODULE MacBackend -----------------------------
(***************************************************************************)
(* The multiply-accumulate backends rtl/backends/conv and rtl/backends/    *)
(* gemm: controller, address generator, loader, processing element,        *)
(* accumulator, post-processing and writer, with the metadata registers of *)
(* conv_backend.sv / gemm_backend.sv that travel beside the data.  GEMM    *)
(* shares every stage but the controller's loop nest, the address          *)
(* generator and the way the write address is formed.                      *)
(*                                                                         *)
(* The loop nests are flattened: (oh, ow, k) or (m, n) is the outer index  *)
(* of an output element, (r, s, c) or k the inner index of a product.      *)
(* Data are names: an operand is the address it is read from, a sum the    *)
(* sequence of the products in it (Nothing for one of zeros), a result the *)
(* sum with the bias, the activation mode and the shift that were applied  *)
(* to it.                                                                  *)
(***************************************************************************)
EXTENDS Integers, Sequences, NpuCmdPkg

CONSTANTS
    MacKinds,           \* which of "conv" and "gemm"
    Outs(_),            \* output elements of a command, at least 1
    Inner(_),           \* products of an output element, at least 1
    ZeroPad(_, _, _)    \* the product of command, outer, inner lies in the padding

ASSUME MacKindsAssumption == MacKinds \subseteq {"conv", "gemm"}

\* A command without a dimension of 0; the registers of a reset backend, named
\* ZeroCmd, are looked at only after a command has replaced them.
ASSUME ShapeAssumption ==
    \A c \in Cmd : Outs(c) \in Nat \ {0} /\ Inner(c) \in Nat \ {0}

VARIABLES
    mac_kind,       \* the backend at hand; never changes
    ctrl,           \* conv_ctrl: state, cmd_r and the two loop indices
    ag,             \* conv_addr_gen: state and the product it addresses
    ld,             \* conv_loader: state, addr, pad, act, wt (latched operands)
    iter_r,         \* metadata of the product in the address generator,
    load_r,         \* in the loader
    d_r,            \* and in the processing element
    seen_r,         \* first_last_inner_seen_r
    pe,             \* conv_pe: the product sum it holds, if any
    acc_r,          \* conv_accum
    bias_val,
    pp_trigger_r,
    pp,             \* the three stages of postproc: each a result or Nothing
    skid,           \* write addresses waiting for their results
    writer,         \* conv_writer: state, addr, data
    ctrl_finished

macVars == <<mac_kind, ctrl, ag, ld, iter_r, load_r, d_r, seen_r, pe, acc_r, bias_val,
             pp_trigger_r, pp, skid, writer, ctrl_finished>>

Nothing == <<>>

\* A matrix product has no padding.
zero_pad(c, out, inn) == mac_kind = "conv" /\ ZeroPad(c, out, inn)

\* An operand's address, an output element's address.
Operand(c, out, inn) == [cmd |-> c, out |-> out, inn |-> inn]
Element(c, out) == [cmd |-> c, out |-> out]

-----------------------------------------------------------------------------
(***************************************************************************)
(* The wires between the stages.                                           *)
(***************************************************************************)
iter_valid == ctrl.state = "COMPUTE"
iter_ready == ag.state = "S_IDLE"
iter_accept == iter_valid /\ iter_ready
inner_last == ctrl.inn = Inner(ctrl.cmd_r) - 1
outer_last == ctrl.out = Outs(ctrl.cmd_r) - 1
mac_cmd_ready == ctrl.state = "IDLE"

load_accept == ag.state = "S_OUT" /\ ld.state = "S_IDLE"

\* The readiness of a pipeline_reg looks through to the stage behind it.
pp_out_valid == pp[3] # Nothing
pp_out_ready == writer.state = "S_IDLE"
pp_ready(i) == \E j \in i .. 4 : IF j = 4 THEN pp_out_ready ELSE pp[j] = Nothing
pp_in_ready == pp_ready(1)
wr_addr_in_ready == Len(skid) < 2

pe_ready_out == d_r.last => pp_in_ready /\ wr_addr_in_ready
load_pair_ready == pe = Nothing \/ pe_ready_out
pe_accept == ld.state = "S_DONE" /\ load_pair_ready
acc_en == pe # Nothing /\ pe_ready_out
clr == load_r.clr /\ pe_accept
pp_trigger == d_r.last /\ acc_en

\* Memory requests: the loader's two reads, the bias read, the write.
act_rd_req == ld.state = "S_REQ" /\ ~ld.pad /\ ld.act = Nothing
wt_rd_req == ld.state = "S_REQ" /\ ~ld.pad /\ ld.wt = Nothing
out_wr_req == writer.state = "S_WRITE"

\* Mutant: the bias is asked for as long as its product is in the loader.
bias_rd_reqLevel == load_r.last

bias_rd_req == load_r.last /\ pe_accept

pipe_empty == ~pp_trigger_r /\ ~pp_out_valid /\ skid = <<>> /\ pp_out_ready
ctrl_done == ctrl.state = "DONE"
mac_done == (ctrl_done \/ ctrl_finished) /\ pipe_empty

-----------------------------------------------------------------------------
(***************************************************************************)
(* The controller: one product of the loop nest per iter_accept.           *)
(***************************************************************************)
CtrlAccept(cmd, cmd_valid) ==
    /\ ctrl.state = "IDLE" /\ cmd_valid
    /\ ctrl' = [ctrl EXCEPT !.state = "LOAD_CFG", !.cmd_r = cmd]

CtrlLoadCfg ==
    /\ ctrl.state = "LOAD_CFG"
    /\ ctrl' = [ctrl EXCEPT !.state = "COMPUTE", !.out = 0, !.inn = 0]

\* After the last product the indices are not looked at again.
CtrlAdvance ==
    /\ iter_accept
    /\ ctrl' = [ctrl EXCEPT
                   !.state = IF inner_last /\ outer_last THEN "DRAIN" ELSE @,
                   !.inn = IF inner_last THEN 0 ELSE @ + 1,
                   !.out = IF inner_last /\ ~outer_last THEN @ + 1 ELSE @]

\* Mutant: the controller does not wait for the address generator.
CtrlDrainAtOnce ==
    /\ ctrl.state = "DRAIN"
    /\ ctrl' = [ctrl EXCEPT !.state = "DONE"]

CtrlDrain ==
    /\ ctrl.state = "DRAIN" /\ iter_ready
    /\ ctrl' = [ctrl EXCEPT !.state = "DONE"]

CtrlDone ==
    /\ ctrl.state = "DONE"
    /\ ctrl' = [ctrl EXCEPT !.state = "IDLE"]

CtrlHold(cmd_valid) ==
    /\ \/ ctrl.state = "IDLE" /\ ~cmd_valid
       \/ ctrl.state \in {"COMPUTE", "DRAIN"} /\ ~iter_ready
    /\ UNCHANGED ctrl

CtrlClk(cmd, cmd_valid) ==
    \/ CtrlAccept(cmd, cmd_valid)
    \/ CtrlLoadCfg
    \/ CtrlAdvance
    \/ CtrlDrain
    \/ CtrlDone
    \/ CtrlHold(cmd_valid)

\* The address generator: three stages of multiplications, or one for GEMM.
StageAfter(s) ==
    CASE s = "S_STAGE1" -> IF mac_kind = "conv" THEN "S_STAGE2" ELSE "S_OUT"
      [] s = "S_STAGE2" -> "S_STAGE3"
      [] s = "S_STAGE3" -> "S_OUT"

AddrGenClk ==
    ag' = CASE iter_accept ->
                  [state |-> "S_STAGE1",
                   addr |-> Operand(ctrl.cmd_r, ctrl.out, ctrl.inn)]
            [] load_accept -> [ag EXCEPT !.state = "S_IDLE"]
            [] ag.state \in {"S_STAGE1", "S_STAGE2", "S_STAGE3"} ->
                  [ag EXCEPT !.state = StageAfter(@)]
            [] OTHER -> ag

-----------------------------------------------------------------------------
(***************************************************************************)
(* The loader.  port.act_rsp and port.wt_rsp are the answers of the two    *)
(* buffers in this cycle, port.act_gnt and port.wt_gnt the grants.         *)
(***************************************************************************)
LoaderAccept ==
    /\ load_accept
    /\ ld' = [state |-> "S_REQ", addr |-> ag.addr,
              pad |-> zero_pad(ag.addr.cmd, ag.addr.out, ag.addr.inn),
              act |-> Nothing, wt |-> Nothing]

\* Operands are latched as they come, each once.
Latched(port) ==
    [ld EXCEPT !.act = IF @ = Nothing /\ ~ld.pad THEN port.act_rsp ELSE @,
               !.wt = IF @ = Nothing /\ ~ld.pad THEN port.wt_rsp ELSE @]

LoaderRequest(port) ==
    /\ ld.state = "S_REQ"
    /\ ld' = [Latched(port) EXCEPT !.state =
                 CASE ld.pad -> "S_DONE"
                   [] ~ld.pad /\ (ld.act # Nothing \/ port.act_gnt)
                              /\ (ld.wt # Nothing \/ port.wt_gnt) -> "S_WAIT"
                   [] OTHER -> @]

LoaderWait(port) ==
    /\ ld.state = "S_WAIT"
    /\ ld' = [Latched(port) EXCEPT !.state =
                 IF ld.act # Nothing /\ ld.wt # Nothing THEN "S_DONE" ELSE @]

LoaderGive ==
    /\ pe_accept
    /\ ld' = [ld EXCEPT !.state = "S_IDLE"]

LoaderHold ==
    /\ \/ ld.state = "S_IDLE" /\ ~load_accept
       \/ ld.state = "S_DONE" /\ ~pe_accept
    /\ UNCHANGED ld

LoaderClk(port) ==
    \/ LoaderAccept
    \/ LoaderRequest(port)
    \/ LoaderWait(port)
    \/ LoaderGive
    \/ LoaderHold

-----------------------------------------------------------------------------
(***************************************************************************)
(* The metadata of a product moves with it: is it the last of its sum, is  *)
(* it the first, where does the result go, where is the bias.              *)
(***************************************************************************)

\* Mutant: the flag that marks the first output element is not consulted.
NextWrAddrStale == [iter_r.wr_addr EXCEPT !.out = @ + 1]

\* Convolution counts the output address up from the base, GEMM computes it.
NextWrAddr ==
    CASE mac_kind = "gemm" -> Element(ctrl.cmd_r, ctrl.out)
      [] mac_kind = "conv" /\ ~seen_r -> Element(ctrl.cmd_r, 0)
      [] mac_kind = "conv" /\ seen_r -> [iter_r.wr_addr EXCEPT !.out = @ + 1]

MetaClk(cmd_accept) ==
    /\ iter_r' = IF ~iter_accept THEN iter_r
                 ELSE [last |-> inner_last, clr |-> ctrl.inn = 0,
                       wr_addr |-> IF inner_last THEN NextWrAddr ELSE iter_r.wr_addr,
                       bias |-> IF inner_last THEN Element(ctrl.cmd_r, ctrl.out)
                                ELSE iter_r.bias]
    /\ seen_r' = CASE iter_accept /\ inner_last -> TRUE
                   [] ~(iter_accept /\ inner_last) /\ cmd_accept -> FALSE
                   [] OTHER -> seen_r
    /\ load_r' = IF load_accept THEN iter_r ELSE load_r
    /\ d_r' = IF pe_accept THEN [last |-> load_r.last, wr_addr |-> load_r.wr_addr]
              ELSE d_r

\* The product of the loader's operands; padding multiplies zeros.
Product == IF ld.pad THEN Nothing ELSE <<ld.act[1], ld.wt[1]>>

\* The processing element adds to the accumulator as clr leaves it, and clr
\* wins over a sum that arrives on the same edge.
SumClk ==
    /\ pe' = CASE pe_accept -> <<Append(IF clr THEN <<>> ELSE acc_r, Product)>>
               [] ~pe_accept /\ acc_en -> Nothing
               [] OTHER -> pe
    /\ acc_r' = CASE clr -> <<>>
                  [] ~clr /\ acc_en -> pe[1]
                  [] OTHER -> acc_r

BiasClk(port) ==
    /\ pp_trigger_r' = pp_trigger
    /\ bias_val' = IF port.bias_rsp # Nothing THEN port.bias_rsp[1] ELSE bias_val

\* A stage of postproc takes what comes, or nothing, when it can.
StageClk(i, in) == IF pp_ready(i) THEN in ELSE pp[i]

\* bias_add, activation, quantize.  The mode and the shift are those of the
\* command in the controller when the result enters the stage.
PostprocClk ==
    pp' = << StageClk(1, IF ~pp_trigger_r THEN Nothing
                         ELSE <<[sum |-> acc_r, bias |-> bias_val]>>),
             StageClk(2, IF pp[1] = Nothing THEN Nothing
                         ELSE <<[sum |-> pp[1][1].sum, bias |-> pp[1][1].bias,
                                 mode |-> ctrl.cmd_r]>>),
             StageClk(3, IF pp[2] = Nothing THEN Nothing
                         ELSE <<[sum |-> pp[2][1].sum, bias |-> pp[2][1].bias,
                                 mode |-> pp[2][1].mode, shift |-> ctrl.cmd_r]>>) >>

\* skid_buffer holds up to two addresses; one leaves with each result.
SkidClk ==
    skid' = (IF pp_out_valid /\ pp_out_ready /\ skid # <<>> THEN Tail(skid) ELSE skid)
            \o (IF pp_trigger /\ wr_addr_in_ready THEN <<d_r.wr_addr>> ELSE <<>>)

WriterClk(port) ==
    writer' = CASE writer.state = "S_IDLE" /\ pp_out_valid /\ skid # <<>> ->
                      [state |-> "S_WRITE", addr |-> Head(skid), data |-> pp[3][1]]
                [] writer.state = "S_WRITE" /\ port.wr_gnt ->
                      [writer EXCEPT !.state = "S_ACK"]
                [] writer.state = "S_ACK" -> [writer EXCEPT !.state = "S_IDLE"]
                [] OTHER -> writer

FinishedClk ==
    ctrl_finished' = (~mac_done /\ (ctrl_finished \/ ctrl_done))

MacClk(cmd, cmd_valid, port) ==
    /\ UNCHANGED mac_kind
    /\ CtrlClk(cmd, cmd_valid)
    /\ AddrGenClk
    /\ LoaderClk(port)
    /\ MetaClk(cmd_valid /\ mac_cmd_ready)
    /\ SumClk
    /\ BiasClk(port)
    /\ PostprocClk
    /\ SkidClk
    /\ WriterClk(port)
    /\ FinishedClk

ZeroMeta == [last |-> FALSE, clr |-> FALSE, wr_addr |-> Element(ZeroCmd, 0),
             bias |-> Element(ZeroCmd, 0)]

MacInit ==
    /\ mac_kind \in MacKinds
    /\ ctrl = [state |-> "IDLE", cmd_r |-> ZeroCmd, out |-> 0, inn |-> 0]
    /\ ag = [state |-> "S_IDLE", addr |-> Operand(ZeroCmd, 0, 0)]
    /\ ld = [state |-> "S_IDLE", addr |-> Operand(ZeroCmd, 0, 0), pad |-> FALSE,
             act |-> Nothing, wt |-> Nothing]
    /\ iter_r = ZeroMeta /\ load_r = ZeroMeta
    /\ d_r = [last |-> FALSE, wr_addr |-> Element(ZeroCmd, 0)]
    /\ seen_r = FALSE
    /\ pe = Nothing /\ acc_r = <<>>
    /\ bias_val = Element(ZeroCmd, 0)
    /\ pp_trigger_r = FALSE /\ pp = <<Nothing, Nothing, Nothing>>
    /\ skid = <<>>
    /\ writer = [state |-> "S_IDLE", addr |-> Element(ZeroCmd, 0), data |-> Nothing]
    /\ ctrl_finished = FALSE

\* The first n products of an output element, in order.
SumOf(c, out, n) ==
    [i \in 1 .. n |-> IF zero_pad(c, out, i - 1) THEN Nothing
                      ELSE <<Operand(c, out, i - 1), Operand(c, out, i - 1)>>]

\* What a command is to write for an output element.
ResultOf(c, out) ==
    [addr |-> Element(c, out),
     data |-> [sum |-> SumOf(c, out, Inner(c)), bias |-> Element(c, out),
               mode |-> c, shift |-> c]]

\* The results of a command in the order it writes them.
Expected(c) == [o \in 1 .. Outs(c) |-> ResultOf(c, o - 1)]
=============================================================================
