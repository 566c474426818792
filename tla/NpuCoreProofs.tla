---------------------------- MODULE NpuCoreProofs ----------------------------
(***************************************************************************)
(* The multiply-accumulate pipelines and the vector backend behind the     *)
(* scheduler, for every command set, shape and padding.                    *)
(***************************************************************************)
EXTENDS NpuCore, SequenceTheorems, TLAPS

-----------------------------------------------------------------------------
(***************************************************************************)
(* What a command is to write, as a function of constants: k is the kind   *)
(* of the backend, which never changes.                                    *)
(***************************************************************************)
Pad(k, c, out, inn) == k = "conv" /\ ZeroPad(c, out, inn)

ProductAt(k, c, out, inn) ==
    IF Pad(k, c, out, inn) THEN Nothing
    ELSE <<Operand(c, out, inn), Operand(c, out, inn)>>

SumAt(k, c, out, n) == [i \in 1 .. n |-> ProductAt(k, c, out, i - 1)]

BiasedAt(k, c, out) == [sum |-> SumAt(k, c, out, Inner(c)), bias |-> Element(c, out)]

ActivatedAt(k, c, out) ==
    [sum |-> SumAt(k, c, out, Inner(c)), bias |-> Element(c, out), mode |-> c]

DataAt(k, c, out) ==
    [sum |-> SumAt(k, c, out, Inner(c)), bias |-> Element(c, out), mode |-> c, shift |-> c]

ResultAt(k, c, out) == [addr |-> Element(c, out), data |-> DataAt(k, c, out)]

VecResultAt(c, out) ==
    [addr |-> Element(c, out), data |-> <<Operand(c, out, 0), Operand(c, out, 0)>>]

ExpectedAt(k, c, out) == IF IsVec(c) THEN VecResultAt(c, out) ELSE ResultAt(k, c, out)

\* Adding a product to the sum of the earlier ones.
LEMMA SumGrows ==
  ASSUME NEW k, NEW c, NEW out, NEW n \in Nat
  PROVE  /\ Append(SumAt(k, c, out, n), ProductAt(k, c, out, n)) = SumAt(k, c, out, n + 1)
         /\ SumAt(k, c, out, 0) = <<>>
<1> DEFINE S == {ProductAt(k, c, out, i) : i \in Nat}
<1>1. SumAt(k, c, out, n) \in Seq(S) /\ Len(SumAt(k, c, out, n)) = n
    <2>1. \A i \in 1 .. n : ProductAt(k, c, out, i - 1) \in S
        <3> TAKE i \in 1 .. n
        <3>1. i - 1 \in Nat
            OBVIOUS
        <3> QED BY <3>1 DEF S
    <2> HIDE DEF S
    <2> QED BY <2>1 DEF SumAt
<1>2. ProductAt(k, c, out, n) \in S
    BY DEF S
<1> HIDE DEF S
<1>3. Append(SumAt(k, c, out, n), ProductAt(k, c, out, n))
        = [i \in 1 .. n + 1 |-> IF i = n + 1 THEN ProductAt(k, c, out, n)
                                ELSE SumAt(k, c, out, n)[i]]
    <2>1. PICK s, e : s = SumAt(k, c, out, n) /\ e = ProductAt(k, c, out, n)
        OBVIOUS
    <2>2. s \in Seq(S) /\ Len(s) = n /\ e \in S
        BY <1>1, <1>2, <2>1
    <2>3. /\ Append(s, e) \in Seq(S) /\ Len(Append(s, e)) = n + 1
          /\ \A i \in 1 .. n + 1 : Append(s, e)[i] = IF i = n + 1 THEN e ELSE s[i]
        BY <2>2
    <2>4. Append(s, e) = [i \in 1 .. n + 1 |-> Append(s, e)[i]]
        <3>1. PICK t : t = Append(s, e)
            OBVIOUS
        <3>2. t \in Seq(S) /\ Len(t) = n + 1
            BY <2>3, <3>1
        <3>3. t \in [1 .. n + 1 -> S]
            BY <3>2
        <3> QED BY <3>1, <3>3
    <2>5. Append(s, e) = [i \in 1 .. n + 1 |-> IF i = n + 1 THEN e ELSE s[i]]
        BY <2>3, <2>4
    <2> QED BY <2>1, <2>5
<1>4. \A i \in 1 .. n + 1 : ProductAt(k, c, out, i - 1)
        = IF i = n + 1 THEN ProductAt(k, c, out, n) ELSE SumAt(k, c, out, n)[i]
    <2> TAKE i \in 1 .. n + 1
    <2>1. CASE i = n + 1
        <3>1. i - 1 = n
            BY <2>1
        <3> QED BY <2>1, <3>1
    <2>2. CASE i # n + 1
        <3>1. i \in 1 .. n
            BY <2>2
        <3> QED BY <2>2, <3>1 DEF SumAt
    <2> QED BY <2>1, <2>2
<1>5. Append(SumAt(k, c, out, n), ProductAt(k, c, out, n)) = SumAt(k, c, out, n + 1)
    BY <1>3, <1>4 DEF SumAt
<1>6. SumAt(k, c, out, 0) = <<>>
    BY DEF SumAt
<1> QED BY <1>5, <1>6

\* What ResultsCorrect expects of a command.
LEMMA ExpectedIs ==
  ASSUME NEW c \in Cmd
  PROVE  /\ DOMAIN ExpectedOf(c) = 1 .. Outs(c)
         /\ Len(ExpectedOf(c)) = Outs(c)
         /\ \A o \in 1 .. Outs(c) : ExpectedOf(c)[o] = ExpectedAt(mac_kind, c, o - 1)
<1>1. Outs(c) \in Nat /\ Inner(c) \in Nat
    BY ShapeAssumption
<1>2. \A o : SumOf(c, o, Inner(c)) = SumAt(mac_kind, c, o, Inner(c))
    BY DEF SumOf, SumAt, ProductAt, Pad, zero_pad
<1>3. \A o : ResultOf(c, o) = ResultAt(mac_kind, c, o)
    BY <1>2 DEF ResultOf, ResultAt, DataAt
<1>4. CASE IsVec(c)
    BY <1>1, <1>4 DEF ExpectedOf, VecExpected, VecResultAt, ExpectedAt
<1>5. CASE ~IsVec(c)
    BY <1>1, <1>3, <1>5 DEF ExpectedOf, Expected, ExpectedAt
<1> QED BY <1>4, <1>5

-----------------------------------------------------------------------------
(***************************************************************************)
(* The inductive invariant.                                                *)
(***************************************************************************)
Operands == [cmd : Cmd, out : Nat, inn : Nat]
Elements == [cmd : Cmd, out : Nat]
Metas == [last : BOOLEAN, clr : BOOLEAN, wr_addr : Elements, bias : Elements]
AnyResult == {ResultAt(k, c, o) : k \in {"conv", "gemm"}, c \in Cmd, o \in Nat}
             \cup {VecResultAt(c, o) : c \in Cmd, o \in Nat}

CtrlTypes ==
    /\ mac_kind \in {"conv", "gemm"}
    /\ ctrl \in [state : {"IDLE", "LOAD_CFG", "COMPUTE", "DRAIN", "DONE"}, cmd_r : Cmd,
                 out : Nat, inn : Nat]
    /\ ag \in [state : {"S_IDLE", "S_STAGE1", "S_STAGE2", "S_STAGE3", "S_OUT"},
               addr : Operands]
    /\ iter_r \in Metas
    /\ seen_r \in BOOLEAN /\ ctrl_finished \in BOOLEAN

LdTypes ==
    /\ ld.state \in {"S_IDLE", "S_REQ", "S_WAIT", "S_DONE"}
    /\ ld.addr \in Operands
    /\ ld = [state |-> ld.state, addr |-> ld.addr, pad |-> ld.pad, act |-> ld.act,
             wt |-> ld.wt]
    /\ load_r \in Metas
    /\ d_r \in [last : BOOLEAN, wr_addr : Elements]
    /\ pp_trigger_r \in BOOLEAN
    /\ writer.state \in {"S_IDLE", "S_WRITE", "S_ACK"}
    /\ writer = [state |-> writer.state, addr |-> writer.addr, data |-> writer.data]

VecTypes ==
    /\ sched_state \in {"S_IDLE", "S_ISSUE", "S_WAIT"} /\ sched_cmd_r \in Cmd
    /\ vec.state \in {"S_IDLE", "S_LOAD_CFG", "S_READ", "S_WAIT", "S_WRITE", "S_DONE"}
    /\ vec.cmd_r \in Cmd /\ vec.idx \in Nat
    /\ vec = [state |-> vec.state, cmd_r |-> vec.cmd_r, idx |-> vec.idx,
              a_gnt |-> vec.a_gnt, b_gnt |-> vec.b_gnt, a |-> vec.a, b |-> vec.b]
    /\ be_sel_r \in {"mac", "vec"}
    /\ since_done \in 0 .. Gap
    /\ issued \in Seq(Cmd)
    /\ written \in Seq(AnyResult) /\ expected \in Seq(AnyResult)

CoreTypes == CtrlTypes /\ LdTypes /\ VecTypes

\* Where a result can be between the processing element and the memory.
InPe == pe # Nothing /\ d_r.last
InAcc == pp_trigger_r
InBias == pp[1] # Nothing
InAct == pp[2] # Nothing
InQuant == pp[3] # Nothing
InWriter == writer.state = "S_WRITE"
InAck == writer.state = "S_ACK"

\* Two results are at least three stages apart, so the first half of the stages
\* holds one at most and so does the second.
Newer == InPe \/ InAcc \/ InBias
Older == InAct \/ InQuant \/ InWriter

\* The distance comes from the loader, which takes three cycles at least.
Spaced ==
    /\ pe # Nothing => ld.state = "S_IDLE" /\ ~InAcc
    /\ InAcc => ld.state \in {"S_IDLE", "S_REQ"}
    /\ InPe => ~InAcc /\ ~InBias
    /\ InAcc => ~InBias /\ ~InAct
    /\ InBias => ~InAct /\ ~InQuant
    /\ InAct => ~InQuant /\ ~InWriter
    /\ InQuant => ~InWriter /\ ~InAck

\* The product each front stage is to pass on next: output element and index.
CtrlOut == IF ctrl.state = "COMPUTE" THEN ctrl.out
           ELSE IF ctrl.state = "LOAD_CFG" THEN 0 ELSE Outs(ctrl.cmd_r)
CtrlInn == IF ctrl.state = "COMPUTE" THEN ctrl.inn ELSE 0
AgOut == IF ag.state = "S_IDLE" THEN CtrlOut ELSE ag.addr.out
AgInn == IF ag.state = "S_IDLE" THEN CtrlInn ELSE ag.addr.inn
LdOut == IF ld.state = "S_IDLE" THEN AgOut ELSE ld.addr.out
LdInn == IF ld.state = "S_IDLE" THEN AgInn ELSE ld.addr.inn

\* The output elements under way, and how many are written.
NewerOut == LdOut - 1
OlderOut == IF Newer THEN LdOut - 2 ELSE LdOut - 1
MacWritten == LdOut - (IF Newer THEN 1 ELSE 0) - (IF Older THEN 1 ELSE 0)

\* <<out, inn>> is the product after a in the loop nest of command c.
Follows(c, a, out, inn) ==
    /\ a.cmd = c /\ a.out < Outs(c) /\ a.inn < Inner(c)
    /\ a.inn = Inner(c) - 1 => out = a.out + 1 /\ inn = 0
    /\ a.inn # Inner(c) - 1 => out = a.out /\ inn = a.inn + 1

\* m is the metadata of product a.
MetaOf(c, m, a) ==
    /\ m.last <=> a.inn = Inner(c) - 1
    /\ m.clr <=> a.inn = 0
    /\ m.last => m.wr_addr = Element(c, a.out) /\ m.bias = Element(c, a.out)

CtrlInv ==
    /\ ctrl.state = "COMPUTE" =>
         /\ ctrl.out < Outs(ctrl.cmd_r) /\ ctrl.inn < Inner(ctrl.cmd_r)
         /\ mac_kind = "conv" =>
              /\ seen_r <=> ctrl.out > 0
              /\ seen_r => iter_r.wr_addr = Element(ctrl.cmd_r, ctrl.out - 1)
    /\ ctrl.state = "LOAD_CFG" => ~seen_r
    /\ ag.state # "S_IDLE" => ctrl.state \in {"COMPUTE", "DRAIN"}
    /\ ag.state # "S_IDLE" => /\ Follows(ctrl.cmd_r, ag.addr, CtrlOut, CtrlInn)
                              /\ MetaOf(ctrl.cmd_r, iter_r, ag.addr)

\* When the controller is done, the last product is past the loader's request.
DrainInv ==
    /\ ctrl.state = "DRAIN" /\ ag.state = "S_IDLE" => ld.state = "S_REQ"
    /\ ctrl.state = "DONE" \/ ctrl_finished => ld.state # "S_REQ"
    /\ ctrl_finished => ctrl.state = "IDLE"

Loaded == ld.act = <<ld.addr>> /\ ld.wt = <<ld.addr>>
Unloaded == ld.act = Nothing /\ ld.wt = Nothing

LdInv ==
    /\ ld.state # "S_IDLE" =>
         /\ Follows(ctrl.cmd_r, ld.addr, AgOut, AgInn)
         /\ MetaOf(ctrl.cmd_r, load_r, ld.addr)
         /\ ld.pad <=> Pad(mac_kind, ctrl.cmd_r, ld.addr.out, ld.addr.inn)
    /\ ld.state = "S_REQ" => Unloaded /\ act_rsp = Nothing /\ wt_rsp = Nothing
    /\ ld.state = "S_WAIT" =>
         /\ ~ld.pad
         /\ \/ Loaded
            \/ Unloaded /\ act_rsp = <<ld.addr>> /\ wt_rsp = <<ld.addr>> /\ ~bias_was_sel
    /\ ld.state = "S_DONE" => ld.pad \/ Loaded

SumNow == IF pe # Nothing THEN pe[1] ELSE acc_r

SumInv ==
    /\ LdInn > 0 => SumNow = SumAt(mac_kind, ctrl.cmd_r, LdOut, LdInn)
    /\ InPe \/ InAcc =>
         /\ LdInn = 0
         /\ SumNow = SumAt(mac_kind, ctrl.cmd_r, NewerOut, Inner(ctrl.cmd_r))
    /\ pe # Nothing => (d_r.last <=> LdInn = 0)

\* Every stage holds its result with the metadata of that result.
StagesInv ==
    /\ InPe => /\ d_r.wr_addr = Element(ctrl.cmd_r, NewerOut)
               /\ wt_rsp = <<Element(ctrl.cmd_r, NewerOut)>> /\ bias_was_sel
    /\ InAcc => bias_val = Element(ctrl.cmd_r, NewerOut)
    /\ InBias => pp[1] = <<BiasedAt(mac_kind, ctrl.cmd_r, NewerOut)>>
    /\ InAct => pp[2] = <<ActivatedAt(mac_kind, ctrl.cmd_r, OlderOut)>>
    /\ InQuant => pp[3] = <<DataAt(mac_kind, ctrl.cmd_r, OlderOut)>>
    /\ InWriter => /\ writer.addr = Element(ctrl.cmd_r, OlderOut)
                   /\ writer.data = DataAt(mac_kind, ctrl.cmd_r, OlderOut)

\* The addresses that wait are those of the results behind the accumulator.
SkidInv ==
    skid = IF InAct \/ InQuant
           THEN IF InAcc \/ InBias
                THEN <<Element(ctrl.cmd_r, OlderOut), Element(ctrl.cmd_r, NewerOut)>>
                ELSE <<Element(ctrl.cmd_r, OlderOut)>>
           ELSE IF InAcc \/ InBias THEN <<Element(ctrl.cmd_r, NewerOut)>> ELSE <<>>

MacQuiet ==
    /\ ctrl.state = "IDLE" /\ ~ctrl_finished /\ ld.state = "S_IDLE" /\ pe = Nothing
    /\ ~InAcc /\ ~InBias /\ ~InAct /\ ~InQuant /\ ~InWriter

VecInv ==
    /\ vec.state # "S_IDLE" => be_sel_r = "vec" /\ MacQuiet /\ sched_state = "S_WAIT"
    /\ vec.state \in {"S_READ", "S_WAIT", "S_WRITE"} => vec.idx < Outs(vec.cmd_r)
    /\ vec.state = "S_READ" => ~vec.a_gnt /\ ~vec.b_gnt
    /\ vec.state = "S_WAIT" => /\ act_rsp = <<vec_addr>> /\ wt_rsp = <<vec_addr>>
                               /\ ~bias_was_sel
    /\ vec.state = "S_WRITE" => vec.a = <<vec_addr>> /\ vec.b = <<vec_addr>>

\* While the scheduler is idle the last result comes closer to the memory with
\* every cycle since the done pulse.
DrainingInv ==
    /\ ld.state # "S_REQ"
    /\ ld.state = "S_WAIT" => since_done <= 0 /\ Loaded
    /\ ld.state = "S_DONE" => since_done <= 1
    /\ pe # Nothing => since_done <= 2
    /\ InAcc => since_done <= 3
    /\ InBias => since_done <= 4
    /\ InAct => since_done <= 5
    /\ InQuant => since_done <= 6
    /\ InWriter => since_done <= 7

SchedInv ==
    /\ bias_pending_r = Nothing
    /\ ~MacQuiet => be_sel_r = "mac" /\ vec.state = "S_IDLE"
    /\ sched_state # "S_WAIT" => ctrl.state = "IDLE" /\ ~ctrl_finished /\ vec.state = "S_IDLE"
    /\ sched_state = "S_IDLE" => DrainingInv
    /\ sched_state = "S_ISSUE" =>
         MacQuiet /\ issued # <<>> /\ issued[Len(issued)] = sched_cmd_r

\* What is still to be written, by whom.
MacOwes == Outs(ctrl.cmd_r) - MacWritten
VecOwes == IF vec.state \in {"S_IDLE", "S_DONE"} THEN 0
           ELSE IF vec.state = "S_LOAD_CFG" THEN Outs(vec.cmd_r)
           ELSE Outs(vec.cmd_r) - vec.idx
IssueOwes == IF sched_state = "S_ISSUE" THEN Outs(sched_cmd_r) ELSE 0

HistoryInv ==
    /\ MacWritten \in Nat /\ MacOwes \in Nat
    /\ Len(expected) = Len(written) + MacOwes + VecOwes + IssueOwes
    /\ \A n \in 1 .. Len(written) : written[n] = expected[n]
    /\ \A n \in 1 .. MacOwes :
         expected[Len(written) + n] = ResultAt(mac_kind, ctrl.cmd_r, MacWritten + n - 1)
    /\ \A n \in 1 .. VecOwes :
         expected[Len(written) + n] = VecResultAt(vec.cmd_r, Outs(vec.cmd_r) - VecOwes + n - 1)
    /\ \A n \in 1 .. IssueOwes :
         expected[Len(written) + n] = ExpectedAt(mac_kind, sched_cmd_r, n - 1)

CoreInv ==
    /\ CoreTypes /\ Spaced /\ CtrlInv /\ DrainInv /\ LdInv /\ SumInv /\ StagesInv /\ SkidInv
    /\ VecInv /\ SchedInv /\ HistoryInv

-----------------------------------------------------------------------------
(***************************************************************************)
(* What one clock does to the stages, given that nothing ever stalls.      *)
(***************************************************************************)
LEMMA PipeWires ==
  ASSUME CoreTypes, Spaced, SkidInv
  PROVE  /\ pp_ready(1) /\ pp_ready(2) /\ pp_ready(3)
         /\ pe_accept <=> ld.state = "S_DONE"
         /\ acc_en <=> pe # Nothing
         /\ pp_trigger <=> InPe
         /\ InPe => wr_addr_in_ready
         /\ clr <=> load_r.clr /\ ld.state = "S_DONE"
<1>1. pp_ready(1) /\ pp_ready(2) /\ pp_ready(3)
    <2>1. CASE InQuant
        <3>1. pp_out_ready
            BY <2>1 DEF Spaced, InWriter, InAck, CoreTypes, LdTypes, pp_out_ready
        <3> QED BY <3>1 DEF pp_ready
    <2>2. CASE ~InQuant
        BY <2>2 DEF pp_ready, InQuant
    <2> QED BY <2>1, <2>2
<1>2. InPe => wr_addr_in_ready
    <2>1. InPe => ~InAcc /\ ~InBias
        BY DEF Spaced
    <2>2. InPe => Len(skid) < 2
        BY <2>1 DEF SkidInv
    <2> QED BY <2>2 DEF wr_addr_in_ready
<1>3. pe # Nothing => pe_ready_out
    BY <1>1, <1>2 DEF pe_ready_out, pp_in_ready, InPe
<1> QED BY <1>1, <1>2, <1>3 DEF pe_accept, acc_en, pp_trigger, clr, load_pair_ready, InPe

\* The stages behind the loader move on by one.
BackMoves ==
    /\ pe' = IF ld.state = "S_DONE"
             THEN <<Append(IF load_r.clr THEN <<>> ELSE acc_r, Product)>> ELSE Nothing
    /\ acc_r' = IF ld.state = "S_DONE" /\ load_r.clr THEN <<>>
                ELSE IF pe # Nothing THEN pe[1] ELSE acc_r
    /\ d_r' = IF ld.state = "S_DONE" THEN [last |-> load_r.last, wr_addr |-> load_r.wr_addr]
              ELSE d_r
    /\ pp_trigger_r' = pp_trigger
    /\ pp'[1] = IF ~pp_trigger_r THEN Nothing ELSE <<[sum |-> acc_r, bias |-> bias_val]>>
    /\ pp'[2] = IF pp[1] = Nothing THEN Nothing
                ELSE <<[sum |-> pp[1][1].sum, bias |-> pp[1][1].bias, mode |-> ctrl.cmd_r]>>
    /\ pp'[3] = IF pp[2] = Nothing THEN Nothing
                ELSE <<[sum |-> pp[2][1].sum, bias |-> pp[2][1].bias,
                        mode |-> pp[2][1].mode, shift |-> ctrl.cmd_r]>>
    /\ skid' = (IF InQuant THEN Tail(skid) ELSE skid)
               \o (IF InPe THEN <<d_r.wr_addr>> ELSE <<>>)
    /\ InQuant => writer' = [state |-> "S_WRITE", addr |-> Head(skid), data |-> pp[3][1]]
    /\ InWriter => writer' = [state |-> "S_ACK", addr |-> writer.addr, data |-> writer.data]
    /\ ~InQuant /\ ~InWriter =>
         writer' = [state |-> "S_IDLE", addr |-> writer.addr, data |-> writer.data]

LEMMA BackStep ==
  ASSUME CoreInv, NEW qv, NEW qc, CoreClk(qv, qc)
  PROVE  BackMoves
<1> USE DEF CoreInv
<1>1. /\ MetaClk(mac_cmd_valid /\ mac_cmd_ready) /\ SumClk /\ BiasClk(macPort)
      /\ PostprocClk /\ SkidClk /\ WriterClk(macPort)
    BY DEF CoreClk, MacClk
<1>2. /\ pe' = IF ld.state = "S_DONE"
              THEN <<Append(IF load_r.clr THEN <<>> ELSE acc_r, Product)>> ELSE Nothing
      /\ acc_r' = IF ld.state = "S_DONE" /\ load_r.clr THEN <<>>
                  ELSE IF pe # Nothing THEN pe[1] ELSE acc_r
    BY <1>1, PipeWires DEF SumClk
<1>3. d_r' = IF ld.state = "S_DONE" THEN [last |-> load_r.last, wr_addr |-> load_r.wr_addr]
             ELSE d_r
    BY <1>1, PipeWires DEF MetaClk
<1>4. pp_trigger_r' = pp_trigger
    BY <1>1 DEF BiasClk
<1>5. /\ pp'[1] = IF ~pp_trigger_r THEN Nothing ELSE <<[sum |-> acc_r, bias |-> bias_val]>>
      /\ pp'[2] = IF pp[1] = Nothing THEN Nothing
                  ELSE <<[sum |-> pp[1][1].sum, bias |-> pp[1][1].bias, mode |-> ctrl.cmd_r]>>
      /\ pp'[3] = IF pp[2] = Nothing THEN Nothing
                  ELSE <<[sum |-> pp[2][1].sum, bias |-> pp[2][1].bias,
                          mode |-> pp[2][1].mode, shift |-> ctrl.cmd_r]>>
    BY <1>1, PipeWires DEF PostprocClk, StageClk
<1>6. InQuant => skid # <<>> /\ writer.state = "S_IDLE"
    BY DEF SkidInv, Spaced, InWriter, InAck, CoreTypes, LdTypes
<1>7. skid' = (IF InQuant THEN Tail(skid) ELSE skid) \o (IF InPe THEN <<d_r.wr_addr>> ELSE <<>>)
    BY <1>1, <1>6, PipeWires DEF SkidClk, pp_out_valid, pp_out_ready, InQuant
<1>8. InQuant => writer' = [state |-> "S_WRITE", addr |-> Head(skid), data |-> pp[3][1]]
    BY <1>1, <1>6 DEF WriterClk, pp_out_valid, InQuant
<1>9. ~InQuant /\ ~InWriter =>
         writer' = [state |-> "S_IDLE", addr |-> writer.addr, data |-> writer.data]
    <2>1. CASE writer.state = "S_IDLE" /\ ~InQuant
        BY <1>1, <2>1 DEF WriterClk, pp_out_valid, InQuant, CoreTypes, LdTypes
    <2>2. CASE writer.state = "S_ACK"
        <3>1. writer' = [writer EXCEPT !.state = "S_IDLE"]
            BY <1>1, <2>2 DEF WriterClk
        <3> QED BY <3>1 DEF CoreTypes, LdTypes
    <2> QED BY <2>1, <2>2 DEF InWriter, CoreTypes, LdTypes
<1>10. InWriter => writer' = [state |-> "S_ACK", addr |-> writer.addr, data |-> writer.data]
    <2> SUFFICES ASSUME InWriter PROVE writer' = [state |-> "S_ACK", addr |-> writer.addr,
                                                  data |-> writer.data]
        OBVIOUS
    <2>1. be_sel_r = "mac"
        BY DEF SchedInv, MacQuiet
    <2>2. macPort.wr_gnt
        BY <2>1 DEF macPort, out_wr_req, InWriter
    <2>3. writer' = [writer EXCEPT !.state = "S_ACK"]
        BY <1>1, <2>2 DEF WriterClk, InWriter
    <2> QED BY <2>3 DEF CoreTypes, LdTypes
<1> QED BY <1>2, <1>3, <1>4, <1>5, <1>7, <1>8, <1>9, <1>10 DEF BackMoves

\* A result in a stage is in the next one after the clock.
StagesMove ==
    /\ InPe' <=> ld.state = "S_DONE" /\ load_r.last
    /\ pe' # Nothing <=> ld.state = "S_DONE"
    /\ InAcc' <=> InPe
    /\ InBias' <=> InAcc
    /\ InAct' <=> InBias
    /\ InQuant' <=> InAct
    /\ InWriter' <=> InQuant
    /\ InAck' <=> InWriter

LEMMA StagesStep ==
  ASSUME CoreInv, NEW qv, NEW qc, CoreClk(qv, qc)
  PROVE  StagesMove
<1> USE DEF CoreInv
<1>1. BackMoves
    BY BackStep
<1>2. pe' # Nothing <=> ld.state = "S_DONE"
    BY <1>1 DEF BackMoves, Nothing
<1>3. InPe' <=> ld.state = "S_DONE" /\ load_r.last
    BY <1>1, <1>2 DEF BackMoves, InPe
<1>4. InAcc' <=> InPe
    BY <1>1, PipeWires DEF BackMoves, InAcc
<1>5. (InBias' <=> InAcc) /\ (InAct' <=> InBias) /\ (InQuant' <=> InAct)
    BY <1>1 DEF BackMoves, Nothing, InAcc, InBias, InAct, InQuant
<1>6. (InWriter' <=> InQuant) /\ (InAck' <=> InWriter)
    BY <1>1 DEF BackMoves, InWriter, InAck, InQuant, Spaced
<1> QED BY <1>2, <1>3, <1>4, <1>5, <1>6 DEF StagesMove

-----------------------------------------------------------------------------
(***************************************************************************)
(* The controller and the address generator.                               *)
(***************************************************************************)
MacAccept == ctrl.state = "IDLE" /\ mac_cmd_valid

\* The loop nest moves on by one product, or stays, or ends a command.
CtrlMoves ==
    /\ MacAccept => ctrl' = [state |-> "LOAD_CFG", cmd_r |-> sched_cmd_r, out |-> ctrl.out,
                             inn |-> ctrl.inn]
    /\ ctrl.state = "LOAD_CFG" => ctrl' = [state |-> "COMPUTE", cmd_r |-> ctrl.cmd_r, out |-> 0,
                                           inn |-> 0]
    /\ iter_accept =>
         ctrl' = [state |-> IF inner_last /\ outer_last THEN "DRAIN" ELSE "COMPUTE",
                  cmd_r |-> ctrl.cmd_r,
                  out |-> IF inner_last /\ ~outer_last THEN ctrl.out + 1 ELSE ctrl.out,
                  inn |-> IF inner_last THEN 0 ELSE ctrl.inn + 1]
    /\ ctrl.state = "DRAIN" /\ iter_ready =>
         ctrl' = [state |-> "DONE", cmd_r |-> ctrl.cmd_r, out |-> ctrl.out, inn |-> ctrl.inn]
    /\ ctrl.state = "DONE" =>
         ctrl' = [state |-> "IDLE", cmd_r |-> ctrl.cmd_r, out |-> ctrl.out, inn |-> ctrl.inn]
    /\ ctrl.state = "IDLE" /\ ~mac_cmd_valid => ctrl' = ctrl
    /\ ctrl.state \in {"COMPUTE", "DRAIN"} /\ ~iter_ready => ctrl' = ctrl

LEMMA CtrlStep ==
  ASSUME CtrlTypes, NEW qv, NEW qc, CoreClk(qv, qc)
  PROVE  CtrlMoves
<1>1. CtrlClk(sched_cmd_r, mac_cmd_valid)
    BY DEF CoreClk, MacClk
<1>2. ctrl \in [state : {"IDLE", "LOAD_CFG", "COMPUTE", "DRAIN", "DONE"}, cmd_r : Cmd,
                out : Nat, inn : Nat]
    BY DEF CtrlTypes
<1>3. CASE ctrl.state = "IDLE"
    BY <1>1, <1>2, <1>3 DEF CtrlClk, CtrlAccept, CtrlLoadCfg, CtrlAdvance, CtrlDrain, CtrlDone,
       CtrlHold, CtrlMoves, MacAccept, iter_accept, iter_valid
<1>4. CASE ctrl.state = "LOAD_CFG"
    BY <1>1, <1>2, <1>4 DEF CtrlClk, CtrlAccept, CtrlLoadCfg, CtrlAdvance, CtrlDrain, CtrlDone,
       CtrlHold, CtrlMoves, MacAccept, iter_accept, iter_valid
<1>5. CASE ctrl.state = "COMPUTE"
    BY <1>1, <1>2, <1>5 DEF CtrlClk, CtrlAccept, CtrlLoadCfg, CtrlAdvance, CtrlDrain, CtrlDone,
       CtrlHold, CtrlMoves, MacAccept, iter_accept, iter_valid
<1>6. CASE ctrl.state = "DRAIN"
    BY <1>1, <1>2, <1>6 DEF CtrlClk, CtrlAccept, CtrlLoadCfg, CtrlAdvance, CtrlDrain, CtrlDone,
       CtrlHold, CtrlMoves, MacAccept, iter_accept, iter_valid
<1>7. CASE ctrl.state = "DONE"
    BY <1>1, <1>2, <1>7 DEF CtrlClk, CtrlAccept, CtrlLoadCfg, CtrlAdvance, CtrlDrain, CtrlDone,
       CtrlHold, CtrlMoves, MacAccept, iter_accept, iter_valid
<1> QED BY <1>2, <1>3, <1>4, <1>5, <1>6, <1>7

\* The address generator takes a product, gives it to the loader or works on it.
AgMoves ==
    /\ iter_accept => ag' = [state |-> "S_STAGE1",
                             addr |-> Operand(ctrl.cmd_r, ctrl.out, ctrl.inn)]
    /\ load_accept => ag' = [state |-> "S_IDLE", addr |-> ag.addr]
    /\ ~iter_accept /\ ~load_accept =>
         /\ ag' = [state |-> ag'.state, addr |-> ag.addr]
         /\ ag.state = "S_IDLE" => ag'.state = "S_IDLE"
         /\ ag.state # "S_IDLE" =>
              ag'.state \in {"S_STAGE1", "S_STAGE2", "S_STAGE3", "S_OUT"}

LEMMA AgStep ==
  ASSUME CtrlTypes, NEW qv, NEW qc, CoreClk(qv, qc)
  PROVE  AgMoves
<1>1. AddrGenClk
    BY DEF CoreClk, MacClk
<1>2. /\ ag \in [state : {"S_IDLE", "S_STAGE1", "S_STAGE2", "S_STAGE3", "S_OUT"},
                 addr : Operands]
      /\ mac_kind \in {"conv", "gemm"}
    BY DEF CtrlTypes
<1>3. CASE iter_accept
    BY <1>1, <1>3 DEF AddrGenClk, AgMoves, load_accept, iter_accept, iter_ready
<1>4. CASE load_accept
    BY <1>1, <1>2, <1>4 DEF AddrGenClk, AgMoves, load_accept, iter_accept, iter_ready
<1>5. CASE ~iter_accept /\ ~load_accept /\ ag.state \in {"S_IDLE", "S_OUT"}
    BY <1>1, <1>2, <1>5 DEF AddrGenClk, AgMoves
<1>6. CASE ~iter_accept /\ ~load_accept /\ ag.state \in {"S_STAGE1", "S_STAGE2", "S_STAGE3"}
    <2>1. StageAfter(ag.state) \in {"S_STAGE1", "S_STAGE2", "S_STAGE3", "S_OUT"}
        BY <1>2, <1>6 DEF StageAfter
    <2>2. ag' = [ag EXCEPT !.state = StageAfter(ag.state)]
        BY <1>1, <1>6 DEF AddrGenClk
    <2> QED BY <1>2, <1>6, <2>1, <2>2 DEF AgMoves
<1> QED BY <1>2, <1>3, <1>4, <1>5, <1>6

\* The metadata that is written with a product of the loop nest.
IterMoves ==
    /\ ~iter_accept => iter_r' = iter_r
    /\ iter_accept =>
         iter_r' = [last |-> inner_last, clr |-> ctrl.inn = 0,
                    wr_addr |-> IF inner_last THEN NextWrAddr ELSE iter_r.wr_addr,
                    bias |-> IF inner_last THEN Element(ctrl.cmd_r, ctrl.out) ELSE iter_r.bias]
    /\ iter_accept /\ inner_last => seen_r'
    /\ ~(iter_accept /\ inner_last) /\ MacAccept => ~seen_r'
    /\ ~(iter_accept /\ inner_last) /\ ~MacAccept => seen_r' = seen_r

LEMMA IterStep ==
  ASSUME NEW qv, NEW qc, CoreClk(qv, qc)
  PROVE  IterMoves
<1>1. MetaClk(mac_cmd_valid /\ mac_cmd_ready)
    BY DEF CoreClk, MacClk
<1>2. MacAccept <=> mac_cmd_valid /\ mac_cmd_ready
    BY DEF MacAccept, mac_cmd_ready
<1> QED BY <1>1, <1>2 DEF MetaClk, IterMoves

\* The output address that conv_backend.sv counts is the one of the element.
LEMMA AddressOfElement ==
  ASSUME CtrlTypes, CtrlInv, iter_accept, inner_last
  PROVE  NextWrAddr = Element(ctrl.cmd_r, ctrl.out)
<1>1. ctrl.state = "COMPUTE" /\ ctrl.out \in Nat
    BY DEF iter_accept, iter_valid, CtrlTypes
<1>2. CASE mac_kind = "gemm"
    BY <1>2 DEF NextWrAddr
<1>3. CASE mac_kind = "conv" /\ ~seen_r
    <2>1. ctrl.out = 0
        BY <1>1, <1>3 DEF CtrlInv
    <2> QED BY <1>3, <2>1 DEF NextWrAddr
<1>4. CASE mac_kind = "conv" /\ seen_r
    <2>1. iter_r.wr_addr = Element(ctrl.cmd_r, ctrl.out - 1)
        BY <1>1, <1>4 DEF CtrlInv
    <2>2. NextWrAddr = [Element(ctrl.cmd_r, ctrl.out - 1) EXCEPT !.out = @ + 1]
        BY <1>4, <2>1 DEF NextWrAddr
    <2>3. (ctrl.out - 1) + 1 = ctrl.out
        BY <1>1
    <2> QED BY <2>2, <2>3 DEF Element
<1> QED BY <1>2, <1>3, <1>4 DEF CtrlTypes

LEMMA CtrlTypesStep ==
  ASSUME CoreInv, NEW qv, NEW qc, CoreClk(qv, qc)
  PROVE  CtrlTypes'
<1>1. CtrlTypes /\ CtrlInv /\ CtrlMoves /\ AgMoves /\ IterMoves /\ sched_cmd_r \in Cmd
    BY CtrlStep, AgStep, IterStep DEF CoreInv, CoreTypes, VecTypes
<1>2. mac_kind' \in {"conv", "gemm"}
    BY <1>1 DEF CoreClk, MacClk, CtrlTypes
<1>3. ctrl' \in [state : {"IDLE", "LOAD_CFG", "COMPUTE", "DRAIN", "DONE"}, cmd_r : Cmd,
                 out : Nat, inn : Nat]
    BY <1>1 DEF CtrlMoves, CtrlTypes, MacAccept, iter_accept, iter_valid
<1>4. ag' \in [state : {"S_IDLE", "S_STAGE1", "S_STAGE2", "S_STAGE3", "S_OUT"},
               addr : Operands]
    <2>1. Operand(ctrl.cmd_r, ctrl.out, ctrl.inn) \in Operands
        BY <1>1 DEF CtrlTypes, Operand, Operands
    <2> QED BY <1>1, <2>1 DEF AgMoves, CtrlTypes
<1>5. iter_r' \in Metas
    <2>1. Element(ctrl.cmd_r, ctrl.out) \in Elements
        BY <1>1 DEF CtrlTypes, Element, Elements
    <2>2. CASE iter_accept
        <3>1. inner_last => NextWrAddr = Element(ctrl.cmd_r, ctrl.out)
            BY <1>1, <2>2, AddressOfElement
        <3>2. inner_last \in BOOLEAN
            BY DEF inner_last
        <3>3. PICK l, z, w, b :
                 /\ l = inner_last /\ z = (ctrl.inn = 0)
                 /\ w = (IF inner_last THEN NextWrAddr ELSE iter_r.wr_addr)
                 /\ b = (IF inner_last THEN Element(ctrl.cmd_r, ctrl.out) ELSE iter_r.bias)
            OBVIOUS
        <3>4. iter_r' = [last |-> l, clr |-> z, wr_addr |-> w, bias |-> b]
            BY <1>1, <2>2, <3>3, Zenon DEF IterMoves
        <3>5. l \in BOOLEAN /\ z \in BOOLEAN
            BY <3>2, <3>3
        <3>6. w \in Elements /\ b \in Elements
            BY <1>1, <2>1, <3>1, <3>3 DEF CtrlTypes, Metas
        <3> QED BY <3>4, <3>5, <3>6 DEF Metas
    <2>3. CASE ~iter_accept
        BY <1>1, <2>3 DEF IterMoves, CtrlTypes
    <2> QED BY <2>2, <2>3
<1>6. seen_r' \in BOOLEAN
    BY <1>1 DEF CoreClk, MacClk, MetaClk, CtrlTypes
<1>7. ctrl_finished' \in BOOLEAN
    BY DEF CoreClk, MacClk, FinishedClk
<1> QED BY <1>2, <1>3, <1>4, <1>5, <1>6, <1>7 DEF CtrlTypes

-----------------------------------------------------------------------------
(***************************************************************************)
(* Positions in the loop nest.                                             *)
(***************************************************************************)
CtrlPosMoves ==
    /\ MacAccept => ctrl'.cmd_r = sched_cmd_r /\ CtrlOut' = 0 /\ CtrlInn' = 0
    /\ ~MacAccept => ctrl'.cmd_r = ctrl.cmd_r
    /\ ~MacAccept /\ ~iter_accept => CtrlOut' = CtrlOut /\ CtrlInn' = CtrlInn
    /\ iter_accept => /\ CtrlOut = ctrl.out /\ CtrlInn = ctrl.inn
                      /\ Follows(ctrl.cmd_r, Operand(ctrl.cmd_r, ctrl.out, ctrl.inn),
                                 CtrlOut', CtrlInn')

LEMMA CtrlPosStep ==
  ASSUME CtrlTypes, CtrlInv, CtrlMoves, Outs(ctrl.cmd_r) \in Nat \ {0},
         Inner(ctrl.cmd_r) \in Nat \ {0}
  PROVE  CtrlPosMoves
<1>1. CASE MacAccept
    BY <1>1 DEF CtrlMoves, CtrlPosMoves, CtrlOut, CtrlInn, MacAccept, iter_accept, iter_valid
<1>2. CASE iter_accept
    <2>1. ctrl.state = "COMPUTE" /\ ctrl.out < Outs(ctrl.cmd_r) /\ ctrl.inn < Inner(ctrl.cmd_r)
        BY <1>2 DEF iter_accept, iter_valid, CtrlInv
    <2>2. ctrl.out \in Nat /\ ctrl.inn \in Nat /\ ctrl.cmd_r \in Cmd
        BY DEF CtrlTypes
    <2>3. /\ ctrl'.cmd_r = ctrl.cmd_r
          /\ ctrl'.state = IF inner_last /\ outer_last THEN "DRAIN" ELSE "COMPUTE"
          /\ ctrl'.out = IF inner_last /\ ~outer_last THEN ctrl.out + 1 ELSE ctrl.out
          /\ ctrl'.inn = IF inner_last THEN 0 ELSE ctrl.inn + 1
        BY <1>2 DEF CtrlMoves
    <2>4. CtrlOut' = IF inner_last THEN ctrl.out + 1 ELSE ctrl.out
        <3>1. outer_last => Outs(ctrl.cmd_r) = ctrl.out + 1
            BY <2>2 DEF outer_last
        <3> QED BY <2>3, <3>1 DEF CtrlOut
    <2>5. CtrlInn' = IF inner_last THEN 0 ELSE ctrl.inn + 1
        BY <2>3 DEF CtrlInn
    <2>6. Follows(ctrl.cmd_r, Operand(ctrl.cmd_r, ctrl.out, ctrl.inn), CtrlOut', CtrlInn')
        BY <2>1, <2>2, <2>4, <2>5 DEF Follows, Operand, inner_last
    <2> QED BY <1>2, <2>1, <2>3, <2>6 DEF CtrlPosMoves, CtrlOut, CtrlInn, MacAccept
<1>3. CASE ~MacAccept /\ ~iter_accept
    <2>1. ctrl.state \in {"IDLE", "LOAD_CFG", "COMPUTE", "DRAIN", "DONE"}
        BY DEF CtrlTypes
    <2>2. CASE ctrl.state = "IDLE"
        BY <1>3, <2>2 DEF CtrlMoves, CtrlPosMoves, CtrlOut, CtrlInn, MacAccept
    <2>3. CASE ctrl.state = "LOAD_CFG"
        BY <1>3, <2>3 DEF CtrlMoves, CtrlPosMoves, CtrlOut, CtrlInn
    <2>4. CASE ctrl.state = "COMPUTE"
        BY <1>3, <2>4 DEF CtrlMoves, CtrlPosMoves, CtrlOut, CtrlInn, iter_accept, iter_valid
    <2>5. CASE ctrl.state = "DRAIN"
        BY <1>3, <2>5 DEF CtrlMoves, CtrlPosMoves, CtrlOut, CtrlInn
    <2>6. CASE ctrl.state = "DONE"
        BY <1>3, <2>6 DEF CtrlMoves, CtrlPosMoves, CtrlOut, CtrlInn
    <2> QED BY <2>1, <2>2, <2>3, <2>4, <2>5, <2>6
<1> QED BY <1>1, <1>2, <1>3

\* A product that leaves the controller is in the address generator.
AgPosMoves ==
    /\ load_accept => AgOut' = CtrlOut /\ AgInn' = CtrlInn /\ AgOut = ag.addr.out
                      /\ AgInn = ag.addr.inn /\ ~iter_accept /\ ~MacAccept
    /\ ~MacAccept /\ ~load_accept => AgOut' = AgOut /\ AgInn' = AgInn

LEMMA AgPosStep ==
  ASSUME CtrlTypes, CtrlInv, AgMoves, CtrlPosMoves
  PROVE  AgPosMoves
<1>1. load_accept => ag.state = "S_OUT" /\ ~iter_accept /\ ~MacAccept
    BY DEF load_accept, iter_accept, iter_ready, CtrlInv, MacAccept
<1>2. CASE load_accept
    BY <1>1, <1>2 DEF AgMoves, CtrlPosMoves, AgPosMoves, AgOut, AgInn
<1>3. CASE ~load_accept /\ iter_accept
    <2>1. ag.state = "S_IDLE" /\ ag' = [state |-> "S_STAGE1",
                                        addr |-> Operand(ctrl.cmd_r, ctrl.out, ctrl.inn)]
        BY <1>3 DEF AgMoves, iter_accept, iter_ready
    <2>2. AgOut' = ctrl.out /\ AgInn' = ctrl.inn
        BY <2>1 DEF AgOut, AgInn, Operand
    <2> QED BY <1>3, <2>1, <2>2 DEF CtrlPosMoves, AgPosMoves, AgOut, AgInn
<1>4. CASE ~load_accept /\ ~iter_accept
    BY <1>4 DEF AgMoves, CtrlPosMoves, AgPosMoves, AgOut, AgInn, CtrlTypes
<1> QED BY <1>2, <1>3, <1>4

LEMMA CtrlInvStep ==
  ASSUME CtrlTypes, CtrlInv, CtrlMoves, AgMoves, IterMoves, CtrlPosMoves,
         mac_kind' = mac_kind, MacAccept => ag.state = "S_IDLE",
         Outs(ctrl.cmd_r) \in Nat \ {0}, Inner(ctrl.cmd_r) \in Nat \ {0}
  PROVE  CtrlInv'
<1>1. /\ ctrl.state \in {"IDLE", "LOAD_CFG", "COMPUTE", "DRAIN", "DONE"}
      /\ ctrl.out \in Nat /\ ctrl.inn \in Nat
    BY DEF CtrlTypes
<1>2. CASE iter_accept
    <2>1. /\ ctrl.state = "COMPUTE" /\ ag.state = "S_IDLE" /\ ~MacAccept
          /\ ctrl.out < Outs(ctrl.cmd_r) /\ ctrl.inn < Inner(ctrl.cmd_r)
        BY <1>2 DEF iter_accept, iter_valid, iter_ready, CtrlInv, MacAccept
    <2>2. /\ ctrl'.cmd_r = ctrl.cmd_r
          /\ ctrl'.state = IF inner_last /\ outer_last THEN "DRAIN" ELSE "COMPUTE"
          /\ ctrl'.out = IF inner_last /\ ~outer_last THEN ctrl.out + 1 ELSE ctrl.out
          /\ ctrl'.inn = IF inner_last THEN 0 ELSE ctrl.inn + 1
        BY <1>2 DEF CtrlMoves
    <2>3. ag'.state = "S_STAGE1" /\ ag'.addr = Operand(ctrl.cmd_r, ctrl.out, ctrl.inn)
        BY <1>2 DEF AgMoves
    <2>4. inner_last => NextWrAddr = Element(ctrl.cmd_r, ctrl.out)
        BY <1>2, AddressOfElement
    <2>5. /\ iter_r'.last <=> inner_last
          /\ iter_r'.clr <=> ctrl.inn = 0
          /\ iter_r'.wr_addr = IF inner_last THEN Element(ctrl.cmd_r, ctrl.out)
                               ELSE iter_r.wr_addr
          /\ inner_last => iter_r'.bias = Element(ctrl.cmd_r, ctrl.out)
        <3>1. PICK l, z, w, b :
                 /\ l = inner_last /\ z = (ctrl.inn = 0)
                 /\ w = (IF inner_last THEN NextWrAddr ELSE iter_r.wr_addr)
                 /\ b = (IF inner_last THEN Element(ctrl.cmd_r, ctrl.out) ELSE iter_r.bias)
            OBVIOUS
        <3>2. iter_r' = [last |-> l, clr |-> z, wr_addr |-> w, bias |-> b]
            BY <1>2, <3>1, Zenon DEF IterMoves
        <3>3. iter_r'.last = l /\ iter_r'.clr = z /\ iter_r'.wr_addr = w /\ iter_r'.bias = b
            BY <3>2
        <3>4. (iter_r'.last <=> inner_last) /\ (iter_r'.clr <=> ctrl.inn = 0)
            <4>1. iter_r'.last = inner_last
                BY <3>1, <3>3
            <4>2. iter_r'.clr = (ctrl.inn = 0)
                BY <3>1, <3>3
            <4> QED BY <4>1, <4>2
        <3> QED BY <2>4, <3>1, <3>3, <3>4
    <2>6. seen_r' <=> inner_last \/ seen_r
        BY <1>2, <2>1 DEF IterMoves
    <2>7. ctrl'.state = "COMPUTE" =>
             ctrl'.out < Outs(ctrl'.cmd_r) /\ ctrl'.inn < Inner(ctrl'.cmd_r)
        BY <1>1, <2>1, <2>2 DEF inner_last, outer_last
    <2>8. ctrl'.state = "COMPUTE" /\ mac_kind = "conv" =>
             /\ seen_r' <=> ctrl'.out > 0
             /\ seen_r' => iter_r'.wr_addr = Element(ctrl'.cmd_r, ctrl'.out - 1)
        <3> SUFFICES ASSUME ctrl'.state = "COMPUTE", mac_kind = "conv"
                     PROVE  /\ seen_r' <=> ctrl'.out > 0
                            /\ seen_r' => iter_r'.wr_addr = Element(ctrl'.cmd_r, ctrl'.out - 1)
            OBVIOUS
        <3>1. CASE inner_last
            <4>1. ctrl'.out = ctrl.out + 1 /\ ctrl'.out - 1 = ctrl.out /\ ctrl'.out > 0
                BY <1>1, <2>2, <3>1
            <4> QED BY <2>2, <2>5, <2>6, <3>1, <4>1
        <3>2. CASE ~inner_last
            BY <2>1, <2>2, <2>5, <2>6, <3>2 DEF CtrlInv
        <3> QED BY <3>1, <3>2
    <2>9. MetaOf(ctrl'.cmd_r, iter_r', ag'.addr)
        BY <2>2, <2>3, <2>5 DEF MetaOf, Operand, inner_last
    <2>10. Follows(ctrl'.cmd_r, ag'.addr, CtrlOut', CtrlInn')
        BY <1>2, <2>2, <2>3 DEF CtrlPosMoves
    <2> QED BY <2>2, <2>3, <2>7, <2>8, <2>9, <2>10 DEF CtrlInv
<1>3. CASE MacAccept
    BY <1>3 DEF CtrlInv, CtrlMoves, AgMoves, IterMoves, MacAccept, load_accept, iter_accept,
                iter_valid
<1>4. CASE ~iter_accept /\ ~MacAccept
    <2>1. iter_r' = iter_r /\ seen_r' = seen_r
        BY <1>4 DEF IterMoves
    <2>2. ctrl'.cmd_r = ctrl.cmd_r /\ CtrlOut' = CtrlOut /\ CtrlInn' = CtrlInn
        BY <1>4 DEF CtrlPosMoves
    <2>3. ag'.addr = ag.addr /\ (ag'.state # "S_IDLE" => ag.state # "S_IDLE")
        BY <1>4 DEF AgMoves, load_accept
    <2>4. ag'.state # "S_IDLE" => /\ Follows(ctrl'.cmd_r, ag'.addr, CtrlOut', CtrlInn')
                                  /\ MetaOf(ctrl'.cmd_r, iter_r', ag'.addr)
        BY <2>1, <2>2, <2>3 DEF CtrlInv
    <2>5. ag.state # "S_IDLE" => ctrl' = ctrl
        BY DEF CtrlInv, CtrlMoves, iter_ready
    <2>6. ag'.state # "S_IDLE" => ctrl'.state \in {"COMPUTE", "DRAIN"}
        BY <2>3, <2>5 DEF CtrlInv
    <2>7. /\ ctrl'.state # "LOAD_CFG"
          /\ ctrl'.state = "COMPUTE" => \/ ctrl.state = "LOAD_CFG" /\ ctrl'.out = 0 /\ ctrl'.inn = 0
                                        \/ ctrl' = ctrl
        BY <1>1, <1>4 DEF CtrlMoves, MacAccept, iter_accept, iter_valid
    <2>8. ctrl'.state = "COMPUTE" =>
            /\ ctrl'.out < Outs(ctrl'.cmd_r) /\ ctrl'.inn < Inner(ctrl'.cmd_r)
            /\ mac_kind = "conv" =>
              /\ seen_r' <=> ctrl'.out > 0
              /\ seen_r' => iter_r'.wr_addr = Element(ctrl'.cmd_r, ctrl'.out - 1)
        BY <2>1, <2>2, <2>7 DEF CtrlInv
    <2> QED BY <2>4, <2>6, <2>7, <2>8 DEF CtrlInv
<1> QED BY <1>2, <1>3, <1>4

-----------------------------------------------------------------------------
(***************************************************************************)
(* The loader and the ports.                                               *)
(***************************************************************************)

\* conv_backend.sv asks for a bias when the loader hands its product over, and
\* conv_loader.sv for a weight while it still loads one: never both.
LEMMA OneReadAtATime == ~(be_wt_req /\ be_bias_req)
<1>1. be_bias_req => be_sel_r = "mac" /\ ld.state = "S_DONE"
    BY DEF be_bias_req, bias_rd_req, pe_accept
<1>2. be_sel_r = "mac" /\ be_wt_req => ld.state = "S_REQ"
    BY DEF be_wt_req, wt_rd_req
<1> QED BY <1>1, <1>2

\* The ports in the hands of the pipeline.
RouterMoves ==
    /\ act_rsp' = IF act_rd_req THEN <<ld.addr>> ELSE Nothing
    /\ wt_rsp' = IF ld.state = "S_DONE" /\ load_r.last THEN <<load_r.bias>>
                 ELSE IF wt_rd_req THEN <<ld.addr>> ELSE Nothing
    /\ ld.state = "S_DONE" /\ load_r.last => bias_was_sel'
    /\ wt_rd_req => ~bias_was_sel'
    /\ bias_was_sel /\ wt_rsp # Nothing => bias_val' = wt_rsp[1]
    /\ wt_rd_req => macPort.wt_gnt
    /\ act_rd_req => macPort.act_gnt
    /\ macPort.act_rsp = act_rsp
    /\ macPort.wt_rsp = IF bias_was_sel THEN Nothing ELSE wt_rsp

LEMMA RouterStep ==
  ASSUME CoreInv, NEW qv, NEW qc, CoreClk(qv, qc), be_sel_r = "mac"
  PROVE  RouterMoves
<1>1. RouterClk /\ BiasClk(macPort)
    BY DEF CoreClk, MacClk
<1>2. bias_pending_r = Nothing
    BY DEF CoreInv, SchedInv
<1>3. be_bias_req <=> ld.state = "S_DONE" /\ load_r.last
    BY PipeWires DEF CoreInv, be_bias_req, bias_rd_req
<1>4. (be_wt_req <=> wt_rd_req) /\ (be_act_req <=> act_rd_req) /\ be_addr = ld.addr
    BY DEF be_wt_req, be_act_req, be_addr
<1>5. wt_issue_bias <=> ld.state = "S_DONE" /\ load_r.last
    BY <1>2, <1>3, OneReadAtATime DEF wt_issue_bias
<1>6. wt_rd_req => be_wt_gnt
    BY <1>3, <1>4, <1>5, OneReadAtATime DEF be_wt_gnt
<1>7. act_rsp' = IF act_rd_req THEN <<ld.addr>> ELSE Nothing
    BY <1>1, <1>4 DEF RouterClk
<1>8. wt_rsp' = IF ld.state = "S_DONE" /\ load_r.last THEN <<load_r.bias>>
                ELSE IF wt_rd_req THEN <<ld.addr>> ELSE Nothing
    BY <1>1, <1>2, <1>4, <1>5 DEF RouterClk
<1>9. (ld.state = "S_DONE" /\ load_r.last => bias_was_sel') /\ (wt_rd_req => ~bias_was_sel')
    <2>1. bias_was_sel' = IF be_wt_req \/ wt_issue_bias THEN wt_issue_bias ELSE bias_was_sel
        BY <1>1 DEF RouterClk
    <2>2. ld.state = "S_DONE" /\ load_r.last => bias_was_sel' = wt_issue_bias
        BY <1>5, <2>1
    <2>3. wt_rd_req => bias_was_sel' = wt_issue_bias /\ ~wt_issue_bias
        BY <1>4, <1>6, <2>1 DEF be_wt_gnt
    <2> QED BY <1>5, <2>2, <2>3
<1>10. bias_was_sel /\ wt_rsp # Nothing => bias_val' = wt_rsp[1]
    BY <1>1 DEF BiasClk, macPort, For, bias_rsp_data
<1>11. (wt_rd_req => macPort.wt_gnt) /\ (act_rd_req => macPort.act_gnt)
    BY <1>6 DEF macPort
<1>12. macPort.act_rsp = act_rsp /\ macPort.wt_rsp = IF bias_was_sel THEN Nothing ELSE wt_rsp
    BY DEF macPort, For, wt_rsp_data
<1> QED BY <1>7, <1>8, <1>9, <1>10, <1>11, <1>12 DEF RouterMoves

\* The loader takes a product, asks for its operands, waits for them, latches
\* them and gives them away.
Ld(state, act, wt) ==
    [state |-> state, addr |-> ld.addr, pad |-> ld.pad, act |-> act, wt |-> wt]

LdMoves ==
    /\ load_accept =>
         /\ ld' = [state |-> "S_REQ", addr |-> ag.addr, pad |-> ld'.pad, act |-> Nothing,
                   wt |-> Nothing]
         /\ ld'.pad <=> Pad(mac_kind, ag.addr.cmd, ag.addr.out, ag.addr.inn)
         /\ load_r' = iter_r
    /\ ~load_accept => load_r' = load_r
    /\ ld.state = "S_IDLE" /\ ~load_accept => ld' = ld
    /\ ld.state = "S_REQ" /\ ld.pad => ld' = Ld("S_DONE", Nothing, Nothing)
    /\ ld.state = "S_REQ" /\ ~ld.pad => ld' = Ld("S_WAIT", Nothing, Nothing)
    /\ ld.state = "S_WAIT" /\ Loaded => ld' = Ld("S_DONE", ld.act, ld.wt)
    /\ ld.state = "S_WAIT" /\ ~Loaded => ld' = Ld("S_WAIT", <<ld.addr>>, <<ld.addr>>)
    /\ ld.state = "S_DONE" => ld' = Ld("S_IDLE", ld.act, ld.wt)

LEMMA LdStep ==
  ASSUME CoreInv, NEW qv, NEW qc, CoreClk(qv, qc), ld.state # "S_IDLE" => be_sel_r = "mac"
  PROVE  LdMoves
<1> USE DEF CoreInv, CoreTypes
<1>1. LoaderClk(macPort) /\ MetaClk(mac_cmd_valid /\ mac_cmd_ready)
    BY DEF CoreClk, MacClk
<1>2. load_r' = IF load_accept THEN iter_r ELSE load_r
    BY <1>1 DEF MetaClk
<1>3. load_accept => ld.state = "S_IDLE"
    BY DEF load_accept
<1>4. pe_accept <=> ld.state = "S_DONE"
    BY PipeWires
<1>5. ld = [state |-> ld.state, addr |-> ld.addr, pad |-> ld.pad, act |-> ld.act, wt |-> ld.wt]
    BY DEF LdTypes
<1>6. CASE load_accept
    <2>1. ld' = [state |-> "S_REQ", addr |-> ag.addr,
                 pad |-> zero_pad(ag.addr.cmd, ag.addr.out, ag.addr.inn),
                 act |-> Nothing, wt |-> Nothing]
        BY <1>1, <1>3, <1>4, <1>6 DEF LoaderClk, LoaderAccept, LoaderRequest, LoaderWait, LoaderGive,
           LoaderHold
    <2>2. PICK p : p = zero_pad(ag.addr.cmd, ag.addr.out, ag.addr.inn)
        OBVIOUS
    <2>3. ld' = [state |-> "S_REQ", addr |-> ag.addr, pad |-> p, act |-> Nothing, wt |-> Nothing]
        BY <2>1, <2>2, Zenon
    <2>4. ld'.pad = p
        BY <2>3
    <2>5. zero_pad(ag.addr.cmd, ag.addr.out, ag.addr.inn)
             <=> Pad(mac_kind, ag.addr.cmd, ag.addr.out, ag.addr.inn)
        BY DEF zero_pad, Pad
    <2>6. ld'.pad = zero_pad(ag.addr.cmd, ag.addr.out, ag.addr.inn)
        BY <2>2, <2>4
    <2>7. ld'.pad <=> Pad(mac_kind, ag.addr.cmd, ag.addr.out, ag.addr.inn)
        BY <2>5, <2>6
    <2>8. ld' = [state |-> "S_REQ", addr |-> ag.addr, pad |-> ld'.pad, act |-> Nothing,
                 wt |-> Nothing]
        BY <2>3, <2>4
    <2> QED BY <1>2, <1>3, <1>6, <2>7, <2>8 DEF LdMoves
<1>7. CASE ld.state = "S_IDLE" /\ ~load_accept
    BY <1>1, <1>2, <1>4, <1>7 DEF LoaderClk, LoaderAccept, LoaderRequest, LoaderWait, LoaderGive,
       LoaderHold, LdMoves
<1>8. CASE ld.state = "S_DONE"
    <2>1. ld' = [ld EXCEPT !.state = "S_IDLE"]
        BY <1>1, <1>3, <1>4, <1>8 DEF LoaderClk, LoaderAccept, LoaderRequest, LoaderWait,
           LoaderGive, LoaderHold
    <2>2. ld' = Ld("S_IDLE", ld.act, ld.wt)
        BY <1>5, <2>1 DEF Ld
    <2> QED BY <1>2, <1>3, <1>8, <2>2 DEF LdMoves
<1>9. CASE ld.state = "S_REQ"
    <2>1. RouterMoves
        BY <1>9, RouterStep
    <2>2. ld.act = Nothing /\ ld.wt = Nothing /\ act_rsp = Nothing /\ wt_rsp = Nothing
        BY <1>9 DEF LdInv, Unloaded
    <2>3. macPort.act_rsp = Nothing /\ macPort.wt_rsp = Nothing
        BY <2>1, <2>2 DEF RouterMoves
    <2>4. Latched(macPort) = Ld("S_REQ", Nothing, Nothing)
        BY <1>5, <1>9, <2>2, <2>3 DEF Latched, Ld
    <2>5. LoaderRequest(macPort)
        BY <1>1, <1>3, <1>4, <1>9 DEF LoaderClk, LoaderAccept, LoaderWait, LoaderGive, LoaderHold
    <2>6. ~ld.pad => macPort.act_gnt /\ macPort.wt_gnt
        BY <1>9, <2>1, <2>2 DEF RouterMoves, act_rd_req, wt_rd_req
    <2>7. ld' = [Ld("S_REQ", Nothing, Nothing) EXCEPT !.state =
                     IF ld.pad THEN "S_DONE" ELSE "S_WAIT"]
        BY <2>2, <2>4, <2>5, <2>6 DEF LoaderRequest
    <2>8. ld' = Ld(IF ld.pad THEN "S_DONE" ELSE "S_WAIT", Nothing, Nothing)
        BY <2>7 DEF Ld
    <2> QED BY <1>2, <1>3, <1>9, <2>8 DEF LdMoves
<1>10. CASE ld.state = "S_WAIT"
    <2>1. RouterMoves
        BY <1>10, RouterStep
    <2>2. LoaderWait(macPort)
        BY <1>1, <1>3, <1>4, <1>10 DEF LoaderClk, LoaderAccept, LoaderRequest, LoaderGive,
           LoaderHold
    <2>3. ~ld.pad /\ <<ld.addr>> # Nothing
        BY <1>10 DEF LdInv, Nothing
    <2>4. CASE Loaded
        <3>1. Latched(macPort) = Ld("S_WAIT", ld.act, ld.wt)
            BY <1>5, <1>10, <2>3, <2>4 DEF Latched, Ld, Loaded
        <3>2. ld' = [Ld("S_WAIT", ld.act, ld.wt) EXCEPT !.state = "S_DONE"]
            BY <2>2, <2>3, <2>4, <3>1 DEF LoaderWait, Loaded
        <3>3. ld' = Ld("S_DONE", ld.act, ld.wt)
            BY <3>2 DEF Ld
        <3> QED BY <1>2, <1>3, <1>10, <2>4, <3>3 DEF LdMoves
    <2>5. CASE ~Loaded
        <3>1. Unloaded /\ act_rsp = <<ld.addr>> /\ wt_rsp = <<ld.addr>> /\ ~bias_was_sel
            BY <1>10, <2>5 DEF LdInv
        <3>2. macPort.act_rsp = <<ld.addr>> /\ macPort.wt_rsp = <<ld.addr>>
            BY <2>1, <3>1 DEF RouterMoves
        <3>3. Latched(macPort) = Ld("S_WAIT", <<ld.addr>>, <<ld.addr>>)
            <4>1. PICK x : x = <<ld.addr>>
                OBVIOUS
            <4>2. ld.act = Nothing /\ ld.wt = Nothing /\ ~ld.pad
                BY <2>3, <3>1 DEF Unloaded
            <4>3. Latched(macPort) = [ld EXCEPT !.act = x, !.wt = x]
                BY <1>5, <3>2, <4>1, <4>2 DEF Latched
            <4>4. [ld EXCEPT !.act = x, !.wt = x] = Ld("S_WAIT", x, x)
                <5>1. PICK s, a, p, b, w : s = ld.state /\ a = ld.addr /\ p = ld.pad
                                           /\ b = ld.act /\ w = ld.wt
                    OBVIOUS
                <5>2. ld = [state |-> s, addr |-> a, pad |-> p, act |-> b, wt |-> w]
                    BY <1>5, <5>1
                <5>3. [ld EXCEPT !.act = x, !.wt = x]
                        = [state |-> s, addr |-> a, pad |-> p, act |-> x, wt |-> x]
                    <6>1. PICK e : e = [ld EXCEPT !.act = x, !.wt = x]
                        OBVIOUS
                    <6>2. /\ e = [i \in {"state", "addr", "pad", "act", "wt"} |-> e[i]]
                          /\ e.state = s /\ e.addr = a /\ e.pad = p /\ e.act = x /\ e.wt = x
                        BY <5>2, <6>1
                    <6> QED BY <6>1, <6>2
                <5> QED BY <1>10, <5>1, <5>3 DEF Ld
            <4> QED BY <4>1, <4>3, <4>4
        <3>4. ld' = [Ld("S_WAIT", <<ld.addr>>, <<ld.addr>>) EXCEPT !.state = "S_WAIT"]
            BY <1>10, <2>2, <3>1, <3>3 DEF LoaderWait, Unloaded, Ld
        <3>5. ld' = Ld("S_WAIT", <<ld.addr>>, <<ld.addr>>)
            BY <3>4 DEF Ld
        <3> QED BY <1>2, <1>3, <1>10, <2>5, <3>5 DEF LdMoves
    <2> QED BY <2>4, <2>5
<1> QED BY <1>6, <1>7, <1>8, <1>9, <1>10 DEF LdTypes

\* A command is accepted by a pipeline that is empty.
LEMMA AcceptQuiet ==
  ASSUME CoreInv, MacAccept
  PROVE  /\ MacQuiet /\ ag.state = "S_IDLE" /\ vec.state = "S_IDLE"
         /\ sched_state = "S_ISSUE" /\ ~IsVec(sched_cmd_r)
BY DEF CoreInv, MacAccept, mac_cmd_valid, dispatch_valid, SchedInv, CtrlInv

\* A product leaves the loader for the processing element, or stays.
LdPosMoves ==
    /\ MacAccept => LdOut' = 0 /\ LdInn' = 0
    /\ ~MacAccept /\ ld.state # "S_DONE" => LdOut' = LdOut /\ LdInn' = LdInn
    /\ ld.state = "S_DONE" => /\ ~MacAccept
                              /\ Follows(ctrl.cmd_r, ld.addr, LdOut', LdInn')
                              /\ LdOut = ld.addr.out /\ LdInn = ld.addr.inn

LEMMA LdPosStep ==
  ASSUME CoreInv, LdMoves, AgMoves, AgPosMoves, CtrlPosMoves
  PROVE  LdPosMoves
<1> USE DEF CoreInv
<1>1. ld.state \in {"S_IDLE", "S_REQ", "S_WAIT", "S_DONE"}
    BY DEF CoreTypes, LdTypes
<1>2. CASE MacAccept
    <2>1. ld.state = "S_IDLE" /\ ag.state = "S_IDLE" /\ ~load_accept /\ ~iter_accept
        BY <1>2, AcceptQuiet DEF MacQuiet, load_accept, MacAccept, iter_accept, iter_valid
    <2>2. ld'.state = "S_IDLE" /\ ag'.state = "S_IDLE"
        BY <2>1 DEF LdMoves, AgMoves
    <2>3. CtrlOut' = 0 /\ CtrlInn' = 0
        BY <1>2 DEF CtrlPosMoves
    <2> QED BY <1>2, <2>1, <2>2, <2>3 DEF LdPosMoves, LdOut, LdInn, AgOut, AgInn
<1>3. CASE ~MacAccept /\ load_accept
    <2>1. ld.state = "S_IDLE" /\ ld'.state = "S_REQ" /\ ld'.addr = ag.addr
        BY <1>3 DEF LdMoves, load_accept
    <2>2. LdOut' = ag.addr.out /\ LdInn' = ag.addr.inn
        BY <2>1 DEF LdOut, LdInn
    <2>3. LdOut = ag.addr.out /\ LdInn = ag.addr.inn
        BY <1>3, <2>1 DEF LdOut, LdInn, AgPosMoves
    <2> QED BY <1>3, <2>1, <2>2, <2>3 DEF LdPosMoves
<1>4. CASE ~MacAccept /\ ~load_accept /\ ld.state = "S_DONE"
    <2>1. ld'.state = "S_IDLE"
        BY <1>4 DEF LdMoves, Ld
    <2>2. LdOut' = AgOut /\ LdInn' = AgInn
        BY <1>4, <2>1 DEF LdOut, LdInn, AgPosMoves
    <2>3. Follows(ctrl.cmd_r, ld.addr, AgOut, AgInn)
        BY <1>4 DEF LdInv
    <2> QED BY <1>4, <2>2, <2>3 DEF LdPosMoves, LdOut, LdInn
<1>5. CASE ~MacAccept /\ ~load_accept /\ ld.state = "S_IDLE"
    BY <1>5 DEF LdMoves, LdPosMoves, LdOut, LdInn, AgPosMoves
<1>6. CASE ~MacAccept /\ ~load_accept /\ ld.state \in {"S_REQ", "S_WAIT"}
    <2>1. ld'.addr = ld.addr /\ ld'.state # "S_IDLE"
        BY <1>6 DEF LdMoves, Ld
    <2> QED BY <1>6, <2>1 DEF LdPosMoves, LdOut, LdInn
<1> QED BY <1>1, <1>2, <1>3, <1>4, <1>5, <1>6

LEMMA LdTypesStep ==
  ASSUME CoreInv, LdMoves, BackMoves
  PROVE  LdTypes'
<1> USE DEF CoreInv, CoreTypes
<1>1. /\ ld.state \in {"S_IDLE", "S_REQ", "S_WAIT", "S_DONE"}
      /\ ag.addr \in Operands /\ ld.addr \in Operands
      /\ iter_r \in Metas /\ load_r \in Metas
      /\ ld = [state |-> ld.state, addr |-> ld.addr, pad |-> ld.pad, act |-> ld.act,
               wt |-> ld.wt]
    BY DEF LdTypes, CtrlTypes
<1>2. /\ ld'.state \in {"S_IDLE", "S_REQ", "S_WAIT", "S_DONE"} /\ ld'.addr \in Operands
      /\ ld' = [state |-> ld'.state, addr |-> ld'.addr, pad |-> ld'.pad, act |-> ld'.act,
                wt |-> ld'.wt]
      /\ load_r' \in Metas
    <2>1. CASE load_accept
        <3>1. ld' = [state |-> "S_REQ", addr |-> ag.addr, pad |-> ld'.pad, act |-> Nothing,
                     wt |-> Nothing]
            BY <2>1 DEF LdMoves
        <3>2. ld'.state = "S_REQ" /\ ld'.addr = ag.addr /\ ld'.act = Nothing /\ ld'.wt = Nothing
            BY <3>1
        <3>3. ld' = [state |-> ld'.state, addr |-> ld'.addr, pad |-> ld'.pad, act |-> ld'.act,
                     wt |-> ld'.wt]
            BY <3>1, <3>2
        <3>4. ld'.state \in {"S_IDLE", "S_REQ", "S_WAIT", "S_DONE"} /\ ld'.addr \in Operands
            BY <1>1, <3>2
        <3>5. load_r' \in Metas
            BY <1>1, <2>1 DEF LdMoves
        <3> QED BY <3>3, <3>4, <3>5
    <2>2. CASE ~load_accept
        <3>1. PICK s, x, y : /\ ld' = Ld(s, x, y)
                             /\ s \in {"S_IDLE", "S_REQ", "S_WAIT", "S_DONE"}
            BY <1>1, <2>2 DEF LdMoves, Ld
        <3>2. ld'.state = s /\ ld'.addr = ld.addr /\ ld'.pad = ld.pad /\ ld'.act = x /\ ld'.wt = y
            BY <3>1 DEF Ld
        <3>3. ld' = [state |-> ld'.state, addr |-> ld'.addr, pad |-> ld'.pad, act |-> ld'.act,
                     wt |-> ld'.wt]
            BY <3>1, <3>2 DEF Ld
        <3>4. load_r' \in Metas
            BY <1>1, <2>2 DEF LdMoves
        <3> QED BY <1>1, <3>1, <3>2, <3>3, <3>4
    <2> QED BY <2>1, <2>2
<1>4. d_r' \in [last : BOOLEAN, wr_addr : Elements]
    BY <1>1 DEF BackMoves, LdTypes, Metas
<1>5. pp_trigger_r' \in BOOLEAN
    BY DEF BackMoves, pp_trigger
<1>6. /\ writer'.state \in {"S_IDLE", "S_WRITE", "S_ACK"}
      /\ writer' = [state |-> writer'.state, addr |-> writer'.addr, data |-> writer'.data]
    <2>1. PICK s, a, d : /\ writer' = [state |-> s, addr |-> a, data |-> d]
                         /\ s \in {"S_IDLE", "S_WRITE", "S_ACK"}
        BY DEF BackMoves
    <2> QED BY <2>1
<1> QED BY <1>2, <1>4, <1>5, <1>6 DEF LdTypes

LEMMA SpacedStep ==
  ASSUME CoreInv, LdMoves, StagesMove
  PROVE  Spaced'
<1> USE DEF CoreInv
<1>1. ld.state = "S_DONE" => ld'.state = "S_IDLE" /\ ~InPe /\ ~InAcc /\ pe = Nothing
    BY DEF LdMoves, Ld, Spaced, InPe
<1>2. InPe => ld.state = "S_IDLE" /\ ld'.state \in {"S_IDLE", "S_REQ"}
    BY DEF LdMoves, Spaced, InPe
<1> QED BY <1>1, <1>2 DEF Spaced, StagesMove

LEMMA DrainInvStep ==
  ASSUME CoreInv, LdMoves, CtrlMoves, AgMoves, FinishedClk
  PROVE  DrainInv'
<1> USE DEF CoreInv
<1>1. ctrl.state \in {"IDLE", "LOAD_CFG", "COMPUTE", "DRAIN", "DONE"}
    BY DEF CoreTypes, CtrlTypes
<1>2. ctrl'.state = "DRAIN" /\ ag'.state = "S_IDLE" => ld'.state = "S_REQ"
    <2> SUFFICES ASSUME ctrl'.state = "DRAIN", ag'.state = "S_IDLE" PROVE ld'.state = "S_REQ"
        OBVIOUS
    <2>1. ctrl.state \in {"COMPUTE", "DRAIN"}
        BY <1>1 DEF CtrlMoves, MacAccept
    <2>2. ~iter_accept
        BY DEF AgMoves
    <2>3. ctrl.state = "DRAIN" /\ ag.state # "S_IDLE"
        BY <2>1, <2>2 DEF CtrlMoves, iter_accept, iter_valid, iter_ready
    <2>4. load_accept
        BY <2>2, <2>3 DEF AgMoves
    <2> QED BY <2>4 DEF LdMoves
<1>3. ctrl'.state = "DONE" => ctrl.state = "DRAIN" /\ ag.state = "S_IDLE"
    BY <1>1 DEF CtrlMoves, MacAccept, iter_accept, iter_valid, iter_ready
<1>4. ctrl'.state = "DONE" => ld'.state # "S_REQ"
    BY <1>3 DEF DrainInv, LdMoves, Ld
<1>5. ctrl_finished' => ctrl_finished \/ ctrl.state = "DONE"
    BY DEF FinishedClk, ctrl_done
<1>6. ctrl_finished' => ld'.state # "S_REQ"
    <2> SUFFICES ASSUME ctrl_finished' PROVE ld'.state # "S_REQ"
        OBVIOUS
    <2>1. ld.state # "S_REQ" /\ ag.state = "S_IDLE"
        BY <1>5 DEF DrainInv, CtrlInv
    <2>2. ~load_accept
        BY <2>1 DEF load_accept
    <2> QED BY <2>1, <2>2 DEF LdMoves, Ld, CoreTypes, LdTypes
<1>7. ctrl_finished' => ctrl'.state = "IDLE"
    <2>1. ctrl.state = "DONE" => ctrl'.state = "IDLE"
        BY DEF CtrlMoves
    <2>2. ctrl_finished => ctrl.state = "IDLE" /\ ~mac_cmd_valid
        BY DEF DrainInv, SchedInv, mac_cmd_valid, dispatch_valid
    <2>3. ctrl_finished => ctrl' = ctrl
        BY <2>2 DEF CtrlMoves
    <2> QED BY <1>5, <2>1, <2>2, <2>3
<1> QED BY <1>2, <1>4, <1>6, <1>7 DEF DrainInv

LEMMA LdInvStep ==
  ASSUME CoreInv, LdMoves, AgMoves, CtrlPosMoves, AgPosMoves, IterMoves,
         mac_kind' = mac_kind,
         be_sel_r = "mac" => RouterMoves
  PROVE  LdInv'
<1> USE DEF CoreInv
<1>1. ld.state \in {"S_IDLE", "S_REQ", "S_WAIT", "S_DONE"}
    BY DEF CoreTypes, LdTypes
<1>2. CASE load_accept
    <2>1. ld.state = "S_IDLE" /\ ag.state = "S_OUT" /\ ~MacAccept /\ ~iter_accept
        BY <1>2 DEF load_accept, AgPosMoves
    <2>2. be_sel_r = "mac"
        BY <2>1 DEF SchedInv, MacQuiet, CtrlInv
    <2>3. /\ ld'.state = "S_REQ" /\ ld'.addr = ag.addr /\ ld'.act = Nothing /\ ld'.wt = Nothing
          /\ load_r' = iter_r
          /\ ld'.pad <=> Pad(mac_kind, ag.addr.cmd, ag.addr.out, ag.addr.inn)
        BY <1>2 DEF LdMoves
    <2>4. act_rsp' = Nothing /\ wt_rsp' = Nothing
        BY <2>1, <2>2 DEF RouterMoves, act_rd_req, wt_rd_req
    <2>5. ctrl'.cmd_r = ctrl.cmd_r /\ AgOut' = CtrlOut /\ AgInn' = CtrlInn
        BY <1>2, <2>1 DEF CtrlPosMoves, AgPosMoves
    <2>6. Follows(ctrl.cmd_r, ag.addr, CtrlOut, CtrlInn) /\ MetaOf(ctrl.cmd_r, iter_r, ag.addr)
        BY <2>1 DEF CtrlInv
    <2>7. Follows(ctrl'.cmd_r, ld'.addr, AgOut', AgInn') /\ MetaOf(ctrl'.cmd_r, load_r', ld'.addr)
        BY <2>3, <2>5, <2>6
    <2>8. ag.addr.cmd = ctrl.cmd_r
        BY <2>6 DEF Follows
    <2> QED BY <2>3, <2>4, <2>5, <2>7, <2>8 DEF LdInv, Unloaded
<1>3. CASE ~load_accept /\ ld.state \in {"S_IDLE", "S_DONE"}
    BY <1>3 DEF LdMoves, Ld, LdInv
<1>4. CASE ~load_accept /\ ld.state \in {"S_REQ", "S_WAIT"}
    <2>1. be_sel_r = "mac" /\ ~MacAccept
        BY <1>4, AcceptQuiet DEF SchedInv, MacQuiet
    <2>2. ctrl'.cmd_r = ctrl.cmd_r /\ AgOut' = AgOut /\ AgInn' = AgInn
        BY <1>4, <2>1 DEF CtrlPosMoves, AgPosMoves
    <2>3. ld'.addr = ld.addr /\ ld'.pad = ld.pad /\ load_r' = load_r
        BY <1>4 DEF LdMoves, Ld
    <2>4. /\ Follows(ctrl'.cmd_r, ld'.addr, AgOut', AgInn')
          /\ MetaOf(ctrl'.cmd_r, load_r', ld'.addr)
          /\ ld'.pad <=> Pad(mac_kind', ctrl'.cmd_r, ld'.addr.out, ld'.addr.inn)
        BY <1>4, <2>2, <2>3 DEF LdInv
    <2>5. CASE ld.state = "S_REQ" /\ ld.pad
        BY <1>4, <2>3, <2>4, <2>5 DEF LdMoves, Ld, LdInv
    <2>6. CASE ld.state = "S_REQ" /\ ~ld.pad
        <3>1. act_rd_req /\ wt_rd_req
            BY <2>6 DEF act_rd_req, wt_rd_req, LdInv, Unloaded
        <3>2. act_rsp' = <<ld.addr>> /\ wt_rsp' = <<ld.addr>> /\ ~bias_was_sel'
            BY <2>1, <2>6, <3>1 DEF RouterMoves
        <3>3. ld'.state = "S_WAIT" /\ ld'.act = Nothing /\ ld'.wt = Nothing
            BY <2>6 DEF LdMoves, Ld
        <3> QED BY <2>3, <2>4, <2>6, <3>2, <3>3 DEF LdInv, Unloaded
    <2>7. CASE ld.state = "S_WAIT" /\ Loaded
        <3>1. ld'.state = "S_DONE" /\ ld'.act = ld.act /\ ld'.wt = ld.wt
            BY <2>7 DEF LdMoves, Ld
        <3> QED BY <2>3, <2>4, <2>7, <3>1 DEF LdInv, Loaded
    <2>8. CASE ld.state = "S_WAIT" /\ ~Loaded
        <3>1. ld'.state = "S_WAIT" /\ ld'.act = <<ld.addr>> /\ ld'.wt = <<ld.addr>>
            BY <2>8 DEF LdMoves, Ld
        <3> QED BY <2>3, <2>4, <2>8, <3>1 DEF LdInv, Loaded
    <2> QED BY <1>4, <2>5, <2>6, <2>7, <2>8
<1> QED BY <1>1, <1>2, <1>3, <1>4

-----------------------------------------------------------------------------
(***************************************************************************)
(* The results on their way.                                               *)
(***************************************************************************)
LEMMA PositionTypes ==
  ASSUME CtrlTypes, LdTypes
  PROVE  /\ Outs(ctrl.cmd_r) \in Nat \ {0} /\ Inner(ctrl.cmd_r) \in Nat \ {0}
         /\ ctrl.cmd_r \in Cmd /\ LdOut \in Nat /\ LdInn \in Nat
<1>1. ctrl.cmd_r \in Cmd /\ ctrl.out \in Nat /\ ctrl.inn \in Nat
    BY DEF CtrlTypes
<1>2. Outs(ctrl.cmd_r) \in Nat \ {0} /\ Inner(ctrl.cmd_r) \in Nat \ {0}
    BY <1>1, ShapeAssumption
<1>3. CtrlOut \in Nat /\ CtrlInn \in Nat
    BY <1>1, <1>2 DEF CtrlOut, CtrlInn
<1>4. AgOut \in Nat /\ AgInn \in Nat
    BY <1>3 DEF AgOut, AgInn, CtrlTypes, Operands
<1>5. LdOut \in Nat /\ LdInn \in Nat
    BY <1>4 DEF LdOut, LdInn, LdTypes, Operands
<1> QED BY <1>1, <1>2, <1>5

\* The loader passes its last product on, and the next element begins.
Passes == ld.state = "S_DONE" /\ load_r.last

\* Which element each stage holds after a clock, and how many are written.
OutMoves ==
    /\ Passes => NewerOut' = ld.addr.out
    /\ InPe \/ InAcc => NewerOut' = NewerOut
    /\ InBias => OlderOut' = NewerOut
    /\ InAct \/ InQuant => OlderOut' = OlderOut
    /\ MacWritten' = MacWritten + (IF InWriter THEN 1 ELSE 0)
    /\ InWriter => MacWritten = OlderOut

LEMMA OutStep ==
  ASSUME CoreInv, ~MacAccept, LdPosMoves, StagesMove
  PROVE  OutMoves
<1> USE DEF CoreInv
<1>1. LdOut \in Nat
    BY PositionTypes DEF CoreTypes
<1>2. LdOut' = IF Passes THEN LdOut + 1 ELSE LdOut
    <2>1. CASE ld.state = "S_DONE"
        <3>1. MetaOf(ctrl.cmd_r, load_r, ld.addr)
            BY <2>1 DEF LdInv
        <3> QED BY <2>1, <3>1 DEF LdPosMoves, Follows, MetaOf, Passes
    <2>2. CASE ld.state # "S_DONE"
        BY <2>2 DEF LdPosMoves, Passes
    <2> QED BY <2>1, <2>2
<1>3. Passes => LdOut = ld.addr.out
    BY DEF LdPosMoves, Passes
<1>4. /\ NewerOut' = LdOut' - 1
      /\ OlderOut' = IF Newer' THEN LdOut' - 2 ELSE LdOut' - 1
      /\ MacWritten' = LdOut' - (IF Newer' THEN 1 ELSE 0) - (IF Older' THEN 1 ELSE 0)
    BY DEF NewerOut, OlderOut, MacWritten
<1>5. /\ Newer' <=> Passes \/ InPe \/ InAcc
      /\ Older' <=> InBias \/ InAct \/ InQuant
    BY DEF Newer, Older, StagesMove, Passes
<1>6. Passes => ~InPe /\ ~InAcc
    BY DEF Passes, Spaced, InPe
<1>7. /\ InPe => ~InAcc /\ ~InBias
      /\ InAcc => ~InBias /\ ~InAct
      /\ InBias => ~InAct /\ ~InQuant
      /\ InAct => ~InQuant /\ ~InWriter
      /\ InQuant => ~InWriter
    BY DEF Spaced
<1>8. Passes => NewerOut' = ld.addr.out
    BY <1>1, <1>2, <1>3, <1>4
<1>9. InPe \/ InAcc => NewerOut' = NewerOut
    BY <1>1, <1>2, <1>4, <1>6 DEF NewerOut
<1>10. InBias => OlderOut' = NewerOut
    BY <1>1, <1>2, <1>4, <1>5, <1>7 DEF NewerOut
<1>11. InAct \/ InQuant => OlderOut' = OlderOut
    BY <1>1, <1>2, <1>4, <1>5, <1>6, <1>7 DEF OlderOut, Newer
<1>12. MacWritten' = MacWritten + (IF InWriter THEN 1 ELSE 0)
    BY <1>1, <1>2, <1>4, <1>5, <1>6, <1>7 DEF MacWritten, Newer, Older
<1>13. InWriter => MacWritten = OlderOut
    BY <1>1 DEF MacWritten, OlderOut, Older
<1> QED BY <1>8, <1>9, <1>10, <1>11, <1>12, <1>13 DEF OutMoves

\* The accumulator after a product.
LEMMA SumStep ==
  ASSUME CoreInv, ~MacAccept, LdPosMoves, BackMoves, StagesMove, OutMoves,
         ctrl'.cmd_r = ctrl.cmd_r, mac_kind' = mac_kind
  PROVE  SumInv'
<1> USE DEF CoreInv
<1>1. LdOut \in Nat /\ LdInn \in Nat /\ Inner(ctrl.cmd_r) \in Nat \ {0}
    BY PositionTypes DEF CoreTypes
<1>2. CASE ld.state = "S_DONE"
    <2>1. PICK c, k, o, i : /\ c = ctrl.cmd_r /\ k = mac_kind
                            /\ o = ld.addr.out /\ i = ld.addr.inn
        OBVIOUS
    <2>2. /\ MetaOf(c, load_r, ld.addr) /\ Follows(c, ld.addr, LdOut', LdInn')
          /\ LdOut = o /\ LdInn = i /\ (ld.pad <=> Pad(k, c, o, i))
        BY <1>2, <2>1 DEF LdInv, LdPosMoves
    <2>3. o \in Nat /\ i \in Nat /\ ld.addr \in Operands /\ ld.addr.cmd = c
        BY <2>1, <2>2 DEF CoreTypes, LdTypes, Operands, Follows
    <2>4. ld.addr = Operand(c, o, i)
        BY <2>1, <2>3 DEF Operand, Operands
    <2>5. pe = Nothing /\ ~InPe /\ ~InAcc
        BY <1>2 DEF Spaced, InPe
    <2>6. Product = ProductAt(k, c, o, i)
        <3>1. CASE ld.pad
            BY <2>2, <3>1 DEF Product, ProductAt
        <3>2. CASE ~ld.pad
            <4>1. ld.act = <<Operand(c, o, i)>> /\ ld.wt = <<Operand(c, o, i)>>
                BY <1>2, <2>4, <3>2 DEF LdInv, Loaded
            <4> QED BY <2>2, <3>2, <4>1 DEF Product, ProductAt
        <3> QED BY <3>1, <3>2
    <2>7. (IF load_r.clr THEN <<>> ELSE acc_r) = SumAt(k, c, o, i)
        <3>1. CASE i = 0
            BY <2>1, <2>2, <3>1, SumGrows DEF MetaOf
        <3>2. CASE i # 0
            <4>1. ~load_r.clr
                BY <2>1, <2>2, <3>2 DEF MetaOf
            <4>2. SumNow = acc_r
                BY <2>5 DEF SumNow
            <4>3. SumNow = SumAt(mac_kind, ctrl.cmd_r, LdOut, LdInn)
                BY <2>2, <2>3, <3>2 DEF SumInv
            <4> QED BY <2>1, <2>2, <4>1, <4>2, <4>3
        <3> QED BY <3>1, <3>2
    <2>8. pe' = <<SumAt(k, c, o, i + 1)>>
        <3>1. pe' = <<Append(IF load_r.clr THEN <<>> ELSE acc_r, Product)>>
            BY <1>2 DEF BackMoves
        <3>2. Append(SumAt(k, c, o, i), ProductAt(k, c, o, i)) = SumAt(k, c, o, i + 1)
            BY <2>3, SumGrows
        <3> QED BY <2>6, <2>7, <3>1, <3>2
    <2>9. SumNow' = SumAt(k, c, o, i + 1)
        BY <2>8 DEF SumNow, Nothing
    <2>10. d_r'.last <=> load_r.last
        BY <1>2 DEF BackMoves
    <2>11. ~InAcc'
        BY <2>5 DEF StagesMove
    <2>12. mac_kind' = k /\ ctrl'.cmd_r = c
        BY <2>1
    <2>13. CASE load_r.last
        <3>1. i + 1 = Inner(c) /\ LdInn' = 0 /\ NewerOut' = o
            BY <1>1, <1>2, <2>1, <2>2, <2>3, <2>13 DEF MetaOf, Follows, OutMoves, Passes
        <3> QED BY <2>9, <2>10, <2>11, <2>12, <2>13, <3>1 DEF SumInv
    <2>14. CASE ~load_r.last
        <3>1. LdInn' = i + 1 /\ LdOut' = o
            BY <2>1, <2>2, <2>3, <2>14 DEF MetaOf, Follows
        <3>2. ~InPe'
            BY <2>14 DEF StagesMove
        <3> QED BY <2>3, <2>9, <2>10, <2>11, <2>12, <2>14, <3>1, <3>2 DEF SumInv
    <2> QED BY <2>13, <2>14
<1>3. CASE ld.state # "S_DONE"
    <2>1. pe' = Nothing /\ acc_r' = SumNow /\ LdOut' = LdOut /\ LdInn' = LdInn
        BY <1>3 DEF BackMoves, SumNow, LdPosMoves
    <2>2. SumNow' = SumNow
        BY <2>1 DEF SumNow
    <2>3. ~InPe' /\ (InAcc' <=> InPe)
        BY <1>3 DEF StagesMove
    <2>4. InPe => NewerOut' = NewerOut
        BY DEF OutMoves
    <2> QED BY <2>1, <2>2, <2>3, <2>4 DEF SumInv
<1> QED BY <1>2, <1>3

LEMMA StagesInvStep ==
  ASSUME CoreInv, ~MacAccept, BackMoves, StagesMove, OutMoves,
         Newer => RouterMoves, ld.state = "S_DONE" => RouterMoves,
         ctrl'.cmd_r = ctrl.cmd_r, mac_kind' = mac_kind
  PROVE  StagesInv'
<1> USE DEF CoreInv
<1>1. PICK c, k : c = ctrl.cmd_r /\ k = mac_kind
    OBVIOUS
<1>2. ctrl'.cmd_r = c /\ mac_kind' = k
    BY <1>1
<1>3. InPe' => /\ d_r'.wr_addr = Element(c, NewerOut')
               /\ wt_rsp' = <<Element(c, NewerOut')>> /\ bias_was_sel'
    <2> SUFFICES ASSUME InPe' PROVE /\ d_r'.wr_addr = Element(c, NewerOut')
                                    /\ wt_rsp' = <<Element(c, NewerOut')>> /\ bias_was_sel'
        OBVIOUS
    <2>1. ld.state = "S_DONE" /\ load_r.last /\ NewerOut' = ld.addr.out
        BY DEF StagesMove, OutMoves, Passes
    <2>2. load_r.wr_addr = Element(c, ld.addr.out) /\ load_r.bias = Element(c, ld.addr.out)
        BY <1>1, <2>1 DEF LdInv, MetaOf
    <2>3. d_r'.wr_addr = load_r.wr_addr
        BY <2>1 DEF BackMoves
    <2>4. wt_rsp' = <<load_r.bias>> /\ bias_was_sel'
        BY <2>1 DEF RouterMoves
    <2> QED BY <2>1, <2>2, <2>3, <2>4
<1>4. InAcc' => bias_val' = Element(c, NewerOut')
    <2> SUFFICES ASSUME InAcc' PROVE bias_val' = Element(c, NewerOut')
        OBVIOUS
    <2>1. InPe /\ Newer /\ NewerOut' = NewerOut
        BY DEF StagesMove, OutMoves, Newer
    <2>2. wt_rsp = <<Element(c, NewerOut)>> /\ bias_was_sel
        BY <1>1, <2>1 DEF StagesInv
    <2>3. bias_val' = wt_rsp[1]
        BY <2>1, <2>2 DEF RouterMoves, Nothing
    <2> QED BY <2>1, <2>2, <2>3
<1>5. InBias' => pp'[1] = <<BiasedAt(k, c, NewerOut')>>
    <2> SUFFICES ASSUME InBias' PROVE pp'[1] = <<BiasedAt(k, c, NewerOut')>>
        OBVIOUS
    <2>1. InAcc /\ NewerOut' = NewerOut /\ pe = Nothing
        BY DEF StagesMove, OutMoves, Spaced
    <2>2. acc_r = SumAt(k, c, NewerOut, Inner(c)) /\ bias_val = Element(c, NewerOut)
        BY <1>1, <2>1 DEF SumInv, SumNow, StagesInv
    <2>3. pp'[1] = <<[sum |-> acc_r, bias |-> bias_val]>>
        BY <2>1 DEF BackMoves, InAcc
    <2> QED BY <2>1, <2>2, <2>3 DEF BiasedAt
<1>6. InAct' => pp'[2] = <<ActivatedAt(k, c, OlderOut')>>
    <2> SUFFICES ASSUME InAct' PROVE pp'[2] = <<ActivatedAt(k, c, OlderOut')>>
        OBVIOUS
    <2>1. InBias /\ OlderOut' = NewerOut
        BY DEF StagesMove, OutMoves
    <2>2. pp[1] = <<BiasedAt(k, c, NewerOut)>>
        BY <1>1, <2>1 DEF StagesInv
    <2>3. pp'[2] = <<[sum |-> pp[1][1].sum, bias |-> pp[1][1].bias, mode |-> c]>>
        BY <1>1, <2>1 DEF BackMoves, InBias
    <2> QED BY <2>1, <2>2, <2>3 DEF BiasedAt, ActivatedAt
<1>7. InQuant' => pp'[3] = <<DataAt(k, c, OlderOut')>>
    <2> SUFFICES ASSUME InQuant' PROVE pp'[3] = <<DataAt(k, c, OlderOut')>>
        OBVIOUS
    <2>1. InAct /\ OlderOut' = OlderOut
        BY DEF StagesMove, OutMoves
    <2>2. pp[2] = <<ActivatedAt(k, c, OlderOut)>>
        BY <1>1, <2>1 DEF StagesInv
    <2>3. pp'[3] = <<[sum |-> pp[2][1].sum, bias |-> pp[2][1].bias, mode |-> pp[2][1].mode,
                      shift |-> c]>>
        BY <1>1, <2>1 DEF BackMoves, InAct
    <2> QED BY <2>1, <2>2, <2>3 DEF ActivatedAt, DataAt
<1>8. InWriter' => /\ writer'.addr = Element(c, OlderOut')
                   /\ writer'.data = DataAt(k, c, OlderOut')
    <2> SUFFICES ASSUME InWriter' PROVE /\ writer'.addr = Element(c, OlderOut')
                                        /\ writer'.data = DataAt(k, c, OlderOut')
        OBVIOUS
    <2>1. InQuant /\ OlderOut' = OlderOut
        BY DEF StagesMove, OutMoves
    <2>2. pp[3] = <<DataAt(k, c, OlderOut)>>
        BY <1>1, <2>1 DEF StagesInv
    <2>3. Head(skid) = Element(c, OlderOut)
        BY <1>1, <2>1 DEF SkidInv
    <2>4. writer' = [state |-> "S_WRITE", addr |-> Head(skid), data |-> pp[3][1]]
        BY <2>1 DEF BackMoves
    <2> QED BY <2>1, <2>2, <2>3, <2>4
<1> QED BY <1>2, <1>3, <1>4, <1>5, <1>6, <1>7, <1>8 DEF StagesInv

LEMMA SkidStep ==
  ASSUME CoreInv, ~MacAccept, BackMoves, StagesMove, OutMoves, ctrl'.cmd_r = ctrl.cmd_r
  PROVE  SkidInv'
<1> USE DEF CoreInv
<1>1. PICK N, O : N = Element(ctrl.cmd_r, NewerOut) /\ O = Element(ctrl.cmd_r, OlderOut)
    OBVIOUS
<1>2. skid = IF InAct \/ InQuant THEN IF InAcc \/ InBias THEN <<O, N>> ELSE <<O>>
             ELSE IF InAcc \/ InBias THEN <<N>> ELSE <<>>
    BY <1>1 DEF SkidInv
<1>3. skid' = (IF InQuant THEN Tail(skid) ELSE skid) \o (IF InPe THEN <<N>> ELSE <<>>)
    BY <1>1 DEF BackMoves, StagesInv
<1>4. /\ InPe \/ InAcc => Element(ctrl.cmd_r, NewerOut') = N
      /\ InBias => Element(ctrl.cmd_r, OlderOut') = N
      /\ InAct \/ InQuant => Element(ctrl.cmd_r, OlderOut') = O
    BY <1>1 DEF OutMoves
<1>5. PICK N2, O2 : N2 = Element(ctrl.cmd_r, NewerOut') /\ O2 = Element(ctrl.cmd_r, OlderOut')
    OBVIOUS
<1>6. SkidInv' <=> skid' = IF InBias \/ InAct THEN IF InPe \/ InAcc THEN <<O2, N2>> ELSE <<O2>>
                           ELSE IF InPe \/ InAcc THEN <<N2>> ELSE <<>>
    BY <1>5 DEF SkidInv, StagesMove
<1>7. /\ InPe => ~InAcc /\ ~InBias
      /\ InAcc => ~InBias /\ ~InAct
      /\ InBias => ~InAct /\ ~InQuant
      /\ InAct => ~InQuant
    BY DEF Spaced
<1>8. CASE InPe
    BY <1>2, <1>3, <1>4, <1>5, <1>6, <1>7, <1>8
<1>9. CASE InAcc
    BY <1>2, <1>3, <1>4, <1>5, <1>6, <1>7, <1>9
<1>10. CASE InBias
    BY <1>2, <1>3, <1>4, <1>5, <1>6, <1>7, <1>10
<1>11. CASE ~InPe /\ ~InAcc /\ ~InBias
    BY <1>2, <1>3, <1>4, <1>5, <1>6, <1>7, <1>11
<1> QED BY <1>8, <1>9, <1>10, <1>11

\* A new command finds the stages empty and leaves them so.
LEMMA AcceptStep ==
  ASSUME CoreInv, MacAccept, LdPosMoves, BackMoves, StagesMove
  PROVE  SumInv' /\ StagesInv' /\ SkidInv' /\ MacWritten' = 0
<1> USE DEF CoreInv
<1>1. MacQuiet
    BY AcceptQuiet
<1>2. /\ ld.state = "S_IDLE" /\ pe = Nothing /\ ~InPe /\ ~InAcc /\ ~InBias /\ ~InAct
      /\ ~InQuant /\ ~InWriter
    BY <1>1 DEF MacQuiet, InPe
<1>3. /\ pe' = Nothing /\ ~InPe' /\ ~InAcc' /\ ~InBias' /\ ~InAct' /\ ~InQuant' /\ ~InWriter'
    BY <1>2 DEF StagesMove, BackMoves
<1>4. LdOut' = 0 /\ LdInn' = 0
    BY DEF LdPosMoves
<1>5. SumInv'
    BY <1>3, <1>4 DEF SumInv
<1>6. StagesInv'
    BY <1>3 DEF StagesInv
<1>7. SkidInv'
    <2>1. skid = <<>>
        BY <1>2 DEF SkidInv
    <2>2. skid' = <<>>
        BY <1>2, <2>1 DEF BackMoves
    <2> QED BY <1>3, <2>2 DEF SkidInv
<1>8. MacWritten' = 0
    BY <1>3, <1>4 DEF MacWritten, Newer, Older
<1> QED BY <1>5, <1>6, <1>7, <1>8

-----------------------------------------------------------------------------
(***************************************************************************)
(* The vector backend.                                                     *)
(***************************************************************************)
VecTakes == vec.state = "S_IDLE" /\ vec_cmd_valid

Vec(state, cmd_r, idx, a_gnt, b_gnt, a, b) ==
    [state |-> state, cmd_r |-> cmd_r, idx |-> idx, a_gnt |-> a_gnt, b_gnt |-> b_gnt,
     a |-> a, b |-> b]

VecMoves ==
    /\ VecTakes => /\ vec'.state = "S_LOAD_CFG" /\ vec'.cmd_r = sched_cmd_r
                   /\ vec'.idx = vec.idx
    /\ vec.state = "S_IDLE" /\ ~vec_cmd_valid => vec' = vec
    /\ vec.state # "S_IDLE" => vec'.cmd_r = vec.cmd_r
    /\ vec.state = "S_LOAD_CFG" => /\ vec'.state = "S_READ" /\ vec'.idx = 0
                                   /\ ~vec'.a_gnt /\ ~vec'.b_gnt
    /\ vec.state = "S_READ" => vec'.state = "S_WAIT" /\ vec'.idx = vec.idx
    /\ vec.state = "S_WAIT" => /\ vec'.state = "S_WRITE" /\ vec'.idx = vec.idx
                               /\ vec'.a = <<vec_addr>> /\ vec'.b = <<vec_addr>>
    /\ vec.state = "S_WRITE" =>
         /\ vec'.state = IF vec.idx = Outs(vec.cmd_r) - 1 THEN "S_DONE" ELSE "S_READ"
         /\ vec'.idx = vec.idx + 1 /\ ~vec'.a_gnt /\ ~vec'.b_gnt
    /\ vec.state = "S_DONE" => vec'.state = "S_IDLE" /\ vec'.idx = vec.idx
    /\ vec' = [state |-> vec'.state, cmd_r |-> vec'.cmd_r, idx |-> vec'.idx,
               a_gnt |-> vec'.a_gnt, b_gnt |-> vec'.b_gnt, a |-> vec'.a, b |-> vec'.b]

\* The ports in the hands of the vector backend.
VecPorts ==
    /\ vec.state = "S_READ" => /\ vec_a_req /\ be_wt_gnt
                               /\ act_rsp' = <<vec_addr>> /\ wt_rsp' = <<vec_addr>>
                               /\ ~bias_was_sel'

LEMMA VecPortsStep ==
  ASSUME CoreInv, NEW qv, NEW qc, CoreClk(qv, qc)
  PROVE  VecPorts
<1> SUFFICES ASSUME vec.state = "S_READ"
             PROVE  /\ vec_a_req /\ be_wt_gnt
                    /\ act_rsp' = <<vec_addr>> /\ wt_rsp' = <<vec_addr>>
                    /\ ~bias_was_sel'
    BY DEF VecPorts
<1> USE DEF CoreInv
<1>1. RouterClk
    BY DEF CoreClk
<1>2. be_sel_r = "vec" /\ ~vec.a_gnt /\ ~vec.b_gnt /\ bias_pending_r = Nothing
    BY DEF VecInv, SchedInv
<1>3. vec_a_req /\ vec_b_req
    BY <1>2 DEF vec_a_req, vec_b_req
<1>4. be_act_req /\ be_wt_req /\ be_addr = vec_addr /\ ~be_bias_req
    BY <1>2, <1>3 DEF be_act_req, be_wt_req, be_addr, be_bias_req
<1>5. ~wt_issue_bias /\ be_wt_gnt
    BY <1>2, <1>4 DEF wt_issue_bias, be_wt_gnt
<1>6. act_rsp' = <<vec_addr>> /\ wt_rsp' = <<vec_addr>>
    BY <1>1, <1>4, <1>5 DEF RouterClk
<1>7. bias_was_sel' = wt_issue_bias
    BY <1>1, <1>4 DEF RouterClk
<1> QED BY <1>3, <1>5, <1>6, <1>7

LEMMA VecStep ==
  ASSUME CoreInv, NEW qv, NEW qc, CoreClk(qv, qc), VecPorts
  PROVE  VecMoves
<1> USE DEF CoreInv
<1>1. VecClk
    BY DEF CoreClk
<1>2. /\ vec.state \in {"S_IDLE", "S_LOAD_CFG", "S_READ", "S_WAIT", "S_WRITE", "S_DONE"}
      /\ vec.idx \in Nat
      /\ vec = [state |-> vec.state, cmd_r |-> vec.cmd_r, idx |-> vec.idx,
                a_gnt |-> vec.a_gnt, b_gnt |-> vec.b_gnt, a |-> vec.a, b |-> vec.b]
    BY DEF CoreTypes, VecTypes
<1>3. PICK s, c, i, g, h, a, b :
         /\ s = vec.state /\ c = vec.cmd_r /\ i = vec.idx /\ g = vec.a_gnt /\ h = vec.b_gnt
         /\ a = vec.a /\ b = vec.b
    OBVIOUS
<1>4. vec = Vec(s, c, i, g, h, a, b)
    BY <1>2, <1>3 DEF Vec
<1>5. \A v : v \in {vec'} /\ (\E s2, c2, i2, g2, h2, a2, b2 :
                                 v = Vec(s2, c2, i2, g2, h2, a2, b2)) =>
        v = [state |-> v.state, cmd_r |-> v.cmd_r, idx |-> v.idx,
             a_gnt |-> v.a_gnt, b_gnt |-> v.b_gnt, a |-> v.a, b |-> v.b]
    BY DEF Vec
<1>6. CASE VecTakes
    <2>1. vec' = [vec EXCEPT !.state = "S_LOAD_CFG", !.cmd_r = sched_cmd_r]
        BY <1>1, <1>6 DEF VecClk, VecAccept, VecLoadCfg, VecRead, VecWait, VecWrite, VecDone,
           VecHold, VecTakes
    <2>2. vec' = Vec("S_LOAD_CFG", sched_cmd_r, i, g, h, a, b)
        BY <1>4, <2>1 DEF Vec
    <2> QED BY <1>3, <1>5, <1>6, <2>2 DEF VecMoves, VecTakes, Vec
<1>7. CASE vec.state = "S_IDLE" /\ ~vec_cmd_valid
    <2>1. vec' = vec
        BY <1>1, <1>7 DEF VecClk, VecAccept, VecLoadCfg, VecRead, VecWait, VecWrite, VecDone,
           VecHold
    <2> QED BY <1>2, <1>7, <2>1 DEF VecMoves, VecTakes
<1>8. CASE vec.state = "S_LOAD_CFG"
    <2>1. VecLoadCfg
        BY <1>1, <1>8 DEF VecClk, VecAccept, VecRead, VecWait, VecWrite, VecDone, VecHold
    <2>2. vec' = Vec("S_READ", c, 0, FALSE, FALSE, Nothing, Nothing)
        BY <1>4, <2>1 DEF Vec, VecLoadCfg
    <2> QED BY <1>3, <1>5, <1>8, <2>2 DEF VecMoves, VecTakes, Vec
<1>9. CASE vec.state = "S_READ"
    <2>1. VecRead
        BY <1>1, <1>9 DEF VecClk, VecAccept, VecLoadCfg, VecWait, VecWrite, VecDone, VecHold
    <2>2. be_sel_r = "vec" /\ vec_a_req /\ be_wt_gnt
        BY <1>9 DEF VecPorts, VecInv
    <2>3. PICK g2, h2 : vec' = [vec EXCEPT !.a_gnt = g2, !.b_gnt = h2, !.state = "S_WAIT"]
        BY <2>1, <2>2 DEF VecRead
    <2>4. vec' = Vec("S_WAIT", c, i, g2, h2, a, b)
        BY <1>4, <2>3 DEF Vec
    <2> QED BY <1>3, <1>5, <1>9, <2>4 DEF VecMoves, VecTakes, Vec
<1>10. CASE vec.state = "S_WAIT"
    <2>1. VecWait
        BY <1>1, <1>10 DEF VecClk, VecAccept, VecLoadCfg, VecRead, VecWrite, VecDone, VecHold
    <2>2. /\ be_sel_r = "vec" /\ act_rsp = <<vec_addr>> /\ wt_rsp = <<vec_addr>>
          /\ ~bias_was_sel /\ <<vec_addr>> # Nothing
        BY <1>10 DEF VecInv, Nothing
    <2>3. For("vec", act_rsp) = <<vec_addr>> /\ For("vec", wt_rsp_data) = <<vec_addr>>
        BY <2>2 DEF For, wt_rsp_data
    <2>4. PICK x : x = <<vec_addr>>
        OBVIOUS
    <2>5. vec' = [vec EXCEPT !.a = x, !.b = x, !.state = "S_WRITE"]
        BY <2>1, <2>2, <2>3, <2>4 DEF VecWait
    <2>6. vec' = Vec("S_WRITE", c, i, g, h, x, x)
        BY <1>4, <2>5 DEF Vec
    <2> QED BY <1>3, <1>5, <1>10, <2>4, <2>6 DEF VecMoves, VecTakes, Vec
<1>11. CASE vec.state = "S_WRITE"
    <2>1. be_sel_r = "vec"
        BY <1>11 DEF VecInv
    <2>2. VecWrite
        BY <1>1, <1>11, <2>1 DEF VecClk, VecAccept, VecLoadCfg, VecRead, VecWait, VecDone, VecHold
    <2>3. PICK t : t = IF vec.idx = Outs(vec.cmd_r) - 1 THEN "S_DONE" ELSE "S_READ"
        OBVIOUS
    <2>4. vec' = [vec EXCEPT !.state = t, !.idx = vec.idx + 1, !.a_gnt = FALSE, !.b_gnt = FALSE,
                             !.a = Nothing, !.b = Nothing]
        BY <1>2, <2>2, <2>3 DEF VecWrite
    <2>5. vec' = Vec(t, c, i + 1, FALSE, FALSE, Nothing, Nothing)
        BY <1>3, <1>4, <2>4 DEF Vec
    <2> QED BY <1>3, <1>5, <1>11, <2>3, <2>5 DEF VecMoves, VecTakes, Vec
<1>12. CASE vec.state = "S_DONE"
    <2>1. vec' = [vec EXCEPT !.state = "S_IDLE"]
        BY <1>1, <1>12 DEF VecClk, VecAccept, VecLoadCfg, VecRead, VecWait, VecWrite, VecDone,
           VecHold
    <2>2. vec' = Vec("S_IDLE", c, i, g, h, a, b)
        BY <1>4, <2>1 DEF Vec
    <2> QED BY <1>3, <1>5, <1>12, <2>2 DEF VecMoves, VecTakes, Vec
<1> QED BY <1>2, <1>6, <1>7, <1>8, <1>9, <1>10, <1>11, <1>12 DEF VecTakes

-----------------------------------------------------------------------------
(***************************************************************************)
(* The scheduler, the selector and the time since the done pulse.          *)
(***************************************************************************)

\* Backends are done only while the scheduler waits for them.
LEMMA DoneOnlyWhenWaiting ==
  ASSUME CoreInv, be_done
  PROVE  /\ sched_state = "S_WAIT"
         /\ \/ mac_done /\ ~MacQuiet /\ (ctrl.state = "DONE" \/ ctrl_finished)
            \/ vec.state = "S_DONE" /\ MacQuiet
<1> USE DEF CoreInv
<1>1. sched_state = "S_WAIT"
    BY DEF be_done, mac_done, vec_done, ctrl_done, SchedInv, CoreTypes, VecTypes
<1>2. CASE mac_done
    BY <1>1, <1>2 DEF mac_done, ctrl_done, MacQuiet
<1>3. CASE vec_done
    BY <1>1, <1>3 DEF vec_done, VecInv
<1> QED BY <1>2, <1>3 DEF be_done

SchedMoves(qv, qc) ==
    /\ sched_state = "S_IDLE" /\ qv => sched_state' = "S_ISSUE" /\ sched_cmd_r' = qc
    /\ sched_state = "S_IDLE" /\ ~qv => sched_state' = "S_IDLE" /\ sched_cmd_r' = sched_cmd_r
    /\ sched_state = "S_ISSUE" => /\ sched_state' = "S_WAIT" /\ sched_cmd_r' = sched_cmd_r
                                  /\ IF IsVec(sched_cmd_r) THEN VecTakes ELSE MacAccept
    /\ sched_state = "S_WAIT" => /\ sched_state' = IF be_done THEN "S_IDLE" ELSE "S_WAIT"
                                 /\ sched_cmd_r' = sched_cmd_r
    /\ VecTakes => be_sel_r' = "vec" /\ sched_state = "S_ISSUE" /\ IsVec(sched_cmd_r)
    /\ MacAccept => be_sel_r' = "mac" /\ sched_state = "S_ISSUE" /\ ~IsVec(sched_cmd_r)
    /\ ~VecTakes /\ ~MacAccept => be_sel_r' = be_sel_r
    /\ since_done' = IF be_done THEN 0 ELSE IF since_done < Gap THEN since_done + 1
                                            ELSE since_done

LEMMA SchedStep ==
  ASSUME CoreInv, NEW qv, NEW qc, CoreClk(qv, qc)
  PROVE  SchedMoves(qv, qc)
<1> USE DEF CoreInv
<1>1. SchedClk(qv, qc, dispatch_ready, be_done) /\ SelectClk
    BY DEF CoreClk
<1>2. sched_state \in {"S_IDLE", "S_ISSUE", "S_WAIT"}
    BY DEF CoreTypes, VecTypes
<1>3. sched_state = "S_ISSUE" => ctrl.state = "IDLE" /\ vec.state = "S_IDLE"
    BY DEF SchedInv
<1>4. sched_state = "S_ISSUE" => dispatch_ready
    BY <1>3 DEF dispatch_ready, vec_ready, mac_cmd_ready
<1>5. sched_state = "S_ISSUE" => IF IsVec(sched_cmd_r) THEN VecTakes ELSE MacAccept
    BY <1>3 DEF VecTakes, MacAccept, vec_cmd_valid, mac_cmd_valid, dispatch_valid
<1>6. /\ VecTakes => sched_state = "S_ISSUE" /\ IsVec(sched_cmd_r)
      /\ MacAccept => sched_state = "S_ISSUE" /\ ~IsVec(sched_cmd_r)
    BY DEF VecTakes, MacAccept, vec_cmd_valid, mac_cmd_valid, dispatch_valid
<1>7. /\ VecTakes <=> vec_cmd_valid /\ vec_ready
      /\ MacAccept <=> mac_cmd_valid /\ mac_cmd_ready
    BY DEF VecTakes, MacAccept, vec_ready, mac_cmd_ready
<1>8. /\ VecTakes => be_sel_r' = "vec"
      /\ MacAccept => be_sel_r' = "mac"
      /\ ~VecTakes /\ ~MacAccept => be_sel_r' = be_sel_r
    BY <1>1, <1>6, <1>7 DEF SelectClk
<1>9. /\ sched_state = "S_IDLE" /\ qv => sched_state' = "S_ISSUE" /\ sched_cmd_r' = qc
      /\ sched_state = "S_IDLE" /\ ~qv => sched_state' = "S_IDLE" /\ sched_cmd_r' = sched_cmd_r
    BY <1>1 DEF SchedClk, SchedTake, SchedIssue, SchedRetire, SchedHold, schedVars
<1>10. sched_state = "S_ISSUE" => sched_state' = "S_WAIT" /\ sched_cmd_r' = sched_cmd_r
    BY <1>1, <1>4 DEF SchedClk, SchedTake, SchedIssue, SchedRetire, SchedHold
<1>11. sched_state = "S_WAIT" => /\ sched_state' = IF be_done THEN "S_IDLE" ELSE "S_WAIT"
                                 /\ sched_cmd_r' = sched_cmd_r
    BY <1>1 DEF SchedClk, SchedTake, SchedIssue, SchedRetire, SchedHold, schedVars
<1>12. since_done' = IF be_done THEN 0 ELSE IF since_done < Gap THEN since_done + 1
                                            ELSE since_done
    BY DEF CoreClk
<1> QED BY <1>5, <1>6, <1>8, <1>9, <1>10, <1>11, <1>12 DEF SchedMoves

\* The pipeline stays empty without a command; only a result that is being
\* written leaves it empty afterwards, too.
LEMMA QuietStep ==
  ASSUME CoreInv, ~MacAccept, CtrlMoves, LdMoves, BackMoves, StagesMove, FinishedClk,
         ctrl.state = "IDLE", ~ctrl_finished, ld.state = "S_IDLE", pe = Nothing, ~InAcc,
         ~InBias, ~InAct, ~InQuant
  PROVE  MacQuiet'
<1> USE DEF CoreInv
<1>1. ag.state = "S_IDLE" /\ ~load_accept
    BY DEF CtrlInv, load_accept
<1>2. ctrl' = ctrl /\ ld' = ld
    BY <1>1 DEF CtrlMoves, LdMoves, MacAccept
<1>3. ctrl_finished' = FALSE
    BY DEF FinishedClk, ctrl_done
<1>4. pe' = Nothing /\ ~InPe
    BY DEF BackMoves, InPe
<1> QED BY <1>2, <1>3, <1>4 DEF MacQuiet, StagesMove

LEMMA VecInvStep ==
  ASSUME CoreInv, NEW qv, NEW qc, CtrlMoves, LdMoves, BackMoves, StagesMove, FinishedClk,
         VecMoves, VecPorts, SchedMoves(qv, qc)
  PROVE  VecInv'
<1> USE DEF CoreInv
<1>1. /\ vec.state \in {"S_IDLE", "S_LOAD_CFG", "S_READ", "S_WAIT", "S_WRITE", "S_DONE"}
      /\ vec.cmd_r \in Cmd /\ vec.idx \in Nat /\ sched_cmd_r \in Cmd
      /\ Outs(vec.cmd_r) \in Nat \ {0}
    BY ShapeAssumption DEF CoreTypes, VecTypes
<1>2. CASE VecTakes
    <2>1. ~MacAccept /\ MacQuiet /\ sched_state = "S_ISSUE"
        BY <1>2 DEF SchedMoves, SchedInv
    <2>2. MacQuiet'
        BY <2>1, QuietStep DEF MacQuiet
    <2>3. be_sel_r' = "vec" /\ sched_state' = "S_WAIT" /\ vec'.state = "S_LOAD_CFG"
        BY <1>2, <2>1 DEF SchedMoves, VecMoves
    <2> QED BY <2>2, <2>3 DEF VecInv
<1>3. CASE vec.state = "S_IDLE" /\ ~VecTakes
    BY <1>3 DEF VecMoves, VecTakes, VecInv
<1>4. CASE vec.state # "S_IDLE"
    <2>1. be_sel_r = "vec" /\ MacQuiet /\ sched_state = "S_WAIT"
        BY <1>4 DEF VecInv
    <2>2. ~MacAccept /\ ~VecTakes
        BY <2>1 DEF SchedMoves
    <2>3. MacQuiet' /\ be_sel_r' = "vec"
        BY <2>1, <2>2, QuietStep DEF MacQuiet, SchedMoves
    <2>4. vec'.state # "S_IDLE" => sched_state' = "S_WAIT"
        <3>1. be_done => vec.state = "S_DONE"
            BY <2>1, DoneOnlyWhenWaiting
        <3> QED BY <2>1, <3>1 DEF SchedMoves, VecMoves
    <2>5. vec'.state # "S_IDLE" => be_sel_r' = "vec" /\ MacQuiet' /\ sched_state' = "S_WAIT"
        BY <2>3, <2>4
    <2>6. vec'.cmd_r = vec.cmd_r
        BY <1>4 DEF VecMoves
    <2>7. CASE vec.state = "S_LOAD_CFG"
        BY <1>1, <2>5, <2>6, <2>7 DEF VecMoves, VecInv
    <2>8. CASE vec.state = "S_READ"
        <3>1. vec_addr' = vec_addr
            BY <2>6, <2>8 DEF VecMoves, vec_addr
        <3> QED BY <2>5, <2>6, <2>8, <3>1 DEF VecMoves, VecInv, VecPorts
    <2>9. CASE vec.state = "S_WAIT"
        <3>1. vec_addr' = vec_addr
            BY <2>6, <2>9 DEF VecMoves, vec_addr
        <3> QED BY <2>5, <2>6, <2>9, <3>1 DEF VecMoves, VecInv
    <2>10. CASE vec.state = "S_WRITE"
        <3>1. vec.idx < Outs(vec.cmd_r)
            BY <2>10 DEF VecInv
        <3> QED BY <1>1, <2>5, <2>6, <2>10, <3>1 DEF VecMoves, VecInv
    <2>11. CASE vec.state = "S_DONE"
        BY <2>11 DEF VecMoves, VecInv
    <2> QED BY <1>1, <1>4, <2>7, <2>8, <2>9, <2>10, <2>11
<1> QED BY <1>2, <1>3, <1>4

\* The last results come closer to the memory as time passes.
LEMMA DrainingStep ==
  ASSUME CoreInv, NEW qv, NEW qc, LdMoves, BackMoves, StagesMove, SchedMoves(qv, qc),
         Gap >= 7, sched_state' = "S_IDLE"
  PROVE  DrainingInv'
<1> USE DEF CoreInv
<1>1. Gap \in Nat /\ since_done \in 0 .. Gap
    BY CoreAssumption DEF CoreTypes, VecTypes
<1>2. ld.state \in {"S_IDLE", "S_REQ", "S_WAIT", "S_DONE"}
    BY DEF CoreTypes, LdTypes
<1>3. sched_state \in {"S_IDLE", "S_WAIT"}
    BY DEF SchedMoves, CoreTypes, VecTypes
<1>4. CASE sched_state = "S_IDLE"
    <2>1. DrainingInv /\ ~be_done /\ ag.state = "S_IDLE"
        BY <1>4, DoneOnlyWhenWaiting DEF SchedInv, CtrlInv
    <2>2. ~load_accept
        BY <2>1 DEF load_accept
    <2>3. /\ ld'.state \notin {"S_REQ", "S_WAIT"}
          /\ ld'.state = "S_DONE" => ld.state = "S_WAIT"
        BY <1>2, <2>1, <2>2 DEF LdMoves, Ld, DrainingInv
    <2>4. since_done < Gap => since_done' = since_done + 1
        BY <2>1 DEF SchedMoves
    <2>5. InPe => since_done <= 2
        BY <2>1 DEF DrainingInv, InPe
    <2> QED BY <1>1, <2>1, <2>3, <2>4, <2>5 DEF DrainingInv, StagesMove
<1>5. CASE sched_state = "S_WAIT"
    <2>1. be_done /\ since_done' = 0
        BY <1>5 DEF SchedMoves
    <2>2. ld.state # "S_REQ" /\ ag.state = "S_IDLE"
        BY <2>1, DoneOnlyWhenWaiting DEF DrainInv, CtrlInv, MacQuiet
    <2>3. ~load_accept
        BY <2>2 DEF load_accept
    <2>4. ld'.state # "S_REQ" /\ (ld'.state = "S_WAIT" => Loaded')
        BY <1>2, <2>2, <2>3 DEF LdMoves, Ld, Loaded
    <2> QED BY <2>1, <2>4 DEF DrainingInv
<1> QED BY <1>3, <1>4, <1>5

LEMMA SchedInvStep ==
  ASSUME CoreInv, NEW qv, NEW qc \in Cmd, CoreClk(qv, qc), CtrlMoves, LdMoves, BackMoves,
         StagesMove, VecMoves, SchedMoves(qv, qc), Gap >= 7
  PROVE  SchedInv'
<1> USE DEF CoreInv
<1>1. FinishedClk /\ RouterClk
    BY DEF CoreClk, MacClk
<1>2. bias_pending_r' = Nothing
    <2>1. bias_pending_r = Nothing
        BY DEF SchedInv
    <2> QED BY <1>1, <2>1, OneReadAtATime DEF RouterClk
<1>3. ~MacQuiet' => be_sel_r' = "mac" /\ vec'.state = "S_IDLE"
    <2> SUFFICES ASSUME ~MacQuiet' PROVE be_sel_r' = "mac" /\ vec'.state = "S_IDLE"
        OBVIOUS
    <2>1. CASE MacAccept
        <3>1. vec.state = "S_IDLE" /\ ~IsVec(sched_cmd_r)
            BY <2>1, AcceptQuiet
        <3>2. ~vec_cmd_valid
            BY <3>1 DEF vec_cmd_valid
        <3> QED BY <2>1, <3>1, <3>2 DEF SchedMoves, VecMoves
    <2>2. CASE ~MacAccept
        <3>1. ~MacQuiet
            BY <1>1, <2>2, QuietStep DEF MacQuiet
        <3>2. be_sel_r = "mac" /\ vec.state = "S_IDLE" /\ sched_state # "S_ISSUE"
            BY <3>1 DEF SchedInv
        <3>3. ~VecTakes /\ ~vec_cmd_valid
            BY <3>2 DEF VecTakes, vec_cmd_valid, dispatch_valid
        <3> QED BY <2>2, <3>2, <3>3 DEF SchedMoves, VecMoves
    <2> QED BY <2>1, <2>2
<1>4. sched_state' # "S_WAIT" => ctrl'.state = "IDLE" /\ ~ctrl_finished' /\ vec'.state = "S_IDLE"
    <2> SUFFICES ASSUME sched_state' # "S_WAIT"
                 PROVE  ctrl'.state = "IDLE" /\ ~ctrl_finished' /\ vec'.state = "S_IDLE"
        OBVIOUS
    <2>1. sched_state # "S_ISSUE" /\ (sched_state = "S_WAIT" => be_done)
        BY DEF SchedMoves
    <2>2. ~mac_cmd_valid /\ ~vec_cmd_valid
        BY <2>1 DEF mac_cmd_valid, vec_cmd_valid, dispatch_valid
    <2>3. ctrl.state = "IDLE" => ctrl'.state = "IDLE"
        BY <2>2 DEF CtrlMoves
    <2>4. ctrl.state = "DONE" => ctrl'.state = "IDLE"
        BY DEF CtrlMoves
    <2>5. CASE sched_state = "S_WAIT" /\ mac_done
        <3>1. ctrl'.state = "IDLE"
            BY <2>3, <2>4, <2>5 DEF mac_done, ctrl_done, DrainInv
        <3>2. ~ctrl_finished'
            BY <1>1, <2>5 DEF FinishedClk
        <3>3. vec.state = "S_IDLE"
            BY <2>5 DEF SchedInv, MacQuiet, mac_done, ctrl_done
        <3> QED BY <2>2, <3>1, <3>2, <3>3 DEF VecMoves
    <2>6. CASE sched_state = "S_WAIT" /\ ~mac_done
        <3>1. vec.state = "S_DONE" /\ MacQuiet
            BY <2>1, <2>6, DoneOnlyWhenWaiting
        <3>2. ~ctrl_finished'
            BY <1>1, <3>1 DEF FinishedClk, MacQuiet, ctrl_done
        <3> QED BY <2>3, <3>1, <3>2 DEF VecMoves, MacQuiet
    <2>7. CASE sched_state # "S_WAIT"
        <3>1. ctrl.state = "IDLE" /\ ~ctrl_finished /\ vec.state = "S_IDLE"
            BY <2>7 DEF SchedInv
        <3>2. ~ctrl_finished'
            BY <1>1, <3>1 DEF FinishedClk, ctrl_done
        <3> QED BY <2>2, <2>3, <3>1, <3>2 DEF VecMoves
    <2> QED BY <2>5, <2>6, <2>7
<1>5. sched_state' = "S_IDLE" => DrainingInv'
    BY DrainingStep
<1>6. sched_state' = "S_ISSUE" =>
         MacQuiet' /\ issued' # <<>> /\ issued'[Len(issued')] = sched_cmd_r'
    <2> SUFFICES ASSUME sched_state' = "S_ISSUE"
                 PROVE  MacQuiet' /\ issued' # <<>> /\ issued'[Len(issued')] = sched_cmd_r'
        OBVIOUS
    <2>1. sched_state = "S_IDLE" /\ qv /\ sched_cmd_r' = qc
        BY DEF SchedMoves, CoreTypes, VecTypes
    <2>2. since_done = Gap /\ issued' = Append(issued, qc)
        BY <2>1 DEF CoreClk, Offer, queue_ready
    <2>3. Gap \in Nat /\ issued \in Seq(Cmd)
        BY CoreAssumption DEF CoreTypes, VecTypes
    <2>4. /\ ld.state = "S_IDLE" /\ pe = Nothing /\ ~InAcc /\ ~InBias /\ ~InAct /\ ~InQuant
          /\ ctrl.state = "IDLE" /\ ~ctrl_finished
        BY <2>1, <2>2, <2>3 DEF SchedInv, DrainingInv, CoreTypes, LdTypes
    <2>5. ~MacAccept
        BY <2>1 DEF MacAccept, mac_cmd_valid, dispatch_valid
    <2>6. MacQuiet'
        BY <1>1, <2>4, <2>5, QuietStep
    <2> QED BY <2>1, <2>2, <2>3, <2>6
<1> QED BY <1>2, <1>3, <1>4, <1>5, <1>6 DEF SchedInv

-----------------------------------------------------------------------------
(***************************************************************************)
(* What has been written and what is still owed.                           *)
(***************************************************************************)
LEMMA ResultTypes ==
  ASSUME CoreTypes, NEW o \in Nat
  PROVE  /\ ResultAt(mac_kind, ctrl.cmd_r, o) \in AnyResult
         /\ VecResultAt(vec.cmd_r, o) \in AnyResult
BY DEF CoreTypes, CtrlTypes, VecTypes, AnyResult

LEMMA ExpectedTypes ==
  ASSUME CoreTypes, NEW c \in Cmd
  PROVE  ExpectedOf(c) \in Seq(AnyResult)
<1>1. Outs(c) \in Nat
    BY ShapeAssumption
<1>2. \A o \in 1 .. Outs(c) : ExpectedOf(c)[o] \in AnyResult
    <2> TAKE o \in 1 .. Outs(c)
    <2>1. o - 1 \in Nat
        BY <1>1
    <2>2. ResultAt(mac_kind, c, o - 1) \in AnyResult /\ VecResultAt(c, o - 1) \in AnyResult
        BY <2>1 DEF CoreTypes, CtrlTypes, AnyResult
    <2> QED BY <2>2, ExpectedIs DEF ExpectedAt
<1>3. ExpectedOf(c) = [o \in 1 .. Outs(c) |-> ExpectedOf(c)[o]]
    <2>1. CASE IsVec(c)
        BY <2>1 DEF ExpectedOf, VecExpected
    <2>2. CASE ~IsVec(c)
        BY <2>2 DEF ExpectedOf, Expected
    <2> QED BY <2>1, <2>2
<1>4. PICK e : e = ExpectedOf(c)
    OBVIOUS
<1>5. e = [o \in 1 .. Outs(c) |-> e[o]] /\ \A o \in 1 .. Outs(c) : e[o] \in AnyResult
    BY <1>2, <1>3, <1>4
<1>6. e \in Seq(AnyResult)
    BY <1>1, <1>5
<1> QED BY <1>4, <1>6

\* Nothing is owed by a pipeline that is empty.
LEMMA QuietOwes ==
  ASSUME CtrlTypes, LdTypes, CtrlInv, MacQuiet
  PROVE  MacWritten = Outs(ctrl.cmd_r) /\ MacOwes = 0
<1>1. ag.state = "S_IDLE" /\ ctrl.state = "IDLE" /\ ld.state = "S_IDLE" /\ ~Newer /\ ~Older
    BY DEF CtrlInv, MacQuiet, Newer, Older, InPe
<1>2. LdOut = Outs(ctrl.cmd_r)
    BY <1>1 DEF LdOut, AgOut, CtrlOut
<1>3. Outs(ctrl.cmd_r) \in Nat
    BY PositionTypes
<1> QED BY <1>1, <1>2, <1>3 DEF MacWritten, MacOwes

\* What a clock writes.
VecWrites == vec.state = "S_WRITE"

WriteMoves ==
    /\ InWriter => ~VecWrites /\ Write = <<ResultAt(mac_kind, ctrl.cmd_r, MacWritten)>>
    /\ VecWrites => Write = <<VecResultAt(vec.cmd_r, vec.idx)>>
    /\ ~InWriter /\ ~VecWrites => Write = <<>>

LEMMA WriteStep ==
  ASSUME CoreInv
  PROVE  WriteMoves
<1> USE DEF CoreInv
<1>1. CASE InWriter
    <2>1. be_sel_r = "mac" /\ vec.state = "S_IDLE"
        BY <1>1 DEF SchedInv, MacQuiet
    <2>2. /\ writer.addr = Element(ctrl.cmd_r, OlderOut)
          /\ writer.data = DataAt(mac_kind, ctrl.cmd_r, OlderOut)
        BY <1>1 DEF StagesInv
    <2>3. LdOut \in Nat
        BY PositionTypes DEF CoreTypes
    <2>4. MacWritten = OlderOut
        BY <1>1, <2>3 DEF MacWritten, OlderOut, Older
    <2>5. Write = <<[addr |-> writer.addr, data |-> writer.data]>>
        BY <1>1, <2>1 DEF Write, InWriter, out_wr_req
    <2> QED BY <1>1, <2>1, <2>2, <2>4, <2>5 DEF WriteMoves, VecWrites, ResultAt
<1>2. CASE VecWrites
    <2>1. be_sel_r = "vec" /\ vec.a = <<vec_addr>> /\ vec.b = <<vec_addr>> /\ ~InWriter
        BY <1>2 DEF VecInv, VecWrites, MacQuiet
    <2>2. Write = <<[addr |-> Element(vec.cmd_r, vec.idx), data |-> vec.a \o vec.b]>>
        BY <1>2, <2>1 DEF Write, VecWrites
    <2>3. vec.a \o vec.b = <<vec_addr, vec_addr>>
        <3>1. PICK x : x = vec_addr
            OBVIOUS
        <3>2. <<x>> \in Seq({x}) /\ Len(<<x>>) = 1 /\ <<x>>[1] = x
            OBVIOUS
        <3>3. /\ <<x>> \o <<x>> \in Seq({x}) /\ Len(<<x>> \o <<x>>) = 2
              /\ (<<x>> \o <<x>>)[1] = x /\ (<<x>> \o <<x>>)[2] = x
            BY <3>2
        <3>4. <<x, x>> \in Seq({x}) /\ Len(<<x, x>>) = 2 /\ <<x, x>>[1] = x /\ <<x, x>>[2] = x
            OBVIOUS
        <3>5. <<x>> \o <<x>> = <<x, x>>
            <4>1. PICK t, u : t = <<x>> \o <<x>> /\ u = <<x, x>>
                OBVIOUS
            <4>2. t \in Seq({x}) /\ u \in Seq({x}) /\ Len(t) = 2 /\ Len(u) = 2
                BY <3>3, <3>4, <4>1
            <4>3. \A i \in 1 .. 2 : t[i] = u[i]
                BY <3>3, <3>4, <4>1
            <4>4. t = u
                BY <4>2, <4>3, SeqEqual
            <4> QED BY <4>1, <4>4
        <3> QED BY <2>1, <3>1, <3>5
    <2> QED BY <1>2, <2>1, <2>2, <2>3 DEF WriteMoves, VecResultAt, vec_addr
<1>3. CASE ~InWriter /\ ~VecWrites
    BY <1>3 DEF Write, WriteMoves, InWriter, VecWrites, out_wr_req
<1> QED BY <1>1, <1>2, <1>3

\* The vector backend owes one result less after each write.
LEMMA VecOwesStep ==
  ASSUME CoreInv, VecMoves, ~VecTakes
  PROVE  /\ VecOwes \in Nat /\ VecOwes' \in Nat
         /\ VecOwes' = VecOwes - (IF VecWrites THEN 1 ELSE 0)
         /\ VecOwes' > 0 => vec'.cmd_r = vec.cmd_r
         /\ VecWrites => vec.idx = Outs(vec.cmd_r) - VecOwes
<1> USE DEF CoreInv
<1>1. /\ vec.state \in {"S_IDLE", "S_LOAD_CFG", "S_READ", "S_WAIT", "S_WRITE", "S_DONE"}
      /\ vec.idx \in Nat /\ Outs(vec.cmd_r) \in Nat \ {0}
    BY ShapeAssumption DEF CoreTypes, VecTypes
<1>2. vec.state \in {"S_READ", "S_WAIT", "S_WRITE"} => vec.idx < Outs(vec.cmd_r)
    BY DEF VecInv
<1>3. CASE vec.state = "S_IDLE"
    <2>1. vec' = vec
        BY <1>3 DEF VecMoves, VecTakes
    <2> QED BY <1>3, <2>1 DEF VecOwes, VecWrites
<1>4. CASE vec.state = "S_DONE"
    BY <1>4 DEF VecMoves, VecOwes, VecWrites
<1>5. CASE vec.state \in {"S_LOAD_CFG", "S_READ", "S_WAIT", "S_WRITE"}
    <2>1. vec'.cmd_r = vec.cmd_r
        BY <1>5 DEF VecMoves
    <2> QED BY <1>1, <1>2, <1>5, <2>1 DEF VecMoves, VecOwes, VecWrites
<1> QED BY <1>1, <1>3, <1>4, <1>5

VecTypesMoves(qv, qc) ==
    /\ IF qv /\ sched_state = "S_IDLE"
       THEN issued' = Append(issued, qc) /\ expected' = expected \o ExpectedOf(qc)
       ELSE issued' = issued /\ expected' = expected
    /\ written' = written \o Write

LEMMA VecTypesStep ==
  ASSUME CoreInv, NEW qv, NEW qc \in Cmd, CoreClk(qv, qc), VecMoves, SchedMoves(qv, qc)
  PROVE  VecTypes' /\ VecTypesMoves(qv, qc)
<1> USE DEF CoreInv
<1>1. VecTypesMoves(qv, qc)
    BY DEF CoreClk, VecTypesMoves, queue_ready
<1>2. VecTypes /\ Gap \in Nat
    BY CoreAssumption DEF CoreTypes
<1>3. sched_state' \in {"S_IDLE", "S_ISSUE", "S_WAIT"} /\ sched_cmd_r' \in Cmd
    BY <1>2 DEF SchedMoves, VecTypes
<1>4. /\ vec'.state \in {"S_IDLE", "S_LOAD_CFG", "S_READ", "S_WAIT", "S_WRITE", "S_DONE"}
      /\ vec'.cmd_r \in Cmd /\ vec'.idx \in Nat
    BY <1>2 DEF VecMoves, VecTypes, VecTakes
<1>5. be_sel_r' \in {"mac", "vec"} /\ since_done' \in 0 .. Gap
    BY <1>2 DEF SchedMoves, VecTypes
<1>6. issued' \in Seq(Cmd)
    <2>1. issued \in Seq(Cmd)
        BY <1>2 DEF VecTypes
    <2>2. Append(issued, qc) \in Seq(Cmd)
        BY <2>1, AppendProperties
    <2> QED BY <1>1, <2>1, <2>2 DEF VecTypesMoves
<1>7. expected' \in Seq(AnyResult)
    <2>1. expected \in Seq(AnyResult) /\ ExpectedOf(qc) \in Seq(AnyResult)
        BY <1>2, ExpectedTypes DEF VecTypes
    <2>2. expected \o ExpectedOf(qc) \in Seq(AnyResult)
        BY <2>1, ConcatProperties
    <2> QED BY <1>1, <2>1, <2>2 DEF VecTypesMoves
<1>8. Write \in Seq(AnyResult)
    <2>1. PICK r, s : r = ResultAt(mac_kind, ctrl.cmd_r, MacWritten)
                      /\ s = VecResultAt(vec.cmd_r, vec.idx)
        OBVIOUS
    <2>2. r \in AnyResult /\ s \in AnyResult
        BY <1>2, <2>1, ResultTypes DEF HistoryInv, VecTypes
    <2>3. Write \in {<<r>>, <<s>>, <<>>}
        BY <2>1, WriteStep DEF WriteMoves
    <2>4. <<r>> \in Seq(AnyResult) /\ <<s>> \in Seq(AnyResult)
        BY <2>2
    <2>5. <<>> \in Seq(AnyResult)
        OBVIOUS
    <2> QED BY <2>3, <2>4, <2>5
<1>9. written' \in Seq(AnyResult)
    BY <1>1, <1>2, <1>8, ConcatProperties DEF VecTypesMoves, VecTypes
<1>10. vec' = [state |-> vec'.state, cmd_r |-> vec'.cmd_r, idx |-> vec'.idx,
               a_gnt |-> vec'.a_gnt, b_gnt |-> vec'.b_gnt, a |-> vec'.a, b |-> vec'.b]
    BY DEF VecMoves
<1> QED BY <1>1, <1>3, <1>4, <1>5, <1>6, <1>7, <1>9, <1>10 DEF VecTypes

\* One more result, the right one.
LEMMA OneMore ==
  ASSUME NEW S, NEW w \in Seq(S), NEW e \in Seq(S), NEW r \in S,
         Len(w) < Len(e), \A n \in 1 .. Len(w) : w[n] = e[n], e[Len(w) + 1] = r
  PROVE  /\ Len(w \o <<r>>) = Len(w) + 1
         /\ \A n \in 1 .. Len(w) + 1 : (w \o <<r>>)[n] = e[n]
<1>1. <<r>> \in Seq(S) /\ Len(<<r>>) = 1 /\ <<r>>[1] = r
    OBVIOUS
<1>2. /\ Len(w \o <<r>>) = Len(w) + 1
      /\ \A n \in 1 .. Len(w) + 1 :
           (w \o <<r>>)[n] = IF n <= Len(w) THEN w[n] ELSE <<r>>[n - Len(w)]
    BY <1>1, ConcatProperties
<1>3. \A n \in 1 .. Len(w) + 1 : (w \o <<r>>)[n] = e[n]
    <2> TAKE n \in 1 .. Len(w) + 1
    <2>1. CASE n <= Len(w)
        BY <1>2, <2>1
    <2>2. CASE n = Len(w) + 1
        <3>1. n - Len(w) = 1 /\ ~(n <= Len(w))
            BY <2>2
        <3>2. (w \o <<r>>)[n] = <<r>>[1]
            BY <1>2, <3>1
        <3> QED BY <1>1, <2>2, <3>2
    <2> QED BY <2>1, <2>2
<1> QED BY <1>2, <1>3

\* What is written stays a prefix of what is expected.
LEMMA PrefixStep ==
  ASSUME CoreInv, WriteMoves, written' = written \o Write,
         VecWrites => VecOwes > 0 /\ vec.idx = Outs(vec.cmd_r) - VecOwes,
         InWriter => MacOwes > 0 /\ VecOwes = 0,
         VecWrites => MacOwes = 0, VecOwes \in Nat, IssueOwes \in Nat
  PROVE  /\ Len(written') = Len(written) + (IF InWriter \/ VecWrites THEN 1 ELSE 0)
         /\ \A n \in 1 .. Len(written') : written'[n] = expected[n]
<1> USE DEF CoreInv
<1>1. /\ written \in Seq(AnyResult) /\ expected \in Seq(AnyResult)
      /\ vec.idx \in Nat /\ Outs(vec.cmd_r) \in Nat
    BY ShapeAssumption DEF CoreTypes, VecTypes
<1>2. /\ MacOwes \in Nat /\ MacWritten \in Nat
      /\ Len(expected) = Len(written) + MacOwes + VecOwes + IssueOwes
      /\ \A n \in 1 .. Len(written) : written[n] = expected[n]
    BY DEF HistoryInv
<1>3. Len(written) \in Nat
    BY <1>1
<1>4. CASE InWriter
    <2>1. PICK r : r = ResultAt(mac_kind, ctrl.cmd_r, MacWritten)
        OBVIOUS
    <2>2. r \in AnyResult
        BY <1>2, <2>1, ResultTypes
    <2>3. 1 \in 1 .. MacOwes
        BY <1>2, <1>4
    <2>4. expected[Len(written) + 1] = ResultAt(mac_kind, ctrl.cmd_r, MacWritten + 1 - 1)
        BY <2>3 DEF HistoryInv
    <2>5. MacWritten + 1 - 1 = MacWritten
        BY <1>2
    <2>6. Len(written) < Len(expected)
        BY <1>2, <1>3, <1>4
    <2>7. written' = written \o <<r>>
        BY <1>4, <2>1 DEF WriteMoves
    <2>8. expected[Len(written) + 1] = r
        BY <2>1, <2>4, <2>5
    <2>9. PICK w, e : w = written /\ e = expected
        OBVIOUS
    <2>10. /\ w \in Seq(AnyResult) /\ e \in Seq(AnyResult) /\ r \in AnyResult
           /\ Len(w) < Len(e) /\ e[Len(w) + 1] = r /\ \A n \in 1 .. Len(w) : w[n] = e[n]
        BY <1>1, <1>2, <2>2, <2>6, <2>8, <2>9
    <2>11. /\ Len(w \o <<r>>) = Len(w) + 1
           /\ \A n \in 1 .. Len(w) + 1 : (w \o <<r>>)[n] = e[n]
        BY ONLY <2>10, OneMore
    <2> QED BY <1>4, <2>7, <2>9, <2>11
<1>5. CASE VecWrites
    <2>1. PICK r : r = VecResultAt(vec.cmd_r, vec.idx)
        OBVIOUS
    <2>2. r \in AnyResult
        BY <1>1, <2>1, ResultTypes
    <2>3. 1 \in 1 .. VecOwes
        BY <1>5
    <2>4. expected[Len(written) + 1]
            = VecResultAt(vec.cmd_r, Outs(vec.cmd_r) - VecOwes + 1 - 1)
        BY <2>3 DEF HistoryInv
    <2>5. Outs(vec.cmd_r) - VecOwes + 1 - 1 = vec.idx
        BY <1>1, <1>5
    <2>6. Len(written) < Len(expected)
        BY <1>2, <1>3, <1>5
    <2>7. written' = written \o <<r>>
        BY <1>5, <2>1 DEF WriteMoves
    <2>8. expected[Len(written) + 1] = r
        BY <2>1, <2>4, <2>5
    <2>9. PICK w, e : w = written /\ e = expected
        OBVIOUS
    <2>10. /\ w \in Seq(AnyResult) /\ e \in Seq(AnyResult) /\ r \in AnyResult
           /\ Len(w) < Len(e) /\ e[Len(w) + 1] = r /\ \A n \in 1 .. Len(w) : w[n] = e[n]
        BY <1>1, <1>2, <2>2, <2>6, <2>8, <2>9
    <2>11. /\ Len(w \o <<r>>) = Len(w) + 1
           /\ \A n \in 1 .. Len(w) + 1 : (w \o <<r>>)[n] = e[n]
        BY ONLY <2>10, OneMore
    <2> QED BY <1>5, <2>7, <2>9, <2>11
<1>6. CASE ~InWriter /\ ~VecWrites
    <2>1. written' = written
        BY <1>1, <1>6, ConcatEmptySeq DEF WriteMoves
    <2> QED BY <1>2, <1>3, <1>6, <2>1
<1> QED BY <1>4, <1>5, <1>6

\* The owed results after the one just written.
LEMMA ShiftVecOwed ==
  ASSUME NEW e, NEW c, NEW l \in Nat, NEW m \in Nat, NEW owes \in Nat, NEW d \in {0, 1},
         \A n \in 1 .. owes : e[l + n] = VecResultAt(c, m - owes + n - 1)
  PROVE  \A n \in 1 .. owes - d : e[(l + d) + n] = VecResultAt(c, m - (owes - d) + n - 1)
<1> TAKE n \in 1 .. owes - d
<1>1. d + n \in 1 .. owes
    OBVIOUS
<1>2. l + (d + n) = (l + d) + n /\ m - owes + (d + n) - 1 = m - (owes - d) + n - 1
    OBVIOUS
<1>3. e[l + (d + n)] = VecResultAt(c, m - owes + (d + n) - 1)
    BY <1>1
<1> QED BY <1>2, <1>3

LEMMA LdOutBound ==
  ASSUME CoreInv
  PROVE  LdOut <= Outs(ctrl.cmd_r)
<1> USE DEF CoreInv
<1>1. Outs(ctrl.cmd_r) \in Nat /\ LdOut \in Nat
    BY PositionTypes DEF CoreTypes
<1>2. ctrl.out \in Nat /\ ag.addr.out \in Nat /\ ld.addr.out \in Nat
    BY DEF CoreTypes, CtrlTypes, LdTypes, Operands
<1>3. CtrlOut <= Outs(ctrl.cmd_r)
    BY <1>1, <1>2 DEF CtrlOut, CtrlInv
<1>4. AgOut <= Outs(ctrl.cmd_r)
    BY <1>1, <1>2, <1>3 DEF AgOut, CtrlInv, Follows
<1> QED BY <1>1, <1>2, <1>4 DEF LdOut, LdInv, Follows

\* After a clock that accepts nothing: what the backends owe of the same results.
LEMMA OwedStep ==
  ASSUME CoreInv, ~MacAccept, ~VecTakes, OutMoves, VecMoves, WriteMoves,
         sched_state # "S_ISSUE", ctrl'.cmd_r = ctrl.cmd_r, mac_kind' = mac_kind,
         written' = written \o Write
  PROVE  /\ MacWritten' \in Nat /\ MacOwes' \in Nat /\ VecOwes' \in Nat
         /\ Len(expected) = Len(written') + MacOwes' + VecOwes'
         /\ \A n \in 1 .. Len(written') : written'[n] = expected[n]
         /\ \A n \in 1 .. MacOwes' :
              expected[Len(written') + n] = ResultAt(mac_kind', ctrl'.cmd_r, MacWritten' + n - 1)
         /\ \A n \in 1 .. VecOwes' :
              expected[Len(written') + n]
                = VecResultAt(vec'.cmd_r, Outs(vec'.cmd_r) - VecOwes' + n - 1)
         /\ Len(written') \in Nat
<1> USE DEF CoreInv
<1>1. PICK dm, dv : /\ dm = (IF InWriter THEN 1 ELSE 0)
                    /\ dv = (IF VecWrites THEN 1 ELSE 0)
    OBVIOUS
<1>2. dm \in {0, 1} /\ dv \in {0, 1}
    BY <1>1
<1>3. /\ MacWritten \in Nat /\ MacOwes \in Nat /\ Outs(ctrl.cmd_r) \in Nat /\ LdOut \in Nat
      /\ Len(written) \in Nat
    BY PositionTypes DEF HistoryInv, CoreTypes, VecTypes
<1>4. IssueOwes = 0
    BY DEF IssueOwes
<1>5. /\ VecOwes \in Nat /\ VecOwes' \in Nat /\ VecOwes' = VecOwes - dv
      /\ VecOwes' > 0 => vec'.cmd_r = vec.cmd_r
      /\ VecWrites => vec.idx = Outs(vec.cmd_r) - VecOwes
    BY <1>1, VecOwesStep
<1>6. InWriter => MacOwes > 0
    <2>1. InWriter => MacWritten <= LdOut - 1
        BY <1>3 DEF MacWritten, Older
    <2>2. LdOut <= Outs(ctrl.cmd_r)
        BY LdOutBound
    <2> QED BY <1>3, <2>1, <2>2 DEF MacOwes
<1>7. InWriter => vec.state = "S_IDLE" /\ VecOwes = 0
    BY DEF SchedInv, MacQuiet, VecOwes
<1>8. VecWrites => MacOwes = 0 /\ VecOwes > 0 /\ ~InWriter
    <2>1. VecWrites => MacQuiet
        BY DEF VecInv, VecWrites
    <2>2. VecWrites => MacOwes = 0 /\ ~InWriter
        BY <2>1, QuietOwes DEF CoreTypes, MacQuiet
    <2>3. VecWrites => VecOwes > 0
        BY <1>1, <1>5
    <2> QED BY <2>2, <2>3
<1>9. /\ Len(written') = Len(written) + (IF InWriter \/ VecWrites THEN 1 ELSE 0)
      /\ \A n \in 1 .. Len(written') : written'[n] = expected[n]
    BY <1>4, <1>5, <1>6, <1>7, <1>8, PrefixStep
<1>10. Len(written') = Len(written) + dm + dv
    <2>1. CASE InWriter
        <3>1. dm = 1 /\ dv = 0
            BY <1>1, <1>8, <2>1
        <3>2. Len(written') = Len(written) + 1
            BY <1>9, <2>1
        <3> QED BY <1>3, <3>1, <3>2
    <2>2. CASE ~InWriter /\ VecWrites
        <3>1. dm = 0 /\ dv = 1
            BY <1>1, <2>2
        <3>2. Len(written') = Len(written) + 1
            BY <1>9, <2>2
        <3> QED BY <1>3, <3>1, <3>2
    <2>3. CASE ~InWriter /\ ~VecWrites
        <3>1. dm = 0 /\ dv = 0
            BY <1>1, <2>3
        <3>2. Len(written') = Len(written) + 0
            BY <1>9, <2>3
        <3> QED BY <1>3, <3>1, <3>2
    <2> QED BY <2>1, <2>2, <2>3
<1>11. MacWritten' = MacWritten + dm
    BY <1>1 DEF OutMoves
<1>12. MacOwes' = MacOwes - dm
    BY <1>2, <1>3, <1>11 DEF MacOwes
<1>13. MacOwes' \in Nat /\ MacWritten' \in Nat
    BY <1>1, <1>2, <1>3, <1>6, <1>11, <1>12
<1>14. Len(expected) = Len(written') + MacOwes' + VecOwes'
    <2>1. Len(expected) = Len(written) + MacOwes + VecOwes + IssueOwes
        BY DEF HistoryInv
    <2> QED BY <1>2, <1>3, <1>4, <1>5, <1>10, <1>12, <2>1
<1>15. \A n \in 1 .. MacOwes' :
         expected[Len(written') + n] = ResultAt(mac_kind', ctrl'.cmd_r, MacWritten' + n - 1)
    <2>1. CASE VecWrites
        <3>1. MacOwes' = 0
            BY <1>1, <1>8, <1>12, <2>1
        <3> QED BY <3>1
    <2>2. CASE ~VecWrites
        <3>1. Len(written') = Len(written) + dm
            BY <1>1, <1>2, <1>3, <1>10, <2>2
        <3>2. \A n \in 1 .. MacOwes :
                 expected[Len(written) + n] = ResultAt(mac_kind, ctrl.cmd_r, MacWritten + n - 1)
            BY DEF HistoryInv
        <3>3. \A n \in 1 .. MacOwes - dm :
                 expected[(Len(written) + dm) + n]
                   = ResultAt(mac_kind, ctrl.cmd_r, (MacWritten + dm) + n - 1)
            <4>1. PICK e, k, c, l, m, o :
                    /\ e = expected /\ k = mac_kind /\ c = ctrl.cmd_r
                    /\ l = Len(written) /\ m = MacWritten /\ o = MacOwes
                OBVIOUS
            <4>2. l \in Nat /\ m \in Nat /\ o \in Nat
                BY <1>3, <4>1
            <4>3. \A n \in 1 .. o : e[l + n] = ResultAt(k, c, m + n - 1)
                BY <3>2, <4>1
            <4>4. \A n \in 1 .. o - dm : e[(l + dm) + n] = ResultAt(k, c, (m + dm) + n - 1)
                <5> TAKE n \in 1 .. o - dm
                <5>1. dm + n \in 1 .. o
                    BY <1>2, <4>2
                <5>2. l + (dm + n) = (l + dm) + n /\ m + (dm + n) - 1 = (m + dm) + n - 1
                    BY <1>2, <4>2
                <5>3. e[l + (dm + n)] = ResultAt(k, c, m + (dm + n) - 1)
                    BY <4>3, <5>1
                <5> QED BY <5>2, <5>3
            <4> QED BY <4>1, <4>4
        <3> QED BY <1>11, <1>12, <3>1, <3>3
    <2> QED BY <2>1, <2>2
<1>16. \A n \in 1 .. VecOwes' :
         expected[Len(written') + n]
           = VecResultAt(vec'.cmd_r, Outs(vec'.cmd_r) - VecOwes' + n - 1)
    <2>1. CASE VecOwes' > 0
        <3>1. dm = 0
            BY <1>1, <1>2, <1>5, <1>7, <2>1
        <3>2. Len(written') = Len(written) + dv
            BY <1>2, <1>3, <1>10, <3>1
        <3>3. \A n \in 1 .. VecOwes :
                expected[Len(written) + n]
                  = VecResultAt(vec.cmd_r, Outs(vec.cmd_r) - VecOwes + n - 1)
            BY DEF HistoryInv
        <3>4. Outs(vec.cmd_r) \in Nat
            BY ShapeAssumption DEF CoreTypes, VecTypes
        <3>5. \A n \in 1 .. VecOwes - dv :
                expected[(Len(written) + dv) + n]
                  = VecResultAt(vec.cmd_r, Outs(vec.cmd_r) - (VecOwes - dv) + n - 1)
            <4>1. PICK e, c, l, m, o :
                    /\ e = expected /\ c = vec.cmd_r
                    /\ l = Len(written) /\ m = Outs(vec.cmd_r) /\ o = VecOwes
                OBVIOUS
            <4>2. l \in Nat /\ m \in Nat /\ o \in Nat
                BY <1>3, <1>5, <3>4, <4>1
            <4>3. \A n \in 1 .. o : e[l + n] = VecResultAt(c, m - o + n - 1)
                BY <3>3, <4>1
            <4>4. \A n \in 1 .. o - dv : e[(l + dv) + n] = VecResultAt(c, m - (o - dv) + n - 1)
                <5> HIDE DEF CoreInv
                <5> QED BY ONLY <1>2, <4>2, <4>3, ShiftVecOwed
            <4> QED BY <4>1, <4>4
        <3> QED BY <1>5, <2>1, <3>2, <3>5
    <2>2. CASE VecOwes' = 0
        BY <2>2
    <2> QED BY <1>5, <2>1, <2>2
<1>17. Len(written') \in Nat
    BY <1>2, <1>3, <1>10
<1> HIDE DEF CoreInv
<1> QED BY <1>5, <1>9, <1>13, <1>14, <1>15, <1>16, <1>17

\* An empty pipeline owes nothing, after the clock.
LEMMA QuietOwesNext ==
  ASSUME CtrlTypes', CtrlInv', MacQuiet'
  PROVE  MacWritten' \in Nat /\ MacOwes' = 0
<1>1. /\ ag'.state = "S_IDLE" /\ ctrl'.state = "IDLE" /\ ld'.state = "S_IDLE"
      /\ ~Newer' /\ ~Older'
    BY DEF CtrlInv, MacQuiet, Newer, Older, InPe
<1>2. LdOut' = Outs(ctrl'.cmd_r)
    BY <1>1 DEF LdOut, AgOut, CtrlOut
<1>3. Outs(ctrl'.cmd_r) \in Nat
    BY ShapeAssumption DEF CtrlTypes
<1> QED BY <1>1, <1>2, <1>3 DEF MacWritten, MacOwes

\* The scheduler's command before a backend has it.
LEMMA IssueOwed ==
  ASSUME CoreInv, sched_state = "S_ISSUE"
  PROVE  /\ MacQuiet /\ MacOwes = 0 /\ VecOwes = 0 /\ Outs(sched_cmd_r) \in Nat
         /\ Len(written) \in Nat
         /\ Len(expected) = Len(written) + Outs(sched_cmd_r)
         /\ \A n \in 1 .. Len(written) : written[n] = expected[n]
         /\ \A n \in 1 .. Outs(sched_cmd_r) :
              expected[Len(written) + n] = ExpectedAt(mac_kind, sched_cmd_r, n - 1)
<1> USE DEF CoreInv
<1>1. MacQuiet /\ vec.state = "S_IDLE"
    BY DEF SchedInv
<1>2. MacOwes = 0
    BY <1>1, QuietOwes DEF CoreTypes
<1>3. VecOwes = 0
    BY <1>1 DEF VecOwes
<1>4. IssueOwes = Outs(sched_cmd_r) /\ Outs(sched_cmd_r) \in Nat
    BY ShapeAssumption DEF IssueOwes, CoreTypes, VecTypes
<1>5. Len(written) \in Nat
    BY DEF CoreTypes, VecTypes
<1>6. Len(expected) = Len(written) + MacOwes + VecOwes + IssueOwes
    BY DEF HistoryInv
<1>7. Len(expected) = Len(written) + Outs(sched_cmd_r)
    BY <1>2, <1>3, <1>4, <1>5, <1>6
<1>8. \A n \in 1 .. Len(written) : written[n] = expected[n]
    BY DEF HistoryInv
<1>9. \A n \in 1 .. Outs(sched_cmd_r) :
        expected[Len(written) + n] = ExpectedAt(mac_kind, sched_cmd_r, n - 1)
    BY <1>4 DEF HistoryInv
<1> QED BY <1>1, <1>2, <1>3, <1>4, <1>5, <1>7, <1>8, <1>9

\* Nothing is written while the scheduler offers its command.
LEMMA IssueWritesNothing ==
  ASSUME CoreInv, sched_state = "S_ISSUE", WriteMoves, written' = written \o Write
  PROVE  written' = written
<1> USE DEF CoreInv
<1>1. MacQuiet /\ vec.state = "S_IDLE"
    BY DEF SchedInv
<1>2. Write = <<>>
    BY <1>1 DEF WriteMoves, MacQuiet, VecWrites
<1>3. written \in Seq(AnyResult)
    BY DEF CoreTypes, VecTypes
<1> QED BY <1>2, <1>3, ConcatEmptySeq

\* The multiply-accumulate backend takes the command.
LEMMA MacTakesHistory ==
  ASSUME CoreInv, MacAccept, MacWritten' = 0, ctrl'.cmd_r = sched_cmd_r,
         mac_kind' = mac_kind, VecMoves, sched_state' = "S_WAIT", expected' = expected,
         WriteMoves, written' = written \o Write
  PROVE  HistoryInv'
<1>1. sched_state = "S_ISSUE" /\ vec.state = "S_IDLE" /\ ~IsVec(sched_cmd_r)
    BY AcceptQuiet
<1>2. written' = written
    BY <1>1, IssueWritesNothing
<1>3. vec' = vec
    BY <1>1 DEF VecMoves, vec_cmd_valid
<1>4. VecOwes' = 0 /\ IssueOwes' = 0
    BY <1>1, <1>3 DEF VecOwes, IssueOwes
<1>5. /\ Outs(sched_cmd_r) \in Nat /\ Len(written) \in Nat
      /\ Len(expected) = Len(written) + Outs(sched_cmd_r)
      /\ \A n \in 1 .. Len(written) : written[n] = expected[n]
      /\ \A n \in 1 .. Outs(sched_cmd_r) :
           expected[Len(written) + n] = ExpectedAt(mac_kind, sched_cmd_r, n - 1)
    BY <1>1, IssueOwed
<1>6. MacOwes' = Outs(sched_cmd_r)
    BY <1>5 DEF MacOwes
<1>7. Len(expected') = Len(written') + MacOwes' + VecOwes' + IssueOwes'
    BY <1>2, <1>4, <1>5, <1>6
<1>8. \A n \in 1 .. MacOwes' :
        expected'[Len(written') + n] = ResultAt(mac_kind', ctrl'.cmd_r, MacWritten' + n - 1)
    <2> TAKE n \in 1 .. MacOwes'
    <2>1. n \in 1 .. Outs(sched_cmd_r) /\ 0 + n - 1 = n - 1
        BY <1>5, <1>6
    <2>2. expected[Len(written) + n] = ResultAt(mac_kind, sched_cmd_r, n - 1)
        BY <1>1, <1>5, <2>1 DEF ExpectedAt
    <2>3. MacWritten' + n - 1 = n - 1
        BY <2>1
    <2> QED BY <1>2, <2>2, <2>3
<1>9. \A n \in 1 .. Len(written') : written'[n] = expected'[n]
    BY <1>2, <1>5
<1> QED BY <1>4, <1>5, <1>6, <1>7, <1>8, <1>9 DEF HistoryInv

\* The vector backend takes the command.
LEMMA VecTakesHistory ==
  ASSUME CoreInv, VecTakes, sched_state = "S_ISSUE", IsVec(sched_cmd_r), CtrlTypes', CtrlInv',
         MacQuiet', mac_kind' = mac_kind, VecMoves, sched_state' = "S_WAIT",
         expected' = expected, WriteMoves, written' = written \o Write
  PROVE  HistoryInv'
<1>1. MacWritten' \in Nat /\ MacOwes' = 0
    BY QuietOwesNext
<1>2. written' = written
    BY IssueWritesNothing
<1>3. vec'.state = "S_LOAD_CFG" /\ vec'.cmd_r = sched_cmd_r
    BY DEF VecMoves
<1>4. VecOwes' = Outs(sched_cmd_r) /\ IssueOwes' = 0
    BY <1>3 DEF VecOwes, IssueOwes
<1>5. /\ Outs(sched_cmd_r) \in Nat /\ Len(written) \in Nat
      /\ Len(expected) = Len(written) + Outs(sched_cmd_r)
      /\ \A n \in 1 .. Len(written) : written[n] = expected[n]
      /\ \A n \in 1 .. Outs(sched_cmd_r) :
           expected[Len(written) + n] = ExpectedAt(mac_kind, sched_cmd_r, n - 1)
    BY IssueOwed
<1>6. Len(expected') = Len(written') + MacOwes' + VecOwes' + IssueOwes'
    BY <1>1, <1>2, <1>4, <1>5
<1>7. \A n \in 1 .. VecOwes' :
        expected'[Len(written') + n]
          = VecResultAt(vec'.cmd_r, Outs(vec'.cmd_r) - VecOwes' + n - 1)
    <2> TAKE n \in 1 .. VecOwes'
    <2>1. n \in 1 .. Outs(sched_cmd_r) /\ Outs(sched_cmd_r) - Outs(sched_cmd_r) + n - 1 = n - 1
        BY <1>4, <1>5
    <2>2. expected[Len(written) + n] = VecResultAt(sched_cmd_r, n - 1)
        BY <1>5, <2>1 DEF ExpectedAt
    <2>3. Outs(vec'.cmd_r) - VecOwes' + n - 1 = n - 1
        BY <1>3, <1>4, <2>1
    <2> QED BY <1>2, <1>3, <2>2, <2>3
<1>8. \A n \in 1 .. Len(written') : written'[n] = expected'[n]
    BY <1>2, <1>5
<1>9. 1 .. MacOwes' = {} /\ 1 .. IssueOwes' = {} /\ MacOwes' \in Nat
    BY <1>1, <1>4
<1> QED BY <1>1, <1>6, <1>7, <1>8, <1>9 DEF HistoryInv

\* The scheduler takes a command; it finds the earlier ones written.
LEMMA TakeHistory ==
  ASSUME CoreInv, NEW qc \in Cmd, ~MacAccept, ~VecTakes, OutMoves, VecMoves, WriteMoves,
         sched_state = "S_IDLE", ctrl'.cmd_r = ctrl.cmd_r, mac_kind' = mac_kind,
         written' = written \o Write, expected' = expected \o ExpectedOf(qc),
         CtrlTypes', CtrlInv', MacQuiet', sched_state' = "S_ISSUE", sched_cmd_r' = qc
  PROVE  HistoryInv'
<1> USE DEF CoreInv
<1>1. MacWritten' \in Nat /\ MacOwes' = 0
    BY QuietOwesNext
<1>2. VecOwes' = 0
    <2>1. vec.state = "S_IDLE"
        BY DEF SchedInv
    <2>2. vec' = vec
        BY <2>1 DEF VecMoves, VecTakes
    <2> QED BY <2>1, <2>2 DEF VecOwes
<1>3. /\ Len(expected) = Len(written') + MacOwes' + VecOwes'
      /\ \A n \in 1 .. Len(written') : written'[n] = expected[n]
      /\ Len(written') \in Nat
    BY OwedStep
<1>4. Len(expected) = Len(written')
    BY <1>1, <1>2, <1>3
<1>5. PICK e, x : e = expected /\ x = ExpectedOf(qc)
    OBVIOUS
<1>6. /\ e \in Seq(AnyResult) /\ x \in Seq(AnyResult)
      /\ Len(x) = Outs(qc) /\ Outs(qc) \in Nat
    BY <1>5, ExpectedTypes, ExpectedIs, ShapeAssumption DEF CoreTypes, VecTypes
<1>7. /\ Len(e \o x) = Len(e) + Len(x)
      /\ \A i \in 1 .. Len(e) + Len(x) :
           (e \o x)[i] = IF i <= Len(e) THEN e[i] ELSE x[i - Len(e)]
    BY <1>6, ConcatProperties
<1>8. IssueOwes' = Outs(qc)
    BY DEF IssueOwes
<1>9. Len(expected') = Len(written') + MacOwes' + VecOwes' + IssueOwes'
    BY <1>1, <1>2, <1>3, <1>4, <1>5, <1>6, <1>7, <1>8
<1>10. \A n \in 1 .. Len(written') : written'[n] = expected'[n]
    <2> TAKE n \in 1 .. Len(written')
    <2>1. n \in 1 .. Len(e) + Len(x) /\ n <= Len(e)
        BY <1>3, <1>4, <1>5, <1>6
    <2>2. expected'[n] = expected[n]
        BY <1>5, <1>7, <2>1
    <2> QED BY <1>3, <2>2
<1>11. \A n \in 1 .. IssueOwes' :
         expected'[Len(written') + n] = ExpectedAt(mac_kind', sched_cmd_r', n - 1)
    <2> TAKE n \in 1 .. IssueOwes'
    <2>1. n \in 1 .. Outs(qc)
        BY <1>8
    <2>2. /\ Len(e) + n \in 1 .. Len(e) + Len(x) /\ ~(Len(e) + n <= Len(e))
          /\ Len(e) + n - Len(e) = n
        BY <1>6, <2>1
    <2>3. (e \o x)[Len(e) + n] = x[n]
        BY <1>7, <2>2
    <2>4. x[n] = ExpectedAt(mac_kind, qc, n - 1)
        BY <1>5, <2>1, ExpectedIs
    <2> QED BY <1>4, <1>5, <2>3, <2>4
<1>12. 1 .. MacOwes' = {} /\ 1 .. VecOwes' = {} /\ MacOwes' \in Nat
    BY <1>1, <1>2
<1> HIDE DEF CoreInv
<1> QED BY <1>1, <1>9, <1>10, <1>11, <1>12 DEF HistoryInv

\* The backends work on, or are idle.
LEMMA WorkHistory ==
  ASSUME CoreInv, ~MacAccept, ~VecTakes, OutMoves, VecMoves, WriteMoves,
         sched_state # "S_ISSUE", sched_state' # "S_ISSUE",
         ctrl'.cmd_r = ctrl.cmd_r, mac_kind' = mac_kind,
         written' = written \o Write, expected' = expected
  PROVE  HistoryInv'
<1>1. /\ MacWritten' \in Nat /\ MacOwes' \in Nat /\ VecOwes' \in Nat
      /\ Len(expected) = Len(written') + MacOwes' + VecOwes'
      /\ \A n \in 1 .. Len(written') : written'[n] = expected[n]
      /\ \A n \in 1 .. MacOwes' :
           expected[Len(written') + n] = ResultAt(mac_kind', ctrl'.cmd_r, MacWritten' + n - 1)
      /\ \A n \in 1 .. VecOwes' :
           expected[Len(written') + n]
             = VecResultAt(vec'.cmd_r, Outs(vec'.cmd_r) - VecOwes' + n - 1)
      /\ Len(written') \in Nat
    BY OwedStep
<1>2. IssueOwes' = 0
    BY DEF IssueOwes
<1>3. Len(expected') = Len(written') + MacOwes' + VecOwes' + IssueOwes'
    BY <1>1, <1>2
<1> QED BY <1>1, <1>2, <1>3 DEF HistoryInv

-----------------------------------------------------------------------------
(***************************************************************************)
(* The invariant is inductive.                                             *)
(***************************************************************************)

\* One clock keeps the invariant.
LEMMA ClockKeepsInv ==
  ASSUME CoreInv, NEW qv, NEW qc \in Cmd, CoreClk(qv, qc), Gap >= 7
  PROVE  CoreInv'
<1>1. /\ CtrlTypes /\ LdTypes /\ CoreTypes /\ CtrlInv /\ SchedInv
      /\ FinishedClk /\ mac_kind' = mac_kind
    BY DEF CoreInv, CoreTypes, CoreClk, MacClk
<1>2. BackMoves /\ StagesMove
    BY BackStep, StagesStep
<1>3. CtrlMoves /\ AgMoves /\ IterMoves
    BY <1>1, CtrlStep, AgStep, IterStep
<1>4. Outs(ctrl.cmd_r) \in Nat \ {0} /\ Inner(ctrl.cmd_r) \in Nat \ {0}
    BY <1>1, PositionTypes
<1>5. CtrlPosMoves
    BY <1>1, <1>3, <1>4, CtrlPosStep
<1>6. AgPosMoves
    BY <1>1, <1>3, <1>5, AgPosStep
<1>7. CtrlTypes'
    BY CtrlTypesStep
<1>8. CtrlInv'
    <2>1. MacAccept => ag.state = "S_IDLE"
        BY AcceptQuiet
    <2> QED BY <1>1, <1>3, <1>4, <1>5, <2>1, CtrlInvStep
<1>9. /\ ld.state # "S_IDLE" => be_sel_r = "mac"
      /\ Newer => be_sel_r = "mac"
    BY <1>1 DEF SchedInv, MacQuiet, Newer, InPe
<1>10. be_sel_r = "mac" => RouterMoves
    BY RouterStep
<1>11. LdMoves
    BY <1>9, LdStep
<1>12. LdPosMoves
    BY <1>3, <1>5, <1>6, <1>11, LdPosStep
<1>13. LdTypes' /\ Spaced'
    BY <1>2, <1>11, LdTypesStep, SpacedStep
<1>14. DrainInv'
    BY <1>1, <1>3, <1>11, DrainInvStep
<1>15. LdInv'
    BY <1>1, <1>3, <1>5, <1>6, <1>10, <1>11, LdInvStep
<1>16. VecPorts /\ VecMoves
    BY VecPortsStep, VecStep
<1>17. SchedMoves(qv, qc)
    BY SchedStep
<1>18. VecTypes' /\ VecTypesMoves(qv, qc)
    BY <1>16, <1>17, VecTypesStep
<1>19. VecInv'
    BY <1>1, <1>2, <1>3, <1>11, <1>16, <1>17, VecInvStep
<1>20. SchedInv'
    BY <1>2, <1>3, <1>11, <1>16, <1>17, SchedInvStep
<1>21. CoreTypes'
    BY <1>7, <1>13, <1>18 DEF CoreTypes
<1>22. SumInv' /\ StagesInv' /\ SkidInv' /\ HistoryInv'
    <2>1. WriteMoves /\ written' = written \o Write
        BY <1>18, WriteStep DEF VecTypesMoves
    <2>2. CASE MacAccept
        <3>1. SumInv' /\ StagesInv' /\ SkidInv' /\ MacWritten' = 0
            BY <1>2, <1>12, <2>2, AcceptStep
        <3>2. sched_state = "S_ISSUE"
            BY <2>2, AcceptQuiet
        <3>3. sched_state' = "S_WAIT" /\ ctrl'.cmd_r = sched_cmd_r
            BY <1>5, <1>17, <2>2, <3>2 DEF SchedMoves, CtrlPosMoves
        <3>4. expected' = expected
            BY <1>18, <3>2 DEF VecTypesMoves
        <3>5. HistoryInv'
            BY <1>1, <1>16, <2>1, <2>2, <3>1, <3>3, <3>4, MacTakesHistory
        <3> QED BY <3>1, <3>5
    <2>3. CASE ~MacAccept
        <3>1. OutMoves
            BY <1>2, <1>12, <2>3, OutStep
        <3>2. ctrl'.cmd_r = ctrl.cmd_r
            BY <1>5, <2>3 DEF CtrlPosMoves
        <3>3. Newer => RouterMoves
            BY <1>9, <1>10
        <3>4. ld.state = "S_DONE" => RouterMoves
            BY <1>9, <1>10
        <3>5. SumInv'
            BY <1>1, <1>2, <1>12, <2>3, <3>1, <3>2, SumStep
        <3>6. StagesInv'
            BY <1>1, <1>2, <2>3, <3>1, <3>2, <3>3, <3>4, StagesInvStep
        <3>7. SkidInv'
            BY <1>2, <2>3, <3>1, <3>2, SkidStep
        <3>8. HistoryInv'
            <4>1. CASE VecTakes
                <5>1. /\ sched_state = "S_ISSUE" /\ IsVec(sched_cmd_r)
                      /\ sched_state' = "S_WAIT"
                    BY <1>17, <4>1 DEF SchedMoves
                <5>2. expected' = expected
                    BY <1>18, <5>1 DEF VecTypesMoves
                <5>3. MacQuiet'
                    BY <1>2, <1>3, <1>1, <1>11, <2>3, <5>1, QuietStep DEF SchedInv, MacQuiet
                <5> QED BY <1>1, <1>7, <1>8, <1>16, <2>1, <4>1, <5>1, <5>2, <5>3,
                           VecTakesHistory
            <4>2. CASE ~VecTakes /\ sched_state = "S_IDLE" /\ qv
                <5>1. /\ sched_state' = "S_ISSUE" /\ sched_cmd_r' = qc
                      /\ expected' = expected \o ExpectedOf(qc)
                    BY <1>17, <1>18, <4>2 DEF SchedMoves, VecTypesMoves
                <5>2. MacQuiet'
                    BY <1>20, <5>1 DEF SchedInv
                <5> QED BY <1>1, <1>7, <1>8, <1>16, <2>1, <2>3, <3>1, <3>2, <4>2, <5>1,
                           <5>2, TakeHistory
            <4>3. CASE ~VecTakes /\ ~(sched_state = "S_IDLE" /\ qv)
                <5>1. sched_state # "S_ISSUE"
                    BY <1>17, <2>3, <4>3 DEF SchedMoves
                <5>2. sched_state \in {"S_IDLE", "S_ISSUE", "S_WAIT"}
                    BY <1>1 DEF CoreTypes, VecTypes
                <5>3. sched_state' # "S_ISSUE"
                    BY <1>17, <4>3, <5>1, <5>2 DEF SchedMoves
                <5>4. expected' = expected
                    BY <1>18, <4>3 DEF VecTypesMoves
                <5> QED BY <1>1, <1>16, <2>1, <2>3, <3>1, <3>2, <4>3, <5>1, <5>3, <5>4,
                           WorkHistory
            <4> QED BY <4>1, <4>2, <4>3
        <3> QED BY <3>5, <3>6, <3>7, <3>8
    <2> QED BY <2>2, <2>3
<1> QED BY <1>8, <1>13, <1>14, <1>15, <1>19, <1>20, <1>21, <1>22 DEF CoreInv

\* A reset core.
LEMMA InitInv ==
  ASSUME Init
  PROVE  CoreInv
<1>1. ZeroCmd \in Cmd /\ Outs(ZeroCmd) \in Nat \ {0} /\ Inner(ZeroCmd) \in Nat \ {0}
    BY ZeroCmdAssumption, ShapeAssumption
<1>2. /\ Operand(ZeroCmd, 0, 0) \in Operands /\ Element(ZeroCmd, 0) \in Elements
      /\ ZeroMeta \in Metas
    BY <1>1 DEF Operand, Operands, Element, Elements, ZeroMeta, Metas
<1>3. CtrlTypes
    BY <1>1, <1>2, MacKindsAssumption DEF Init, MacInit, CtrlTypes
<1>4. LdTypes
    BY <1>2 DEF Init, MacInit, LdTypes
<1>5. VecTypes
    BY <1>1, CoreAssumption DEF Init, SchedInit, VecTypes
<1>6. /\ ctrl.state = "IDLE" /\ ~ctrl_finished /\ ag.state = "S_IDLE" /\ ld.state = "S_IDLE"
      /\ pe = Nothing /\ ~InPe /\ ~InAcc /\ ~InBias /\ ~InAct /\ ~InQuant /\ ~InWriter
      /\ ~InAck /\ skid = <<>> /\ ctrl.cmd_r = ZeroCmd
    BY DEF Init, MacInit, InPe, InAcc, InBias, InAct, InQuant, InWriter, InAck, Nothing
<1>7. /\ vec.state = "S_IDLE" /\ be_sel_r = "mac" /\ sched_state = "S_IDLE"
      /\ bias_pending_r = Nothing /\ Len(written) = 0 /\ Len(expected) = 0
    BY DEF Init, SchedInit
<1>8. LdOut = Outs(ZeroCmd) /\ LdInn = 0
    BY <1>6 DEF LdOut, LdInn, AgOut, AgInn, CtrlOut, CtrlInn
<1>9. Spaced /\ CtrlInv /\ DrainInv /\ LdInv
    BY <1>6 DEF Spaced, CtrlInv, DrainInv, LdInv
<1>10. SumInv /\ StagesInv /\ SkidInv
    BY <1>6, <1>8 DEF SumInv, StagesInv, SkidInv
<1>11. MacQuiet /\ VecInv /\ SchedInv
    BY <1>6, <1>7 DEF MacQuiet, VecInv, SchedInv, DrainingInv
<1>12. MacWritten = Outs(ZeroCmd) /\ MacOwes = 0 /\ VecOwes = 0 /\ IssueOwes = 0
    BY <1>1, <1>6, <1>7, <1>8 DEF MacWritten, MacOwes, VecOwes, IssueOwes, Newer, Older
<1>13. HistoryInv
    BY <1>1, <1>7, <1>12 DEF HistoryInv
<1> QED BY <1>3, <1>4, <1>5, <1>9, <1>10, <1>11, <1>13 DEF CoreInv, CoreTypes

\* A stutter changes nothing.
LEMMA StutterKeepsInv ==
  ASSUME CoreInv, UNCHANGED vars
  PROVE  CoreInv'
<1> USE DEF CoreInv
<1>1. /\ UNCHANGED <<mac_kind, ctrl, ag, ld, iter_r, load_r, d_r, seen_r, pe, acc_r, bias_val,
                     pp_trigger_r, pp, skid, writer, ctrl_finished>>
      /\ UNCHANGED <<sched_state, sched_cmd_r, vec, be_sel_r, act_rsp, wt_rsp, bias_was_sel,
                     bias_pending_r, since_done, issued, expected, written>>
    BY DEF vars, macVars, schedVars, coreVars
<1>2. CoreTypes'
    BY <1>1 DEF CoreTypes, CtrlTypes, LdTypes, VecTypes
<1>3. /\ InPe' = InPe /\ InAcc' = InAcc /\ InBias' = InBias /\ InAct' = InAct
      /\ InQuant' = InQuant /\ InWriter' = InWriter /\ InAck' = InAck
      /\ Loaded' = Loaded /\ Unloaded' = Unloaded /\ SumNow' = SumNow
    BY <1>1 DEF InPe, InAcc, InBias, InAct, InQuant, InWriter, InAck, Loaded, Unloaded, SumNow
<1>4. CtrlOut' = CtrlOut /\ CtrlInn' = CtrlInn
    BY <1>1 DEF CtrlOut, CtrlInn
<1>5. AgOut' = AgOut /\ AgInn' = AgInn
    BY <1>1, <1>4 DEF AgOut, AgInn
<1>6. LdOut' = LdOut /\ LdInn' = LdInn
    BY <1>1, <1>5 DEF LdOut, LdInn
<1>7. Newer' = Newer /\ Older' = Older
    BY <1>3 DEF Newer, Older
<1>8. NewerOut' = NewerOut /\ OlderOut' = OlderOut /\ MacWritten' = MacWritten
    BY <1>6, <1>7 DEF NewerOut, OlderOut, MacWritten
<1>9. Spaced'
    BY <1>1, <1>3 DEF Spaced
<1>10. CtrlInv'
    BY <1>1, <1>4 DEF CtrlInv
<1>11. DrainInv'
    BY <1>1 DEF DrainInv
<1>12. LdInv'
    BY <1>1, <1>3, <1>5 DEF LdInv
<1>13. SumInv'
    BY <1>1, <1>3, <1>6, <1>8 DEF SumInv
<1>14. StagesInv'
    BY <1>1, <1>3, <1>8 DEF StagesInv
<1>15. SkidInv'
    BY <1>1, <1>3, <1>8 DEF SkidInv
<1>16. MacQuiet' = MacQuiet
    BY <1>1, <1>3 DEF MacQuiet
<1>17. VecInv'
    BY <1>1, <1>16 DEF VecInv, vec_addr
<1>18. DrainingInv' = DrainingInv
    BY <1>1, <1>3 DEF DrainingInv
<1>19. SchedInv'
    BY <1>1, <1>16, <1>18 DEF SchedInv
<1>20. MacOwes' = MacOwes /\ VecOwes' = VecOwes /\ IssueOwes' = IssueOwes
    BY <1>1, <1>8 DEF MacOwes, VecOwes, IssueOwes
<1>21. HistoryInv'
    BY <1>1, <1>8, <1>20 DEF HistoryInv
<1> QED BY <1>2, <1>9, <1>10, <1>11, <1>12, <1>13, <1>14, <1>15, <1>17, <1>19, <1>21

\* The invariant holds in every reachable state when the next command comes no
\* earlier than seven cycles after a done pulse.
THEOREM CoreInvHolds ==
  ASSUME Gap >= 7
  PROVE  Spec => []CoreInv
<1>1. Init => CoreInv
    BY InitInv
<1>2. CoreInv /\ [Next]_vars => CoreInv'
    <2> SUFFICES ASSUME CoreInv, [Next]_vars PROVE CoreInv'
        OBVIOUS
    <2>1. CASE CoreClk(FALSE, ZeroCmd)
        BY <2>1, ZeroCmdAssumption, ClockKeepsInv
    <2>2. CASE \E c \in Cmd : CoreClk(TRUE, c)
        <3>1. PICK c \in Cmd : CoreClk(TRUE, c)
            BY <2>2
        <3> QED BY <3>1, ClockKeepsInv
    <2>3. CASE UNCHANGED vars
        BY <2>3, StutterKeepsInv
    <2> QED BY <2>1, <2>2, <2>3 DEF Next
<1> QED BY <1>1, <1>2, PTL DEF Spec

-----------------------------------------------------------------------------
LEMMA OwesAreNatural ==
  ASSUME CoreInv
  PROVE  /\ MacOwes \in Nat /\ VecOwes \in Nat /\ IssueOwes \in Nat
         /\ Len(written) \in Nat /\ Len(expected) \in Nat
<1> USE DEF CoreInv
<1>1. /\ vec.state \in {"S_IDLE", "S_LOAD_CFG", "S_READ", "S_WAIT", "S_WRITE", "S_DONE"}
      /\ vec.idx \in Nat /\ Outs(vec.cmd_r) \in Nat /\ Outs(sched_cmd_r) \in Nat
      /\ Len(written) \in Nat /\ Len(expected) \in Nat
    BY ShapeAssumption DEF CoreTypes, VecTypes
<1>2. VecOwes \in Nat
    BY <1>1 DEF VecInv, VecOwes
<1>3. IssueOwes \in Nat
    BY <1>1 DEF IssueOwes
<1> QED BY <1>1, <1>2, <1>3 DEF HistoryInv

\* Every result the convolution, matrix or vector backend writes is the right one, in
\* order and once: the registers that carry the write address, the bias and the last
\* flag of conv_backend.sv beside its pipeline stay in step with the data for
\* every shape and padding, and the selector be_sel_r of npu_core.sv never lets
\* an answer or a write of one command into another.
THEOREM PipelineIsCorrect ==
  ASSUME Gap >= 7
  PROVE  Spec => []ResultsCorrect
<1>1. CoreInv => ResultsCorrect
    <2> SUFFICES ASSUME CoreInv PROVE ResultsCorrect
        OBVIOUS
    <2>1. /\ written \in Seq(AnyResult) /\ expected \in Seq(AnyResult)
          /\ Len(expected) = Len(written) + MacOwes + VecOwes + IssueOwes
          /\ \A n \in 1 .. Len(written) : written[n] = expected[n]
        BY DEF CoreInv, CoreTypes, VecTypes, HistoryInv
    <2>2. Len(written) <= Len(expected) /\ Len(written) \in Nat
        BY <2>1, OwesAreNatural
    <2>3. PICK w, e : w = written /\ e = expected
        OBVIOUS
    <2>4. /\ w \in Seq(AnyResult) /\ e \in Seq(AnyResult) /\ Len(w) <= Len(e) /\ Len(w) \in Nat
          /\ \A n \in 1 .. Len(w) : w[n] = e[n]
        BY <2>1, <2>2, <2>3
    <2>5. SubSeq(w, 1, Len(w)) = SubSeq(e, 1, Len(w))
        <3>1. SubSeq(w, 1, Len(w)) = [i \in 1 .. Len(w) |-> w[i]]
            BY <2>4
        <3>2. SubSeq(e, 1, Len(w)) = [i \in 1 .. Len(w) |-> e[i]]
            BY <2>4
        <3> QED BY <2>4, <3>1, <3>2
    <2> QED BY <2>3, <2>4, <2>5 DEF ResultsCorrect, IsPrefix
<1> QED BY <1>1, CoreInvHolds, PTL

\* The early done pulse of conv_backend.sv does no harm to a host that waits for
\* each completion: when the next command is dispatched, every result of the earlier ones
\* has left the pipeline, and what is still to be written is the command's own.
THEOREM CommandsFindItDrained ==
  ASSUME Gap >= 7
  PROVE  Spec => []DrainedByNextCommand
<1>1. CoreInv => DrainedByNextCommand
    <2> SUFFICES ASSUME CoreInv, sched_state = "S_ISSUE"
                 PROVE  expected = written \o ExpectedOf(Last(issued))
        BY DEF DrainedByNextCommand, dispatch_valid
    <2>1. Last(issued) = sched_cmd_r /\ sched_cmd_r \in Cmd
        BY DEF CoreInv, SchedInv, Last, CoreTypes, VecTypes
    <2>2. PICK w, e, x : w = written /\ e = expected /\ x = ExpectedOf(sched_cmd_r)
        OBVIOUS
    <2>3. /\ w \in Seq(AnyResult) /\ e \in Seq(AnyResult) /\ x \in Seq(AnyResult)
          /\ Len(x) = Outs(sched_cmd_r) /\ Len(w) \in Nat /\ Len(x) \in Nat
        BY <2>1, <2>2, ExpectedTypes, ExpectedIs, ShapeAssumption
        DEF CoreInv, CoreTypes, VecTypes
    <2>4. /\ Len(e) = Len(w) + Len(x)
          /\ \A n \in 1 .. Len(w) : w[n] = e[n]
          /\ \A n \in 1 .. Len(x) : e[Len(w) + n] = ExpectedAt(mac_kind, sched_cmd_r, n - 1)
        BY <2>2, <2>3, IssueOwed
    <2>5. \A n \in 1 .. Len(x) : e[Len(w) + n] = x[n]
        <3>1. \A n \in 1 .. Outs(sched_cmd_r) :
                ExpectedOf(sched_cmd_r)[n] = ExpectedAt(mac_kind, sched_cmd_r, n - 1)
            BY <2>1, ExpectedIs
        <3> QED BY <2>2, <2>3, <2>4, <3>1
    <2>6. /\ w \o x \in Seq(AnyResult) /\ Len(w \o x) = Len(w) + Len(x)
          /\ \A i \in 1 .. Len(w) + Len(x) :
               (w \o x)[i] = IF i <= Len(w) THEN w[i] ELSE x[i - Len(w)]
        BY <2>3, ConcatProperties
    <2>7. \A i \in 1 .. Len(e) : e[i] = (w \o x)[i]
        <3> TAKE i \in 1 .. Len(e)
        <3>1. CASE i <= Len(w)
            BY <2>3, <2>4, <2>6, <3>1
        <3>2. CASE ~(i <= Len(w))
            <4>1. i - Len(w) \in 1 .. Len(x) /\ Len(w) + (i - Len(w)) = i
                BY <2>3, <2>4, <3>2
            <4>2. e[i] = x[i - Len(w)]
                BY <2>5, <4>1
            <4> QED BY <2>4, <2>6, <3>2, <4>2
        <3> QED BY <3>1, <3>2
    <2>8. PICK t : t = w \o x
        OBVIOUS
    <2>9. t \in Seq(AnyResult) /\ Len(t) = Len(e) /\ \A i \in 1 .. Len(e) : e[i] = t[i]
        BY <2>4, <2>6, <2>7, <2>8
    <2>10. e = t
        BY <2>3, <2>9, SeqEqual
    <2> QED BY <2>1, <2>2, <2>8, <2>10
<1> QED BY <1>1, CoreInvHolds, PTL

\* No stage behind the processing element holds another up: each is empty when
\* the one before it hands over, and a write address always finds room.
NeverStalls ==
    /\ pp_ready(1) /\ pp_ready(2) /\ pp_ready(3)
    /\ pp_trigger => wr_addr_in_ready

\* The backpressure of postproc.sv and of the address buffer of
\* conv_backend.sv is never used: the loader needs three cycles for a product,
\* and the writer two for a result.
THEOREM StagesNeverStall ==
  ASSUME Gap >= 7
  PROVE  Spec => []NeverStalls
<1>1. CoreInv => NeverStalls
    BY PipeWires DEF CoreInv, NeverStalls
<1> QED BY <1>1, CoreInvHolds, PTL

\* The inductive half of PortNeverContended: no bias read waits.
NoneDeferred == bias_pending_r = Nothing

\* The room npu_buffer_router.sv has for a deferred bias read is never used,
\* whatever the distance between commands.
THEOREM PortIsFree == Spec => []PortNeverContended
<1>1. Init => NoneDeferred
    BY DEF Init, NoneDeferred
<1>2. NoneDeferred /\ [Next]_vars => NoneDeferred'
    <2> SUFFICES ASSUME NoneDeferred, [Next]_vars PROVE NoneDeferred'
        OBVIOUS
    <2>1. CASE RouterClk
        BY <2>1, OneReadAtATime DEF RouterClk, NoneDeferred
    <2>2. CASE UNCHANGED vars
        BY <2>2 DEF vars, coreVars, NoneDeferred
    <2> QED BY <2>1, <2>2 DEF Next, CoreClk
<1>3. NoneDeferred => PortNeverContended
    BY OneReadAtATime DEF PortNeverContended, NoneDeferred
<1> QED BY <1>1, <1>2, <1>3, PTL DEF Spec

=============================================================================
