--------------------------- MODULE BackendsProofs ---------------------------
(***************************************************************************)
(* The handshake of the six backends, from the states of the controllers   *)
(* and the flag ctrl_finished of the two pipelines alone.  The invariant   *)
(* Handshake says that the scheduler waits exactly while the selected      *)
(* backend has a command it has not reported, and that results are on      *)
(* their way in the selected backend only, never when a command is issued. *)
(* From it, the four serial controllers implement SerialBackend.           *)
(*                                                                         *)
(* The second half follows their registers.  WidthInv says that what is    *)
(* read and written are bytes, that loops stay inside the dimensions of    *)
(* the command and, for lnorm_ctrl, what the serial divider and the serial *)
(* root have worked out when some of their cycles are still to come.       *)
(***************************************************************************)
EXTENDS Backends, SequenceTheorems, TLAPS

Working(s) == s # "S_IDLE" /\ s # "S_DONE"

\* What a clock may do to the state of a serial controller that has the ports.
Moved(s, t) ==
    \/ Working(s) /\ Working(t)
    \/ Working(s) /\ t = "S_DONE"
    \/ s = "S_DONE" /\ t = "S_IDLE"

\* What it does to a controller that takes a command.
Taken(s, t) == s = "S_IDLE" /\ Working(t)

\* Every register file of a serial controller has a state.
Registers ==
    /\ "state" \in DOMAIN smax /\ "state" \in DOMAIN vec
    /\ "state" \in DOMAIN ln /\ "state" \in DOMAIN pl

\* The done of a pipeline's controller is remembered only once it is idle.
MacFields == {"state", "sums", "pipe", "ctrl_finished"}

MacOK(x) ==
    /\ MacFields \subseteq DOMAIN x
    /\ x.ctrl_finished \in BOOLEAN
    /\ x.ctrl_finished => x.state = "IDLE"

\* A backend has reported the done of every command it took.
Quiet(x) == x.state = "IDLE" /\ ~ x.ctrl_finished

Reported(b) ==
    CASE b = "conv" -> Quiet(cv)
      [] b = "gemm" -> Quiet(gm)
      [] OTHER -> ctrl_state[b] = "S_IDLE"

\* The inductive invariant.
Handshake ==
    /\ Registers /\ MacOK(cv) /\ MacOK(gm)
    /\ SchedTypeOK
    /\ be_sel_r \in Backend
    /\ be_cmd_r \in [Backend -> Cmd]
    /\ \A b \in Backend : Reported(b) <=> ~(b = be_sel_r /\ sched_state = "S_WAIT")
    /\ \A b \in Backend : InFlight(b) => b = be_sel_r /\ sched_state # "S_ISSUE"

-----------------------------------------------------------------------------
\* vec_ctrl.sv: a clock of the controller that has the ports.
LEMMA VecMoves ==
    ASSUME "state" \in DOMAIN vec, VecStep
    PROVE  "state" \in DOMAIN vec' /\ Moved(vec.state, vec'.state)
<1> USE DEF VecAt, Moved, Working
<1>1. CASE VecLoadCfg
    BY <1>1 DEF VecLoadCfg
<1>2. CASE VecRead
    BY <1>2 DEF VecRead
<1>3. CASE VecWait
    BY <1>3 DEF VecWait
<1>4. CASE VecWrite
    BY <1>4 DEF VecWrite
<1>5. CASE VecDone
    BY <1>5 DEF VecDone
<1> QED BY <1>1, <1>2, <1>3, <1>4, <1>5 DEF VecStep

\* vec_ctrl.sv: an idle controller takes a command.
LEMMA VecTakes ==
    ASSUME NEW c, "state" \in DOMAIN vec, VecAccept(c)
    PROVE  "state" \in DOMAIN vec' /\ Taken(vec.state, vec'.state)
BY DEF VecAccept, VecAt, Taken, Working

\* softmax_ctrl.sv: a clock of the controller that has the ports.
LEMMA SmaxMoves ==
    ASSUME "state" \in DOMAIN smax, SmaxStep
    PROVE  "state" \in DOMAIN smax' /\ Moved(smax.state, smax'.state)
<1> USE DEF SmaxAt, Moved, Working
<1>1. CASE SmaxLoadCfg
    BY <1>1 DEF SmaxLoadCfg
<1>2. CASE SmaxFindMax
    BY <1>2 DEF SmaxFindMax
<1>3. CASE SmaxExpSum
    BY <1>3 DEF SmaxExpSum
<1>4. CASE SmaxNormRead
    BY <1>4 DEF SmaxNormRead
<1>5. CASE SmaxNormWait
    BY <1>5 DEF SmaxNormWait
<1>6. CASE SmaxNormDiv
    BY <1>6 DEF SmaxNormDiv
<1>7. CASE SmaxNormWrite
    BY <1>7 DEF SmaxNormWrite
<1>8. CASE SmaxDone
    BY <1>8 DEF SmaxDone
<1> QED BY <1>1, <1>2, <1>3, <1>4, <1>5, <1>6, <1>7, <1>8 DEF SmaxStep

\* softmax_ctrl.sv: an idle controller takes a command.
LEMMA SmaxTakes ==
    ASSUME NEW c, "state" \in DOMAIN smax, SmaxAccept(c)
    PROVE  "state" \in DOMAIN smax' /\ Taken(smax.state, smax'.state)
BY DEF SmaxAccept, SmaxAt, Taken, Working

\* lnorm_ctrl.sv: a clock of the controller that has the ports.
LEMMA LnormMoves ==
    ASSUME NEW c, "state" \in DOMAIN ln, LnormStep(c)
    PROVE  "state" \in DOMAIN ln' /\ Moved(ln.state, ln'.state)
<1> USE DEF LnormAt, Moved, Working
<1>1. CASE LnormLoadCfg(c)
    BY <1>1 DEF LnormLoadCfg
<1>2. CASE LnormRead
    BY <1>2 DEF LnormRead
<1>3. CASE LnormSumWait
    BY <1>3 DEF LnormSumWait
<1>4. CASE LnormMeanDiv
    BY <1>4 DEF LnormMeanDiv
<1>5. CASE LnormVarWait
    BY <1>5 DEF LnormVarWait
<1>6. CASE LnormVarDiv
    BY <1>6 DEF LnormVarDiv
<1>7. CASE LnormSqrt
    BY <1>7 DEF LnormSqrt
<1>8. CASE LnormNormWait
    BY <1>8 DEF LnormNormWait
<1>9. CASE LnormNormDiv
    BY <1>9 DEF LnormNormDiv
<1>10. CASE LnormNormWrite
    BY <1>10 DEF LnormNormWrite, LnormNextRow
<1>11. CASE LnormDone
    BY <1>11 DEF LnormDone
<1> QED BY <1>1, <1>2, <1>3, <1>4, <1>5, <1>6, <1>7, <1>8, <1>9, <1>10, <1>11 DEF LnormStep

\* lnorm_ctrl.sv: an idle controller takes a command.
LEMMA LnormTakes ==
    ASSUME NEW c, "state" \in DOMAIN ln, LnormAccept(c)
    PROVE  "state" \in DOMAIN ln' /\ Taken(ln.state, ln'.state)
BY DEF LnormAccept, LnormAt, Taken, Working

\* pool_ctrl.sv: a clock of the controller that has the ports.
LEMMA PoolMoves ==
    ASSUME "state" \in DOMAIN pl, PoolStep
    PROVE  "state" \in DOMAIN pl' /\ Moved(pl.state, pl'.state)
<1> USE DEF PoolAt, Moved, Working
<1>1. CASE PoolLoadCfg
    BY <1>1 DEF PoolLoadCfg
<1>2. CASE PoolSkip
    BY <1>2 DEF PoolSkip
<1>3. CASE PoolRead
    BY <1>3 DEF PoolRead
<1>4. CASE PoolWait
    BY <1>4 DEF PoolWait
<1>5. CASE PoolNextCell
    BY <1>5 DEF PoolNextCell
<1>6. CASE PoolWindowEnd
    BY <1>6 DEF PoolWindowEnd
<1>7. CASE PoolAvgDiv
    BY <1>7 DEF PoolAvgDiv
<1>8. CASE PoolWrite
    BY <1>8 DEF PoolWrite, NextOutput
<1>9. CASE PoolDone
    BY <1>9 DEF PoolDone
<1> QED BY <1>1, <1>2, <1>3, <1>4, <1>5, <1>6, <1>7, <1>8, <1>9 DEF PoolStep

\* pool_ctrl.sv: an idle controller takes a command.
LEMMA PoolTakes ==
    ASSUME NEW c, "state" \in DOMAIN pl, PoolAccept(c)
    PROVE  "state" \in DOMAIN pl' /\ Taken(pl.state, pl'.state)
BY DEF PoolAccept, PoolAt, Taken, Working

-----------------------------------------------------------------------------
\* conv_backend.sv and gemm_backend.sv: the end of a cycle of done.
LEMMA LatchedMoves ==
    ASSUME NEW x, MacOK(x)
    PROVE  /\ MacOK(Latched(x))
           /\ Quiet(Latched(x)) <=> Quiet(x) \/ mac_done(x)
<1>1. PICK y : y = Latched(x)
    OBVIOUS
<1>2. /\ DOMAIN y = DOMAIN x
      /\ y.state = IF ctrl_done(x) THEN "IDLE" ELSE x.state
      /\ y.ctrl_finished = (~ mac_done(x) /\ (x.ctrl_finished \/ ctrl_done(x)))
    BY <1>1 DEF Latched, MacOK, MacFields
<1>3. MacOK(y)
    BY <1>2 DEF MacOK, ctrl_done
<1>4. y.ctrl_finished <=> ~ mac_done(x) /\ (x.ctrl_finished \/ ctrl_done(x))
    BY <1>2
<1>5. Quiet(y) <=> Quiet(x) \/ mac_done(x)
    <2>1. CASE ctrl_done(x)
        <3>1. y.state = "IDLE" /\ x.state # "IDLE"
            BY <1>2, <2>1 DEF ctrl_done
        <3> QED BY <1>4, <2>1, <3>1 DEF Quiet
    <2>2. CASE ~ ctrl_done(x) /\ x.ctrl_finished
        <3>1. y.state = "IDLE"
            BY <1>2, <2>2 DEF MacOK
        <3> QED BY <1>4, <2>2, <3>1 DEF Quiet
    <2>3. CASE ~ ctrl_done(x) /\ ~ x.ctrl_finished
        <3>1. y.state = x.state /\ ~ mac_done(x)
            BY <1>2, <2>3 DEF mac_done
        <3> QED BY <1>4, <2>3, <3>1 DEF Quiet
    <2> QED BY <2>1, <2>2, <2>3
<1> QED BY <1>1, <1>3, <1>5

\* The queues of results do not matter to the handshake.
LEMMA MacSame ==
    ASSUME NEW x, NEW y, MacOK(x), DOMAIN y = DOMAIN x,
           y.state = x.state, y.ctrl_finished = x.ctrl_finished
    PROVE  MacOK(y) /\ (Quiet(y) <=> Quiet(x))
BY DEF MacOK, Quiet

\* pp_trigger and the write of a result.
LEMMA ResultMoves ==
    ASSUME NEW x, MacOK(x), NEW y, y = Triggered(x) \/ y = Written(x)
    PROVE  MacOK(y) /\ (Quiet(y) <=> Quiet(x) \/ mac_done(x))
<1>1. PICK l : l = Latched(x)
    OBVIOUS
<1>2. MacOK(l) /\ (Quiet(l) <=> Quiet(x) \/ mac_done(x))
    BY <1>1, LatchedMoves
<1>3. DOMAIN y = DOMAIN l /\ y.state = l.state /\ y.ctrl_finished = l.ctrl_finished
    <2>1. PICK q, p : y = [l EXCEPT !.sums = q, !.pipe = p] \/ y = [l EXCEPT !.pipe = p]
        BY <1>1 DEF Triggered, Written
    <2> QED BY <1>2, <2>1 DEF MacOK, MacFields
<1> QED BY <1>2, <1>3, MacSame

\* A controller that is neither idle nor done stays so, or goes to done.
LEMMA ComputeMoves ==
    ASSUME NEW x, MacOK(x), x.state \in {"LOAD_CFG", "COMPUTE", "DRAIN"},
           NEW y, DOMAIN y = DOMAIN x, y.ctrl_finished = x.ctrl_finished,
           y.state \in {"COMPUTE", "DRAIN", "DONE"}
    PROVE  MacOK(y) /\ (Quiet(y) <=> Quiet(x) \/ mac_done(x))
BY DEF MacOK, Quiet, mac_done, ctrl_done

\* conv_backend.sv: a clock of the backend that has the ports.
LEMMA ConvMoves ==
    ASSUME MacOK(cv), ConvStep
    PROVE  MacOK(cv') /\ (Quiet(cv') <=> Quiet(cv) \/ mac_done(cv))
<1>1. CASE ConvLoadCfg
    <2>1. /\ cv.state = "LOAD_CFG" /\ cv'.state = "COMPUTE"
          /\ DOMAIN cv' = DOMAIN cv /\ cv'.ctrl_finished = cv.ctrl_finished
        BY <1>1 DEF ConvLoadCfg, MacOK, MacFields
    <2> QED BY <2>1, ComputeMoves
<1>2. CASE ConvCompute
    <2>1. PICK y : y = ConvNextProduct(cv)
        OBVIOUS
    <2>2. DOMAIN y = DOMAIN cv /\ y.ctrl_finished = cv.ctrl_finished /\ y.state = cv.state
        BY <2>1 DEF ConvNextProduct, ConvNextOutput
    <2>3. PICK sum, r :
              cv' = [y EXCEPT !.state = IF conv_inner_last(cv) /\ conv_outer_last(cv)
                                        THEN "DRAIN" ELSE @,
                              !.acc_r = sum,
                              !.wr_addr_iter_r = IF conv_inner_last(cv) THEN conv_wr_addr(cv) ELSE @,
                              !.first_last_inner_seen_r = @ \/ conv_inner_last(cv),
                              !.sums = IF conv_inner_last(cv) THEN Append(@, r) ELSE @]
        BY <1>2, <2>1 DEF ConvCompute
    <2>4. cv.state = "COMPUTE"
        BY <1>2 DEF ConvCompute
    <2>5. /\ DOMAIN cv' = DOMAIN cv /\ cv'.ctrl_finished = cv.ctrl_finished
          /\ cv'.state \in {"COMPUTE", "DRAIN"}
        BY <2>2, <2>3, <2>4 DEF MacOK, MacFields
    <2> QED BY <2>4, <2>5, ComputeMoves
<1>3. CASE ConvTrigger
    BY <1>3, ResultMoves DEF ConvTrigger
<1>4. CASE ConvWrite
    BY <1>4, ResultMoves DEF ConvWrite
<1>5. CASE ConvDrain
    <2>1. /\ cv.state = "DRAIN" /\ cv'.state = "DONE"
          /\ DOMAIN cv' = DOMAIN cv /\ cv'.ctrl_finished = cv.ctrl_finished
        BY <1>5 DEF ConvDrain, MacOK, MacFields
    <2> QED BY <2>1, ComputeMoves
<1>6. CASE ConvDone
    BY <1>6, LatchedMoves DEF ConvDone
<1> QED BY <1>1, <1>2, <1>3, <1>4, <1>5, <1>6 DEF ConvStep

\* conv_backend.sv: the controller takes a command; if the backend had reported
\* the last one it now has one to report.
LEMMA ConvTakes ==
    ASSUME NEW c, MacOK(cv), Quiet(cv), ConvAccept(c)
    PROVE  MacOK(cv') /\ ~ Quiet(cv')
BY DEF ConvAccept, MacOK, MacFields, Quiet

\* gemm_backend.sv: a clock of the backend that has the ports.
LEMMA GemmMoves ==
    ASSUME MacOK(gm), GemmStep
    PROVE  MacOK(gm') /\ (Quiet(gm') <=> Quiet(gm) \/ mac_done(gm))
<1>1. CASE GemmLoadCfg
    <2>1. /\ gm.state = "LOAD_CFG" /\ gm'.state = "COMPUTE"
          /\ DOMAIN gm' = DOMAIN gm /\ gm'.ctrl_finished = gm.ctrl_finished
        BY <1>1 DEF GemmLoadCfg, MacOK, MacFields
    <2> QED BY <2>1, ComputeMoves
<1>2. CASE GemmCompute
    <2>1. PICK y : y = GemmNextProduct(gm)
        OBVIOUS
    <2>2. DOMAIN y = DOMAIN gm /\ y.ctrl_finished = gm.ctrl_finished /\ y.state = gm.state
        BY <2>1 DEF GemmNextProduct
    <2>3. PICK s, a, q :
              /\ gm' = [y EXCEPT !.state = s, !.acc_r = a, !.sums = q]
              /\ s = "DRAIN" \/ s = y.state
        BY <1>2, <2>1 DEF GemmCompute
    <2>4. gm.state = "COMPUTE"
        BY <1>2 DEF GemmCompute
    <2>5. /\ DOMAIN gm' = DOMAIN gm /\ gm'.ctrl_finished = gm.ctrl_finished
          /\ gm'.state \in {"COMPUTE", "DRAIN"}
        BY <2>2, <2>3, <2>4 DEF MacOK, MacFields
    <2> QED BY <2>4, <2>5, ComputeMoves
<1>3. CASE GemmTrigger
    BY <1>3, ResultMoves DEF GemmTrigger
<1>4. CASE GemmWrite
    BY <1>4, ResultMoves DEF GemmWrite
<1>5. CASE GemmDrain
    <2>1. /\ gm.state = "DRAIN" /\ gm'.state = "DONE"
          /\ DOMAIN gm' = DOMAIN gm /\ gm'.ctrl_finished = gm.ctrl_finished
        BY <1>5 DEF GemmDrain, MacOK, MacFields
    <2> QED BY <2>1, ComputeMoves
<1>6. CASE GemmDone
    BY <1>6, LatchedMoves DEF GemmDone
<1> QED BY <1>1, <1>2, <1>3, <1>4, <1>5, <1>6 DEF GemmStep

\* gemm_backend.sv: the controller takes a command.
LEMMA GemmTakes ==
    ASSUME NEW c, MacOK(gm), Quiet(gm), GemmAccept(c)
    PROVE  MacOK(gm') /\ ~ Quiet(gm')
BY DEF GemmAccept, MacOK, MacFields, Quiet

-----------------------------------------------------------------------------
\* A backend other than b is as it was.
Others(b) ==
    \A d \in Backend \ {b} : /\ ctrl_state'[d] = ctrl_state[d]
                             /\ Reported(d)' <=> Reported(d)
                             /\ InFlight(d)' <=> InFlight(d)

LEMMA OthersSame ==
    ASSUME NEW b \in Backend,
           b # "conv" => cv' = cv, b # "gemm" => gm' = gm, b # "softmax" => smax' = smax,
           b # "vec" => vec' = vec, b # "lnorm" => ln' = ln, b # "pool" => pl' = pl
    PROVE  Others(b)
<1> SUFFICES ASSUME NEW d \in Backend \ {b}
             PROVE  /\ ctrl_state'[d] = ctrl_state[d]
                    /\ Reported(d)' <=> Reported(d)
                    /\ InFlight(d)' <=> InFlight(d)
    BY DEF Others
<1>1. ctrl_state'[d] = ctrl_state[d]
    BY DEF ctrl_state, Backend
<1>2. d = "conv" => cv' = cv
    OBVIOUS
<1>3. d = "gemm" => gm' = gm
    OBVIOUS
<1>4. Reported(d)' <=> Reported(d)
    BY <1>1, <1>2, <1>3 DEF Reported, Quiet
<1>5. InFlight(d)' <=> InFlight(d)
    BY <1>2, <1>3 DEF InFlight, in_flight
<1> QED BY <1>1, <1>4, <1>5

\* Only the backend that has the ports moves; it has nothing to report after the
\* cycle of its done.
LEMMA StepMoves ==
    ASSUME Registers, MacOK(cv), MacOK(gm), NEW b \in Backend, Step(b)
    PROVE  /\ Registers' /\ MacOK(cv)' /\ MacOK(gm)'
           /\ b \in Serial => Moved(ctrl_state[b], ctrl_state'[b])
           /\ Reported(b)' <=> Reported(b) \/ be_done(b)
           /\ Others(b)
<1>1. CASE b = "conv" /\ ConvStep /\ UNCHANGED <<vec, smax, ln, pl, gm>>
    <2>1. Others(b)
        BY <1>1, OthersSame
    <2>2. MacOK(cv)' /\ (Quiet(cv)' <=> Quiet(cv) \/ mac_done(cv))
        BY <1>1, ConvMoves DEF MacOK, Quiet
    <2>3. Reported(b)' <=> Reported(b) \/ be_done(b)
        BY <1>1, <2>2 DEF Reported, be_done
    <2> QED BY <1>1, <2>1, <2>2, <2>3 DEF Registers, MacOK, Serial
<1>2. CASE b = "gemm" /\ GemmStep /\ UNCHANGED <<vec, smax, ln, pl, cv>>
    <2>1. Others(b)
        BY <1>2, OthersSame
    <2>2. MacOK(gm)' /\ (Quiet(gm)' <=> Quiet(gm) \/ mac_done(gm))
        BY <1>2, GemmMoves DEF MacOK, Quiet
    <2>3. Reported(b)' <=> Reported(b) \/ be_done(b)
        BY <1>2, <2>2 DEF Reported, be_done
    <2> QED BY <1>2, <2>1, <2>2, <2>3 DEF Registers, MacOK, Serial
<1>3. ASSUME b \in Serial, UNCHANGED <<cv, gm>>, Registers', Others(b),
             Moved(ctrl_state[b], ctrl_state'[b])
      PROVE  /\ MacOK(cv)' /\ MacOK(gm)'
             /\ Reported(b)' <=> Reported(b) \/ be_done(b)
    BY <1>3 DEF MacOK, Reported, be_done, Moved, Working, Serial
<1>4. CASE b = "softmax" /\ SmaxStep /\ UNCHANGED <<vec, ln, pl, cv, gm>>
    <2>1. Registers' /\ Moved(ctrl_state[b], ctrl_state'[b])
        BY <1>4, SmaxMoves DEF Registers, ctrl_state
    <2> QED BY <1>3, <1>4, <2>1, OthersSame DEF Serial
<1>5. CASE b = "vec" /\ VecStep /\ UNCHANGED <<smax, ln, pl, cv, gm>>
    <2>1. Registers' /\ Moved(ctrl_state[b], ctrl_state'[b])
        BY <1>5, VecMoves DEF Registers, ctrl_state
    <2> QED BY <1>3, <1>5, <2>1, OthersSame DEF Serial
<1>6. CASE b = "lnorm" /\ LnormStep(conv_to_lnorm_cmd(sched_cmd_r)) /\ UNCHANGED <<vec, smax, pl, cv, gm>>
    <2>1. Registers' /\ Moved(ctrl_state[b], ctrl_state'[b])
        BY <1>6, LnormMoves DEF Registers, ctrl_state
    <2> QED BY <1>3, <1>6, <2>1, OthersSame DEF Serial
<1>7. CASE b = "pool" /\ PoolStep /\ UNCHANGED <<vec, smax, ln, cv, gm>>
    <2>1. Registers' /\ Moved(ctrl_state[b], ctrl_state'[b])
        BY <1>7, PoolMoves DEF Registers, ctrl_state
    <2> QED BY <1>3, <1>7, <2>1, OthersSame DEF Serial
<1> QED BY <1>1, <1>2, <1>4, <1>5, <1>6, <1>7 DEF Step

\* Only the backend a command is routed to takes it, and has then one to report.
LEMMA AcceptTakes ==
    ASSUME Registers, MacOK(cv), MacOK(gm), NEW b \in Backend, Reported(b),
           NEW cmd, Accept(b, cmd)
    PROVE  /\ Registers' /\ MacOK(cv)' /\ MacOK(gm)'
           /\ b \in Serial => Taken(ctrl_state[b], ctrl_state'[b])
           /\ ~ Reported(b)'
           /\ Others(b)
<1>1. CASE b = "conv" /\ ConvAccept(cmd) /\ UNCHANGED <<vec, smax, ln, pl, gm>>
    <2>1. Others(b)
        BY <1>1, OthersSame
    <2>2. MacOK(cv)' /\ ~ Quiet(cv)'
        BY <1>1, ConvTakes DEF MacOK, Quiet, Reported
    <2> QED BY <1>1, <2>1, <2>2 DEF Registers, MacOK, Serial, Reported
<1>2. CASE b = "gemm" /\ GemmAccept(conv_to_gemm_cmd(cmd)) /\ UNCHANGED <<vec, smax, ln, pl, cv>>
    <2>1. Others(b)
        BY <1>2, OthersSame
    <2>2. MacOK(gm)' /\ ~ Quiet(gm)'
        BY <1>2, GemmTakes DEF MacOK, Quiet, Reported
    <2> QED BY <1>2, <2>1, <2>2 DEF Registers, MacOK, Serial, Reported
<1>3. ASSUME b \in Serial, UNCHANGED <<cv, gm>>, Taken(ctrl_state[b], ctrl_state'[b])
      PROVE  MacOK(cv)' /\ MacOK(gm)' /\ ~ Reported(b)'
    BY <1>3 DEF MacOK, Reported, Taken, Working, Serial
<1>4. CASE b = "softmax" /\ SmaxAccept(conv_to_softmax_cmd(cmd)) /\ UNCHANGED <<vec, ln, pl, cv, gm>>
    <2>1. Registers' /\ Taken(ctrl_state[b], ctrl_state'[b])
        BY <1>4, SmaxTakes DEF Registers, ctrl_state
    <2> QED BY <1>3, <1>4, <2>1, OthersSame DEF Serial
<1>5. CASE b = "vec" /\ VecAccept(conv_to_vec_cmd(cmd)) /\ UNCHANGED <<smax, ln, pl, cv, gm>>
    <2>1. Registers' /\ Taken(ctrl_state[b], ctrl_state'[b])
        BY <1>5, VecTakes DEF Registers, ctrl_state
    <2> QED BY <1>3, <1>5, <2>1, OthersSame DEF Serial
<1>6. CASE b = "lnorm" /\ LnormAccept(conv_to_lnorm_cmd(cmd)) /\ UNCHANGED <<vec, smax, pl, cv, gm>>
    <2>1. Registers' /\ Taken(ctrl_state[b], ctrl_state'[b])
        BY <1>6, LnormTakes DEF Registers, ctrl_state
    <2> QED BY <1>3, <1>6, <2>1, OthersSame DEF Serial
<1>7. CASE b = "pool" /\ PoolAccept(conv_to_pool_cmd(cmd)) /\ UNCHANGED <<vec, smax, ln, cv, gm>>
    <2>1. Registers' /\ Taken(ctrl_state[b], ctrl_state'[b])
        BY <1>7, PoolTakes DEF Registers, ctrl_state
    <2> QED BY <1>3, <1>7, <2>1, OthersSame DEF Serial
<1> QED BY <1>1, <1>2, <1>4, <1>5, <1>6, <1>7 DEF Accept

\* npu_dispatch.sv selects a backend for every opcode.
LEMMA RouteIsBackend ==
    ASSUME NEW cmd PROVE Route(cmd) \in Backend
BY DEF Route, Backend

-----------------------------------------------------------------------------
\* After reset every backend is idle and convolution has the ports.
LEMMA HandshakeInit == Init => Handshake
<1> SUFFICES ASSUME Init PROVE Handshake
    OBVIOUS
<1>1. Registers /\ MacOK(cv) /\ MacOK(gm)
    BY DEF Init, VecInit, SmaxInit, LnormInit, PoolInit, MacLoopInit, Registers, MacOK, MacFields
<1>2. Quiet(cv) /\ Quiet(gm) /\ ~ in_flight(cv) /\ ~ in_flight(gm)
    BY DEF Init, MacLoopInit, Quiet, in_flight
<1>3. \A b \in Serial : ctrl_state[b] = "S_IDLE"
    BY DEF Init, VecInit, SmaxInit, LnormInit, PoolInit, ctrl_state, Serial
<1>4. \A b \in Backend : Reported(b) /\ ~ InFlight(b)
    BY <1>2, <1>3 DEF Reported, InFlight, Backend, Serial
<1>5. SchedTypeOK /\ be_sel_r \in Backend /\ be_cmd_r \in [Backend -> Cmd] /\ sched_state = "S_IDLE"
    BY ZeroCmdAssumption DEF Init, SchedInit, SchedTypeOK, Backend
<1> QED BY <1>1, <1>4, <1>5 DEF Handshake

\* The handshake is kept by the scheduler, the dispatcher and every clock of a
\* backend.
LEMMA HandshakeStep == Handshake /\ [Next]_vars => Handshake'
<1> SUFFICES ASSUME Handshake, [Next]_vars PROVE Handshake'
    OBVIOUS
<1>1. ASSUME UNCHANGED <<ctrlVars, be_sel_r, be_cmd_r>>
      PROVE  /\ Registers' /\ MacOK(cv)' /\ MacOK(gm)'
             /\ be_sel_r' \in Backend /\ be_cmd_r' \in [Backend -> Cmd]
             /\ \A b \in Backend : (Reported(b)' <=> Reported(b)) /\ (InFlight(b)' <=> InFlight(b))
    BY <1>1 DEF Handshake, Registers, MacOK, ctrlVars, Reported, Quiet, InFlight, in_flight, ctrl_state
<1>2. ASSUME NEW cmd \in Cmd, Take(cmd) PROVE Handshake'
    <2>1. UNCHANGED <<ctrlVars, be_sel_r, be_cmd_r>> /\ ~ InFlight(be_sel_r)
        BY <1>2 DEF Take
    <2>2. SchedTypeOK' /\ sched_state = "S_IDLE" /\ sched_state' = "S_ISSUE"
        BY <1>2 DEF Take, SchedTake, SchedTypeOK
    <2> QED BY <1>1, <2>1, <2>2 DEF Handshake
<1>3. CASE NoCommand
    <2>1. UNCHANGED <<ctrlVars, be_sel_r, be_cmd_r>>
        BY <1>3 DEF NoCommand
    <2>2. SchedTypeOK' /\ sched_state' = sched_state
        BY <1>3 DEF NoCommand, SchedHold, schedVars, SchedTypeOK, Handshake
    <2> QED BY <1>1, <2>1, <2>2 DEF Handshake
<1>4. CASE Dispatch
    <2>1. PICK b \in Backend : b = Route(sched_cmd_r)
        BY RouteIsBackend
    <2>2. Accept(b, sched_cmd_r) /\ SchedIssue(be_ready(b))
          /\ be_sel_r' = b /\ be_cmd_r' = [be_cmd_r EXCEPT ![b] = sched_cmd_r]
        BY <1>4, <2>1 DEF Dispatch
    <2>3. sched_state = "S_ISSUE" /\ sched_state' = "S_WAIT" /\ SchedTypeOK'
        BY <2>2 DEF SchedIssue, SchedTypeOK, Handshake
    <2>4. \A d \in Backend : Reported(d) /\ ~ InFlight(d)
        BY <2>3 DEF Handshake
    <2>5. Registers' /\ MacOK(cv)' /\ MacOK(gm)' /\ ~ Reported(b)' /\ Others(b)
        BY <2>1, <2>2, <2>4, AcceptTakes DEF Handshake
    <2>6. \A d \in Backend \ {b} : Reported(d)' /\ ~ InFlight(d)'
        BY <2>4, <2>5 DEF Others
    <2>7. be_cmd_r' \in [Backend -> Cmd]
        BY <2>2 DEF Handshake, SchedTypeOK
    <2> QED BY <2>1, <2>2, <2>3, <2>5, <2>6, <2>7 DEF Handshake
<1>5. ASSUME Step(be_sel_r), UNCHANGED <<be_sel_r, be_cmd_r>>, SchedTypeOK',
             sched_state' # "S_ISSUE",
             sched_state' = "S_WAIT" <=> sched_state = "S_WAIT" /\ ~ be_done(be_sel_r),
             sched_state # "S_ISSUE"
      PROVE  Handshake'
    <2>1. PICK b \in Backend : b = be_sel_r
        BY DEF Handshake
    <2>2. /\ Registers' /\ MacOK(cv)' /\ MacOK(gm)'
          /\ Reported(b)' <=> Reported(b) \/ be_done(b)
          /\ Others(b)
        BY <1>5, <2>1, StepMoves DEF Handshake
    <2>3. \A d \in Backend \ {b} : Reported(d)' /\ ~ InFlight(d)'
        BY <2>1, <2>2 DEF Others, Handshake
    <2>4. Reported(b) <=> sched_state # "S_WAIT"
        BY <2>1 DEF Handshake
    <2> QED BY <1>5, <2>1, <2>2, <2>3, <2>4 DEF Handshake
<1>6. CASE Work
    <2>1. /\ SchedTypeOK' /\ sched_state = "S_WAIT" /\ sched_state' # "S_ISSUE"
          /\ sched_state' = "S_WAIT" <=> ~ be_done(be_sel_r)
        BY <1>6 DEF Work, SchedRetire, SchedHold, schedVars, SchedTypeOK, Handshake
    <2> QED BY <1>5, <1>6, <2>1 DEF Work
<1>7. CASE Settle
    <2>1. SchedTypeOK' /\ sched_state = "S_IDLE" /\ sched_state' = "S_IDLE"
        BY <1>7 DEF Settle, SchedHold, schedVars, SchedTypeOK, Handshake
    <2> QED BY <1>5, <1>7, <2>1 DEF Settle
<1>8. CASE UNCHANGED vars
    <2>1. UNCHANGED <<ctrlVars, be_sel_r, be_cmd_r>> /\ SchedTypeOK' /\ sched_state' = sched_state
        BY <1>8 DEF vars, schedVars, SchedTypeOK, Handshake
    <2> QED BY <1>1, <2>1 DEF Handshake
<1> QED BY <1>2, <1>3, <1>4, <1>6, <1>7, <1>8 DEF Next

\* A step of convolution or GEMM leaves the serial controllers as they are.
LEMMA MacStepKeeps ==
    ASSUME NEW b \in Backend \ Serial, Others(b), UNCHANGED <<be_sel_r, be_cmd_r>>
    PROVE  UNCHANGED Abs!backendVars
<1>1. \A d \in Serial : ctrl_state'[d] = ctrl_state[d]
    BY DEF Others, Serial, Backend
<1>2. serial_state' = serial_state
    BY <1>1 DEF serial_state
<1> QED BY <1>2 DEF Abs!backendVars, serial_cmd_r, serial_sel

\* Every step of the four serial controllers, the scheduler and the dispatcher
\* is a step of the abstract backends, gives the ports to one of the others, or
\* leaves them as they are.
LEMMA BackendStep ==
    ASSUME Handshake, [Next]_vars
    PROVE  [\/ \E valid, finish \in BOOLEAN :
                 Abs!BackendClk(valid /\ dispatch_valid /\ Route(sched_cmd_r) \in Serial,
                                sched_cmd_r, finish)
            \/ SelectOther]_(Abs!backendVars)
<1>1. ASSUME UNCHANGED <<ctrlVars, be_sel_r, be_cmd_r>> PROVE UNCHANGED Abs!backendVars
    BY <1>1 DEF ctrlVars, Abs!backendVars, serial_state, serial_cmd_r, serial_sel, ctrl_state
<1>2. ASSUME NEW cmd \in Cmd, Take(cmd) PROVE UNCHANGED Abs!backendVars
    BY <1>1, <1>2 DEF Take
<1>3. CASE NoCommand
    BY <1>1, <1>3 DEF NoCommand
<1>4. CASE Dispatch
    <2>1. PICK b \in Backend : b = Route(sched_cmd_r)
        BY RouteIsBackend
    <2>2. Accept(b, sched_cmd_r) /\ SchedIssue(be_ready(b)) /\ dispatch_valid
          /\ be_sel_r' = b /\ be_cmd_r' = [be_cmd_r EXCEPT ![b] = sched_cmd_r]
        BY <1>4, <2>1 DEF Dispatch
    <2>3. \A d \in Backend : Reported(d)
        BY <2>2 DEF Handshake, SchedIssue
    <2>4. \A d \in Serial : ctrl_state[d] = "S_IDLE"
        BY <2>3 DEF Reported, Serial, Backend
    <2>5. (b \in Serial => Taken(ctrl_state[b], ctrl_state'[b])) /\ Others(b)
        BY <2>1, <2>2, <2>3, AcceptTakes DEF Handshake
    <2>6. \A d \in Serial \ {b} : ctrl_state'[d] = "S_IDLE"
        BY <2>4, <2>5 DEF Others, Serial, Backend
    <2>7. serial_state = [d \in Serial |-> "S_IDLE"]
        BY <2>4 DEF serial_state
    <2>8. CASE b \notin Serial
        <3>1. serial_state' = [d \in Serial |-> "S_IDLE"]
            BY <2>6, <2>8 DEF serial_state
        <3>2. UNCHANGED serial_cmd_r
            BY <2>2, <2>8 DEF serial_cmd_r, Handshake, Serial, Backend
        <3>3. serial_sel' = "conv"
            BY <2>2, <2>8 DEF serial_sel
        <3> QED BY <2>1, <2>2, <2>7, <2>8, <3>1, <3>2, <3>3 DEF SelectOther
    <2>9. CASE b \in Serial
        <3>1. serial_state' = [d \in Serial |-> IF d = b THEN "S_WORK" ELSE "S_IDLE"]
            BY <2>5, <2>6, <2>9 DEF serial_state, Taken, Working
        <3>2. serial_cmd_r' = [d \in Serial |-> IF d = b THEN sched_cmd_r ELSE serial_cmd_r[d]]
            BY <2>2, <2>9 DEF serial_cmd_r, Handshake, Serial, Backend
        <3>3. serial_sel' = b
            BY <2>2, <2>9 DEF serial_sel
        <3>4. Abs!BackendClk(TRUE /\ dispatch_valid /\ Route(sched_cmd_r) \in Serial, sched_cmd_r, FALSE)
            <4> HIDE DEF serial_state, serial_cmd_r, serial_sel
            <4>1. serial_state' = [d \in Serial |->
                      Abs!BackendNext(d, TRUE /\ dispatch_valid /\ Route(sched_cmd_r) \in Serial,
                                      sched_cmd_r, FALSE)]
                BY <2>1, <2>2, <2>7, <2>9, <3>1 DEF Abs!BackendNext
            <4> QED BY <4>1, <2>1, <2>2, <2>7, <2>9, <3>2, <3>3
                    DEF Abs!BackendClk, Abs!SelectClk, Abs!be_ready
        <3> QED BY <3>4
    <2> QED BY <2>8, <2>9
<1>5. ASSUME Step(be_sel_r), UNCHANGED <<be_sel_r, be_cmd_r>>, ~ dispatch_valid,
             be_sel_r \in Serial => sched_state = "S_WAIT"
      PROVE  \/ UNCHANGED Abs!backendVars
             \/ \E finish \in BOOLEAN :
                   Abs!BackendClk(FALSE /\ dispatch_valid /\ Route(sched_cmd_r) \in Serial,
                                  sched_cmd_r, finish)
    <2>0. PICK b \in Backend : b = be_sel_r
        BY DEF Handshake
    <2>1. (b \in Serial => Moved(ctrl_state[b], ctrl_state'[b])) /\ Others(b)
        BY <1>5, <2>0, StepMoves DEF Handshake
    <2>2. CASE b \notin Serial
        BY <1>5, <2>0, <2>1, <2>2, MacStepKeeps
    <2>3. CASE b \in Serial
        <3>1. \A d \in Serial \ {b} : ctrl_state[d] = "S_IDLE" /\ ctrl_state'[d] = "S_IDLE"
            <4>1. \A d \in Serial \ {b} : Reported(d)
                BY <2>0 DEF Handshake, Serial, Backend
            <4>2. \A d \in Serial \ {b} : ctrl_state[d] = "S_IDLE"
                BY <4>1 DEF Reported, Serial
            <4> QED BY <2>1, <4>2 DEF Others, Serial, Backend
        <3>2. PICK finish \in BOOLEAN : finish = (ctrl_state'[b] = "S_DONE")
            OBVIOUS
        <3>3. PICK was \in {"S_WORK", "S_DONE"} :
                  was = IF ctrl_state[b] = "S_DONE" THEN "S_DONE" ELSE "S_WORK"
            OBVIOUS
        <3>4. serial_state = [d \in Serial |-> IF d = b THEN was ELSE "S_IDLE"]
            BY <2>1, <2>3, <3>1, <3>3 DEF serial_state, Moved, Working
        <3>5. serial_state' = [d \in Serial |-> IF d # b \/ was = "S_DONE" THEN "S_IDLE"
                                                ELSE IF finish THEN "S_DONE" ELSE "S_WORK"]
            BY <2>1, <2>3, <3>1, <3>2, <3>3 DEF serial_state, Moved, Working
        <3>6. serial_cmd_r' = serial_cmd_r /\ serial_sel' = serial_sel /\ serial_sel = b
            BY <1>5, <2>0, <2>3 DEF serial_cmd_r, serial_sel
        <3>7. serial_cmd_r = [d \in Serial |-> serial_cmd_r[d]]
            BY DEF serial_cmd_r
        <3>8. Abs!BackendClk(FALSE /\ dispatch_valid /\ Route(sched_cmd_r) \in Serial,
                             sched_cmd_r, finish)
            <4> HIDE DEF serial_state, serial_cmd_r, serial_sel
            <4>1. serial_state' = [d \in Serial |->
                      Abs!BackendNext(d, FALSE /\ dispatch_valid /\ Route(sched_cmd_r) \in Serial,
                                      sched_cmd_r, finish)]
                BY <3>3, <3>4, <3>5, <3>6 DEF Abs!BackendNext
            <4> QED BY <4>1, <3>6, <3>7 DEF Abs!BackendClk, Abs!SelectClk
        <3> QED BY <3>8
    <2> QED BY <2>2, <2>3
<1>6. CASE Work
    <2>1. Step(be_sel_r) /\ UNCHANGED <<be_sel_r, be_cmd_r>> /\ ~ dispatch_valid
          /\ sched_state = "S_WAIT"
        BY <1>6 DEF Work, dispatch_valid
    <2> QED BY <1>5, <2>1
<1>7. CASE Settle
    <2>1. Step(be_sel_r) /\ UNCHANGED <<be_sel_r, be_cmd_r>> /\ ~ dispatch_valid
          /\ be_sel_r \notin Serial
        BY <1>7 DEF Settle, dispatch_valid, InFlight, Serial
    <2> QED BY <1>5, <2>1
<1>8. CASE UNCHANGED vars
    BY <1>1, <1>8 DEF vars
<1> QED BY <1>2, <1>3, <1>4, <1>6, <1>7, <1>8 DEF Next

-----------------------------------------------------------------------------
\* The scheduler of npu_scheduler.sv waits exactly while the backend that the
\* registered selector of npu_core.sv gives the ports has a command whose done it
\* has not reported, every other backend has reported all of its own, and results
\* that a done of convolution or GEMM left behind are in the selected backend and
\* written before the next command is issued.
THEOREM PortsHaveOneOwner == Spec => []Handshake
<1> QED BY HandshakeInit, HandshakeStep, PTL DEF Spec

\* The four serial backends, for every set of commands, buffer contents and data
\* width, implement the abstract backends the command path is proved with:
\* vec_ctrl, softmax_ctrl, lnorm_ctrl and pool_ctrl take a command only when idle,
\* give one cycle of done at its end, and are idle when conv_backend or
\* gemm_backend gets the ports.
THEOREM BackendsImplement == Spec => ImplementsSerialBackend
<1>1. Init => Abs!BackendInit
    <2> SUFFICES ASSUME Init PROVE Abs!BackendInit
        OBVIOUS
    <2>1. \A b \in Serial : ctrl_state[b] = "S_IDLE"
        BY DEF Init, VecInit, SmaxInit, LnormInit, PoolInit, ctrl_state, Serial
    <2>2. be_cmd_r = [b \in Backend |-> ZeroCmd] /\ be_sel_r = "conv"
        BY DEF Init
    <2> QED BY <2>1, <2>2 DEF Abs!BackendInit, serial_state, serial_cmd_r, serial_sel, Serial, Backend
<1>2. Handshake /\ [Next]_vars
        => [\/ \E valid, finish \in BOOLEAN :
                 Abs!BackendClk(valid /\ dispatch_valid /\ Route(sched_cmd_r) \in Serial,
                                sched_cmd_r, finish)
            \/ SelectOther]_(Abs!backendVars)
    BY BackendStep
<1> QED BY <1>1, <1>2, PortsHaveOneOwner, PTL DEF Spec, ImplementsSerialBackend

-----------------------------------------------------------------------------
(***************************************************************************)
(* Widths.  Every byte a controller writes is an INT8, whatever it read.   *)
(***************************************************************************)
PortsOK ==
    /\ act \in [Addresses -> int8] /\ wt \in [Addresses -> int8]
    /\ act_rd.rdata \in int8 /\ wt_rd.rdata \in int8

\* Addresses wrap around in the buffers.
LEMMA Wrapped == \A x \in Int : uint16(x) \in Addresses
BY DimRangeAssumption DEF uint16, Addresses

LEMMA Saturated == \A x \in Int : sat8(x) \in int8
BY DEF sat8, int8

\* A value in the accumulator is an integer.
LEMMA AccInt == \A x \in Int : acc_t(x) \in Int
<1>1. 2^ACC_W \in Int /\ 2^ACC_W > 0 /\ 2^(ACC_W - 1) \in Int
    BY AccWAssumption, PowerAssumption
<1>2. QED
    BY <1>1 DEF acc_t

LEMMA BytesAreInts == PortsOK => \A a \in Addresses : act[a] \in Int /\ wt[a] \in Int
BY DEF PortsOK, int8

LEMMA NoAccessKeeps == PortsOK /\ NoAccess => PortsOK'
BY DEF PortsOK, NoAccess, NoData, int8

LEMMA ReadActKeeps ==
    ASSUME PortsOK, NEW a \in Int, ReadAct(a) PROVE PortsOK'
<1>1. act[uint16(a)] \in int8
    BY Wrapped DEF PortsOK
<1>2. QED
    BY <1>1 DEF PortsOK, ReadAct, NoData, int8

LEMMA ReadBothKeeps ==
    ASSUME PortsOK, NEW a \in Int, NEW w \in Int, ReadBoth(a, w) PROVE PortsOK'
<1>1. act[uint16(a)] \in int8 /\ wt[uint16(w)] \in int8
    BY Wrapped DEF PortsOK
<1>2. QED
    BY <1>1 DEF PortsOK, ReadBoth

LEMMA WriteActKeeps ==
    ASSUME PortsOK, NEW a \in Int, NEW d \in int8, WriteAct(a, d) PROVE PortsOK'
<1>1. uint16(a) \in Addresses /\ 0 \in int8
    BY Wrapped DEF int8
<1>2. QED
    BY <1>1 DEF PortsOK, WriteAct, NoData

-----------------------------------------------------------------------------
(***************************************************************************)
(* vec_ctrl.                                                               *)
(***************************************************************************)
VecFields == {"state", "cmd", "idx_r", "a_addr_r", "b_addr_r", "out_addr_r", "a_data_r", "b_data_r"}

VecInv ==
    /\ VecFields \subseteq DOMAIN vec
    /\ vec.cmd.a_addr \in Int /\ vec.cmd.b_addr \in Int /\ vec.cmd.out_addr \in Int
    /\ 2^vec.cmd.quant_shift \in Int /\ 2^vec.cmd.quant_shift > 0
    /\ vec.a_addr_r \in Int /\ vec.b_addr_r \in Int /\ vec.out_addr_r \in Int
    /\ vec.a_data_r \in Int /\ vec.b_data_r \in Int

\* The result of an element is saturated.
LEMMA VecResult == VecInv => vec_result(vec) \in int8
<1> SUFFICES ASSUME VecInv PROVE vec_result(vec) \in int8
    OBVIOUS
<1>1. \A x \in Int : mul_activated(x, vec.cmd.act_mode) \in Int
    BY DEF mul_activated
<1>2. PICK p \in Int : p = vec.a_data_r * vec.b_data_r
    BY DEF VecInv
<1>3. mul_activated(p, vec.cmd.act_mode) \div 2^vec.cmd.quant_shift \in Int
    BY <1>1, <1>2 DEF VecInv
<1>4. QED
    BY <1>2, <1>3, Saturated DEF VecInv, vec_result

LEMMA VecKeeps == ASSUME VecInv, PortsOK, VecStep PROVE VecInv' /\ PortsOK'
<1> USE DEF VecFields
<1>1. CASE VecLoadCfg
    BY <1>1, NoAccessKeeps DEF VecLoadCfg, VecInv
<1>2. CASE VecRead
    BY <1>2, ReadBothKeeps DEF VecRead, VecInv
<1>3. CASE VecWait
    BY <1>3, NoAccessKeeps DEF VecWait, VecInv, PortsOK, int8
<1>4. CASE VecWrite
    <2>1. PortsOK'
        BY <1>4, VecResult, WriteActKeeps DEF VecWrite, VecInv
    <2>2. VecInv'
        BY <1>4, Wrapped DEF VecWrite, VecInv, Addresses
    <2>3. QED
        BY <2>1, <2>2
<1>5. CASE VecDone
    BY <1>5, NoAccessKeeps DEF VecDone, VecInv
<1>6. QED
    BY <1>1, <1>2, <1>3, <1>4, <1>5 DEF VecStep

-----------------------------------------------------------------------------
(***************************************************************************)
(* softmax_ctrl.                                                           *)
(***************************************************************************)
SmaxFields == {"state", "cmd", "row_r", "req_cnt_r", "rcv_cnt_r", "max_val_r", "sum_r",
               "row_base_in_r", "row_base_out_r", "norm_idx_r", "exp_sum_rvalid_d",
               "exp_sum_lut_d", "div_numer_r", "div_rem_r", "div_quot_r", "div_cnt_r"}

SmaxInv ==
    /\ SmaxFields \subseteq DOMAIN smax
    /\ smax.cmd.in_addr \in Int /\ smax.cmd.out_addr \in Int /\ smax.cmd.row_len \in Int
    /\ smax.row_base_in_r \in Int /\ smax.row_base_out_r \in Int
    /\ smax.req_cnt_r \in Int /\ smax.norm_idx_r \in Int
    /\ smax.div_quot_r \in 0 .. 255

LEMMA SmaxPass == ASSUME SmaxInv, PortsOK, PassRead PROVE PortsOK'
BY NoAccessKeeps, ReadActKeeps DEF PassRead, SmaxInv

LEMMA SmaxKeeps == ASSUME SmaxInv, PortsOK, SmaxStep PROVE SmaxInv' /\ PortsOK'
<1> USE DEF SmaxFields
<1>1. CASE SmaxLoadCfg
    BY <1>1, NoAccessKeeps DEF SmaxLoadCfg, SmaxInv
<1>2. CASE SmaxFindMax
    BY <1>2, SmaxPass DEF SmaxFindMax, SmaxInv
<1>3. CASE SmaxExpSum
    BY <1>3, SmaxPass DEF SmaxExpSum, SmaxInv
<1>4. CASE SmaxNormRead
    BY <1>4, ReadActKeeps DEF SmaxNormRead, SmaxInv
<1>5. CASE SmaxNormWait
    BY <1>5, NoAccessKeeps DEF SmaxNormWait, SmaxInv
<1>6. CASE SmaxNormDiv
    BY <1>6, NoAccessKeeps DEF SmaxNormDiv, SmaxInv
<1>7. CASE SmaxNormWrite
    <2>1. (IF smax.div_quot_r > 127 THEN 127 ELSE smax.div_quot_r) \in int8
        BY DEF SmaxInv, int8
    <2>2. PortsOK'
        BY <1>7, <2>1, WriteActKeeps DEF SmaxNormWrite, SmaxInv
    <2>3. SmaxInv'
        BY <1>7, Wrapped DEF SmaxNormWrite, SmaxInv, Addresses
    <2>4. QED
        BY <2>2, <2>3
<1>8. CASE SmaxDone
    BY <1>8, NoAccessKeeps DEF SmaxDone, SmaxInv
<1>9. QED
    BY <1>1, <1>2, <1>3, <1>4, <1>5, <1>6, <1>7, <1>8 DEF SmaxStep

-----------------------------------------------------------------------------
(***************************************************************************)
(* pool_ctrl.                                                              *)
(***************************************************************************)
PoolFields == {"state", "cmd", "oh_r", "ow_r", "c_r", "oh_base_r", "ow_base_r", "out_pix_base_r",
               "r_r", "s_r", "acc_r", "has_valid_r", "div", "div_sign_r"}

PoolInv ==
    /\ PoolFields \subseteq DOMAIN pl
    /\ pl.cmd.in_addr \in Int /\ pl.cmd.out_addr \in Int
    /\ pl.cmd.in_w \in Int /\ pl.cmd.in_c \in Int
    /\ pl.cmd.stride_h \in Int /\ pl.cmd.stride_w \in Int
    /\ pl.cmd.pad_h \in Int /\ pl.cmd.pad_w \in Int
    /\ pl.oh_r \in Int /\ pl.ow_r \in Int /\ pl.c_r \in Int
    /\ pl.oh_base_r \in Int /\ pl.ow_base_r \in Int /\ pl.out_pix_base_r \in Int
    /\ pl.r_r \in Int /\ pl.s_r \in Int /\ pl.acc_r \in Int
    /\ "quot" \in DOMAIN pl.div /\ pl.div.quot \in Nat

\* The quotient register stays a number whatever it divides.
LEMMA DivQuot ==
    ASSUME NEW d, "quot" \in DOMAIN d, d.quot \in Nat
    PROVE  "quot" \in DOMAIN div_step(d) /\ div_step(d).quot \in Nat
<1>1. 2^ACC_W \in Int /\ 2^ACC_W > 0
    BY AccWAssumption, PowerAssumption
<1>2. (2 * d.quot) % 2^ACC_W \in Nat
    BY <1>1
<1>3. QED
    BY <1>2 DEF div_step

LEMMA PoolAddr == PoolInv => rd_addr_w \in Int
<1> SUFFICES ASSUME PoolInv PROVE rd_addr_w \in Int
    OBVIOUS
<1>1. pool_ih \in Int /\ pool_iw \in Int
    BY DEF PoolInv, pool_ih, pool_iw
<1>2. pl.cmd.in_w * pl.cmd.in_c \in Int
    BY DEF PoolInv
<1>3. /\ uint16(pool_ih) \in Int /\ uint16(pool_iw) \in Int
      /\ uint16(pl.cmd.in_w * pl.cmd.in_c) \in Int
    BY <1>1, <1>2, Wrapped DEF Addresses
<1>4. /\ uint16(pool_ih) * uint16(pl.cmd.in_w * pl.cmd.in_c) \in Int
      /\ uint16(pool_iw) * pl.cmd.in_c \in Int
    BY <1>3 DEF PoolInv
<1>5. QED
    BY <1>4, Wrapped DEF rd_addr_w, PoolInv, Addresses

LEMMA PoolResult == PoolInv => result_w \in int8
<1> SUFFICES ASSUME PoolInv PROVE result_w \in int8
    OBVIOUS
<1>1. 2^(ACC_W - 1) \in Int /\ 2^(ACC_W - 1) > 0
    BY AccWAssumption, PowerAssumption
<1>2. pl.div.quot % 2^(ACC_W - 1) \in Int
    BY <1>1 DEF PoolInv
<1>3. QED
    BY <1>2, Saturated DEF result_w, PoolInv

LEMMA PoolKeeps == ASSUME PoolInv, PortsOK, PoolStep PROVE PoolInv' /\ PortsOK'
<1> USE DEF PoolFields
<1>1. CASE PoolLoadCfg
    <2>1. ClearedAcc \in Int
        BY DEF ClearedAcc
    <2>2. PortsOK'
        BY <1>1, NoAccessKeeps DEF PoolLoadCfg
    <2>3. /\ PoolFields \subseteq DOMAIN pl'
          /\ pl'.cmd = pl.cmd /\ pl'.div = pl.div
          /\ pl'.oh_r = 0 /\ pl'.ow_r = 0 /\ pl'.c_r = 0
          /\ pl'.oh_base_r = 0 /\ pl'.ow_base_r = 0 /\ pl'.out_pix_base_r = 0
          /\ pl'.r_r = 0 /\ pl'.s_r = 0 /\ pl'.acc_r = ClearedAcc
        BY <1>1 DEF PoolLoadCfg, PoolInv
    <2>4. QED
        BY <2>1, <2>2, <2>3 DEF PoolInv
<1>2. CASE PoolSkip
    BY <1>2, NoAccessKeeps DEF PoolSkip, PoolInv
<1>3. CASE PoolRead
    BY <1>3, PoolAddr, ReadActKeeps DEF PoolRead, PoolInv
<1>4. CASE PoolWait
    BY <1>4, NoAccessKeeps DEF PoolWait, PoolInv, PortsOK, int8
<1>5. CASE PoolNextCell
    <2>1. uint16(pl.s_r + 1) \in Int /\ uint16(pl.r_r + 1) \in Int
        BY Wrapped DEF PoolInv, Addresses
    <2>2. QED
        BY <1>5, <2>1, NoAccessKeeps DEF PoolNextCell, PoolInv
<1>6. CASE PoolWindowEnd
    <2>1. PortsOK'
        BY <1>6, NoAccessKeeps DEF PoolWindowEnd
    <2>2. CASE pl.cmd.pool_mode = 0
        BY <1>6, <2>1, <2>2 DEF PoolWindowEnd, PoolInv
    <2>3. CASE pl.cmd.pool_mode # 0
        <3>1. PICK n \in Nat : n = IF pl.acc_r < 0 THEN -pl.acc_r ELSE pl.acc_r
            BY DEF PoolInv
        <3>2. PICK area : area = pool_area(pl.cmd)
            OBVIOUS
        <3>3. /\ "quot" \in DOMAIN div_start(n, area) /\ div_start(n, area).quot \in Nat
            BY DEF div_start
        <3>4. pl' = [pl EXCEPT !.state = "S_AVG_DIV", !.div_sign_r = pl.acc_r < 0,
                               !.div = div_start(n, area)]
            BY <1>6, <2>3, <3>1, <3>2 DEF PoolWindowEnd
        <3>5. QED
            BY <2>1, <3>3, <3>4 DEF PoolInv
    <2>4. QED
        BY <2>2, <2>3
<1>7. CASE PoolAvgDiv
    BY <1>7, NoAccessKeeps, DivQuot DEF PoolAvgDiv, PoolInv
<1>8. CASE PoolWrite
    <2>1. PortsOK'
        <3>1. pl.cmd.out_addr + pl.out_pix_base_r + pl.c_r \in Int
            BY DEF PoolInv
        <3>2. QED
            BY <1>8, <3>1, PoolResult, WriteActKeeps DEF PoolWrite
    <2>2. PoolInv'
        BY <1>8, Wrapped DEF PoolWrite, PoolInv, NextOutput, ClearedAcc, Addresses
    <2>3. QED
        BY <2>1, <2>2
<1>9. CASE PoolDone
    BY <1>9, NoAccessKeeps DEF PoolDone, PoolInv
<1>10. QED
    BY <1>1, <1>2, <1>3, <1>4, <1>5, <1>6, <1>7, <1>8, <1>9 DEF PoolStep

-----------------------------------------------------------------------------
(***************************************************************************)
(* conv_ctrl and gemm_ctrl.                                                *)
(***************************************************************************)
CvFields == {"state", "cmd_r", "oh_r", "ow_r", "k_r", "r_r", "s_r", "c_r", "acc_r",
             "wr_addr_iter_r", "first_last_inner_seen_r"}

\* Results on their way are bytes, and the stages hold them.
Result == [addr : Int, data : int8]

ResultsOK(x) ==
    /\ MacFields \subseteq DOMAIN x
    /\ x.sums \in Seq(Result) /\ Len(x.sums) <= StagesBefore
    /\ x.pipe \in Seq(Result) /\ Len(x.pipe) <= StagesAfter

CvTyped(x) ==
    /\ CvFields \subseteq DOMAIN x
    /\ x.oh_r \in Nat /\ x.ow_r \in Nat /\ x.k_r \in Nat
    /\ x.r_r \in Nat /\ x.s_r \in Nat /\ x.c_r \in Nat
    /\ x.acc_r \in Int /\ x.wr_addr_iter_r \in Int

CvInside(x) ==
    x.oh_r < x.cmd_r.out_h /\ x.ow_r < x.cmd_r.out_w /\ x.k_r < x.cmd_r.out_k

CvInv ==
    /\ CvTyped(cv) /\ ResultsOK(cv)
    /\ cv.state # "IDLE" => cv.cmd_r \in Cmd \ {ZeroCmd} /\ Route(cv.cmd_r) = "conv"
    /\ cv.state = "COMPUTE" => CvInside(cv)

\* A dimension that is not 0 is counted to its end.
LEMMA LastOf == \A n \in Addresses : n > 0 => uint16(n - 1) = n - 1 /\ uint32(n - 1) = n - 1
<1> SUFFICES ASSUME NEW n \in Addresses, n > 0
             PROVE  uint16(n - 1) = n - 1 /\ uint32(n - 1) = n - 1
    OBVIOUS
<1>1. PICK m \in Nat : m = 2^DIM_W /\ m >= 16
    BY DimRangeAssumption
<1>2. n - 1 \in Nat /\ n - 1 < m
    BY <1>1 DEF Addresses
<1>3. PICK mm \in Nat : mm = m * m
    OBVIOUS
<1>4. mm >= m
    BY <1>1, <1>3
<1>5. (n - 1) % m = n - 1 /\ (n - 1) % mm = n - 1
    BY <1>1, <1>2, <1>4
<1> QED BY <1>1, <1>3, <1>5 DEF uint16, uint32

\* A counter below a dimension does not wrap around.
LEMMA Counted ==
    /\ \A x \in Nat : uint16(x + 1) \in Nat
    /\ \A x \in Nat : \A n \in Addresses : x < n => uint16(x + 1) = x + 1
<1>1. PICK m \in Nat : m = 2^DIM_W /\ m >= 16
    BY DimRangeAssumption
<1>2. \A x \in Nat : (x + 1) % m \in Nat
    BY <1>1
<1>3. ASSUME NEW x \in Nat, NEW n \in 0 .. m - 1, x < n PROVE (x + 1) % m = x + 1
    BY <1>1, <1>3
<1> QED BY <1>1, <1>2, <1>3 DEF uint16, Addresses

LEMMA Uint32Int == \A x \in Int : uint32(x) \in Int
<1>1. 2^DIM_W * 2^DIM_W \in Int /\ 2^DIM_W * 2^DIM_W > 0
    <2>1. PICK m \in Int : m = 2^DIM_W /\ m > 0
        BY DimRangeAssumption
    <2>2. m * m > 0
        BY <2>1
    <2>3. QED
        BY <2>1, <2>2
<1>2. QED
    BY <1>1 DEF uint32

LEMMA AddressesInt == \A a \in Addresses : a \in Nat /\ a \in Int
BY DimRangeAssumption DEF Addresses

\* The fields of a command.
LEMMA CmdFields ==
    ASSUME NEW c \in Cmd
    PROVE  /\ c.act_in_addr \in Addresses /\ c.act_out_addr \in Addresses
           /\ c.weight_addr \in Addresses /\ c.bias_addr \in Addresses
           /\ c.in_h \in Addresses /\ c.in_w \in Addresses /\ c.in_c \in Addresses
           /\ c.out_k \in Addresses /\ c.filt_r \in Addresses /\ c.filt_s \in Addresses
           /\ c.stride_h \in Addresses /\ c.stride_w \in Addresses
           /\ c.pad_h \in Addresses /\ c.pad_w \in Addresses
           /\ c.out_h \in Addresses /\ c.out_w \in Addresses
           /\ 2^c.quant_shift \in Int /\ 2^c.quant_shift > 0
BY CmdTypeAssumption

\* What postproc gives is saturated.
LEMMA PostprocByte ==
    ASSUME NEW sum \in Int, NEW bias \in Int, NEW c,
           2^c.quant_shift \in Int, 2^c.quant_shift > 0
    PROVE  postproc(sum, bias, c) \in int8
<1>1. PICK b \in Int : b = acc_t(sum + bias)
    BY AccInt
<1>2. PICK v \in Int : v = IF b >= 0 THEN b
                           ELSE CASE c.act_mode = 0 -> b
                                  [] c.act_mode = 2 -> b \div 2^3
                                  [] OTHER -> 0
    OBVIOUS
<1>3. v \div 2^c.quant_shift \in Int
    OBVIOUS
<1>4. postproc(sum, bias, c) = sat8(v \div 2^c.quant_shift)
    BY <1>1, <1>2 DEF postproc
<1>5. QED
    BY <1>3, <1>4, Saturated

LEMMA AccumulatedInt ==
    ASSUME NEW s \in Int, NEW clr, NEW a \in Int, NEW w \in Int
    PROVE  Accumulated(s, clr, a, w) \in Int
<1>1. PICK p \in Int : p = a * w
    OBVIOUS
<1>2. PICK t \in Int : t = (IF clr THEN 0 ELSE s) + p
    OBVIOUS
<1>3. QED
    BY <1>1, <1>2, AccInt DEF Accumulated

\* The address generators stay in the buffers.
LEMMA ConvAddresses ==
    ASSUME NEW c \in Cmd, NEW oh \in Nat, NEW ow \in Nat, NEW k \in Nat,
           NEW r \in Nat, NEW s \in Nat, NEW i \in Nat
    PROVE  act_addr(c, oh, ow, r, s, i) \in Addresses /\ wt_addr(c, k, r, s, i) \in Addresses
<1>1. \A x \in Int : signed17(x) \in Int
    BY DimRangeAssumption DEF signed17
<1>2. ASSUME NEW o \in Nat, NEW st \in Nat, NEW q \in Nat, NEW p \in Nat
      PROVE  uint16(in_calc(o, st, q, p)) \in Nat
    <2>1. o * st \in Int
        OBVIOUS
    <2>2. o * st + q - p \in Int
        BY <2>1
    <2>3. QED
        BY <1>1, <2>2, Wrapped, AddressesInt DEF in_calc
<1>3. PICK ih \in Nat, iw \in Nat :
          /\ ih = uint16(in_calc(oh, c.stride_h, r, c.pad_h))
          /\ iw = uint16(in_calc(ow, c.stride_w, s, c.pad_w))
    BY <1>2, CmdFields, AddressesInt
<1>4. PICK x \in Int : x = uint32(ih * c.in_w + iw)
    <2>1. c.in_w \in Int
        BY CmdFields, AddressesInt
    <2>2. ih * c.in_w + iw \in Int
        BY <2>1
    <2>3. QED
        BY <2>2, Uint32Int
<1>5. PICK y \in Int : y = uint32(x * c.in_c)
    <2>1. c.in_c \in Int
        BY CmdFields, AddressesInt
    <2>2. x * c.in_c \in Int
        BY <2>1
    <2>3. QED
        BY <2>2, Uint32Int
<1>6. act_addr(c, oh, ow, r, s, i) \in Addresses
    <2>0. c.act_in_addr \in Int
        BY CmdFields, AddressesInt
    <2>1. c.act_in_addr + y + i \in Int
        BY <2>0
    <2>2. act_addr(c, oh, ow, r, s, i) = uint16(c.act_in_addr + y + i)
        BY <1>3, <1>4, <1>5 DEF act_addr
    <2>3. QED
        BY <2>1, <2>2, Wrapped
<1>7. wt_addr(c, k, r, s, i) \in Addresses
    <2>0. c.filt_r \in Int /\ c.filt_s \in Int /\ c.in_c \in Int /\ c.weight_addr \in Int
        BY CmdFields, AddressesInt
    <2>1. PICK fr \in Int, fs \in Int, ic \in Int, base \in Int :
              fr = c.filt_r /\ fs = c.filt_s /\ ic = c.in_c /\ base = c.weight_addr
        BY <2>0
    <2>2. (k * fr + r) * fs \in Int
        OBVIOUS
    <2>3. PICK row \in Int : row = uint32((k * fr + r) * fs)
        BY <2>2, Uint32Int
    <2>4. (row + s) * ic + i \in Int
        OBVIOUS
    <2>5. PICK off \in Int : off = uint32((row + s) * ic + i)
        BY <2>4, Uint32Int
    <2>6. wt_addr(c, k, r, s, i) = uint16(base + off)
        BY <2>1, <2>3, <2>5 DEF wt_addr
    <2>7. QED
        BY <2>6, Wrapped
<1>8. QED
    BY <1>6, <1>7

\* What the way of the results does with them.
LEMMA ResultsMove ==
    ASSUME NEW x, ResultsOK(x)
    PROVE  /\ ResultsOK(Latched(x))
           /\ can_trigger(x) => ResultsOK(Triggered(x))
           /\ ~ pipe_empty(x) => ResultsOK(Written(x)) /\ Head(x.pipe) \in Result
<1>1. PICK l : l = Latched(x)
    OBVIOUS
<1>2. DOMAIN l = DOMAIN x /\ l.sums = x.sums /\ l.pipe = x.pipe
    BY <1>1 DEF Latched, ResultsOK, MacFields
<1>3. ResultsOK(l)
    BY <1>2 DEF ResultsOK
<1>4. ASSUME can_trigger(x) PROVE ResultsOK(Triggered(x))
    <2>1. PICK t : t = Triggered(x)
        OBVIOUS
    <2>2. x.sums \in Seq(Result) /\ x.sums # <<>> /\ x.pipe \in Seq(Result)
        BY <1>4 DEF can_trigger, ResultsOK
    <2>3. /\ Tail(x.sums) \in Seq(Result) /\ Len(Tail(x.sums)) = Len(x.sums) - 1
          /\ Head(x.sums) \in Result
        BY <2>2, HeadTailProperties
    <2>4. /\ Append(x.pipe, Head(x.sums)) \in Seq(Result)
          /\ Len(Append(x.pipe, Head(x.sums))) = Len(x.pipe) + 1
        BY <2>2, <2>3
    <2>5. /\ DOMAIN t = DOMAIN x /\ t.sums = Tail(x.sums)
          /\ t.pipe = Append(x.pipe, Head(x.sums))
        BY <1>1, <1>2, <2>1 DEF Triggered, ResultsOK, MacFields
    <2>6. Len(x.sums) <= 3 /\ Len(x.pipe) < 3
        BY <1>4 DEF can_trigger, ResultsOK, StagesBefore, StagesAfter
    <2>7. Len(x.sums) \in Nat /\ Len(x.pipe) \in Nat
        BY <2>2
    <2>8. Len(t.sums) <= 3 /\ Len(t.pipe) <= 3
        BY <2>3, <2>4, <2>5, <2>6, <2>7
    <2> QED BY <2>1, <2>3, <2>4, <2>5, <2>8 DEF ResultsOK, StagesBefore, StagesAfter
<1>5. ASSUME ~ pipe_empty(x) PROVE ResultsOK(Written(x)) /\ Head(x.pipe) \in Result
    <2>1. PICK t : t = Written(x)
        OBVIOUS
    <2>2. x.pipe \in Seq(Result) /\ x.pipe # <<>> /\ Len(x.pipe) \in Nat /\ Len(x.pipe) <= 3
        BY <1>5 DEF pipe_empty, ResultsOK, StagesAfter
    <2>3. /\ Tail(x.pipe) \in Seq(Result) /\ Len(Tail(x.pipe)) = Len(x.pipe) - 1
          /\ Head(x.pipe) \in Result
        BY <2>2, HeadTailProperties
    <2>4. DOMAIN t = DOMAIN x /\ t.sums = x.sums /\ t.pipe = Tail(x.pipe)
        BY <1>1, <1>2, <2>1 DEF Written, ResultsOK, MacFields
    <2>5. Len(t.pipe) <= 3
        BY <2>2, <2>3, <2>4
    <2> QED BY <2>1, <2>3, <2>4, <2>5 DEF ResultsOK, StagesAfter
<1> QED BY <1>1, <1>3, <1>4, <1>5

\* A product that ends a sum sends a result on its way.
LEMMA ResultsGrow ==
    ASSUME NEW x, ResultsOK(x), iter_ready(x), NEW r \in Result,
           NEW y, MacFields \subseteq DOMAIN y, y.pipe = x.pipe,
           y.sums = x.sums \/ y.sums = Append(x.sums, r)
    PROVE  ResultsOK(y)
<1>1. x.sums \in Seq(Result) /\ Len(x.sums) \in Nat /\ Len(x.sums) < 3
    BY DEF ResultsOK, iter_ready, StagesBefore
<1>2. Append(x.sums, r) \in Seq(Result) /\ Len(Append(x.sums, r)) = Len(x.sums) + 1
    BY <1>1
<1>3. y.sums \in Seq(Result) /\ Len(y.sums) <= 3
    BY <1>1, <1>2
<1> QED BY <1>3 DEF ResultsOK, StagesBefore

\* The loop nest stays inside its bounds until its last product.
LEMMA ConvLoops ==
    ASSUME CvInv, cv.state = "COMPUTE"
    PROVE  /\ CvTyped(ConvNextProduct(cv))
           /\ ConvNextProduct(cv).cmd_r = cv.cmd_r /\ ConvNextProduct(cv).state = "COMPUTE"
           /\ ~(conv_inner_last(cv) /\ conv_outer_last(cv)) => CvInside(ConvNextProduct(cv))
<1>1. /\ cv.cmd_r.out_h \in Nat /\ cv.cmd_r.out_w \in Nat /\ cv.cmd_r.out_k \in Nat
      /\ uint16(cv.cmd_r.out_h - 1) = cv.cmd_r.out_h - 1
      /\ uint16(cv.cmd_r.out_w - 1) = cv.cmd_r.out_w - 1
      /\ uint32(cv.cmd_r.out_k - 1) = cv.cmd_r.out_k - 1
    BY CmdFields, ExtentAssumption, LastOf, AddressesInt DEF CvInv
<1>2. /\ uint16(cv.c_r + 1) \in Nat /\ uint16(cv.s_r + 1) \in Nat /\ uint16(cv.r_r + 1) \in Nat
    BY Counted DEF CvInv, CvTyped
<1>3. uint16(cv.k_r + 1) = cv.k_r + 1 /\ uint16(cv.ow_r + 1) = cv.ow_r + 1
    BY CmdFields, Counted DEF CvInv, CvTyped, CvInside
<1> USE DEF CvFields, CvTyped, CvInside, CvInv, last_k, last_ow, last_oh
<1>4. CASE ~conv_inner_last(cv)
    BY <1>1, <1>2, <1>4 DEF ConvNextProduct, conv_inner_last
<1>5. CASE conv_inner_last(cv)
    <2>1. PICK x : x = [cv EXCEPT !.c_r = 0, !.s_r = 0, !.r_r = 0]
        OBVIOUS
    <2>2. /\ CvFields \subseteq DOMAIN x /\ x.cmd_r = cv.cmd_r /\ x.state = cv.state
          /\ x.oh_r = cv.oh_r /\ x.ow_r = cv.ow_r /\ x.k_r = cv.k_r
          /\ x.r_r = 0 /\ x.s_r = 0 /\ x.c_r = 0
          /\ x.acc_r = cv.acc_r /\ x.wr_addr_iter_r = cv.wr_addr_iter_r
        BY <2>1
    <2>3. ConvNextProduct(cv) = ConvNextOutput(x)
        BY <1>5, <2>1 DEF ConvNextProduct, conv_inner_last
    <2>4. QED
        BY <1>1, <1>3, <1>5, <2>2, <2>3 DEF ConvNextOutput, conv_outer_last
<1>6. QED
    BY <1>4, <1>5

\* The counters do not move when a result does.
LEMMA ConvSame ==
    ASSUME CvInv, DOMAIN cv' = DOMAIN cv, ResultsOK(cv'),
           cv'.state \in {"IDLE", "DONE", cv.state}, cv.state = "IDLE" => cv'.state = "IDLE",
           cv'.cmd_r = cv.cmd_r, cv'.oh_r = cv.oh_r, cv'.ow_r = cv.ow_r, cv'.k_r = cv.k_r,
           cv'.r_r = cv.r_r, cv'.s_r = cv.s_r, cv'.c_r = cv.c_r,
           cv'.acc_r = cv.acc_r, cv'.wr_addr_iter_r = cv.wr_addr_iter_r
    PROVE  CvInv'
BY DEF CvInv, CvTyped, CvInside, ResultsOK

LEMMA ConvKeeps == ASSUME CvInv, PortsOK, ConvStep PROVE CvInv' /\ PortsOK'
<1>1. CASE ConvLoadCfg
    <2>1. PortsOK'
        BY <1>1, NoAccessKeeps DEF ConvLoadCfg
    <2>2. /\ CvTyped(cv)' /\ cv'.cmd_r = cv.cmd_r
          /\ cv'.oh_r = 0 /\ cv'.ow_r = 0 /\ cv'.k_r = 0
        BY <1>1 DEF ConvLoadCfg, CvInv, CvTyped, CvFields
    <2>3. /\ cv.cmd_r \in Cmd \ {ZeroCmd} /\ Route(cv.cmd_r) = "conv"
        BY <1>1 DEF ConvLoadCfg, CvInv
    <2>4. cv.cmd_r.out_h > 0 /\ cv.cmd_r.out_w > 0 /\ cv.cmd_r.out_k > 0
        BY <2>3, ExtentAssumption
    <2>5. ResultsOK(cv)'
        BY <1>1 DEF ConvLoadCfg, CvInv, ResultsOK, MacFields
    <2>6. QED
        BY <2>1, <2>2, <2>3, <2>4, <2>5 DEF CvInv, CvInside
<1>2. CASE ConvCompute
    <2>1. cv.state = "COMPUTE" /\ CvTyped(cv) /\ cv.cmd_r \in Cmd \ {ZeroCmd}
          /\ Route(cv.cmd_r) = "conv" /\ ResultsOK(cv) /\ iter_ready(cv)
        BY <1>2 DEF ConvCompute, CvInv
    <2>2. PICK a \in Int, w \in Int :
            LET pad == zero_pad(cv.cmd_r, cv.oh_r, cv.ow_r, cv.r_r, cv.s_r)
            IN /\ a = IF pad THEN 0
                      ELSE act[act_addr(cv.cmd_r, cv.oh_r, cv.ow_r, cv.r_r, cv.s_r, cv.c_r)]
               /\ w = IF pad THEN 0
                      ELSE wt[wt_addr(cv.cmd_r, cv.k_r, cv.r_r, cv.s_r, cv.c_r)]
        <3>1. /\ act_addr(cv.cmd_r, cv.oh_r, cv.ow_r, cv.r_r, cv.s_r, cv.c_r) \in Addresses
              /\ wt_addr(cv.cmd_r, cv.k_r, cv.r_r, cv.s_r, cv.c_r) \in Addresses
            BY <2>1, ConvAddresses DEF CvTyped
        <3>2. QED
            BY <3>1, BytesAreInts
    <2>3. PICK sum \in Int :
            sum = Accumulated(cv.acc_r, cv.r_r = 0 /\ cv.s_r = 0 /\ cv.c_r = 0, a, w)
        BY <2>1, AccumulatedInt DEF CvTyped
    <2>4. PICK y : y = ConvNextProduct(cv)
        OBVIOUS
    <2>5. PICK wa \in Int : wa = conv_wr_addr(cv)
        BY <2>1, CmdFields, AddressesInt, Wrapped DEF conv_wr_addr, CvTyped
    <2>6. PICK d \in int8 : d = postproc(sum, wt[uint16(cv.cmd_r.bias_addr + cv.k_r)], cv.cmd_r)
        <3>1. cv.cmd_r.bias_addr \in Int /\ cv.k_r \in Int
            BY <2>1, CmdFields, AddressesInt DEF CvTyped
        <3>2. PICK bias \in Int : bias = wt[uint16(cv.cmd_r.bias_addr + cv.k_r)]
            BY <3>1, Wrapped, BytesAreInts
        <3>3. postproc(sum, bias, cv.cmd_r) \in int8
            BY <2>1, CmdFields, PostprocByte
        <3>4. QED
            BY <3>2, <3>3
    <2>7. PICK r \in Result : r = [addr |-> wa, data |-> d]
        BY DEF Result
    <2>8. cv' = [y EXCEPT !.state = IF conv_inner_last(cv) /\ conv_outer_last(cv) THEN "DRAIN" ELSE @,
                          !.acc_r = sum,
                          !.wr_addr_iter_r = IF conv_inner_last(cv) THEN wa ELSE @,
                          !.first_last_inner_seen_r = @ \/ conv_inner_last(cv),
                          !.sums = IF conv_inner_last(cv) THEN Append(@, r) ELSE @]
        BY <1>2, <2>2, <2>3, <2>4, <2>5, <2>6, <2>7 DEF ConvCompute
    <2>9. CvInv'
        <3>1. /\ CvTyped(y) /\ y.cmd_r = cv.cmd_r /\ y.state = "COMPUTE"
              /\ ~(conv_inner_last(cv) /\ conv_outer_last(cv)) => CvInside(y)
            BY <2>1, <2>4, ConvLoops
        <3>2. /\ CvFields \subseteq DOMAIN cv' /\ cv'.cmd_r = cv.cmd_r
              /\ cv'.state = IF conv_inner_last(cv) /\ conv_outer_last(cv) THEN "DRAIN" ELSE "COMPUTE"
              /\ cv'.acc_r = sum /\ cv'.wr_addr_iter_r \in Int
              /\ cv'.oh_r = y.oh_r /\ cv'.ow_r = y.ow_r /\ cv'.k_r = y.k_r
              /\ cv'.r_r = y.r_r /\ cv'.s_r = y.s_r /\ cv'.c_r = y.c_r
            BY <2>8, <3>1 DEF CvTyped, CvFields
        <3>3. DOMAIN y = DOMAIN cv /\ y.sums = cv.sums /\ y.pipe = cv.pipe
            BY <2>1, <2>4 DEF ConvNextProduct, ConvNextOutput, ResultsOK, MacFields
        <3>4. /\ MacFields \subseteq DOMAIN cv' /\ cv'.pipe = cv.pipe
              /\ cv'.sums = cv.sums \/ cv'.sums = Append(cv.sums, r)
            BY <2>1, <2>8, <3>3 DEF ResultsOK, MacFields
        <3>5. ResultsOK(cv')
            BY <2>1, <3>4, ResultsGrow
        <3>6. QED
            BY <2>1, <3>1, <3>2, <3>5 DEF CvInv, CvTyped, CvInside, ResultsOK
    <2>10. PortsOK'
        BY <1>2, NoAccessKeeps DEF ConvCompute
    <2>11. QED
        BY <2>9, <2>10
<1>3. CASE ConvTrigger \/ ConvWrite \/ ConvDrain \/ ConvDone
    <2>1. ResultsOK(cv')
        <3>1. CASE ConvDrain
            BY <3>1 DEF ConvDrain, CvInv, ResultsOK, MacFields
        <3>2. CASE ConvTrigger
            BY <3>2, ResultsMove DEF ConvTrigger, CvInv
        <3>3. CASE ConvWrite
            BY <3>3, ResultsMove DEF ConvWrite, CvInv
        <3>4. CASE ConvDone
            BY <3>4, ResultsMove DEF ConvDone, CvInv
        <3> QED BY <1>3, <3>1, <3>2, <3>3, <3>4
    <2>2. PICK l : l = Latched(cv)
        OBVIOUS
    <2>3. /\ DOMAIN l = DOMAIN cv /\ l.cmd_r = cv.cmd_r
          /\ l.state = "IDLE" \/ l.state = cv.state
          /\ l.oh_r = cv.oh_r /\ l.ow_r = cv.ow_r /\ l.k_r = cv.k_r
          /\ l.r_r = cv.r_r /\ l.s_r = cv.s_r /\ l.c_r = cv.c_r
          /\ l.acc_r = cv.acc_r /\ l.wr_addr_iter_r = cv.wr_addr_iter_r
        BY <2>2 DEF Latched, CvInv, CvTyped, CvFields
    <2>6. PICK q, p : \/ cv' = [l EXCEPT !.sums = q, !.pipe = p]
                      \/ cv' = [l EXCEPT !.pipe = p]
                      \/ cv' = l
                      \/ cv' = [cv EXCEPT !.state = "DONE"] /\ cv.state = "DRAIN"
        BY <1>3, <2>2 DEF ConvTrigger, ConvWrite, ConvDrain, ConvDone, Triggered, Written
    <2>7. /\ DOMAIN cv' = DOMAIN cv /\ cv'.cmd_r = cv.cmd_r
          /\ cv'.state \in {"IDLE", "DONE", cv.state}
          /\ cv.state = "IDLE" => cv'.state = "IDLE"
          /\ cv'.oh_r = cv.oh_r /\ cv'.ow_r = cv.ow_r /\ cv'.k_r = cv.k_r
          /\ cv'.r_r = cv.r_r /\ cv'.s_r = cv.s_r /\ cv'.c_r = cv.c_r
          /\ cv'.acc_r = cv.acc_r /\ cv'.wr_addr_iter_r = cv.wr_addr_iter_r
        BY <2>3, <2>6 DEF CvInv, CvTyped, CvFields
    <2>4. CvInv'
        BY <2>1, <2>7, ConvSame
    <2>5. PortsOK'
        <3>1. CASE ConvWrite
            <4>1. Head(cv.pipe) \in Result
                BY <3>1, ResultsMove DEF ConvWrite, CvInv
            <4> QED BY <3>1, <4>1, WriteActKeeps DEF ConvWrite, Result
        <3>2. CASE ~ ConvWrite
            BY <1>3, <3>2, NoAccessKeeps DEF ConvTrigger, ConvDrain, ConvDone
        <3> QED BY <3>1, <3>2
    <2> QED BY <2>4, <2>5
<1>4. QED
    BY <1>1, <1>2, <1>3 DEF ConvStep

GmFields == {"state", "cmd_r", "m_r", "n_r", "k_r", "acc_r"}

GmTyped(x) ==
    /\ GmFields \subseteq DOMAIN x
    /\ x.m_r \in Nat /\ x.n_r \in Nat /\ x.k_r \in Nat /\ x.acc_r \in Int

GmInside(x) == x.m_r < x.cmd_r.m_dim /\ x.n_r < x.cmd_r.n_dim

GmCmd(g) ==
    /\ g.a_addr \in Int /\ g.b_addr \in Int /\ g.c_addr \in Int /\ g.bias_addr \in Int
    /\ g.m_dim \in Addresses \ {0} /\ g.n_dim \in Addresses \ {0} /\ g.k_dim \in Int
    /\ 2^g.quant_shift \in Int /\ 2^g.quant_shift > 0

GmInv ==
    /\ GmTyped(gm) /\ ResultsOK(gm)
    /\ gm.state # "IDLE" => GmCmd(gm.cmd_r)
    /\ gm.state = "COMPUTE" => GmInside(gm)

\* The loop nest stays inside its bounds until its last product.
LEMMA GemmLoops ==
    ASSUME GmInv, gm.state = "COMPUTE"
    PROVE  /\ GmTyped(GemmNextProduct(gm))
           /\ GemmNextProduct(gm).cmd_r = gm.cmd_r /\ GemmNextProduct(gm).state = "COMPUTE"
           /\ ~(gemm_last_k(gm) /\ gemm_last_n(gm) /\ gemm_last_m(gm))
                => GmInside(GemmNextProduct(gm))
<1>1. /\ gm.cmd_r.m_dim \in Nat /\ gm.cmd_r.n_dim \in Nat
      /\ uint32(gm.cmd_r.m_dim - 1) = gm.cmd_r.m_dim - 1
      /\ uint32(gm.cmd_r.n_dim - 1) = gm.cmd_r.n_dim - 1
    BY LastOf, AddressesInt DEF GmInv, GmCmd
<1>2. /\ uint16(gm.k_r + 1) \in Nat
      /\ uint16(gm.m_r + 1) = gm.m_r + 1 /\ uint16(gm.n_r + 1) = gm.n_r + 1
    BY Counted DEF GmInv, GmTyped, GmInside, GmCmd
<1>3. QED
    BY <1>1, <1>2 DEF GmFields, GmTyped, GmInside, GmInv, GemmNextProduct, gemm_last_k,
                      gemm_last_n, gemm_last_m

\* The counters do not move when a result does.
LEMMA GemmSame ==
    ASSUME GmInv, DOMAIN gm' = DOMAIN gm, ResultsOK(gm'),
           gm'.state \in {"IDLE", "DONE", gm.state}, gm.state = "IDLE" => gm'.state = "IDLE",
           gm'.cmd_r = gm.cmd_r, gm'.m_r = gm.m_r, gm'.n_r = gm.n_r, gm'.k_r = gm.k_r,
           gm'.acc_r = gm.acc_r
    PROVE  GmInv'
BY DEF GmInv, GmTyped, GmInside, ResultsOK

LEMMA GemmKeeps == ASSUME GmInv, PortsOK, GemmStep PROVE GmInv' /\ PortsOK'
<1>1. CASE GemmLoadCfg
    <2>1. PortsOK'
        BY <1>1, NoAccessKeeps DEF GemmLoadCfg
    <2>2. GmTyped(gm)' /\ gm'.cmd_r = gm.cmd_r /\ gm'.m_r = 0 /\ gm'.n_r = 0
        BY <1>1 DEF GemmLoadCfg, GmInv, GmTyped, GmFields
    <2>3. GmCmd(gm.cmd_r)
        BY <1>1 DEF GemmLoadCfg, GmInv
    <2>4. gm.cmd_r.m_dim > 0 /\ gm.cmd_r.n_dim > 0
        BY <2>3, AddressesInt DEF GmCmd
    <2>5. ResultsOK(gm)'
        BY <1>1 DEF GemmLoadCfg, GmInv, ResultsOK, MacFields
    <2>6. QED
        BY <2>1, <2>2, <2>3, <2>4, <2>5 DEF GmInv, GmInside
<1>2. CASE GemmCompute
    <2>1. gm.state = "COMPUTE" /\ GmTyped(gm) /\ GmCmd(gm.cmd_r)
          /\ ResultsOK(gm) /\ iter_ready(gm)
        BY <1>2 DEF GemmCompute, GmInv
    <2>0. /\ gm.m_r \in Int /\ gm.n_r \in Int /\ gm.k_r \in Int
          /\ gm.cmd_r.n_dim \in Int /\ gm.cmd_r.k_dim \in Int
        BY <2>1, AddressesInt DEF GmTyped, GmCmd
    <2>2. PICK m \in Int, n \in Int, k \in Int, nd \in Int, kd \in Int :
            /\ m = gm.m_r /\ n = gm.n_r /\ k = gm.k_r
            /\ nd = gm.cmd_r.n_dim /\ kd = gm.cmd_r.k_dim
        BY <2>0
    <2>3. m * kd \in Int /\ k * nd \in Int /\ m * nd \in Int
        OBVIOUS
    <2>4. PICK a \in Int, w \in Int :
            a = act[a_addr(gm.cmd_r, gm.m_r, gm.k_r)] /\ w = wt[b_addr(gm.cmd_r, gm.k_r, gm.n_r)]
        <3>1. gm.cmd_r.a_addr + m * kd + k \in Int /\ gm.cmd_r.b_addr + k * nd + n \in Int
            BY <2>1, <2>3 DEF GmCmd
        <3>2. /\ a_addr(gm.cmd_r, gm.m_r, gm.k_r) \in Addresses
              /\ b_addr(gm.cmd_r, gm.k_r, gm.n_r) \in Addresses
            BY <2>2, <3>1, Wrapped DEF a_addr, b_addr
        <3>3. QED
            BY <3>2, BytesAreInts
    <2>5. PICK sum \in Int : sum = Accumulated(gm.acc_r, gm.k_r = 0, a, w)
        BY <2>1, AccumulatedInt DEF GmTyped
    <2>6. PICK y : y = GemmNextProduct(gm)
        OBVIOUS
    <2>7. PICK addr \in Int : addr = gm.cmd_r.c_addr + gm.m_r * gm.cmd_r.n_dim + gm.n_r
        BY <2>1, <2>2, <2>3 DEF GmCmd
    <2>8. PICK d \in int8 : d = postproc(sum, wt[uint16(gm.cmd_r.bias_addr + gm.n_r)], gm.cmd_r)
        <3>1. uint16(gm.cmd_r.bias_addr + gm.n_r) \in Addresses
            BY <2>0, <2>1, Wrapped DEF GmCmd
        <3>2. PICK bias \in Int : bias = wt[uint16(gm.cmd_r.bias_addr + gm.n_r)]
            BY <3>1, BytesAreInts
        <3>3. postproc(sum, bias, gm.cmd_r) \in int8
            BY <2>1, PostprocByte DEF GmCmd
        <3>4. QED
            BY <3>2, <3>3
    <2>9. PICK r \in Result : r = [addr |-> addr, data |-> d]
        BY DEF Result
    <2>10. gm' = [y EXCEPT !.state = IF gemm_last_k(gm) /\ gemm_last_n(gm) /\ gemm_last_m(gm)
                                     THEN "DRAIN" ELSE @,
                           !.acc_r = sum,
                           !.sums = IF gemm_last_k(gm) THEN Append(@, r) ELSE @]
        BY <1>2, <2>4, <2>5, <2>6, <2>7, <2>8, <2>9 DEF GemmCompute
    <2>11. GmInv'
        <3>1. /\ GmTyped(y) /\ y.cmd_r = gm.cmd_r /\ y.state = "COMPUTE"
              /\ ~(gemm_last_k(gm) /\ gemm_last_n(gm) /\ gemm_last_m(gm)) => GmInside(y)
            BY <2>1, <2>6, GemmLoops
        <3>2. /\ GmFields \subseteq DOMAIN gm' /\ gm'.cmd_r = gm.cmd_r
              /\ gm'.state = IF gemm_last_k(gm) /\ gemm_last_n(gm) /\ gemm_last_m(gm)
                             THEN "DRAIN" ELSE "COMPUTE"
              /\ gm'.acc_r = sum
              /\ gm'.m_r = y.m_r /\ gm'.n_r = y.n_r /\ gm'.k_r = y.k_r
            BY <2>10, <3>1 DEF GmTyped, GmFields
        <3>3. DOMAIN y = DOMAIN gm /\ y.sums = gm.sums /\ y.pipe = gm.pipe
            BY <2>1, <2>6 DEF GemmNextProduct, ResultsOK, MacFields
        <3>4. /\ MacFields \subseteq DOMAIN gm' /\ gm'.pipe = gm.pipe
              /\ gm'.sums = gm.sums \/ gm'.sums = Append(gm.sums, r)
            BY <2>1, <2>10, <3>3 DEF ResultsOK, MacFields
        <3>5. ResultsOK(gm')
            BY <2>1, <3>4, ResultsGrow
        <3>6. QED
            BY <2>1, <3>1, <3>2, <3>5 DEF GmInv, GmTyped, GmInside, ResultsOK
    <2>12. PortsOK'
        BY <1>2, NoAccessKeeps DEF GemmCompute
    <2>13. QED
        BY <2>11, <2>12
<1>3. CASE GemmTrigger \/ GemmWrite \/ GemmDrain \/ GemmDone
    <2>1. ResultsOK(gm')
        <3>1. CASE GemmDrain
            BY <3>1 DEF GemmDrain, GmInv, ResultsOK, MacFields
        <3>2. CASE GemmTrigger
            BY <3>2, ResultsMove DEF GemmTrigger, GmInv
        <3>3. CASE GemmWrite
            BY <3>3, ResultsMove DEF GemmWrite, GmInv
        <3>4. CASE GemmDone
            BY <3>4, ResultsMove DEF GemmDone, GmInv
        <3> QED BY <1>3, <3>1, <3>2, <3>3, <3>4
    <2>2. PICK l : l = Latched(gm)
        OBVIOUS
    <2>3. /\ DOMAIN l = DOMAIN gm /\ l.cmd_r = gm.cmd_r
          /\ l.state = "IDLE" \/ l.state = gm.state
          /\ l.m_r = gm.m_r /\ l.n_r = gm.n_r /\ l.k_r = gm.k_r /\ l.acc_r = gm.acc_r
        BY <2>2 DEF Latched, GmInv, GmTyped, GmFields
    <2>6. PICK q, p : \/ gm' = [l EXCEPT !.sums = q, !.pipe = p]
                      \/ gm' = [l EXCEPT !.pipe = p]
                      \/ gm' = l
                      \/ gm' = [gm EXCEPT !.state = "DONE"] /\ gm.state = "DRAIN"
        BY <1>3, <2>2 DEF GemmTrigger, GemmWrite, GemmDrain, GemmDone, Triggered, Written
    <2>7. /\ DOMAIN gm' = DOMAIN gm /\ gm'.cmd_r = gm.cmd_r
          /\ gm'.state \in {"IDLE", "DONE", gm.state}
          /\ gm.state = "IDLE" => gm'.state = "IDLE"
          /\ gm'.m_r = gm.m_r /\ gm'.n_r = gm.n_r /\ gm'.k_r = gm.k_r /\ gm'.acc_r = gm.acc_r
        BY <2>3, <2>6 DEF GmInv, GmTyped, GmFields
    <2>4. GmInv'
        BY <2>1, <2>7, GemmSame
    <2>5. PortsOK'
        <3>1. CASE GemmWrite
            <4>1. Head(gm.pipe) \in Result
                BY <3>1, ResultsMove DEF GemmWrite, GmInv
            <4> QED BY <3>1, <4>1, WriteActKeeps DEF GemmWrite, Result
        <3>2. CASE ~ GemmWrite
            BY <1>3, <3>2, NoAccessKeeps DEF GemmTrigger, GemmDrain, GemmDone
        <3> QED BY <3>1, <3>2
    <2> QED BY <2>4, <2>5
<1>4. QED
    BY <1>1, <1>2, <1>3 DEF GemmStep

-----------------------------------------------------------------------------
(***************************************************************************)
(* The restoring divider of lnorm_ctrl and pool_ctrl.  With n cycles to go *)
(* its quotient register holds the n bits of the dividend that are still   *)
(* to come, lo, above the quotient so far, q.                              *)
(***************************************************************************)
DivFields == {"quot", "rem", "denom", "cnt"}

DivLeft(d, numer, n) ==
    /\ DivFields \subseteq DOMAIN d
    /\ d.denom \in Nat /\ d.rem \in Nat /\ d.rem < d.denom /\ 2 * d.denom <= 2^ACC_W
    /\ 2^n * 2^(ACC_W - n) = 2^ACC_W
    /\ \E lo, q \in Nat :
        /\ lo < 2^n /\ q < 2^(ACC_W - n)
        /\ d.quot = lo * 2^(ACC_W - n) + q
        /\ numer = (q * d.denom + d.rem) * 2^n + lo

LEMMA MulMono == \A x, y \in Int, z \in Nat : x <= y => x * z <= y * z
OBVIOUS

\* The top bit of the register and what a shift leaves: A and B are the weights
\* of the next dividend bit and of the first quotient bit above the quotient.
LEMMA TopBit ==
    ASSUME NEW A \in Nat, NEW B \in Nat, NEW H \in Nat, H > 0, A * B = H,
           NEW l \in Nat, NEW q \in Nat, l < A, q < B
    PROVE  /\ (l * B + q) \in Nat /\ l * B + q < H
           /\ (l * B + q) \div H = 0
           /\ (H + (l * B + q)) \div H = 1
           /\ (2 * (l * B + q)) % (2 * H) = 2 * (l * B + q)
           /\ (2 * (H + (l * B + q))) % (2 * H) = 2 * (l * B + q)
<1>1. l * B <= (A - 1) * B
    BY MulMono
<1>2. (A - 1) * B = H - B
    OBVIOUS
<1>3. l * B \in Nat
    OBVIOUS
<1>4. PICK r \in Nat : r = l * B + q /\ r < H
    BY <1>1, <1>2, <1>3
<1>5. r \div H = 0 /\ (H + r) \div H = 1
    BY <1>4
<1>6. (2 * r) % (2 * H) = 2 * r /\ (2 * (H + r)) % (2 * H) = 2 * r
    BY <1>4
<1>7. QED
    BY <1>4, <1>5, <1>6

\* One cycle brings in a bit of the dividend and a bit of the quotient.
LEMMA DivStep ==
    ASSUME NEW d, NEW numer, NEW n \in 1 .. ACC_W, DivLeft(d, numer, n)
    PROVE  DivLeft(div_step(d), numer, n - 1) /\ div_step(d).denom = d.denom
<1>0. ACC_W \in Nat /\ n \in Int /\ 1 <= n /\ n <= ACC_W
    BY AccWAssumption
<1>1. PICK M \in Nat, H \in Nat, A \in Nat, B \in Nat :
        /\ M = 2^ACC_W /\ H = 2^(ACC_W - 1) /\ A = 2^(n - 1) /\ B = 2^(ACC_W - n)
        /\ M = 2 * H /\ H > 0 /\ 2^n = 2 * A /\ 2^(ACC_W - (n - 1)) = 2 * B
    <2>1. ACC_W - 1 \in 0 .. ACC_W /\ n - 1 \in 0 .. ACC_W /\ ACC_W - n \in 0 .. ACC_W
        BY <1>0
    <2>2. /\ (ACC_W - 1) + 1 = ACC_W /\ (n - 1) + 1 = n /\ (ACC_W - n) + 1 = ACC_W - (n - 1)
        BY <1>0
    <2>3. /\ 2^(ACC_W - 1) > 0 /\ 2^(n - 1) > 0 /\ 2^(ACC_W - n) > 0
          /\ 2^ACC_W = 2 * 2^(ACC_W - 1) /\ 2^n = 2 * 2^(n - 1)
          /\ 2^(ACC_W - (n - 1)) = 2 * 2^(ACC_W - n)
        BY <2>1, <2>2, PowerAssumption
    <2>4. 2^(ACC_W - 1) \in Nat /\ 2^(n - 1) \in Nat /\ 2^(ACC_W - n) \in Nat /\ 2^ACC_W \in Nat
        <3>1. 2^(ACC_W - 1) \in Int /\ 2^(n - 1) \in Int /\ 2^(ACC_W - n) \in Int
            BY <1>0
        <3>2. QED
            BY <2>3, <3>1
    <2>5. QED
        BY <2>3, <2>4
<1>2. PICK D \in Nat, R \in Nat : D = d.denom /\ R = d.rem /\ R < D /\ 2 * D <= M
    BY <1>1 DEF DivLeft
<1>3. PICK lo \in Nat, q \in Nat :
        /\ lo < 2 * A /\ q < B /\ d.quot = lo * B + q
        /\ numer = (q * D + R) * (2 * A) + lo
    BY <1>1, <1>2 DEF DivLeft
<1>4. A * B = H
    <2>1. (2 * A) * B = 2 * H
        BY <1>1 DEF DivLeft
    <2>2. QED
        BY <2>1
<1>5. PICK b \in {0, 1}, l \in Nat : lo = b * A + l /\ l < A
    <2>1. CASE lo < A
        <3>1. lo = 0 * A + lo
            OBVIOUS
        <3>2. QED
            BY <2>1, <3>1
    <2>2. CASE lo >= A
        <3>1. lo = 1 * A + (lo - A) /\ lo - A \in Nat /\ lo - A < A
            BY <2>2, <1>3
        <3>2. QED
            BY <3>1
    <2>3. QED
        BY <2>1, <2>2
<1>6. d.quot \div H = b /\ (2 * d.quot) % M = 2 * (l * B + q)
    <2>0. H > 0 /\ l < A /\ q < B
        BY <1>1, <1>3, <1>5
    <2>1. /\ (l * B + q) \div H = 0 /\ (H + (l * B + q)) \div H = 1
          /\ (2 * (l * B + q)) % (2 * H) = 2 * (l * B + q)
          /\ (2 * (H + (l * B + q))) % (2 * H) = 2 * (l * B + q)
        BY <1>4, <2>0, TopBit
    <2>2. d.quot = b * H + (l * B + q)
        <3>1. lo * B = b * (A * B) + l * B
            BY <1>5
        <3>2. QED
            BY <1>3, <1>4, <3>1
    <2>3. CASE b = 0
        <3>1. d.quot = l * B + q
            BY <2>2, <2>3
        <3>2. QED
            BY <1>1, <2>1, <2>3, <3>1
    <2>4. CASE b = 1
        <3>1. d.quot = H + (l * B + q)
            BY <2>2, <2>4
        <3>2. QED
            BY <1>1, <2>1, <2>4, <3>1
    <2>5. QED
        BY <1>5, <2>3, <2>4
<1>7. (2 * R) % M = 2 * R
    BY <1>1, <1>2
<1>8. PICK f \in {0, 1}, R2 \in Nat :
        /\ f = IF 2 * R + b >= D THEN 1 ELSE 0
        /\ R2 = 2 * R + b - f * D /\ R2 < D
    <2>1. CASE 2 * R + b >= D
        <3>1. 2 * R + b - 1 * D \in Nat /\ 2 * R + b - 1 * D < D
            BY <1>2, <1>5, <2>1
        <3>2. QED
            BY <2>1, <3>1
    <2>2. CASE 2 * R + b < D
        <3>1. 2 * R + b - 0 * D = 2 * R + b /\ 2 * R + b \in Nat /\ ~(2 * R + b >= D)
            BY <1>2, <1>5, <2>2
        <3>2. QED
            BY <2>2, <3>1
    <2>3. QED
        BY <1>2, <1>5, <2>1, <2>2
<1>9. PICK e : e = div_step(d)
    OBVIOUS
<1>10. /\ DivFields \subseteq DOMAIN e /\ e.denom = D
       /\ e.rem = R2 /\ e.quot = 2 * (l * B + q) + f
    <2>1. PICK trial \in Nat : trial = 2 * R + b
        BY <1>5
    <2>2. ((2 * d.rem) % 2^ACC_W) + d.quot \div 2^(ACC_W - 1) = trial
        BY <1>1, <1>2, <1>6, <1>7, <2>1
    <2>3. e = [d EXCEPT !.quot = ((2 * @) % 2^ACC_W) + (IF trial >= d.denom THEN 1 ELSE 0),
                        !.rem = IF trial >= d.denom THEN trial - d.denom ELSE trial,
                        !.cnt = (@ - 1) % ACC_W]
        BY <1>9, <2>2 DEF div_step
    <2>4. /\ DivFields \subseteq DOMAIN e /\ e.denom = d.denom
          /\ e.rem = (IF trial >= d.denom THEN trial - d.denom ELSE trial)
          /\ e.quot = ((2 * d.quot) % 2^ACC_W) + (IF trial >= d.denom THEN 1 ELSE 0)
        BY <2>3 DEF DivLeft, DivFields
    <2>5. (IF trial >= d.denom THEN trial - d.denom ELSE trial) = R2
        BY <1>2, <1>8, <2>1
    <2>6. (IF trial >= d.denom THEN 1 ELSE 0) = f
        BY <1>2, <1>8, <2>1
    <2>7. QED
        BY <1>1, <1>2, <1>6, <2>4, <2>5, <2>6
<1>11. PICK q2 \in Nat : q2 = 2 * q + f /\ q2 < 2 * B
    BY <1>3, <1>8
<1>12. e.quot = l * (2 * B) + q2
    BY <1>10, <1>11
<1>13. numer = (q2 * D + R2) * A + l
    <2>1. numer = (q * D + R) * (2 * A) + (b * A + l)
        BY <1>3, <1>5
    <2>2. (q * D + R) * (2 * A) + b * A = (2 * (q * D) + 2 * R + b) * A
        OBVIOUS
    <2>3. 2 * (q * D) + 2 * R + b = q2 * D + R2
        BY <1>8, <1>11
    <2>4. QED
        BY <2>1, <2>2, <2>3
<1>14. A * (2 * B) = M
    BY <1>1, <1>4
<1>15. DivLeft(e, numer, n - 1)
    BY <1>1, <1>2, <1>5, <1>8, <1>10, <1>11, <1>12, <1>13, <1>14 DEF DivLeft
<1>16. QED
    BY <1>2, <1>9, <1>10, <1>15

\* A division that is set up has all its cycles to go.
LEMMA DivStart ==
    ASSUME NEW numer \in Nat, numer < 2^ACC_W, NEW denom \in Nat, denom > 0,
           2 * denom <= 2^ACC_W
    PROVE  DivLeft(div_start(numer, denom), numer, ACC_W)
<1>1. PICK M \in Nat : M = 2^ACC_W
    BY AccWAssumption, PowerAssumption
<1>2. 2^(ACC_W - ACC_W) = 1
    BY AccWAssumption
<1>3. PICK e : e = div_start(numer, denom)
    OBVIOUS
<1>4. DivFields \subseteq DOMAIN e /\ e.denom = denom /\ e.rem = 0 /\ e.quot = numer
    BY <1>3 DEF div_start, DivFields
<1>5. M * 1 = M /\ numer * 1 + 0 = numer /\ (0 * denom + 0) * M + numer = numer
    OBVIOUS
<1>6. DivLeft(e, numer, ACC_W)
    BY <1>1, <1>2, <1>4, <1>5 DEF DivLeft
<1>7. QED
    BY <1>3, <1>6

\* After ACC_W cycles the register holds the quotient.
LEMMA DivEnd ==
    ASSUME NEW d, NEW numer, DivLeft(d, numer, 0)
    PROVE  d.quot \in Nat /\ numer = d.quot * d.denom + d.rem /\ d.rem \in 0 .. d.denom - 1
<1>1. 2^0 = 1
    OBVIOUS
<1>2. PICK lo \in Nat, q \in Nat :
        /\ lo < 1 /\ d.quot = lo * 2^(ACC_W - 0) + q
        /\ numer = (q * d.denom + d.rem) * 1 + lo
    BY <1>1 DEF DivLeft
<1>3. lo = 0
    BY <1>2
<1>4. 2^(ACC_W - 0) \in Int
    BY AccWAssumption
<1>5. d.quot = q
    BY <1>2, <1>3, <1>4
<1>6. QED
    BY <1>2, <1>3, <1>5 DEF DivLeft

-----------------------------------------------------------------------------
LEMMA SmallMod == \A x, m \in Nat : x < m => x % m = x
OBVIOUS

\* A quotient with its remainder is the quotient.
LEMMA QuotientIs ==
    ASSUME NEW x \in Nat, NEW n \in Nat, NEW q \in Nat, NEW r \in Nat, r < n, x = q * n + r
    PROVE  x \div n = q
<1>1. PICK p \in Int, s \in Int : p = x \div n /\ x = p * n + s /\ 0 <= s /\ s < n
    <2>1. n > 0
        OBVIOUS
    <2>2. x \div n \in Int /\ (x % n) \in 0 .. n - 1 /\ x = (x \div n) * n + (x % n)
        BY <2>1
    <2>3. QED
        BY <2>2
<1>2. ~(p + 1 <= q)
    <2>1. SUFFICES ASSUME p + 1 <= q PROVE FALSE
        OBVIOUS
    <2>2. (p + 1) * n <= q * n
        BY <2>1, MulMono
    <2>3. QED
        BY <1>1, <2>2
<1>3. ~(q + 1 <= p)
    <2>1. SUFFICES ASSUME q + 1 <= p PROVE FALSE
        OBVIOUS
    <2>2. (q + 1) * n <= p * n
        BY <2>1, MulMono
    <2>3. QED
        BY <1>1, <2>2
<1>4. QED
    BY <1>1, <1>2, <1>3

-----------------------------------------------------------------------------
(***************************************************************************)
(* The root of lnorm_ctrl.  With k digits to go the input register holds   *)
(* the 2 * k bits of the radicand that are still to come, lo, at its top,  *)
(* and result is the root of the bits before them, with remainder rem.     *)
(***************************************************************************)
RootLeft(s, v, k) ==
    /\ s.result \in Nat /\ s.rem \in Nat /\ s.rem <= 2 * s.result
    /\ (s.result + 1) * 2^k <= 2^(ACC_W \div 2)
    /\ 2^(2 * k) * 2^(ACC_W - 2 * k) = 2^ACC_W
    /\ \E lo \in Nat :
        /\ lo < 2^(2 * k) /\ s.input = lo * 2^(ACC_W - 2 * k)
        /\ v = (s.result * s.result + s.rem) * 2^(2 * k) + lo

\* Half the width of the accumulator.
LEMMA HalfWidth ==
    /\ ACC_W \div 2 \in 1 .. ACC_W /\ 2 * (ACC_W \div 2) = ACC_W
    /\ 2^(ACC_W \div 2) \in Nat /\ 2^(ACC_W \div 2) >= 2
<1>1. ACC_W \div 2 \in 1 .. ACC_W /\ 2 * (ACC_W \div 2) = ACC_W
    BY AccWAssumption
<1>2. ACC_W \div 2 - 1 \in 0 .. ACC_W /\ (ACC_W \div 2 - 1) + 1 = ACC_W \div 2
    BY <1>1, AccWAssumption
<1>3. 2^(ACC_W \div 2 - 1) > 0 /\ 2^(ACC_W \div 2) = 2 * 2^(ACC_W \div 2 - 1)
    BY <1>2, PowerAssumption
<1>4. 2^(ACC_W \div 2 - 1) \in Int
    BY <1>2, AccWAssumption
<1>5. QED
    BY <1>1, <1>3, <1>4

\* Two bits of weight four each way.
LEMMA QuarterSteps ==
    ASSUME NEW m \in 0 .. ACC_W - 2
    PROVE  2^m \in Nat /\ 2^m > 0 /\ 2^(m + 2) = 4 * 2^m
<1>1. ACC_W \in Nat /\ m \in Nat /\ m \in 0 .. ACC_W /\ m + 1 \in 0 .. ACC_W /\ (m + 1) + 1 = m + 2
    BY AccWAssumption
<1>2. 2^m > 0 /\ 2^(m + 1) = 2 * 2^m /\ 2^(m + 2) = 2 * 2^(m + 1)
    BY <1>1, PowerAssumption
<1>3. 2^m \in Int
    BY <1>1
<1>4. QED
    BY <1>2, <1>3

\* The two top bits of the register and what a shift leaves.
LEMMA TopBits ==
    ASSUME NEW Q \in Nat, NEW r \in Nat, r < Q, NEW t \in 0 .. 3
    PROVE  (t * Q + r) \div Q = t /\ (4 * (t * Q + r)) % (4 * Q) = 4 * r
<1>1. CASE t = 0
    BY <1>1
<1>2. CASE t = 1
    BY <1>2
<1>3. CASE t = 2
    BY <1>3
<1>4. CASE t = 3
    BY <1>4
<1>5. QED
    BY <1>1, <1>2, <1>3, <1>4

\* One cycle brings in two bits of the radicand and a digit of the root.
LEMMA RootStep ==
    ASSUME NEW s, NEW v, NEW k \in 1 .. ACC_W \div 2, RootLeft(s, v, k)
    PROVE  RootLeft(sqrt_step(s), v, k - 1)
<1>0. /\ ACC_W \in Nat /\ k \in Nat /\ 1 <= k /\ 2 * k <= ACC_W /\ k <= ACC_W
      /\ k - 1 \in Nat /\ 2 * (k - 1) = 2 * k - 2
    BY AccWAssumption, HalfWidth
<1>1. PICK M \in Nat, Q \in Nat, A \in Nat, B \in Nat :
        /\ M = 2^ACC_W /\ Q = 2^(ACC_W - 2) /\ A = 2^(2 * (k - 1)) /\ B = 2^(ACC_W - 2 * k)
        /\ M = 4 * Q /\ Q > 0 /\ B > 0
        /\ 2^(2 * k) = 4 * A /\ 2^(ACC_W - 2 * (k - 1)) = 4 * B
    <2>1. /\ ACC_W - 2 \in 0 .. ACC_W - 2 /\ 2 * (k - 1) \in 0 .. ACC_W - 2
          /\ ACC_W - 2 * k \in 0 .. ACC_W - 2
        BY <1>0
    <2>2. /\ (ACC_W - 2) + 2 = ACC_W /\ 2 * (k - 1) + 2 = 2 * k
          /\ (ACC_W - 2 * k) + 2 = ACC_W - 2 * (k - 1)
        BY <1>0
    <2>3. /\ 2^(ACC_W - 2) \in Nat /\ 2^(ACC_W - 2) > 0 /\ 2^ACC_W = 4 * 2^(ACC_W - 2)
          /\ 2^(2 * (k - 1)) \in Nat /\ 2^(2 * k) = 4 * 2^(2 * (k - 1))
          /\ 2^(ACC_W - 2 * k) \in Nat /\ 2^(ACC_W - 2 * k) > 0
          /\ 2^(ACC_W - 2 * (k - 1)) = 4 * 2^(ACC_W - 2 * k)
        BY <2>1, <2>2, QuarterSteps
    <2>4. 2^ACC_W \in Nat
        BY <2>3
    <2>5. QED
        BY <2>3, <2>4
<1>2. PICK r \in Nat, R \in Nat, lo \in Nat :
        /\ r = s.result /\ R = s.rem /\ R <= 2 * r
        /\ lo < 4 * A /\ s.input = lo * B
        /\ v = (r * r + R) * (4 * A) + lo
    BY <1>1 DEF RootLeft
<1>3. A * B = Q
    <2>1. (4 * A) * B = 4 * Q
        BY <1>1 DEF RootLeft
    <2>2. QED
        BY <2>1
<1>4. PICK t \in 0 .. 3, l \in Nat : lo = t * A + l /\ l < A
    <2>1. CASE lo < A
        <3>1. lo = 0 * A + lo
            OBVIOUS
        <3>2. QED
            BY <2>1, <3>1
    <2>2. CASE A <= lo /\ lo < 2 * A
        <3>1. lo = 1 * A + (lo - A) /\ lo - A \in Nat /\ lo - A < A
            BY <2>2
        <3>2. QED
            BY <3>1
    <2>3. CASE 2 * A <= lo /\ lo < 3 * A
        <3>1. lo = 2 * A + (lo - 2 * A) /\ lo - 2 * A \in Nat /\ lo - 2 * A < A
            BY <2>3
        <3>2. QED
            BY <3>1
    <2>4. CASE 3 * A <= lo
        <3>1. lo = 3 * A + (lo - 3 * A) /\ lo - 3 * A \in Nat /\ lo - 3 * A < A
            BY <1>2, <2>4
        <3>2. QED
            BY <3>1
    <2>5. QED
        BY <2>1, <2>2, <2>3, <2>4
<1>5. s.input \div Q = t /\ (4 * s.input) % M = 4 * (l * B)
    <2>1. s.input = t * Q + l * B
        <3>1. lo * B = t * (A * B) + l * B
            BY <1>4
        <3>2. QED
            BY <1>2, <1>3, <3>1
    <2>2. PICK x \in Nat : x = l * B /\ x < Q
        <3>1. l * B <= (A - 1) * B
            BY <1>4, MulMono
        <3>2. (A - 1) * B = Q - B
            BY <1>3
        <3>3. QED
            BY <1>1, <3>1, <3>2
    <2>3. (t * Q + x) \div Q = t /\ (4 * (t * Q + x)) % (4 * Q) = 4 * x
        BY <2>2, TopBits
    <2>4. QED
        BY <1>1, <2>1, <2>2, <2>3
<1>6. PICK H \in Nat, P \in Nat :
        /\ H = 2^(ACC_W \div 2) /\ P = 2^(k - 1) /\ P > 0 /\ H * H = M
        /\ (r + 1) * (2 * P) <= H
    <2>1. k - 1 \in 0 .. ACC_W /\ (k - 1) + 1 = k
        BY <1>0
    <2>2. 2^(k - 1) > 0 /\ 2^k = 2 * 2^(k - 1) /\ 2^(k - 1) \in Int
        BY <1>0, <2>1, PowerAssumption
    <2>3. (r + 1) * 2^k <= 2^(ACC_W \div 2)
        BY <1>2 DEF RootLeft
    <2>4. 2^(k - 1) \in Nat /\ 2^(ACC_W \div 2) \in Nat
        BY <2>2, HalfWidth
    <2>5. (r + 1) * (2 * 2^(k - 1)) <= 2^(ACC_W \div 2)
        BY <2>2, <2>3
    <2>6. 2^(ACC_W \div 2) * 2^(ACC_W \div 2) = M
        BY <1>1, PowerAssumption
    <2>7. QED
        BY <2>2, <2>4, <2>5, <2>6
<1>7. (4 * R) % M = 4 * R
    <2>1. (r + 1) * 2 <= (r + 1) * (2 * P)
        <3>1. 2 * (r + 1) <= (2 * P) * (r + 1)
            BY <1>6, MulMono
        <3>2. QED
            BY <3>1
    <2>2. 2 * r + 2 <= H
        BY <1>6, <2>1
    <2>3. 4 * (H - 2) < H * H
        <3>1. (H - 2) * (H - 2) >= 0
            OBVIOUS
        <3>2. (H - 2) * (H - 2) = H * H - 4 * H + 4
            OBVIOUS
        <3>3. QED
            BY <3>1, <3>2
    <2>4. 4 * R < M
        BY <1>2, <1>6, <2>2, <2>3
    <2>5. QED
        BY <1>1, <2>4, SmallMod
<1>8. PICK f \in {0, 1}, R2 \in Nat :
        /\ f = IF 4 * R + t >= 4 * r + 1 THEN 1 ELSE 0
        /\ R2 = 4 * R + t - f * (4 * r + 1) /\ R2 <= 2 * (2 * r + f)
    <2>1. CASE 4 * R + t >= 4 * r + 1
        <3>1. 4 * R + t - 1 * (4 * r + 1) \in Nat /\ 4 * R + t - 1 * (4 * r + 1) <= 2 * (2 * r + 1)
            BY <1>2, <2>1
        <3>2. QED
            BY <2>1, <3>1
    <2>2. CASE 4 * R + t < 4 * r + 1
        <3>1. /\ 4 * R + t - 0 * (4 * r + 1) \in Nat /\ 4 * R + t - 0 * (4 * r + 1) <= 2 * (2 * r + 0)
              /\ ~(4 * R + t >= 4 * r + 1)
            BY <2>2
        <3>2. QED
            BY <2>2, <3>1
    <2>3. QED
        BY <2>1, <2>2
<1>9. PICK e : e = sqrt_step(s)
    OBVIOUS
<1>10. e.input = 4 * (l * B) /\ e.rem = R2 /\ e.result = 2 * r + f
    <2>1. PICK shifted \in Nat : shifted = 4 * R + t
        OBVIOUS
    <2>2. ((4 * s.rem) % 2^ACC_W) + s.input \div 2^(ACC_W - 2) = shifted
        BY <1>1, <1>2, <1>5, <1>7, <2>1
    <2>3. /\ e.input = (4 * s.input) % 2^ACC_W
          /\ e.rem = (IF shifted >= 4 * s.result + 1 THEN shifted - (4 * s.result + 1) ELSE shifted)
          /\ e.result = 2 * s.result + (IF shifted >= 4 * s.result + 1 THEN 1 ELSE 0)
        BY <1>9, <2>2 DEF sqrt_step
    <2>4. QED
        BY <1>1, <1>2, <1>5, <1>8, <2>1, <2>3
<1>11. PICK r2 \in Nat : r2 = 2 * r + f
    OBVIOUS
<1>12. e.input = l * (4 * B)
    BY <1>10
<1>13. v = (r2 * r2 + R2) * A + l
    <2>1. v = (r * r + R) * (4 * A) + (t * A + l)
        BY <1>2, <1>4
    <2>2. (r * r + R) * (4 * A) + t * A = (4 * (r * r) + 4 * R + t) * A
        OBVIOUS
    <2>3. r2 * r2 + R2 = 4 * (r * r) + 4 * R + t
        <3>1. CASE f = 0
            BY <1>8, <1>11, <3>1
        <3>2. CASE f = 1
            BY <1>8, <1>11, <3>2
        <3>3. QED
            BY <1>8, <3>1, <3>2
    <2>4. QED
        BY <2>1, <2>2, <2>3
<1>14. A * (4 * B) = M
    BY <1>1, <1>3
<1>15. (r2 + 1) * P <= H
    <2>1. (r2 + 1) * P <= (2 * r + 2) * P
        BY <1>8, <1>11, MulMono
    <2>2. (2 * r + 2) * P = (r + 1) * (2 * P)
        OBVIOUS
    <2>3. QED
        BY <1>6, <2>1, <2>2
<1>16. RootLeft(e, v, k - 1)
    BY <1>1, <1>4, <1>6, <1>8, <1>10, <1>11, <1>12, <1>13, <1>14, <1>15 DEF RootLeft
<1>17. QED
    BY <1>9, <1>16

\* A root that is set up has all its digits to go.
LEMMA RootStart ==
    ASSUME NEW s, NEW v \in Nat, v < 2^ACC_W, s.result = 0, s.rem = 0, s.input = v
    PROVE  RootLeft(s, v, ACC_W \div 2)
<1>1. PICK M \in Nat, H \in Nat : M = 2^ACC_W /\ H = 2^(ACC_W \div 2)
    BY AccWAssumption, PowerAssumption, HalfWidth
<1>2. 2^(ACC_W - 2 * (ACC_W \div 2)) = 1 /\ 2^(2 * (ACC_W \div 2)) = M
    <2>1. 2 * (ACC_W \div 2) = ACC_W /\ ACC_W - 2 * (ACC_W \div 2) = 0
        BY HalfWidth, AccWAssumption
    <2>2. 2^0 = 1
        OBVIOUS
    <2>3. QED
        BY <1>1, <2>1, <2>2
<1>3. M * 1 = M /\ v * 1 = v /\ (0 * 0 + 0) * M + v = v /\ (0 + 1) * H <= H
    OBVIOUS
<1>4. QED
    BY <1>1, <1>2, <1>3 DEF RootLeft

\* After the last digit the result is the integer square root.
LEMMA RootEnd ==
    ASSUME NEW s, NEW v, RootLeft(s, v, 0)
    PROVE  /\ s.result \in Nat /\ s.result + 1 <= 2^(ACC_W \div 2)
           /\ s.result * s.result <= v /\ v < (s.result + 1) * (s.result + 1)
<1>1. 2^0 = 1 /\ 2^(2 * 0) = 1
    OBVIOUS
<1>2. PICK lo \in Nat : lo < 1 /\ v = (s.result * s.result + s.rem) * 1 + lo
    BY <1>1 DEF RootLeft
<1>3. PICK r \in Nat, R \in Nat : r = s.result /\ R = s.rem /\ R <= 2 * r
    BY DEF RootLeft
<1>4. v = r * r + R
    BY <1>2, <1>3
<1>5. r * r <= v /\ v < (r + 1) * (r + 1)
    <2>1. (r + 1) * (r + 1) = r * r + 2 * r + 1 /\ r * r \in Nat
        OBVIOUS
    <2>2. QED
        BY <1>3, <1>4, <2>1
<1>6. (r + 1) * 1 <= 2^(ACC_W \div 2)
    BY <1>1, <1>3 DEF RootLeft
<1>7. QED
    BY <1>3, <1>5, <1>6

-----------------------------------------------------------------------------
(***************************************************************************)
(* lnorm_ctrl.  The sum of the first idx_r bytes of a row lies between     *)
(* -128 * idx_r and 127 * idx_r, so the mean the divider finds is a byte;  *)
(* the root has as many bits as cycles have passed.                        *)
(***************************************************************************)
LnFields == {"state", "cmd", "row_r", "in_row_base_r", "out_row_base_r", "idx_r", "sum_r",
             "mean_r", "var_sum_r", "std_r", "norm_sign_r", "div", "div_sign_r", "sqrt"}

LnTyped ==
    /\ LnFields \subseteq DOMAIN ln
    /\ ln.row_r \in Nat /\ ln.idx_r \in Nat
    /\ ln.in_row_base_r \in Int /\ ln.out_row_base_r \in Int
    /\ ln.sum_r \in Int /\ ln.var_sum_r \in Nat
    /\ ln.mean_r \in int8 /\ ln.std_r \in 1 .. 2^(ACC_W \div 2) - 1
    /\ "quot" \in DOMAIN ln.div /\ ln.div.quot \in Nat

LnCmd ==
    ln.state # "S_IDLE" =>
        /\ ln.cmd.row_len \in Addresses \ {0} /\ ln.cmd.num_rows \in Addresses \ {0}
        /\ 2^ln.cmd.norm_shift \in Nat

LnLoop ==
    ln.state \notin {"S_IDLE", "S_LOAD_CFG"} =>
        ln.idx_r < ln.cmd.row_len /\ ln.row_r < ln.cmd.num_rows

LnSum ==
    ln.state \in {"S_SUM_RD", "S_SUM_WAIT"} =>
        ln.sum_r >= -(128 * ln.idx_r) /\ ln.sum_r <= 127 * ln.idx_r

LnMean ==
    ln.state = "S_MEAN_DIV" =>
        /\ ln.sum_r >= -(128 * ln.cmd.row_len) /\ ln.sum_r <= 127 * ln.cmd.row_len
        /\ ln.div_sign_r <=> ln.sum_r < 0
        /\ ln.div.denom = ln.cmd.row_len
        /\ ln.div.cnt \in 0 .. ACC_W - 1
        /\ DivLeft(ln.div, IF ln.sum_r < 0 THEN -ln.sum_r ELSE ln.sum_r, ln.div.cnt + 1)

LnRoot ==
    ln.state = "S_SQRT" =>
        /\ ln.sqrt.cnt \in 0 .. ACC_W \div 2 - 1
        /\ RootLeft(ln.sqrt, (ln.div.quot + 1) % 2^ACC_W, ln.sqrt.cnt + 1)

LnInv == LnTyped /\ LnCmd /\ LnLoop /\ LnSum /\ LnMean /\ MeanIsTruncated /\ LnRoot

\* A row is short enough for the divider.
LEMMA RowFits ==
    ASSUME NEW n \in Addresses
    PROVE  n \in Nat /\ 128 * n < 2^ACC_W /\ 2 * n <= 2^ACC_W /\ 2^ACC_W \in Nat
<1>1. 2^ACC_W \in Int /\ 2^ACC_W > 0
    BY AccWAssumption, PowerAssumption
<1>2. QED
    BY <1>1, AccRangeAssumption, DimRangeAssumption DEF Addresses

\* The mean of bytes is a byte.
LEMMA MeanIsByte ==
    ASSUME NEW sum \in Int, NEW n \in Nat, n > 0, sum >= -(128 * n), sum <= 127 * n,
           NEW q \in Nat, NEW r \in Nat,
           (IF sum < 0 THEN -sum ELSE sum) = q * n + r
    PROVE  (IF sum < 0 THEN -q ELSE q) \in int8
<1>1. CASE sum < 0
    <2>1. q * n <= 128 * n
        BY <1>1
    <2>2. q <= 128
        <3>1. SUFFICES ASSUME 129 <= q PROVE FALSE
            OBVIOUS
        <3>2. 129 * n <= q * n
            BY <3>1, MulMono
        <3>3. QED
            BY <2>1, <3>2
    <2>3. QED
        BY <1>1, <2>2 DEF int8
<1>2. CASE sum >= 0
    <2>1. q * n <= 127 * n
        BY <1>2
    <2>2. q <= 127
        <3>1. SUFFICES ASSUME 128 <= q PROVE FALSE
            OBVIOUS
        <3>2. 128 * n <= q * n
            BY <3>1, MulMono
        <3>3. QED
            BY <2>1, <3>2
    <2>3. QED
        BY <1>2, <2>2 DEF int8
<1>3. QED
    BY <1>1, <1>2

\* The element counter of a pass.
LEMMA LnNextIdx ==
    ASSUME LnInv, ln.state \notin {"S_IDLE", "S_LOAD_CFG"}
    PROVE  /\ ln.cmd.row_len \in Nat /\ ln.cmd.num_rows \in Nat
           /\ uint32(ln.cmd.num_rows - 1) = ln.cmd.num_rows - 1
           /\ lnormLastElem <=> ln.idx_r = ln.cmd.row_len - 1
           /\ lnormNextIdx \in Nat /\ lnormNextIdx < ln.cmd.row_len
           /\ lnormNextIdx = IF lnormLastElem THEN 0 ELSE ln.idx_r + 1
<1>1. /\ ln.cmd.row_len \in Nat /\ ln.cmd.num_rows \in Nat
      /\ ln.cmd.row_len > 0 /\ ln.cmd.num_rows > 0
      /\ uint32(ln.cmd.num_rows - 1) = ln.cmd.num_rows - 1
      /\ uint32(ln.cmd.row_len - 1) = ln.cmd.row_len - 1
    BY LastOf, AddressesInt DEF LnInv, LnCmd
<1>2. uint16(ln.idx_r + 1) = ln.idx_r + 1
    BY Counted DEF LnInv, LnCmd, LnLoop, LnTyped
<1>3. QED
    BY <1>1, <1>2 DEF LnInv, LnLoop, LnTyped, lnormLastElem, lnormNextIdx

\* A cycle of the mean's division; the last one leaves a byte.
LEMMA LnMeanDivKeeps == ASSUME LnInv, LnormMeanDiv PROVE LnInv'
<1>1. /\ ln.state = "S_MEAN_DIV"
      /\ ln' = [ln EXCEPT !.state = IF ln.div.cnt = 0 THEN "S_VAR_RD" ELSE @,
                          !.div = div_step(@),
                          !.mean_r = IF ~(ln.div.cnt = 0) THEN @
                                     ELSE IF ln.div_sign_r THEN -div_step(ln.div).quot
                                     ELSE div_step(ln.div).quot]
    BY DEF LnormMeanDiv, LnormAt
<1>2. PICK N \in Nat : N = IF ln.sum_r < 0 THEN -ln.sum_r ELSE ln.sum_r
    BY DEF LnInv, LnTyped
<1>3. PICK e : e = div_step(ln.div)
    OBVIOUS
<1>4. PICK c \in 0 .. ACC_W - 1 : c = ln.div.cnt /\ DivLeft(ln.div, N, c + 1)
    BY <1>1, <1>2 DEF LnInv, LnMean
<1>5. DivLeft(e, N, c) /\ e.denom = ln.div.denom
    <2>1. c + 1 \in 1 .. ACC_W /\ (c + 1) - 1 = c
        BY AccWAssumption
    <2>2. QED
        BY <1>3, <1>4, <2>1, DivStep
<1>6. e.cnt = (c - 1) % ACC_W /\ "quot" \in DOMAIN e /\ e.quot \in Nat
    <2>1. e.cnt = (c - 1) % ACC_W
        BY <1>3, <1>4 DEF div_step, DivLeft, DivFields
    <2>2. "quot" \in DOMAIN e /\ e.quot \in Nat
        BY <1>3, DivQuot DEF LnInv, LnTyped
    <2>3. QED
        BY <2>1, <2>2
<1>7. PICK mean : mean = IF ~(c = 0) THEN ln.mean_r
                         ELSE IF ln.div_sign_r THEN -e.quot ELSE e.quot
    OBVIOUS
<1>8. /\ mean \in int8
      /\ c = 0 => mean = IF ln.sum_r < 0 THEN -((-ln.sum_r) \div ln.cmd.row_len)
                         ELSE ln.sum_r \div ln.cmd.row_len
    <2>1. CASE c # 0
        BY <1>7, <2>1 DEF LnInv, LnTyped
    <2>2. CASE c = 0
        <3>1. e.quot \in Nat /\ N = e.quot * e.denom + e.rem /\ e.rem \in 0 .. e.denom - 1
            BY <1>5, <2>2, DivEnd
        <3>2. /\ ln.cmd.row_len \in Nat /\ ln.cmd.row_len > 0 /\ e.denom = ln.cmd.row_len
              /\ ln.sum_r \in Int
              /\ ln.sum_r >= -(128 * ln.cmd.row_len) /\ ln.sum_r <= 127 * ln.cmd.row_len
              /\ ln.div_sign_r <=> ln.sum_r < 0
            BY <1>1, <1>5, AddressesInt DEF LnInv, LnMean, LnCmd, LnTyped
        <3>3. PICK sum \in Int, n \in Nat, q \in Nat, r \in Nat :
                sum = ln.sum_r /\ n = ln.cmd.row_len /\ q = e.quot /\ r = e.rem /\ r < n
            BY <3>1, <3>2
        <3>4. (IF sum < 0 THEN -sum ELSE sum) = q * n + r
            BY <1>2, <3>1, <3>2, <3>3
        <3>5. (IF sum < 0 THEN -q ELSE q) \in int8
            BY <3>2, <3>3, <3>4, MeanIsByte
        <3>6. N \div n = q
            <4>1. N = q * n + r
                BY <3>1, <3>2, <3>3
            <4>2. QED
                BY <3>3, <4>1, QuotientIs
        <3>7. mean = IF sum < 0 THEN -q ELSE q
            BY <1>7, <2>2, <3>2, <3>3
        <3>8. CASE sum < 0
            <4>1. (-sum) \div n = q
                BY <1>2, <3>3, <3>6, <3>8
            <4>2. QED
                BY <3>3, <3>5, <3>7, <3>8, <4>1
        <3>9. CASE ~(sum < 0)
            <4>1. sum \div n = q
                BY <1>2, <3>3, <3>6, <3>9
            <4>2. QED
                BY <3>3, <3>5, <3>7, <3>9, <4>1
        <3>10. QED
            BY <3>8, <3>9
    <2>3. QED
        BY <2>1, <2>2
<1>9. /\ LnFields \subseteq DOMAIN ln'
      /\ ln'.state = IF c = 0 THEN "S_VAR_RD" ELSE "S_MEAN_DIV"
      /\ ln'.div = e /\ ln'.mean_r = mean
      /\ ln'.cmd = ln.cmd /\ ln'.row_r = ln.row_r /\ ln'.idx_r = ln.idx_r
      /\ ln'.in_row_base_r = ln.in_row_base_r /\ ln'.out_row_base_r = ln.out_row_base_r
      /\ ln'.sum_r = ln.sum_r /\ ln'.var_sum_r = ln.var_sum_r /\ ln'.std_r = ln.std_r
      /\ ln'.div_sign_r = ln.div_sign_r
    BY <1>1, <1>3, <1>4, <1>7 DEF LnInv, LnTyped, LnFields
<1>10. LnTyped'
    BY <1>6, <1>8, <1>9 DEF LnInv, LnTyped
<1>11. LnCmd' /\ LnLoop' /\ LnSum' /\ LnRoot'
    BY <1>1, <1>9 DEF LnInv, LnCmd, LnLoop, LnSum, LnRoot
<1>12. LnMean'
    <2>1. c # 0 => (c - 1) % ACC_W = c - 1 /\ c - 1 \in 0 .. ACC_W - 1 /\ (c - 1) + 1 = c
        BY AccWAssumption
    <2>2. QED
        BY <1>1, <1>2, <1>5, <1>6, <1>9, <2>1 DEF LnInv, LnMean
<1>13. MeanIsTruncated'
    BY <1>8, <1>9 DEF MeanIsTruncated
<1>14. QED
    BY <1>10, <1>11, <1>12, <1>13 DEF LnInv

\* A byte of the sum pass; the last one sets the division up.
LEMMA LnSumWaitKeeps == ASSUME LnInv, PortsOK, LnormSumWait PROVE LnInv'
<1>1. PICK sum \in Int : sum = ln.sum_r + act_rd.rdata
    BY DEF LnInv, LnTyped, PortsOK, int8
<1>2. PICK N \in Nat : N = IF sum < 0 THEN -sum ELSE sum
    OBVIOUS
<1>3. PICK e : e = div_start(N, ln.cmd.row_len)
    OBVIOUS
<1>4. /\ ln.state = "S_SUM_WAIT"
      /\ ln' = [ln EXCEPT !.state = IF lnormLastElem THEN "S_MEAN_DIV" ELSE "S_SUM_RD",
                          !.idx_r = lnormNextIdx, !.sum_r = sum,
                          !.div_sign_r = IF lnormLastElem THEN sum < 0 ELSE @,
                          !.div = IF lnormLastElem THEN e ELSE @]
    BY <1>1, <1>2, <1>3 DEF LnormSumWait, LnormAt
<1>5. /\ LnFields \subseteq DOMAIN ln'
      /\ ln'.state = IF lnormLastElem THEN "S_MEAN_DIV" ELSE "S_SUM_RD"
      /\ ln'.idx_r = lnormNextIdx /\ ln'.sum_r = sum
      /\ lnormLastElem => ln'.div = e /\ (ln'.div_sign_r <=> sum < 0)
      /\ ~lnormLastElem => ln'.div = ln.div
      /\ ln'.cmd = ln.cmd /\ ln'.row_r = ln.row_r /\ ln'.mean_r = ln.mean_r
      /\ ln'.in_row_base_r = ln.in_row_base_r /\ ln'.out_row_base_r = ln.out_row_base_r
      /\ ln'.var_sum_r = ln.var_sum_r /\ ln'.std_r = ln.std_r
    BY <1>4 DEF LnInv, LnTyped, LnFields
<1>6. /\ ln.cmd.row_len \in Nat /\ ln.cmd.row_len > 0
      /\ lnormLastElem <=> ln.idx_r = ln.cmd.row_len - 1
      /\ lnormNextIdx \in Nat /\ lnormNextIdx < ln.cmd.row_len
      /\ lnormNextIdx = IF lnormLastElem THEN 0 ELSE ln.idx_r + 1
    BY <1>4, LnNextIdx
<1>7. sum >= -(128 * (ln.idx_r + 1)) /\ sum <= 127 * (ln.idx_r + 1) /\ ln.idx_r \in Nat
    BY <1>1, <1>4 DEF LnInv, LnSum, LnTyped, PortsOK, int8
<1>8. /\ DivFields \subseteq DOMAIN e /\ e.quot = N /\ e.denom = ln.cmd.row_len
      /\ e.cnt = ACC_W - 1
    BY <1>3 DEF div_start, DivFields
<1>9. LnTyped'
    BY <1>5, <1>6, <1>8 DEF LnInv, LnTyped, DivFields
<1>10. LnCmd' /\ LnLoop' /\ MeanIsTruncated' /\ LnRoot'
    BY <1>4, <1>5, <1>6 DEF LnInv, LnCmd, LnLoop, MeanIsTruncated, LnRoot
<1>11. LnSum'
    BY <1>5, <1>6, <1>7 DEF LnSum
<1>12. LnMean'
    <2>1. SUFFICES ASSUME lnormLastElem PROVE LnMean'
        BY <1>5 DEF LnMean
    <2>2. sum >= -(128 * ln.cmd.row_len) /\ sum <= 127 * ln.cmd.row_len
        BY <1>6, <1>7, <2>1
    <2>3. N < 2^ACC_W /\ 2 * ln.cmd.row_len <= 2^ACC_W
        <3>1. ln.cmd.row_len \in Addresses
            BY <1>4 DEF LnInv, LnCmd
        <3>2. QED
            BY <1>2, <1>6, <2>2, <3>1, RowFits
    <2>4. DivLeft(e, N, ACC_W)
        BY <1>3, <1>6, <2>3, DivStart
    <2>5. ACC_W - 1 \in 0 .. ACC_W - 1 /\ (ACC_W - 1) + 1 = ACC_W
        BY AccWAssumption
    <2>6. QED
        BY <1>2, <1>5, <1>8, <2>1, <2>2, <2>4, <2>5 DEF LnMean
<1>13. QED
    BY <1>9, <1>10, <1>11, <1>12 DEF LnInv

\* A digit of the root; the last one leaves the integer square root.
LEMMA LnRootDigit ==
    ASSUME LnInv, LnormSqrt, NEW v, v = (ln.div.quot + 1) % 2^ACC_W
    PROVE  /\ RootLeft(sqrt_step(ln.sqrt), v, ln.sqrt.cnt)
           /\ ln.sqrt.cnt \in 0 .. ACC_W \div 2 - 1
           /\ sqrt_step(ln.sqrt).cnt = (ln.sqrt.cnt - 1) % ACC_W
<1>1. PICK c \in 0 .. ACC_W \div 2 - 1 : c = ln.sqrt.cnt /\ RootLeft(ln.sqrt, v, c + 1)
    BY DEF LnormSqrt, LnormAt, LnInv, LnRoot
<1>2. c + 1 \in 1 .. ACC_W \div 2 /\ (c + 1) - 1 = c
    BY HalfWidth
<1>3. RootLeft(sqrt_step(ln.sqrt), v, c)
    BY <1>1, <1>2, RootStep
<1>4. sqrt_step(ln.sqrt).cnt = (ln.sqrt.cnt - 1) % ACC_W
    BY DEF sqrt_step
<1>5. QED
    BY <1>1, <1>3, <1>4

LEMMA LnSqrtKeeps == ASSUME LnInv, LnormSqrt PROVE LnInv'
<1>1. PICK s : s = sqrt_step(ln.sqrt)
    OBVIOUS
<1>2. /\ ln.state = "S_SQRT"
      /\ ln' = [ln EXCEPT !.state = IF ln.sqrt.cnt = 0 THEN "S_NORM_RD" ELSE @,
                          !.sqrt = s,
                          !.std_r = IF ln.sqrt.cnt # 0 THEN @
                                    ELSE IF s.result = 0 THEN 1 ELSE s.result]
    BY <1>1 DEF LnormSqrt, LnormAt
<1>3. PICK v : v = (ln.div.quot + 1) % 2^ACC_W
    OBVIOUS
<1>4. PICK c \in 0 .. ACC_W \div 2 - 1 :
        c = ln.sqrt.cnt /\ RootLeft(s, v, c) /\ s.cnt = (c - 1) % ACC_W
    BY <1>1, <1>3, LnRootDigit
<1>5. PICK H \in Nat : H = 2^(ACC_W \div 2) /\ H >= 2
    BY HalfWidth
<1>6. PICK std : std = IF c # 0 THEN ln.std_r ELSE IF s.result = 0 THEN 1 ELSE s.result
    OBVIOUS
<1>7. std \in 1 .. H - 1
    <2>1. CASE c # 0
        BY <1>5, <1>6, <2>1 DEF LnInv, LnTyped
    <2>2. CASE c = 0
        <3>1. s.result \in Nat /\ s.result + 1 <= H
            BY <1>4, <1>5, <2>2, RootEnd
        <3>2. QED
            BY <1>5, <1>6, <2>2, <3>1
    <2>3. QED
        BY <2>1, <2>2
<1>8. /\ LnFields \subseteq DOMAIN ln'
      /\ ln'.state = IF c = 0 THEN "S_NORM_RD" ELSE "S_SQRT"
      /\ ln'.sqrt = s /\ ln'.std_r = std
      /\ ln'.cmd = ln.cmd /\ ln'.row_r = ln.row_r /\ ln'.idx_r = ln.idx_r
      /\ ln'.in_row_base_r = ln.in_row_base_r /\ ln'.out_row_base_r = ln.out_row_base_r
      /\ ln'.sum_r = ln.sum_r /\ ln'.var_sum_r = ln.var_sum_r /\ ln'.mean_r = ln.mean_r
      /\ ln'.div = ln.div
    BY <1>2, <1>4, <1>6 DEF LnInv, LnTyped, LnFields
<1>9. LnTyped'
    BY <1>5, <1>7, <1>8 DEF LnInv, LnTyped
<1>10. LnCmd' /\ LnLoop' /\ LnSum' /\ LnMean' /\ MeanIsTruncated'
    BY <1>2, <1>8 DEF LnInv, LnCmd, LnLoop, LnSum, LnMean, MeanIsTruncated
<1>11. LnRoot'
    <2>1. SUFFICES ASSUME c # 0 PROVE LnRoot'
        BY <1>8 DEF LnRoot
    <2>2. (c - 1) % ACC_W = c - 1 /\ c - 1 \in 0 .. ACC_W \div 2 - 1 /\ (c - 1) + 1 = c
        BY <2>1, HalfWidth, AccWAssumption
    <2>3. ln'.sqrt.cnt = c - 1 /\ ln'.sqrt.cnt + 1 = c
        BY <1>4, <1>8, <2>2
    <2>4. RootLeft(ln'.sqrt, (ln'.div.quot + 1) % 2^ACC_W, ln'.sqrt.cnt + 1)
        BY <1>3, <1>4, <1>8, <2>3
    <2>5. QED
        BY <2>2, <2>3, <2>4 DEF LnRoot
<1>12. QED
    BY <1>9, <1>10, <1>11 DEF LnInv

LEMMA AbsDiff == LnInv /\ PortsOK => abs_diff_w \in Nat
<1> SUFFICES ASSUME LnInv, PortsOK PROVE abs_diff_w \in Nat
    OBVIOUS
<1>1. act_rd.rdata \in Int /\ ln.mean_r \in Int
    BY DEF LnInv, LnTyped, PortsOK, int8
<1>2. diff_w \in Int
    BY <1>1 DEF diff_w
<1>3. QED
    BY <1>2 DEF abs_diff_w

\* The variance of a row.
LEMMA LnVarKeeps == ASSUME LnInv, PortsOK, LnormVarWait \/ LnormVarDiv PROVE LnInv'
<1>1. PICK M \in Nat : M = 2^ACC_W /\ M > 0
    BY AccWAssumption, PowerAssumption
<1>2. CASE LnormVarWait
    <2>1. abs_diff_w \in Nat
        BY AbsDiff
    <2>2. PICK v \in Nat : v = ln.var_sum_r + abs_diff_w * abs_diff_w
        <3>1. abs_diff_w * abs_diff_w \in Nat
            BY <2>1
        <3>2. QED
            BY <3>1 DEF LnInv, LnTyped
    <2>3. PICK e : e = div_start(SatAcc(v), ln.cmd.row_len)
        OBVIOUS
    <2>4. "quot" \in DOMAIN e /\ e.quot \in Nat
        BY <1>1, <2>3 DEF div_start, SatAcc
    <2>5. /\ ln.state = "S_VAR_WAIT"
          /\ ln' = [ln EXCEPT !.state = IF lnormLastElem THEN "S_VAR_DIV" ELSE "S_VAR_RD",
                              !.idx_r = lnormNextIdx, !.var_sum_r = v % 2^ACC_W,
                              !.div_sign_r = IF lnormLastElem THEN FALSE ELSE @,
                              !.div = IF lnormLastElem THEN e ELSE @]
        BY <1>2, <2>2, <2>3 DEF LnormVarWait, LnormAt
    <2>6. /\ LnFields \subseteq DOMAIN ln'
          /\ ln'.state \in {"S_VAR_DIV", "S_VAR_RD"}
          /\ ln'.idx_r = lnormNextIdx /\ ln'.var_sum_r = v % 2^ACC_W
          /\ ln'.div = (IF lnormLastElem THEN e ELSE ln.div)
          /\ ln'.cmd = ln.cmd /\ ln'.row_r = ln.row_r /\ ln'.mean_r = ln.mean_r
          /\ ln'.in_row_base_r = ln.in_row_base_r /\ ln'.out_row_base_r = ln.out_row_base_r
          /\ ln'.sum_r = ln.sum_r /\ ln'.std_r = ln.std_r
        BY <2>5 DEF LnInv, LnTyped, LnFields
    <2>7. lnormNextIdx \in Nat /\ lnormNextIdx < ln.cmd.row_len
        BY <2>5, LnNextIdx
    <2>8. v % 2^ACC_W \in Nat
        BY <1>1
    <2>9. LnTyped'
        BY <2>4, <2>6, <2>7, <2>8 DEF LnInv, LnTyped
    <2>10. QED
        BY <2>5, <2>6, <2>7, <2>9 DEF LnInv, LnCmd, LnLoop, LnSum, LnMean, MeanIsTruncated, LnRoot
<1>3. CASE LnormVarDiv
    <2>1. PICK e : e = div_step(ln.div) /\ "quot" \in DOMAIN e /\ e.quot \in Nat
        BY DivQuot DEF LnInv, LnTyped
    <2>2. PICK s : s = [input |-> (e.quot + 1) % 2^ACC_W, rem |-> 0, result |-> 0,
                        cnt |-> ACC_W \div 2 - 1]
        OBVIOUS
    <2>3. /\ ln.state = "S_VAR_DIV"
          /\ ln' = [ln EXCEPT !.state = IF ln.div.cnt = 0 THEN "S_SQRT" ELSE @,
                              !.div = e, !.sqrt = IF ln.div.cnt = 0 THEN s ELSE @]
        BY <1>3, <2>1, <2>2 DEF LnormVarDiv, LnormAt
    <2>4. /\ LnFields \subseteq DOMAIN ln'
          /\ ln'.state = (IF ln.div.cnt = 0 THEN "S_SQRT" ELSE "S_VAR_DIV")
          /\ ln.div.cnt = 0 => ln'.sqrt = s
          /\ ln'.div = e
          /\ ln'.cmd = ln.cmd /\ ln'.row_r = ln.row_r /\ ln'.idx_r = ln.idx_r
          /\ ln'.in_row_base_r = ln.in_row_base_r /\ ln'.out_row_base_r = ln.out_row_base_r
          /\ ln'.sum_r = ln.sum_r /\ ln'.var_sum_r = ln.var_sum_r /\ ln'.mean_r = ln.mean_r
          /\ ln'.std_r = ln.std_r
        BY <2>3 DEF LnInv, LnTyped, LnFields
    <2>5. LnTyped'
        BY <2>1, <2>4 DEF LnInv, LnTyped
    <2>6. LnRoot'
        <3>1. PICK v \in Nat : v = (e.quot + 1) % 2^ACC_W /\ v < 2^ACC_W
            BY <1>1, <2>1
        <3>2. /\ s.cnt = ACC_W \div 2 - 1 /\ s.result = 0 /\ s.rem = 0 /\ s.input = v
              /\ ACC_W \div 2 - 1 \in 0 .. ACC_W \div 2 - 1
              /\ s.cnt + 1 = ACC_W \div 2
            BY <2>2, <3>1, HalfWidth
        <3>3. RootLeft(s, v, ACC_W \div 2)
            BY <3>1, <3>2, RootStart
        <3>4. RootLeft(s, v, s.cnt + 1)
            BY <3>2, <3>3
        <3>5. QED
            BY <2>4, <3>1, <3>2, <3>4 DEF LnRoot
    <2>7. QED
        BY <2>3, <2>4, <2>5, <2>6 DEF LnInv, LnCmd, LnLoop, LnSum, LnMean, MeanIsTruncated
<1>4. QED
    BY <1>2, <1>3

\* What lnorm_ctrl writes is saturated.
LEMMA LnResult == LnInv => norm_result \in int8
BY DEF LnInv, LnTyped, norm_result, int8

\* The normalising pass.
LEMMA LnNormKeeps ==
    ASSUME LnInv, PortsOK, LnormNormWait \/ LnormNormDiv \/ LnormNormWrite
    PROVE  LnInv'
<1>1. CASE LnormNormWait
    <2>1. ln.state = "S_NORM_WAIT" /\ abs_diff_w \in Nat /\ 2^ln.cmd.norm_shift \in Nat
        BY <1>1, AbsDiff DEF LnormNormWait, LnormAt, LnInv, LnCmd
    <2>2. PICK v \in Nat : v = abs_diff_w * 2^ln.cmd.norm_shift
        BY <2>1
    <2>3. PICK e : e = div_start(SatAcc(v), ln.std_r)
        OBVIOUS
    <2>4. "quot" \in DOMAIN e /\ e.quot \in Nat
        <3>1. 2^ACC_W \in Int /\ 2^ACC_W > 0
            BY AccWAssumption, PowerAssumption
        <3>2. QED
            BY <2>3, <3>1 DEF div_start, SatAcc
    <2>5. ln' = [ln EXCEPT !.state = "S_NORM_DIV", !.norm_sign_r = diff_w < 0,
                           !.div_sign_r = FALSE, !.div = e]
        BY <1>1, <2>2, <2>3 DEF LnormNormWait
    <2>6. /\ LnFields \subseteq DOMAIN ln' /\ ln'.state = "S_NORM_DIV" /\ ln'.div = e
          /\ ln'.cmd = ln.cmd /\ ln'.row_r = ln.row_r /\ ln'.idx_r = ln.idx_r
          /\ ln'.in_row_base_r = ln.in_row_base_r /\ ln'.out_row_base_r = ln.out_row_base_r
          /\ ln'.sum_r = ln.sum_r /\ ln'.var_sum_r = ln.var_sum_r /\ ln'.mean_r = ln.mean_r
          /\ ln'.std_r = ln.std_r
        BY <2>5 DEF LnInv, LnTyped, LnFields
    <2>7. QED
        BY <2>1, <2>4, <2>6 DEF LnInv, LnTyped, LnCmd, LnLoop, LnSum, LnMean, MeanIsTruncated, LnRoot
<1>2. CASE LnormNormDiv
    <2>1. PICK e : e = div_step(ln.div) /\ "quot" \in DOMAIN e /\ e.quot \in Nat
        BY DivQuot DEF LnInv, LnTyped
    <2>2. /\ ln.state = "S_NORM_DIV"
          /\ ln' = [ln EXCEPT !.state = IF ln.div.cnt = 0 THEN "S_NORM_WR" ELSE @, !.div = e]
        BY <1>2, <2>1 DEF LnormNormDiv, LnormAt
    <2>3. /\ LnFields \subseteq DOMAIN ln' /\ ln'.state \in {"S_NORM_DIV", "S_NORM_WR"}
          /\ ln'.div = e
          /\ ln'.cmd = ln.cmd /\ ln'.row_r = ln.row_r /\ ln'.idx_r = ln.idx_r
          /\ ln'.in_row_base_r = ln.in_row_base_r /\ ln'.out_row_base_r = ln.out_row_base_r
          /\ ln'.sum_r = ln.sum_r /\ ln'.var_sum_r = ln.var_sum_r /\ ln'.mean_r = ln.mean_r
          /\ ln'.std_r = ln.std_r
        BY <2>2 DEF LnInv, LnTyped, LnFields
    <2>4. QED
        BY <2>1, <2>2, <2>3 DEF LnInv, LnTyped, LnCmd, LnLoop, LnSum, LnMean, MeanIsTruncated, LnRoot
<1>3. CASE LnormNormWrite
    <2>1. /\ ln.state = "S_NORM_WR"
          /\ ln.cmd.row_len \in Nat /\ ln.cmd.num_rows \in Nat
          /\ uint32(ln.cmd.num_rows - 1) = ln.cmd.num_rows - 1
          /\ lnormNextIdx \in Nat /\ lnormNextIdx < ln.cmd.row_len
          /\ lnormLastElem => lnormNextIdx = 0
          /\ ln.row_r \in Nat /\ ln.row_r < ln.cmd.num_rows
        BY <1>3, LnNextIdx DEF LnormNormWrite, LnormAt, LnInv, LnLoop, LnTyped
    <2>0. uint16(ln.row_r + 1) = ln.row_r + 1
        BY <2>1, Counted DEF LnInv, LnCmd
    <2>2. PICK b : b = IF lnormLastElem /\ ln.row_r < uint32(ln.cmd.num_rows - 1)
                       THEN LnormNextRow(ln) ELSE ln
        OBVIOUS
    <2>3. /\ LnFields \subseteq DOMAIN b
          /\ b.cmd = ln.cmd /\ b.div = ln.div /\ b.mean_r = ln.mean_r /\ b.std_r = ln.std_r
          /\ b.row_r \in Nat /\ b.row_r < ln.cmd.num_rows
          /\ b.in_row_base_r \in Int /\ b.out_row_base_r \in Int
          /\ b.sum_r \in Int /\ b.var_sum_r \in Nat
          /\ lnormLastElem /\ ln.row_r # ln.cmd.num_rows - 1 => b.sum_r = 0
        <3>1. CASE lnormLastElem /\ ln.row_r < uint32(ln.cmd.num_rows - 1)
            <4>1. b = LnormNextRow(ln)
                BY <2>2, <3>1
            <4>2. /\ uint16(ln.in_row_base_r + ln.cmd.row_len) \in Int
                  /\ uint16(ln.out_row_base_r + ln.cmd.row_len) \in Int
                BY <2>1, Wrapped, AddressesInt DEF LnInv, LnTyped
            <4>3. /\ LnFields \subseteq DOMAIN b
                  /\ b.cmd = ln.cmd /\ b.div = ln.div /\ b.mean_r = ln.mean_r /\ b.std_r = ln.std_r
                  /\ b.row_r = ln.row_r + 1 /\ b.sum_r = 0 /\ b.var_sum_r = 0
                  /\ b.in_row_base_r = uint16(ln.in_row_base_r + ln.cmd.row_len)
                  /\ b.out_row_base_r = uint16(ln.out_row_base_r + ln.cmd.row_len)
                BY <2>0, <4>1 DEF LnormNextRow, LnInv, LnTyped, LnFields
            <4>4. QED
                BY <2>1, <3>1, <4>2, <4>3
        <3>2. CASE ~(lnormLastElem /\ ln.row_r < uint32(ln.cmd.num_rows - 1))
            <4>1. b = ln
                BY <2>2, <3>2
            <4>2. lnormLastElem => ln.row_r = ln.cmd.num_rows - 1
                BY <2>1, <3>2
            <4>3. QED
                BY <2>1, <4>1, <4>2 DEF LnInv, LnTyped
        <3>3. QED
            BY <3>1, <3>2
    <2>4. PICK t : t = IF ~ lnormLastElem THEN "S_NORM_RD"
                       ELSE IF ln.row_r = ln.cmd.num_rows - 1 THEN "S_DONE"
                       ELSE "S_SUM_RD"
        OBVIOUS
    <2>5. ln' = [b EXCEPT !.state = t, !.idx_r = lnormNextIdx]
        BY <1>3, <2>1, <2>2, <2>4 DEF LnormNormWrite
    <2>6. /\ LnFields \subseteq DOMAIN ln' /\ ln'.state = t /\ ln'.idx_r = lnormNextIdx
          /\ ln'.div = b.div /\ ln'.cmd = b.cmd /\ ln'.row_r = b.row_r
          /\ ln'.in_row_base_r = b.in_row_base_r /\ ln'.out_row_base_r = b.out_row_base_r
          /\ ln'.sum_r = b.sum_r /\ ln'.var_sum_r = b.var_sum_r /\ ln'.mean_r = b.mean_r
          /\ ln'.std_r = b.std_r
        BY <2>3, <2>5 DEF LnFields
    <2>7. LnTyped'
        BY <2>1, <2>3, <2>6 DEF LnInv, LnTyped
    <2>8. LnSum'
        <3>1. t = "S_SUM_RD" => b.sum_r = 0 /\ lnormNextIdx = 0
            BY <2>1, <2>3, <2>4
        <3>2. t # "S_SUM_WAIT"
            BY <2>4
        <3>3. QED
            BY <2>6, <3>1, <3>2 DEF LnSum
    <2>9. LnCmd' /\ LnLoop' /\ LnMean' /\ LnRoot'
        BY <2>1, <2>3, <2>4, <2>6 DEF LnInv, LnCmd, LnLoop, LnMean, LnRoot
    <2>10. MeanIsTruncated'
        <3>1. t = "S_NORM_RD" => b = ln
            BY <2>2, <2>4
        <3>2. t \in {"S_NORM_RD", "S_DONE", "S_SUM_RD"}
            BY <2>4
        <3>3. QED
            BY <2>1, <2>6, <3>1, <3>2 DEF LnInv, MeanIsTruncated
    <2>11. QED
        BY <2>7, <2>8, <2>9, <2>10 DEF LnInv
<1>4. QED
    BY <1>1, <1>2, <1>3

\* Setting up, reading and ending.
LEMMA LnOthersKeep ==
    ASSUME LnInv, NEW c, c.in_addr \in Int, c.out_addr \in Int,
           LnormLoadCfg(c) \/ LnormRead \/ LnormDone
    PROVE  LnInv'
<1>1. CASE LnormLoadCfg(c)
    <2>1. ln.state = "S_LOAD_CFG"
        BY <1>1 DEF LnormLoadCfg, LnormAt
    <2>2. /\ LnFields \subseteq DOMAIN ln' /\ ln'.state = "S_SUM_RD"
          /\ ln'.row_r = 0 /\ ln'.idx_r = 0 /\ ln'.sum_r = 0 /\ ln'.var_sum_r = 0
          /\ ln'.in_row_base_r = c.in_addr /\ ln'.out_row_base_r = c.out_addr
          /\ ln'.cmd = ln.cmd /\ ln'.div = ln.div /\ ln'.mean_r = ln.mean_r /\ ln'.std_r = ln.std_r
        BY <1>1 DEF LnormLoadCfg, LnInv, LnTyped, LnFields
    <2>3. LnLoop'
        BY <2>1, <2>2, AddressesInt DEF LnInv, LnCmd, LnLoop
    <2>4. QED
        BY <2>1, <2>2, <2>3 DEF LnInv, LnTyped, LnCmd, LnSum, LnMean, MeanIsTruncated, LnRoot
<1>2. CASE LnormRead \/ LnormDone
    <2>1. PICK t : /\ ln' = [ln EXCEPT !.state = t]
                   /\ \/ ln.state = "S_SUM_RD" /\ t = "S_SUM_WAIT"
                      \/ ln.state = "S_VAR_RD" /\ t = "S_VAR_WAIT"
                      \/ ln.state = "S_NORM_RD" /\ t = "S_NORM_WAIT"
                      \/ ln.state = "S_DONE" /\ t = "S_IDLE"
        BY <1>2 DEF LnormRead, LnormDone, LnormAt
    <2>2. /\ LnFields \subseteq DOMAIN ln' /\ ln'.state = t
          /\ ln'.row_r = ln.row_r /\ ln'.idx_r = ln.idx_r /\ ln'.sum_r = ln.sum_r
          /\ ln'.in_row_base_r = ln.in_row_base_r /\ ln'.out_row_base_r = ln.out_row_base_r
          /\ ln'.cmd = ln.cmd /\ ln'.div = ln.div /\ ln'.mean_r = ln.mean_r /\ ln'.std_r = ln.std_r
          /\ ln'.var_sum_r = ln.var_sum_r
        BY <2>1 DEF LnInv, LnTyped, LnFields
    <2>3. QED
        BY <2>1, <2>2 DEF LnInv, LnTyped, LnCmd, LnLoop, LnSum, LnMean, MeanIsTruncated, LnRoot
<1>3. QED
    BY <1>1, <1>2

LEMMA LnormKeeps ==
    ASSUME LnInv, PortsOK, NEW c, c.in_addr \in Int, c.out_addr \in Int, LnormStep(c)
    PROVE  LnInv' /\ PortsOK'
<1>1. LnInv'
    BY LnOthersKeep, LnSumWaitKeeps, LnMeanDivKeeps, LnVarKeeps, LnSqrtKeeps, LnNormKeeps
       DEF LnormStep
<1>2. PortsOK'
    <2>1. CASE LnormRead
        <3>1. ln.in_row_base_r + ln.idx_r \in Int
            BY DEF LnInv, LnTyped
        <3>2. QED
            BY <2>1, <3>1, ReadActKeeps DEF LnormRead
    <2>2. CASE LnormNormWrite
        <3>1. ln.out_row_base_r + ln.idx_r \in Int
            BY DEF LnInv, LnTyped
        <3>2. QED
            BY <2>2, <3>1, LnResult, WriteActKeeps DEF LnormNormWrite
    <2>3. CASE ~LnormRead /\ ~LnormNormWrite
        BY <2>3, NoAccessKeeps DEF LnormStep, LnormLoadCfg, LnormSumWait, LnormMeanDiv,
             LnormVarWait, LnormVarDiv, LnormSqrt, LnormNormWait, LnormNormDiv, LnormDone
    <2>4. QED
        BY <2>1, <2>2, <2>3
<1>3. QED
    BY <1>1, <1>2

-----------------------------------------------------------------------------
(***************************************************************************)
(* All six.                                                                *)
(***************************************************************************)
WidthInv ==
    /\ PortsOK
    /\ VecInv /\ SmaxInv /\ PoolInv /\ CvInv /\ GmInv /\ LnInv
    /\ sched_state # "S_IDLE" => sched_cmd_r \in Cmd \ {ZeroCmd}

LEMMA WidthInit == Init => WidthInv
<1> SUFFICES ASSUME Init PROVE WidthInv
    OBVIOUS
<1>1. PortsOK
    <2>1. PICK m \in Memories : act = m[1] /\ wt = m[2]
        BY DEF Init
    <2>2. QED
        BY <2>1, CmdTypeAssumption DEF Init, PortsInit, NoData, PortsOK, int8
<1>2. VecInv
    <2>1. vec.cmd.quant_shift = 0
        BY DEF Init, VecInit
    <2>2. 2^vec.cmd.quant_shift = 1
        BY <2>1
    <2>3. QED
        BY <2>2 DEF Init, VecInit, VecInv, VecFields
<1>3. SmaxInv
    BY DEF Init, SmaxInit, SmaxInv, SmaxFields
<1>4. PoolInv
    BY DEF Init, PoolInit, PoolInv, PoolFields
<1>5. CvInv
    <2>1. cv.sums = <<>> /\ cv.pipe = <<>>
        BY DEF Init, MacLoopInit
    <2>2. ResultsOK(cv)
        BY <2>1, EmptySeq DEF Init, MacLoopInit, ResultsOK, MacFields, StagesBefore, StagesAfter
    <2>3. QED
        BY <2>2 DEF Init, MacLoopInit, CvInv, CvTyped, CvFields
<1>6. GmInv
    <2>1. gm.sums = <<>> /\ gm.pipe = <<>>
        BY DEF Init, MacLoopInit
    <2>2. ResultsOK(gm)
        BY <2>1, EmptySeq DEF Init, MacLoopInit, ResultsOK, MacFields, StagesBefore, StagesAfter
    <2>3. QED
        BY <2>2 DEF Init, MacLoopInit, GmInv, GmTyped, GmFields
<1>7. LnInv
    <2>1. LnTyped
        BY HalfWidth DEF Init, LnormInit, LnTyped, LnFields, int8
    <2>2. ln.state = "S_IDLE"
        BY DEF Init, LnormInit
    <2>3. QED
        BY <2>1, <2>2 DEF LnInv, LnCmd, LnLoop, LnSum, LnMean, MeanIsTruncated, LnRoot
<1>8. QED
    BY <1>1, <1>2, <1>3, <1>4, <1>5, <1>6, <1>7 DEF WidthInv, Init, SchedInit

\* A controller that takes a command.
LEMMA AcceptKeeps ==
    ASSUME WidthInv, NEW c \in Cmd \ {ZeroCmd}, Accept(Route(c), c)
    PROVE  PortsOK' /\ VecInv' /\ SmaxInv' /\ PoolInv' /\ CvInv' /\ GmInv' /\ LnInv'
<1>1. PortsOK'
    BY NoAccessKeeps DEF WidthInv, Accept, ConvAccept, GemmAccept, SmaxAccept, VecAccept,
         LnormAccept, PoolAccept
<1>2. VecInv'
    <2>1. CASE vec' = vec
        BY <2>1 DEF WidthInv, VecInv
    <2>2. CASE VecAccept(conv_to_vec_cmd(c))
        <3>1. PICK v : v = conv_to_vec_cmd(c)
            OBVIOUS
        <3>2. /\ v.a_addr = c.act_in_addr /\ v.b_addr = c.weight_addr
              /\ v.out_addr = c.act_out_addr /\ v.quant_shift = c.quant_shift
            BY <3>1 DEF conv_to_vec_cmd
        <3>3. /\ v.a_addr \in Int /\ v.b_addr \in Int /\ v.out_addr \in Int
              /\ 2^v.quant_shift \in Int /\ 2^v.quant_shift > 0
            BY <3>2, CmdFields, AddressesInt
        <3>4. vec' = [vec EXCEPT !.state = "S_LOAD_CFG", !.cmd = v]
            BY <2>2, <3>1 DEF VecAccept
        <3>5. QED
            BY <3>3, <3>4 DEF WidthInv, VecInv, VecFields
    <2>3. QED
        BY <2>1, <2>2 DEF Accept
<1>3. SmaxInv'
    <2>1. CASE smax' = smax
        BY <2>1 DEF WidthInv, SmaxInv
    <2>2. CASE SmaxAccept(conv_to_softmax_cmd(c))
        <3>1. PICK v : v = conv_to_softmax_cmd(c)
            OBVIOUS
        <3>2. v.in_addr \in Int /\ v.out_addr \in Int /\ v.row_len \in Int
            BY <3>1, CmdFields, AddressesInt DEF conv_to_softmax_cmd
        <3>3. smax' = [smax EXCEPT !.state = "S_LOAD_CFG", !.cmd = v]
            BY <2>2, <3>1 DEF SmaxAccept
        <3>4. QED
            BY <3>2, <3>3 DEF WidthInv, SmaxInv, SmaxFields
    <2>3. QED
        BY <2>1, <2>2 DEF Accept
<1>4. PoolInv'
    <2>1. CASE pl' = pl
        BY <2>1 DEF WidthInv, PoolInv
    <2>2. CASE PoolAccept(conv_to_pool_cmd(c))
        <3>1. PICK v : v = conv_to_pool_cmd(c)
            OBVIOUS
        <3>2. /\ v.in_addr \in Int /\ v.out_addr \in Int /\ v.in_w \in Int /\ v.in_c \in Int
              /\ v.stride_h \in Int /\ v.stride_w \in Int /\ v.pad_h \in Int /\ v.pad_w \in Int
            BY <3>1, CmdFields, AddressesInt DEF conv_to_pool_cmd
        <3>3. pl' = [pl EXCEPT !.state = "S_LOAD_CFG", !.cmd = v]
            BY <2>2, <3>1 DEF PoolAccept
        <3>4. QED
            BY <3>2, <3>3 DEF WidthInv, PoolInv, PoolFields
    <2>3. QED
        BY <2>1, <2>2 DEF Accept
<1>5. CvInv'
    <2>1. CASE cv' = cv
        BY <2>1 DEF WidthInv, CvInv, CvTyped, CvInside, ResultsOK
    <2>2. CASE Route(c) = "conv" /\ ConvAccept(c)
        <3>1. ResultsOK(cv')
            BY <2>2 DEF ConvAccept, WidthInv, CvInv, ResultsOK, MacFields
        <3>2. QED
            BY <2>2, <3>1 DEF ConvAccept, WidthInv, CvInv, CvTyped, CvFields, ResultsOK
    <2>3. QED
        BY <2>1, <2>2 DEF Accept
<1>6. GmInv'
    <2>1. CASE gm' = gm
        BY <2>1 DEF WidthInv, GmInv, GmTyped, GmInside, ResultsOK
    <2>2. CASE Route(c) = "gemm" /\ GemmAccept(conv_to_gemm_cmd(c))
        <3>1. PICK v : v = conv_to_gemm_cmd(c)
            OBVIOUS
        <3>2. /\ v.a_addr = c.act_in_addr /\ v.b_addr = c.weight_addr /\ v.c_addr = c.act_out_addr
              /\ v.bias_addr = c.bias_addr /\ v.m_dim = c.in_h /\ v.n_dim = c.in_w
              /\ v.k_dim = c.in_c /\ v.quant_shift = c.quant_shift
            BY <3>1 DEF conv_to_gemm_cmd
        <3>3. c.in_h > 0 /\ c.in_w > 0
            BY <2>2, ExtentAssumption
        <3>4. GmCmd(v)
            BY <3>2, <3>3, CmdFields, AddressesInt DEF GmCmd
        <3>5. gm' = [gm EXCEPT !.state = "LOAD_CFG", !.cmd_r = v]
            BY <2>2, <3>1 DEF GemmAccept
        <3>6. /\ GmFields \subseteq DOMAIN gm' /\ gm'.state = "LOAD_CFG" /\ gm'.cmd_r = v
              /\ gm'.m_r = gm.m_r /\ gm'.n_r = gm.n_r /\ gm'.k_r = gm.k_r /\ gm'.acc_r = gm.acc_r
            BY <3>5 DEF WidthInv, GmInv, GmTyped, GmFields
        <3>7. ResultsOK(gm')
            BY <3>5 DEF WidthInv, GmInv, ResultsOK, MacFields
        <3>8. QED
            BY <3>4, <3>6, <3>7 DEF WidthInv, GmInv, GmTyped, ResultsOK
    <2>3. QED
        BY <2>1, <2>2 DEF Accept
<1>7. LnInv'
    <2>1. CASE ln' = ln
        BY <2>1 DEF WidthInv, LnInv, LnTyped, LnCmd, LnLoop, LnSum, LnMean, MeanIsTruncated, LnRoot
    <2>2. CASE Route(c) = "lnorm" /\ LnormAccept(conv_to_lnorm_cmd(c))
        <3>1. PICK v : v = [num_rows |-> c.in_h, row_len |-> c.in_w, norm_shift |-> c.quant_shift]
            OBVIOUS
        <3>2. ln' = [ln EXCEPT !.state = "S_LOAD_CFG", !.cmd = v]
            BY <2>2, <3>1 DEF LnormAccept, conv_to_lnorm_cmd
        <3>3. c.in_h > 0 /\ c.in_w > 0
            BY <2>2, ExtentAssumption
        <3>4. /\ v.row_len \in Addresses \ {0} /\ v.num_rows \in Addresses \ {0}
              /\ 2^v.norm_shift \in Nat
            <4>1. v.row_len = c.in_w /\ v.num_rows = c.in_h /\ v.norm_shift = c.quant_shift
                BY <3>1
            <4>2. 2^c.quant_shift \in Nat
                BY CmdFields
            <4>3. QED
                BY <3>3, <4>1, <4>2, CmdFields, AddressesInt
        <3>5. /\ LnFields \subseteq DOMAIN ln' /\ ln'.state = "S_LOAD_CFG" /\ ln'.cmd = v
              /\ ln'.row_r = ln.row_r /\ ln'.idx_r = ln.idx_r /\ ln'.sum_r = ln.sum_r
              /\ ln'.in_row_base_r = ln.in_row_base_r /\ ln'.out_row_base_r = ln.out_row_base_r
              /\ ln'.div = ln.div /\ ln'.mean_r = ln.mean_r /\ ln'.std_r = ln.std_r
              /\ ln'.var_sum_r = ln.var_sum_r
            BY <3>2 DEF WidthInv, LnInv, LnTyped, LnFields
        <3>6. QED
            BY <3>4, <3>5 DEF WidthInv, LnInv, LnTyped, LnCmd, LnLoop, LnSum, LnMean, MeanIsTruncated, LnRoot
    <2>3. QED
        BY <2>1, <2>2 DEF Accept
<1>8. QED
    BY <1>1, <1>2, <1>3, <1>4, <1>5, <1>6, <1>7

\* A controller that does not have the ports keeps its registers.
LEMMA WidthUnchanged ==
    /\ VecInv /\ vec' = vec => VecInv'
    /\ SmaxInv /\ smax' = smax => SmaxInv'
    /\ PoolInv /\ pl' = pl => PoolInv'
    /\ CvInv /\ cv' = cv => CvInv'
    /\ GmInv /\ gm' = gm => GmInv'
    /\ LnInv /\ ln' = ln => LnInv'
<1>1. VecInv /\ vec' = vec => VecInv'
    BY DEF VecInv
<1>2. SmaxInv /\ smax' = smax => SmaxInv'
    BY DEF SmaxInv
<1>3. PoolInv /\ pl' = pl => PoolInv'
    BY DEF PoolInv
<1>4. CvInv /\ cv' = cv => CvInv'
    BY DEF CvInv, CvTyped, CvInside, ResultsOK
<1>5. GmInv /\ gm' = gm => GmInv'
    BY DEF GmInv, GmTyped, GmInside, ResultsOK
<1>6. LnInv /\ ln' = ln => LnInv'
    BY DEF LnInv, LnTyped, LnCmd, LnLoop, LnSum, LnMean, MeanIsTruncated, LnRoot
<1>7. QED
    BY <1>1, <1>2, <1>3, <1>4, <1>5, <1>6

LEMMA StepKeeps ==
    ASSUME WidthInv, sched_cmd_r \in Cmd, NEW b, Step(b)
    PROVE  PortsOK' /\ VecInv' /\ SmaxInv' /\ PoolInv' /\ CvInv' /\ GmInv' /\ LnInv'
<1>1. PICK c : c = conv_to_lnorm_cmd(sched_cmd_r)
    OBVIOUS
<1>2. c.in_addr \in Int /\ c.out_addr \in Int
    BY <1>1, CmdFields, AddressesInt DEF conv_to_lnorm_cmd
<1>3. CASE ConvStep /\ UNCHANGED <<vec, smax, ln, pl, gm>>
    BY <1>3, ConvKeeps, WidthUnchanged DEF WidthInv
<1>4. CASE GemmStep /\ UNCHANGED <<vec, smax, ln, pl, cv>>
    BY <1>4, GemmKeeps, WidthUnchanged DEF WidthInv
<1>5. CASE SmaxStep /\ UNCHANGED <<vec, ln, pl, cv, gm>>
    BY <1>5, SmaxKeeps, WidthUnchanged DEF WidthInv
<1>6. CASE VecStep /\ UNCHANGED <<smax, ln, pl, cv, gm>>
    BY <1>6, VecKeeps, WidthUnchanged DEF WidthInv
<1>7. CASE LnormStep(c) /\ UNCHANGED <<vec, smax, pl, cv, gm>>
    BY <1>2, <1>7, LnormKeeps, WidthUnchanged DEF WidthInv
<1>8. CASE PoolStep /\ UNCHANGED <<vec, smax, ln, cv, gm>>
    BY <1>8, PoolKeeps, WidthUnchanged DEF WidthInv
<1>9. QED
    BY <1>1, <1>3, <1>4, <1>5, <1>6, <1>7, <1>8 DEF Step

LEMMA WidthStep == Handshake /\ WidthInv /\ [Next]_vars => WidthInv'
<1> SUFFICES ASSUME Handshake, WidthInv, [Next]_vars PROVE WidthInv'
    OBVIOUS
<1> DEFINE Controllers == VecInv /\ SmaxInv /\ PoolInv /\ CvInv /\ GmInv /\ LnInv
<1>1. ASSUME UNCHANGED ctrlVars PROVE Controllers'
    BY <1>1, WidthUnchanged DEF WidthInv, ctrlVars
<1>2. ASSUME NEW cmd \in Cmd \ {ZeroCmd}, Take(cmd) PROVE WidthInv'
    <2>1. PortsOK' /\ Controllers'
        BY <1>1, <1>2, NoAccessKeeps DEF Take, WidthInv
    <2>2. QED
        BY <1>2, <2>1 DEF Take, SchedTake, WidthInv
<1>3. CASE NoCommand
    <2>1. PortsOK' /\ Controllers'
        BY <1>1, <1>3, NoAccessKeeps DEF NoCommand, WidthInv
    <2>2. QED
        BY <1>3, <2>1 DEF NoCommand, SchedHold, schedVars, WidthInv
<1>4. CASE Dispatch
    <2>1. sched_cmd_r \in Cmd \ {ZeroCmd} /\ Accept(Route(sched_cmd_r), sched_cmd_r)
          /\ sched_cmd_r' = sched_cmd_r
        BY <1>4 DEF Dispatch, dispatch_valid, SchedIssue, WidthInv
    <2>2. PortsOK' /\ Controllers'
        BY <2>1, AcceptKeeps
    <2>3. QED
        BY <2>1, <2>2 DEF WidthInv
<1>5. CASE Work
    <2>1. Step(be_sel_r) /\ sched_cmd_r \in Cmd
        BY <1>5 DEF Work, Handshake, SchedTypeOK
    <2>2. PortsOK' /\ Controllers'
        BY <2>1, StepKeeps
    <2>3. /\ sched_cmd_r' = sched_cmd_r /\ sched_state = "S_WAIT"
        BY <1>5 DEF Work, SchedRetire, SchedHold, schedVars
    <2>4. QED
        BY <2>2, <2>3 DEF WidthInv
<1>6. CASE Settle
    <2>1. Step(be_sel_r) /\ sched_cmd_r \in Cmd
        BY <1>6 DEF Settle, Handshake, SchedTypeOK
    <2>2. PortsOK' /\ Controllers'
        BY <2>1, StepKeeps
    <2>3. UNCHANGED schedVars
        BY <1>6 DEF Settle, SchedHold
    <2>4. QED
        BY <2>2, <2>3 DEF WidthInv, schedVars
<1>7. CASE UNCHANGED vars
    <2>1. UNCHANGED <<ctrlVars, portVars, schedVars>>
        BY <1>7 DEF vars
    <2>2. PortsOK'
        BY <2>1 DEF WidthInv, PortsOK, portVars
    <2>3. Controllers'
        BY <1>1, <2>1
    <2>4. QED
        BY <2>1, <2>2, <2>3 DEF WidthInv, schedVars
<1>8. QED
    BY <1>2, <1>3, <1>4, <1>5, <1>6, <1>7 DEF Next

LEMMA WidthHolds == Spec => []WidthInv
BY WidthInit, WidthStep, PortsHaveOneOwner, PTL DEF Spec

\* Whatever the commands and the contents of the buffers, the bytes the six
\* controllers write, also those convolution and GEMM have still to write, are
\* INT8, their loops stay inside the dimensions of the
\* command, the row mean lnorm_ctrl.sv finds with its serial divider is a byte and
\* the deviation it divides by is not 0.
THEOREM BytesKeepTheirWidth == Spec => []TypeOK
<1>1. Handshake /\ WidthInv => TypeOK
    <2> SUFFICES ASSUME Handshake, WidthInv PROVE TypeOK
        OBVIOUS
    <2>1. act \in [Addresses -> int8] /\ wt \in [Addresses -> int8]
        BY DEF WidthInv, PortsOK
    <2>2. SchedTypeOK /\ be_sel_r \in Backend
        BY DEF Handshake
    <2>6. ASSUME NEW b \in Backend \ {be_sel_r} PROVE ~ be_busy(b) /\ ~ InFlight(b)
        <3>1. Reported(b) /\ ~ InFlight(b)
            BY DEF Handshake
        <3>2. b = "conv" => ~ mac_busy(cv)
            BY <3>1 DEF Reported, InFlight, Quiet, in_flight, mac_busy, pipe_empty
        <3>3. b = "gemm" => ~ mac_busy(gm)
            BY <3>1 DEF Reported, InFlight, Quiet, in_flight, mac_busy, pipe_empty
        <3>4. ~ be_busy(b)
            BY <3>1, <3>2, <3>3 DEF Reported, be_busy
        <3> QED BY <3>1, <3>4
    <2>7. ASSUME NEW x \in {cv, gm}
          PROVE  /\ Len(x.sums) <= StagesBefore /\ Len(x.pipe) <= StagesAfter
                 /\ \A q \in {x.sums, x.pipe} : \A i \in 1 .. Len(q) : q[i].data \in int8
        <3>1. ResultsOK(x)
            BY DEF WidthInv, CvInv, GmInv
        <3>2. ASSUME NEW q \in Seq(Result), NEW i \in 1 .. Len(q) PROVE q[i].data \in int8
            <4>1. q[i] \in Result
                BY ElementOfSeq
            <4> QED BY <4>1 DEF Result
        <3> QED BY <3>1, <3>2 DEF ResultsOK
    <2>3. /\ cv.state = "COMPUTE" => /\ cv.oh_r < cv.cmd_r.out_h /\ cv.ow_r < cv.cmd_r.out_w
                                     /\ cv.k_r < cv.cmd_r.out_k
          /\ gm.state = "COMPUTE" => gm.m_r < gm.cmd_r.m_dim /\ gm.n_r < gm.cmd_r.n_dim
        BY DEF WidthInv, CvInv, CvInside, GmInv, GmInside
    <2>4. ln.mean_r \in int8 /\ ln.std_r \in 1 .. 2^(ACC_W \div 2) - 1
        BY DEF WidthInv, LnInv, LnTyped
    <2>5. QED
        BY <2>1, <2>2, <2>3, <2>4, <2>6, <2>7 DEF TypeOK
<1>2. QED
    BY <1>1, WidthHolds, PortsHaveOneOwner, PTL

\* From the end of the mean's division to the last write of the row, mean_r of
\* lnorm_ctrl.sv is the sum of the row over its length, rounded towards 0: the
\* serial divider, run on the magnitude of the sum, gives what signed division
\* gives, and no later division of the row disturbs it.
THEOREM DividerGivesTheMean == Spec => []MeanIsTruncated
<1>1. WidthInv => MeanIsTruncated
    BY DEF WidthInv, LnInv
<1>2. QED
    BY <1>1, WidthHolds, PTL

\* When S_SQRT of lnorm_ctrl.sv ends, std_r is the integer square root of the
\* variance plus 1: the root's remainder never outgrows its register.
THEOREM RootGivesTheDeviation == Spec => RootIsFloor
<1>1. ASSUME WidthInv, [Next]_vars, ln.state = "S_SQRT", ln'.state = "S_NORM_RD",
             NEW v, v = (ln.div.quot + 1) % 2^ACC_W, v > 0
      PROVE  ln'.std_r * ln'.std_r <= v /\ v < (ln'.std_r + 1) * (ln'.std_r + 1)
    <2>1. LnormSqrt
        <3>1. CASE UNCHANGED vars
            BY <1>1, <3>1 DEF vars, ctrlVars
        <3>2. CASE NoCommand \/ \E cmd \in Cmd \ {ZeroCmd} : Take(cmd)
            BY <1>1, <3>2 DEF NoCommand, Take, ctrlVars
        <3>3. CASE Dispatch
            <4>1. ln' = ln \/ LnormAt("S_IDLE")
                BY <3>3 DEF Dispatch, Accept, LnormAccept
            <4>2. QED
                BY <1>1, <4>1 DEF LnormAt
        <3>4. CASE Work \/ Settle
            <4>1. ln' = ln \/ \E c : LnormStep(c)
                BY <3>4 DEF Work, Settle, Step
            <4>2. PICK c : LnormStep(c)
                BY <1>1, <4>1
            <4>3. QED
                BY <1>1, <4>2 DEF LnormStep, LnormAt, LnormLoadCfg, LnormRead, LnormSumWait,
                     LnormMeanDiv, LnormVarWait, LnormVarDiv, LnormNormWait, LnormNormDiv,
                     LnormNormWrite, LnormDone
        <3>5. QED
            BY <1>1, <3>1, <3>2, <3>3, <3>4 DEF Next
    <2>2. PICK s : s = sqrt_step(ln.sqrt) /\ RootLeft(s, v, ln.sqrt.cnt)
        BY <1>1, <2>1, LnRootDigit DEF WidthInv
    <2>3. ln' = [ln EXCEPT !.state = IF ln.sqrt.cnt = 0 THEN "S_NORM_RD" ELSE @,
                           !.sqrt = s,
                           !.std_r = IF ln.sqrt.cnt # 0 THEN @
                                     ELSE IF s.result = 0 THEN 1 ELSE s.result]
        BY <2>1, <2>2 DEF LnormSqrt
    <2>4. ln.sqrt.cnt = 0
        BY <1>1, <2>3
    <2>5. PICK r \in Nat : r = s.result /\ r * r <= v /\ v < (r + 1) * (r + 1)
        BY <2>2, <2>4, RootEnd
    <2>6. v \in Int
        <3>1. 2^ACC_W \in Int /\ 2^ACC_W > 0 /\ ln.div.quot \in Nat
            BY <1>1, AccWAssumption, PowerAssumption DEF WidthInv, LnInv, LnTyped
        <3>2. QED
            BY <1>1, <3>1
    <2>7. r # 0
        BY <1>1, <2>5, <2>6
    <2>8. ln'.std_r = r
        BY <1>1, <2>3, <2>4, <2>5, <2>7 DEF WidthInv, LnInv, LnTyped, LnFields
    <2>9. QED
        BY <2>5, <2>8
<1>2. WidthInv /\ [Next]_vars =>
        [ln.state = "S_SQRT" /\ ln'.state = "S_NORM_RD" =>
            LET v == (ln.div.quot + 1) % 2^ACC_W
            IN v > 0 => /\ ln'.std_r * ln'.std_r <= v
                        /\ v < (ln'.std_r + 1) * (ln'.std_r + 1)]_vars
    BY <1>1
<1>3. QED
    BY <1>2, WidthHolds, PTL DEF Spec, RootIsFloor
=============================================================================
