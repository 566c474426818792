------------------------------ MODULE CmdDecode ------------------------------
(***************************************************************************)
(* rtl/control/npu_cmd_decode.sv: collects the descriptor words, checks    *)
(* the opcode of word 0 and offers the command to the queue until it is    *)
(* taken.  A bad opcode is reported for one cycle and dropped.             *)
(*                                                                         *)
(* A descriptor word stands for the descriptor it belongs to, so a command *)
(* is a function from word numbers to words: the fields of conv_cmd_t are  *)
(* slices of those words.  ValidWord is the set of first words whose low   *)
(* four bits are one of the six opcodes.                                   *)
(***************************************************************************)
EXTENDS RegBlock

CONSTANT ValidWord

ASSUME ValidWordAssumption == ValidWord \subseteq Word \ {0}

VARIABLES
    desc_regs,
    decode_state,
    decode_cmd_r,
    err_r

decodeVars == <<desc_regs, decode_state, decode_cmd_r, err_r>>

decode_busy == decode_state # "S_IDLE"
cmd_valid == decode_state = "S_VALID" /\ ~err_r
decode_err == decode_state = "S_VALID" /\ err_r

DescRegsClk(word_valid, idx, word) ==
    desc_regs' = IF word_valid THEN [desc_regs EXCEPT ![idx] = word]
                               ELSE desc_regs

DecodeStart(done) ==
    /\ decode_state = "S_IDLE" /\ done
    /\ decode_state' = "S_CHECK"
    /\ UNCHANGED <<decode_cmd_r, err_r>>

\* Mutant: the opcode is not looked at.
DecodeCheckNothing ==
    /\ decode_state = "S_CHECK"
    /\ decode_state' = "S_VALID"
    /\ err_r' = FALSE
    /\ decode_cmd_r' = desc_regs

DecodeCheck ==
    /\ decode_state = "S_CHECK"
    /\ decode_state' = "S_VALID"
    /\ err_r' = (desc_regs[0] \notin ValidWord)
    /\ decode_cmd_r' = desc_regs

\* Mutant: a refused command, too, waits for the queue.
HandedOverOnlyToQueue(cmd_ready) == cmd_ready

\* What ends S_VALID: the queue takes the command, or there is none to take.
HandedOver(cmd_ready) == cmd_ready \/ err_r

DecodeHandOver(cmd_ready) ==
    /\ decode_state = "S_VALID" /\ HandedOver(cmd_ready)
    /\ decode_state' = "S_IDLE"
    /\ UNCHANGED <<decode_cmd_r, err_r>>

DecodeHold(done, cmd_ready) ==
    /\ \/ decode_state = "S_IDLE" /\ ~done
       \/ decode_state = "S_VALID" /\ ~HandedOver(cmd_ready)
    /\ UNCHANGED <<decode_state, decode_cmd_r, err_r>>

DecodeClk(word_valid, idx, word, done, cmd_ready) ==
    /\ DescRegsClk(word_valid, idx, word)
    /\ \/ DecodeStart(done)
       \/ DecodeCheck
       \/ DecodeHandOver(cmd_ready)
       \/ DecodeHold(done, cmd_ready)

DecodeReset ==
    /\ desc_regs' = [i \in WordIdx |-> 0]
    /\ decode_state' = "S_IDLE"
    /\ decode_cmd_r' = [i \in WordIdx |-> 0]
    /\ err_r' = FALSE

DecodeInit ==
    /\ desc_regs = [i \in WordIdx |-> 0]
    /\ decode_state = "S_IDLE"
    /\ decode_cmd_r = [i \in WordIdx |-> 0]
    /\ err_r = FALSE

\* Type invariant of the decoder.
DecodeTypeOK ==
    /\ desc_regs \in [WordIdx -> Word]
    /\ decode_state \in {"S_IDLE", "S_CHECK", "S_VALID"}
    /\ decode_cmd_r \in [WordIdx -> Word]
    /\ err_r \in BOOLEAN
=============================================================================
