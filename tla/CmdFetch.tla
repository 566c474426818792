------------------------------ MODULE CmdFetch ------------------------------
(***************************************************************************)
(* rtl/control/npu_cmd_fetch.sv: on a doorbell pulse, reads the words of   *)
(* the descriptor window one after the other and hands each to the decoder *)
(* as it arrives.  A doorbell that finds the FSM busy is not remembered.   *)
(***************************************************************************)
EXTENDS RegBlock

VARIABLES fetch_state, word_cnt

fetchVars == <<fetch_state, word_cnt>>

fetch_busy == fetch_state # "S_IDLE"
cmd_rd_req == fetch_state = "S_READ"

desc_word_valid(rvalid) == fetch_state = "S_WAIT" /\ rvalid
desc_done(rvalid) == desc_word_valid(rvalid) /\ word_cnt = NUM_WORDS - 1

\* Mutant: word_cnt does not wrap.
NextWordNoWrap == word_cnt + 1

\* word_cnt is as wide as NUM_WORDS needs, so it wraps after the last word.
NextWord == IF word_cnt = NUM_WORDS - 1 THEN 0 ELSE word_cnt + 1

FetchAccept(doorbell) ==
    /\ fetch_state = "S_IDLE" /\ doorbell
    /\ fetch_state' = "S_READ"
    /\ word_cnt' = 0

FetchRead ==
    /\ fetch_state = "S_READ"
    /\ fetch_state' = "S_WAIT"
    /\ UNCHANGED word_cnt

FetchDeliver(rvalid) ==
    /\ desc_word_valid(rvalid)
    /\ fetch_state' = IF desc_done(rvalid) THEN "S_IDLE" ELSE "S_READ"
    /\ word_cnt' = NextWord

FetchHold(doorbell, rvalid) ==
    /\ \/ fetch_state = "S_IDLE" /\ ~doorbell
       \/ fetch_state = "S_WAIT" /\ ~rvalid
    /\ UNCHANGED fetchVars

FetchClk(doorbell, rvalid) ==
    \/ FetchAccept(doorbell)
    \/ FetchRead
    \/ FetchDeliver(rvalid)
    \/ FetchHold(doorbell, rvalid)

FetchReset == fetch_state' = "S_IDLE" /\ word_cnt' = 0

FetchInit == fetch_state = "S_IDLE" /\ word_cnt = 0

\* Type invariant of the fetch FSM.
FetchTypeOK ==
    /\ fetch_state \in {"S_IDLE", "S_READ", "S_WAIT"}
    /\ word_cnt \in 0 .. NUM_WORDS - 1
=============================================================================
