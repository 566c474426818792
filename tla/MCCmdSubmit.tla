----------------------------- MODULE MCCmdSubmit -----------------------------
\* Small instances of the submission path: two backends, command numbers as
\* descriptor words, one of them with a bad opcode.
EXTENDS CmdSubmit

CONSTANTS BadCmds

MCWord == 0 .. MaxCmds
MCValidWord == (1 .. MaxCmds) \ BadCmds
MCCmd == [0 .. NUM_WORDS - 1 -> MCWord]
MCZeroCmd == [i \in 0 .. NUM_WORDS - 1 |-> 0]
MCBackend == {"softmax", "vec"}

\* Odd commands are for one backend, even ones for the other.
MCRoute(c) == IF c[0] % 2 = 1 THEN "vec" ELSE "softmax"
=============================================================================
