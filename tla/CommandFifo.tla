----------------------------- MODULE CommandFifo -----------------------------
(***************************************************************************)
(* What the command queue promises: a bounded first-in first-out sequence. *)
(* In one clock edge it may take one command, give one command, do both or *)
(* neither, or be flushed by reset.  A push needs room before the edge     *)
(* even when a pop happens on the same edge, as in the code.               *)
(***************************************************************************)
EXTENDS Integers, Sequences

CONSTANTS Capacity, Item

VARIABLE items

Push(c) ==
    /\ Len(items) < Capacity
    /\ items' = Append(items, c)

Pop ==
    /\ items # <<>>
    /\ items' = Tail(items)

PushPop(c) ==
    /\ items # <<>>
    /\ Len(items) < Capacity
    /\ items' = Append(Tail(items), c)

Flush == items' = <<>>

Init == items = <<>>

Next == (\E c \in Item : Push(c) \/ PushPop(c)) \/ Pop \/ Flush

Spec == Init /\ [][Next]_items
=============================================================================
