----------------------------- MODULE FrameQueue -----------------------------
(***************************************************************************)
(* What a receive ring promises: a bounded queue that hands over every     *)
(* frame it accepted, once, unaltered and in order.                        *)
(***************************************************************************)
EXTENDS Naturals, Sequences

CONSTANTS Frames, Capacity

VARIABLES queue,   \* frames accepted and not handed over
          out      \* the frame handed over last, 0 before the first

vars == <<queue, out>>

Init == queue = <<>> /\ out = 0

Put == /\ Len(queue) < Capacity
       /\ \E f \in Frames : queue' = Append(queue, f)
       /\ UNCHANGED out

Get == /\ queue # <<>>
       /\ out' = Head(queue)
       /\ queue' = Tail(queue)

Next == Put \/ Get

Spec == Init /\ [][Next]_vars
=============================================================================
