----------------------------- MODULE FramePool -----------------------------
(***************************************************************************)
(* What a block allocator of page frames promises: a request of order o    *)
(* gets a free, aligned block of just that size and is refused only       *)
(* when there is none; a block that is given back is free again, whole.    *)
(***************************************************************************)
EXTENDS Integers, FiniteSets

CONSTANTS Frames, Orders,
          Size,   \* order |-> frames of a block
          None

VARIABLES fresh,    \* frames not handed to the pool yet
          avail,    \* frames in the pool that nobody holds
          held,     \* blocks that callers hold: <<first frame, order>>
          answer    \* the latest request, an order, and its answer

vars == <<fresh, avail, held, answer>>

Block(f, o) == f .. (f + Size[o] - 1)

FreeBlocks(o) == {f \in Frames : f % Size[o] = 0 /\ Block(f, o) \subseteq avail}

Init == fresh \in SUBSET Frames /\ avail = {} /\ held = {} /\ answer = <<0, None>>

Supply(f) == /\ fresh' = fresh \ {f} /\ avail' = avail \cup {f}
             /\ UNCHANGED <<held, answer>>

Grant(o) ==
    \E f \in FreeBlocks(o) :
        /\ avail' = avail \ Block(f, o) /\ held' = held \cup {<<f, o>>}
        /\ answer' = <<o, f>>
        /\ UNCHANGED fresh

Refuse(o) ==
    /\ FreeBlocks(o) = {} /\ answer' = <<o, None>>
    /\ UNCHANGED <<fresh, avail, held>>

GiveBack(b) ==
    /\ avail' = avail \cup Block(b[1], b[2]) /\ held' = held \ {b}
    /\ UNCHANGED <<fresh, answer>>

Next == \/ \E f \in fresh : Supply(f)
        \/ \E o \in Orders : Grant(o) \/ Refuse(o)
        \/ \E b \in held : GiveBack(b)

Spec == Init /\ [][Next]_vars
=============================================================================
