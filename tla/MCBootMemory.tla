---------------------------- MODULE MCBootMemory ----------------------------
(* Every map of three regions of up to four frames, usable or not, with a  *)
(* gap before the second: a heap of three pages that cross the boundary of *)
(* a table at both levels needs seven frames.                              *)
EXTENDS BootMemory

MCMaps ==
    {<<[usable |-> a, start |-> 0, end |-> l], [usable |-> b, start |-> 5, end |-> 5 + m],
       [usable |-> c, start |-> 5 + m, end |-> 5 + m + n]>> :
        a, b, c \in BOOLEAN, l, m, n \in 0..4}
=============================================================================
