---------------------------- MODULE AddressPool ----------------------------
(***************************************************************************)
(* What a pool of addresses promises, whatever order it hands them out in: *)
(* an allocation returns some free address and fails only when none is     *)
(* free; a release makes an address free again or changes nothing.         *)
(***************************************************************************)
CONSTANTS Addrs,   \* the addresses the pool may hand out
          None     \* the answer of an allocation that fails

VARIABLES free,    \* addresses not handed out
          last     \* answer of the latest allocation

vars == <<free, last>>

Init == free = Addrs /\ last = None

Grant == \E a \in free : free' = free \ {a} /\ last' = a

Refuse == free = {} /\ last' = None /\ UNCHANGED free

GiveBack == \E a \in Addrs : free' = free \cup {a} /\ UNCHANGED last

Next == Grant \/ Refuse \/ GiveBack

Spec == Init /\ [][Next]_vars
=============================================================================
