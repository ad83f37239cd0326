------------------------------- MODULE IpPool -------------------------------
(***************************************************************************)
(* net/vswitch.rs, IpPool: container addresses of one subnet, handed out   *)
(* by a cursor that release() rewinds.  release() takes any address: the   *)
(* pool keeps no owner, so the model lets a caller give back what it never *)
(* got, twice, or after somebody else got it.                              *)
(***************************************************************************)
EXTENDS Integers, FiniteSets

CONSTANTS Base,      \* network address, `base`
          Size,      \* 1 << (32 - mask), 0 when the shift overflows (mask = 0)
          AddrTop,   \* u32::MAX
          None       \* the answer None

ASSUME IpPoolAssumption ==
    /\ Base \in Nat /\ Size \in Nat /\ AddrTop \in Nat
    /\ Base + 2 <= AddrTop        \* `b + 2` in new() does not overflow
    /\ None \notin Nat

VARIABLES used, next,
          last       \* the latest answer of allocate(), for the refinement

vars == <<used, next, last>>

SatAdd(a, b) == IF a + b > AddrTop THEN AddrTop ELSE a + b
SatSub(a, b) == IF a < b THEN 0 ELSE a - b

\* The loop's bound `max`, the broadcast address.
Broadcast == SatSub(SatAdd(Base, Size), 1)

\* The addresses the loop of allocate() can return.
Addrs == (Base + 2) .. (Broadcast - 1)

\* Seeded forms: `<=` in the loop's guard; the result of insert() ignored.
Candidates_Inclusive == {n \in next .. Broadcast : n \notin used}
Candidates_Unchecked == next .. (Broadcast - 1)

Candidates == {n \in next .. (Broadcast - 1) : n \notin used}

Init == used = {} /\ next = Base + 2 /\ last = None

\* The loop advances the cursor past used addresses and stops behind the one
\* it takes.
AllocateSome ==
    \E n \in Candidates :
        /\ \A m \in Candidates : n <= m
        /\ used' = used \cup {n}
        /\ next' = n + 1
        /\ last' = n

\* The loop runs off the end: the cursor stays at the broadcast address.
AllocateNone ==
    /\ Candidates = {}
    /\ next' = IF next < Broadcast THEN Broadcast ELSE next
    /\ last' = None
    /\ UNCHANGED used

\* Seeded form: the cursor is not rewound.
Release_NoRewind(n) == used' = used \ {n} /\ UNCHANGED <<next, last>>

Release(n) ==
    /\ used' = used \ {n}
    /\ next' = IF n \in used /\ n < next THEN n ELSE next
    /\ UNCHANGED last

\* Seeded form of available(): the gateway is not excluded.
Available_NoGateway == Cardinality(used) < SatSub(Size, 2)

Available == Cardinality(used) < SatSub(Size, 3)

Next == \/ AllocateSome
        \/ AllocateNone
        \/ \E n \in 0 .. AddrTop : Release(n)

Spec == Init /\ [][Next]_vars
-----------------------------------------------------------------------------
TypeOK == /\ used \subseteq Addrs
          /\ next \in (Base + 2) .. AddrTop
          /\ last \in Addrs \cup {None}

\* Addresses behind the cursor are all in use: no sequence of releases, stale
\* ones included, makes allocate() walk past a free address (vswitch.rs:54-66).
NoSkippedAddress == (Base + 2) .. (next - 1) \subseteq used

\* allocate() returns the lowest free address, so a freed one is offered again
\* before any fresh one (vswitch.rs:31, "freed addresses are reused first").
LowestFreeFirst ==
    [][\A n \in used' \ used, a \in Addrs \ used : n <= a]_vars

\* available() answers true exactly when allocate() would return an address
\* (vswitch.rs:71-75 counts, vswitch.rs:48-60 searches).
AvailableIsExact == Available <=> Candidates # {}

\* The pool implements the abstract one: allocate() answers None only when
\* every address is handed out (vswitch.rs:47).
Pool == INSTANCE AddressPool WITH free <- Addrs \ used
PoolSpec == Pool!Spec
=============================================================================
