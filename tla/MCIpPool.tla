------------------------------ MODULE MCIpPool ------------------------------
(***************************************************************************)
(* A /29 in an address space of 32 addresses: five container addresses.    *)
(***************************************************************************)
EXTENDS IpPool

MCBase == 8
MCSize == 8
MCAddrTop == 31

\* The last /29 of the address space, where base + size saturates.
MCTopBase == 24
=============================================================================
