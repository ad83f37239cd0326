--------------------------- MODULE MCKernelLocks ---------------------------
(***************************************************************************)
(* Boot, then any sequence of console output, allocations and serving,     *)
(* with the timer firing anywhere.                                         *)
(***************************************************************************)
EXTENDS KernelLocks
=============================================================================
