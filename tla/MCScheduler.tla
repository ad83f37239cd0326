---------------------------- MODULE MCScheduler ----------------------------
(***************************************************************************)
(* Up to four processes, which block and wake at any time.                *)
(***************************************************************************)
EXTENDS Scheduler
=============================================================================
