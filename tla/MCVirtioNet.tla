---------------------------- MODULE MCVirtioNet ----------------------------
(***************************************************************************)
(* Three descriptors and indices modulo 6, so that every index wraps, with *)
(* two frame contents.                                                     *)
(***************************************************************************)
EXTENDS VirtioNet
=============================================================================
