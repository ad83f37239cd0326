--------------------------- MODULE MCHttpListener ---------------------------
(***************************************************************************)
(* Two connections, so that one is refused while the other is open and the *)
(* listener is used again afterwards.                                      *)
(***************************************************************************)
EXTENDS HttpListener

CONSTANTS c1, c2

OneSetup == <<80>>
TwoSetups == <<80, 81>>
=============================================================================
