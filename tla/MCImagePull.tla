---------------------------- MODULE MCImagePull ----------------------------
(***************************************************************************)
(* Two images that share a layer, requests of one byte, a receive buffer   *)
(* and a chunk shorter than every answer, a port counter that wraps.       *)
(***************************************************************************)
EXTENDS ImagePull

CONSTANTS nginx, redis, base, app

MCImages == {nginx, redis}
MCDigests == {base, app}
MCLayersOf == (nginx :> <<base, app>>) @@ (redis :> <<base>>)
=============================================================================
