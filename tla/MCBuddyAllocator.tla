-------------------------- MODULE MCBuddyAllocator --------------------------
(***************************************************************************)
(* Three orders.  The first list leaves a hole in every aligned block of 8 *)
(* frames; the others are such a block without a hole, one frame of which  *)
(* comes first in one of them.                                             *)
(***************************************************************************)
EXTENDS BuddyAllocator

MCFrameLists == {<<1, 2, 3, 4, 5, 6, 7, 8, 9, 10>>, <<0, 1, 2, 3, 4, 5, 6, 7>>,
                 <<9, 3, 0, 1, 7, 2, 6, 5, 4, 8>>}
=============================================================================
