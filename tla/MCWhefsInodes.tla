--------------------------- MODULE MCWhefsInodes ---------------------------
(***************************************************************************)
(* Instance of WhefsInodes for TLC: two inodes, three devices, sizes 0..2. *)
(***************************************************************************)
EXTENDS WhefsInodes

CONSTANTS h1, h2, h3

MCInode    == {2, 3}
MCHandle   == {h1, h2, h3}
=============================================================================
