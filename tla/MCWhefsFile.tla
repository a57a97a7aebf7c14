---------------------------- MODULE MCWhefsFile ----------------------------
(***************************************************************************)
(* Instance of WhefsFile for TLC: two files, two devices, three blocks of  *)
(* two bytes.  Positions go up to 4, so that a write of 3 bytes may start  *)
(* behind the end of a file and needs more blocks than there are.          *)
(***************************************************************************)
EXTENDS WhefsFile

CONSTANTS h1, h2

MCHandle == {h1, h2}
Symmetry == Permutations(MCHandle)
=============================================================================
