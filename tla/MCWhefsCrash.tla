---------------------------- MODULE MCWhefsCrash ----------------------------
(***************************************************************************)
(* Instance of WhefsCrash for TLC: two files and three blocks, so that a   *)
(* chain has a first, a middle and a last block while another file grows.  *)
(***************************************************************************)
EXTENDS WhefsCrash

=============================================================================
