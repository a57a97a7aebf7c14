-------------------------- MODULE MCWhefsContainer --------------------------
(***************************************************************************)
(* Instance of WhefsContainer for TLC: three processes, so that a writer   *)
(* meets two readers, and two blocks, so that a container can grow.        *)
(***************************************************************************)
EXTENDS WhefsContainer

=============================================================================
