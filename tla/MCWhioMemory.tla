---------------------------- MODULE MCWhioMemory ----------------------------
(***************************************************************************)
(* Instance of WhioMemory for TLC: a device of each kind, with two parts.  *)
(***************************************************************************)
EXTENDS WhioMemory, TLC

Symmetry == Permutations(Sub)
MCWindows == {<<0, 1>>, <<1, 3>>, <<1, 0>>}
=============================================================================
