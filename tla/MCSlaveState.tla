---------------------------- MODULE MCSlaveState ----------------------------
(***************************************************************************)
(* TLC instances of SlaveState: two slaves in a line, of either of two     *)
(* kinds that differ in name only.                                         *)
(***************************************************************************)
EXTENDS SlaveState, TLC

Symmetry == Permutations(Kinds)
=============================================================================
