-------------------------- MODULE MCTargetHistory --------------------------
(* TargetHistory for TLC. *)
EXTENDS TargetHistory, TLC

Symmetry == Permutations(Procs)
=============================================================================
