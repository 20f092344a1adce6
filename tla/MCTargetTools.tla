---------------------------- MODULE MCTargetTools ----------------------------
(* Instances of TargetTools for TLC. *)
EXTENDS TargetTools, TLC

MCCall == Tool \X {1, 2}

Symmetry == Permutations(Tool)
=============================================================================
