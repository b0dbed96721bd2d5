-------------------------- MODULE MCScribeSession --------------------------
(* Instances of ScribeSession for TLC. *)
EXTENDS ScribeSession, TLC

Symmetry == Permutations(Jobs)
=============================================================================
