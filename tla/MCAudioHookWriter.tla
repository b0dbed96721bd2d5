------------------------- MODULE MCAudioHookWriter -------------------------
(* Instances of AudioHookWriter for TLC. *)
EXTENDS AudioHookWriter, TLC

Symmetry == Permutations(Names)
=============================================================================
