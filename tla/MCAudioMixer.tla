---------------------------- MODULE MCAudioMixer ----------------------------
(* Instance of AudioMixer for TLC. *)
EXTENDS AudioMixer

\* both ends of the range, and a soft and a very soft sample of either sign
Boundary == {0, 112, 128, 250}
=============================================================================
