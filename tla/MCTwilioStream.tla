--------------------------- MODULE MCTwilioStream ---------------------------
(* Instances of TwilioStream for TLC. *)
EXTENDS TwilioStream
=============================================================================
