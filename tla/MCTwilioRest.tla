---------------------------- MODULE MCTwilioRest ----------------------------
(* Instance of TwilioRest for TLC. *)
EXTENDS TwilioRest
=============================================================================
