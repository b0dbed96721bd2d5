------------------------------ MODULE MCSttTee ------------------------------
(* Instances of SttTee for TLC. *)
EXTENDS SttTee
=============================================================================
