----------------------- MODULE MCAudioHookConnection -----------------------
(* Instances of AudioHookConnection for TLC. *)
EXTENDS AudioHookConnection
=============================================================================
