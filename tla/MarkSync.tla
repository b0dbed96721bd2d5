------------------------------ MODULE MarkSync ------------------------------
(***************************************************************************)
(* What send_mark_and_wait promises its callers: a wait is released by the *)
(* echo of its own mark, or because the phone call is being ended, or it   *)
(* expires.  Marks may be lost, and the echo of another caller's mark      *)
(* releases nobody.                                                        *)
(***************************************************************************)
CONSTANT Callers

VARIABLES phase,    \* out of the function, waiting in it, expired, or released
          travels,  \* the mark of the current wait is on its way or played
          ending    \* the phone call is being ended: waits may be released

vars == <<phase, travels, ending>>

Init == /\ phase = [t \in Callers |-> "out"]
        /\ travels = [t \in Callers |-> FALSE]
        /\ ending = FALSE

Goes(t, from, to) == phase[t] \in from /\ phase' = [phase EXCEPT ![t] = to]

Call(t) == /\ Goes(t, {"out"}, "waiting")
           /\ travels' = [travels EXCEPT ![t] = TRUE]
           /\ UNCHANGED ending

\* The timeout is over; until the caller has left, its event may still be set.
Expire(t) == Goes(t, {"waiting"}, "expired") /\ UNCHANGED <<travels, ending>>

Echo(t) == /\ travels[t] /\ Goes(t, {"waiting", "expired"}, "released")
           /\ travels' = [travels EXCEPT ![t] = FALSE]
           /\ UNCHANGED ending

ReleaseByEnd(t) == /\ ending /\ Goes(t, {"waiting", "expired"}, "released")
                   /\ UNCHANGED <<travels, ending>>

Return(t) == /\ Goes(t, {"expired", "released"}, "out")
             /\ travels' = [travels EXCEPT ![t] = FALSE]
             /\ UNCHANGED ending

\* Marks get lost, also those of a call that ends.
Lose == /\ travels' \in [Callers -> BOOLEAN]
        /\ \A t \in Callers : travels'[t] => travels[t]
        /\ ending' \in BOOLEAN
        /\ UNCHANGED phase

Next == \/ Lose
        \/ \E t \in Callers : \/ Call(t) \/ Expire(t) \/ Echo(t)
                              \/ ReleaseByEnd(t) \/ Return(t)

Spec == Init /\ [][Next]_vars
=============================================================================
