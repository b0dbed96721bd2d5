------------------------------ MODULE Playout ------------------------------
(***************************************************************************)
(* What the writer of an AudioHook socket promises the session.  Audio     *)
(* goes out in the order it was queued and none is skipped, unless a clear *)
(* request is answered: that drops all that waits, and until it is         *)
(* answered no more goes out.  A wait for a mark is released when all the  *)
(* audio queued before its mark is gone, or by an answer to a clear        *)
(* request that found it waiting.                                          *)
(*                                                                         *)
(* A byte is its number in the order of queueing.                          *)
(***************************************************************************)
EXTENDS Naturals, Sequences

CONSTANTS Packet,   \* bytes that go out at once, at most
          Names     \* marks

VARIABLES put,      \* bytes queued so far
          gone,     \* bytes that are out, or were dropped
          packet,   \* the bytes that are going out
          clears,   \* clear requests not answered yet
          queued,   \* marks that have been queued
          before,   \* bytes queued before each mark
          waiting,  \* marks with a wait that is not over
          released, \* marks whose wait was told
          cut       \* waits that the answer to a clear request will release

audio == <<put, gone, packet, clears>>
marks == <<queued, before>>
waits == <<waiting, released, cut>>
vars  == <<audio, marks, waits>>

Init == /\ put = 0 /\ gone = 0 /\ packet = <<>> /\ clears = 0
        /\ queued = {} /\ before = [n \in Names |-> 0]
        /\ waiting = {} /\ released = {} /\ cut = {}

-----------------------------------------------------------------------------
(* The session                                                             *)

Queue == /\ put' \in Nat /\ put' > put
         /\ UNCHANGED <<gone, packet, clears, marks, waits>>

Request == clears' = clears + 1 /\ UNCHANGED <<put, gone, packet, marks, waits>>

Wait(n) == /\ n \notin queued /\ waiting' = waiting \cup {n}
           /\ UNCHANGED <<audio, marks, released, cut>>

QueueMark(n) == /\ n \notin queued /\ queued' = queued \cup {n}
                /\ before' = [before EXCEPT ![n] = put]
                /\ UNCHANGED <<audio, waits>>

\* The wait is over, by its release or its timeout.
Leave(n) == /\ n \in waiting
            /\ waiting' = waiting \ {n} /\ released' = released \ {n}
            /\ UNCHANGED <<audio, marks, cut>>

-----------------------------------------------------------------------------
(* The writer                                                              *)

\* Tells any of the waits whose audio is gone.
Tells == \E due \in SUBSET {n \in queued \cap waiting : before[n] <= gone'} :
            released' = released \cup due

Send == /\ packet = <<>> /\ clears = 0
        /\ \E k \in 1..Packet : /\ gone + k <= put
                                /\ packet' = [i \in 1..k |-> gone + i]
        /\ UNCHANGED <<put, gone, clears, marks, waits>>

Sent == /\ packet # <<>> /\ packet' = <<>> /\ gone' = gone + Len(packet) /\ Tells
        /\ UNCHANGED <<put, clears, marks, waiting, cut>>

Release == Tells /\ UNCHANGED <<audio, marks, waiting, cut>>

Cut == /\ clears > 0 /\ clears' = clears - 1 /\ packet = <<>>
       /\ gone' = put /\ cut' = waiting
       /\ UNCHANGED <<put, packet, marks, waiting, released>>

CutTells == /\ released' = released \cup (cut \cap waiting) /\ cut' = {}
            /\ UNCHANGED <<audio, marks, waiting>>

Next == \/ Queue \/ Request \/ Send \/ Sent \/ Release \/ Cut \/ CutTells
        \/ \E n \in Names : Wait(n) \/ QueueMark(n) \/ Leave(n)

Spec == Init /\ [][Next]_vars
=============================================================================
