------------------------------- MODULE SttTee -------------------------------
(***************************************************************************)
(* stt_tee.py: SttTee gives the audio of a call to two providers through a *)
(* fan-out task; the primary drives the conversation, the secondary only   *)
(* logs.  The secondary is an AzureSession, as in production; the primary  *)
(* is its queue and whether its start() and stop() have returned.          *)
(*                                                                         *)
(* One call: the session's inbound queue, the transport's task that runs   *)
(* start(), and whoever calls stop(): the transport's teardown, or reset().*)
(***************************************************************************)
EXTENDS AzureSession

CONSTANTS MaxFrames    \* bound: frames of the call

ASSUME FramesAssumption == MaxFrames \in Nat

VARIABLES
    inbound,      \* session.inbound
    arrived,      \* frames that have arrived; the call's None comes after them
    over,         \* the call's None is queued
    starting,     \* where start() is
    pq,           \* what was put to _primary_queue
    fanout,       \* _fanout_task
    stopAt,       \* where stop() is
    overlapped    \* history: stop() began while start() was under way

source == <<inbound, arrived, over>>
tee    == <<starting, pq, fanout, stopAt, overlapped>>
vars   == <<azure, source, tee>>

Init ==
    /\ AzureInit
    /\ inbound = <<>> /\ arrived = 0 /\ over = FALSE
    /\ starting = "no" /\ pq = <<>> /\ fanout = "none"
    /\ stopAt = "no" /\ overlapped = FALSE

TypeOK ==
    /\ AzureTypeOK
    /\ inbound \in Seq(0..MaxFrames) /\ arrived \in 0..MaxFrames /\ over \in BOOLEAN
    /\ starting \in {"no", "primary", "done", "raised", "cancelled"}
    /\ pq \in Seq(0..MaxFrames)
    /\ fanout \in {"none", "new", "get", "cancelled", "ended"}
    /\ (fanout # "none") = (starting = "done") /\ (feed # "none" => recognizer # 0)
    /\ stopAt \in {"no", "fanout", "primary", "secondary", "done"}
    /\ overlapped \in BOOLEAN

-----------------------------------------------------------------------------
(* The transport                                                           *)

FrameArrives ==
    /\ ~over /\ arrived < MaxFrames
    /\ arrived' = arrived + 1 /\ inbound' = Append(inbound, arrived + 1)
    /\ UNCHANGED <<azure, over, tee>>

CallEnds ==
    /\ ~over /\ over' = TRUE /\ inbound' = Append(inbound, End)
    /\ UNCHANGED <<azure, arrived, tee>>

\* the transport's stt_task
StartBegins ==
    /\ starting = "no" /\ starting' = "primary"
    /\ overlapped' = (stopAt # "no")
    /\ UNCHANGED <<azure, source, pq, fanout, stopAt>>

\* stt_task.cancel(), after stop() has returned, while the primary still connects
StartCancelled ==
    /\ starting = "primary" /\ stopAt = "done" /\ starting' = "cancelled"
    /\ UNCHANGED <<azure, source, pq, fanout, stopAt, overlapped>>

-----------------------------------------------------------------------------
(* start() and the fan-out task                                            *)

PrimaryRaises ==
    /\ starting = "primary" /\ starting' = "raised"
    /\ UNCHANGED <<azure, source, pq, fanout, stopAt, overlapped>>

SecondaryFails_InTry == starting' = "done" /\ UNCHANGED fanout
\* only logged: the fan-out task is created all the same
SecondaryFails == starting' = "done" /\ fanout' = "new"

\* The primary's start has returned.  The secondary's blocks the loop, so the rest of
\* start() is one step.
PrimaryStarts ==
    /\ starting = "primary"
    /\ \/ AzureStarts /\ starting' = "done" /\ fanout' = "new"
       \/ AzureStartRaises /\ SecondaryFails
    /\ UNCHANGED <<source, pq, stopAt, overlapped>>

FanoutBegins ==
    /\ fanout = "new" /\ fanout' = "get"
    /\ UNCHANGED <<azure, source, starting, pq, stopAt, overlapped>>

\* the queues are not bounded, so neither put raises
PutToBoth(f) ==
    /\ pq' = Append(pq, f) /\ aq' = Append(aq, f)
    /\ UNCHANGED <<stopping, attempt, engine, feed, work, azureStop, reported>>

Fanout ==
    /\ fanout = "get" /\ inbound # <<>>
    /\ inbound' = Tail(inbound) /\ PutToBoth(Head(inbound))
    /\ fanout' = IF Head(inbound) = End THEN "ended" ELSE "get"
    /\ UNCHANGED <<arrived, over, starting, stopAt, overlapped>>

Sentinel_PrimaryOnly ==
    pq' = Append(pq, End) /\ UNCHANGED azure
Sentinel == PutToBoth(End)

\* except CancelledError: propagate the sentinel
FanoutCancelled ==
    /\ fanout = "cancelled" /\ fanout' = "ended" /\ Sentinel
    /\ UNCHANGED <<source, starting, stopAt, overlapped>>

FanoutStep == FanoutBegins \/ Fanout \/ FanoutCancelled

-----------------------------------------------------------------------------
(* stop()                                                                  *)

\* A task that has not begun is cancelled without running any of its body.
Cancelled == CASE fanout = "get" -> "cancelled" [] fanout = "new" -> "ended"
               [] OTHER -> fanout

StopBegins ==
    /\ stopAt = "no" /\ stopAt' = IF fanout = "none" THEN "primary" ELSE "fanout"
    /\ fanout' = Cancelled
    /\ overlapped' = (starting = "primary")
    /\ UNCHANGED <<azure, source, starting, pq>>

\* await self._fanout_task
FanoutJoined ==
    /\ stopAt = "fanout" /\ fanout = "ended" /\ stopAt' = "primary"
    /\ UNCHANGED <<azure, source, starting, pq, fanout, overlapped>>

\* primary.stop() has returned or raised, and the secondary's begins
PrimaryStopped ==
    /\ stopAt = "primary" /\ stopAt' = "secondary" /\ AzureStopBegins
    /\ UNCHANGED <<source, starting, pq, fanout, overlapped>>

SecondaryStops ==
    /\ stopAt = "secondary" /\ AzureStopResumes
    /\ UNCHANGED <<source, tee>>

\* azureStop is "no" if start() ran in between
StopReturns ==
    /\ stopAt = "secondary" /\ azureStop # "gather" /\ stopAt' = "done"
    /\ UNCHANGED <<azure, source, starting, pq, fanout, overlapped>>

StopStep == FanoutJoined \/ PrimaryStopped \/ SecondaryStops \/ StopReturns

-----------------------------------------------------------------------------
Provider(A) == A /\ UNCHANGED <<source, tee>>

Next ==
    \/ FrameArrives \/ CallEnds \/ StartBegins \/ StartCancelled
    \/ PrimaryRaises \/ PrimaryStarts \/ FanoutStep \/ StopBegins \/ StopStep
    \/ Provider(AzureNext)

\* The loop and the SDK's thread run what can go on; a start, a stop, a build and a
\* backoff end by their timeouts.
Fairness ==
    /\ WF_vars(PrimaryStarts \/ PrimaryRaises) /\ WF_vars(FanoutStep) /\ WF_vars(StopStep)
    /\ \A j \in Jobs : WF_vars(Provider(SdkStep(j) \/ JobStep(j)))
    /\ WF_vars(Provider(FeedStep))

Spec == Init /\ [][Next]_vars /\ Fairness

-----------------------------------------------------------------------------
(* Properties                                                              *)

\* "Secondary errors never propagate": once the primary has started, every frame of the
\* call reaches it, whatever becomes of the secondary, until stop().
PrimaryHears ==
    starting = "done"
        ~> ((\A n \in 1..arrived : \E i \in 1..Len(pq) : pq[i] = n) \/ stopAt # "no")

\* q without the None at its end, if it has one
EndsIn(q) == q # <<>> /\ q[Len(q)] = End
Frames(q) == IF EndsIn(q) THEN SubSeq(q, 1, Len(q) - 1) ELSE q
NothingLost == Frames(pq) \o Frames(inbound) = [i \in 1..arrived |-> i]

ToldOnce ==
    /\ \A i \in 1..Len(pq) : pq[i] = End => i = Len(pq)
    /\ fanout = "ended" /\ pq # <<>> => pq[Len(pq)] = End
    /\ Len(aq) <= Len(pq) /\ aq = SubSeq(pq, Len(pq) - Len(aq) + 1, Len(pq))

\* What the primary got and what waits is the call, in order and without a gap.  The
\* providers are told once that the audio is over, behind all of it, and the same to both:
\* also a secondary that did not start, and whether the call ended or stop() came first.
\* (A fan-out task that is cancelled before its first step tells them nothing.)
HeardInOrder == NothingLost /\ ToldOnce

\* "Stop both providers and cancel fan-out": when stop() has returned nobody takes the
\* audio of the session, and no recognizer runs, unless stop() overlapped start().
StopIsFinal ==
    stopAt = "done" /\ ~overlapped => fanout \in {"none", "ended"} /\ StoppedIsSilent
=============================================================================
