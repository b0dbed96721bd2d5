--------------------------- MODULE ScribeSession ---------------------------
(***************************************************************************)
(* providers/elevenlabs_stt.py: PersistentSttSession, the speech-to-text   *)
(* provider that keeps one Scribe WebSocket for a call.  On the event loop *)
(* run start(), stop(), the feed task, the jobs that reconnect, and the    *)
(* SDK's callbacks; a consumer's thread ends a long utterance with         *)
(* set_speaking(False), which schedules a reconnect.  A step is what one   *)
(* of them does between two awaits, or two reads of shared state.          *)
(*                                                                         *)
(* Sockets and feed tasks are numbered in the order they are made; 0 is    *)
(* None.                                                                   *)
(***************************************************************************)
EXTENDS Naturals, Sequences, FiniteSets

CONSTANTS Jobs,          \* reconnects that may be scheduled in a call
          MaxFailures,   \* _MAX_CONSECUTIVE_SEND_FAILURES
          MaxAttempts,   \* _MAX_RECONNECT_ATTEMPTS
          MaxFrames,     \* bound: frames waiting in the inbound queue
          MayStop        \* TRUE: stop() may be called

ASSUME JobAssumption   == IsFiniteSet(Jobs) /\ "start" \notin Jobs
ASSUME BoundAssumption == MaxFailures \in Nat \ {0} /\ {MaxAttempts, MaxFrames} \subseteq Nat
ASSUME StopAssumption  == MayStop \in BOOLEAN

Procs   == Jobs \cup {"start"}            \* whoever runs _connect
Sockets == 1..Cardinality(Procs)
Feeders == 1..(Cardinality(Procs) + 1)

VARIABLES
    stopping, reconnecting, attempt, limit,   \* the fields of those names
    stt,         \* _stt: the socket the session uses
    open,        \* sockets that are open
    made,        \* how many sockets have been made
    queue,       \* the inbound queue: frames, and the None at the end
    feeder, fails, feedTask,   \* of a feed task: where it is, its failures; _feed_task
    via,         \* the socket a feed task's send() is called on, 0 between sends
    pc, kind, target,   \* of a job: where it is, why, and what it closes
    owned,       \* _owned_futures
    doomed,      \* jobs and feeders that have been cancelled
    caller,      \* the consumer's thread inside _schedule_owned
    stopPc,
    reported,    \* on_error has been called
    over         \* the None that ends the call has been queued

conns   == <<stt, open, made>>
feeding == <<feeder, fails, feedTask, via>>
jobs    == <<pc, kind, target, owned>>
vars    == <<stopping, reconnecting, attempt, limit, conns, queue, feeding, jobs, doomed,
             caller, stopPc, reported, over>>

TypeOK ==
    /\ stopping \in BOOLEAN /\ reconnecting \in BOOLEAN /\ limit \in BOOLEAN
    /\ attempt \in Nat
    /\ stt \in Sockets \cup {0} /\ open \subseteq Sockets /\ made \in Sockets \cup {0}
    /\ queue \in Seq({"frame", "end"})
    /\ feeder \in [Feeders -> {"none", "get", "send", "pause", "done"}]
    /\ fails \in [Feeders -> 0..MaxFailures] /\ feedTask \in Feeders \cup {0}
    /\ via \in [Feeders -> Sockets \cup {0}]
    /\ pc \in [Procs -> {"idle", "scheduled", "backoff", "closing", "connecting", "unwinding",
                       "done"}]
    /\ kind \in [Procs -> {"start", "long", "error"}]
    /\ target \in [Procs -> Sockets \cup {0}]
    /\ owned \subseteq Jobs /\ doomed \subseteq Procs \cup {"feeder"}
    /\ caller \in {"away", "passed"} /\ {reported, over} \subseteq BOOLEAN
    /\ stopPc \in {"no", "awaiting", "closing", "done"}
    /\ \A f \in Feeders : feeder[f] = "send" => via[f] # 0

Init ==
    /\ stopping = FALSE /\ reconnecting = FALSE /\ limit = FALSE /\ attempt = 0
    /\ stt = 0 /\ open = {} /\ made = 0 /\ queue = <<>>
    /\ feeder = [f \in Feeders |-> "none"] /\ fails = [f \in Feeders |-> 0]
    /\ feedTask = 0 /\ via = [f \in Feeders |-> 0]
    /\ pc = [p \in Procs |-> IF p = "start" THEN "scheduled" ELSE "idle"]
    /\ kind = [p \in Procs |-> "start"] /\ target = [p \in Procs |-> 0]
    /\ owned = {} /\ doomed = {} /\ caller = "away"
    /\ stopPc = "no" /\ reported = FALSE /\ over = FALSE

Live(f) == feeder[f] \notin {"none", "done"}
Active(p) == pc[p] \notin {"idle", "done"}
\* A cancelled job may take the step it was about to take before the loop delivers the
\* CancelledError, which it does before stop() resumes.
Runs(p) == p \notin doomed \/ stopPc = "awaiting"
Goes(p, where) == pc' = [pc EXCEPT ![p] = where]
\* The future is done: the callback discards it.
Ends(p) == Goes(p, "done") /\ owned' = owned \ {p}

-----------------------------------------------------------------------------
(* _connect                                                                *)

BeginConnect(p) ==
    /\ Runs(p)
    /\ pc[p] = (IF kind[p] = "error" THEN "backoff" ELSE "scheduled")
    /\ reconnecting' = TRUE /\ target' = [target EXCEPT ![p] = stt]
    /\ Goes(p, IF stt = 0 THEN "connecting" ELSE "closing")
    /\ queue' = IF kind[p] = "start" THEN <<>> ELSE queue     \* start() drains it
    /\ UNCHANGED <<stopping, attempt, limit, conns, feeding, kind, owned, doomed, caller,
                   stopPc, reported, over>>

OldClosed(p) ==
    /\ Runs(p) /\ pc[p] = "closing" /\ Goes(p, "connecting")
    /\ open' = open \ {target[p]} /\ target' = [target EXCEPT ![p] = 0]
    /\ UNCHANGED <<stopping, reconnecting, attempt, limit, stt, made, queue, feeding, kind,
                   owned, doomed, caller, stopPc, reported, over>>

NeedsFeeder_Always == ~stopping
NeedsFeeder_Resurrects == feedTask = 0 \/ feeder[feedTask] = "done"
\* _ensure_feed_task creates a task
NeedsFeeder == ~stopping /\ (feedTask = 0 \/ feeder[feedTask] = "done")

EnsureFeedTask ==
    IF NeedsFeeder
      THEN \E f \in Feeders :
             /\ feeder[f] = "none" /\ \A e \in Feeders : e < f => feeder[e] # "none"
             /\ feeder' = [feeder EXCEPT ![f] = "get"] /\ feedTask' = f
             /\ UNCHANGED <<fails, via>>
      ELSE UNCHANGED feeding

Connected(p) ==
    /\ Runs(p) /\ pc[p] = "connecting" /\ Ends(p)
    /\ made' = made + 1 /\ stt' = made + 1 /\ open' = open \cup {made + 1}
    /\ reconnecting' = FALSE
    /\ attempt' = IF kind[p] = "error" THEN 0 ELSE attempt
    /\ EnsureFeedTask
    /\ UNCHANGED <<stopping, limit, queue, kind, target, doomed, caller, stopPc, reported, over>>

\* _ensure_feed_task comes after the finally clause: a connect that raised skips it.
AfterRaise == UNCHANGED feeding

Guarded_Stuck == TRUE
\* the finally clause
Guarded == FALSE

\* Only _reconnect_after_error counts the failure.
ConnectRaises(p) ==
    /\ Runs(p) /\ pc[p] = "connecting" /\ Ends(p)
    /\ reconnecting' = Guarded /\ AfterRaise
    /\ attempt' = IF kind[p] = "error" THEN attempt + 1 ELSE attempt
    /\ UNCHANGED <<stopping, limit, conns, queue, kind, target, doomed, caller, stopPc,
                   reported, over>>

\* CancelledError reaches the job: it ends, or the SDK call it is in begins to unwind.
JobCancelled(p) ==
    /\ p \in doomed /\ Active(p) /\ pc[p] # "unwinding"
    /\ IF pc[p] \in {"closing", "connecting"}
         THEN Goes(p, "unwinding") /\ UNCHANGED owned
         ELSE Ends(p)
    /\ target' = [target EXCEPT ![p] = 0]
    /\ UNCHANGED <<stopping, reconnecting, attempt, limit, conns, queue, feeding, kind,
                   doomed, caller, stopPc, reported, over>>

Unwound(p) ==
    /\ pc[p] = "unwinding" /\ Ends(p) /\ reconnecting' = FALSE
    /\ UNCHANGED <<stopping, attempt, limit, conns, queue, feeding, kind, target, doomed,
                   caller, stopPc, reported, over>>

ConnectStep(p) == \/ BeginConnect(p) \/ OldClosed(p) \/ Connected(p) \/ ConnectRaises(p)
                  \/ JobCancelled(p) \/ Unwound(p)

-----------------------------------------------------------------------------
(* _reconnect_after_error up to its sleep                                  *)

\* What its drain leaves: what is behind the None, and the None
AfterDrain(q) ==
    LET ends == {i \in 1..Len(q) : q[i] = "end"} IN
    IF ends = {} THEN <<>>
    ELSE LET i == CHOOSE k \in ends : \A e \in ends : k <= e
         IN Append(SubSeq(q, i + 1, Len(q)), "end")

ErrorJobBegins(j) ==
    /\ Runs(j) /\ pc[j] = "scheduled" /\ kind[j] = "error"
    /\ IF attempt >= MaxAttempts
         THEN Ends(j) /\ reported' = TRUE /\ UNCHANGED queue
         ELSE Goes(j, "backoff") /\ queue' = AfterDrain(queue) /\ UNCHANGED <<owned, reported>>
    /\ UNCHANGED <<stopping, reconnecting, attempt, limit, conns, feeding, kind, target,
                   doomed, caller, stopPc, over>>

-----------------------------------------------------------------------------
(* _schedule_owned                                                         *)

Submit(j, why) ==
    /\ pc[j] = "idle" /\ Goes(j, "scheduled")
    /\ kind' = [kind EXCEPT ![j] = why] /\ owned' = owned \cup {j}

\* a fatal error event of a socket that is still open; on the loop, so in one step
FatalError(j) ==
    /\ open # {} /\ ~stopping /\ Submit(j, "error")
    /\ UNCHANGED <<stopping, reconnecting, attempt, limit, conns, queue, feeding, target,
                   doomed, caller, stopPc, reported, over>>

\* set_speaking(False) after a long utterance: _stopping is read on this thread ...
LongSpeechEnds ==
    /\ caller = "away" /\ pc["start"] # "scheduled" /\ ~stopping /\ caller' = "passed"
    /\ UNCHANGED <<stopping, reconnecting, attempt, limit, conns, queue, feeding, jobs,
                   doomed, stopPc, reported, over>>

\* ... and the job is submitted to the loop later.
LongSpeechSubmits(j) ==
    /\ caller = "passed" /\ caller' = "away" /\ Submit(j, "long")
    /\ UNCHANGED <<stopping, reconnecting, attempt, limit, conns, queue, feeding, target,
                   doomed, stopPc, reported, over>>

\* the other events: a terminal error, or the session's time limit
TerminalEvent ==
    /\ open # {} /\ reported' = TRUE
    /\ limit' \in {limit, TRUE}
    /\ UNCHANGED <<stopping, reconnecting, attempt, conns, queue, feeding, jobs, doomed,
                   caller, stopPc, over>>

-----------------------------------------------------------------------------
(* _feed_audio                                                             *)

FeederGoes(f, where) == feeder' = [feeder EXCEPT ![f] = where]

Take(f) ==
    /\ feeder[f] = "get" /\ "feeder" \notin doomed /\ queue # <<>>
    /\ queue' = Tail(queue)
    /\ IF Head(queue) = "end" \/ limit
         THEN FeederGoes(f, "done") /\ UNCHANGED via
         ELSE FeederGoes(f, "send") /\ via' = [via EXCEPT ![f] = stt]
    /\ UNCHANGED <<stopping, reconnecting, attempt, limit, conns, fails, feedTask, jobs,
                   doomed, caller, stopPc, reported, over>>

SendOk(f) ==
    /\ feeder[f] = "send" /\ "feeder" \notin doomed /\ via[f] \in open
    /\ FeederGoes(f, "get") /\ fails' = [fails EXCEPT ![f] = 0]
    /\ via' = [via EXCEPT ![f] = 0]
    /\ UNCHANGED <<stopping, reconnecting, attempt, limit, conns, queue, feedTask, jobs,
                   doomed, caller, stopPc, reported, over>>

GivesUp_Silently(f) == FeederGoes(f, "done") /\ UNCHANGED reported
\* the send failure that is one too many (NC-260)
GivesUp(f) == FeederGoes(f, "done") /\ reported' = TRUE

\* Failures while _connect swaps the socket do not count (NC-340).
SendRaises(f) ==
    /\ feeder[f] = "send" /\ "feeder" \notin doomed /\ via[f] \notin open
    /\ via' = [via EXCEPT ![f] = 0]
    /\ \/ /\ reconnecting /\ FeederGoes(f, "pause") /\ UNCHANGED <<fails, reported>>
       \/ /\ ~reconnecting
          /\ fails' = [fails EXCEPT ![f] = @ + 1]
          /\ IF fails[f] + 1 >= MaxFailures
               THEN GivesUp(f)
               ELSE FeederGoes(f, "pause") /\ UNCHANGED reported
    /\ UNCHANGED <<stopping, reconnecting, attempt, limit, conns, queue, feedTask, jobs,
                   doomed, caller, stopPc, over>>

Pause(f) ==
    /\ feeder[f] = "pause" /\ "feeder" \notin doomed /\ FeederGoes(f, "get")
    /\ UNCHANGED <<stopping, reconnecting, attempt, limit, conns, queue, fails, feedTask, via,
                   jobs, doomed, caller, stopPc, reported, over>>

FeederCancelled(f) ==
    /\ f = feedTask /\ Live(f) /\ "feeder" \in doomed /\ FeederGoes(f, "done")
    /\ UNCHANGED <<stopping, reconnecting, attempt, limit, conns, queue, fails, feedTask, via,
                   jobs, doomed, caller, stopPc, reported, over>>

FeedStep(f) == Take(f) \/ SendOk(f) \/ SendRaises(f) \/ Pause(f) \/ FeederCancelled(f)

-----------------------------------------------------------------------------
(* stop()                                                                  *)

\* Cancels what is owned.  A future that has been cancelled counts as done at once, so
\* gather() waits for the feed task, not for what the cancelled jobs still do.
StopBegins ==
    /\ MayStop /\ stopPc = "no" /\ pc["start"] # "scheduled"
    /\ stopPc' = "awaiting" /\ stopping' = TRUE
    /\ doomed' = doomed \cup owned \cup (IF feedTask = 0 THEN {} ELSE {"feeder"})
    /\ owned' = {}
    /\ UNCHANGED <<reconnecting, attempt, limit, conns, queue, feeding, pc, kind, target,
                   caller, reported, over>>

GatherReturns ==
    /\ stopPc = "awaiting" /\ (feedTask # 0 => ~Live(feedTask))
    /\ \A j \in Jobs \cap doomed : pc[j] \in {"unwinding", "done"}
    /\ stopPc' = IF stt = 0 THEN "done" ELSE "closing"
    /\ UNCHANGED <<stopping, reconnecting, attempt, limit, conns, queue, feeding, jobs,
                   doomed, caller, reported, over>>

StopCloses ==
    /\ stopPc = "closing" /\ stopPc' = "done" /\ open' = open \ {stt}
    /\ UNCHANGED <<stopping, reconnecting, attempt, limit, stt, made, queue, feeding, jobs,
                   doomed, caller, reported, over>>

StopStep == GatherReturns \/ StopCloses

-----------------------------------------------------------------------------
(* The world                                                               *)

FrameArrives ==
    /\ Len(queue) < MaxFrames /\ ~over
    /\ queue' = Append(queue, "frame")
    /\ UNCHANGED <<stopping, reconnecting, attempt, limit, conns, feeding, jobs, doomed,
                   caller, stopPc, reported, over>>

\* signal_disconnected puts the None
CallEnds ==
    /\ ~over /\ over' = TRUE
    /\ queue' = Append(queue, "end")
    /\ UNCHANGED <<stopping, reconnecting, attempt, limit, conns, feeding, jobs, doomed,
                   caller, stopPc, reported>>

\* Scribe or the network drops the socket, with no event
SocketDies ==
    /\ \E s \in open : open' = open \ {s}
    /\ UNCHANGED <<stopping, reconnecting, attempt, limit, stt, made, queue, feeding, jobs,
                   doomed, caller, stopPc, reported, over>>

Next ==
    \/ \E p \in Procs : ConnectStep(p)
    \/ \E j \in Jobs : ErrorJobBegins(j) \/ FatalError(j) \/ LongSpeechSubmits(j)
    \/ LongSpeechEnds \/ TerminalEvent
    \/ \E f \in Feeders : FeedStep(f)
    \/ StopBegins \/ StopStep \/ FrameArrives \/ CallEnds \/ SocketDies

\* The loop runs its tasks, connects and closes end or raise by their timeouts, the
\* consumer's thread runs, and the transport delivers audio as long as the call is up.
Fairness ==
    /\ \A p \in Procs : WF_vars(ConnectStep(p))
    /\ \A j \in Jobs : WF_vars(ErrorJobBegins(j)) /\ WF_vars(LongSpeechSubmits(j))
    /\ \A f \in Feeders : WF_vars(FeedStep(f))
    /\ WF_vars(StopStep) /\ WF_vars(FrameArrives)

Spec == Init /\ [][Next]_vars /\ Fairness

-----------------------------------------------------------------------------
(* Properties                                                              *)

\* VR-005 AC-04: at most one live feeder consumes the inbound queue, whichever of
\* start() and the reconnects made it.
OneFeeder == \A e, f \in Feeders : Live(e) /\ Live(f) => e = f

\* VR-005: when stop() has returned no feed task is alive, and no reconnect that was
\* under way brings one back.
StoppedFeedsNothing == stopPc = "done" => \A f \in Feeders : ~Live(f)

\* NC-258, NC-260: once connected the provider listens.  Its feed task ends only with the call,
\* by stop(), or, with a report, at the time limit or the limit of send failures.
ListensOn ==
    /\ stt # 0 /\ ~stopping => \E f \in Feeders : feeder[f] # "none"
    /\ \A f \in Feeders : feeder[f] = "done" =>
          over \/ stopping \/ (reported /\ (limit \/ fails[f] = MaxFailures))

Deaf == pc["start"] = "done" /\ stt # 0 /\ stt \notin open

\* NC-258, NC-340: the provider does not go deaf in silence.  A lost socket is
\* replaced, or on_error is called, as long as the caller's audio keeps coming.
DeafIsReported == Deaf ~> (~Deaf \/ reported \/ stopping \/ over)
=============================================================================
