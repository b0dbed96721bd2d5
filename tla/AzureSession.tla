---------------------------- MODULE AzureSession ----------------------------
(***************************************************************************)
(* providers/azure_stt.py: AzurePersistentStt, the speech-to-text provider *)
(* that keeps one Azure recognizer for a call.  start(), stop(), the feed  *)
(* task and the jobs that reconnect run on the event loop; the SDK calls   *)
(* _on_canceled on a thread of its own.  A step is what the loop does      *)
(* between two awaits, or the thread between two uses of shared state:     *)
(* the SDK calls of start() and _reconnect() block the loop (.get()), so   *)
(* each is part of one step.                                               *)
(*                                                                         *)
(* The module has the provider's state and operations; SttTee calls them.  *)
(* Recognizers and push streams are numbered as they are made; 0 is None.  *)
(***************************************************************************)
EXTENDS Naturals, Sequences, FiniteSets

CONSTANTS Jobs,         \* cancel events with an error, and the reconnects they ask for
          MaxAttempts   \* _MAX_RECONNECT_ATTEMPTS

ASSUME JobsAssumption     == IsFiniteSet(Jobs)
ASSUME AttemptsAssumption == MaxAttempts \in Nat \ {0}

VARIABLES
    stopping, attempt,      \* _stopping, _reconnect_attempt
    recognizer, stream,     \* _recognizer, _push_stream
    made,                   \* push streams made so far
    alive,                  \* recognizers that recognize
    failed,                 \* recognizers whose start raised, and that have sent no event
    writable,               \* the current push stream is not closed
    aq,                     \* the provider's inbound queue
    feed,                   \* _feed_task
    job,                    \* where a cancel event and its reconnect are
    owned,                  \* _owned_futures
    doomed,                 \* jobs stop() has cancelled
    escaped,                \* history: jobs stop() did not find, past the test of _stopping
    azureStop,              \* where stop() is
    reported                \* on_error has been called

engine == <<recognizer, stream, made, alive, failed, writable>>
work   == <<job, owned, doomed, escaped>>
azure  == <<stopping, attempt, engine, aq, feed, work, azureStop, reported>>

End == 0        \* the None that ends the audio; frames are numbered from 1

AzureTypeOK ==
    /\ stopping \in BOOLEAN /\ attempt \in Nat
    /\ {recognizer, stream, made} \subseteq Nat /\ alive \cup failed \subseteq Nat
    /\ recognizer <= made /\ stream <= made /\ writable \in BOOLEAN
    /\ aq \in Seq(Nat)
    /\ feed \in {"none", "get", "cancelled", "ended", "raised"}
    /\ job \in [Jobs -> {"idle", "event", "passed", "scheduled", "backoff", "done"}]
    /\ owned \subseteq Jobs /\ doomed \subseteq Jobs /\ escaped \subseteq Jobs
    /\ azureStop \in {"no", "gather", "done"} /\ reported \in BOOLEAN

AzureInit ==
    /\ stopping = FALSE /\ attempt = 0
    /\ recognizer = 0 /\ stream = 0 /\ made = 0 /\ alive = {} /\ failed = {} /\ writable = FALSE
    /\ aq = <<>> /\ feed = "none"
    /\ job = [j \in Jobs |-> "idle"] /\ owned = {} /\ doomed = {} /\ escaped = {}
    /\ azureStop = "no" /\ reported = FALSE

JobGoes(j, where) == job' = [job EXCEPT ![j] = where]
\* The future is done: its callback discards it.
JobEnds(j) == JobGoes(j, "done") /\ owned' = owned \ {j}

-----------------------------------------------------------------------------
(* _build_recognizer, and starting it                                      *)

\* `rest' is what still runs of the recognizers before
Built(rest) ==
    /\ made' = made + 1 /\ stream' = made + 1 /\ writable' = TRUE
    /\ recognizer' = made + 1 /\ alive' = rest \cup {made + 1} /\ UNCHANGED failed

\* What raises is the push stream, the recognizer that would read it, or its start.
BuildRaises(rest) ==
    /\ alive' = rest
    /\ \/ UNCHANGED <<made, stream, recognizer, failed>> /\ writable' = FALSE
       \/ /\ made' = made + 1 /\ stream' = made + 1 /\ writable' = TRUE
          /\ \/ UNCHANGED <<recognizer, failed>>
             \/ recognizer' = made + 1 /\ failed' = failed \cup {made + 1}

-----------------------------------------------------------------------------
(* start(), on the loop                                                    *)

AzureStarts ==
    /\ Built(alive) /\ feed' = "get"
    /\ stopping' = FALSE /\ azureStop' = "no"
    /\ UNCHANGED <<attempt, aq, work, reported>>

AzureStartRaises ==
    /\ BuildRaises(alive)
    /\ stopping' = FALSE /\ azureStop' = "no"
    /\ UNCHANGED <<attempt, aq, feed, work, reported>>

-----------------------------------------------------------------------------
(* _on_canceled and _schedule_owned, on the SDK's thread                   *)

\* The service or the network ends a recognition, or what became of a start that raised
\* is told here too; the event is on its way.
Dies(j) ==
    /\ job[j] = "idle" /\ JobGoes(j, "event")
    /\ \E r \in alive \cup failed : alive' = alive \ {r} /\ failed' = failed \ {r}
    /\ UNCHANGED <<stopping, attempt, recognizer, stream, made, writable, aq, feed, owned,
                   doomed, escaped, azureStop, reported>>

\* A closed stream ends its recognition: CancellationReason.EndOfStream, only logged.
EndOfStream ==
    /\ ~writable /\ stream \in alive /\ alive' = alive \ {stream}
    /\ UNCHANGED <<stopping, attempt, recognizer, stream, made, failed, writable, aq, feed, work,
                   azureStop, reported>>

\* if self._stopping: return; the last test is in _schedule_owned
MayReconnect == ~stopping

TestStopping(j) ==
    /\ job[j] = "event" /\ JobGoes(j, IF MayReconnect THEN "passed" ELSE "done")
    /\ UNCHANGED <<stopping, attempt, engine, aq, feed, owned, doomed, escaped, azureStop, reported>>

\* run_coroutine_threadsafe
Submit(j) ==
    /\ job[j] = "passed" /\ JobGoes(j, "scheduled")
    /\ UNCHANGED <<stopping, attempt, engine, aq, feed, owned, doomed, escaped, azureStop, reported>>

\* _owned_futures.add, and the callback that discards a future that is done
Own(j) ==
    /\ job[j] \in {"scheduled", "backoff"} /\ j \notin owned \cup doomed
    /\ owned' = owned \cup {j}
    /\ UNCHANGED <<stopping, attempt, engine, aq, feed, job, doomed, escaped, azureStop, reported>>

SdkStep(j) == TestStopping(j) \/ Submit(j) \/ Own(j)

-----------------------------------------------------------------------------
(* _reconnect_after_error and _reconnect, on the loop                      *)

\* A cancelled job may take the step the loop was about to run, before stop() resumes.
Runs(j) == j \notin doomed \/ azureStop = "gather"

Exhausted(tries) == tries >= MaxAttempts

\* up to the backoff; a failed reconnect comes back here with the attempt counted
Attempt(j, tries) ==
    IF Exhausted(tries) THEN JobEnds(j) /\ reported' = TRUE
                        ELSE JobGoes(j, "backoff") /\ UNCHANGED <<owned, reported>>

Begin(j) ==
    /\ Runs(j) /\ job[j] = "scheduled" /\ Attempt(j, attempt)
    /\ UNCHANGED <<stopping, attempt, engine, aq, feed, doomed, escaped, azureStop>>

StillRunning_All == alive
\* _reconnect stops the recognizer the session has; another one goes on
StillRunning == alive \ {recognizer}

Reconnects(j) ==
    /\ Runs(j) /\ job[j] = "backoff" /\ JobEnds(j)
    /\ Built(StillRunning) /\ attempt' = 0
    /\ UNCHANGED <<stopping, aq, feed, doomed, escaped, azureStop, reported>>

Recurse_GivesUp(j, tries) == JobEnds(j) /\ UNCHANGED reported
Recurse(j, tries) == Attempt(j, tries)

\* Jobs that overlap count on one counter, which may be past the limit already.
ReconnectRaises(j) ==
    /\ Runs(j) /\ job[j] = "backoff"
    /\ BuildRaises(StillRunning)
    /\ attempt' = attempt + 1 /\ Recurse(j, attempt + 1)
    /\ UNCHANGED <<stopping, aq, feed, doomed, escaped, azureStop>>

\* CancelledError reaches the job in its backoff, or before its first step.
JobCancelled(j) ==
    /\ j \in doomed /\ job[j] \in {"scheduled", "backoff"} /\ JobEnds(j)
    /\ UNCHANGED <<stopping, attempt, engine, aq, feed, doomed, escaped, azureStop, reported>>

JobStep(j) == Begin(j) \/ Reconnects(j) \/ ReconnectRaises(j) \/ JobCancelled(j)

-----------------------------------------------------------------------------
(* _feed_audio                                                             *)

\* A write to a closed stream may raise, and then the task is over.
Feed ==
    /\ feed = "get" /\ aq # <<>> /\ aq' = Tail(aq)
    /\ IF Head(aq) = End
         THEN feed' = "ended" /\ writable' = FALSE
         ELSE feed' \in (IF writable THEN {"get"} ELSE {"get", "raised"}) /\ UNCHANGED writable
    /\ UNCHANGED <<stopping, attempt, recognizer, stream, made, alive, failed, work, azureStop, reported>>

FeedCancelled ==
    /\ feed = "cancelled" /\ feed' = "ended"
    /\ UNCHANGED <<stopping, attempt, engine, aq, work, azureStop, reported>>

FeedStep == Feed \/ FeedCancelled

-----------------------------------------------------------------------------
(* stop()                                                                  *)

\* stops the recognizer and closes the stream it finds after the gather
Closes == alive' = alive \ {recognizer} /\ writable' = FALSE /\ azureStop' = "done"

Cancels_None == {}
Cancels == owned

AzureStopBegins ==
    /\ stopping' = TRUE
    /\ doomed' = doomed \cup Cancels /\ owned' = {}
    /\ escaped' = escaped \cup {j \in Jobs \ owned : job[j] \in {"passed", "scheduled", "backoff"}}
    /\ feed' = IF feed = "get" THEN "cancelled" ELSE feed
    /\ IF owned = {} /\ feed = "none"
         THEN Closes
         ELSE azureStop' = "gather" /\ UNCHANGED <<alive, writable>>
    /\ UNCHANGED <<attempt, recognizer, stream, made, failed, aq, job, reported>>

\* gather: a cancelled future counts as done at once, but the loop runs what it was
\* about to run of the job, and the CancelledError, before stop() goes on.
AzureStopResumes ==
    /\ azureStop = "gather" /\ feed # "cancelled"
    /\ \A j \in doomed : job[j] = "done"
    /\ Closes
    /\ UNCHANGED <<stopping, attempt, recognizer, stream, made, failed, aq, feed, work, reported>>

-----------------------------------------------------------------------------
AzureNext == \/ EndOfStream \/ FeedStep
             \/ \E j \in Jobs : Dies(j) \/ SdkStep(j) \/ JobStep(j)

-----------------------------------------------------------------------------
(* Properties                                                              *)

\* NC-258 J-2: a reconnect takes the place of the recognizer before it, so the caller
\* is never transcribed twice, however many reconnects overlap and whichever fail.
OneRecognizer == alive \subseteq {recognizer}

\* VR-005, NC-258 J-5: when stop() has returned no recognizer runs, and no reconnect makes
\* one later, apart from one that was being submitted when stop() began.
StoppedIsSilent == azureStop = "done" /\ escaped = {} => alive = {}

\* The recognition has ended while audio is fed.
Deaf == recognizer # 0 /\ recognizer \notin alive /\ feed = "get"

\* NC-258 J-1: a recognition that ended with an error is replaced, or reported, while
\* the provider runs.
DeafIsReported == Deaf ~> (~Deaf \/ reported \/ stopping)
=============================================================================
