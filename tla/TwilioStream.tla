---------------------------- MODULE TwilioStream ----------------------------
(***************************************************************************)
(* transports/twilio_ws.py: the handler of a Media Streams WebSocket and   *)
(* the tasks it starts: send_audio, send_marks, send_clears,               *)
(* watch_disconnect and the STT start.  All of them run on one event loop; *)
(* a step is what one of them does between two awaits.                     *)
(*                                                                         *)
(* The session is reused: call g has its own connection and handler, and   *)
(* the handler of call g may still be at work when call g + 1 begins.      *)
(* VoiceSession models the session's own methods step by step; here each   *)
(* is one step.  The handler's media and mark events only call put_inbound *)
(* and signal_mark_received, which are VoiceSession's Media and Echo.      *)
(***************************************************************************)
EXTENDS Naturals, Sequences

CONSTANTS MaxGen,      \* bound: number of resets
          MaxPuts,     \* bound: chunks, marks and clears queued in all
          HasStt,      \* the session has an STT factory
          SttMayFail,  \* stt.start() may raise
          RestCalls,   \* calls with a call_sid and credentials for the REST hangup
          BotCalls     \* bound: calls in which the bot may ask for a disconnect

Calls == 0..MaxGen
None  == MaxGen + 1
Sends == {"audio", "mark", "clear"}      \* the tasks that write to the socket
Tasks == Sends \cup {"watch"}

ASSUME BoundAssumption == {MaxGen, MaxPuts} \subseteq Nat
ASSUME FlagAssumption  == {HasStt, SttMayFail} \subseteq BOOLEAN /\ RestCalls \cup BotCalls \subseteq Calls

VARIABLES
    \* the session
    gen, disconnected,
    intent,     \* the call _disconnect_requested and _clear_queue were made in, or None
    fired,      \* calls whose _disconnect_requested is set
    stt,        \* session.stt is not None
    queue,      \* outbound, _mark_queue, and the newest _clear_queue; of an item is
                \* kept the call it was queued in
    \* the handler of each call
    main,       \* where websocket_endpoint is
    sock,       \* its socket
    sttTask, task,
    held,       \* what a send task took from its queue and writes
    event,      \* the event watch_disconnect waits for
    put         \* chunks, marks and clears queued so far

session == <<gen, disconnected, intent, fired, stt>>
handler == <<main, sock, sttTask>>
work    == <<task, held, event>>
vars    == <<session, queue, handler, work, put>>

TypeOK ==
    /\ gen \in Calls /\ disconnected \in BOOLEAN /\ intent \in Calls \cup {None}
    /\ fired \subseteq Calls /\ stt \in BOOLEAN
    /\ queue \in [Sends -> Seq(Calls)]
    /\ main \in [Calls -> {"none", "accepted", "receive", "stopping", "stt",
                           "clear", "watch", "audio", "mark", "done", "raised"}]
    /\ sock \in [Calls -> {"none", "open", "closed"}]
    /\ sttTask \in [Calls -> {"none", "starting", "started", "failed"}]
    /\ task \in [Calls -> [Tasks -> {"none", "new", "get", "write", "wait", "rest",
                                     "poll", "close", "done"}]]
    /\ held \in [Calls -> [Sends -> Calls \cup {None}]] /\ event \in [Calls -> Calls \cup {None}]
    /\ \A g \in Calls : task[g]["watch"] = "wait" => event[g] \in Calls
    /\ \A g \in Calls, k \in Sends : (task[g][k] = "write") <=> (held[g][k] # None)
    /\ put \in 0..MaxPuts

Init ==
    /\ gen = 0 /\ disconnected = FALSE /\ intent = None /\ fired = {} /\ stt = FALSE
    /\ queue = [k \in Sends |-> <<>>]
    /\ main = [g \in Calls |-> "none"] /\ sock = [g \in Calls |-> "none"]
    /\ sttTask = [g \in Calls |-> "none"]
    /\ task = [g \in Calls |-> [k \in Tasks |-> "none"]]
    /\ held = [g \in Calls |-> [k \in Sends |-> None]]
    /\ event = [g \in Calls |-> None]
    /\ put = 0

TaskGoes(g, k, where) == task' = [task EXCEPT ![g][k] = where]
MainGoes(g, where)    == main' = [main EXCEPT ![g] = where]

\* signal_disconnected, called by a handler or one of its tasks
SignalDisconnected == disconnected' = TRUE

-----------------------------------------------------------------------------
(* The consumer                                                            *)

\* put_outbound_sync, send_mark_and_wait and request_clear_buffer, as far as the
\* queues go: the puts run on the loop in the order they were scheduled
Put(k) ==
    /\ main[gen] # "none" /\ put < MaxPuts /\ put' = put + 1
    /\ k = "clear" => intent # None /\ main[gen] # "accepted"
    /\ queue' = [queue EXCEPT ![k] = Append(@, gen)]
    /\ UNCHANGED <<session, handler, work>>

\* request_disconnect(generation) of the current call
RequestDisconnect ==
    /\ intent \in BotCalls /\ main[gen] # "none" /\ intent \notin fired
    /\ fired' = fired \cup {intent}
    /\ UNCHANGED <<gen, disconnected, intent, stt, queue, handler, work, put>>

\* reset(): the consumer has learned that the call is over.  It does not drain
\* _mark_queue.
Reset ==
    /\ disconnected /\ gen < MaxGen
    /\ gen' = gen + 1 /\ disconnected' = FALSE
    /\ intent' = None /\ stt' = FALSE
    /\ queue' = [queue EXCEPT !["audio"] = <<>>, !["clear"] = <<>>]
    /\ UNCHANGED <<fired, handler, work, put>>

-----------------------------------------------------------------------------
(* The handler of call g                                                   *)

Accept(g) ==
    /\ gen = g /\ main[g] = "none" /\ MainGoes(g, "accepted")
    /\ sock' = [sock EXCEPT ![g] = "open"]
    /\ UNCHANGED <<session, queue, sttTask, work, put>>

\* the start event: signal_ws_connected, the tasks, start_session_stt
Start(g) ==
    /\ main[g] = "accepted" /\ sock[g] = "open" /\ MainGoes(g, "receive")
    /\ intent' = IF intent = None THEN gen ELSE intent
    /\ stt' = (stt \/ HasStt)
    /\ sttTask' = [sttTask EXCEPT ![g] = IF stt' THEN "starting" ELSE "none"]
    /\ task' = [task EXCEPT ![g] = [k \in Tasks |-> IF k = "watch" THEN "new" ELSE "get"]]
    /\ UNCHANGED <<gen, disconnected, fired, queue, sock, held, event, put>>

\* The finally clause begins with: if session.stt is not None: await session.stt.stop()
Finally(g) == MainGoes(g, IF stt THEN "stopping" ELSE "stt")

\* the stop event: the socket is still open
StopEvent(g) ==
    /\ main[g] = "receive" /\ sock[g] = "open" /\ Finally(g) /\ SignalDisconnected
    /\ UNCHANGED <<gen, intent, fired, stt, queue, sock, sttTask, work, put>>

\* Twilio closes the socket, or the network loses it (external)
FarEndCloses(g) ==
    /\ sock[g] = "open" /\ sock' = [sock EXCEPT ![g] = "closed"]
    /\ UNCHANGED <<session, queue, main, sttTask, work, put>>

ReceiveRaises_Silent(g) ==
    /\ main[g] \in {"accepted", "receive"} /\ sock[g] = "closed" /\ Finally(g)
    /\ UNCHANGED <<session, queue, sock, sttTask, work, put>>

\* WebSocketDisconnect, RuntimeError or another error of receive_text
ReceiveRaises(g) ==
    /\ main[g] \in {"accepted", "receive"} /\ sock[g] = "closed"
    /\ Finally(g) /\ SignalDisconnected
    /\ UNCHANGED <<gen, intent, fired, stt, queue, sock, sttTask, work, put>>

\* When the endpoint has returned or raised, the server closes the socket.
Returned(g, now) == sock' = IF now THEN [sock EXCEPT ![g] = "closed"] ELSE sock

StopReturns(g) ==
    /\ main[g] = "stopping" /\ MainGoes(g, "stt")
    /\ UNCHANGED <<session, queue, sock, sttTask, work, put>>

\* stt_task.cancel(), await stt_task: only CancelledError is suppressed, so what
\* start() raised ends the finally clause here
CancelStt(g) ==
    /\ main[g] = "stt"
    /\ MainGoes(g, IF sttTask[g] = "failed" THEN "raised" ELSE "clear")
    /\ sttTask' = [sttTask EXCEPT ![g] = "none"]
    /\ Returned(g, sttTask[g] = "failed")
    /\ UNCHANGED <<session, queue, work, put>>

AfterCancel_SkipsMarks(k) == CASE k = "clear" -> "watch" [] k = "watch" -> "audio"
                               [] k = "audio" -> "done" [] k = "mark" -> "done"
AfterCancel(k) == CASE k = "clear" -> "watch" [] k = "watch" -> "audio"
                    [] k = "audio" -> "mark"  [] k = "mark" -> "done"

\* cancel and await the task whose turn it is
CancelTask(g, k) ==
    /\ main[g] = k /\ MainGoes(g, AfterCancel(k))
    /\ TaskGoes(g, k, IF task[g][k] = "none" THEN "none" ELSE "done")
    /\ IF k \in Sends THEN held' = [held EXCEPT ![g][k] = None] ELSE UNCHANGED held
    /\ Returned(g, k = "mark")
    /\ UNCHANGED <<session, queue, sttTask, event, put>>

SttStarts(g) ==
    /\ sttTask[g] = "starting"
    /\ \/ sttTask' = [sttTask EXCEPT ![g] = "started"]
       \/ SttMayFail /\ sttTask' = [sttTask EXCEPT ![g] = "failed"]
    /\ UNCHANGED <<session, queue, main, sock, work, put>>

-----------------------------------------------------------------------------
(* send_audio, send_marks, send_clears                                     *)

\* The clear queue a task reads is the one of its own call; the other two are
\* the session's for as long as it lives.
Get(g, k) ==
    /\ task[g][k] = "get" /\ queue[k] # <<>>
    /\ k = "clear" => Head(queue[k]) = g
    /\ held' = [held EXCEPT ![g][k] = Head(queue[k])]
    /\ queue' = [queue EXCEPT ![k] = Tail(@)]
    /\ TaskGoes(g, k, "write")
    /\ UNCHANGED <<session, handler, event, put>>

Written(g, k) ==
    /\ task[g][k] = "write" /\ sock[g] = "open" /\ TaskGoes(g, k, "get")
    /\ held' = [held EXCEPT ![g][k] = None]
    /\ UNCHANGED <<session, queue, handler, event, put>>

\* the write raises: NC-260 Gap B
WriteRaises(g, k) ==
    /\ task[g][k] = "write" /\ sock[g] = "closed" /\ TaskGoes(g, k, "done")
    /\ held' = [held EXCEPT ![g][k] = None]
    /\ IF k = "clear" THEN UNCHANGED <<disconnected>> ELSE SignalDisconnected
    /\ UNCHANGED <<gen, intent, fired, stt, queue, handler, event, put>>

SendStep(g, k) == Get(g, k) \/ Written(g, k) \/ WriteRaises(g, k)

-----------------------------------------------------------------------------
(* watch_disconnect and rest_hangup_first                                  *)

\* if session._disconnect_requested is None: return
WatchBegins(g) ==
    /\ task[g]["watch"] = "new"
    /\ TaskGoes(g, "watch", IF intent = None THEN "done" ELSE "wait")
    /\ event' = [event EXCEPT ![g] = intent]
    /\ UNCHANGED <<session, queue, handler, held, put>>

Requested(g) ==
    /\ task[g]["watch"] = "wait" /\ event[g] \in fired
    /\ TaskGoes(g, "watch", IF g \in RestCalls THEN "rest" ELSE "close")
    /\ UNCHANGED <<session, queue, handler, held, event, put>>

\* hangup_call, on a thread of its own, returns or raises
RestReturns(g) ==
    /\ task[g]["watch"] = "rest"
    /\ \/ TaskGoes(g, "watch", "poll")
       \/ TaskGoes(g, "watch", "close")
    /\ UNCHANGED <<session, queue, handler, held, event, put>>

\* if session.is_disconnected: return True
CloseObserved(g) ==
    /\ task[g]["watch"] = "poll" /\ disconnected /\ TaskGoes(g, "watch", "done")
    /\ UNCHANGED <<session, queue, handler, held, event, put>>

AtDeadline_GivesUp == "done"
\* Past the deadline rest_hangup_first returns False, and the socket is closed.
AtDeadline == "close"

\* REST_CLOSE_WAIT_S is over; the last look at is_disconnected is a poll ago
PollExpires(g) ==
    /\ task[g]["watch"] = "poll" /\ TaskGoes(g, "watch", AtDeadline)
    /\ UNCHANGED <<session, queue, handler, held, event, put>>

\* await websocket.close(1000), errors suppressed
ServerCloses(g) ==
    /\ task[g]["watch"] = "close" /\ TaskGoes(g, "watch", "done")
    /\ sock' = [sock EXCEPT ![g] = "closed"]
    /\ UNCHANGED <<session, queue, main, sttTask, held, event, put>>

WatchStep(g) == \/ WatchBegins(g) \/ Requested(g) \/ RestReturns(g)
                \/ CloseObserved(g) \/ PollExpires(g) \/ ServerCloses(g)

-----------------------------------------------------------------------------
MainStep(g) == \/ ReceiveRaises(g) \/ StopReturns(g) \/ CancelStt(g)
               \/ \E k \in Tasks : CancelTask(g, k)

Next == \/ \E k \in Sends : Put(k)
        \/ RequestDisconnect \/ Reset
        \/ \E g \in Calls : \/ Accept(g) \/ Start(g) \/ StopEvent(g) \/ FarEndCloses(g)
                            \/ MainStep(g) \/ SttStarts(g) \/ WatchStep(g)
                            \/ \E k \in Sends : SendStep(g, k)

\* The loop runs a handler and its watcher when they can go on; hangup_call has a
\* timeout (VR-002) and the poll a deadline.  Nothing is assumed of Twilio.
Fairness == \A g \in Calls : WF_vars(MainStep(g)) /\ WF_vars(WatchStep(g))

Spec == Init /\ [][Next]_vars /\ Fairness

-----------------------------------------------------------------------------
(* Properties                                                              *)

Left(g) == main[g] \notin {"none", "accepted", "receive"}

\* When the handler of the current call has left its receive loop, by whichever of
\* its four exits, the session has been told: is_disconnected is TRUE.
SessionTold == \A g \in Calls : Left(g) /\ gen = g => disconnected

Over(g) == \A k \in Tasks : task[g][k] \in {"none", "done"}

\* A task of a call is over when the call's handler returns, whatever its place was and
\* whatever the other call's handler does; else it would take the next call's audio.
TasksEndFirst == \A g \in Calls : main[g] = "done" => Over(g)

\* "stop STT gracefully before cancelling tasks": so it is however the handler ends.
NoTaskOutlives == \A g \in Calls : main[g] \in {"done", "raised"} => Over(g)

\* VR-003: "never leave a call hanging".  A requested disconnect ends the receive
\* loop, whatever REST answers and whether or not Twilio closes the stream.  It holds
\* of a session's first call (BotCalls, RestCalls) and of calls without REST: in a later
\* call rest_hangup_first may take the report of the last call's handler for Twilio's.
RequestedEnds ==
    \A g \in Calls : (g \in fired /\ main[g] = "receive") ~> (main[g] # "receive")

=============================================================================
