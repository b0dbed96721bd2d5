---------------------------- MODULE VoiceSession ----------------------------
(***************************************************************************)
(* voice_runtime/session.py: the call session that consumer threads share  *)
(* with one asyncio event loop.                                            *)
(*                                                                         *)
(* Three kinds of consumer thread call the session: Speakers run a TTS     *)
(* command (speak, then send_mark_and_wait), Hangers call                  *)
(* request_disconnect, Clearers call request_clear_buffer.  The loop       *)
(* thread runs what those calls schedule, and the transport's handlers.    *)
(* Resetting the session for the next call runs on a thread of its own or, *)
(* with ResetOnLoop, on the loop thread.                                   *)
(*                                                                         *)
(* A step is what a thread does between two points where another thread    *)
(* can see or change what it reads: the two loops over _pending_marks are  *)
(* iterations of a live dict, one entry a step.                            *)
(***************************************************************************)
EXTENDS Naturals, Sequences, FiniteSets

CONSTANTS Speakers,     \* threads running speak commands
          Hangers,      \* threads calling request_disconnect(generation)
          Clearers,     \* threads calling request_clear_buffer()
          Names,        \* the unique mark names (label + uuid suffix)
          Nobody,       \* no thread
          NoName,       \* no mark name
          MaxGen,       \* bound: number of resets
          MaxAudio,     \* bound on outbound and what is scheduled, for a new chunk
          MaxFrames,    \* bound on inbound and what is scheduled, for a new frame
          MaxClears,    \* bound on clears and what is scheduled, for a new clear
          ResetOnLoop   \* TRUE: reset() is called on the loop thread

Gens    == 0..MaxGen
None    == MaxGen + 1   \* Python's None where a generation tags an object
Threads == Speakers \cup Hangers \cup Clearers

ASSUME GenAssumption    == {MaxGen, MaxAudio, MaxFrames, MaxClears} \subseteq Nat
ASSUME ThreadAssumption == Nobody \notin Threads /\ NoName \notin Names
ASSUME RoleAssumption   == /\ Speakers \cap Hangers = {}
                           /\ (Speakers \cup Hangers) \cap Clearers = {}
ASSUME NamesAssumption  == IsFiniteSet(Names)
ASSUME ResetAssumption  == ResetOnLoop \in BOOLEAN

VARIABLES
    \* fields of the session
    gen,            \* _call_generation
    loop,           \* _loop is not None
    disconnected,   \* _disconnected.is_set()
    wsConnected,    \* _ws_connected.is_set()
    streamSid,      \* stream_sid: the generation that connected, or None
    intent,         \* _disconnect_requested and _clear_queue: both objects are
                    \* made together and dropped together; the generation they
                    \* were made in, or None
    stt,            \* stt: the generation the provider was made in, or None
    pending,        \* _pending_marks: the thread that owns each name's event
    inbound, outbound, markQueue,
    \* objects the session points to
    fired,          \* the _disconnect_requested events that are set
    clears,         \* what was put on the _clear_queue objects
    liveStt,        \* providers made and not stopped
    \* the loop
    tasks,          \* scheduled coroutines, run in order
    sets,           \* scheduled _disconnect_requested.set callbacks
    loopPc, loopIt, \* the loop thread inside signal_disconnected
    notified,       \* calls of on_disconnected in each generation
    \* the transport's connection (external)
    conn, wire,
    \* the threads
    pc, cmd, name, evt,
    asked,          \* generations a Hanger asked to end
    \* the thread inside reset
    resetPc, resetIt

objects   == <<fired, clears, liveStt>>
queues    == <<inbound, outbound, markQueue>>
loopVars  == <<loopPc, loopIt, notified>>
network   == <<conn, wire>>
threads   == <<pc, cmd, name, evt, asked>>
resetVars == <<resetPc, resetIt>>
link      == <<disconnected, wsConnected, streamSid, intent>>
vars == <<gen, loop, link, stt, pending, queues, objects, tasks, sets,
          loopVars, network, threads, resetVars>>

-----------------------------------------------------------------------------
(* A mark on its way carries the thread whose wait queued it, so that the  *)
(* properties can tell whose echo came back; the code sees only its name.  *)
Mark == [id : Names, by : Speakers]
Item == [end : BOOLEAN, of : Gens]     \* inbound: a frame, or the None at the end
Task ==      [q : {"in"},    item  : Item]
        \cup [q : {"out"},   chunk : Gens \cup {None}]
        \cup [q : {"mark"},  mark  : Mark]
        \cup [q : {"clear"}, to    : Gens, sid : Gens \cup {None}]
        \cup [q : {"stop"},  stt   : Gens]
Iter == [start : SUBSET Names, seen : SUBSET Names]

SpeakPcs == {"idle", "check", "stream", "mark", "wait", "leave"}
HangPcs  == {"idle", "armed", "granted"}
ClearPcs == {"idle", "granted"}

Registered == {n \in Names : pending[n] # Nobody}
NewIter    == [start |-> Registered, seen |-> {}]
NoIter     == [start |-> {}, seen |-> {}]

FieldsOK ==
    /\ gen \in Gens /\ loop \in BOOLEAN
    /\ disconnected \in BOOLEAN /\ wsConnected \in BOOLEAN
    /\ streamSid \in Gens \cup {None} /\ intent \in Gens \cup {None}
    /\ stt \in Gens \cup {None}
    /\ pending \in [Names -> Speakers \cup {Nobody}]
QueuesOK ==
    /\ inbound \in Seq(Item) /\ outbound \in Seq(Gens \cup {None})
    /\ markQueue \in Seq(Mark)
    /\ clears \in Seq([to : Gens, sid : Gens \cup {None}])
    /\ tasks \in Seq(Task)
LoopOK ==
    /\ fired \subseteq Gens /\ liveStt \subseteq Gens /\ sets \subseteq Gens
    /\ loopPc \in {"run", "notify"} /\ loopIt \in Iter
    /\ notified \in [Gens -> Nat]
    /\ conn \in {"none", "up", "down"} /\ wire \subseteq Mark
ThreadsOK ==
    /\ pc \in [Threads -> SpeakPcs \cup HangPcs \cup ClearPcs]
    /\ cmd \in [Threads -> Gens \cup {None}]
    /\ name \in [Speakers -> Names \cup {NoName}]
    /\ evt \in [Speakers -> BOOLEAN]
    /\ asked \in [Hangers -> Gens \cup {None}]
ResetOK ==
    /\ resetPc \in {"idle", "wake", "clear", "link", "intent", "stt",
                    "inbound", "outbound"}
    /\ resetIt \in Iter
TypeOK == FieldsOK /\ QueuesOK /\ LoopOK /\ ThreadsOK /\ ResetOK

Init ==
    /\ gen = 0 /\ loop = FALSE
    /\ disconnected = FALSE /\ wsConnected = FALSE
    /\ streamSid = None /\ intent = None /\ stt = None
    /\ pending = [n \in Names |-> Nobody]
    /\ inbound = <<>> /\ outbound = <<>> /\ markQueue = <<>>
    /\ fired = {} /\ clears = <<>> /\ liveStt = {}
    /\ tasks = <<>> /\ sets = {}
    /\ loopPc = "run" /\ loopIt = NoIter /\ notified = [g \in Gens |-> 0]
    /\ conn = "none" /\ wire = {}
    /\ pc = [t \in Threads |-> "idle"] /\ cmd = [t \in Threads |-> None]
    /\ name = [t \in Speakers |-> NoName] /\ evt = [t \in Speakers |-> FALSE]
    /\ asked = [h \in Hangers |-> None]
    /\ resetPc = "idle" /\ resetIt = NoIter

LoopFree == loopPc = "run" /\ (ResetOnLoop => resetPc = "idle")

Goto(t, where) == pc' = [pc EXCEPT ![t] = where]
End(t) == Goto(t, "idle") /\ cmd' = [cmd EXCEPT ![t] = None]

Schedule_Front(task) == tasks' = <<task>> \o tasks
\* asyncio.run_coroutine_threadsafe(coroutine, self._loop)
Schedule(task) == tasks' = Append(tasks, task)

(***************************************************************************)
(* for event in self._pending_marks.values(): event.set()                  *)
(* CPython checks at every next(), the last one included, that the dict    *)
(* has as many entries as when the loop began, and fails when it finds an  *)
(* entry it did not expect; an entry that replaced another is visited.     *)
(***************************************************************************)
Unseen_Snapshot(it) == it.start \ it.seen
Unseen(it)  == Registered \ it.seen
Resized(it) == \/ Cardinality(Registered) # Cardinality(it.start)
               \/ Unseen(it) # {} /\ Cardinality(it.seen) = Cardinality(it.start)
Finished(it) == ~Resized(it) /\ Unseen(it) = {}
Visit(it, n) == [it EXCEPT !.seen = @ \cup {n}]
Wake(t)      == evt' = [evt EXCEPT ![t] = TRUE]

-----------------------------------------------------------------------------
(* Speakers: a TTS provider's speak(), and send_mark_and_wait.             *)

\* if session.is_disconnected: return {"call_disconnected": True}
\* A command begins here, or goes on with its next sentence.
Speak(t) ==
    /\ pc[t] \in {"idle", "check"}
    /\ IF disconnected
         THEN End(t)
         ELSE /\ Goto(t, "stream")
              /\ cmd' = IF pc[t] = "idle" THEN [cmd EXCEPT ![t] = gen] ELSE cmd
    /\ UNCHANGED <<gen, loop, link, stt, pending, queues, objects, tasks, sets,
                   loopVars, network, name, evt, asked, resetVars>>

\* session.put_outbound_sync(chunk); the utterance is one chunk
PutOutbound(t) ==
    /\ pc[t] = "stream" /\ Goto(t, "mark")
    /\ Len(tasks) + Len(outbound) < MaxAudio
    /\ IF loop THEN Schedule([q |-> "out", chunk |-> cmd[t]]) ELSE UNCHANGED tasks
    /\ UNCHANGED <<gen, loop, link, stt, pending, queues, objects, sets,
                   loopVars, network, cmd, name, evt, asked, resetVars>>

\* stop_event is set, or the provider raised: no mark is sent
Interrupted(t) ==
    /\ pc[t] = "stream" /\ End(t)
    /\ UNCHANGED <<gen, loop, link, stt, pending, queues, objects, tasks, sets,
                   loopVars, network, name, evt, asked, resetVars>>

Flying == wire \cup {markQueue[i] : i \in 1..Len(markQueue)}
               \cup {tasks[i].mark : i \in {j \in 1..Len(tasks) : tasks[j].q = "mark"}}
InFlight == {m.id : m \in Flying}
Held == {name[t] : t \in Speakers}

Visited == loopIt.start \cup loopIt.seen \cup resetIt.start \cup resetIt.seen

\* What uuid4 may return: it may repeat a name that is registered (the case the
\* loop is for), not one that was unregistered and is still held, in flight or
\* remembered by a loop over the dict.
Drawn == Names \ ((InFlight \cup Held \cup Visited) \ Registered)
FreshNames_Unchecked == Drawn
\* while True: unique = ...; if unique not in self._pending_marks: break
FreshNames == Drawn \ Registered

\* Registers the event and schedules the mark.
RegisterMark(t) ==
    /\ pc[t] = "mark" /\ loop
    /\ \E n \in FreshNames :
          /\ pending' = [pending EXCEPT ![n] = t]
          /\ name' = [name EXCEPT ![t] = n]
          /\ Schedule([q |-> "mark", mark |-> [id |-> n, by |-> t]])
    /\ evt' = [evt EXCEPT ![t] = FALSE]
    /\ Goto(t, "wait")
    /\ UNCHANGED <<gen, loop, link, stt, queues, objects, sets, loopVars,
                   network, cmd, asked, resetVars>>

\* if self._loop is None: return
NoLoopNoMark(t) ==
    /\ pc[t] = "mark" /\ ~loop /\ End(t)
    /\ UNCHANGED <<gen, loop, link, stt, pending, queues, objects, tasks, sets,
                   loopVars, network, name, evt, asked, resetVars>>

\* event.wait(timeout) returns True
WaitReturns(t) ==
    /\ pc[t] = "wait" /\ evt[t] /\ Goto(t, "leave")
    /\ UNCHANGED <<gen, loop, link, stt, pending, queues, objects, tasks, sets,
                   loopVars, network, cmd, name, evt, asked, resetVars>>

\* event.wait(timeout) returns False: TimeoutError, unless disconnected; either
\* way speak goes on, because it swallows the error
WaitExpires(t) ==
    /\ pc[t] = "wait" /\ ~evt[t] /\ Goto(t, "leave")
    /\ UNCHANGED <<gen, loop, link, stt, pending, queues, objects, tasks, sets,
                   loopVars, network, cmd, name, evt, asked, resetVars>>

Unregister_Leaks(t) ==
    /\ UNCHANGED pending
    /\ name' = [name EXCEPT ![t] = NoName]
    /\ evt' = [evt EXCEPT ![t] = FALSE]
\* self._pending_marks.pop(unique, None), by the finally clause
Unregister(t) ==
    /\ pending' = [pending EXCEPT ![name[t]] = Nobody]
    /\ name' = [name EXCEPT ![t] = NoName]
    /\ evt' = [evt EXCEPT ![t] = FALSE]

\* The wait is over: the command ends, or speaks its next sentence.
Leave(t) ==
    /\ pc[t] = "leave"
    /\ \/ End(t)
       \/ Goto(t, "check") /\ UNCHANGED cmd
    /\ Unregister(t)
    /\ UNCHANGED <<gen, loop, link, stt, queues, objects, tasks, sets, loopVars,
                   network, asked, resetVars>>

-----------------------------------------------------------------------------
(* Hangers and Clearers                                                    *)

\* A consumer that knows the loop decides to end the call it is serving.
Arm(h) ==
    /\ pc[h] = "idle" /\ loop /\ asked[h] # gen /\ Goto(h, "armed")
    /\ cmd' = [cmd EXCEPT ![h] = gen]
    /\ UNCHANGED <<gen, loop, link, stt, pending, queues, objects, tasks, sets,
                   loopVars, network, name, evt, asked, resetVars>>

MayDisconnect(h) == loop /\ intent # None /\ cmd[h] = gen

\* The two tests of request_disconnect
CheckGeneration(h) ==
    /\ pc[h] = "armed"
    /\ IF MayDisconnect(h)
         THEN Goto(h, "granted") /\ UNCHANGED <<cmd, asked>>
         ELSE End(h) /\ asked' = [asked EXCEPT ![h] = cmd[h]]
    /\ UNCHANGED <<gen, loop, link, stt, pending, queues, objects, tasks, sets,
                   loopVars, network, name, evt, resetVars>>

\* call_soon_threadsafe(self._disconnect_requested.set): reads the field again,
\* and raises AttributeError when reset() has dropped the event in between
FireDisconnect(h) ==
    /\ pc[h] = "granted" /\ End(h)
    /\ asked' = [asked EXCEPT ![h] = cmd[h]]
    /\ sets' = IF intent = None THEN sets ELSE sets \cup {intent}
    /\ UNCHANGED <<gen, loop, link, stt, pending, queues, objects, tasks,
                   loopVars, network, name, evt, resetVars>>

\* The test of request_clear_buffer
CheckClear(c) ==
    /\ pc[c] = "idle"
    /\ loop /\ intent # None /\ streamSid # None
    /\ Goto(c, "granted")
    /\ UNCHANGED <<gen, loop, link, stt, pending, queues, objects, tasks, sets,
                   loopVars, network, cmd, name, evt, asked, resetVars>>

\* self._clear_queue.put(self.stream_sid): both fields are read again
PutClear(c) ==
    /\ pc[c] = "granted" /\ Goto(c, "idle")
    /\ Len(tasks) + Len(clears) < MaxClears
    /\ IF intent = None THEN UNCHANGED tasks
       ELSE Schedule([q |-> "clear", to |-> intent, sid |-> streamSid])
    /\ UNCHANGED <<gen, loop, link, stt, pending, queues, objects, sets,
                   loopVars, network, cmd, name, evt, asked, resetVars>>

-----------------------------------------------------------------------------
(* The loop: what other threads scheduled                                  *)

RunTask ==
    /\ LoopFree /\ tasks # <<>>
    /\ tasks' = Tail(tasks)
    /\ LET task == Head(tasks) IN
         \/ /\ task.q = "in" /\ inbound' = Append(inbound, task.item)
            /\ UNCHANGED <<outbound, markQueue, objects>>
         \/ /\ task.q = "out" /\ outbound' = Append(outbound, task.chunk)
            /\ UNCHANGED <<inbound, markQueue, objects>>
         \/ /\ task.q = "mark" /\ markQueue' = Append(markQueue, task.mark)
            /\ UNCHANGED <<inbound, outbound, objects>>
         \/ /\ task.q = "clear"
            /\ clears' = Append(clears, [to |-> task.to, sid |-> task.sid])
            /\ UNCHANGED <<queues, fired, liveStt>>
         \/ /\ task.q = "stop" /\ liveStt' = liveStt \ {task.stt}
            /\ UNCHANGED <<queues, fired, clears>>
    /\ UNCHANGED <<gen, loop, link, stt, pending, sets, loopVars, network,
                   threads, resetVars>>

\* A plain callback overtakes the coroutines scheduled before it by one pass.
RunSet ==
    /\ LoopFree
    /\ \E g \in sets : fired' = fired \cup {g} /\ sets' = sets \ {g}
    /\ UNCHANGED <<gen, loop, link, stt, pending, queues, clears, liveStt,
                   tasks, loopVars, network, threads, resetVars>>

SetLoop_NoIntent ==
    /\ LoopFree /\ ~loop /\ loop' = TRUE
    /\ UNCHANGED <<gen, link, stt, pending, queues, objects, tasks, sets, loopVars,
                   network, threads, resetVars>>

\* set_loop: the transport has its event loop
SetLoop ==
    /\ LoopFree /\ ~loop /\ loop' = TRUE
    /\ intent' = IF intent = None THEN gen ELSE intent
    /\ UNCHANGED <<gen, disconnected, wsConnected, streamSid, stt, pending,
                   queues, objects, tasks, sets, loopVars, network, threads,
                   resetVars>>

\* signal_ws_connected, then start_session_stt
Connect ==
    /\ LoopFree /\ resetPc = "idle" /\ conn = "none"
    /\ conn' = "up" /\ wire' = {} /\ loop' = TRUE
    /\ streamSid' = gen /\ wsConnected' = TRUE
    /\ intent' = IF intent = None THEN gen ELSE intent
    /\ IF stt = None THEN stt' = gen /\ liveStt' = liveStt \cup {gen}
                     ELSE UNCHANGED <<stt, liveStt>>
    /\ UNCHANGED <<gen, disconnected, pending, queues, fired, clears, tasks,
                   sets, loopVars, threads, resetVars>>

\* a media message: put_inbound(frame)
Media ==
    /\ LoopFree /\ conn = "up" /\ loop
    /\ Len(tasks) + Len(inbound) < MaxFrames
    /\ Schedule([q |-> "in", item |-> [end |-> FALSE, of |-> gen]])
    /\ UNCHANGED <<gen, loop, link, stt, pending, queues, objects, sets,
                   loopVars, network, threads, resetVars>>

\* The provider's feed task takes what is queued.
FeedStt ==
    /\ LoopFree /\ liveStt # {}
    /\ inbound # <<>> /\ inbound' = Tail(inbound)
    /\ UNCHANGED <<gen, loop, link, stt, pending, outbound, markQueue, objects,
                   tasks, sets, loopVars, network, threads, resetVars>>

\* get_outbound, get_pending_mark: the transport's send tasks
SendAudio ==
    /\ LoopFree /\ conn = "up"
    /\ outbound # <<>> /\ outbound' = Tail(outbound)
    /\ UNCHANGED <<gen, loop, link, stt, pending, inbound, markQueue, objects,
                   tasks, sets, loopVars, network, threads, resetVars>>

SendMark ==
    /\ LoopFree /\ conn = "up"
    /\ markQueue # <<>> /\ markQueue' = Tail(markQueue)
    /\ wire' = wire \cup {Head(markQueue)}
    /\ UNCHANGED <<gen, loop, link, stt, pending, inbound, outbound, objects,
                   tasks, sets, loopVars, conn, threads, resetVars>>

\* signal_mark_received; an echo nobody waits for is only logged
Echo ==
    /\ LoopFree /\ conn = "up"
    /\ \E m \in wire :
          /\ wire' = wire \ {m}
          /\ IF pending[m.id] \in Speakers THEN Wake(pending[m.id])
                                           ELSE UNCHANGED evt
    /\ UNCHANGED <<gen, loop, link, stt, pending, queues, objects, tasks, sets,
                   loopVars, conn, pc, cmd, name, asked, resetVars>>

FirstReport_Unchecked == TRUE
FirstReport == ~disconnected

\* signal_disconnected up to its loop over the pending marks
SignalDisconnected ==
    /\ conn' = "down" /\ wire' = {}
    /\ IF FirstReport
         THEN /\ disconnected' = TRUE
              /\ IF loop THEN Schedule([q |-> "in", item |-> [end |-> TRUE, of |-> gen]])
                         ELSE UNCHANGED tasks
              /\ loopPc' = "notify" /\ loopIt' = NewIter
         ELSE UNCHANGED <<disconnected, tasks, loopPc, loopIt>>
    /\ UNCHANGED <<gen, loop, wsConnected, streamSid, intent, stt, pending,
                   queues, objects, sets, notified, threads, resetVars>>

\* the far end stops, or the socket fails
RemoteHangup == LoopFree /\ conn = "up" /\ SignalDisconnected

\* another handler of the same connection reports the end again
HangupAgain == LoopFree /\ conn = "down" /\ SignalDisconnected

\* watch_disconnect: the awaited event is set
RequestedClose ==
    /\ LoopFree /\ conn = "up" /\ intent # None /\ intent \in fired
    /\ SignalDisconnected

NotifyNext ==
    /\ loopPc = "notify" /\ ~Resized(loopIt)
    /\ \E n \in Unseen(loopIt) : /\ Wake(pending[n])
                                 /\ loopIt' = Visit(loopIt, n)
    /\ UNCHANGED <<gen, loop, link, stt, pending, queues, objects, tasks, sets,
                   loopPc, notified, network, pc, cmd, name, asked, resetVars>>

\* the loop is over: on_disconnected()
NotifyDone ==
    /\ loopPc = "notify" /\ Finished(loopIt)
    /\ loopPc' = "run" /\ loopIt' = NoIter
    /\ notified' = [notified EXCEPT ![gen] = @ + 1]
    /\ UNCHANGED <<gen, loop, link, stt, pending, queues, objects, tasks, sets,
                   network, threads, resetVars>>

\* RuntimeError: the handler ends without calling on_disconnected
NotifyFails ==
    /\ loopPc = "notify" /\ Resized(loopIt)
    /\ loopPc' = "run" /\ loopIt' = NoIter
    /\ UNCHANGED <<gen, loop, link, stt, pending, queues, objects, tasks, sets,
                   notified, network, threads, resetVars>>

-----------------------------------------------------------------------------
(* reset()                                                                 *)

\* The next call begins: the old connection is gone, or never came.
ResetBegin ==
    /\ resetPc = "idle" /\ conn # "up" /\ gen < MaxGen
    /\ ResetOnLoop => loopPc = "run"
    /\ gen' = gen + 1
    /\ resetPc' = "wake" /\ resetIt' = NewIter
    /\ UNCHANGED <<loop, link, stt, pending, queues, objects, tasks, sets,
                   loopVars, network, threads>>

ResetWakeNext ==
    /\ resetPc = "wake" /\ ~Resized(resetIt)
    /\ \E n \in Unseen(resetIt) : /\ Wake(pending[n])
                                  /\ resetIt' = Visit(resetIt, n)
    /\ UNCHANGED <<gen, loop, link, stt, pending, queues, objects, tasks, sets,
                   loopVars, network, pc, cmd, name, asked, resetPc>>

ResetWakeDone ==
    /\ resetPc = "wake" /\ Finished(resetIt)
    /\ resetPc' = "clear" /\ resetIt' = NoIter
    /\ UNCHANGED <<gen, loop, link, stt, pending, queues, objects, tasks, sets,
                   loopVars, network, threads>>

\* RuntimeError: reset() ends here
ResetFails ==
    /\ resetPc = "wake" /\ Resized(resetIt)
    /\ resetPc' = "idle" /\ resetIt' = NoIter
    /\ UNCHANGED <<gen, loop, link, stt, pending, queues, objects, tasks, sets,
                   loopVars, network, threads>>

\* self._pending_marks.clear()
ResetClearMarks ==
    /\ resetPc = "clear" /\ resetPc' = "link"
    /\ pending' = [n \in Names |-> Nobody]
    /\ UNCHANGED <<gen, loop, link, stt, queues, objects, tasks, sets, loopVars,
                   network, threads, resetIt>>

\* _disconnected.clear(), _ws_connected.clear(), stream_sid = None
ResetClearLink ==
    /\ resetPc = "link" /\ resetPc' = "intent"
    /\ disconnected' = FALSE /\ wsConnected' = FALSE /\ streamSid' = None
    /\ UNCHANGED <<gen, loop, intent, stt, pending, queues, objects, tasks, sets,
                   loopVars, network, threads, resetIt>>

\* _disconnect_requested = None, _clear_queue = None
ResetClearIntent ==
    /\ resetPc = "intent" /\ resetPc' = "stt"
    /\ intent' = None
    /\ UNCHANGED <<gen, loop, disconnected, wsConnected, streamSid, stt, pending,
                   queues, objects, tasks, sets, loopVars, network, threads,
                   resetIt>>

MustStop_Forgotten == FALSE
\* if self.stt is not None, and there is a loop to run stop() on
MustStop == stt # None /\ loop

\* stop() is scheduled, or without a loop the feed task is cancelled at once
ResetStopStt ==
    /\ resetPc = "stt" /\ resetPc' = "inbound"
    /\ stt' = None
    /\ IF MustStop THEN Schedule([q |-> "stop", stt |-> stt])
                             ELSE UNCHANGED tasks
    /\ UNCHANGED <<gen, loop, link, pending, queues, objects, sets, loopVars,
                   network, threads, resetIt>>

ResetDrainInbound ==
    /\ resetPc = "inbound" /\ resetPc' = "outbound"
    /\ inbound' = <<>>
    /\ UNCHANGED <<gen, loop, link, stt, pending, outbound, markQueue, objects,
                   tasks, sets, loopVars, network, threads, resetIt>>

\* The last drain; the transport may now accept the next call.
ResetDrainOutbound ==
    /\ resetPc = "outbound" /\ resetPc' = "idle"
    /\ outbound' = <<>> /\ conn' = "none"
    /\ UNCHANGED <<gen, loop, link, stt, pending, inbound, markQueue, objects,
                   tasks, sets, loopVars, wire, threads, resetIt>>

-----------------------------------------------------------------------------
SpeakerStep(t) ==
    \/ PutOutbound(t) \/ RegisterMark(t)
    \/ NoLoopNoMark(t) \/ WaitReturns(t) \/ WaitExpires(t) \/ Leave(t)
HangerStep(h)  == CheckGeneration(h) \/ FireDisconnect(h)
NotifyStep     == NotifyNext \/ NotifyDone \/ NotifyFails
ResetStep      == \/ ResetWakeNext \/ ResetWakeDone \/ ResetFails
                  \/ ResetClearMarks \/ ResetClearLink \/ ResetClearIntent
                  \/ ResetStopStt \/ ResetDrainInbound \/ ResetDrainOutbound

Next ==
    \/ \E t \in Speakers : Speak(t) \/ Interrupted(t) \/ SpeakerStep(t)
    \/ \E h \in Hangers  : Arm(h) \/ HangerStep(h)
    \/ \E c \in Clearers : CheckClear(c) \/ PutClear(c)
    \/ RunTask \/ RunSet \/ SetLoop \/ Connect \/ Media \/ FeedStt
    \/ SendAudio \/ SendMark \/ Echo
    \/ RemoteHangup \/ HangupAgain \/ RequestedClose
    \/ NotifyStep \/ ResetBegin \/ ResetStep

\* The operating system runs every thread, waits end after their timeout, and
\* the loop runs its callbacks and the transport's watcher.  Nothing is assumed
\* of the far end, of the consumers' decisions, or of when reset() is called.
Fairness ==
    /\ \A t \in Speakers : WF_vars(SpeakerStep(t))
    /\ \A h \in Hangers : WF_vars(HangerStep(h))
    /\ WF_vars(RunTask) /\ WF_vars(RunSet)
    /\ WF_vars(RequestedClose) /\ WF_vars(NotifyStep) /\ WF_vars(ResetStep)

Spec == Init /\ [][Next]_vars /\ Fairness

\* signal_disconnected or reset() is in its loop over the pending marks
Waking == loopPc = "notify" \/ resetPc = "wake"

Phases  == [t \in Speakers |-> IF pc[t] \notin {"wait", "leave"} THEN "out"
                               ELSE IF evt[t] THEN "released"
                               ELSE IF pc[t] = "wait" THEN "waiting" ELSE "expired"]
Travels == LET flying == Flying
           IN [t \in Speakers |-> [id |-> name[t], by |-> t] \in flying]

MS == INSTANCE MarkSync WITH
        Callers <- Speakers, phase <- Phases, travels <- Travels, ending <- Waking

-----------------------------------------------------------------------------
(* Properties                                                              *)

\* A name in _pending_marks is the name its owner is waiting on (or about to
\* remove): send_mark_and_wait leaks no entry, whatever signal_disconnected and
\* reset() do to the dict meanwhile.
PendingOwned ==
    \A n \in Names : pending[n] # Nobody =>
        /\ name[pending[n]] = n
        /\ pc[pending[n]] \in {"wait", "leave"}

\* A mark on its way whose name is registered is registered for the thread that
\* queued it: names of waits that are over are not confused with live ones.
FlyingOwned ==
    \A m \in Flying : pending[m.id] # Nobody => pending[m.id] = m.by

\* NC-236: waits that share a label do not resolve each other.  The event of a
\* wait is set by the echo of the very mark this wait queued, or by the loops of
\* signal_disconnected and reset().
MarkSeparation ==
    [][\A t \in Speakers : ~evt[t] /\ evt'[t] =>
          \/ Waking
          \/ [id |-> name[t], by |-> t] \in wire \ wire']_vars

\* send_mark_and_wait keeps the promise of MarkSync.
ImplementsMarkSync == MS!Spec

\* When signal_disconnected gets as far as on_disconnected, no registered wait is
\* left blocked: not one that registered during its loop over the marks either.
CleanNotifyWakesAll ==
    [][\A n \in Names : notified' # notified /\ pending[n] # Nobody
          => evt[pending[n]]]_vars

\* on_disconnected runs at most once for a call, however many handlers of the
\* connection report its end.
OneCallbackPerCall == \A g \in Gens : notified[g] <= 1

StopScheduled(g) == \E i \in 1..Len(tasks) : tasks[i].q = "stop" /\ tasks[i].stt = g

\* No orphaned STT provider: one that runs is the session's own, or its stop() is
\* on its way (reset() drops the reference only after scheduling it).
NoOrphanStt == \A g \in liveStt : stt = g \/ StopScheduled(g)

\* What the STT provider has still to see: inbound, then the puts that are scheduled.
Puts == {i \in 1..Len(tasks) : tasks[i].q = "in"}
Behind(a, b) == a.end /\ b.of = a.of => b.end

\* The None that ends a call's audio is behind every frame of that call.
EndBehindFrames ==
    /\ \A i, j \in 1..Len(inbound) : i < j => Behind(inbound[i], inbound[j])
    /\ \A i \in 1..Len(inbound) : \A j \in Puts : Behind(inbound[i], tasks[j].item)
    /\ \A i, j \in Puts : i < j => Behind(tasks[i].item, tasks[j].item)

\* A request_disconnect for the current generation ends the call, also when it
\* is made before the WebSocket connects (NC-170 Fix 3).
HangupHonoured ==
    \A h \in Hangers : (asked[h] = gen /\ conn = "up") ~> (conn # "up")

-----------------------------------------------------------------------------
(* What the documentation says, and the code does not do                   *)

\* "Called by transport on disconnect. Unblocks pending waits": when
\* signal_disconnected is over, the waits that were pending when it began are
\* released.
DisconnectUnblocks ==
    [][loopPc = "notify" /\ loopPc' = "run" =>
          \A n \in loopIt.start : pending[n] # Nobody => evt[pending[n]]]_vars
=============================================================================
