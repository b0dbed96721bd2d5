------------------------ MODULE AudioHookConnection ------------------------
(***************************************************************************)
(* transports/audiohook_server.py: one AudioHook session on one accepted   *)
(* socket, from the handshake to the teardown.  Four tasks share it: the   *)
(* reader of the client's messages, the watcher of the session's           *)
(* _disconnect_requested, the writer, and run(), which waits for the first *)
(* of the other three to end and then tears everything down.  A step is    *)
(* what a task does between two awaits.                                    *)
(*                                                                         *)
(* Of the writer only the queue of texts is here; AudioHookWriter has the  *)
(* rest.  Its promise (TextAnswered) is the fairness of WriterStep.        *)
(***************************************************************************)
EXTENDS Naturals, Sequences

CONSTANTS Frame,      \* FRAME_BYTES
          MaxIn,      \* bound: caller audio bytes received in the call
          MaxTexts    \* bound: texts of the client that are in sequence

ASSUME SizeAssumption == Frame \in Nat \ {0} /\ MaxIn \in Nat /\ MaxTexts \in Nat

VARIABLES
    sock,          \* "open", or "gone" when the far end has dropped it
    texts,         \* the writer's queue: type and the task that awaits it
    writer,        \* "run", "failed", "cancelled"
    wire,          \* the texts written, in order
    answer,        \* the result of the future each task awaits
    reader, watcher, main,
    clientSeq, authenticated, opened, bound, closedSent,
    got,           \* what the client's last text asks for
    remainder, frames,
    \* the session
    fired,         \* _disconnect_requested is set
    told,          \* calls of signal_disconnected
    live,          \* the STT provider has been started and not stopped
    \* history
    wanted         \* what the open the handler accepted is for

wires  == <<texts, writer, wire, answer>>
shake  == <<clientSeq, authenticated, opened, bound, closedSent, got>>
audio  == <<remainder, frames>>
call   == <<fired, told, live>>
vars   == <<sock, wires, reader, watcher, main, shake, audio, call, wanted>>

Waiters == {"reader", "watcher"}
Types == {"opened", "unauthorized", "error", "completed", "pong", "closed"}

TypeOK ==
    /\ sock \in {"open", "gone"}
    /\ texts \in Seq([type : Types, by : Waiters \cup {"nobody"}])
    /\ writer \in {"run", "failed", "cancelled"} /\ wire \in Seq(Types)
    /\ answer \in [Waiters -> {"none", "true", "false"}]
    /\ reader \in {"receive", "delay", "flush", "done"}
    /\ watcher \in {"unbound", "wait", "flush", "poll", "done"}
    /\ main \in {"run", "reader", "watcher", "signal", "stopping", "stt", "writer", "done"}
    /\ clientSeq \in Nat /\ authenticated \in BOOLEAN /\ opened \in BOOLEAN
    /\ bound \in BOOLEAN /\ closedSent \in BOOLEAN
    /\ got \in {"none", "end", "probe", "call", "close"}
    /\ remainder \in 0..(Frame - 1) /\ frames \in Nat
    /\ fired \in BOOLEAN /\ told \in Nat /\ live \in BOOLEAN
    /\ wanted \in {"none", "probe", "call"}

Init ==
    /\ sock = "open" /\ texts = <<>> /\ writer = "run" /\ wire = <<>>
    /\ answer = [w \in Waiters |-> "none"]
    /\ reader = "receive" /\ watcher = "unbound" /\ main = "run"
    /\ clientSeq = 0 /\ authenticated = FALSE /\ opened = FALSE /\ bound = FALSE
    /\ closedSent = FALSE /\ got = "none"
    /\ remainder = 0 /\ frames = 0
    /\ fired = FALSE /\ told = 0 /\ live = FALSE /\ wanted = "none"

-----------------------------------------------------------------------------
(* The writer: send() and the flush of the queued texts                    *)

\* self._writer.send(type), awaited by task w or by nobody
Send(type, w) ==
    LET text == [type |-> type, by |-> w] IN
    IF writer = "failed"
      THEN /\ answer' = [v \in Waiters |-> IF v = w THEN "false" ELSE answer[v]]
           /\ UNCHANGED texts
      ELSE /\ texts' = Append(texts, text)
           /\ answer' = [v \in Waiters |-> IF v = w THEN "none" ELSE answer[v]]

WriteText ==
    /\ writer = "run" /\ texts # <<>> /\ sock = "open"
    /\ wire' = Append(wire, Head(texts).type) /\ texts' = Tail(texts)
    /\ answer' = [v \in Waiters |-> IF v = Head(texts).by THEN "true" ELSE answer[v]]
    /\ UNCHANGED <<sock, writer, reader, watcher, main, shake, audio, call, wanted>>

\* a send raises: every queued text is answered False, and the task ends
WriterFails ==
    /\ writer = "run" /\ sock = "gone"
    /\ writer' = "failed" /\ texts' = <<>>
    /\ answer' = [v \in Waiters |->
                    IF \E i \in 1..Len(texts) : texts[i].by = v THEN "false" ELSE answer[v]]
    /\ UNCHANGED <<sock, wire, reader, watcher, main, shake, audio, call, wanted>>

\* The send is of a text, or of audio when there is any.
WriterStep  == WriteText \/ (texts # <<>> /\ WriterFails)
AudioRaises == texts = <<>> /\ bound /\ WriterFails

-----------------------------------------------------------------------------
(* The reader                                                              *)

Await(type, next) == Send(type, "reader") /\ reader' = "flush" /\ got' = next
StartClose == Await("closed", "close")
Fail       == Await("error", "end")

\* _on_text, for a message the JSON parser accepts: `good' when its seq is the next
\* one, `authorized' when key and organization match
OnText(good, authorized, type) ==
    /\ reader = "receive" /\ sock = "open" /\ clientSeq < MaxTexts
    /\ clientSeq' = IF good THEN clientSeq + 1 ELSE clientSeq
    /\ authenticated' = (authenticated \/ authorized)
    /\ wanted' = IF good /\ authenticated' /\ ~opened /\ type \in {"probe", "call"}
                 THEN type ELSE wanted
    /\ \/ /\ ~authenticated' /\ reader' = "delay"
          /\ UNCHANGED <<texts, answer, got>>
       \/ /\ authenticated' /\ ~good /\ Fail
       \/ /\ authenticated' /\ good /\ ~opened
          /\ \/ type \notin {"probe", "call"} /\ Fail       \* or no PCMU media offered
             \/ type \in {"probe", "call"} /\ Await("opened", type)
       \/ /\ authenticated' /\ good /\ opened
          /\ \/ type = "close" /\ StartClose
             \/ /\ type = "ping" /\ Send("pong", "nobody")   \* update is alike
                /\ UNCHANGED <<reader, got>>
             \/ /\ type \notin {"close", "ping"}             \* only logged
                /\ UNCHANGED <<reader, texts, answer, got>>
    /\ UNCHANGED <<sock, writer, wire, watcher, main, opened, bound, closedSent, audio, call>>

\* a text that is no JSON object
Malformed ==
    /\ reader = "receive" /\ sock = "open" /\ Fail
    /\ UNCHANGED <<sock, writer, wire, watcher, main, clientSeq, authenticated, opened,
                   bound, closedSent, audio, call, wanted>>

\* _reject, after AUTH_FAILURE_DELAY_S
Reject ==
    /\ reader = "delay" /\ Await("unauthorized", "end")
    /\ UNCHANGED <<sock, writer, wire, watcher, main, clientSeq, authenticated, opened,
                   bound, closedSent, audio, call, wanted>>

MayBind_Probes == TRUE
\* not a probe: signal_ws_connected, bind, start_session_stt
MayBind == got = "call"

OpenedOk_Unchecked == got \in {"probe", "call"}
\* `opened' is out: the session is open
OpenedOk == got \in {"probe", "call"} /\ answer["reader"] = "true"

\* The awaited text is written, or never will be.
Flushed ==
    /\ reader = "flush" /\ answer["reader"] # "none"
    /\ answer' = [answer EXCEPT !["reader"] = "none"]
    /\ got' = "none"
    /\ IF OpenedOk
         THEN /\ opened' = TRUE /\ reader' = "receive"
              /\ bound' = MayBind /\ live' = MayBind
              /\ UNCHANGED closedSent
         ELSE /\ reader' = "done" /\ closedSent' = (got = "close")
              /\ UNCHANGED <<opened, bound, live>>
    /\ UNCHANGED <<sock, texts, writer, wire, watcher, main, clientSeq, authenticated,
                   audio, fired, told, wanted>>

Whole_Once(n) == IF n >= Frame THEN 1 ELSE 0
\* while len(self._remainder) >= FRAME_BYTES
Whole(n) == n \div Frame

\* _on_audio: a chunk of n bytes, dropped before the session is bound
OnAudio(n) ==
    /\ reader = "receive" /\ sock = "open" /\ bound
    /\ Frame * frames + remainder + n <= MaxIn
    /\ frames' = frames + Whole(remainder + n)
    /\ remainder' = remainder + n - Frame * Whole(remainder + n)
    /\ UNCHANGED <<sock, wires, reader, watcher, main, shake, call, wanted>>

\* receive() reports the disconnect, or raises
ReadFails ==
    /\ reader = "receive" /\ sock = "gone" /\ reader' = "done"
    /\ UNCHANGED <<sock, wires, watcher, main, shake, audio, call, wanted>>

ReaderStep == main = "run" /\ (Reject \/ Flushed \/ ReadFails)

-----------------------------------------------------------------------------
(* The watcher                                                             *)

WatchBound ==
    /\ watcher = "unbound" /\ bound /\ watcher' = "wait"
    /\ UNCHANGED <<sock, wires, reader, main, shake, audio, call, wanted>>

BotEnds ==
    /\ watcher = "wait" /\ fired /\ watcher' = "flush" /\ Send("completed", "watcher")
    /\ UNCHANGED <<sock, writer, wire, reader, main, shake, audio, call, wanted>>

DisconnectSent ==
    /\ watcher = "flush" /\ answer["watcher"] # "none"
    /\ watcher' = IF answer["watcher"] = "true" THEN "poll" ELSE "done"
    /\ answer' = [answer EXCEPT !["watcher"] = "none"]
    /\ UNCHANGED <<sock, texts, writer, wire, reader, main, shake, audio, call, wanted>>

PollEnds_NoDeadline == watcher = "poll" /\ closedSent
\* _closed_sent is seen, or CLOSE_WAIT_S is over
PollEnds == watcher = "poll"

WatchEnds ==
    /\ PollEnds /\ watcher' = "done"
    /\ UNCHANGED <<sock, wires, reader, main, shake, audio, call, wanted>>

\* The watcher goes on while the teardown awaits the cancelled reader.
WatcherStep ==
    main \in {"run", "reader"} /\ (WatchBound \/ BotEnds \/ DisconnectSent \/ WatchEnds)

-----------------------------------------------------------------------------
(* run() and _teardown                                                     *)

\* asyncio.wait(..., return_when=FIRST_COMPLETED)
AnyDone == writer = "failed" \/ reader = "done" \/ watcher = "done"

FirstDone ==
    /\ main = "run" /\ AnyDone /\ main' = "reader"
    /\ UNCHANGED <<sock, wires, reader, watcher, shake, audio, call, wanted>>

CancelReader ==
    /\ main = "reader" /\ main' = "watcher" /\ reader' = "done"
    /\ UNCHANGED <<sock, wires, watcher, shake, audio, call, wanted>>

MustSignal_Always == TRUE
MustSignal == bound

CancelWatcher ==
    /\ main = "watcher" /\ watcher' = "done"
    /\ main' = IF MustSignal THEN "signal" ELSE "writer"
    /\ UNCHANGED <<sock, wires, reader, shake, audio, call, wanted>>

\* signal_disconnected, then the STT is stopped if the session still has it
Signal ==
    /\ main = "signal" /\ told' = told + 1
    /\ main' = IF live THEN "stopping" ELSE "stt"
    /\ UNCHANGED <<sock, wires, reader, watcher, shake, audio, fired, live, wanted>>

StopReturns ==
    /\ main = "stopping" /\ main' = "stt" /\ live' = FALSE
    /\ UNCHANGED <<sock, wires, reader, watcher, shake, audio, fired, told, wanted>>

CancelStt ==
    /\ main = "stt" /\ main' = "writer"
    /\ UNCHANGED <<sock, wires, reader, watcher, shake, audio, call, wanted>>

\* cancel the writer, discard the remainder, close the socket
CancelWriter ==
    /\ main = "writer" /\ main' = "done"
    /\ writer' = IF writer = "run" THEN "cancelled" ELSE writer
    /\ remainder' = 0
    /\ UNCHANGED <<sock, texts, wire, answer, reader, watcher, shake, frames, call, wanted>>

MainStep == \/ FirstDone \/ CancelReader \/ CancelWatcher \/ Signal \/ StopReturns
            \/ CancelStt \/ CancelWriter

-----------------------------------------------------------------------------
(* The world                                                               *)

FarEndDrops ==
    /\ sock = "open" /\ main # "done" /\ sock' = "gone"
    /\ UNCHANGED <<wires, reader, watcher, main, shake, audio, call, wanted>>

\* request_disconnect
RequestDisconnect ==
    /\ bound /\ ~fired /\ main # "done" /\ fired' = TRUE
    /\ UNCHANGED <<sock, wires, reader, watcher, main, shake, audio, told, live, wanted>>

Next ==
    \/ /\ main = "run"
       /\ \/ \E good, authorized \in BOOLEAN :
                \E type \in {"probe", "call", "badMedia", "ping", "close", "other"} :
                   OnText(good, authorized, type)
          \/ Malformed
          \/ \E n \in 1..MaxIn : OnAudio(n)
    \/ ReaderStep \/ WatcherStep \/ WriterStep \/ AudioRaises \/ MainStep
    \/ FarEndDrops \/ RequestDisconnect

\* The loop runs every task that can go on; the reject delay, the close wait and
\* stt.stop() end.  Nothing is assumed of the client.
Fairness == /\ WF_vars(ReaderStep) /\ WF_vars(WatcherStep)
            /\ WF_vars(WriterStep) /\ WF_vars(MainStep)

Spec == Init /\ [][Next]_vars /\ Fairness

-----------------------------------------------------------------------------
(* Properties                                                              *)

\* AC-04, AC-05: the session is bound only by the open of a call, never by a probe,
\* and only when its `opened' is on the wire, as the first text of all.
BoundAfterOpened ==
    bound => /\ authenticated /\ wanted = "call"
             /\ wire # <<>> /\ Head(wire) = "opened"

\* AC-15: however the connection ends, a bound session is told once and its STT is
\* stopped; a session that was never bound is told nothing.
ToldOnce ==
    /\ told <= 1 /\ (told = 1 => bound)
    /\ main = "done" /\ bound => told = 1 /\ ~live

\* AC-14: a disconnect the bot asks for ends the connection, whether or not the client
\* answers with close; so does a dropped socket, also while a task waits for a flush.
ConnectionEnds == (fired /\ bound) \/ sock = "gone" ~> main = "done"
=============================================================================
