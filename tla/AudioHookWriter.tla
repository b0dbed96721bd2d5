-------------------------- MODULE AudioHookWriter --------------------------
(***************************************************************************)
(* transports/_audiohook_writer.py: the one task that writes to an         *)
(* AudioHook socket.  It paces audio packets, writes text messages, turns  *)
(* a clear request into a barge_in event, and resolves marks by counting   *)
(* the bytes it sent (AudioHook clients echo no marks).                    *)
(*                                                                         *)
(* A step is what the task does between two awaits.  Timestamps are kept   *)
(* as timers that Tick moves: what is left until a moment in the future,   *)
(* or what has passed since one, up to the largest span the code compares  *)
(* it with.  A byte is its number in the order the session queued them.     *)
(* The queue and the list of marks are sets, in the order of rank.         *)
(***************************************************************************)
EXTENDS Integers, Sequences, FiniteSets

CONSTANTS Packet,      \* PACKET_BYTES
          Interval,    \* PACKET_INTERVAL_S, in ticks
          Latency,     \* mark_latency_s, in ticks
          Names,       \* marks; each is used once
          Texts,       \* text messages; each is sent once
          MaxBytes,    \* bound: audio bytes queued
          MaxChunk,    \* bound: bytes of a chunk
          MaxClears,   \* bound: clear requests
          MayExpire,   \* TRUE: send_mark_and_wait may time out
          MayFail      \* TRUE: a write may raise

Longest == IF Interval > Latency THEN Interval ELSE Latency
Never   == Longest + 1       \* a timer that is not running: Python's None

ASSUME SizeAssumption  == /\ Packet \in Nat \ {0} /\ MaxChunk \in Nat
                          /\ MaxBytes \in Nat /\ MaxClears \in Nat
ASSUME TimeAssumption  == Interval \in Nat \ {0} /\ Latency \in Nat
ASSUME NameAssumption  == IsFiniteSet(Names) /\ IsFiniteSet(Texts)
ASSUME FlagAssumption  == MayExpire \in BOOLEAN /\ MayFail \in BOOLEAN

VARIABLES
    \* the session
    outbound, markQueue,
    clears,         \* length of _clear_queue
    pending,        \* names in _pending_marks
    echoed,         \* names whose event is set
    fresh,          \* marks not used yet
    coming,         \* marks registered, their put not run yet
    \* the writer
    bound,          \* bind() has given the writer its session
    pc, buffer, marks,
    sent,           \* sent_bytes
    nextIn,         \* time left until _next_send
    quiet,          \* time since _last_audio_in
    lag, ready,     \* in _service: age of the `now' it read; whether that is past _next_send
    packet,         \* real bytes in the packet being sent
    names,          \* the names _barge_in will resolve
    text, future,   \* _text, and each message's future
    \* history
    put,            \* audio bytes queued so far
    cuts,           \* bytes queued before each clear request
    before,         \* bytes queued before each mark
    rank            \* the order in which the marks were queued

session == <<outbound, markQueue, clears, pending, echoed, fresh, coming>>
clock   == <<nextIn, quiet, lag, ready>>
texts   == <<text, future>>
history == <<put, cuts, before, rank>>
vars    == <<session, bound, pc, buffer, marks, sent, clock, packet, names, texts, history>>

Timer == 0..Longest \cup {Never}
MarkRec == [name : Names, target : Nat, due : Timer]    \* due: Never is anchor None

TypeOK ==
    /\ outbound \in Seq(Nat) /\ markQueue \subseteq Names /\ clears \in Nat
    /\ pending \subseteq Names /\ echoed \subseteq Names
    /\ fresh \subseteq Names /\ coming \subseteq Names
    /\ pc \in {"flush", "writing", "service", "barging", "sending", "sleep", "failed"}
    /\ bound \in BOOLEAN /\ buffer \in Seq(Nat) /\ marks \subseteq MarkRec /\ sent \in Nat
    /\ nextIn \in 0..Interval /\ quiet \in Timer
    /\ lag \in 0..Longest /\ ready \in BOOLEAN
    /\ packet \in Seq(Nat) /\ names \subseteq Names
    /\ text \in Seq(Texts)
    /\ future \in [Texts -> {"none", "queued", "true", "false"}]
    /\ put \in Nat /\ cuts \in Seq(Nat) /\ before \in [Names -> Nat]
    /\ rank \in [Names -> Nat]

Init ==
    /\ outbound = <<>> /\ markQueue = {} /\ clears = 0
    /\ pending = {} /\ echoed = {} /\ fresh = Names /\ coming = {}
    /\ bound = FALSE /\ pc = "flush" /\ buffer = <<>> /\ marks = {} /\ sent = 0
    /\ nextIn = 0 /\ quiet = Never /\ lag = 0 /\ ready = FALSE
    /\ packet = <<>> /\ names = {}
    /\ text = <<>> /\ future = [x \in Texts |-> "none"]
    /\ put = 0 /\ cuts = <<>> /\ before = [n \in Names |-> 0]
    /\ rank = [n \in Names |-> 0]

-----------------------------------------------------------------------------
(* The session's threads, the connection and the clock                     *)

PutAudio ==
    /\ \E k \in 1..MaxChunk :
          /\ put + k <= MaxBytes /\ put' = put + k
          /\ outbound' = outbound \o [i \in 1..k |-> put + i]
    /\ UNCHANGED <<bound, markQueue, clears, pending, echoed, fresh, coming, pc, buffer,
                   marks, sent, clock, packet, names, texts, cuts, before, rank>>

\* send_mark_and_wait registers its event on its own thread ...
Register(n) ==
    /\ n \in fresh /\ fresh' = fresh \ {n}
    /\ pending' = pending \cup {n} /\ coming' = coming \cup {n}
    /\ UNCHANGED <<bound, outbound, markQueue, clears, echoed, pc, buffer, marks, sent,
                   clock, packet, names, texts, history>>

\* ... and the loop puts the mark into the queue later.
PutMark(n) ==
    /\ n \in coming /\ coming' = coming \ {n}
    /\ markQueue' = markQueue \cup {n}
    /\ before' = [before EXCEPT ![n] = put]
    /\ rank' = [rank EXCEPT ![n] = 1 + Cardinality({k \in Names : rank[k] > 0})]
    /\ UNCHANGED <<bound, outbound, clears, pending, echoed, fresh, pc, buffer, marks,
                   sent, clock, packet, names, texts, put, cuts>>

\* the wait is over, by its event or by its timeout: its entry and its event are gone
Leave(n) ==
    /\ n \in pending /\ (n \in echoed \/ MayExpire)
    /\ pending' = pending \ {n} /\ echoed' = echoed \ {n}
    /\ UNCHANGED <<bound, outbound, markQueue, clears, fresh, coming, pc, buffer,
                   marks, sent, clock, packet, names, texts, history>>

RequestClear ==
    /\ Len(cuts) < MaxClears /\ cuts' = Append(cuts, put) /\ clears' = clears + 1
    /\ UNCHANGED <<bound, outbound, markQueue, pending, echoed, fresh, coming, pc, buffer,
                   marks, sent, clock, packet, names, texts, put, before, rank>>

\* send(): queue a text message, or answer at once when the writer has failed
Send(x) ==
    /\ future[x] = "none"
    /\ IF pc = "failed"
         THEN future' = [future EXCEPT ![x] = "false"] /\ UNCHANGED text
         ELSE future' = [future EXCEPT ![x] = "queued"] /\ text' = Append(text, x)
    /\ UNCHANGED <<bound, session, pc, buffer, marks, sent, clock, packet, names, history>>

Less(t)       == IF t \in 1..Longest THEN t - 1 ELSE t
More(t, most) == IF t < most THEN t + 1 ELSE t

Tick ==
    /\ nextIn' = Less(nextIn) /\ quiet' = More(quiet, Longest)
    /\ lag' = IF pc = "barging" THEN More(lag, Longest) ELSE lag
    /\ marks' = {[m EXCEPT !.due = Less(@)] : m \in marks}
    /\ UNCHANGED <<bound, session, pc, buffer, sent, ready, packet, names, texts, history>>

Bind ==
    /\ ~bound /\ bound' = TRUE
    /\ UNCHANGED <<session, pc, buffer, marks, sent, clock, packet, names, texts,
                   history>>

-----------------------------------------------------------------------------
(* The writer task                                                         *)

Fail_ForgetsTexts ==
    /\ pc' = "failed" /\ text' = <<>>
    /\ UNCHANGED <<bound, session, buffer, marks, sent, clock, packet, names, future,
                   history>>
\* for _, _, fut in self._text: fut.set_result(False)
Fail ==
    /\ pc' = "failed" /\ text' = <<>>
    /\ future' = [x \in Texts |-> IF \E i \in 1..Len(text) : text[i] = x
                                  THEN "false" ELSE future[x]]
    /\ UNCHANGED <<bound, session, buffer, marks, sent, clock, packet, names, history>>

WriteFails == MayFail /\ pc \in {"writing", "barging", "sending"} /\ Fail

StartText ==
    /\ pc = "flush" /\ text # <<>> /\ pc' = "writing"
    /\ UNCHANGED <<bound, session, buffer, marks, sent, clock, packet, names, texts, history>>

TextWritten ==
    /\ pc = "writing" /\ pc' = "flush"
    /\ text' = Tail(text) /\ future' = [future EXCEPT ![Head(text)] = "true"]
    /\ UNCHANGED <<bound, session, buffer, marks, sent, clock, packet, names, history>>

\* nothing left to write: _service reads the time
StartService ==
    /\ pc = "flush" /\ text = <<>> /\ bound /\ pc' = "service"
    /\ lag' = 0 /\ ready' = (nextIn = 0)
    /\ UNCHANGED <<bound, session, buffer, marks, sent, nextIn, quiet, packet, names,
                   texts, history>>

\* while clears is not None and not clears.empty()
ClearWaiting == clears > 0

StartBargeIn_KeepsBuffer ==
    /\ pc = "service" /\ ClearWaiting /\ clears' = clears - 1
    /\ pc' = "barging"
    /\ outbound' = <<>> /\ markQueue' = {}
    /\ quiet' = Never /\ names' = pending
    /\ UNCHANGED <<bound, pending, echoed, fresh, coming, buffer, marks, sent, nextIn,
                   lag, ready, packet, texts, history>>
\* _barge_in up to its write
StartBargeIn ==
    /\ pc = "service" /\ ClearWaiting /\ clears' = clears - 1
    /\ pc' = "barging"
    /\ buffer' = <<>> /\ outbound' = <<>> /\ markQueue' = {}
    /\ quiet' = Never /\ names' = pending
    /\ UNCHANGED <<bound, pending, echoed, fresh, coming, marks, sent, nextIn, lag, ready,
                   packet, texts, history>>

BargeInWritten ==
    /\ pc = "barging" /\ pc' = "service"
    /\ echoed' = echoed \cup (names \cap pending)
    /\ marks' = {m \in marks : m.name \notin names}
    /\ names' = {}
    /\ UNCHANGED <<bound, outbound, markQueue, clears, pending, fresh, coming, buffer,
                   sent, clock, packet, texts, history>>

NewMark_Early(n, buffered) == [name |-> n, target |-> sent, due |-> Latency]
NewMark_Unanchored(n, buffered) ==
    [name |-> n, target |-> sent + buffered, due |-> Never]
\* target: what will have been sent when the buffer is; anchored if that is now
NewMark(n, buffered) ==
    [name |-> n, target |-> sent + buffered,
     due |-> IF buffered > 0 THEN Never
             ELSE IF lag < Latency THEN Latency - lag ELSE 0]

\* if name not in session._pending_marks: continue
WithNew(buffered) == marks \cup {NewMark(n, buffered) : n \in markQueue \cap pending}

ShouldPad_MarksOnly(ms, age) == \E m \in ms : m.due = Never
ShouldPad(ms, age) == (\E m \in ms : m.due = Never) \/ age \in Interval..Longest

\* while self._marks: the head is anchored and its latency has passed
DuePrefix(ms) ==
    {m \in ms : \A k \in ms : rank[k.name] <= rank[m.name] => k.due = 0}
Resolve(ms) ==
    /\ echoed' = echoed \cup ({m.name : m \in DuePrefix(ms)} \cap pending)
    /\ marks' = ms \ DuePrefix(ms)

\* _drain: _last_audio_in is the time _service read
Drained_Swapped == outbound \o buffer
Drained    == buffer \o outbound
DrainedAll == /\ outbound' = <<>> /\ markQueue' = {}
              /\ quiet' = IF outbound = <<>> THEN quiet ELSE lag

\* _service has used its `now' for the last time
NowIsPast == lag' = 0 /\ ready' = FALSE

MaySend == /\ Drained # <<>> /\ ready
           /\ \/ Len(Drained) >= Packet
              \/ ShouldPad(WithNew(Len(Drained)), IF outbound = <<>> THEN quiet ELSE 0)

\* the rest of _service, when a packet is sent
StartPacket ==
    /\ pc = "service" /\ ~ClearWaiting /\ MaySend /\ pc' = "sending"
    /\ DrainedAll
    /\ marks' = WithNew(Len(Drained))
    /\ LET real == IF Len(Drained) >= Packet THEN Packet ELSE Len(Drained) IN
          /\ packet' = SubSeq(Drained, 1, real)
          /\ buffer' = SubSeq(Drained, real + 1, Len(Drained))
    /\ NowIsPast
    /\ UNCHANGED <<bound, clears, pending, echoed, fresh, coming, sent, nextIn, names, texts,
                   history>>

Anchored(total) ==
    {IF m.due = Never /\ m.target <= total THEN [m EXCEPT !.due = Latency] ELSE m :
     m \in marks}

\* the packet, padded to PACKET_BYTES, is out
PacketSent ==
    /\ pc = "sending" /\ pc' = "sleep"
    /\ sent' = sent + Packet /\ packet' = <<>>
    /\ nextIn' = Interval
    /\ Resolve(Anchored(sent + Packet))
    /\ UNCHANGED <<bound, outbound, markQueue, clears, pending, fresh, coming, buffer,
                   quiet, lag, ready, names, texts, history>>

\* the rest of _service, when no packet is sent
NoPacket ==
    /\ pc = "service" /\ ~ClearWaiting /\ ~MaySend /\ pc' = "sleep"
    /\ DrainedAll /\ buffer' = Drained
    /\ Resolve(WithNew(Len(Drained))) /\ NowIsPast
    /\ UNCHANGED <<bound, clears, pending, fresh, coming, sent, nextIn, packet, names, texts,
                   history>>

Unbound ==
    /\ pc = "flush" /\ text = <<>> /\ ~bound /\ pc' = "sleep"
    /\ UNCHANGED <<bound, session, buffer, marks, sent, clock, packet, names, texts, history>>

Wakes ==
    /\ pc = "sleep" /\ pc' = "flush"
    /\ UNCHANGED <<bound, session, buffer, marks, sent, clock, packet, names, texts, history>>

Writer == \/ StartText \/ TextWritten \/ StartService \/ StartBargeIn
          \/ BargeInWritten \/ StartPacket \/ PacketSent \/ NoPacket \/ Unbound \/ Wakes

Next == \/ PutAudio \/ RequestClear \/ Bind \/ Tick \/ Writer \/ WriteFails
        \/ \E n \in Names : Register(n) \/ PutMark(n) \/ Leave(n)
        \/ \E x \in Texts : Send(x)

\* A write ends or raises, sleep() returns, time passes, and the loop runs the
\* puts that were scheduled.
Fairness == /\ WF_vars(Writer \/ WriteFails) /\ WF_vars(Tick)
            /\ \A n \in Names : WF_vars(PutMark(n))

Spec == Init /\ [][Next]_vars /\ Fairness

-----------------------------------------------------------------------------
(* Properties                                                              *)

\* Audio that is past the writer: sent to the socket, or dropped by a barge-in
Gone == put - Len(outbound) - Len(buffer) - Len(packet)

\* A wait is not released before all the audio queued before its mark is gone, a barge_in
\* apart: the byte clock never runs ahead of the audio, whatever is padded, dropped by a
\* barge-in or queued behind it.
EchoedIsSent ==
    [][\A n \in Names : n \in echoed' /\ n \notin echoed /\ pc # "barging"
          => before[n] <= Gone']_vars

\* After the barge_in no byte queued before the request is sent.
Cut == IF Len(cuts) = clears THEN 0 ELSE cuts[Len(cuts) - clears]
NoStaleAudio ==
    [][pc' = "sending" /\ pc # "sending"
          => \A i \in 1..Len(packet') : packet'[i] > Cut]_vars

\* The byte clock, its padding and its anchors keep the promise of Playout, which knows
\* only how much audio is gone.
Promise == INSTANCE Playout WITH
    gone <- Gone, queued <- Names \ (fresh \cup coming), waiting <- pending,
    released <- echoed, cut <- names

\* _audiohook_writer.py plays what was queued in order and without a gap, drops only to
\* answer a clear request, and releases a wait only behind its audio or by such an answer.
ImplementsPlayout == Promise!Spec

\* Every message send() accepted gets its answer, also when the socket fails.
TextAnswered == \A x \in Texts : future[x] = "queued" ~> future[x] \in {"true", "false"}

\* Queued audio is sent, or dropped by a barge-in, unless the writer fails: a last
\* piece shorter than a packet is padded and sent too.
AudioMovesOn == (put > Gone /\ bound) ~> (put = Gone \/ pc = "failed")

\* "A mark resolves mark_latency_s after the audio queued before it has been
\* sent": a mark the writer took is resolved, unless its wait ended or the writer
\* failed.
MarkResolves ==
    \A n \in Names : (\E m \in marks : m.name = n)
                      ~> (n \in echoed \/ n \notin pending \/ pc = "failed")
=============================================================================
