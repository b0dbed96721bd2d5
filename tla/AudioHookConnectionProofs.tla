---------------------- MODULE AudioHookConnectionProofs ----------------------
(***************************************************************************)
(* That an AudioHook connection binds its session only behind an `opened'  *)
(* that is on the wire, and tells it of the end once, for any frame size,  *)
(* any number of texts and any audio, and that less than a frame waits.    *)
(***************************************************************************)
EXTENDS AudioHookConnection, SequenceTheorems, TLAPS

Text == [type : Types, by : Waiters \cup {"nobody"}]

\* what the rest needs of the types
Shape ==
    /\ texts \in Seq(Text) /\ wire \in Seq(Types)
    /\ answer \in [Waiters -> {"none", "true", "false"}]
    /\ reader \in {"receive", "delay", "flush", "done"}
    /\ main \in {"run", "reader", "watcher", "signal", "stopping", "stt", "writer", "done"}
    /\ {authenticated, opened, bound, live} \subseteq BOOLEAN

\* Until the session is open nothing is sent that the reader does not await, so the
\* text whose flush it awaits for an open is the first of all.
Awaiting ==
    reader = "flush" /\ got \in {"probe", "call"} =>
        /\ ~opened /\ authenticated /\ wanted = got
        /\ \/ answer["reader"] = "true" /\ wire = <<"opened">> /\ texts = <<>>
           \/ /\ answer["reader"] # "true" /\ wire = <<>>
              /\ \/ texts = <<>>
                 \/ texts = <<[type |-> "opened", by |-> "reader"]>>

Handshake ==
    /\ ~opened /\ reader \in {"receive", "delay"} => wire = <<>> /\ texts = <<>>
    /\ Awaiting
    /\ opened => wire # <<>> /\ Head(wire) = "opened"
    /\ bound => opened /\ authenticated /\ wanted = "call"
    /\ watcher \in {"wait", "flush", "poll"} => bound

\* what run() has done by each place of the teardown
Teardown ==
    /\ main \in {"run", "reader", "watcher", "signal"} => told = 0
    /\ main \in {"signal", "stopping", "stt"} => bound
    /\ main \in {"stopping", "stt"} => told = 1
    /\ main = "stt" => ~live
    /\ main \in {"writer", "done"} => IF bound THEN told = 1 /\ ~live ELSE told = 0

Inv == Shape /\ Handshake /\ Teardown

LEMMA InvInit == Init => Inv
<1>. SUFFICES ASSUME Init PROVE Inv OBVIOUS
<1>1. Shape BY EmptySeq DEF Init, Shape
<1>2. Handshake BY DEF Init, Handshake, Awaiting
<1>3. Teardown BY DEF Init, Teardown
<1> QED BY <1>1, <1>2, <1>3 DEF Inv

-----------------------------------------------------------------------------
(* What the operations have in common                                      *)

LEMMA SendEffect ==
    ASSUME Shape, NEW type \in Types, NEW w \in Waiters \cup {"nobody"}, Send(type, w)
    PROVE  /\ texts' \in Seq(Text) /\ answer' \in [Waiters -> {"none", "true", "false"}]
           /\ \A v \in Waiters : v # w => answer'[v] = answer[v]
           /\ w \in Waiters => answer'[w] # "true"
           /\ texts' = texts \/ texts' = Append(texts, [type |-> type, by |-> w])
<1>1. [type |-> type, by |-> w] \in Text BY DEF Text
<1>2. Append(texts, [type |-> type, by |-> w]) \in Seq(Text)
  BY <1>1, AppendProperties DEF Shape
<1>3. CASE writer = "failed" BY <1>3 DEF Send, Shape
<1>4. CASE writer # "failed" BY <1>2, <1>4 DEF Send, Shape
<1> QED BY <1>3, <1>4

LEMMA OneText == \A x : Append(<<>>, x) = <<x>>
OBVIOUS

\* a step that touches nothing of the handshake
LEMMA HandshakeStays ==
    ASSUME Handshake, UNCHANGED <<opened, wire, texts, authenticated, wanted, bound>>,
           reader' = "done" \/ UNCHANGED <<reader, got, answer>>,
           watcher' = watcher \/ watcher' = "done" \/ bound
    PROVE  Handshake'
BY DEF Handshake, Awaiting

LEMMA TeardownStays ==
    ASSUME Teardown, UNCHANGED <<main, told, bound, live>> PROVE Teardown'
BY DEF Teardown

-----------------------------------------------------------------------------
(* The reader                                                              *)

\* a text of the client that is not answered with `opened'
LEMMA AwaitKeeps ==
    ASSUME Inv, main = "run", reader \in {"receive", "delay"}, NEW type \in Types,
           NEW next \in {"end", "close"}, Await(type, next),
           UNCHANGED <<wire, main, told, opened, bound, live, watcher>>,
           authenticated' \in BOOLEAN, authenticated => authenticated',
           opened => wanted' = wanted
    PROVE  Inv'
<1>1. Send(type, "reader") /\ reader' = "flush" /\ got' = next BY DEF Await
<1>2. Shape' BY <1>1, SendEffect DEF Inv, Shape, Waiters
<1>3. Handshake' BY <1>1 DEF Inv, Handshake, Awaiting
<1> QED BY <1>2, <1>3, TeardownStays DEF Inv

LEMMA OnTextKeeps ==
    ASSUME Inv, main = "run", NEW good \in BOOLEAN, NEW authorized \in BOOLEAN,
           NEW type \in {"probe", "call", "badMedia", "ping", "close", "other"},
           OnText(good, authorized, type)
    PROVE  Inv'
<1>1. /\ reader = "receive"
      /\ authenticated' = (authenticated \/ authorized)
      /\ wanted' = IF good /\ authenticated' /\ ~opened /\ type \in {"probe", "call"}
                   THEN type ELSE wanted
      /\ UNCHANGED <<wire, main, opened, bound, told, live, watcher>>
  BY DEF OnText, call
<1>2. authenticated' \in BOOLEAN BY <1>1 DEF Inv, Shape
<1>3. CASE ~authenticated' /\ reader' = "delay" /\ UNCHANGED <<texts, answer, got>>
  <2>1. ~bound BY <1>1, <1>3 DEF Inv, Handshake
  <2>2. Shape' BY <1>1, <1>2, <1>3 DEF Inv, Shape
  <2>3. Handshake' BY <1>1, <1>3, <2>1 DEF Inv, Handshake, Awaiting
  <2> QED BY <1>1, <2>2, <2>3, TeardownStays DEF Inv
<1>4. CASE Fail \/ StartClose
  <2>1. Await("error", "end") \/ Await("closed", "close") BY <1>4 DEF Fail, StartClose
  <2>2. authenticated => authenticated' BY <1>1
  <2> QED BY <1>1, <1>2, <2>1, <2>2, AwaitKeeps DEF Types
<1>5. CASE /\ authenticated' /\ good /\ ~opened /\ type \in {"probe", "call"}
           /\ Await("opened", type)
  <2>1. Send("opened", "reader") /\ reader' = "flush" /\ got' = type /\ wanted' = type
    BY <1>1, <1>5 DEF Await
  <2>2. wire = <<>> /\ texts = <<>> /\ ~bound BY <1>1, <1>5 DEF Inv, Handshake
  <2>3. /\ texts' \in Seq(Text) /\ answer' \in [Waiters -> {"none", "true", "false"}]
        /\ answer'["reader"] # "true"
        /\ texts' = texts \/ texts' = Append(texts, [type |-> "opened", by |-> "reader"])
    BY <2>1, SendEffect DEF Inv, Types, Waiters
  <2>4. texts' = <<>> \/ texts' = <<[type |-> "opened", by |-> "reader"]>>
    BY <2>2, <2>3, OneText
  <2>5. Shape' BY <1>1, <1>2, <2>1, <2>3 DEF Inv, Shape
  <2>6. Handshake' BY <1>1, <1>5, <2>1, <2>2, <2>3, <2>4 DEF Inv, Handshake, Awaiting
  <2> QED BY <1>1, <2>5, <2>6, TeardownStays DEF Inv
<1>6. CASE opened /\ authenticated' /\ Send("pong", "nobody") /\ UNCHANGED <<reader, got>>
  <2>1. Shape' BY <1>1, <1>2, <1>6, SendEffect DEF Inv, Shape, Types
  <2>2. Handshake' BY <1>1, <1>6 DEF Inv, Handshake, Awaiting
  <2> QED BY <1>1, <2>1, <2>2, TeardownStays DEF Inv
<1>7. CASE opened /\ authenticated' /\ UNCHANGED <<reader, texts, answer, got>>
  <2>1. Shape' BY <1>1, <1>2, <1>7 DEF Inv, Shape
  <2>2. Handshake' BY <1>1, <1>7 DEF Inv, Handshake, Awaiting
  <2> QED BY <1>1, <2>1, <2>2, TeardownStays DEF Inv
<1> QED BY <1>3, <1>4, <1>5, <1>6, <1>7 DEF OnText

LEMMA FlushedKeeps == ASSUME Inv, main = "run", Flushed PROVE Inv'
<1>1. /\ reader = "flush" /\ UNCHANGED <<texts, wire, watcher, main, authenticated, told, wanted>>
      /\ answer' = [answer EXCEPT !["reader"] = "none"]
      /\ \/ /\ OpenedOk /\ opened' = TRUE /\ reader' = "receive"
            /\ bound' = MayBind /\ live' = MayBind
         \/ reader' = "done" /\ UNCHANGED <<opened, bound, live>>
  BY DEF Flushed
<1>2. answer' \in [Waiters -> {"none", "true", "false"}] BY <1>1 DEF Inv, Shape, Waiters
<1>3. CASE reader' = "done" /\ UNCHANGED <<opened, bound, live>>
  <2>1. Shape' BY <1>1, <1>2, <1>3 DEF Inv, Shape
  <2>2. Handshake' BY <1>1, <1>3, HandshakeStays DEF Inv
  <2> QED BY <1>1, <1>3, <2>1, <2>2, TeardownStays DEF Inv
<1>4. CASE /\ OpenedOk /\ opened' = TRUE /\ reader' = "receive"
           /\ bound' = MayBind /\ live' = MayBind
  <2>1. got \in {"probe", "call"} /\ answer["reader"] = "true" BY <1>4 DEF OpenedOk
  <2>2. ~opened /\ authenticated /\ wanted = got /\ wire = <<"opened">>
    BY <1>1, <2>1 DEF Inv, Handshake, Awaiting
  <2>3. wire' # <<>> /\ Head(wire') = "opened" BY <1>1, <2>2
  <2>4. ~bound BY <2>2 DEF Inv, Handshake
  <2>5. (bound' => wanted' = "call") /\ bound' \in BOOLEAN /\ live' \in BOOLEAN
    BY <1>1, <1>4, <2>2 DEF MayBind
  <2>6. Shape' BY <1>1, <1>2, <1>4, <2>5 DEF Inv, Shape
  <2>7. Handshake' BY <1>1, <1>4, <2>2, <2>3, <2>4, <2>5 DEF Inv, Handshake, Awaiting
  <2>8. Teardown' BY <1>1 DEF Inv, Teardown
  <2> QED BY <2>6, <2>7, <2>8 DEF Inv
<1> QED BY <1>1, <1>3, <1>4

LEMMA ReaderKeeps ==
    ASSUME Inv, main = "run",
           Malformed \/ Reject \/ ReadFails \/ \E n \in 1..MaxIn : OnAudio(n)
    PROVE  Inv'
<1>1. CASE Malformed \/ Reject
  <2>1. /\ reader \in {"receive", "delay"}
        /\ Await("error", "end") \/ Await("unauthorized", "end")
        /\ UNCHANGED <<wire, main, told, opened, bound, live, watcher, authenticated, wanted>>
    BY <1>1 DEF Malformed, Reject, Fail, call
  <2>2. authenticated' \in BOOLEAN BY <2>1 DEF Inv, Shape
  <2> QED BY <2>1, <2>2, AwaitKeeps DEF Types
<1>2. CASE ReadFails \/ \E n \in 1..MaxIn : OnAudio(n)
  <2>1. /\ UNCHANGED <<texts, wire, answer, opened, authenticated, bound, wanted, watcher, main,
                       told, live, got>>
        /\ reader' = "done" \/ reader' = reader
    BY <1>2 DEF ReadFails, OnAudio, wires, shake, call
  <2>2. Shape' BY <2>1 DEF Inv, Shape
  <2>3. Handshake' BY <2>1, HandshakeStays DEF Inv
  <2> QED BY <2>1, <2>2, <2>3, TeardownStays DEF Inv
<1> QED BY <1>1, <1>2

-----------------------------------------------------------------------------
(* The watcher, the writer and the world                                   *)

LEMMA WatcherKeeps ==
    ASSUME Inv, WatchBound \/ BotEnds \/ DisconnectSent \/ WatchEnds PROVE Inv'
<1>1. UNCHANGED <<wire, opened, authenticated, bound, wanted, reader, main, told, live, got>>
  BY DEF WatchBound, BotEnds, DisconnectSent, WatchEnds, wires, shake, call
<1>2. CASE WatchBound \/ WatchEnds
  <2>1. UNCHANGED <<texts, answer>> /\ (watcher' = "done" \/ bound)
    BY <1>2 DEF WatchBound, WatchEnds, wires
  <2>2. Shape' BY <1>1, <2>1 DEF Inv, Shape
  <2>3. Handshake' BY <1>1, <2>1, HandshakeStays DEF Inv
  <2> QED BY <1>1, <2>2, <2>3, TeardownStays DEF Inv
<1>3. CASE BotEnds \/ DisconnectSent
  <2>1. bound /\ opened BY <1>3 DEF Inv, Handshake, BotEnds, DisconnectSent
  <2>2. texts' \in Seq(Text) /\ answer' \in [Waiters -> {"none", "true", "false"}]
    <3>1. CASE BotEnds
      <4>1. Send("completed", "watcher") BY <3>1 DEF BotEnds
      <4> QED BY <4>1, SendEffect DEF Inv, Types, Waiters
    <3>2. CASE DisconnectSent BY <3>2 DEF DisconnectSent, Inv, Shape
    <3> QED BY <1>3, <3>1, <3>2
  <2>3. Shape' BY <1>1, <2>2 DEF Inv, Shape
  <2>4. Handshake' BY <1>1, <2>1 DEF Inv, Handshake, Awaiting
  <2> QED BY <1>1, <2>3, <2>4, TeardownStays DEF Inv
<1> QED BY <1>2, <1>3

LEMMA WriteKeeps == ASSUME Inv, WriteText PROVE Inv'
<1>1. /\ texts # <<>> /\ wire' = Append(wire, Head(texts).type) /\ texts' = Tail(texts)
      /\ answer' = [v \in Waiters |-> IF v = Head(texts).by THEN "true" ELSE answer[v]]
      /\ UNCHANGED <<opened, authenticated, bound, wanted, reader, watcher, main, told, live, got>>
  BY DEF WriteText, shake, call
<1>2. Head(texts) \in Text /\ Tail(texts) \in Seq(Text)
  BY <1>1, HeadTailProperties DEF Inv, Shape
<1>3. Head(texts).type \in Types BY <1>2 DEF Text
<1>4. wire' \in Seq(Types) BY <1>1, <1>3, AppendProperties DEF Inv, Shape
<1>5. answer' \in [Waiters -> {"none", "true", "false"}] BY <1>1 DEF Inv, Shape
<1>6. Shape' BY <1>1, <1>2, <1>4, <1>5 DEF Inv, Shape
<1>7. Handshake'
  <2>1. CASE opened
    <3>1. wire # <<>> /\ Head(wire) = "opened" BY <2>1 DEF Inv, Handshake
    <3>2. wire' # <<>> /\ Head(wire') = "opened"
      BY <1>1, <1>3, <3>1, AppendProperties DEF Inv, Shape
    <3> QED BY <1>1, <2>1, <3>2 DEF Inv, Handshake, Awaiting
  <2>2. CASE ~opened /\ reader = "flush" /\ got \in {"probe", "call"}
    <3>1. /\ texts = <<[type |-> "opened", by |-> "reader"]>> /\ wire = <<>>
          /\ authenticated /\ wanted = got
      BY <1>1, <2>2 DEF Inv, Handshake, Awaiting
    <3>2. /\ Head(texts) = [type |-> "opened", by |-> "reader"] /\ Tail(texts) = <<>> BY <3>1
    <3>3. wire' = <<"opened">> BY <1>1, <3>1, <3>2, OneText
    <3>4. answer'["reader"] = "true" BY <1>1, <3>2 DEF Waiters
    <3> QED BY <1>1, <2>2, <3>1, <3>2, <3>3, <3>4 DEF Inv, Handshake, Awaiting
  <2>3. CASE ~opened /\ ~(reader = "flush" /\ got \in {"probe", "call"})
    BY <1>1, <2>3 DEF Inv, Handshake, Awaiting
  <2> QED BY <2>1, <2>2, <2>3
<1> QED BY <1>1, <1>6, <1>7, TeardownStays DEF Inv

LEMMA WriterFailsKeeps == ASSUME Inv, WriterFails PROVE Inv'
<1>1. /\ texts' = <<>>
      /\ answer' = [v \in Waiters |->
                      IF \E i \in 1..Len(texts) : texts[i].by = v THEN "false" ELSE answer[v]]
      /\ UNCHANGED <<wire, opened, authenticated, bound, wanted, reader, watcher, main, told, live,
                     got>>
  BY DEF WriterFails, shake, call
<1>2. texts' \in Seq(Text) BY <1>1, EmptySeq
<1>3. answer' \in [Waiters -> {"none", "true", "false"}] BY <1>1 DEF Inv, Shape
<1>4. answer'["reader"] \in {"false", answer["reader"]} BY <1>1 DEF Waiters
<1>5. texts = <<>> => answer'["reader"] = answer["reader"] BY <1>1 DEF Waiters
<1>6. Shape' BY <1>1, <1>2, <1>3 DEF Inv, Shape
<1>7. Awaiting' BY <1>1, <1>4, <1>5 DEF Inv, Handshake, Awaiting
<1>8. Handshake' BY <1>1, <1>7 DEF Inv, Handshake
<1> QED BY <1>1, <1>6, <1>8, TeardownStays DEF Inv

LEMMA WorldKeeps == ASSUME Inv, FarEndDrops \/ RequestDisconnect \/ UNCHANGED vars PROVE Inv'
<1>1. UNCHANGED <<texts, wire, answer, opened, authenticated, bound, wanted, reader, watcher, main,
                  told, live, got>>
  BY DEF FarEndDrops, RequestDisconnect, vars, wires, shake, call
<1>2. Shape' BY <1>1 DEF Inv, Shape
<1>3. Handshake' BY <1>1, HandshakeStays DEF Inv
<1> QED BY <1>1, <1>2, <1>3, TeardownStays DEF Inv

-----------------------------------------------------------------------------
(* The teardown                                                            *)

LEMMA MainKeeps == ASSUME Inv, MainStep PROVE Inv'
<1>1. /\ UNCHANGED <<texts, wire, answer, opened, authenticated, bound, wanted, got>>
      /\ reader' = "done" \/ reader' = reader
      /\ watcher' = "done" \/ watcher' = watcher
  BY DEF MainStep, FirstDone, CancelReader, CancelWatcher, Signal, StopReturns, CancelStt,
         CancelWriter, wires, shake
<1>2. Handshake' BY <1>1, HandshakeStays DEF Inv
<1>3. CASE FirstDone \/ CancelReader \/ CancelWatcher
  <2>1. /\ main' \in {"reader", "watcher", "signal", "writer"} /\ UNCHANGED <<told, live>>
        /\ main \in {"run", "reader", "watcher"}
        /\ main' = "signal" => bound
        /\ main' = "writer" => ~bound
    BY <1>3 DEF FirstDone, CancelReader, CancelWatcher, MustSignal, call
  <2>2. Shape' BY <1>1, <2>1 DEF Inv, Shape
  <2>3. Teardown' BY <1>1, <2>1 DEF Inv, Teardown
  <2> QED BY <1>2, <2>2, <2>3 DEF Inv
<1>4. CASE Signal
  <2>1. told = 0 /\ bound BY <1>4 DEF Inv, Teardown, Signal
  <2>2. /\ told' = 1 /\ live' = live
        /\ main' = "stopping" \/ (main' = "stt" /\ ~live)
    BY <1>4, <2>1 DEF Signal
  <2>3. Shape' BY <1>1, <2>2 DEF Inv, Shape
  <2>4. Teardown' BY <1>1, <2>1, <2>2 DEF Inv, Teardown
  <2> QED BY <1>2, <2>3, <2>4 DEF Inv
<1>5. CASE StopReturns
  <2>1. main = "stopping" /\ main' = "stt" /\ live' = FALSE /\ told' = told
    BY <1>5 DEF StopReturns
  <2>2. Shape' BY <1>1, <2>1 DEF Inv, Shape
  <2>3. Teardown' BY <1>1, <2>1 DEF Inv, Teardown
  <2> QED BY <1>2, <2>2, <2>3 DEF Inv
<1>6. CASE CancelStt \/ CancelWriter
  <2>1. /\ UNCHANGED <<told, live>>
        /\ \/ main = "stt" /\ main' = "writer"
           \/ main = "writer" /\ main' = "done"
    BY <1>6 DEF CancelStt, CancelWriter, call
  <2>2. Shape' BY <1>1, <2>1 DEF Inv, Shape
  <2>3. Teardown' BY <1>1, <2>1 DEF Inv, Teardown
  <2> QED BY <1>2, <2>2, <2>3 DEF Inv
<1> QED BY <1>3, <1>4, <1>5, <1>6 DEF MainStep

-----------------------------------------------------------------------------
(* The theorems                                                            *)

LEMMA InvStep == Inv /\ [Next]_vars => Inv'
<1>. SUFFICES ASSUME Inv, [Next]_vars PROVE Inv' OBVIOUS
<1>1. ASSUME main = "run", NEW good \in BOOLEAN, NEW authorized \in BOOLEAN,
             NEW type \in {"probe", "call", "badMedia", "ping", "close", "other"},
             OnText(good, authorized, type)
      PROVE  Inv'
  BY <1>1, OnTextKeeps
<1>2. CASE main = "run" /\ (Malformed \/ \E n \in 1..MaxIn : OnAudio(n)) BY <1>2, ReaderKeeps
<1>3. CASE ReaderStep BY <1>3, ReaderKeeps, FlushedKeeps DEF ReaderStep
<1>4. CASE WatcherStep BY <1>4, WatcherKeeps DEF WatcherStep
<1>5. CASE WriterStep \/ AudioRaises
  BY <1>5, WriteKeeps, WriterFailsKeeps DEF WriterStep, AudioRaises
<1>6. CASE MainStep BY <1>6, MainKeeps
<1>7. CASE FarEndDrops \/ RequestDisconnect \/ UNCHANGED vars BY <1>7, WorldKeeps
<1> QED BY <1>1, <1>2, <1>3, <1>4, <1>5, <1>6, <1>7 DEF Next

LEMMA Invariance == Spec => []Inv
BY InvInit, InvStep, PTL DEF Spec

\* AC-04, AC-05: whatever the client sends and however often, the session is bound by
\* the open of a call only, and `opened' is then the first text on the wire
\* (audiohook_server.py: _open).
THEOREM BoundBehindOpened == Spec => []BoundAfterOpened
<1>1. Inv => BoundAfterOpened BY DEF Inv, Handshake, BoundAfterOpened
<1> QED BY <1>1, Invariance, PTL

\* AC-15: however the connection ends, a bound session is told once and its STT stopped,
\* and a session that was never bound is told nothing (audiohook_server.py: _teardown).
THEOREM EndIsToldOnce == Spec => []ToldOnce
<1>1. Inv => ToldOnce
  <2>. SUFFICES ASSUME Inv PROVE ToldOnce OBVIOUS
  <2>1. told \in {0, 1} /\ (told = 1 => bound) BY DEF Inv, Shape, Teardown
  <2>2. main = "done" /\ bound => told = 1 /\ ~live BY DEF Inv, Teardown
  <2> QED BY <2>1, <2>2 DEF ToldOnce
<1> QED BY <1>1, Invariance, PTL

-----------------------------------------------------------------------------
(* Types, and the framing of the caller's audio                            *)

\* The loop takes whole frames until less than one is left.
LEMMA FrameQuotient ==
    ASSUME NEW n \in Nat PROVE n \div Frame \in Nat
BY SizeAssumption

LEMMA FrameProduct ==
    ASSUME NEW n \in Nat PROVE Frame * (n \div Frame) <= n /\ n - Frame * (n \div Frame) < Frame
BY SizeAssumption

LEMMA FrameLeaves ==
    ASSUME NEW n \in Nat
    PROVE  Whole(n) \in Nat /\ n - Frame * Whole(n) \in 0..(Frame - 1)
<1>. DEFINE k == n \div Frame
           m == Frame * k
<1>1. k \in Nat BY FrameQuotient
<1>2. m <= n /\ n - m < Frame BY FrameProduct
<1>3. m \in Int /\ Frame \in Nat
  <2>1. Frame \in Nat BY SizeAssumption
  <2>. HIDE DEF k
  <2> QED BY <1>1, <2>1
<1>4. Whole(n) = k BY DEF Whole
<1>. HIDE DEF k
<1>5. n - m \in 0..(Frame - 1)
  <2>. HIDE DEF m
  <2> QED BY <1>2, <1>3
<1> QED BY <1>1, <1>4, <1>5

\* what Shape leaves out
Rest ==
    /\ sock \in {"open", "gone"}
    /\ writer \in {"run", "failed", "cancelled"}
    /\ watcher \in {"unbound", "wait", "flush", "poll", "done"}
    /\ clientSeq \in Nat /\ {closedSent, fired} \subseteq BOOLEAN
    /\ got \in {"none", "end", "probe", "call", "close"}
    /\ remainder \in 0..(Frame - 1) /\ frames \in Nat
    /\ told \in Nat
    /\ wanted \in {"none", "probe", "call"}

LEMMA RestInit == Init => Rest
<1>. SUFFICES ASSUME Init PROVE Rest OBVIOUS
<1>1. 0 \in 0..(Frame - 1) BY SizeAssumption
<1>2. remainder \in 0..(Frame - 1) BY <1>1 DEF Init
<1>3. /\ sock = "open" /\ writer = "run" /\ watcher = "unbound" /\ clientSeq = 0
      /\ closedSent = FALSE /\ fired = FALSE /\ got = "none" /\ frames = 0 /\ told = 0
      /\ wanted = "none"
  BY DEF Init
<1> QED BY <1>2, <1>3 DEF Rest

\* The audio is re-framed; nothing else that Rest has is touched.
LEMMA OnAudioKeepsRest == ASSUME Rest, NEW n \in 1..MaxIn, OnAudio(n) PROVE Rest'
<1>1. PICK t : t = remainder + n OBVIOUS
<1>2. remainder \in Nat /\ n \in Nat /\ t \in Nat BY <1>1, SizeAssumption DEF Rest
<1>3. Whole(t) \in Nat /\ t - Frame * Whole(t) \in 0..(Frame - 1) BY <1>2, FrameLeaves
<1>4. PICK m : m = Frame * Whole(t) OBVIOUS
<1>5. m \in Int BY <1>3, <1>4, SizeAssumption
<1>6. frames' = frames + Whole(t) /\ remainder' = remainder + (n - m)
  BY <1>1, <1>4, Zenon DEF OnAudio
<1>7. remainder' = t - m BY <1>1, <1>2, <1>5, <1>6
<1>8. frames' \in Nat /\ remainder' \in 0..(Frame - 1) BY <1>3, <1>4, <1>6, <1>7 DEF Rest
<1>9. UNCHANGED <<sock, writer, watcher, clientSeq, closedSent, fired, got, told, wanted>>
  BY DEF OnAudio, wires, shake, call
<1> QED BY <1>8, <1>9 DEF Rest

LEMMA RestStep == Rest /\ [Next]_vars => Rest'
<1>. SUFFICES ASSUME Rest, [Next]_vars PROVE Rest' OBVIOUS
<1>. USE DEF wires, shake, audio, call
<1>1. ASSUME NEW good \in BOOLEAN, NEW authorized \in BOOLEAN,
             NEW type \in {"probe", "call", "badMedia", "ping", "close", "other"},
             OnText(good, authorized, type)
      PROVE  Rest'
  <2>1. /\ clientSeq' = IF good THEN clientSeq + 1 ELSE clientSeq
        /\ wanted' \in {wanted, "probe", "call"}
        /\ got' \in {got, "end", "probe", "call", "close"}
        /\ UNCHANGED <<sock, writer, watcher, closedSent, remainder, frames, fired, told>>
    <3>1. /\ clientSeq' = IF good THEN clientSeq + 1 ELSE clientSeq
          /\ wanted' \in {wanted, "probe", "call"}
          /\ UNCHANGED <<sock, writer, watcher, closedSent, remainder, frames, fired, told>>
      BY <1>1 DEF OnText
    <3>2. got' \in {got, "end", "probe", "call", "close"}
      BY <1>1 DEF OnText, Fail, StartClose, Await
    <3> QED BY <3>1, <3>2
  <2> QED BY <2>1 DEF Rest
<1>2. CASE Malformed \/ Reject BY <1>2 DEF Malformed, Reject, Fail, Await, Rest
<1>3. ASSUME NEW n \in 1..MaxIn, OnAudio(n) PROVE Rest' BY <1>3, OnAudioKeepsRest
<1>4. CASE Flushed \/ ReadFails BY <1>4 DEF Flushed, ReadFails, Rest
<1>5. CASE WatcherStep
  BY <1>5 DEF WatcherStep, WatchBound, BotEnds, DisconnectSent, WatchEnds, Rest
<1>6. CASE WriterStep \/ AudioRaises
  BY <1>6 DEF WriterStep, AudioRaises, WriteText, WriterFails, Rest
<1>7. CASE MainStep
  <2>1. CASE CancelWriter
    <3>1. 0 \in 0..(Frame - 1) BY SizeAssumption
    <3> QED BY <2>1, <3>1 DEF CancelWriter, Rest
  <2>2. CASE FirstDone \/ CancelReader \/ CancelWatcher \/ Signal \/ StopReturns \/ CancelStt
    BY <2>2 DEF FirstDone, CancelReader, CancelWatcher, Signal, StopReturns, CancelStt, Rest
  <2> QED BY <1>7, <2>1, <2>2 DEF MainStep
<1>8. CASE FarEndDrops \/ RequestDisconnect \/ UNCHANGED vars
  BY <1>8 DEF FarEndDrops, RequestDisconnect, vars, Rest
<1> QED BY <1>1, <1>2, <1>3, <1>4, <1>5, <1>6, <1>7, <1>8 DEF Next, ReaderStep

\* Every variable keeps its type for any frame size and any chunks; what waits to be framed
\* is less than a frame, whatever the client sends (audiohook_server.py:291).
THEOREM TypeCorrect == Spec => []TypeOK
<1>1. Inv /\ Rest => TypeOK BY DEF Inv, Shape, Rest, Text, TypeOK
<1> QED BY <1>1, RestInit, RestStep, Invariance, PTL DEF Spec
=============================================================================
