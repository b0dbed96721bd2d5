------------------------- MODULE TwilioStreamProofs -------------------------
(***************************************************************************)
(* What holds of TwilioStream for any number of calls on one session and   *)
(* any number of chunks, marks and clears.                                 *)
(***************************************************************************)
EXTENDS TwilioStream, SequenceTheorems, TLAPS

MainPlaces == {"none", "accepted", "receive", "stopping", "stt", "clear", "watch", "audio",
               "mark", "done", "raised"}
TaskPlaces == {"none", "new", "get", "write", "wait", "rest", "poll", "close", "done"}

\* A task holds an item exactly while it writes, and the watcher an event while it waits.
Links == /\ \A g \in Calls : task[g]["watch"] = "wait" => event[g] \in Calls
         /\ \A g \in Calls, k \in Sends : (task[g][k] = "write") <=> (held[g][k] # None)

\* Before the start event a handler has no tasks.
Fresh == \A g \in Calls : main[g] \in {"none", "accepted"} => \A k \in Tasks : task[g][k] = "none"

TypeInv == TypeOK /\ Fresh

LEMMA CallTypes ==
    /\ MaxGen \in Nat /\ MaxPuts \in Nat /\ 0 \in Calls /\ None \notin Calls
    /\ \A g \in Calls : g \in Nat /\ g <= MaxGen
BY BoundAssumption DEF Calls, None

LEMMA TaskNames ==
    /\ "watch" \in Tasks /\ "watch" \notin Sends /\ Sends \subseteq Tasks
    /\ \A k \in Tasks : k \in Sends \/ k = "watch"
BY DEF Tasks, Sends

-----------------------------------------------------------------------------
(* Types                                                                   *)

LEMMA TypeInit == Init => TypeOK
<1>. SUFFICES ASSUME Init PROVE TypeOK OBVIOUS
<1>1. queue \in [Sends -> Seq(Calls)] BY EmptySeq DEF Init
<1>2. held \in [Calls -> [Sends -> Calls \cup {None}]] /\ event \in [Calls -> Calls \cup {None}]
  BY DEF Init
<1>3. task \in [Calls -> [Tasks -> TaskPlaces]] BY DEF Init, TaskPlaces
<1>4. \A g \in Calls, k \in Sends : held[g][k] = None /\ task[g][k] = "none"
  BY TaskNames DEF Init
<1>5. \A g \in Calls : task[g]["watch"] = "none" BY TaskNames DEF Init
<1>6. main \in [Calls -> MainPlaces] /\ sock \in [Calls -> {"none", "open", "closed"}]
      /\ sttTask \in [Calls -> {"none", "starting", "started", "failed"}]
  BY DEF Init, MainPlaces
<1>7. /\ gen \in Calls /\ disconnected \in BOOLEAN /\ intent \in Calls \cup {None}
      /\ fired \subseteq Calls /\ stt \in BOOLEAN /\ put \in 0..MaxPuts
  <2>1. gen = 0 /\ put = 0 /\ intent = None /\ fired = {} /\ disconnected = FALSE /\ stt = FALSE
    BY DEF Init
  <2>2. gen \in Calls /\ put \in 0..MaxPuts BY <2>1, CallTypes
  <2> QED BY <2>1, <2>2
<1>8. Links BY <1>4, <1>5 DEF Links
<1> QED BY <1>1, <1>2, <1>3, <1>6, <1>7, <1>8 DEF TypeOK, MainPlaces, TaskPlaces, Links

\* A task that moves on keeps the types, when what it holds and waits for fits its place.
LEMMA TaskMoves ==
    ASSUME TypeOK, NEW g \in Calls, NEW k \in Tasks, NEW where \in TaskPlaces,
           TaskGoes(g, k, where)
    PROVE  /\ task' \in [Calls -> [Tasks -> TaskPlaces]]
           /\ task'[g][k] = where
           /\ \A h \in Calls, t \in Tasks : h # g \/ t # k => task'[h][t] = task[h][t]
BY DEF TypeOK, TaskGoes, TaskPlaces

LEMMA HeldMoves ==
    ASSUME TypeOK, NEW g \in Calls, NEW k \in Sends, NEW x \in Calls \cup {None},
           held' = [held EXCEPT ![g][k] = x]
    PROVE  /\ held' \in [Calls -> [Sends -> Calls \cup {None}]]
           /\ held'[g][k] = x
           /\ \A h \in Calls, t \in Sends : h # g \/ t # k => held'[h][t] = held[h][t]
BY DEF TypeOK

LEMMA MainMoves ==
    ASSUME TypeOK, NEW g \in Calls, NEW where \in MainPlaces, MainGoes(g, where)
    PROVE  /\ main' \in [Calls -> MainPlaces] /\ main'[g] = where
           /\ \A h \in Calls : h # g => main'[h] = main[h]
BY DEF TypeOK, MainGoes, MainPlaces

\* the watcher's steps
LEMMA WatchType ==
    ASSUME TypeOK, NEW g \in Calls, WatchStep(g) PROVE TypeOK'
<1>1. /\ UNCHANGED <<gen, disconnected, intent, fired, stt, queue, main, sttTask, held, put>>
      /\ sock' \in [Calls -> {"none", "open", "closed"}]
      /\ event' \in [Calls -> Calls \cup {None}]
      /\ \A h \in Calls : h # g => event'[h] = event[h]
  <2>. USE DEF WatchStep, WatchBegins, Requested, RestReturns, CloseObserved, PollExpires,
               ServerCloses, session, handler, work
  <2>1. UNCHANGED <<gen, disconnected, intent, fired, stt, queue, main, sttTask, held, put>>
    OBVIOUS
  <2>2. sock' = sock \/ sock' = [sock EXCEPT ![g] = "closed"] OBVIOUS
  <2>3. event' = event \/ event' = [event EXCEPT ![g] = intent] OBVIOUS
  <2>. HIDE DEF WatchStep, WatchBegins, Requested, RestReturns, CloseObserved, PollExpires,
                ServerCloses, session, handler, work
  <2>4. sock' \in [Calls -> {"none", "open", "closed"}] BY <2>2 DEF TypeOK
  <2>5. /\ event' \in [Calls -> Calls \cup {None}]
        /\ \A h \in Calls : h # g => event'[h] = event[h]
    <3>1. intent \in Calls \cup {None} /\ event \in [Calls -> Calls \cup {None}] BY DEF TypeOK
    <3>2. CASE event' = event BY <3>1, <3>2
    <3>3. CASE event' = [event EXCEPT ![g] = intent] BY <3>1, <3>3
    <3> QED BY <2>3, <3>2, <3>3
  <2> QED BY <2>1, <2>4, <2>5
<1>2. \E where \in {"done", "wait", "rest", "close", "poll"} :
         TaskGoes(g, "watch", where) /\ (where = "wait" => event'[g] \in Calls)
  <2>1. CASE WatchBegins(g)
    <3>1. event'[g] = intent BY <2>1 DEF WatchBegins, TypeOK
    <3>2. intent \in Calls \/ intent = None BY DEF TypeOK
    <3> QED BY <2>1, <3>1, <3>2 DEF WatchBegins
  <2>2. CASE Requested(g) BY <2>2 DEF Requested
  <2>3. CASE RestReturns(g) BY <2>3 DEF RestReturns
  <2>4. CASE CloseObserved(g) BY <2>4 DEF CloseObserved
  <2>5. CASE PollExpires(g) BY <2>5 DEF PollExpires, AtDeadline
  <2>6. CASE ServerCloses(g) BY <2>6 DEF ServerCloses
  <2> QED BY <2>1, <2>2, <2>3, <2>4, <2>5, <2>6 DEF WatchStep
<1>3. PICK where \in {"done", "wait", "rest", "close", "poll"} :
         TaskGoes(g, "watch", where) /\ (where = "wait" => event'[g] \in Calls)
  BY <1>2
<1>4. /\ task' \in [Calls -> [Tasks -> TaskPlaces]] /\ task'[g]["watch"] = where
      /\ \A h \in Calls, t \in Tasks : h # g \/ t # "watch" => task'[h][t] = task[h][t]
  <2>1. where \in TaskPlaces BY DEF TaskPlaces
  <2> QED BY <1>3, <2>1, TaskMoves, TaskNames
<1>5. Links'
  <2>1. Links BY DEF TypeOK, Links
  <2>2. \A h \in Calls : task'[h]["watch"] = "wait" => event'[h] \in Calls
    <3>. SUFFICES ASSUME NEW h \in Calls, task'[h]["watch"] = "wait" PROVE event'[h] \in Calls
      OBVIOUS
    <3>1. CASE h = g BY <1>3, <1>4, <3>1
    <3>2. CASE h # g BY <1>1, <1>4, <2>1, <3>2, TaskNames DEF Links
    <3> QED BY <3>1, <3>2
  <2>3. \A h \in Calls, t \in Sends : task'[h][t] = task[h][t] BY <1>4, TaskNames
  <2> QED BY <1>1, <2>1, <2>2, <2>3 DEF Links
<1> QED BY <1>1, <1>4, <1>5 DEF TypeOK, Links, TaskPlaces

LEMMA SendType ==
    ASSUME TypeOK, NEW g \in Calls, NEW k \in Sends, SendStep(g, k) PROVE TypeOK'
<1>1. UNCHANGED <<gen, intent, fired, stt, main, sock, sttTask, event, put>>
  BY DEF SendStep, Get, Written, WriteRaises, session, handler, SignalDisconnected
<1>2. disconnected' \in BOOLEAN
  BY DEF SendStep, Get, Written, WriteRaises, session, SignalDisconnected, TypeOK
<1>3. /\ queue' \in [Sends -> Seq(Calls)]
      /\ \E x \in Calls \cup {None} : \E where \in {"get", "write", "done"} :
            /\ TaskGoes(g, k, where) /\ held' = [held EXCEPT ![g][k] = x]
            /\ (where = "write") <=> (x # None)
  <2>1. CASE Get(g, k)
    <3>1. queue[k] \in Seq(Calls) /\ queue[k] # <<>> BY <2>1 DEF Get, TypeOK
    <3>2. Head(queue[k]) \in Calls /\ Tail(queue[k]) \in Seq(Calls)
      BY <3>1, HeadTailProperties
    <3>3. queue' \in [Sends -> Seq(Calls)] BY <2>1, <3>2 DEF Get, TypeOK
    <3>4. Head(queue[k]) # None BY <3>2, CallTypes
    <3> QED BY <2>1, <3>2, <3>3, <3>4 DEF Get
  <2>2. CASE Written(g, k) BY <2>2 DEF Written, TypeOK
  <2>3. CASE WriteRaises(g, k) BY <2>3 DEF WriteRaises, TypeOK
  <2> QED BY <2>1, <2>2, <2>3 DEF SendStep
<1>4. PICK x \in Calls \cup {None}, where \in {"get", "write", "done"} :
            /\ TaskGoes(g, k, where) /\ held' = [held EXCEPT ![g][k] = x]
            /\ (where = "write") <=> (x # None)
  BY <1>3
<1>5. /\ task' \in [Calls -> [Tasks -> TaskPlaces]] /\ task'[g][k] = where
      /\ \A h \in Calls, t \in Tasks : h # g \/ t # k => task'[h][t] = task[h][t]
  <2>1. where \in TaskPlaces BY DEF TaskPlaces
  <2> QED BY <1>4, <2>1, TaskMoves, TaskNames
<1>6. /\ held' \in [Calls -> [Sends -> Calls \cup {None}]] /\ held'[g][k] = x
      /\ \A h \in Calls, t \in Sends : h # g \/ t # k => held'[h][t] = held[h][t]
  <2>1. held' = [held EXCEPT ![g][k] = x] BY <1>4
  <2> QED BY <2>1 DEF TypeOK
<1>7. Links'
  <2>1. Links BY DEF TypeOK, Links
  <2>2. \A h \in Calls : task'[h]["watch"] = task[h]["watch"] BY <1>5, TaskNames
  <2>3. \A h \in Calls, t \in Sends : (task'[h][t] = "write") <=> (held'[h][t] # None)
    <3>. SUFFICES ASSUME NEW h \in Calls, NEW t \in Sends
                  PROVE  (task'[h][t] = "write") <=> (held'[h][t] # None)
      OBVIOUS
    <3>1. CASE h = g /\ t = k
      <4>1. (where = "write") <=> (x # None) BY <1>4
      <4> QED BY <1>5, <1>6, <3>1, <4>1
    <3>2. CASE h # g \/ t # k
      <4>1. task'[h][t] = task[h][t] BY <1>5, <3>2, TaskNames
      <4>2. held'[h][t] = held[h][t] BY <1>6, <3>2
      <4> QED BY <2>1, <4>1, <4>2 DEF Links
    <3> QED BY <3>1, <3>2
  <2> QED BY <1>1, <2>1, <2>2, <2>3 DEF Links
<1> QED BY <1>1, <1>2, <1>3, <1>5, <1>6, <1>7 DEF TypeOK, Links, TaskPlaces

LEMMA HandlerType ==
    ASSUME TypeOK, NEW g \in Calls,
           Accept(g) \/ StopEvent(g) \/ FarEndCloses(g) \/ SttStarts(g)
             \/ ReceiveRaises(g) \/ StopReturns(g) \/ CancelStt(g)
    PROVE  TypeOK'
<1>1. UNCHANGED <<gen, intent, fired, stt, queue, task, held, event, put>>
  BY DEF Accept, StopEvent, FarEndCloses, SttStarts, ReceiveRaises, StopReturns, CancelStt,
         session, work
<1>2. disconnected' = disconnected \/ disconnected' = TRUE
  BY DEF Accept, StopEvent, FarEndCloses, SttStarts, ReceiveRaises, StopReturns, CancelStt,
         session, SignalDisconnected
<1>3. main' = main \/ \E where \in MainPlaces : MainGoes(g, where)
  BY DEF Accept, StopEvent, FarEndCloses, SttStarts, ReceiveRaises, StopReturns, CancelStt,
         Finally, MainPlaces, handler
<1>4. main' \in [Calls -> MainPlaces]
  <2>1. main \in [Calls -> MainPlaces] BY DEF TypeOK, MainPlaces
  <2> QED BY <1>3, <2>1, MainMoves
<1>5. sock' = sock \/ sock' = [sock EXCEPT ![g] = "open"] \/ sock' = [sock EXCEPT ![g] = "closed"]
  BY DEF Accept, StopEvent, FarEndCloses, SttStarts, ReceiveRaises, StopReturns, CancelStt,
         Returned, handler
<1>6. sock' \in [Calls -> {"none", "open", "closed"}] BY <1>5 DEF TypeOK
<1>7. \/ sttTask' = sttTask
      \/ \E where \in {"none", "started", "failed"} : sttTask' = [sttTask EXCEPT ![g] = where]
  BY DEF Accept, StopEvent, FarEndCloses, SttStarts, ReceiveRaises, StopReturns, CancelStt,
         handler
<1>8. sttTask' \in [Calls -> {"none", "starting", "started", "failed"}] BY <1>7 DEF TypeOK
<1>9. disconnected' \in BOOLEAN BY <1>2 DEF TypeOK
<1> QED BY <1>1, <1>4, <1>6, <1>8, <1>9 DEF TypeOK, MainPlaces

LEMMA StartType == ASSUME TypeOK, Fresh, NEW g \in Calls, Start(g) PROVE TypeOK'
<1>1. /\ UNCHANGED <<gen, disconnected, fired, queue, sock, held, event, put>>
      /\ intent' = intent \/ intent' = gen
      /\ MainGoes(g, "receive")
      /\ stt' = (stt \/ HasStt)
      /\ sttTask' = [sttTask EXCEPT ![g] = IF stt' THEN "starting" ELSE "none"]
      /\ task' = [task EXCEPT ![g] = [k \in Tasks |-> IF k = "watch" THEN "new" ELSE "get"]]
  BY DEF Start
<1>2. main' \in [Calls -> MainPlaces] BY <1>1, MainMoves DEF MainPlaces
<1>3. sttTask' \in [Calls -> {"none", "starting", "started", "failed"}] BY <1>1 DEF TypeOK
<1>4. /\ task' \in [Calls -> [Tasks -> TaskPlaces]]
      /\ task'[g] = [k \in Tasks |-> IF k = "watch" THEN "new" ELSE "get"]
      /\ \A h \in Calls : h # g => task'[h] = task[h]
  BY <1>1 DEF TypeOK, TaskPlaces
<1>5. Links'
  <2>1. Links BY DEF TypeOK, Links
  <2>2. \A k \in Sends : held[g][k] = None
    <3>1. \A k \in Sends : task[g][k] = "none" BY TaskNames DEF Start, Fresh
    <3> QED BY <2>1, <3>1 DEF Links
  <2>3. \A k \in Sends : task'[g][k] = "get" BY <1>4, TaskNames
  <2>4. task'[g]["watch"] = "new" BY <1>4, TaskNames
  <2>5. \A h \in Calls : task'[h]["watch"] = "wait" => event[h] \in Calls
    <3>. SUFFICES ASSUME NEW h \in Calls, task'[h]["watch"] = "wait" PROVE event[h] \in Calls
      OBVIOUS
    <3>1. h # g BY <2>4
    <3> QED BY <1>4, <2>1, <3>1 DEF Links
  <2>6. \A h \in Calls, k \in Sends : (task'[h][k] = "write") <=> (held[h][k] # None)
    <3>. SUFFICES ASSUME NEW h \in Calls, NEW k \in Sends
                  PROVE  (task'[h][k] = "write") <=> (held[h][k] # None)
      OBVIOUS
    <3>1. CASE h = g BY <2>2, <2>3, <3>1
    <3>2. CASE h # g BY <1>4, <2>1, <3>2 DEF Links
    <3> QED BY <3>1, <3>2
  <2> QED BY <1>1, <2>5, <2>6 DEF Links
<1>6. stt' \in BOOLEAN BY <1>1, FlagAssumption DEF TypeOK
<1>7. intent' \in Calls \cup {None} BY <1>1 DEF TypeOK
<1> QED BY <1>1, <1>2, <1>3, <1>4, <1>5, <1>6, <1>7 DEF TypeOK, Links, MainPlaces, TaskPlaces

LEMMA CancelType == ASSUME TypeOK, NEW g \in Calls, NEW k \in Tasks, CancelTask(g, k) PROVE TypeOK'
<1>. DEFINE where == IF task[g][k] = "none" THEN "none" ELSE "done"
<1>1. /\ UNCHANGED <<gen, disconnected, intent, fired, stt, queue, sttTask, event, put>>
      /\ TaskGoes(g, k, where) /\ MainGoes(g, AfterCancel(k))
      /\ k \in Sends => held' = [held EXCEPT ![g][k] = None]
      /\ k \notin Sends => held' = held
      /\ sock' = sock \/ sock' = [sock EXCEPT ![g] = "closed"]
  BY DEF CancelTask, session, Returned
<1>2. where \in {"none", "done"} /\ where \in TaskPlaces BY DEF TaskPlaces
<1>. HIDE DEF where
<1>3. AfterCancel(k) \in MainPlaces BY DEF AfterCancel, Tasks, Sends, MainPlaces
<1>4. main' \in [Calls -> MainPlaces] BY <1>1, <1>3, MainMoves
<1>5. /\ task' \in [Calls -> [Tasks -> TaskPlaces]] /\ task'[g][k] = where
      /\ \A h \in Calls, t \in Tasks : h # g \/ t # k => task'[h][t] = task[h][t]
  BY <1>1, <1>2, TaskMoves
<1>6. /\ held' \in [Calls -> [Sends -> Calls \cup {None}]]
      /\ k \in Sends => held'[g][k] = None
      /\ \A h \in Calls, t \in Sends : h # g \/ t # k => held'[h][t] = held[h][t]
  <2>1. CASE k \in Sends BY <1>1, <2>1, HeldMoves
  <2>2. CASE k \notin Sends BY <1>1, <2>2 DEF TypeOK
  <2> QED BY <2>1, <2>2
<1>7. Links'
  <2>1. Links BY DEF TypeOK, Links
  <2>2. \A h \in Calls : task'[h]["watch"] = "wait" => event[h] \in Calls
    <3>. SUFFICES ASSUME NEW h \in Calls, task'[h]["watch"] = "wait" PROVE event[h] \in Calls
      OBVIOUS
    <3>1. h # g \/ "watch" # k BY <1>2, <1>5
    <3> QED BY <1>5, <2>1, <3>1, TaskNames DEF Links
  <2>3. \A h \in Calls, t \in Sends : (task'[h][t] = "write") <=> (held'[h][t] # None)
    <3>. SUFFICES ASSUME NEW h \in Calls, NEW t \in Sends
                  PROVE  (task'[h][t] = "write") <=> (held'[h][t] # None)
      OBVIOUS
    <3>1. CASE h = g /\ t = k BY <1>2, <1>5, <1>6, <3>1
    <3>2. CASE h # g \/ t # k
      <4>1. task'[h][t] = task[h][t] BY <1>5, <3>2, TaskNames
      <4>2. held'[h][t] = held[h][t] BY <1>6, <3>2
      <4> QED BY <2>1, <4>1, <4>2 DEF Links
    <3> QED BY <3>1, <3>2
  <2> QED BY <1>1, <2>2, <2>3 DEF Links
<1>8. sock' \in [Calls -> {"none", "open", "closed"}] BY <1>1 DEF TypeOK
<1> QED BY <1>1, <1>4, <1>5, <1>6, <1>7, <1>8 DEF TypeOK, Links, MainPlaces, TaskPlaces

LEMMA ConsumerType ==
    ASSUME TypeOK, (\E k \in Sends : Put(k)) \/ RequestDisconnect \/ Reset
    PROVE  TypeOK'
<1>1. CASE \E k \in Sends : Put(k)
  <2>1. PICK k \in Sends : Put(k) BY <1>1
  <2>2. queue' \in [Sends -> Seq(Calls)]
    <3>1. Append(queue[k], gen) \in Seq(Calls) BY AppendProperties DEF TypeOK
    <3> QED BY <2>1, <3>1 DEF Put, TypeOK
  <2>3. put' \in 0..MaxPuts BY <2>1, CallTypes DEF Put, TypeOK
  <2> QED BY <2>1, <2>2, <2>3 DEF Put, TypeOK, session, handler, work
<1>2. CASE RequestDisconnect
  <2>1. fired' \subseteq Calls BY <1>2, FlagAssumption DEF RequestDisconnect, TypeOK
  <2> QED BY <1>2, <2>1 DEF RequestDisconnect, TypeOK, handler, work
<1>3. CASE Reset
  <2>1. queue' \in [Sends -> Seq(Calls)]
    <3>1. <<>> \in Seq(Calls) BY EmptySeq
    <3>2. queue' = [queue EXCEPT !["audio"] = <<>>, !["clear"] = <<>>] BY <1>3 DEF Reset
    <3> QED BY <3>1, <3>2 DEF TypeOK
  <2>2. gen' \in Calls BY <1>3, BoundAssumption DEF Reset, TypeOK, Calls
  <2>3. /\ UNCHANGED <<fired, main, sock, sttTask, task, held, event, put>>
        /\ disconnected' = FALSE /\ intent' = None /\ stt' = FALSE
    BY <1>3 DEF Reset, handler, work
  <2> QED BY <2>1, <2>2, <2>3 DEF TypeOK
<1> QED BY <1>1, <1>2, <1>3

-----------------------------------------------------------------------------
(* The invariant                                                           *)

\* Where the handler awaits the end of a task, those before it in the clause are over.
OverAt(where) ==
    CASE where = "watch"            -> {"clear"}
      [] where = "audio"            -> {"clear", "watch"}
      [] where = "mark"             -> {"clear", "watch", "audio"}
      [] where = "done"             -> Tasks
      [] where \notin {"watch", "audio", "mark", "done"} -> {}
Order == \A g \in Calls : \A k \in OverAt(main[g]) : task[g][k] \in {"none", "done"}

\* Handlers are made in the order of the calls.
Made == \A g \in Calls : main[g] # "none" => g <= gen

\* What can fail only if the STT start can
Clean == ~SttMayFail => \A g \in Calls : sttTask[g] # "failed" /\ main[g] # "raised"

Inv == TypeInv /\ Order /\ Made /\ SessionTold /\ Clean

LEMMA OverAtValues ==
    /\ \A where : OverAt(where) \subseteq Tasks
    /\ \A where : where \notin {"watch", "audio", "mark", "done"} => OverAt(where) = {}
    /\ \A k \in Tasks : OverAt(AfterCancel(k)) \subseteq OverAt(k) \cup {k}
    /\ \A k \in Tasks : AfterCancel(k) \in {"watch", "audio", "mark", "done"}
<1>1. OverAt("watch") = {"clear"} BY DEF OverAt
<1>2. OverAt("audio") = {"clear", "watch"} BY DEF OverAt
<1>3. OverAt("mark") = {"clear", "watch", "audio"} BY DEF OverAt
<1>4. OverAt("done") = Tasks BY DEF OverAt
<1>5. \A where : where \notin {"watch", "audio", "mark", "done"} => OverAt(where) = {}
  BY DEF OverAt
<1>6. /\ AfterCancel("clear") = "watch" /\ AfterCancel("watch") = "audio"
      /\ AfterCancel("audio") = "mark" /\ AfterCancel("mark") = "done"
  BY DEF AfterCancel
<1>7. Tasks = {"clear", "watch", "audio", "mark"} BY DEF Tasks, Sends
<1> QED BY <1>1, <1>2, <1>3, <1>4, <1>5, <1>6, <1>7

LEMMA InvInit == Init => Inv
<1>. SUFFICES ASSUME Init PROVE Inv OBVIOUS
<1>1. \A g \in Calls : /\ main[g] = "none" /\ sttTask[g] = "none"
                        /\ \A k \in Tasks : task[g][k] = "none"
  BY DEF Init
<1>2. Fresh /\ Made /\ Clean /\ SessionTold BY <1>1 DEF Fresh, Made, Clean, SessionTold, Left
<1>3. Order BY <1>1, OverAtValues DEF Order
<1> QED BY <1>2, <1>3, TypeInit DEF Inv, TypeInv

\* a step of a task
LEMMA TaskStep ==
    ASSUME Inv, NEW g \in Calls, NEW k \in Tasks, NEW where \in TaskPlaces,
           TaskGoes(g, k, where), task[g][k] \notin {"none", "done"},
           UNCHANGED <<gen, main, sttTask>>, disconnected' = disconnected \/ disconnected' = TRUE
    PROVE  Fresh' /\ Order' /\ Made' /\ SessionTold' /\ Clean'
<1>1. \A h \in Calls, t \in Tasks : h # g \/ t # k => task'[h][t] = task[h][t]
  BY TaskMoves DEF Inv, TypeInv
<1>2. \A h \in Calls, t \in Tasks : task[h][t] \in {"none", "done"} => task'[h][t] = task[h][t]
  BY <1>1
<1>3. Fresh' BY <1>2 DEF Inv, TypeInv, Fresh
<1>4. Order' BY <1>2, OverAtValues DEF Inv, Order
<1>5. Made' /\ SessionTold' /\ Clean' BY DEF Inv, Made, SessionTold, Left, Clean
<1> QED BY <1>3, <1>4, <1>5

\* a step of a handler from a place in its loop or the first two of its finally clause
LEMMA MainStays ==
    ASSUME Inv, NEW g \in Calls,
           NEW where \in {"accepted", "stopping", "stt", "clear", "raised"},
           MainGoes(g, where), gen' = gen, UNCHANGED task,
           where = "accepted" => main[g] = "none" /\ gen = g,
           where # "accepted" => main[g] # "none",
           where \in {"stopping", "stt", "clear", "raised"} =>
              disconnected' = TRUE \/ (Left(g) /\ disconnected' = disconnected),
           disconnected' = disconnected \/ disconnected' = TRUE
    PROVE  Fresh' /\ Order' /\ Made' /\ SessionTold'
<1>1. main'[g] = where /\ \A h \in Calls : h # g => main'[h] = main[h]
  BY MainMoves DEF Inv, TypeInv, MainPlaces
<1>2. Fresh' BY <1>1 DEF Inv, TypeInv, Fresh
<1>3. Order'
  <2>1. OverAt(where) = {} BY OverAtValues
  <2> QED BY <1>1, <2>1 DEF Inv, Order
<1>4. Made' BY <1>1, CallTypes DEF Inv, Made
<1>5. SessionTold' BY <1>1 DEF Inv, SessionTold, Left
<1> QED BY <1>2, <1>3, <1>4, <1>5

LEMMA CancelStep == ASSUME Inv, NEW g \in Calls, NEW k \in Tasks, CancelTask(g, k) PROVE Inv'
<1>1. /\ UNCHANGED <<gen, disconnected, sttTask>> /\ main[g] = k
      /\ TaskGoes(g, k, IF task[g][k] = "none" THEN "none" ELSE "done")
      /\ MainGoes(g, AfterCancel(k))
  BY DEF CancelTask, session
<1>2. main'[g] = AfterCancel(k) /\ \A h \in Calls : h # g => main'[h] = main[h]
  <2>1. AfterCancel(k) \in MainPlaces BY OverAtValues DEF MainPlaces
  <2> QED BY <1>1, <2>1, MainMoves DEF Inv, TypeInv
<1>3. /\ task'[g][k] \in {"none", "done"}
      /\ \A h \in Calls, t \in Tasks : h # g \/ t # k => task'[h][t] = task[h][t]
  <2>1. (IF task[g][k] = "none" THEN "none" ELSE "done") \in TaskPlaces BY DEF TaskPlaces
  <2> QED BY <1>1, <2>1, TaskMoves DEF Inv, TypeInv
<1>4. Order'
  <2>. SUFFICES ASSUME NEW h \in Calls, NEW t \in OverAt(main'[h])
                PROVE  task'[h][t] \in {"none", "done"}
    BY DEF Order
  <2>1. CASE h = g
    <3>1. t \in OverAt(k) \cup {k} /\ t \in Tasks BY <1>2, <2>1, OverAtValues
    <3>2. CASE t = k BY <1>3, <2>1, <3>2
    <3>3. CASE t # k /\ t \in OverAt(main[g]) BY <1>3, <2>1, <3>1, <3>3 DEF Inv, Order
    <3> QED BY <1>1, <3>1, <3>2, <3>3
  <2>2. CASE h # g
    <3>1. t \in OverAt(main[h]) /\ t \in Tasks BY <1>2, <2>2, OverAtValues
    <3> QED BY <1>3, <2>2, <3>1 DEF Inv, Order
  <2> QED BY <2>1, <2>2
<1>5. main[g] \in {"clear", "watch", "audio", "mark"} BY <1>1 DEF Tasks, Sends
<1>6. AfterCancel(k) \in {"watch", "audio", "mark", "done"} BY OverAtValues
<1>7. Fresh' BY <1>2, <1>3, <1>5, <1>6 DEF Inv, TypeInv, Fresh
<1>8. Made' BY <1>1, <1>2, <1>5 DEF Inv, Made
<1>9. SessionTold' BY <1>1, <1>2, <1>5 DEF Inv, SessionTold, Left
<1>10. Clean' BY <1>1, <1>2, <1>6 DEF Inv, Clean
<1> QED BY <1>4, <1>7, <1>8, <1>9, <1>10, CancelType DEF Inv, TypeInv

LEMMA StartStep == ASSUME Inv, NEW g \in Calls, Start(g) PROVE Inv'
<1>1. /\ UNCHANGED <<gen, disconnected>> /\ main[g] = "accepted" /\ MainGoes(g, "receive")
      /\ sttTask' = [sttTask EXCEPT ![g] = IF stt' THEN "starting" ELSE "none"]
      /\ task' = [task EXCEPT ![g] = [k \in Tasks |-> IF k = "watch" THEN "new" ELSE "get"]]
  BY DEF Start
<1>2. main'[g] = "receive" /\ \A h \in Calls : h # g => main'[h] = main[h]
  BY <1>1, MainMoves DEF Inv, TypeInv, MainPlaces
<1>3. \A h \in Calls : h # g => task'[h] = task[h] BY <1>1 DEF Inv, TypeInv, TypeOK
<1>4. \A h \in Calls : sttTask'[h] # "failed" \/ sttTask'[h] = sttTask[h]
  BY <1>1 DEF Inv, TypeInv, TypeOK
<1>5. Fresh' BY <1>2, <1>3 DEF Inv, TypeInv, Fresh
<1>6. Order' BY <1>2, <1>3, OverAtValues DEF Inv, Order
<1>7. Made' /\ SessionTold' BY <1>1, <1>2 DEF Inv, Made, SessionTold, Left
<1>8. Clean' BY <1>2, <1>4 DEF Inv, Clean
<1> QED BY <1>5, <1>6, <1>7, <1>8, StartType DEF Inv, TypeInv

LEMMA ConsumerStep ==
    ASSUME Inv, (\E k \in Sends : Put(k)) \/ RequestDisconnect \/ Reset PROVE Inv'
<1>1. UNCHANGED <<main, sttTask, task>>
  BY DEF Put, RequestDisconnect, Reset, handler, work
<1>2. (gen' = gen /\ disconnected' = disconnected) \/ gen' = gen + 1
  BY DEF Put, RequestDisconnect, Reset, session
<1>3. Fresh' /\ Order' /\ Clean' BY <1>1 DEF Inv, TypeInv, Fresh, Order, Clean
<1>4. gen \in Nat BY CallTypes DEF Inv, TypeInv, TypeOK
<1>5. Made' BY <1>1, <1>2, <1>4, CallTypes DEF Inv, Made
<1>6. SessionTold' BY <1>1, <1>2, <1>4, CallTypes DEF Inv, Made, SessionTold, Left
<1> QED BY <1>3, <1>5, <1>6, ConsumerType DEF Inv, TypeInv

LEMMA SendKeeps == ASSUME Inv, NEW g \in Calls, NEW k \in Sends, SendStep(g, k) PROVE Inv'
<1>1. /\ UNCHANGED <<gen, main, sttTask>>
      /\ disconnected' = disconnected \/ disconnected' = TRUE
      /\ task[g][k] \notin {"none", "done"}
      /\ \E where \in {"get", "write", "done"} : TaskGoes(g, k, where)
  BY DEF SendStep, Get, Written, WriteRaises, session, handler, SignalDisconnected
<1>2. PICK where \in {"get", "write", "done"} : TaskGoes(g, k, where) BY <1>1
<1>3. k \in Tasks /\ where \in TaskPlaces BY TaskNames DEF TaskPlaces
<1>4. Fresh' /\ Order' /\ Made' /\ SessionTold' /\ Clean' BY <1>1, <1>2, <1>3, TaskStep
<1> QED BY <1>4, SendType DEF Inv, TypeInv

LEMMA WatchKeeps == ASSUME Inv, NEW g \in Calls, WatchStep(g) PROVE Inv'
<1>1. /\ UNCHANGED <<gen, main, sttTask, disconnected>>
      /\ task[g]["watch"] \notin {"none", "done"}
      /\ \E where \in {"done", "wait", "rest", "close", "poll"} : TaskGoes(g, "watch", where)
  BY DEF WatchStep, WatchBegins, Requested, RestReturns, CloseObserved, PollExpires,
         ServerCloses, AtDeadline, session, handler
<1>2. PICK where \in {"done", "wait", "rest", "close", "poll"} : TaskGoes(g, "watch", where)
  BY <1>1
<1>3. where \in TaskPlaces BY DEF TaskPlaces
<1>4. Fresh' /\ Order' /\ Made' /\ SessionTold' /\ Clean' BY <1>1, <1>2, <1>3, TaskStep, TaskNames
<1> QED BY <1>4, WatchType DEF Inv, TypeInv

LEMMA HandlerKeeps ==
    ASSUME Inv, NEW g \in Calls,
           Accept(g) \/ StopEvent(g) \/ FarEndCloses(g) \/ SttStarts(g)
             \/ ReceiveRaises(g) \/ StopReturns(g) \/ CancelStt(g)
    PROVE  Inv'
<1>1. CASE Accept(g)
  <2>1. Fresh' /\ Order' /\ Made' /\ SessionTold'
    BY <1>1, MainStays DEF Accept, session, work
  <2>2. MainGoes(g, "accepted") /\ sttTask' = sttTask BY <1>1 DEF Accept
  <2>3. Clean' BY <2>2, MainMoves DEF Inv, TypeInv, Clean, MainPlaces
  <2> QED BY <1>1, <2>1, <2>3, HandlerType DEF Inv, TypeInv
<1>2. CASE StopEvent(g) \/ ReceiveRaises(g)
  <2>1. /\ UNCHANGED <<gen, task, sttTask>> /\ disconnected' = TRUE /\ main[g] # "none"
        /\ \E where \in {"stopping", "stt"} : MainGoes(g, where)
    BY <1>2 DEF StopEvent, ReceiveRaises, Finally, SignalDisconnected, work
  <2>2. PICK where \in {"stopping", "stt"} : MainGoes(g, where) BY <2>1
  <2>3. Fresh' /\ Order' /\ Made' /\ SessionTold' BY <2>1, <2>2, MainStays
  <2>4. Clean' BY <2>1, <2>2, MainMoves DEF Inv, TypeInv, Clean, MainPlaces
  <2> QED BY <1>2, <2>3, <2>4, HandlerType DEF Inv, TypeInv
<1>3. CASE StopReturns(g)
  <2>1. /\ UNCHANGED <<gen, task, sttTask, disconnected>> /\ main[g] = "stopping"
        /\ MainGoes(g, "stt")
    BY <1>3 DEF StopReturns, session, work
  <2>2. Fresh' /\ Order' /\ Made' /\ SessionTold' BY <2>1, MainStays DEF Left
  <2>3. Clean' BY <2>1, MainMoves DEF Inv, TypeInv, Clean, MainPlaces
  <2> QED BY <1>3, <2>2, <2>3, HandlerType DEF Inv, TypeInv
<1>4. CASE CancelStt(g)
  <2>1. /\ UNCHANGED <<gen, task, disconnected>> /\ main[g] = "stt"
        /\ sttTask' = [sttTask EXCEPT ![g] = "none"]
        /\ \/ MainGoes(g, "clear")
           \/ sttTask[g] = "failed" /\ MainGoes(g, "raised")
    BY <1>4 DEF CancelStt, session, work
  <2>2. PICK where \in {"clear", "raised"} :
           MainGoes(g, where) /\ (where = "raised" => sttTask[g] = "failed")
    BY <2>1
  <2>3. Fresh' /\ Order' /\ Made' /\ SessionTold' BY <2>1, <2>2, MainStays DEF Left
  <2>4. main'[g] = where /\ \A h \in Calls : h # g => main'[h] = main[h]
    BY <2>2, MainMoves DEF Inv, TypeInv, MainPlaces
  <2>5. \A h \in Calls : sttTask'[h] \in {"none", sttTask[h]}
    BY <2>1 DEF Inv, TypeInv, TypeOK
  <2>6. Clean' BY <2>2, <2>4, <2>5 DEF Inv, Clean
  <2> QED BY <1>4, <2>3, <2>6, HandlerType DEF Inv, TypeInv
<1>5. CASE FarEndCloses(g)
  <2>1. UNCHANGED <<gen, task, disconnected, main, sttTask>>
    BY <1>5 DEF FarEndCloses, session, work
  <2>2. Fresh' /\ Order' /\ Made' /\ SessionTold' /\ Clean'
    BY <2>1 DEF Inv, TypeInv, Fresh, Order, Made, SessionTold, Left, Clean
  <2> QED BY <1>5, <2>2, HandlerType DEF Inv, TypeInv
<1>6. CASE SttStarts(g)
  <2>1. /\ UNCHANGED <<gen, task, disconnected, main>>
        /\ \/ sttTask' = [sttTask EXCEPT ![g] = "started"]
           \/ SttMayFail /\ sttTask' = [sttTask EXCEPT ![g] = "failed"]
    BY <1>6 DEF SttStarts, session, work
  <2>2. Fresh' /\ Order' /\ Made' /\ SessionTold'
    BY <2>1 DEF Inv, TypeInv, Fresh, Order, Made, SessionTold, Left
  <2>3. Clean' BY <2>1 DEF Inv, TypeInv, TypeOK, Clean
  <2> QED BY <1>6, <2>2, <2>3, HandlerType DEF Inv, TypeInv
<1> QED BY <1>1, <1>2, <1>3, <1>4, <1>5, <1>6

LEMMA InvStep == Inv /\ [Next]_vars => Inv'
<1>. SUFFICES ASSUME Inv, [Next]_vars PROVE Inv' OBVIOUS
<1>1. CASE (\E k \in Sends : Put(k)) \/ RequestDisconnect \/ Reset BY <1>1, ConsumerStep
<1>2. ASSUME NEW g \in Calls,
             Accept(g) \/ StopEvent(g) \/ FarEndCloses(g) \/ SttStarts(g)
               \/ ReceiveRaises(g) \/ StopReturns(g) \/ CancelStt(g)
      PROVE  Inv'
  BY <1>2, HandlerKeeps
<1>3. ASSUME NEW g \in Calls, Start(g) PROVE Inv' BY <1>3, StartStep
<1>4. ASSUME NEW g \in Calls, NEW k \in Tasks, CancelTask(g, k) PROVE Inv' BY <1>4, CancelStep
<1>5. ASSUME NEW g \in Calls, NEW k \in Sends, SendStep(g, k) PROVE Inv' BY <1>5, SendKeeps
<1>6. ASSUME NEW g \in Calls, WatchStep(g) PROVE Inv' BY <1>6, WatchKeeps
<1>7. CASE UNCHANGED vars
  BY <1>7 DEF vars, session, handler, work, Inv, TypeInv, TypeOK, Fresh, Order, Made,
              SessionTold, Left, Clean
<1>8. CASE Next BY <1>1, <1>2, <1>3, <1>4, <1>5, <1>6, <1>8 DEF Next, MainStep
<1> QED BY <1>7, <1>8

-----------------------------------------------------------------------------
(* The theorems                                                            *)

LEMMA Invariance == Spec => []Inv
BY InvInit, InvStep, PTL DEF Spec

\* A task holds an item exactly while it writes, and whatever it holds was queued in a
\* call of the session (twilio_ws.py: send_audio, send_marks, send_clears).
THEOREM TypeCorrect == Spec => []TypeOK
<1>1. Inv => TypeOK BY DEF Inv, TypeInv
<1> QED BY <1>1, Invariance, PTL

\* However the receive loop of the current call ended, is_disconnected is TRUE by then,
\* with any number of calls and of tasks that outlived theirs.
THEOREM SessionIsTold == Spec => []SessionTold
<1>1. Inv => SessionTold BY DEF Inv
<1> QED BY <1>1, Invariance, PTL

\* A handler that returns has awaited the end of its four tasks.
THEOREM HandlersClean == Spec => []TasksEndFirst
<1>1. Order => TasksEndFirst BY DEF Order, OverAt, TasksEndFirst, Over
<1>2. Inv => TasksEndFirst BY <1>1 DEF Inv
<1> QED BY <1>2, Invariance, PTL

\* The leak that twilio_task_leak shows needs a start() that raises: without one no
\* task is left when the endpoint has returned or raised.
THEOREM NoLeakUnlessSttFails == ASSUME ~SttMayFail PROVE Spec => []NoTaskOutlives
<1>1. Inv => NoTaskOutlives
  <2>1. Order => TasksEndFirst BY DEF Order, OverAt, TasksEndFirst, Over
  <2>2. Inv => TasksEndFirst /\ \A g \in Calls : main[g] # "raised" BY <2>1 DEF Inv, Clean
  <2> QED BY <2>2 DEF TasksEndFirst, NoTaskOutlives
<1> QED BY <1>1, Invariance, PTL
=============================================================================
