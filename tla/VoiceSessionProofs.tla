------------------------- MODULE VoiceSessionProofs -------------------------
(* Proofs about VoiceSession, for any threads, names and bounds. *)
EXTENDS VoiceSession, TLAPS

(***************************************************************************)
(* Type correctness                                                        *)
(***************************************************************************)

LEMMA Bounds == MaxGen \in Nat /\ None \in Nat /\ 0 \in Gens /\ None \notin Gens
  BY GenAssumption DEF Gens, None

LEMMA TypeInit == Init => TypeOK
  <1> SUFFICES ASSUME Init PROVE TypeOK
    OBVIOUS
  <1> USE Bounds
  <1>1. FieldsOK
    BY DEF Init, FieldsOK
  <1>2. QueuesOK
    BY DEF Init, QueuesOK
  <1>3. LoopOK
    BY DEF Init, LoopOK, NoIter, Iter
  <1>4. ThreadsOK
    <2>1. pc \in [Threads -> SpeakPcs \cup HangPcs \cup ClearPcs]
      BY DEF Init, SpeakPcs
    <2>2. cmd \in [Threads -> Gens \cup {None}]
      BY DEF Init
    <2>3. name \in [Speakers -> Names \cup {NoName}] /\ evt \in [Speakers -> BOOLEAN]
      BY DEF Init
    <2>. QED BY <2>1, <2>2, <2>3 DEF Init, ThreadsOK
  <1>5. ResetOK
    BY DEF Init, ResetOK, NoIter, Iter
  <1>. QED BY <1>1, <1>2, <1>3, <1>4, <1>5 DEF TypeOK

\* A step that leaves a group's variables alone keeps the group typed.
LEMMA Frames ==
  ASSUME TypeOK
  PROVE  /\ UNCHANGED <<gen, loop, link, stt, pending>> => FieldsOK'
         /\ UNCHANGED <<queues, objects, tasks>> => QueuesOK'
         /\ UNCHANGED <<objects, sets, loopVars, network>> => LoopOK'
         /\ UNCHANGED threads => ThreadsOK'
         /\ UNCHANGED resetVars => ResetOK'
  BY DEF TypeOK, FieldsOK, QueuesOK, LoopOK, ThreadsOK, ResetOK, link, queues,
         objects, loopVars, network, threads, resetVars

LEMMA VisitType ==
  ASSUME TypeOK, NEW it \in Iter, NEW n \in Unseen(it)
  PROVE  /\ pending[n] \in Speakers /\ Visit(it, n) \in Iter
         /\ [evt EXCEPT ![pending[n]] = TRUE] \in [Speakers -> BOOLEAN]
  BY DEF TypeOK, FieldsOK, ThreadsOK, Unseen, Registered, Visit, Iter

LEMMA NewIterType == NewIter \in Iter /\ NoIter \in Iter
  BY DEF NewIter, NoIter, Iter, Registered

\* What the threads schedule are tasks.
LEMMA TaskTypes ==
  /\ \A g \in Gens \cup {None} : [q |-> "out", chunk |-> g] \in Task
  /\ \A g \in Gens : [q |-> "in", item |-> [end |-> FALSE, of |-> g]] \in Task
  /\ \A g \in Gens : [q |-> "in", item |-> [end |-> TRUE, of |-> g]] \in Task
  /\ \A n \in Names, t \in Speakers :
        [q |-> "mark", mark |-> [id |-> n, by |-> t]] \in Task
  /\ \A g \in Gens, h \in Gens \cup {None} :
        [q |-> "clear", to |-> g, sid |-> h] \in Task
  /\ \A g \in Gens : [q |-> "stop", stt |-> g] \in Task
  BY DEF Task, Item, Mark

LEMMA ScheduleType ==
  ASSUME tasks \in Seq(Task), NEW k \in Task, Schedule(k)
  PROVE  tasks' \in Seq(Task)
  BY DEF Schedule

LEMMA TaskFields ==
  ASSUME NEW k \in Task
  PROVE  /\ k.q = "in" => k.item \in Item
         /\ k.q = "out" => k.chunk \in Gens \cup {None}
         /\ k.q = "mark" => k.mark \in Mark
         /\ k.q = "clear" => k.to \in Gens /\ k.sid \in Gens \cup {None}
         /\ k.q = "stop" => k.stt \in Gens
  BY DEF Task

LEMMA TypeStep == TypeOK /\ [Next]_vars => TypeOK'
  <1> SUFFICES ASSUME TypeOK, [Next]_vars PROVE TypeOK'
    OBVIOUS
  <1> USE Bounds
  <1>1. ASSUME NEW t \in Speakers, Speak(t) PROVE TypeOK'
    <2>1. ThreadsOK'
      BY <1>1 DEF Speak, TypeOK, ThreadsOK, Goto, End, Threads, SpeakPcs,
           HangPcs, ClearPcs, FieldsOK, link
    <2>. QED
      BY <1>1, <2>1, Frames DEF Speak, TypeOK
  <1>2. ASSUME NEW t \in Speakers, Interrupted(t) PROVE TypeOK'
    <2>1. ThreadsOK'
      BY <1>2 DEF Interrupted, TypeOK, ThreadsOK, Goto, End, Threads, SpeakPcs,
           HangPcs, ClearPcs
    <2>. QED
      BY <1>2, <2>1, Frames DEF Interrupted, TypeOK
  <1>3. ASSUME NEW t \in Speakers, PutOutbound(t) PROVE TypeOK'
    <2>1. ThreadsOK'
      BY <1>3 DEF PutOutbound, TypeOK, ThreadsOK, Goto, End, Threads, SpeakPcs,
           HangPcs, ClearPcs
    <2>2. QueuesOK'
      BY <1>3, TaskTypes, ScheduleType DEF PutOutbound, TypeOK, QueuesOK,
           queues, objects, FieldsOK, ThreadsOK, Threads
    <2>. QED
      BY <1>3, <2>1, <2>2, Frames DEF PutOutbound, TypeOK
  <1>4. ASSUME NEW t \in Speakers, RegisterMark(t) PROVE TypeOK'
    <2>1. FieldsOK'
      BY <1>4 DEF RegisterMark, TypeOK, FieldsOK, link, FreshNames, Drawn
    <2>2. ThreadsOK'
      BY <1>4 DEF RegisterMark, TypeOK, ThreadsOK, Goto, End, Threads, SpeakPcs,
           HangPcs, ClearPcs, FreshNames, Drawn
    <2>3. QueuesOK'
      BY <1>4, TaskTypes, ScheduleType DEF RegisterMark, TypeOK, QueuesOK,
           queues, objects, FreshNames, Drawn, Mark, FieldsOK
    <2>. QED
      BY <1>4, <2>1, <2>2, <2>3, Frames DEF RegisterMark, TypeOK
  <1>5. ASSUME NEW t \in Speakers, NoLoopNoMark(t) PROVE TypeOK'
    <2>1. ThreadsOK'
      BY <1>5 DEF NoLoopNoMark, TypeOK, ThreadsOK, Goto, End, Threads, SpeakPcs,
           HangPcs, ClearPcs
    <2>. QED
      BY <1>5, <2>1, Frames DEF NoLoopNoMark, TypeOK
  <1>6. ASSUME NEW t \in Speakers, WaitReturns(t) PROVE TypeOK'
    <2>1. ThreadsOK'
      BY <1>6 DEF WaitReturns, TypeOK, ThreadsOK, Goto, End, Threads, SpeakPcs,
           HangPcs, ClearPcs
    <2>. QED
      BY <1>6, <2>1, Frames DEF WaitReturns, TypeOK
  <1>7. ASSUME NEW t \in Speakers, WaitExpires(t) PROVE TypeOK'
    <2>1. ThreadsOK'
      BY <1>7 DEF WaitExpires, TypeOK, ThreadsOK, Goto, End, Threads, SpeakPcs,
           HangPcs, ClearPcs
    <2>. QED
      BY <1>7, <2>1, Frames DEF WaitExpires, TypeOK
  <1>8. ASSUME NEW t \in Speakers, Leave(t) PROVE TypeOK'
    <2>1. FieldsOK'
      BY <1>8 DEF Leave, TypeOK, FieldsOK, link, Unregister
    <2>2. ThreadsOK'
      BY <1>8 DEF Leave, TypeOK, ThreadsOK, Goto, End, Threads, SpeakPcs,
           HangPcs, ClearPcs, Unregister
    <2>. QED
      BY <1>8, <2>1, <2>2, Frames DEF Leave, TypeOK
  <1>9. ASSUME NEW h \in Hangers, Arm(h) PROVE TypeOK'
    <2>1. ThreadsOK'
      BY <1>9 DEF Arm, TypeOK, ThreadsOK, Goto, End, Threads, SpeakPcs, HangPcs,
           ClearPcs, FieldsOK, link
    <2>. QED
      BY <1>9, <2>1, Frames DEF Arm, TypeOK
  <1>10. ASSUME NEW h \in Hangers, CheckGeneration(h) PROVE TypeOK'
    <2>1. ThreadsOK'
      BY <1>10 DEF CheckGeneration, TypeOK, ThreadsOK, Goto, End, Threads,
           SpeakPcs, HangPcs, ClearPcs, FieldsOK, link, MayDisconnect
    <2>. QED
      BY <1>10, <2>1, Frames DEF CheckGeneration, TypeOK
  <1>11. ASSUME NEW h \in Hangers, FireDisconnect(h) PROVE TypeOK'
    <2>1. ThreadsOK'
      BY <1>11 DEF FireDisconnect, TypeOK, ThreadsOK, Goto, End, Threads,
           SpeakPcs, HangPcs, ClearPcs
    <2>2. LoopOK'
      BY <1>11 DEF FireDisconnect, TypeOK, LoopOK, FieldsOK, link, objects,
           loopVars, network
    <2>. QED
      BY <1>11, <2>1, <2>2, Frames DEF FireDisconnect, TypeOK
  <1>12. ASSUME NEW c \in Clearers, CheckClear(c) PROVE TypeOK'
    <2>1. ThreadsOK'
      BY <1>12 DEF CheckClear, TypeOK, ThreadsOK, Goto, End, Threads, SpeakPcs,
           HangPcs, ClearPcs
    <2>. QED
      BY <1>12, <2>1, Frames DEF CheckClear, TypeOK
  <1>13. ASSUME NEW c \in Clearers, PutClear(c) PROVE TypeOK'
    <2>1. ThreadsOK'
      BY <1>13 DEF PutClear, TypeOK, ThreadsOK, Goto, End, Threads, SpeakPcs,
           HangPcs, ClearPcs
    <2>2. QueuesOK'
      BY <1>13, TaskTypes, ScheduleType DEF PutClear, TypeOK, QueuesOK, queues,
           objects, FieldsOK
    <2>. QED
      BY <1>13, <2>1, <2>2, Frames DEF PutClear, TypeOK
  <1>14. ASSUME RunTask PROVE TypeOK'
    <2>1. Head(tasks) \in Task /\ tasks' \in Seq(Task)
      BY <1>14 DEF RunTask, TypeOK, QueuesOK
    <2>2. QueuesOK'
      <3>1. CASE Head(tasks).q = "in"
        <4>1. Head(tasks).item \in Item
          BY <2>1, <3>1, TaskFields
        <4>2. inbound' = Append(inbound, Head(tasks).item) /\ UNCHANGED <<outbound, markQueue, objects>>
          BY <1>14, <3>1 DEF RunTask
        <4>. QED
          BY <2>1, <4>1, <4>2 DEF TypeOK, QueuesOK, objects
      <3>2. CASE Head(tasks).q = "out"
        <4>1. Head(tasks).chunk \in Gens \cup {None}
          BY <2>1, <3>2, TaskFields
        <4>2. outbound' = Append(outbound, Head(tasks).chunk) /\ UNCHANGED <<inbound, markQueue, objects>>
          BY <1>14, <3>2 DEF RunTask
        <4>. QED
          BY <2>1, <4>1, <4>2 DEF TypeOK, QueuesOK, objects
      <3>3. CASE Head(tasks).q = "mark"
        <4>1. Head(tasks).mark \in Mark
          BY <2>1, <3>3, TaskFields
        <4>2. markQueue' = Append(markQueue, Head(tasks).mark) /\ UNCHANGED <<inbound, outbound, objects>>
          BY <1>14, <3>3 DEF RunTask
        <4>. QED
          BY <2>1, <4>1, <4>2 DEF TypeOK, QueuesOK, objects
      <3>4. CASE Head(tasks).q = "clear"
        <4>1. Head(tasks).to \in Gens /\ Head(tasks).sid \in Gens \cup {None}
          BY <2>1, <3>4, TaskFields
        <4>2. /\ clears' = Append(clears, [to |-> Head(tasks).to, sid |-> Head(tasks).sid])
              /\ UNCHANGED queues
          BY <1>14, <3>4 DEF RunTask
        <4>. QED
          BY <2>1, <4>1, <4>2 DEF TypeOK, QueuesOK, queues
      <3>5. CASE Head(tasks).q = "stop"
        BY <1>14, <2>1, <3>5 DEF RunTask, TypeOK, QueuesOK, queues
      <3>. QED
        BY <1>14, <3>1, <3>2, <3>3, <3>4, <3>5 DEF RunTask
    <2>3. LoopOK'
      BY <1>14, <2>1, TaskFields DEF RunTask, TypeOK, LoopOK, objects, loopVars, network
    <2>. QED
      BY <1>14, <2>2, <2>3, Frames DEF RunTask, TypeOK
  <1>15. ASSUME RunSet PROVE TypeOK'
    <2>1. LoopOK'
      BY <1>15 DEF RunSet, TypeOK, LoopOK, loopVars, network
    <2>2. QueuesOK'
      BY <1>15 DEF RunSet, TypeOK, QueuesOK, queues, objects
    <2>. QED
      BY <1>15, <2>1, <2>2, Frames DEF RunSet, TypeOK
  <1>16. ASSUME SetLoop PROVE TypeOK'
    <2>1. FieldsOK'
      BY <1>16 DEF SetLoop, TypeOK, FieldsOK, link
    <2>. QED
      BY <1>16, <2>1, Frames DEF SetLoop, TypeOK
  <1>17. ASSUME Connect PROVE TypeOK'
    <2>1. FieldsOK'
      BY <1>17 DEF Connect, TypeOK, FieldsOK, link
    <2>2. QueuesOK'
      BY <1>17 DEF Connect, TypeOK, QueuesOK, queues, objects
    <2>3. LoopOK'
      BY <1>17 DEF Connect, TypeOK, LoopOK, FieldsOK, link, loopVars
    <2>. QED
      BY <1>17, <2>1, <2>2, <2>3, Frames DEF Connect, TypeOK
  <1>18. ASSUME Media PROVE TypeOK'
    <2>1. QueuesOK'
      BY <1>18, TaskTypes, ScheduleType DEF Media, TypeOK, QueuesOK, queues,
           objects, FieldsOK
    <2>. QED
      BY <1>18, <2>1, Frames DEF Media, TypeOK
  <1>19. ASSUME FeedStt PROVE TypeOK'
    <2>1. QueuesOK'
      BY <1>19 DEF FeedStt, TypeOK, QueuesOK, queues, objects
    <2>. QED
      BY <1>19, <2>1, Frames DEF FeedStt, TypeOK
  <1>20. ASSUME SendAudio PROVE TypeOK'
    <2>1. QueuesOK'
      BY <1>20 DEF SendAudio, TypeOK, QueuesOK, queues, objects
    <2>. QED
      BY <1>20, <2>1, Frames DEF SendAudio, TypeOK
  <1>21. ASSUME SendMark PROVE TypeOK'
    <2>1. QueuesOK'
      BY <1>21 DEF SendMark, TypeOK, QueuesOK, queues, objects
    <2>2. LoopOK'
      BY <1>21 DEF SendMark, TypeOK, LoopOK, QueuesOK, objects, loopVars
    <2>. QED
      BY <1>21, <2>1, <2>2, Frames DEF SendMark, TypeOK
  <1>22. ASSUME Echo PROVE TypeOK'
    <2>1. ThreadsOK'
      BY <1>22 DEF Echo, TypeOK, ThreadsOK, Goto, End, Threads, SpeakPcs,
           HangPcs, ClearPcs, Wake
    <2>2. LoopOK'
      BY <1>22 DEF Echo, TypeOK, LoopOK, objects, loopVars
    <2>. QED
      BY <1>22, <2>1, <2>2, Frames DEF Echo, TypeOK
  <1>23. ASSUME SignalDisconnected PROVE TypeOK'
    <2>1. FieldsOK'
      BY <1>23 DEF SignalDisconnected, TypeOK, FieldsOK
    <2>2. QueuesOK'
      BY <1>23, TaskTypes, ScheduleType DEF SignalDisconnected, TypeOK, FieldsOK, QueuesOK,
              queues, objects
    <2>3. LoopOK'
      BY <1>23, NewIterType DEF SignalDisconnected, TypeOK, LoopOK, objects
    <2>. QED
      BY <1>23, <2>1, <2>2, <2>3, Frames DEF SignalDisconnected, TypeOK
  <1>24. ASSUME NotifyNext PROVE TypeOK'
    <2>1. ThreadsOK'
      BY <1>24, VisitType DEF NotifyNext, TypeOK, ThreadsOK, LoopOK, Wake
    <2>2. LoopOK'
      BY <1>24, VisitType DEF NotifyNext, TypeOK, LoopOK, objects, network
    <2>. QED
      BY <1>24, <2>1, <2>2, Frames DEF NotifyNext, TypeOK
  <1>25. ASSUME NotifyDone PROVE TypeOK'
    <2>1. LoopOK'
      BY <1>25 DEF NotifyDone, TypeOK, LoopOK, FieldsOK, link, objects, network,
           NoIter, Iter
    <2>. QED
      BY <1>25, <2>1, Frames DEF NotifyDone, TypeOK
  <1>26. ASSUME NotifyFails PROVE TypeOK'
    <2>1. LoopOK'
      BY <1>26 DEF NotifyFails, TypeOK, LoopOK, objects, network, NoIter, Iter
    <2>. QED
      BY <1>26, <2>1, Frames DEF NotifyFails, TypeOK
  <1>27. ASSUME ResetBegin PROVE TypeOK'
    <2>1. FieldsOK'
      BY <1>27 DEF ResetBegin, TypeOK, FieldsOK, link, Gens
    <2>2. ResetOK'
      BY <1>27, NewIterType DEF ResetBegin, TypeOK, ResetOK
    <2>. QED
      BY <1>27, <2>1, <2>2, Frames DEF ResetBegin, TypeOK
  <1>28. ASSUME ResetWakeNext PROVE TypeOK'
    <2>1. ThreadsOK'
      BY <1>28, VisitType DEF ResetWakeNext, TypeOK, ThreadsOK, ResetOK, Wake
    <2>2. ResetOK'
      BY <1>28, VisitType DEF ResetWakeNext, TypeOK, ResetOK
    <2>. QED
      BY <1>28, <2>1, <2>2, Frames DEF ResetWakeNext, TypeOK
  <1>29. ASSUME ResetWakeDone PROVE TypeOK'
    <2>1. ResetOK'
      BY <1>29, NewIterType DEF ResetWakeDone, TypeOK, ResetOK
    <2>. QED
      BY <1>29, <2>1, Frames DEF ResetWakeDone, TypeOK
  <1>30. ASSUME ResetFails PROVE TypeOK'
    <2>1. ResetOK'
      BY <1>30, NewIterType DEF ResetFails, TypeOK, ResetOK
    <2>. QED
      BY <1>30, <2>1, Frames DEF ResetFails, TypeOK
  <1>31. ASSUME ResetClearMarks PROVE TypeOK'
    <2>1. FieldsOK'
      BY <1>31 DEF ResetClearMarks, TypeOK, FieldsOK, link
    <2>2. ResetOK'
      BY <1>31 DEF ResetClearMarks, TypeOK, ResetOK
    <2>. QED
      BY <1>31, <2>1, <2>2, Frames DEF ResetClearMarks, TypeOK
  <1>32. ASSUME ResetClearLink PROVE TypeOK'
    <2>1. FieldsOK'
      BY <1>32 DEF ResetClearLink, TypeOK, FieldsOK, link
    <2>2. ResetOK'
      BY <1>32 DEF ResetClearLink, TypeOK, ResetOK
    <2>. QED
      BY <1>32, <2>1, <2>2, Frames DEF ResetClearLink, TypeOK
  <1>33. ASSUME ResetClearIntent PROVE TypeOK'
    <2>1. FieldsOK'
      BY <1>33 DEF ResetClearIntent, TypeOK, FieldsOK, link
    <2>2. ResetOK'
      BY <1>33 DEF ResetClearIntent, TypeOK, ResetOK
    <2>. QED
      BY <1>33, <2>1, <2>2, Frames DEF ResetClearIntent, TypeOK
  <1>34. ASSUME ResetStopStt PROVE TypeOK'
    <2>1. FieldsOK'
      BY <1>34 DEF ResetStopStt, TypeOK, FieldsOK, link
    <2>2. QueuesOK'
      BY <1>34, TaskTypes, ScheduleType DEF ResetStopStt, TypeOK, QueuesOK,
           queues, objects, FieldsOK, link, MustStop
    <2>3. ResetOK'
      BY <1>34 DEF ResetStopStt, TypeOK, ResetOK
    <2>. QED
      BY <1>34, <2>1, <2>2, <2>3, Frames DEF ResetStopStt, TypeOK
  <1>35. ASSUME ResetDrainInbound PROVE TypeOK'
    <2>1. QueuesOK'
      BY <1>35 DEF ResetDrainInbound, TypeOK, QueuesOK, queues, objects
    <2>2. ResetOK'
      BY <1>35 DEF ResetDrainInbound, TypeOK, ResetOK
    <2>. QED
      BY <1>35, <2>1, <2>2, Frames DEF ResetDrainInbound, TypeOK
  <1>36. ASSUME ResetDrainOutbound PROVE TypeOK'
    <2>1. QueuesOK'
      BY <1>36 DEF ResetDrainOutbound, TypeOK, QueuesOK, queues, objects
    <2>2. LoopOK'
      BY <1>36 DEF ResetDrainOutbound, TypeOK, LoopOK, objects, loopVars
    <2>3. ResetOK'
      BY <1>36 DEF ResetDrainOutbound, TypeOK, ResetOK
    <2>. QED
      BY <1>36, <2>1, <2>2, <2>3, Frames DEF ResetDrainOutbound, TypeOK
  <1>37. CASE UNCHANGED vars
    BY <1>37, Frames DEF vars, TypeOK, threads
  <1>. QED
    BY <1>1, <1>2, <1>3, <1>4, <1>5, <1>6, <1>7, <1>8, <1>9, <1>10, <1>11, <1>12,
       <1>13, <1>14, <1>15, <1>16, <1>17, <1>18, <1>19, <1>20, <1>21, <1>22,
       <1>23, <1>24, <1>25, <1>26, <1>27, <1>28, <1>29, <1>30, <1>31, <1>32,
       <1>33, <1>34, <1>35, <1>36, <1>37
       DEF Next, SpeakerStep, HangerStep, NotifyStep, ResetStep, RemoteHangup,
           HangupAgain, RequestedClose

\* Every field of the session, queue, thread and handler keeps its type.
THEOREM TypeCorrect == Spec => []TypeOK
  <1>. QED BY TypeInit, TypeStep, PTL DEF Spec

(***************************************************************************)
(* Marks: who owns a name.  The invariant is PendingOwned, the dict seen   *)
(* from the threads, and FlyingOwned, the dict seen from the marks on      *)
(* their way; MarkSeparation needs both, because an echo finds its waiter  *)
(* through the dict.                                                       *)
(***************************************************************************)

MarkInv == TypeOK /\ PendingOwned /\ FlyingOwned

LEMMA MarkInit == Init => PendingOwned /\ FlyingOwned
  BY DEF Init, PendingOwned, FlyingOwned, Flying

LEMMA PendingFrame ==
  ASSUME TypeOK, PendingOwned, UNCHANGED name,
         \A n \in Names : pending'[n] \in {pending[n], Nobody},
         \A t \in Speakers : pc[t] \in {"wait", "leave"} => pc'[t] \in {"wait", "leave"}
  PROVE  PendingOwned'
  BY DEF TypeOK, FieldsOK, PendingOwned

LEMMA PendingStep == TypeOK /\ PendingOwned /\ [Next]_vars => PendingOwned'
  <1> SUFFICES ASSUME TypeOK, PendingOwned, [Next]_vars PROVE PendingOwned'
    OBVIOUS
  <1>1. ASSUME NEW t \in Speakers, RegisterMark(t) PROVE PendingOwned'
    BY <1>1 DEF RegisterMark, PendingOwned, TypeOK, FieldsOK, ThreadsOK, Threads, Goto,
         FreshNames, Drawn
  <1>2. ASSUME NEW t \in Speakers, Leave(t) PROVE PendingOwned'
    BY <1>2, ThreadAssumption DEF Leave, Unregister, PendingOwned, TypeOK, FieldsOK,
         ThreadsOK, Threads, Goto, End
  <1>3. ASSUME NEW t \in Speakers,
               \/ Speak(t) \/ Interrupted(t) \/ PutOutbound(t) \/ NoLoopNoMark(t)
               \/ WaitReturns(t) \/ WaitExpires(t)
        PROVE  PendingOwned'
    <2>1. \A u \in Speakers : pc[u] \in {"wait", "leave"} => pc'[u] \in {"wait", "leave"}
      BY <1>3 DEF Speak, Interrupted, PutOutbound, NoLoopNoMark, WaitReturns, WaitExpires,
           TypeOK, ThreadsOK, Threads, Goto, End
    <2>2. UNCHANGED <<pending, name>>
      BY <1>3 DEF Speak, Interrupted, PutOutbound, NoLoopNoMark, WaitReturns, WaitExpires
    <2>. QED BY <2>1, <2>2, PendingFrame
  <1>4. ASSUME NEW h \in Hangers, Arm(h) \/ HangerStep(h) PROVE PendingOwned'
    <2>1. \A u \in Speakers : pc'[u] = pc[u]
      BY <1>4, RoleAssumption DEF Arm, HangerStep, CheckGeneration, FireDisconnect, TypeOK,
           ThreadsOK, Threads, Goto, End
    <2>2. UNCHANGED <<pending, name>>
      BY <1>4 DEF Arm, HangerStep, CheckGeneration, FireDisconnect
    <2>. QED BY <2>1, <2>2, PendingFrame
  <1>5. ASSUME NEW c \in Clearers, CheckClear(c) \/ PutClear(c) PROVE PendingOwned'
    <2>1. \A u \in Speakers : pc'[u] = pc[u]
      BY <1>5, RoleAssumption DEF CheckClear, PutClear, TypeOK, ThreadsOK, Threads, Goto, End
    <2>2. UNCHANGED <<pending, name>>
      BY <1>5 DEF CheckClear, PutClear
    <2>. QED BY <2>1, <2>2, PendingFrame
  <1>6. ASSUME \/ RunTask \/ RunSet \/ SetLoop \/ Connect \/ Media \/ FeedStt
               \/ SendAudio \/ SendMark
        PROVE  PendingOwned'
    <2>1. UNCHANGED <<pending, pc, name>>
      BY <1>6 DEF RunTask, RunSet, SetLoop, Connect, Media, FeedStt, SendAudio, SendMark,
           threads
    <2>. QED BY <2>1, PendingFrame
  <1>7. ASSUME Echo \/ SignalDisconnected \/ NotifyStep PROVE PendingOwned'
    <2>1. UNCHANGED <<pending, pc, name>>
      BY <1>7 DEF Echo, SignalDisconnected, NotifyStep, NotifyNext, NotifyDone,
           NotifyFails, threads
    <2>. QED BY <2>1, PendingFrame
  <1>8. ASSUME ResetBegin \/ ResetStep PROVE PendingOwned'
    <2>1. UNCHANGED <<pc, name>>
      BY <1>8 DEF ResetBegin, ResetStep, ResetWakeNext, ResetWakeDone, ResetFails,
           ResetClearMarks, ResetClearLink, ResetClearIntent, ResetStopStt,
           ResetDrainInbound, ResetDrainOutbound, threads
    <2>2. \A n \in Names : pending'[n] \in {pending[n], Nobody}
      BY <1>8 DEF ResetBegin, ResetStep, ResetWakeNext, ResetWakeDone, ResetFails,
           ResetClearMarks, ResetClearLink, ResetClearIntent, ResetStopStt,
           ResetDrainInbound, ResetDrainOutbound
    <2>. QED BY <2>1, <2>2, PendingFrame
  <1>9. CASE UNCHANGED vars
    BY <1>9, PendingFrame DEF vars, threads
  <1>. QED
    BY <1>1, <1>2, <1>3, <1>4, <1>5, <1>6, <1>7, <1>8, <1>9
       DEF Next, SpeakerStep, RemoteHangup, HangupAgain, RequestedClose

\* No entry of _pending_marks outlives or precedes its wait.
THEOREM PendingIsOwned == Spec => []PendingOwned
  BY TypeInit, TypeStep, MarkInit, PendingStep, PTL DEF Spec

\* Marks in the tasks, by what appending, running and keeping a task does to them.
TaskMarks == {tasks[i].mark : i \in {j \in 1..Len(tasks) : tasks[j].q = "mark"}}
QueueMarks == {markQueue[i] : i \in 1..Len(markQueue)}

LEMMA FlyingParts == Flying = wire \cup QueueMarks \cup TaskMarks
  BY DEF Flying, QueueMarks, TaskMarks

LEMMA FlyingTyped == TypeOK => Flying \subseteq Mark
  <1> SUFFICES ASSUME TypeOK PROVE Flying \subseteq Mark
    OBVIOUS
  <1>1. wire \subseteq Mark
    BY DEF TypeOK, LoopOK
  <1>2. QueueMarks \subseteq Mark
    BY DEF TypeOK, QueuesOK, QueueMarks
  <1>3. TaskMarks \subseteq Mark
    <2>1. \A i \in 1..Len(tasks) : tasks[i] \in Task
      BY DEF TypeOK, QueuesOK
    <2>. QED BY <2>1, TaskFields DEF TaskMarks
  <1>. QED BY <1>1, <1>2, <1>3, FlyingParts

LEMMA ScheduleMarks ==
  ASSUME TypeOK, NEW k \in Task, Schedule(k)
  PROVE  /\ k.q # "mark" => TaskMarks' \subseteq TaskMarks
         /\ k.q = "mark" => TaskMarks' \subseteq TaskMarks \cup {k.mark}
  <1>1. /\ Len(tasks') = Len(tasks) + 1 /\ tasks'[Len(tasks) + 1] = k
        /\ \A i \in 1..Len(tasks) : tasks'[i] = tasks[i]
    BY DEF Schedule, TypeOK, QueuesOK
  <1>2. Len(tasks) \in Nat
    BY DEF TypeOK, QueuesOK
  <1>3. \A i \in 1..Len(tasks') : i \in 1..Len(tasks) \/ i = Len(tasks) + 1
    BY <1>1, <1>2
  <1>. QED BY <1>1, <1>3 DEF TaskMarks

LEMMA RunTaskMarks ==
  ASSUME TypeOK, RunTask
  PROVE  TaskMarks' \cup QueueMarks' \subseteq TaskMarks \cup QueueMarks
  <1>1. /\ tasks # <<>> /\ Len(tasks) \in Nat \ {0} /\ Len(tasks') = Len(tasks) - 1
        /\ \A i \in 1..Len(tasks') : tasks'[i] = tasks[i + 1]
        /\ Head(tasks) = tasks[1]
    BY DEF RunTask, TypeOK, QueuesOK
  <1>2. TaskMarks' \subseteq TaskMarks
    <2> SUFFICES ASSUME NEW i \in 1..Len(tasks'), tasks'[i].q = "mark"
                 PROVE  tasks'[i].mark \in TaskMarks
      BY DEF TaskMarks
    <2>1. i + 1 \in 1..Len(tasks) /\ tasks'[i] = tasks[i + 1]
      BY <1>1
    <2>. QED BY <2>1 DEF TaskMarks
  <1>3. CASE Head(tasks).q = "mark"
    <2>1. markQueue' = Append(markQueue, Head(tasks).mark)
      BY <1>3 DEF RunTask
    <2>2. /\ Len(markQueue) \in Nat /\ Len(markQueue') = Len(markQueue) + 1
          /\ markQueue'[Len(markQueue) + 1] = Head(tasks).mark
          /\ \A i \in 1..Len(markQueue) : markQueue'[i] = markQueue[i]
      BY <2>1 DEF TypeOK, QueuesOK
    <2>3. \A i \in 1..Len(markQueue') : i \in 1..Len(markQueue) \/ i = Len(markQueue) + 1
      BY <2>2
    <2>4. Head(tasks).mark \in TaskMarks
      BY <1>1, <1>3 DEF TaskMarks
    <2>. QED BY <1>2, <2>2, <2>3, <2>4 DEF QueueMarks
  <1>4. CASE Head(tasks).q # "mark"
    <2>1. markQueue' = markQueue
      BY <1>4 DEF RunTask, queues
    <2>. QED BY <1>2, <2>1 DEF QueueMarks
  <1>. QED BY <1>3, <1>4

LEMMA SendMarkMarks ==
  ASSUME TypeOK, SendMark
  PROVE  /\ QueueMarks' \subseteq QueueMarks /\ TaskMarks' = TaskMarks
         /\ wire' \subseteq wire \cup QueueMarks
  <1>1. /\ Len(markQueue) \in Nat \ {0} /\ Len(markQueue') = Len(markQueue) - 1
        /\ \A i \in 1..Len(markQueue') : markQueue'[i] = markQueue[i + 1]
        /\ Head(markQueue) = markQueue[1]
    BY DEF SendMark, TypeOK, QueuesOK
  <1>2. QueueMarks' \subseteq QueueMarks
    <2> SUFFICES ASSUME NEW i \in 1..Len(markQueue') PROVE markQueue'[i] \in QueueMarks
      BY DEF QueueMarks
    <2>1. i + 1 \in 1..Len(markQueue) /\ markQueue'[i] = markQueue[i + 1]
      BY <1>1
    <2>. QED BY <2>1 DEF QueueMarks
  <1>3. wire' \subseteq wire \cup QueueMarks
    BY <1>1 DEF SendMark, QueueMarks
  <1>4. TaskMarks' = TaskMarks
    BY DEF SendMark, TaskMarks
  <1>. QED BY <1>2, <1>3, <1>4

\* Enough that no mark appears and no name changes hands.
LEMMA FlyingFrame ==
  ASSUME TypeOK, FlyingOwned, Flying' \subseteq Flying,
         \A n \in Names : pending'[n] \in {pending[n], Nobody}
  PROVE  FlyingOwned'
  <1> SUFFICES ASSUME NEW m \in Flying', pending'[m.id] # Nobody
               PROVE  pending'[m.id] = m.by
    BY DEF FlyingOwned
  <1>1. m \in Mark
    BY FlyingTyped
  <1>. QED BY <1>1 DEF FlyingOwned, Mark

\* What a step that registers nothing does to the marks on their way: it runs a task,
\* sends a mark, or leaves the marks where they are, those apart that a lost
\* connection drops; then it may schedule something that is no mark.
Keeps     == UNCHANGED <<markQueue, tasks>> /\ wire' \subseteq wire
Schedules == \E k \in Task : /\ k.q # "mark" /\ Schedule(k)
                             /\ UNCHANGED markQueue /\ wire' \subseteq wire

LEMMA StepKinds ==
  ASSUME TypeOK, [Next]_vars, \A t \in Speakers : ~RegisterMark(t)
  PROVE  RunTask \/ SendMark \/ Keeps \/ Schedules
  <1> USE DEF Keeps, Schedules
  <1>1. ASSUME NEW t \in Speakers, PutOutbound(t) PROVE Keeps \/ Schedules
    <2>1. CASE loop
      <3>1. [q |-> "out", chunk |-> cmd[t]] \in Task
        BY TaskTypes DEF TypeOK, ThreadsOK, Threads
      <3>. QED BY <1>1, <2>1, <3>1 DEF PutOutbound, queues, network
    <2>. QED BY <1>1, <2>1 DEF PutOutbound, queues, network
  <1>2. ASSUME NEW c \in Clearers, PutClear(c) PROVE Keeps \/ Schedules
    <2>1. CASE intent # None
      <3>1. [q |-> "clear", to |-> intent, sid |-> streamSid] \in Task
        BY <2>1, TaskTypes DEF TypeOK, FieldsOK
      <3>. QED BY <1>2, <2>1, <3>1 DEF PutClear, queues, network
    <2>. QED BY <1>2, <2>1 DEF PutClear, queues, network
  <1>3. CASE Media
    <2>1. [q |-> "in", item |-> [end |-> FALSE, of |-> gen]] \in Task
      BY TaskTypes DEF TypeOK, FieldsOK
    <2>. QED BY <1>3, <2>1 DEF Media, queues, network
  <1>4. CASE SignalDisconnected
    <2>1. [q |-> "in", item |-> [end |-> TRUE, of |-> gen]] \in Task
      BY TaskTypes DEF TypeOK, FieldsOK
    <2>2. CASE FirstReport /\ loop
      BY <1>4, <2>1, <2>2 DEF SignalDisconnected, queues
    <2>. QED BY <1>4, <2>2 DEF SignalDisconnected, queues
  <1>5. CASE ResetStopStt
    <2>1. CASE MustStop
      <3>1. [q |-> "stop", stt |-> stt] \in Task
        BY <2>1, TaskTypes DEF TypeOK, FieldsOK, MustStop
      <3>. QED BY <1>5, <2>1, <3>1 DEF ResetStopStt, queues, network
    <2>. QED BY <1>5, <2>1 DEF ResetStopStt, queues, network
  <1>6. ASSUME NEW t \in Speakers,
                \/ Speak(t) \/ Interrupted(t) \/ NoLoopNoMark(t) \/ WaitReturns(t)
                \/ WaitExpires(t) \/ Leave(t)
         PROVE  Keeps \/ Schedules
    BY <1>6 DEF Speak, Interrupted, NoLoopNoMark, WaitReturns, WaitExpires, Leave,
         queues, network
  <1>7. ASSUME NEW h \in Hangers, Arm(h) \/ HangerStep(h) PROVE Keeps \/ Schedules
    BY <1>7 DEF Arm, HangerStep, CheckGeneration, FireDisconnect, queues, network
  <1>8. ASSUME NEW c \in Clearers, CheckClear(c) PROVE Keeps \/ Schedules
    BY <1>8 DEF CheckClear, queues, network
  <1>9. CASE RunSet \/ SetLoop \/ Connect \/ FeedStt \/ SendAudio \/ Echo
    BY <1>9 DEF RunSet, SetLoop, Connect, FeedStt, SendAudio, Echo, queues, network
  <1>10. CASE NotifyStep \/ ResetBegin
    BY <1>10 DEF NotifyStep, NotifyNext, NotifyDone, NotifyFails, ResetBegin, queues,
         network
  <1>11. CASE ResetStep /\ ~ResetStopStt
    BY <1>11 DEF ResetStep, ResetWakeNext, ResetWakeDone, ResetFails,
         ResetClearMarks, ResetClearLink, ResetClearIntent, ResetDrainInbound,
         ResetDrainOutbound, queues, network
  <1>12. CASE UNCHANGED vars
    BY <1>12 DEF vars, queues, network
  <1>. QED
    BY <1>1, <1>2, <1>3, <1>4, <1>5, <1>6, <1>7, <1>8, <1>9, <1>10, <1>11, <1>12
       DEF Next, SpeakerStep, RemoteHangup, HangupAgain, RequestedClose

\* Every step but a registration.
LEMMA FlyingShrinks ==
  ASSUME TypeOK, [Next]_vars, \A t \in Speakers : ~RegisterMark(t)
  PROVE  Flying' \subseteq Flying
  <1>0. Flying' = wire' \cup QueueMarks' \cup TaskMarks'
    BY DEF Flying, QueueMarks, TaskMarks
  <1>1. CASE RunTask
    BY <1>0, <1>1, RunTaskMarks, FlyingParts DEF RunTask, network
  <1>2. CASE SendMark
    BY <1>0, <1>2, SendMarkMarks, FlyingParts
  <1>3. CASE Keeps
    BY <1>3 DEF Keeps, Flying
  <1>4. CASE Schedules
    BY <1>0, <1>4, ScheduleMarks, FlyingParts DEF Schedules, QueueMarks
  <1>. QED BY <1>1, <1>2, <1>3, <1>4, StepKinds

LEMMA PendingShrinks ==
  ASSUME [Next]_vars, TypeOK, \A t \in Speakers : ~RegisterMark(t)
  PROVE  \A n \in Names : pending'[n] \in {pending[n], Nobody}
  <1>1. ASSUME NEW t \in Speakers, Leave(t)
        PROVE  \A n \in Names : pending'[n] \in {pending[n], Nobody}
    BY <1>1 DEF Leave, Unregister, TypeOK, FieldsOK
  <1>2. CASE ResetClearMarks
    BY <1>2 DEF ResetClearMarks
  <1>3. CASE UNCHANGED pending
    BY <1>3
  <1>. QED
    BY <1>1, <1>2, <1>3
       DEF Next, vars, SpeakerStep, HangerStep, NotifyStep, ResetStep, Speak, Interrupted,
           PutOutbound, NoLoopNoMark, WaitReturns, WaitExpires, Arm, CheckGeneration,
           FireDisconnect, CheckClear, PutClear, RunTask, RunSet, SetLoop, Connect, Media,
           FeedStt, SendAudio, SendMark, Echo, RemoteHangup, HangupAgain, RequestedClose,
           SignalDisconnected, NotifyNext, NotifyDone, NotifyFails, ResetBegin,
           ResetWakeNext, ResetWakeDone, ResetFails, ResetClearLink, ResetClearIntent,
           ResetStopStt, ResetDrainInbound, ResetDrainOutbound

LEMMA FlyingStep == MarkInv /\ [Next]_vars => FlyingOwned'
  <1> SUFFICES ASSUME MarkInv, [Next]_vars PROVE FlyingOwned'
    OBVIOUS
  <1>1. ASSUME NEW t \in Speakers, RegisterMark(t) PROVE FlyingOwned'
    <2>1. PICK n \in FreshNames :
            /\ pending' = [pending EXCEPT ![n] = t]
            /\ Schedule([q |-> "mark", mark |-> [id |-> n, by |-> t]])
      BY <1>1 DEF RegisterMark
    <2>2. n \in Names /\ n \notin InFlight
      BY DEF FreshNames, Drawn
    <2>3. Flying' \subseteq Flying \cup {[id |-> n, by |-> t]}
      <3>1. [q |-> "mark", mark |-> [id |-> n, by |-> t]] \in Task
        BY <2>2, TaskTypes
      <3>2. UNCHANGED <<markQueue, wire>>
        BY <1>1 DEF RegisterMark, queues, network
      <3>3. Flying' = wire' \cup QueueMarks' \cup TaskMarks'
        BY DEF Flying, QueueMarks, TaskMarks
      <3>. QED BY <2>1, <3>1, <3>2, <3>3, ScheduleMarks, FlyingParts DEF MarkInv, QueueMarks
    <2> SUFFICES ASSUME NEW m \in Flying', pending'[m.id] # Nobody
                 PROVE  pending'[m.id] = m.by
      BY DEF FlyingOwned
    <2>4. CASE m \in Flying
      <3>1. m.id # n /\ m.id \in Names
        BY <2>2, <2>4, FlyingTyped DEF InFlight, MarkInv, Mark
      <3>. QED BY <2>1, <2>4, <3>1 DEF FlyingOwned, MarkInv, TypeOK, FieldsOK
    <2>5. CASE m = [id |-> n, by |-> t]
      BY <2>1, <2>2, <2>5 DEF MarkInv, TypeOK, FieldsOK
    <2>. QED BY <2>3, <2>4, <2>5
  <1>2. CASE \A t \in Speakers : ~RegisterMark(t)
    BY <1>2, FlyingShrinks, PendingShrinks, FlyingFrame DEF MarkInv
  <1>. QED BY <1>1, <1>2

LEMMA MarkInvariant == Spec => []MarkInv
  <1>1. Init => MarkInv
    BY TypeInit, MarkInit DEF MarkInv
  <1>2. MarkInv /\ [Next]_vars => MarkInv'
    BY TypeStep, PendingStep, FlyingStep DEF MarkInv
  <1>. QED BY <1>1, <1>2, PTL DEF Spec

\* A mark that is still on its way cannot find somebody else's wait.
THEOREM FlyingMarksOwned == Spec => []FlyingOwned
  BY MarkInvariant, PTL DEF MarkInv

\* The wake-up of a wait, step by step.
LEMMA SeparationStep ==
  ASSUME MarkInv, [Next]_vars, NEW t \in Speakers, ~evt[t], evt'[t]
  PROVE  Waking \/ [id |-> name[t], by |-> t] \in wire \ wire'
  <1>1. CASE NotifyNext \/ ResetWakeNext
    BY <1>1 DEF NotifyNext, ResetWakeNext, Waking
  <1>2. CASE Echo
    <2>1. PICK m \in wire : wire' = wire \ {m} /\ pending[m.id] \in Speakers
                            /\ evt' = [evt EXCEPT ![pending[m.id]] = TRUE]
      BY <1>2 DEF Echo, Wake
    <2>2. pending[m.id] = t
      BY <2>1 DEF MarkInv, TypeOK, ThreadsOK
    <2>3. m \in Mark /\ m \in Flying
      BY <2>1 DEF MarkInv, TypeOK, LoopOK, Flying
    <2>4. m.by = t /\ m.id = name[t]
      BY <2>2, <2>3, ThreadAssumption DEF MarkInv, FlyingOwned, PendingOwned, Mark, Threads
    <2>5. m = [id |-> name[t], by |-> t]
      BY <2>3, <2>4 DEF Mark
    <2>. QED BY <2>1, <2>5
  <1>3. ASSUME NEW u \in Speakers, RegisterMark(u) \/ Leave(u) PROVE FALSE
    BY <1>3 DEF RegisterMark, Leave, Unregister, MarkInv, TypeOK, ThreadsOK
  <1>4. CASE UNCHANGED evt
    BY <1>4
  <1>. QED
    BY <1>1, <1>2, <1>3, <1>4
       DEF Next, vars, threads, SpeakerStep, HangerStep, NotifyStep, ResetStep, Speak,
           Interrupted, PutOutbound, NoLoopNoMark, WaitReturns, WaitExpires, Arm,
           CheckGeneration, FireDisconnect, CheckClear, PutClear, RunTask, RunSet, SetLoop,
           Connect, Media, FeedStt, SendAudio, SendMark, RemoteHangup, HangupAgain,
           RequestedClose, SignalDisconnected, NotifyDone, NotifyFails, ResetBegin,
           ResetWakeDone, ResetFails, ResetClearMarks, ResetClearLink, ResetClearIntent,
           ResetStopStt, ResetDrainInbound, ResetDrainOutbound

\* NC-236 for any number of threads, names and resets: a wait is released by the
\* echo of its own mark, or because the call ends.
THEOREM MarksSeparated == Spec => MarkSeparation
  <1>1. MarkInv /\ [Next]_vars =>
          [\A t \in Speakers : ~evt[t] /\ evt'[t] =>
             \/ Waking
             \/ [id |-> name[t], by |-> t] \in wire \ wire']_vars
    BY SeparationStep
  <1>. QED BY <1>1, MarkInvariant, PTL DEF Spec, MarkSeparation

(***************************************************************************)
(* The loops over the dict: who has been visited and is registered is      *)
(* awake, so a loop that ends has woken everybody.                         *)
(***************************************************************************)

WokenInv == loopPc = "notify" =>
               \A n \in loopIt.seen : n \in Names /\ (pending[n] # Nobody => evt[pending[n]])

LEMMA WokenStep == MarkInv /\ WokenInv /\ [Next]_vars => WokenInv'
  <1> SUFFICES ASSUME MarkInv, WokenInv, [Next]_vars PROVE WokenInv'
    OBVIOUS
  <1> USE DEF WokenInv
  <1>0. TypeOK /\ PendingOwned
    BY DEF MarkInv
  <1>1. ASSUME NEW t \in Speakers, RegisterMark(t) PROVE WokenInv'
    <2>1. PICK n \in FreshNames : pending' = [pending EXCEPT ![n] = t]
      BY <1>1 DEF RegisterMark
    <2>2. n \in Names /\ n \notin loopIt.seen
      BY DEF FreshNames, Drawn, Visited
    <2>3. \A k \in Names : pending[k] # Nobody => pending[k] # t
      BY <1>0, <1>1 DEF RegisterMark, PendingOwned
    <2>. QED
      BY <1>0, <1>1, <2>1, <2>2, <2>3
         DEF RegisterMark, TypeOK, FieldsOK, ThreadsOK, loopVars
  <1>2. ASSUME NEW t \in Speakers, Leave(t) PROVE WokenInv'
    <2>1. /\ pending' = [pending EXCEPT ![name[t]] = Nobody]
          /\ evt' = [evt EXCEPT ![t] = FALSE] /\ UNCHANGED loopVars
      BY <1>2 DEF Leave, Unregister
    <2>2. \A k \in Names : pending[k] = t => k = name[t]
      BY <1>0, ThreadAssumption DEF PendingOwned, Threads
    <2>. QED
      BY <1>0, <2>1, <2>2, ThreadAssumption DEF TypeOK, FieldsOK, ThreadsOK, loopVars
  <1>3. CASE Echo
    BY <1>0, <1>3 DEF Echo, Wake, TypeOK, FieldsOK, ThreadsOK, loopVars
  <1>4. CASE NotifyNext
    <2>1. PICK n \in Unseen(loopIt) : /\ evt' = [evt EXCEPT ![pending[n]] = TRUE]
                                      /\ loopIt' = Visit(loopIt, n)
      BY <1>4 DEF NotifyNext, Wake
    <2>2. n \in Names /\ loopIt'.seen = loopIt.seen \cup {n}
      BY <1>0, <2>1 DEF Unseen, Registered, Visit, TypeOK, LoopOK, Iter
    <2>. QED
      BY <1>0, <1>4, <2>1, <2>2 DEF NotifyNext, TypeOK, FieldsOK, ThreadsOK
  <1>5. CASE NotifyDone \/ NotifyFails
    BY <1>5 DEF NotifyDone, NotifyFails
  <1>6. CASE SignalDisconnected
    BY <1>6 DEF SignalDisconnected, NewIter, threads
  <1>7. CASE ResetWakeNext
    BY <1>0, <1>7 DEF ResetWakeNext, Wake, TypeOK, FieldsOK, ThreadsOK, loopVars
  <1>8. CASE ResetClearMarks
    BY <1>8 DEF ResetClearMarks, loopVars
  <1>9. CASE UNCHANGED <<loopPc, loopIt, pending, evt>>
    BY <1>9
  <1>. QED
    BY <1>1, <1>2, <1>3, <1>4, <1>5, <1>6, <1>7, <1>8, <1>9
       DEF Next, vars, threads, loopVars, SpeakerStep, HangerStep, NotifyStep, ResetStep, Speak,
           Interrupted, PutOutbound, NoLoopNoMark, WaitReturns, WaitExpires, Arm,
           CheckGeneration, FireDisconnect, CheckClear, PutClear, RunTask, RunSet, SetLoop,
           Connect, Media, FeedStt, SendAudio, SendMark, RemoteHangup, HangupAgain,
           RequestedClose, ResetBegin, ResetWakeDone, ResetFails, ResetClearLink,
           ResetClearIntent, ResetStopStt, ResetDrainInbound, ResetDrainOutbound

LEMMA NotifiedBy == ASSUME [Next]_vars PROVE NotifyDone \/ UNCHANGED notified
  BY DEF Next, vars, loopVars, SpeakerStep, HangerStep, NotifyStep, ResetStep, Speak,
         Interrupted, PutOutbound, RegisterMark, NoLoopNoMark, WaitReturns, WaitExpires, Leave,
         Arm, CheckGeneration, FireDisconnect, CheckClear, PutClear, RunTask, RunSet, SetLoop,
         Connect, Media, FeedStt, SendAudio, SendMark, Echo, RemoteHangup, HangupAgain,
         RequestedClose, SignalDisconnected, NotifyNext, NotifyFails, ResetBegin, ResetWakeNext,
         ResetWakeDone, ResetFails, ResetClearMarks, ResetClearLink, ResetClearIntent,
         ResetStopStt, ResetDrainInbound, ResetDrainOutbound

\* Whoever registers or leaves during signal_disconnected's loop, and with reset() anywhere:
\* when the callback is reached, every registered wait is awake.
THEOREM CallbackFindsAllAwake == Spec => CleanNotifyWakesAll
  <1>1. Init => WokenInv
    BY DEF Init, WokenInv
  <1>2. WokenInv /\ [Next]_vars =>
          [\A n \in Names : notified' # notified /\ pending[n] # Nobody => evt[pending[n]]]_vars
    <2> SUFFICES ASSUME WokenInv, [Next]_vars, NEW n \in Names, notified' # notified,
                        pending[n] # Nobody
                 PROVE  evt[pending[n]]
      OBVIOUS
    <2>1. loopPc = "notify" /\ Unseen(loopIt) = {}
      BY NotifiedBy DEF NotifyDone, Finished
    <2>. QED BY <2>1 DEF WokenInv, Unseen, Registered
  <1>. QED BY <1>1, <1>2, WokenStep, MarkInvariant, PTL DEF Spec, CleanNotifyWakesAll

(***************************************************************************)
(* The provider that transcribes                                           *)
(***************************************************************************)

OrphanInv == NoOrphanStt /\ (stt # None => loop)

LEMMA TasksStep ==
  ASSUME TypeOK, [Next]_vars
  PROVE  RunTask \/ UNCHANGED tasks \/ \E k \in Task : Schedule(k)
  <1>1. ASSUME NEW t \in Speakers, RegisterMark(t) PROVE \E k \in Task : Schedule(k)
    BY <1>1, TaskTypes DEF RegisterMark, FreshNames, Drawn
  <1>2. SendMark => UNCHANGED tasks
    BY DEF SendMark
  <1>. QED BY <1>1, <1>2, StepKinds DEF Keeps, Schedules

\* What appending and running do to the index of a task
LEMMA ScheduleIndex ==
  ASSUME TypeOK, NEW k \in Task, Schedule(k)
  PROVE  /\ Len(tasks) \in Nat /\ Len(tasks') = Len(tasks) + 1 /\ tasks'[Len(tasks) + 1] = k
         /\ \A i \in 1..Len(tasks) : tasks'[i] = tasks[i]
         /\ \A i \in 1..Len(tasks') : i \in 1..Len(tasks) \/ i = Len(tasks) + 1
  <1>1. /\ Len(tasks) \in Nat /\ Len(tasks') = Len(tasks) + 1 /\ tasks'[Len(tasks) + 1] = k
        /\ \A i \in 1..Len(tasks) : tasks'[i] = tasks[i]
    BY DEF Schedule, TypeOK, QueuesOK
  <1>. QED BY <1>1

LEMMA RunTaskIndex ==
  ASSUME TypeOK, RunTask
  PROVE  /\ Len(tasks) \in Nat \ {0} /\ Len(tasks') = Len(tasks) - 1 /\ Head(tasks) = tasks[1]
         /\ \A i \in 1..Len(tasks') : i + 1 \in 1..Len(tasks) /\ tasks'[i] = tasks[i + 1]
         /\ \A i \in 1..Len(tasks) : \/ i = 1
                                     \/ i - 1 \in 1..Len(tasks') /\ tasks'[i - 1] = tasks[i]
  <1>1. /\ Len(tasks) \in Nat \ {0} /\ Len(tasks') = Len(tasks) - 1 /\ Head(tasks) = tasks[1]
        /\ \A i \in 1..Len(tasks') : tasks'[i] = tasks[i + 1]
    BY DEF RunTask, TypeOK, QueuesOK
  <1>. QED BY <1>1

LEMMA StopKept ==
  ASSUME TypeOK, [Next]_vars, NEW g, StopScheduled(g)
  PROVE  StopScheduled(g)' \/ (RunTask /\ g \notin liveStt')
  <1>1. CASE RunTask
    <2>1. PICK i \in 1..Len(tasks) : tasks[i].q = "stop" /\ tasks[i].stt = g
      BY DEF StopScheduled
    <2>2. CASE i = 1
      <3>1. Head(tasks).q = "stop" /\ Head(tasks).stt = g
        BY <1>1, <2>1, <2>2, RunTaskIndex
      <3>. QED BY <1>1, <3>1 DEF RunTask
    <2>3. CASE i # 1
      BY <1>1, <2>1, <2>3, RunTaskIndex DEF StopScheduled
    <2>. QED BY <2>2, <2>3
  <1>2. ASSUME NEW k \in Task, Schedule(k) PROVE StopScheduled(g)'
    <2>1. PICK i \in 1..Len(tasks) : tasks[i].q = "stop" /\ tasks[i].stt = g
      BY DEF StopScheduled
    <2>2. i \in 1..Len(tasks') /\ tasks'[i] = tasks[i]
      BY <1>2, ScheduleIndex
    <2>. QED BY <2>1, <2>2 DEF StopScheduled
  <1>3. CASE UNCHANGED tasks
    BY <1>3 DEF StopScheduled
  <1>. QED BY <1>1, <1>2, <1>3, TasksStep

LEMMA SttKinds ==
  ASSUME [Next]_vars
  PROVE  Connect \/ ResetStopStt \/ (UNCHANGED stt /\ (RunTask \/ UNCHANGED liveStt))
  BY DEF Next, vars, objects, SpeakerStep, HangerStep, NotifyStep, ResetStep, Speak,
         Interrupted, PutOutbound, RegisterMark, NoLoopNoMark, WaitReturns, WaitExpires, Leave,
         Arm, CheckGeneration, FireDisconnect, CheckClear, PutClear, RunTask, RunSet, SetLoop,
         Media, FeedStt, SendAudio, SendMark, Echo, RemoteHangup, HangupAgain,
         RequestedClose, SignalDisconnected, NotifyNext, NotifyDone, NotifyFails, ResetBegin,
         ResetWakeNext, ResetWakeDone, ResetFails, ResetClearMarks, ResetClearLink,
         ResetClearIntent, ResetDrainInbound, ResetDrainOutbound

LEMMA LoopStays ==
  ASSUME [Next]_vars
  PROVE  UNCHANGED loop \/ loop' = TRUE
  BY DEF Next, vars, SpeakerStep, HangerStep, NotifyStep, ResetStep, Speak,
         Interrupted, PutOutbound, RegisterMark, NoLoopNoMark, WaitReturns, WaitExpires, Leave,
         Arm, CheckGeneration, FireDisconnect, CheckClear, PutClear, RunTask, RunSet, SetLoop,
         Connect, Media, FeedStt, SendAudio, SendMark, Echo, RemoteHangup, HangupAgain,
         RequestedClose, SignalDisconnected, NotifyNext, NotifyDone, NotifyFails, ResetBegin,
         ResetWakeNext, ResetWakeDone, ResetFails, ResetClearMarks, ResetClearLink,
         ResetClearIntent, ResetStopStt, ResetDrainInbound, ResetDrainOutbound

LEMMA OrphanStep == TypeOK /\ OrphanInv /\ [Next]_vars => OrphanInv'
  <1> SUFFICES ASSUME TypeOK, OrphanInv, [Next]_vars PROVE OrphanInv'
    OBVIOUS
  <1>1. CASE Connect
    <2>1. UNCHANGED tasks /\ loop'
      BY <1>1 DEF Connect
    <2>2. CASE stt = None
      BY <1>1, <2>1, <2>2, Bounds
         DEF Connect, OrphanInv, NoOrphanStt, StopScheduled, TypeOK, LoopOK
    <2>3. CASE stt # None
      BY <1>1, <2>1, <2>3 DEF Connect, OrphanInv, NoOrphanStt, StopScheduled
    <2>. QED BY <2>2, <2>3
  <1>2. CASE ResetStopStt
    <2>1. stt' = None /\ UNCHANGED liveStt
      BY <1>2 DEF ResetStopStt, objects
    <2>2. ASSUME NEW g \in liveStt PROVE StopScheduled(g)'
      <3>1. CASE StopScheduled(g)
        BY <1>2, <2>1, <2>2, <3>1, StopKept
      <3>2. CASE stt = g
        <4>1. g \in Gens /\ stt # None /\ loop
          BY <2>2, <3>2, Bounds DEF OrphanInv, TypeOK, LoopOK
        <4>2. [q |-> "stop", stt |-> g] \in Task /\ Schedule([q |-> "stop", stt |-> g])
          BY <1>2, <3>2, <4>1, TaskTypes DEF ResetStopStt, MustStop
        <4>3. Len(tasks) + 1 \in 1..Len(tasks')
              /\ tasks'[Len(tasks) + 1] = [q |-> "stop", stt |-> g]
          BY <4>2, ScheduleIndex
        <4>. QED BY <4>3 DEF StopScheduled
      <3>. QED BY <2>2, <3>1, <3>2 DEF OrphanInv, NoOrphanStt
    <2>. QED BY <2>1, <2>2 DEF OrphanInv, NoOrphanStt
  <1>3. CASE ~Connect /\ ~ResetStopStt
    <2>1. UNCHANGED stt /\ liveStt' \subseteq liveStt
      BY <1>3, SttKinds DEF RunTask, objects
    <2>3. loop => loop'
      BY LoopStays
    <2>2. ASSUME NEW g \in liveStt' PROVE stt' = g \/ StopScheduled(g)'
      BY <2>1, StopKept DEF OrphanInv, NoOrphanStt
    <2>. QED BY <2>1, <2>2, <2>3 DEF OrphanInv, NoOrphanStt
  <1>. QED BY <1>1, <1>2, <1>3

\* No sequence of connects, disconnects and resets leaves a provider that runs and that
\* nobody has or stops.
THEOREM NoProviderOrphaned == Spec => []NoOrphanStt
  <1>1. Init => OrphanInv
    BY DEF Init, OrphanInv, NoOrphanStt
  <1>2. OrphanInv => NoOrphanStt
    BY DEF OrphanInv
  <1>. QED BY <1>1, <1>2, TypeInit, TypeStep, OrphanStep, PTL DEF Spec

(***************************************************************************)
(* The end of a call, with reset() on the loop thread                      *)
(***************************************************************************)

CallbackInv ==
  /\ \A g \in Gens : notified[g] <= 1 /\ (g > gen => notified[g] = 0)
  /\ ~disconnected \/ resetPc # "idle" \/ loopPc = "notify" => notified[gen] = 0
  /\ loopPc = "notify" => resetPc = "idle" /\ disconnected

LEMMA EndKinds ==
  ASSUME [Next]_vars
  PROVE  \/ (SignalDisconnected /\ LoopFree) \/ NotifyDone \/ NotifyFails \/ ResetBegin
         \/ ResetClearLink
         \/ /\ UNCHANGED <<gen, notified, disconnected, loopPc>>
            /\ resetPc # "idle" \/ UNCHANGED resetPc
  BY ZenonT(60)
  DEF Next, vars, link, loopVars, resetVars, SpeakerStep, HangerStep, NotifyStep, ResetStep, Speak,
         Interrupted, PutOutbound, RegisterMark, NoLoopNoMark, WaitReturns, WaitExpires, Leave,
         Arm, CheckGeneration, FireDisconnect, CheckClear, PutClear, RunTask, RunSet, SetLoop,
         Connect, Media, FeedStt, SendAudio, SendMark, Echo, RemoteHangup, HangupAgain,
         RequestedClose, NotifyNext, ResetWakeNext, ResetWakeDone, ResetFails, ResetClearMarks,
         ResetClearIntent, ResetStopStt, ResetDrainInbound, ResetDrainOutbound

LEMMA CallbackStep ==
  ASSUME ResetOnLoop, TypeOK, CallbackInv, [Next]_vars
  PROVE  CallbackInv'
  <1>0. gen \in Gens /\ notified \in [Gens -> Nat] /\ Gens \subseteq Nat
    BY GenAssumption DEF TypeOK, FieldsOK, LoopOK, Gens
  <1>1. CASE SignalDisconnected /\ LoopFree
    <2>1. UNCHANGED <<gen, notified, resetPc>> /\ resetPc = "idle" /\ loopPc = "run"
      BY <1>1 DEF SignalDisconnected, LoopFree, resetVars
    <2>2. CASE disconnected
      BY <1>1, <2>1, <2>2 DEF CallbackInv, SignalDisconnected, FirstReport
    <2>3. CASE ~disconnected
      <3>1. disconnected' /\ notified[gen] = 0
        BY <1>1, <2>3 DEF CallbackInv, SignalDisconnected, FirstReport
      <3>. QED BY <2>1, <3>1 DEF CallbackInv
    <2>. QED BY <2>2, <2>3
  <1>2. CASE NotifyDone
    <2>1. /\ loopPc = "notify" /\ loopPc' = "run" /\ UNCHANGED <<gen, disconnected, resetPc>>
          /\ notified' = [notified EXCEPT ![gen] = @ + 1]
      BY <1>2 DEF NotifyDone, link, resetVars
    <2>2. notified[gen] = 0 /\ resetPc = "idle" /\ disconnected
      BY <2>1 DEF CallbackInv
    <2>3. \A g \in Gens : notified'[g] <= 1 /\ (g > gen' => notified'[g] = 0)
      BY <1>0, <2>1, <2>2 DEF CallbackInv
    <2>. QED BY <2>1, <2>2, <2>3 DEF CallbackInv
  <1>3. CASE NotifyFails
    BY <1>3 DEF NotifyFails, CallbackInv, link, resetVars
  <1>4. CASE ResetBegin
    <2>1. /\ gen' = gen + 1 /\ gen < MaxGen /\ loopPc = "run" /\ UNCHANGED <<notified, loopPc>>
      BY <1>4 DEF ResetBegin, loopVars, TypeOK, LoopOK
    <2>2. gen' \in Gens /\ gen' > gen
      BY <1>0, <2>1, GenAssumption DEF Gens
    <2>3. \A g \in Gens : notified'[g] <= 1 /\ (g >= gen' => notified'[g] = 0)
      BY <1>0, <2>1, <2>2 DEF CallbackInv
    <2>4. notified'[gen'] = 0 /\ \A g \in Gens : g > gen' => notified'[g] = 0
      BY <1>0, <2>2, <2>3
    <2>. QED BY <2>1, <2>3, <2>4 DEF CallbackInv
  <1>5. CASE ResetClearLink
    <2>1. resetPc = "link" /\ UNCHANGED <<gen, notified, loopPc>>
      BY <1>5 DEF ResetClearLink, loopVars
    <2>2. loopPc # "notify" /\ notified[gen] = 0
      BY <2>1 DEF CallbackInv
    <2>. QED BY <2>1, <2>2 DEF CallbackInv
  <1>6. CASE /\ UNCHANGED <<gen, notified, disconnected, loopPc>>
             /\ resetPc # "idle" \/ UNCHANGED resetPc
    BY <1>6 DEF CallbackInv
  <1>. QED BY <1>1, <1>2, <1>3, <1>4, <1>5, <1>6, EndKinds

\* However many handlers report the end of a call, and however often it is reset: the
\* callback runs at most once in a generation, if reset() is called on the loop thread.
THEOREM CallbackOnce == ASSUME ResetOnLoop PROVE Spec => []OneCallbackPerCall
  <1>1. Init => CallbackInv
    BY Bounds DEF Init, CallbackInv
  <1>2. CallbackInv => OneCallbackPerCall
    BY DEF CallbackInv, OneCallbackPerCall
  <1>. QED BY <1>1, <1>2, TypeInit, TypeStep, CallbackStep, PTL DEF Spec

(***************************************************************************)
(* What HangupHonoured, a liveness property, rests on                      *)
(***************************************************************************)

\* In the first call: the event that a hangup sets is set, or will be by the loop, if and
\* only if a request_disconnect has returned, and it is the event that the watcher awaits.
FirstHangup ==
  gen = 0 =>
    /\ (\E h \in Hangers : asked[h] = 0) <=> 0 \in sets \cup fired
    /\ \A h \in Hangers : asked[h] = 0 => intent = 0

HangupInv ==
  gen = 0 =>
    /\ resetPc = "idle"
    /\ intent \in {0, None} /\ (loop => intent = 0)
    /\ \A h \in Hangers : /\ pc[h] # "idle" => loop /\ cmd[h] = 0
                          /\ asked[h] # None => loop /\ asked[h] = 0 /\ 0 \in sets \cup fired
    /\ 0 \in sets \cup fired => \E h \in Hangers : asked[h] = 0

LEMMA HangupKinds ==
  ASSUME TypeOK, [Next]_vars
  PROVE  \/ \E h \in Hangers : Arm(h) \/ CheckGeneration(h) \/ FireDisconnect(h)
         \/ RunSet \/ SetLoop \/ Connect \/ ResetBegin
         \/ ResetStep /\ resetPc # "idle"
         \/ /\ UNCHANGED <<gen, resetPc, loop, intent, sets, fired, asked>>
            /\ \A h \in Hangers : UNCHANGED <<pc[h], cmd[h]>>
  <1>1. ASSUME NEW t \in Speakers, Speak(t) \/ Interrupted(t) \/ SpeakerStep(t)
        PROVE  /\ UNCHANGED <<gen, resetPc, loop, intent, sets, fired, asked>>
               /\ \A h \in Hangers : UNCHANGED <<pc[h], cmd[h]>>
    <2>1. \A h \in Hangers : h # t
      BY RoleAssumption
    <2>2. UNCHANGED <<gen, resetPc, loop, intent, sets, fired, asked>>
      BY <1>1 DEF Speak, Interrupted, SpeakerStep, PutOutbound, RegisterMark, NoLoopNoMark,
                  WaitReturns, WaitExpires, Leave, link, objects, resetVars
    <2>3. (\E w \in SpeakPcs : Goto(t, w)) /\ (UNCHANGED cmd \/ \E g \in Gens \cup {None} :
                                                                 cmd' = [cmd EXCEPT ![t] = g])
      BY <1>1 DEF Speak, Interrupted, SpeakerStep, PutOutbound, RegisterMark, NoLoopNoMark,
                  WaitReturns, WaitExpires, Leave, End, Goto, SpeakPcs, TypeOK, FieldsOK
    <2>. QED BY <2>1, <2>2, <2>3 DEF Goto, TypeOK, ThreadsOK, Threads
  <1>2. ASSUME NEW c \in Clearers, CheckClear(c) \/ PutClear(c)
        PROVE  /\ UNCHANGED <<gen, resetPc, loop, intent, sets, fired, asked>>
               /\ \A h \in Hangers : UNCHANGED <<pc[h], cmd[h]>>
    <2>1. \A h \in Hangers : h # c
      BY RoleAssumption
    <2>. QED BY <1>2, <2>1 DEF CheckClear, PutClear, Goto, link, objects, resetVars, TypeOK,
                               ThreadsOK, Threads
  <1>3. ASSUME ResetStep PROVE resetPc # "idle"
    BY <1>3 DEF ResetStep, ResetWakeNext, ResetWakeDone, ResetFails, ResetClearMarks,
                ResetClearLink, ResetClearIntent, ResetStopStt, ResetDrainInbound,
                ResetDrainOutbound
  <1>4. CASE RunTask \/ Media \/ FeedStt \/ SendAudio \/ SendMark \/ Echo
             \/ RemoteHangup \/ HangupAgain \/ RequestedClose \/ NotifyStep \/ UNCHANGED vars
    BY <1>4 DEF RunTask, Media, FeedStt, SendAudio, SendMark, Echo, RemoteHangup, HangupAgain,
                RequestedClose, SignalDisconnected, NotifyStep, NotifyNext, NotifyDone,
                NotifyFails, vars, link, objects, threads, resetVars
  <1>. QED BY <1>1, <1>2, <1>3, <1>4 DEF Next, HangerStep

LEMMA HangupStep == TypeOK /\ HangupInv /\ [Next]_vars => HangupInv'
  <1> SUFFICES ASSUME TypeOK, HangupInv, [Next]_vars, gen' = 0 PROVE HangupInv'
    BY DEF HangupInv
  <1>0. gen \in Nat /\ None # 0 /\ 0 \in Gens
    BY Bounds DEF TypeOK, FieldsOK, Gens
  <1>1. ASSUME NEW h \in Hangers, Arm(h) PROVE HangupInv'
    BY <1>1 DEF Arm, HangupInv, Goto, link, objects, resetVars, TypeOK, ThreadsOK, Threads
  <1>2. ASSUME NEW h \in Hangers, CheckGeneration(h) PROVE HangupInv'
    <2>1. gen = 0 /\ loop /\ cmd[h] = 0 /\ intent # None
      BY <1>0, <1>2 DEF CheckGeneration, HangupInv
    <2>2. MayDisconnect(h)
      BY <2>1 DEF MayDisconnect
    <2>. QED BY <1>2, <2>1, <2>2 DEF CheckGeneration, HangupInv, Goto, link, objects,
                                     resetVars, TypeOK, ThreadsOK, Threads
  <1>3. ASSUME NEW h \in Hangers, FireDisconnect(h) PROVE HangupInv'
    <2>1. gen = 0 /\ loop /\ cmd[h] = 0 /\ intent = 0
      BY <1>3 DEF FireDisconnect, HangupInv
    <2>2. sets' = sets \cup {0} /\ asked' = [asked EXCEPT ![h] = 0]
      BY <1>0, <1>3, <2>1 DEF FireDisconnect
    <2>3. asked'[h] = 0 /\ \A k \in Hangers : k # h => asked'[k] = asked[k]
      BY <2>2 DEF TypeOK, ThreadsOK
    <2>4. \A k \in Hangers : pc'[k] # "idle" => pc[k] # "idle" /\ cmd'[k] = cmd[k]
      BY <1>3 DEF FireDisconnect, End, Goto, TypeOK, ThreadsOK, Threads
    <2>5. UNCHANGED <<gen, resetPc, loop, intent, fired>>
      BY <1>3 DEF FireDisconnect, link, objects, resetVars
    <2>. QED BY <1>3, <2>1, <2>2, <2>3, <2>4, <2>5 DEF HangupInv
  <1>4. CASE RunSet
    <2>1. UNCHANGED <<gen, resetPc, loop, intent, pc, cmd, asked>>
      BY <1>4 DEF RunSet, link, threads, resetVars
    <2>2. sets' \cup fired' = sets \cup fired
      BY <1>4 DEF RunSet
    <2>. QED BY <2>1, <2>2 DEF HangupInv
  <1>5. CASE SetLoop \/ Connect
    <2>1. UNCHANGED <<gen, resetPc, sets, fired, pc, cmd, asked>> /\ loop' = TRUE
      BY <1>5 DEF SetLoop, Connect, objects, threads, resetVars
    <2>2. gen = 0 /\ (intent = None \/ intent = 0)
      <3>1. gen = 0
        BY <2>1
      <3>2. intent \in {0, None}
        BY <3>1 DEF HangupInv
      <3>. QED BY <3>1, <3>2
    <2>3. intent' = 0
      BY <1>0, <1>5, <2>2 DEF SetLoop, Connect
    <2>. QED BY <2>1, <2>2, <2>3 DEF HangupInv
  <1>6. ~(ResetBegin \/ (ResetStep /\ resetPc # "idle"))
    <2>1. ~ResetBegin
      BY <1>0 DEF ResetBegin
    <2>2. ASSUME ResetStep, resetPc # "idle" PROVE FALSE
      <3>1. UNCHANGED gen
        BY <2>2 DEF ResetStep, ResetWakeNext, ResetWakeDone, ResetFails, ResetClearMarks,
                    ResetClearLink, ResetClearIntent, ResetStopStt, ResetDrainInbound,
                    ResetDrainOutbound
      <3>. QED BY <2>2, <3>1 DEF HangupInv
    <2>. QED BY <2>1, <2>2
  <1>7. CASE /\ UNCHANGED <<gen, resetPc, loop, intent, sets, fired, asked>>
             /\ \A h \in Hangers : UNCHANGED <<pc[h], cmd[h]>>
    BY <1>7 DEF HangupInv
  <1>. QED BY <1>1, <1>2, <1>3, <1>4, <1>5, <1>6, <1>7, HangupKinds

\* NC-170 Fix 3: in the first call of a session no request_disconnect is lost, before or after
\* the WebSocket connects, and no hangup is signalled that nobody asked for.
THEOREM HangupIsKept == Spec => []FirstHangup
  <1>1. Init => HangupInv
    BY Bounds DEF Init, HangupInv, Threads
  <1>2. HangupInv => FirstHangup
    BY Bounds DEF HangupInv, FirstHangup
  <1>. QED BY <1>1, <1>2, TypeInit, TypeStep, HangupStep, PTL DEF Spec

\* Everything that waits in inbound or in a scheduled put
Items == {inbound[i] : i \in 1..Len(inbound)} \cup {tasks[j].item : j \in Puts}

\* The end of a call is queued only once the call is over, and a new call only begins after
\* reset() has counted it.
Sealed(x) == x.of \in Gens /\ x.of <= gen
             /\ (x.end /\ x.of = gen => conn = "down" /\ resetPc = "idle")
EndInv == EndBehindFrames /\ \A x \in Items : Sealed(x)

PutBehind(k) == /\ k.q = "in" /\ Schedule(k) /\ UNCHANGED <<inbound, gen, resetPc>>
                /\ k.item.of = gen
                /\ \/ ~k.item.end /\ conn = "up" /\ UNCHANGED conn
                   \/ k.item.end /\ conn' = "down" /\ LoopFree

\* What a step does to what the provider has still to see
LEMMA InboundKinds ==
  ASSUME TypeOK, [Next]_vars
  PROVE  \/ RunTask \/ FeedStt \/ ResetDrainInbound
         \/ \E k \in Task : PutBehind(k)
         \/ \E k \in Task : k.q # "in" /\ Schedule(k) /\ UNCHANGED inbound
         \/ UNCHANGED <<tasks, inbound>>
  <1> DEFINE Other == \/ \E k \in Task : k.q # "in" /\ Schedule(k) /\ UNCHANGED inbound
                      \/ UNCHANGED <<tasks, inbound>>
  <1>1. ASSUME NEW t \in Speakers, PutOutbound(t) PROVE Other
    <2>1. [q |-> "out", chunk |-> cmd[t]] \in Task
      BY TaskTypes DEF TypeOK, ThreadsOK, Threads
    <2>. QED BY <1>1, <2>1 DEF PutOutbound, queues
  <1>2. ASSUME NEW t \in Speakers, RegisterMark(t) PROVE Other
    <2>1. PICK n \in Names : Schedule([q |-> "mark", mark |-> [id |-> n, by |-> t]])
      BY <1>2 DEF RegisterMark, FreshNames, Drawn
    <2>2. [q |-> "mark", mark |-> [id |-> n, by |-> t]] \in Task
      BY TaskTypes
    <2>. QED BY <1>2, <2>1, <2>2 DEF RegisterMark, queues
  <1>3. ASSUME NEW c \in Clearers, PutClear(c) PROVE Other
    <2>1. CASE intent # None
      <3>1. [q |-> "clear", to |-> intent, sid |-> streamSid] \in Task
        BY <2>1, TaskTypes DEF TypeOK, FieldsOK
      <3>. QED BY <1>3, <2>1, <3>1 DEF PutClear, queues
    <2>. QED BY <1>3, <2>1 DEF PutClear, queues
  <1>4. CASE Media
    <2>1. [q |-> "in", item |-> [end |-> FALSE, of |-> gen]] \in Task
      BY TaskTypes DEF TypeOK, FieldsOK
    <2>. QED BY <1>4, <2>1 DEF Media, queues, network, resetVars, PutBehind
  <1>5. CASE SignalDisconnected /\ LoopFree
    <2>1. [q |-> "in", item |-> [end |-> TRUE, of |-> gen]] \in Task
      BY TaskTypes DEF TypeOK, FieldsOK
    <2>2. CASE FirstReport /\ loop
      BY <1>5, <2>1, <2>2 DEF SignalDisconnected, queues, resetVars, PutBehind
    <2>. QED BY <1>5, <2>2 DEF SignalDisconnected, queues
  <1>6. CASE ResetStopStt
    <2>1. CASE MustStop
      <3>1. [q |-> "stop", stt |-> stt] \in Task
        BY <2>1, TaskTypes DEF TypeOK, FieldsOK, MustStop
      <3>. QED BY <1>6, <2>1, <3>1 DEF ResetStopStt, queues
    <2>. QED BY <1>6, <2>1 DEF ResetStopStt, queues
  <1>7. ASSUME NEW t \in Speakers,
               \/ Speak(t) \/ Interrupted(t) \/ NoLoopNoMark(t) \/ WaitReturns(t)
               \/ WaitExpires(t) \/ Leave(t)
        PROVE  Other
    BY <1>7 DEF Speak, Interrupted, NoLoopNoMark, WaitReturns, WaitExpires, Leave, queues
  <1>8. ASSUME NEW h \in Hangers, Arm(h) \/ HangerStep(h) PROVE Other
    BY <1>8 DEF Arm, HangerStep, CheckGeneration, FireDisconnect, queues
  <1>9. ASSUME NEW c \in Clearers, CheckClear(c) PROVE Other
    BY <1>9 DEF CheckClear, queues
  <1>10. CASE RunSet \/ SetLoop \/ Connect \/ SendAudio \/ SendMark \/ Echo
    BY <1>10 DEF RunSet, SetLoop, Connect, SendAudio, SendMark, Echo, queues
  <1>11. CASE NotifyStep \/ ResetBegin
    BY <1>11 DEF NotifyStep, NotifyNext, NotifyDone, NotifyFails, ResetBegin, queues
  <1>12. CASE ResetStep /\ ~ResetStopStt /\ ~ResetDrainInbound
    BY <1>12 DEF ResetStep, ResetWakeNext, ResetWakeDone, ResetFails, ResetClearMarks,
         ResetClearLink, ResetClearIntent, ResetDrainOutbound, queues
  <1>13. CASE UNCHANGED vars
    BY <1>13 DEF vars, queues
  <1>. QED
    BY <1>1, <1>2, <1>3, <1>4, <1>5, <1>6, <1>7, <1>8, <1>9, <1>10, <1>11, <1>12, <1>13
       DEF Next, SpeakerStep, RemoteHangup, HangupAgain, RequestedClose

\* A generation changes, or else a call that is over stays over.
LEMMA ConnKinds ==
  ASSUME [Next]_vars
  PROVE  \/ gen' = gen + 1
         \/ gen' = gen /\ (conn = "down" /\ resetPc = "idle" => conn' = "down" /\ resetPc' = "idle")
  BY DEF Next, vars, network, resetVars, SpeakerStep, HangerStep, NotifyStep, ResetStep, Speak,
         Interrupted, PutOutbound, RegisterMark, NoLoopNoMark, WaitReturns, WaitExpires, Leave,
         Arm, CheckGeneration, FireDisconnect, CheckClear, PutClear, RunTask, RunSet, SetLoop,
         Connect, Media, FeedStt, SendAudio, SendMark, Echo, RemoteHangup, HangupAgain,
         RequestedClose, SignalDisconnected, NotifyNext, NotifyDone, NotifyFails, ResetBegin,
         ResetWakeNext, ResetWakeDone, ResetFails, ResetClearMarks, ResetClearLink,
         ResetClearIntent, ResetStopStt, ResetDrainInbound, ResetDrainOutbound

LEMMA StaysSealed ==
  ASSUME TypeOK, [Next]_vars, NEW x, Sealed(x)
  PROVE  Sealed(x)'
  <1>1. gen \in Nat /\ x.of \in Nat /\ x.of <= gen
    BY GenAssumption DEF TypeOK, FieldsOK, Gens, Sealed
  <1>2. CASE gen' = gen + 1
    <2>1. x.of <= gen' /\ x.of # gen'
      BY <1>1, <1>2
    <2>. QED BY <2>1 DEF Sealed
  <1>3. CASE gen' = gen /\ (conn = "down" /\ resetPc = "idle" => conn' = "down" /\ resetPc' = "idle")
    BY <1>3 DEF Sealed
  <1>. QED BY <1>2, <1>3, ConnKinds

LEMMA EndRunTask ==
  ASSUME TypeOK, EndBehindFrames, RunTask
  PROVE  EndBehindFrames' /\ Items' \subseteq Items
  <1>1. \A j \in Puts' : j + 1 \in Puts /\ tasks'[j] = tasks[j + 1] /\ j \in Nat
    BY RunTaskIndex DEF Puts
  <1>2. /\ Len(tasks) \in Nat \ {0} /\ Head(tasks) = tasks[1]
        /\ \A j \in Puts : j \in Nat
    BY RunTaskIndex DEF Puts
  <1>3. \A i, j \in Puts' : i < j => Behind(tasks'[i].item, tasks'[j].item)
    BY <1>1 DEF EndBehindFrames
  <1>4. CASE Head(tasks).q = "in"
    <2>1. inbound' = Append(inbound, tasks[1].item) /\ 1 \in Puts
      BY <1>2, <1>4 DEF RunTask, Puts
    <2>2. /\ Len(inbound) \in Nat /\ Len(inbound') = Len(inbound) + 1
          /\ inbound'[Len(inbound) + 1] = tasks[1].item
          /\ \A i \in 1..Len(inbound) : inbound'[i] = inbound[i]
      BY <2>1, TaskFields DEF TypeOK, QueuesOK
    <2>3. \A i \in 1..Len(inbound') : i \in 1..Len(inbound) \/ i = Len(inbound) + 1
      BY <2>2
    <2>4. \A i, j \in 1..Len(inbound') : i < j => Behind(inbound'[i], inbound'[j])
      BY <2>1, <2>2, <2>3 DEF EndBehindFrames
    <2>5. \A j \in Puts' : 1 < j + 1
      BY <1>1 DEF Puts
    <2>6. \A i \in 1..Len(inbound') : \A j \in Puts' : Behind(inbound'[i], tasks'[j].item)
      BY <1>1, <2>1, <2>2, <2>3, <2>5 DEF EndBehindFrames
    <2>7. Items' \subseteq Items
      BY <1>1, <2>1, <2>2, <2>3 DEF Items
    <2>. QED BY <1>3, <2>4, <2>6, <2>7 DEF EndBehindFrames, Behind
  <1>5. CASE Head(tasks).q # "in"
    <2>1. UNCHANGED inbound
      BY <1>5 DEF RunTask, queues
    <2>2. \A i \in 1..Len(inbound') : \A j \in Puts' : Behind(inbound'[i], tasks'[j].item)
      BY <1>1, <2>1 DEF EndBehindFrames
    <2>3. Items' \subseteq Items
      BY <1>1, <2>1 DEF Items
    <2>. QED BY <1>3, <2>1, <2>2, <2>3 DEF EndBehindFrames, Behind
  <1>. QED BY <1>4, <1>5

LEMMA EndFeed ==
  ASSUME TypeOK, EndBehindFrames, FeedStt
  PROVE  EndBehindFrames' /\ Items' \subseteq Items
  <1>1. /\ Len(inbound) \in Nat \ {0} /\ Len(inbound') = Len(inbound) - 1
        /\ \A i \in 1..Len(inbound') : inbound'[i] = inbound[i + 1]
    BY DEF FeedStt, TypeOK, QueuesOK
  <1>2. \A i \in 1..Len(inbound') : i \in Nat /\ i + 1 \in 1..Len(inbound)
    BY <1>1
  <1>3. UNCHANGED tasks /\ Puts' = Puts
    BY DEF FeedStt, Puts
  <1>4. Items' \subseteq Items
    BY <1>1, <1>2, <1>3 DEF Items
  <1>5. \A i, j \in 1..Len(inbound') : i < j => Behind(inbound'[i], inbound'[j])
    BY <1>1, <1>2 DEF EndBehindFrames
  <1>6. \A i \in 1..Len(inbound') : \A j \in Puts' : Behind(inbound'[i], tasks'[j].item)
    BY <1>1, <1>2, <1>3 DEF EndBehindFrames
  <1>. QED BY <1>3, <1>4, <1>5, <1>6 DEF EndBehindFrames, Behind

\* Scheduling a put behind everything that is there, or something that is no put
LEMMA EndSchedule ==
  ASSUME TypeOK, EndBehindFrames, NEW k \in Task, Schedule(k), UNCHANGED inbound,
         k.q = "in" => \A x \in Items : Behind(x, k.item)
  PROVE  /\ EndBehindFrames'
         /\ \A x \in Items' : x \in Items \/ (k.q = "in" /\ x = k.item)
  <1>1. \A j \in Puts' : \/ j \in Puts /\ tasks'[j] = tasks[j] /\ j < Len(tasks) + 1
                         \/ j = Len(tasks) + 1 /\ k.q = "in" /\ tasks'[j] = k
    BY ScheduleIndex DEF Puts
  <1>2. \A i \in Puts : tasks[i].item \in Items /\ i \in Nat
    BY DEF Puts, Items
  <1>3. \A i \in 1..Len(inbound) : inbound[i] \in Items
    BY DEF Items
  <1>4. Len(tasks) \in Nat
    BY DEF TypeOK, QueuesOK
  <1>5. \A i, j \in Puts' : i < j => Behind(tasks'[i].item, tasks'[j].item)
    <2> SUFFICES ASSUME NEW i \in Puts', NEW j \in Puts', i < j
                 PROVE  Behind(tasks'[i].item, tasks'[j].item)
      OBVIOUS
    <2>1. i \in Nat /\ j \in Nat /\ i \in Puts /\ tasks'[i] = tasks[i]
      BY <1>1, <1>2, <1>4
    <2>. QED BY <1>1, <1>2, <2>1 DEF EndBehindFrames
  <1>6. \A i \in 1..Len(inbound') : \A j \in Puts' : Behind(inbound'[i], tasks'[j].item)
    BY <1>1, <1>3 DEF EndBehindFrames
  <1>7. \A x \in Items' : x \in Items \/ (k.q = "in" /\ x = k.item)
    BY <1>1, <1>2, <1>3 DEF Items
  <1>. QED BY <1>5, <1>6, <1>7 DEF EndBehindFrames, Behind

LEMMA EndStep ==
  ASSUME ResetOnLoop, TypeOK, EndInv, [Next]_vars
  PROVE  EndInv'
  <1>0. EndBehindFrames /\ \A x \in Items : Sealed(x)'
    BY StaysSealed DEF EndInv
  <1>1. CASE RunTask
    BY <1>0, <1>1, EndRunTask DEF EndInv
  <1>2. CASE FeedStt
    BY <1>0, <1>2, EndFeed DEF EndInv
  <1>3. CASE ResetDrainInbound
    <2>1. inbound' = <<>> /\ UNCHANGED tasks /\ Puts' = Puts /\ Len(inbound') = 0
      BY <1>3 DEF ResetDrainInbound, Puts
    <2>2. Items' \subseteq Items
      BY <2>1 DEF Items
    <2>. QED BY <1>0, <2>1, <2>2 DEF EndInv, EndBehindFrames, Behind
  <1>4. ASSUME NEW k \in Task, PutBehind(k) PROVE EndInv'
    <2>1. k.q = "in" /\ Schedule(k) /\ UNCHANGED <<inbound, gen, resetPc>> /\ k.item.of = gen
      BY <1>4 DEF PutBehind
    <2>2. \A x \in Items : Behind(x, k.item)
      BY <1>4 DEF PutBehind, EndInv, Sealed, Behind
    <2>3. Sealed(k.item)'
      BY <1>4, <2>1, GenAssumption DEF PutBehind, Sealed, LoopFree, TypeOK, FieldsOK, Gens
    <2>4. EndBehindFrames' /\ \A x \in Items' : x \in Items \/ x = k.item
      BY <1>0, <2>1, <2>2, EndSchedule
    <2>. QED BY <1>0, <2>3, <2>4 DEF EndInv
  <1>5. ASSUME NEW k \in Task, k.q # "in", Schedule(k), UNCHANGED inbound PROVE EndInv'
    BY <1>0, <1>5, EndSchedule DEF EndInv
  <1>6. CASE UNCHANGED <<tasks, inbound>>
    BY <1>0, <1>6 DEF EndInv, EndBehindFrames, Puts, Behind, Items
  <1>. QED BY <1>1, <1>2, <1>3, <1>4, <1>5, <1>6, InboundKinds

\* The provider sees every frame of a call before the None that ends it, over any number of
\* calls, if reset() is called on the loop thread.
THEOREM EndComesLast == ASSUME ResetOnLoop PROVE Spec => []EndBehindFrames
  <1>1. Init => EndInv
    BY DEF Init, EndInv, EndBehindFrames, Items, Puts
  <1>2. EndInv => EndBehindFrames
    BY DEF EndInv
  <1>. QED BY <1>1, <1>2, TypeInit, TypeStep, EndStep, PTL DEF Spec

-----------------------------------------------------------------------------
(***************************************************************************)
(* VoiceSession implements MarkSync.                                       *)
(*                                                                         *)
(* The echo of a wait ends the travel of its mark, which needs that a mark *)
(* is in one place only: scheduled, queued, or sent.                       *)
(***************************************************************************)
IsMark(i) == i \in 1..Len(tasks) /\ tasks[i].q = "mark"

TasksOnce == \A i, j \in 1..Len(tasks) :
                IsMark(i) /\ IsMark(j) /\ tasks[i].mark = tasks[j].mark => i = j
QueueOnce == \A i, j \in 1..Len(markQueue) : markQueue[i] = markQueue[j] => i = j
Apart == /\ wire \cap QueueMarks = {} /\ wire \cap TaskMarks = {}
         /\ QueueMarks \cap TaskMarks = {}

MarkOnce == TasksOnce /\ QueueOnce /\ Apart

LEMMA FlyingPartsNext == Flying' = wire' \cup QueueMarks' \cup TaskMarks'
  BY DEF Flying, QueueMarks, TaskMarks

LEMMA OnceInit == Init => MarkOnce
  BY DEF Init, MarkOnce, TasksOnce, QueueOnce, Apart, QueueMarks, TaskMarks

LEMMA OnceSchedule ==
  ASSUME TypeOK, MarkOnce, NEW k \in Task, Schedule(k), UNCHANGED markQueue,
         wire' \subseteq wire, k.q = "mark" => k.mark \notin Flying
  PROVE  MarkOnce'
  <1>1. /\ Len(tasks) \in Nat /\ Len(tasks') = Len(tasks) + 1
        /\ tasks'[Len(tasks) + 1] = k
        /\ \A i \in 1..Len(tasks) : tasks'[i] = tasks[i]
    BY DEF Schedule, TypeOK, QueuesOK
  <1>2. \A i \in 1..Len(tasks') : i \in 1..Len(tasks) \/ i = Len(tasks) + 1
    BY <1>1
  <1>3. TasksOnce'
    <2> SUFFICES ASSUME NEW i \in 1..Len(tasks'), NEW j \in 1..Len(tasks'),
                        tasks'[i].q = "mark", tasks'[j].q = "mark",
                        tasks'[i].mark = tasks'[j].mark, i # j
                 PROVE  FALSE
      BY DEF TasksOnce, IsMark
    <2>1. \A l \in 1..Len(tasks) : tasks[l].q = "mark" /\ k.q = "mark" => tasks[l].mark # k.mark
      BY FlyingParts DEF TaskMarks
    <2>2. CASE i \in 1..Len(tasks) /\ j \in 1..Len(tasks)
      BY <1>1, <2>2 DEF MarkOnce, TasksOnce, IsMark
    <2>3. CASE i = Len(tasks) + 1 /\ j \in 1..Len(tasks)
      BY <1>1, <2>1, <2>3
    <2>4. CASE j = Len(tasks) + 1 /\ i \in 1..Len(tasks)
      BY <1>1, <2>1, <2>4
    <2>. QED BY <1>2, <2>2, <2>3, <2>4
  <1>4. QueueOnce' /\ QueueMarks' = QueueMarks
    BY DEF MarkOnce, QueueOnce, QueueMarks
  <1>5. Apart'
    BY <1>4, ScheduleMarks, FlyingParts DEF MarkOnce, Apart
  <1>. QED BY <1>3, <1>4, <1>5 DEF MarkOnce

LEMMA OnceRunTask ==
  ASSUME TypeOK, MarkOnce, RunTask
  PROVE  MarkOnce'
  <1>1. /\ tasks # <<>> /\ Len(tasks) \in Nat \ {0} /\ Len(tasks') = Len(tasks) - 1
        /\ \A i \in 1..Len(tasks') : i + 1 \in 1..Len(tasks) /\ tasks'[i] = tasks[i + 1]
        /\ Head(tasks) = tasks[1] /\ 1 \in 1..Len(tasks)
    BY DEF RunTask, TypeOK, QueuesOK
  <1>2. TasksOnce'
    <2> SUFFICES ASSUME NEW i \in 1..Len(tasks'), NEW j \in 1..Len(tasks'),
                        tasks'[i].q = "mark", tasks'[j].q = "mark",
                        tasks'[i].mark = tasks'[j].mark
                 PROVE  i = j
      BY DEF TasksOnce, IsMark
    <2>1. /\ i + 1 \in 1..Len(tasks) /\ tasks'[i] = tasks[i + 1]
          /\ j + 1 \in 1..Len(tasks) /\ tasks'[j] = tasks[j + 1]
      BY <1>1
    <2>2. i + 1 = j + 1
      BY <2>1 DEF MarkOnce, TasksOnce, IsMark
    <2>. QED BY <1>1, <2>2
  <1>3. TaskMarks' \subseteq TaskMarks
    <2> SUFFICES ASSUME NEW i \in 1..Len(tasks'), tasks'[i].q = "mark"
                 PROVE  tasks'[i].mark \in TaskMarks
      BY DEF TaskMarks
    <2>. QED BY <1>1 DEF TaskMarks
  <1>4. wire' = wire
    BY DEF RunTask, network
  <1>5. CASE Head(tasks).q = "mark"
    <2> DEFINE m == Head(tasks).mark
    <2>1. markQueue' = Append(markQueue, m)
      BY <1>5 DEF RunTask
    <2>2. /\ Len(markQueue) \in Nat /\ Len(markQueue') = Len(markQueue) + 1
          /\ markQueue'[Len(markQueue) + 1] = m
          /\ \A i \in 1..Len(markQueue) : markQueue'[i] = markQueue[i]
      BY <2>1 DEF TypeOK, QueuesOK
    <2>3. \A i \in 1..Len(markQueue') : i \in 1..Len(markQueue) \/ i = Len(markQueue) + 1
      BY <2>2
    <2>4. m \in TaskMarks
      BY <1>1, <1>5 DEF TaskMarks
    <2>5. m \notin QueueMarks /\ m \notin wire
      BY <2>4 DEF MarkOnce, Apart
    <2>6. m \notin TaskMarks'
      <3> SUFFICES ASSUME NEW i \in 1..Len(tasks'), tasks'[i].q = "mark", tasks'[i].mark = m
                   PROVE  FALSE
        BY DEF TaskMarks
      <3>1. i + 1 = 1
        BY <1>1, <1>5 DEF MarkOnce, TasksOnce, IsMark
      <3>. QED BY <3>1
    <2>7. QueueMarks' \subseteq QueueMarks \cup {m}
      BY <2>2, <2>3 DEF QueueMarks
    <2>8. QueueOnce'
      <3>1. \A i \in 1..Len(markQueue) : markQueue[i] # m
        BY <2>5 DEF QueueMarks
      <3>. QED BY <2>2, <2>3, <3>1 DEF MarkOnce, QueueOnce
    <2>9. Apart'
      BY <1>3, <1>4, <2>5, <2>6, <2>7 DEF MarkOnce, Apart
    <2>. QED BY <1>2, <2>8, <2>9 DEF MarkOnce
  <1>6. CASE Head(tasks).q # "mark"
    <2>1. markQueue' = markQueue
      BY <1>6 DEF RunTask, queues
    <2>2. QueueOnce' /\ QueueMarks' = QueueMarks
      BY <2>1 DEF MarkOnce, QueueOnce, QueueMarks
    <2>. QED BY <1>2, <1>3, <1>4, <2>2 DEF MarkOnce, Apart
  <1>. QED BY <1>5, <1>6

LEMMA OnceSendMark ==
  ASSUME TypeOK, MarkOnce, SendMark
  PROVE  MarkOnce'
  <1>1. /\ Len(markQueue) \in Nat \ {0} /\ Len(markQueue') = Len(markQueue) - 1
        /\ \A i \in 1..Len(markQueue') :
              i + 1 \in 1..Len(markQueue) /\ markQueue'[i] = markQueue[i + 1]
        /\ Head(markQueue) = markQueue[1] /\ 1 \in 1..Len(markQueue)
    BY DEF SendMark, TypeOK, QueuesOK
  <1>2. QueueOnce'
    <2> SUFFICES ASSUME NEW i \in 1..Len(markQueue'), NEW j \in 1..Len(markQueue'),
                        markQueue'[i] = markQueue'[j]
                 PROVE  i = j
      BY DEF QueueOnce
    <2>1. i + 1 = j + 1
      BY <1>1 DEF MarkOnce, QueueOnce
    <2>. QED BY <2>1
  <1>3. Head(markQueue) \in QueueMarks
    BY <1>1 DEF QueueMarks
  <1>4. Head(markQueue) \notin QueueMarks'
    <2> SUFFICES ASSUME NEW i \in 1..Len(markQueue'), markQueue'[i] = Head(markQueue)
                 PROVE  FALSE
      BY DEF QueueMarks
    <2>1. i + 1 = 1
      BY <1>1 DEF MarkOnce, QueueOnce
    <2>. QED BY <2>1
  <1>5. QueueMarks' \subseteq QueueMarks /\ TaskMarks' = TaskMarks
    BY SendMarkMarks
  <1>6. wire' = wire \cup {Head(markQueue)} /\ tasks' = tasks
    BY DEF SendMark
  <1>7. Apart'
    BY <1>3, <1>4, <1>5, <1>6 DEF MarkOnce, Apart
  <1>8. TasksOnce'
    BY <1>6 DEF MarkOnce, TasksOnce, IsMark
  <1>. QED BY <1>2, <1>7, <1>8 DEF MarkOnce

LEMMA OnceStep == MarkInv /\ MarkOnce /\ [Next]_vars => MarkOnce'
  <1> SUFFICES ASSUME MarkInv, MarkOnce, [Next]_vars PROVE MarkOnce'
    OBVIOUS
  <1> USE DEF MarkInv
  <1>1. ASSUME NEW t \in Speakers, RegisterMark(t) PROVE MarkOnce'
    <2>1. PICK n \in FreshNames :
            Schedule([q |-> "mark", mark |-> [id |-> n, by |-> t]])
      BY <1>1 DEF RegisterMark
    <2>2. n \in Names /\ n \notin InFlight
      BY DEF FreshNames, Drawn
    <2>3. [id |-> n, by |-> t] \notin Flying
      BY <2>2 DEF InFlight
    <2>4. [q |-> "mark", mark |-> [id |-> n, by |-> t]] \in Task
      BY <2>2, TaskTypes
    <2>5. UNCHANGED <<markQueue, wire>>
      BY <1>1 DEF RegisterMark, queues, network
    <2>. QED BY <2>1, <2>3, <2>4, <2>5, OnceSchedule
  <1>2. CASE Keeps
    <2>1. tasks' = tasks /\ markQueue' = markQueue /\ wire' \subseteq wire
      BY <1>2 DEF Keeps
    <2>2. TasksOnce' /\ TaskMarks' = TaskMarks
      BY <2>1 DEF MarkOnce, TasksOnce, IsMark, TaskMarks
    <2>3. QueueOnce' /\ QueueMarks' = QueueMarks
      BY <2>1 DEF MarkOnce, QueueOnce, QueueMarks
    <2>. QED BY <2>1, <2>2, <2>3 DEF MarkOnce, Apart
  <1>3. CASE Schedules
    BY <1>3, OnceSchedule DEF Schedules
  <1>. QED BY <1>1, <1>2, <1>3, OnceRunTask, OnceSendMark, StepKinds

LEMMA OnceInvariant == Spec => [](MarkInv /\ MarkOnce)
  <1>1. Init => MarkInv /\ MarkOnce
    BY TypeInit, MarkInit, OnceInit DEF MarkInv
  <1>2. MarkInv /\ MarkOnce /\ [Next]_vars => MarkInv' /\ MarkOnce'
    BY TypeStep, PendingStep, FlyingStep, OnceStep DEF MarkInv
  <1>. QED BY <1>1, <1>2, PTL DEF Spec

-----------------------------------------------------------------------------
(* The refinement mapping                                                  *)

\* The step takes no thread into or out of its wait, and wakes none that waits.
Quiet == /\ UNCHANGED name
         /\ \A t \in Speakers :
              /\ pc'[t] \in {"wait", "leave"} <=> pc[t] \in {"wait", "leave"}
              /\ pc[t] \in {"wait", "leave"} =>
                   evt'[t] = evt[t] /\ (evt[t] \/ pc'[t] = pc[t])

\* Such a step is at most the loss of marks.
LEMMA LoseStep ==
  ASSUME Quiet, Flying' \subseteq Flying
  PROVE  MS!Lose
  <1> USE DEF Quiet
  <1>1. Phases' = Phases
    BY DEF Phases
  <1>2. Travels' \in [Speakers -> BOOLEAN]
    BY DEF Travels
  <1>3. ASSUME NEW t \in Speakers, Travels'[t] PROVE Travels[t]
    BY <1>3 DEF Travels
  <1>4. Waking' \in BOOLEAN
    BY DEF Waking
  <1>. QED BY <1>1, <1>2, <1>3, <1>4 DEF MS!Lose

\* One thread's mark starts or ends its travel; those of the others go on.
LEMMA TravelsExcept ==
  ASSUME NEW t \in Speakers, NEW b \in BOOLEAN,
         ([id |-> name'[t], by |-> t] \in Flying') = b,
         \A u \in Speakers : u # t =>
            ([id |-> name'[u], by |-> u] \in Flying')
              = ([id |-> name[u], by |-> u] \in Flying)
  PROVE  Travels' = [Travels EXCEPT ![t] = b]
  BY DEF Travels

LEMMA CallStep ==
  ASSUME MarkInv, NEW t \in Speakers, RegisterMark(t)
  PROVE  MS!Call(t)
  <1> USE DEF MarkInv
  <1>1. PICK n \in FreshNames :
          /\ name' = [name EXCEPT ![t] = n]
          /\ Schedule([q |-> "mark", mark |-> [id |-> n, by |-> t]])
    BY DEF RegisterMark
  <1>2. n \in Names
    BY DEF FreshNames, Drawn
  <1>3. [q |-> "mark", mark |-> [id |-> n, by |-> t]] \in Task
    BY <1>2, TaskTypes
  <1>4. UNCHANGED <<markQueue, wire, loopPc, resetPc>>
    BY DEF RegisterMark, queues, network, loopVars, resetVars
  <1>5. Flying' = Flying \cup {[id |-> n, by |-> t]}
    <2>1. Flying' \subseteq Flying \cup {[id |-> n, by |-> t]}
      BY <1>1, <1>3, <1>4, ScheduleMarks, FlyingParts, FlyingPartsNext DEF QueueMarks
    <2>2. /\ Len(tasks) \in Nat /\ Len(tasks') = Len(tasks) + 1
          /\ tasks'[Len(tasks) + 1] = [q |-> "mark", mark |-> [id |-> n, by |-> t]]
          /\ \A i \in 1..Len(tasks) : tasks'[i] = tasks[i] /\ i \in 1..Len(tasks')
          /\ Len(tasks) + 1 \in 1..Len(tasks')
      BY <1>1 DEF Schedule, TypeOK, QueuesOK
    <2>3. TaskMarks \subseteq TaskMarks'
      BY <2>2 DEF TaskMarks
    <2>4. [id |-> n, by |-> t] \in TaskMarks'
      BY <2>2 DEF TaskMarks
    <2>. QED BY <1>4, <2>1, <2>3, <2>4, FlyingParts, FlyingPartsNext DEF QueueMarks
  <1>6. Phases[t] = "out" /\ Phases' = [Phases EXCEPT ![t] = "waiting"]
    BY DEF RegisterMark, Phases, Goto, TypeOK, ThreadsOK, Threads
  <1>7. Travels' = [Travels EXCEPT ![t] = TRUE]
    <2>1. \A u \in Speakers : name'[u] = IF u = t THEN n ELSE name[u]
      BY <1>1 DEF TypeOK, ThreadsOK
    <2>2. [id |-> name'[t], by |-> t] \in Flying'
      BY <1>5, <2>1
    <2>3. ASSUME NEW u \in Speakers, u # t
          PROVE  ([id |-> name'[u], by |-> u] \in Flying')
                   = ([id |-> name[u], by |-> u] \in Flying)
      <3>1. name'[u] = name[u]
        BY <2>1, <2>3
      <3>2. [id |-> name[u], by |-> u] # [id |-> n, by |-> t]
        BY <2>3
      <3>. QED BY <1>5, <3>1, <3>2
    <2>. QED BY <2>2, <2>3, TravelsExcept
  <1>8. Waking' = Waking
    BY <1>4 DEF Waking
  <1>. QED BY <1>6, <1>7, <1>8 DEF MS!Call, MS!Goes

LEMMA ReturnStep ==
  ASSUME MarkInv, NEW t \in Speakers, Leave(t)
  PROVE  MS!Return(t)
  <1> USE DEF MarkInv
  <1>1. /\ pc[t] = "leave" /\ pc'[t] \notin {"wait", "leave"}
        /\ \A u \in Speakers : u # t => pc'[u] = pc[u] /\ evt'[u] = evt[u] /\ name'[u] = name[u]
        /\ name'[t] = NoName
    BY DEF Leave, Unregister, Goto, End, TypeOK, ThreadsOK, Threads
  <1>2. Phases[t] \in {"expired", "released"} /\ Phases' = [Phases EXCEPT ![t] = "out"]
    BY <1>1 DEF Phases
  <1>3. Flying' = Flying /\ Waking' = Waking
    BY DEF Leave, Flying, Waking, queues, network, loopVars, resetVars
  <1>4. [id |-> NoName, by |-> t] \notin Flying
    <2>1. [id |-> NoName, by |-> t] \notin Mark
      BY ThreadAssumption DEF Mark
    <2>. QED BY <2>1, FlyingTyped
  <1>5. Travels' = [Travels EXCEPT ![t] = FALSE]
    <2>1. ([id |-> name'[t], by |-> t] \in Flying') = FALSE
      BY <1>1, <1>3, <1>4
    <2>2. \A u \in Speakers : u # t =>
             ([id |-> name'[u], by |-> u] \in Flying')
               = ([id |-> name[u], by |-> u] \in Flying)
      BY <1>1, <1>3
    <2>. QED BY <2>1, <2>2, TravelsExcept
  <1>. QED BY <1>2, <1>3, <1>5 DEF MS!Return, MS!Goes

LEMMA ExpireStep ==
  ASSUME MarkInv, NEW t \in Speakers, WaitExpires(t)
  PROVE  MS!Expire(t)
  <1>1. /\ pc[t] = "wait" /\ pc'[t] = "leave" /\ ~evt[t] /\ evt' = evt /\ name' = name
        /\ \A u \in Speakers : u # t => pc'[u] = pc[u]
    BY DEF WaitExpires, Goto, MarkInv, TypeOK, ThreadsOK, Threads
  <1>2. Phases[t] = "waiting" /\ Phases' = [Phases EXCEPT ![t] = "expired"]
    BY <1>1 DEF Phases
  <1>3. Flying' = Flying /\ Waking' = Waking
    BY DEF WaitExpires, Flying, Waking, queues, network, loopVars, resetVars
  <1>4. Travels' = Travels
    BY <1>1, <1>3 DEF Travels
  <1>. QED BY <1>2, <1>3, <1>4 DEF MS!Expire, MS!Goes

\* The event of a registered wait is set, for the first time or again.
LEMMA WakePhases ==
  ASSUME MarkInv, NEW n \in Names, pending[n] \in Speakers, Wake(pending[n]),
         UNCHANGED <<pc, name>>
  PROVE  /\ evt[pending[n]] => evt' = evt
         /\ ~evt[pending[n]] => MS!Goes(pending[n], {"waiting", "expired"}, "released")
         /\ name[pending[n]] = n
  <1> DEFINE u == pending[n]
  <1>1. u \in Speakers /\ pc[u] \in {"wait", "leave"} /\ name[u] = n
    BY ThreadAssumption DEF MarkInv, PendingOwned, Threads
  <1>2. evt \in [Speakers -> BOOLEAN] /\ evt' = [evt EXCEPT ![u] = TRUE]
    BY DEF Wake, MarkInv, TypeOK, ThreadsOK
  <1>3. ASSUME evt[u] PROVE evt' = evt
    BY <1>1, <1>2, <1>3
  <1>4. ASSUME ~evt[u] PROVE MS!Goes(u, {"waiting", "expired"}, "released")
    <2>1. Phases[u] \in {"waiting", "expired"}
      BY <1>1, <1>4 DEF Phases
    <2>2. Phases' = [Phases EXCEPT ![u] = "released"]
      BY <1>1, <1>2 DEF Phases
    <2>. QED BY <2>1, <2>2 DEF MS!Goes
  <1>. QED BY <1>1, <1>3, <1>4

LEMMA ReleaseStep ==
  ASSUME MarkInv, NotifyNext \/ ResetWakeNext
  PROVE  MS!Lose \/ \E t \in Speakers : MS!ReleaseByEnd(t)
  <1>1. PICK n \in Names : pending[n] \in Speakers /\ Wake(pending[n])
    <2>1. \A n \in Unseen(loopIt) \cup Unseen(resetIt) :
             n \in Names /\ pending[n] \in Speakers
      BY DEF Unseen, Registered, MarkInv, TypeOK, FieldsOK
    <2>. QED BY <2>1 DEF NotifyNext, ResetWakeNext
  <1>2. /\ UNCHANGED <<pc, name>> /\ Flying' = Flying
        /\ Waking /\ Waking' = Waking
    BY DEF NotifyNext, ResetWakeNext, Flying, Waking, queues, network, loopVars, resetVars
  <1>3. CASE evt[pending[n]]
    <2>1. evt' = evt
      BY <1>1, <1>2, <1>3, WakePhases
    <2>. QED BY <1>2, <2>1, LoseStep DEF Quiet
  <1>4. CASE ~evt[pending[n]]
    <2>1. MS!Goes(pending[n], {"waiting", "expired"}, "released")
      BY <1>1, <1>2, <1>4, WakePhases
    <2>2. Travels' = Travels
      BY <1>2 DEF Travels
    <2>. QED BY <1>1, <1>2, <2>1, <2>2 DEF MS!ReleaseByEnd
  <1>. QED BY <1>3, <1>4

LEMMA EchoStep ==
  ASSUME MarkInv, MarkOnce, Echo
  PROVE  MS!Lose \/ \E t \in Speakers : MS!Echo(t)
  <1>1. PICK m \in wire :
          /\ wire' = wire \ {m}
          /\ IF pending[m.id] \in Speakers THEN Wake(pending[m.id]) ELSE UNCHANGED evt
    BY DEF Echo
  <1>2. /\ UNCHANGED <<pc, name, loopPc, resetPc>>
        /\ QueueMarks' = QueueMarks /\ TaskMarks' = TaskMarks
    BY DEF Echo, queues, loopVars, resetVars, QueueMarks, TaskMarks
  <1>3. Flying' = Flying \ {m} /\ m \in Flying
    BY <1>1, <1>2, FlyingParts, FlyingPartsNext DEF MarkOnce, Apart
  <1>4. m \in Mark
    BY <1>3, FlyingTyped DEF MarkInv
  <1>5. CASE evt' = evt
    BY <1>2, <1>3, <1>5, LoseStep DEF Quiet
  <1>6. CASE evt' # evt
    <2> DEFINE u == pending[m.id]
    <2>1. u \in Speakers /\ Wake(u) /\ m.id \in Names
      BY <1>1, <1>4, <1>6 DEF Mark
    <2>2. MS!Goes(u, {"waiting", "expired"}, "released") /\ name[u] = m.id
      BY <1>2, <1>6, <2>1, WakePhases
    <2>3. u = m.by
      BY <1>3, <2>1, ThreadAssumption DEF MarkInv, FlyingOwned, Threads
    <2>4. m = [id |-> name[u], by |-> u]
      BY <1>4, <2>2, <2>3 DEF Mark
    <2>5. Travels[u]
      BY <1>3, <2>1, <2>4 DEF Travels
    <2>6. Travels' = [Travels EXCEPT ![u] = FALSE]
      <3>1. ([id |-> name'[u], by |-> u] \in Flying') = FALSE
        BY <1>2, <1>3, <2>4
      <3>2. ASSUME NEW v \in Speakers, v # u
            PROVE  ([id |-> name'[v], by |-> v] \in Flying')
                     = ([id |-> name[v], by |-> v] \in Flying)
        <4>1. [id |-> name[v], by |-> v] # m
          BY <2>4, <3>2
        <4>. QED BY <1>2, <1>3, <4>1
      <3>. QED BY <2>1, <3>1, <3>2, TravelsExcept
    <2>7. Waking' = Waking
      BY <1>2 DEF Waking
    <2>. QED BY <2>1, <2>2, <2>5, <2>6, <2>7 DEF MS!Echo
  <1>. QED BY <1>5, <1>6

LEMMA QuietSteps ==
  ASSUME TypeOK, [Next]_vars, ~(Echo \/ NotifyNext \/ ResetWakeNext),
         \A t \in Speakers : ~(RegisterMark(t) \/ WaitExpires(t) \/ Leave(t))
  PROVE  Quiet
  <1>1. ASSUME NEW t \in Speakers,
               \/ Speak(t) \/ Interrupted(t) \/ PutOutbound(t) \/ NoLoopNoMark(t)
               \/ WaitReturns(t)
        PROVE  Quiet
    BY <1>1 DEF Quiet, Speak, Interrupted, PutOutbound, NoLoopNoMark, WaitReturns, Goto, End,
         TypeOK, ThreadsOK, Threads
  <1>2. ASSUME NEW h \in Hangers, Arm(h) \/ HangerStep(h) PROVE Quiet
    BY <1>2, RoleAssumption
       DEF Quiet, Arm, HangerStep, CheckGeneration, FireDisconnect, Goto, End, TypeOK,
           ThreadsOK, Threads
  <1>3. ASSUME NEW c \in Clearers, CheckClear(c) \/ PutClear(c) PROVE Quiet
    BY <1>3, RoleAssumption
       DEF Quiet, CheckClear, PutClear, Goto, TypeOK, ThreadsOK, Threads
  <1>4. CASE UNCHANGED <<pc, name, evt>>
    BY <1>4 DEF Quiet
  <1>. QED
    BY <1>1, <1>2, <1>3, <1>4
       DEF Next, vars, threads, SpeakerStep, NotifyStep, ResetStep, RunTask, RunSet,
           SetLoop, Connect, Media, FeedStt, SendAudio, SendMark, RemoteHangup,
           HangupAgain, RequestedClose, SignalDisconnected, NotifyDone, NotifyFails,
           ResetBegin, ResetWakeDone, ResetFails, ResetClearMarks, ResetClearLink,
           ResetClearIntent, ResetStopStt, ResetDrainInbound, ResetDrainOutbound

LEMMA ImplementsStep ==
  ASSUME MarkInv, MarkOnce, [Next]_vars
  PROVE  [MS!Next]_(MS!vars)
  <1>1. ASSUME NEW t \in Speakers, RegisterMark(t) \/ WaitExpires(t) \/ Leave(t)
        PROVE  MS!Next
    BY <1>1, CallStep, ExpireStep, ReturnStep DEF MS!Next
  <1>2. CASE Echo
    BY <1>2, EchoStep DEF MS!Next
  <1>3. CASE NotifyNext \/ ResetWakeNext
    BY <1>3, ReleaseStep DEF MS!Next
  <1>4. CASE /\ ~(Echo \/ NotifyNext \/ ResetWakeNext)
             /\ \A t \in Speakers : ~(RegisterMark(t) \/ WaitExpires(t) \/ Leave(t))
    <2>1. Quiet
      BY <1>4, QuietSteps DEF MarkInv
    <2>2. Flying' \subseteq Flying
      BY <1>4, FlyingShrinks DEF MarkInv
    <2>3. MS!Lose
      BY <2>1, <2>2, LoseStep
    <2>. QED BY <2>3 DEF MS!Next
  <1>. QED BY <1>1, <1>2, <1>3, <1>4

\* send_mark_and_wait keeps the promise of MarkSync for any number of threads,
\* names and resets: a wait is released by the echo of its own mark, once, or
\* because the call ends, or it expires.
THEOREM RefinesMarkSync == Spec => ImplementsMarkSync
  <1>1. ASSUME Init PROVE MS!Init
    <2>1. Flying = {}
      <3>1. wire = {} /\ Len(markQueue) = 0 /\ Len(tasks) = 0
        BY <1>1 DEF Init
      <3>. QED BY <3>1 DEF Flying
    <2>2. Travels = [t \in Speakers |-> FALSE]
      <3>1. \A t \in Speakers : ([id |-> name[t], by |-> t] \in Flying) = FALSE
        BY <2>1
      <3>. QED BY <3>1, Zenon DEF Travels
    <2>3. Phases = [t \in Speakers |-> "out"]
      BY <1>1 DEF Init, Phases, Threads
    <2>4. Waking = FALSE
      BY <1>1 DEF Init, Waking
    <2>. QED BY <2>2, <2>3, <2>4 DEF MS!Init
  <1>2. MarkInv /\ MarkOnce /\ [Next]_vars => [MS!Next]_(MS!vars)
    BY ImplementsStep
  <1>. QED BY <1>1, <1>2, OnceInvariant, PTL DEF Spec, MS!Spec, ImplementsMarkSync
=============================================================================
