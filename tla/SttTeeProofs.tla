---------------------------- MODULE SttTeeProofs ----------------------------
(***************************************************************************)
(* What holds of SttTee with its Azure session for any number of cancel    *)
(* events, attempts and frames: both providers are given the call in       *)
(* order, there is never a second recognizer, a dead one is not forgotten, *)
(* and a stop() that does not overlap start() leaves nothing that runs.    *)
(***************************************************************************)
EXTENDS SttTee, SequenceTheorems, TLAPS

\* What start() has not made yet
NotStarted == starting # "done" => /\ fanout = "none" /\ alive = {} /\ failed = {}
                                   /\ \A j \in Jobs : job[j] = "idle"

\* The provider's stop() is called once, by the tee's.
StopOnce == stopAt \in {"no", "fanout", "primary"} => azureStop = "no" /\ doomed = {}

\* From the moment stop() begins, a job that can still make a recognizer was cancelled by
\* it or had escaped it, and when it has returned those it cancelled are over.
NoneNew == azureStop # "no" =>
              /\ stopping
              /\ escaped = {} => \A j \in Jobs : job[j] \in {"idle", "event", "done"} \/ j \in doomed
NoneLeft == azureStop = "done" => \A j \in doomed : job[j] = "done"

\* A stop() that finds start() returned, or not called, has no fan-out task behind it.
FanoutOver == ~overlapped => /\ stopAt # "no" => starting # "primary"
                             /\ stopAt \in {"primary", "secondary", "done"} =>
                                    fanout \in {"none", "ended"}

StopInv ==
    /\ job \in [Jobs -> {"idle", "event", "passed", "scheduled", "backoff", "done"}]
    /\ azureStop \in {"no", "gather", "done"} /\ owned \subseteq Jobs /\ doomed \subseteq Jobs
    /\ NotStarted /\ StopOnce /\ NoneNew /\ NoneLeft /\ FanoutOver
    /\ OneRecognizer /\ StoppedIsSilent

USE DEF StopInv, NotStarted, StopOnce, NoneNew, NoneLeft, FanoutOver, OneRecognizer,
        StoppedIsSilent, source, tee, vars, azure, engine, work, JobGoes, JobEnds

LEMMA StopInvInit == Init => StopInv
BY DEF Init, AzureInit

\* the transport, start() and the fan-out task
LEMMA TransportKeeps ==
    ASSUME StopInv, FrameArrives \/ CallEnds \/ StartBegins \/ StartCancelled \/ PrimaryRaises
    PROVE  StopInv'
BY DEF FrameArrives, CallEnds, StartBegins, StartCancelled, PrimaryRaises

LEMMA StartKeeps == ASSUME StopInv, PrimaryStarts PROVE StopInv'
<1>. starting = "primary" /\ starting' = "done" /\ fanout' = "new" /\ alive = {}
  BY DEF PrimaryStarts, SecondaryFails
<1>1. CASE AzureStarts
  BY <1>1 DEF AzureStarts, Built, PrimaryStarts
<1>2. CASE AzureStartRaises
  BY <1>2 DEF AzureStartRaises, BuildRaises, PrimaryStarts
<1> QED BY <1>1, <1>2 DEF PrimaryStarts

LEMMA FanoutKeeps == ASSUME StopInv, FanoutStep PROVE StopInv'
BY DEF FanoutStep, FanoutBegins, Fanout, FanoutCancelled, Sentinel, PutToBoth

\* the provider's own steps
LEMMA JobKeeps ==
    ASSUME StopInv, NEW j \in Jobs, SdkStep(j) \/ JobStep(j) \/ Dies(j), UNCHANGED <<source, tee>>
    PROVE  StopInv'
<1>1. CASE Dies(j) BY <1>1 DEF Dies
<1>2. CASE TestStopping(j) BY <1>2 DEF TestStopping, MayReconnect
<1>3. CASE Submit(j) BY <1>3 DEF Submit
<1>4. CASE Own(j) BY <1>4 DEF Own
<1>5. CASE Begin(j) BY <1>5 DEF Begin, Attempt
<1>6. CASE Reconnects(j) BY <1>6 DEF Reconnects, Built, StillRunning
<1>7. CASE ReconnectRaises(j)
  BY <1>7 DEF ReconnectRaises, BuildRaises, StillRunning, Recurse, Attempt
<1>8. CASE JobCancelled(j) BY <1>8 DEF JobCancelled
<1> QED BY <1>1, <1>2, <1>3, <1>4, <1>5, <1>6, <1>7, <1>8 DEF SdkStep, JobStep

LEMMA FeedKeeps ==
    ASSUME StopInv, FeedStep \/ EndOfStream, UNCHANGED <<source, tee>>
    PROVE  StopInv'
BY DEF FeedStep, Feed, FeedCancelled, EndOfStream

\* stop()
LEMMA StopKeeps == ASSUME StopInv, StopBegins \/ StopStep PROVE StopInv'
<1>1. CASE StopBegins BY <1>1 DEF StopBegins, Cancelled
<1>2. CASE FanoutJoined BY <1>2 DEF FanoutJoined
<1>3. CASE PrimaryStopped
  <2>1. /\ stopAt = "primary" /\ stopAt' = "secondary" /\ azureStop = "no" /\ doomed = {}
        /\ stopping' = TRUE /\ doomed' = owned
        /\ escaped' = escaped \cup
                        {j \in Jobs \ owned : job[j] \in {"passed", "scheduled", "backoff"}}
        /\ UNCHANGED <<job, recognizer, failed, starting, fanout, overlapped>>
    BY <1>3 DEF PrimaryStopped, AzureStopBegins, Cancels
  <2>2. \/ alive' = alive \ {recognizer} /\ azureStop' = "done" /\ owned = {}
        \/ alive' = alive /\ azureStop' = "gather"
    BY <1>3 DEF PrimaryStopped, AzureStopBegins, Closes
  <2>3. NotStarted' /\ StopOnce' /\ FanoutOver' /\ OneRecognizer'
    BY <2>1, <2>2
  <2>4. NoneNew' /\ NoneLeft' /\ StoppedIsSilent'
    BY <2>1, <2>2
  <2>5. owned' \subseteq Jobs /\ doomed' \subseteq Jobs
    BY <1>3, <2>1 DEF PrimaryStopped, AzureStopBegins
  <2>6. /\ job' \in [Jobs -> {"idle", "event", "passed", "scheduled", "backoff", "done"}]
        /\ azureStop' \in {"no", "gather", "done"}
    BY <2>1, <2>2
  <2>. HIDE DEF NotStarted, StopOnce, NoneNew, NoneLeft, FanoutOver, OneRecognizer, StoppedIsSilent
  <2> QED BY <2>3, <2>4, <2>5, <2>6
<1>4. CASE SecondaryStops BY <1>4 DEF SecondaryStops, AzureStopResumes, Closes
<1>5. CASE StopReturns BY <1>5 DEF StopReturns
<1> QED BY <1>1, <1>2, <1>3, <1>4, <1>5 DEF StopStep

LEMMA StopInvStep == ASSUME StopInv, [Next]_vars PROVE StopInv'
<1>1. CASE UNCHANGED vars BY <1>1
<1>2. CASE Provider(AzureNext)
  BY <1>2, JobKeeps, FeedKeeps DEF Provider, AzureNext
<1> QED BY <1>1, <1>2, TransportKeeps, StartKeeps, FanoutKeeps, StopKeeps DEF Next

LEMMA StopInvariant == Spec => []StopInv
BY StopInvInit, StopInvStep, PTL DEF Spec

\* NC-258: however many reconnects overlap and whichever fail, at most the recognizer the
\* session holds runs (azure_stt.py:298).
THEOREM NeverTwo == Spec => []OneRecognizer
<1>1. StopInv => OneRecognizer OBVIOUS
<1> QED BY <1>1, StopInvariant, PTL

\* VR-005: after a stop() that does not overlap start() no task takes the session's audio
\* and no recognizer runs (stt_tee.py:134, azure_stt.py:197).
THEOREM StopEndsAll == Spec => []StopIsFinal
<1>1. StopInv => StopIsFinal BY DEF StopIsFinal
<1> QED BY <1>1, StopInvariant, PTL

HIDE DEF StopInv, NotStarted, StopOnce, NoneNew, NoneLeft, FanoutOver, OneRecognizer,
         StoppedIsSilent
-----------------------------------------------------------------------------
(* What DeafIsReported, a liveness property, rests on                      *)

\* A cancel event or its reconnect is under way.
Pending(j) == job[j] \in {"event", "passed", "scheduled", "backoff"}
Hopeful == reported \/ stopping \/ \E j \in Jobs : Pending(j)

\* The secondary never goes deaf with nobody to know of it.
NeverForgotten == Deaf => Hopeful

\* A stream that a failed rebuild closed ends its recognition without an error, so a closed
\* stream has to be known to somebody as well.  Only jobs that a stop() owned are cancelled.
DeafInv ==
    /\ feed = "get" /\ (recognizer \notin alive \/ ~writable) => Hopeful
    /\ doomed # {} => stopping
    /\ starting # "done" => owned = {} /\ doomed = {} /\ feed = "none"

LEMMA DeafInvInit == Init => DeafInv
BY DEF Init, AzureInit, DeafInv

LEMMA JobKeepsHope ==
    ASSUME StopInv, DeafInv, NEW j \in Jobs, SdkStep(j) \/ JobStep(j) \/ Dies(j),
           UNCHANGED <<source, tee>>
    PROVE  DeafInv'
<1>0. /\ job \in [Jobs -> {"idle", "event", "passed", "scheduled", "backoff", "done"}]
      /\ starting # "done" => job[j] = "idle" /\ alive \cup failed = {}
  BY DEF StopInv, NotStarted
<1>1. CASE Dies(j)
  <2>1. starting = "done" BY <1>0, <1>1 DEF Dies
  <2>2. Pending(j)' BY <1>0, <1>1 DEF Dies, JobGoes, Pending
  <2> QED BY <1>1, <2>1, <2>2 DEF DeafInv, Hopeful, Dies
<1>. DEFINE Unmoved == UNCHANGED <<feed, recognizer, alive, writable, stopping, doomed, starting>>
<1>2. CASE TestStopping(j) \/ Submit(j) \/ Own(j) \/ Begin(j) \/ JobCancelled(j)
  <2>1. Unmoved /\ starting = "done" /\ (reported => reported')
    BY <1>0, <1>2 DEF TestStopping, Submit, Own, Begin, Attempt, JobCancelled, JobGoes, JobEnds
  <2>2. \A k \in Jobs \ {j} : job'[k] = job[k]
    BY <1>0, <1>2 DEF TestStopping, Submit, Own, Begin, Attempt, JobCancelled, JobGoes, JobEnds
  <2>3. job[j] # "idle" /\ (Pending(j)' \/ reported' \/ stopping)
    BY <1>0, <1>2 DEF TestStopping, MayReconnect, Submit, Own, Begin, Attempt, JobCancelled,
                      JobGoes, JobEnds, Pending, DeafInv
  <2>4. Hopeful => Hopeful' BY <2>1, <2>2, <2>3 DEF Hopeful, Pending
  <2> QED BY <2>1, <2>4 DEF DeafInv
<1>3. CASE Reconnects(j)
  <2>1. recognizer' \in alive' /\ writable' = TRUE /\ UNCHANGED <<stopping, doomed, starting>>
    BY <1>3 DEF Reconnects, Built
  <2>2. starting = "done" BY <1>0, <1>3 DEF Reconnects
  <2> QED BY <2>1, <2>2 DEF DeafInv
<1>4. CASE ReconnectRaises(j)
  <2>1. UNCHANGED <<feed, stopping, doomed, starting>> /\ starting = "done"
    BY <1>0, <1>4 DEF ReconnectRaises
  <2>2. Pending(j)' \/ reported'
    BY <1>0, <1>4 DEF ReconnectRaises, Recurse, Attempt, JobGoes, JobEnds, Pending
  <2> QED BY <2>1, <2>2 DEF DeafInv, Hopeful
<1> QED BY <1>1, <1>2, <1>3, <1>4 DEF SdkStep, JobStep

LEMMA DeafInvStep == ASSUME StopInv, DeafInv, [Next]_vars PROVE DeafInv'
<1>1. CASE FrameArrives \/ CallEnds \/ StartBegins \/ StartCancelled \/ PrimaryRaises
  <2>1. UNCHANGED azure /\ (starting' = "done" => starting = "done")
        /\ (starting = "done" => starting' = "done")
    BY <1>1 DEF FrameArrives, CallEnds, StartBegins, StartCancelled, PrimaryRaises
  <2> QED BY <2>1 DEF DeafInv, Hopeful, Pending
<1>2. CASE PrimaryStarts
  <2>1. doomed = {} /\ owned = {} /\ feed = "none"
    BY <1>2 DEF PrimaryStarts, DeafInv, AzureStarts, AzureStartRaises
  <2>2. CASE AzureStarts
    <3>1. recognizer' \in alive' /\ writable' = TRUE /\ UNCHANGED <<owned, doomed>>
      BY <2>2 DEF AzureStarts, Built
    <3>2. starting' = "done"
      BY <1>2 DEF PrimaryStarts, SecondaryFails
    <3> QED BY <2>1, <3>1, <3>2 DEF DeafInv
  <2>3. CASE AzureStartRaises
    BY <1>2, <2>1, <2>3 DEF PrimaryStarts, AzureStartRaises, SecondaryFails, DeafInv
  <2> QED BY <1>2, <2>2, <2>3 DEF PrimaryStarts
<1>3. CASE FanoutStep \/ StopBegins \/ FanoutJoined \/ StopReturns \/ UNCHANGED vars
  <2>1. UNCHANGED <<stopping, engine, feed, work, reported, starting>>
    BY <1>3 DEF FanoutStep, FanoutBegins, Fanout, FanoutCancelled, Sentinel, PutToBoth,
                StopBegins, FanoutJoined, StopReturns
  <2> QED BY <2>1 DEF DeafInv, Hopeful, Pending
<1>4. CASE PrimaryStopped
  <2>1. /\ stopping' = TRUE /\ UNCHANGED starting /\ owned' = {} /\ doomed' = doomed \cup owned
        /\ feed = "none" => feed' = "none"
    BY <1>4 DEF PrimaryStopped, AzureStopBegins, Cancels
  <2> QED BY <2>1 DEF DeafInv, Hopeful
<1>5. CASE SecondaryStops
  <2>1. stopping /\ UNCHANGED <<stopping, starting, owned, doomed, feed>>
    BY <1>5 DEF SecondaryStops, AzureStopResumes, StopInv, NoneNew
  <2> QED BY <2>1 DEF DeafInv, Hopeful
<1>6. CASE Provider(EndOfStream \/ FeedStep)
  <2>1. UNCHANGED <<recognizer, stopping, work, reported, starting>>
    BY <1>6 DEF Provider, EndOfStream, FeedStep, Feed, FeedCancelled
  <2>2. CASE feed' = "get"
    <3>1. /\ feed = "get"
          /\ UNCHANGED writable /\ (alive' = alive \/ ~writable)
      BY <1>6, <2>2 DEF Provider, EndOfStream, FeedStep, Feed, FeedCancelled
    <3> QED BY <2>1, <3>1 DEF DeafInv, Hopeful, Pending
  <2>3. CASE feed' # "get"
    <3>1. feed = "none" => feed' = "none"
      BY <1>6 DEF Provider, EndOfStream, FeedStep, Feed, FeedCancelled
    <3> QED BY <2>1, <2>3, <3>1 DEF DeafInv
  <2> QED BY <2>2, <2>3
<1>7. ASSUME NEW j \in Jobs, Provider(Dies(j) \/ SdkStep(j) \/ JobStep(j)) PROVE DeafInv'
  BY <1>7, JobKeepsHope DEF Provider
<1> QED BY <1>1, <1>2, <1>3, <1>4, <1>5, <1>6, <1>7 DEF Next, AzureNext, StopStep, Provider

\* NC-258 J-1: while the secondary is fed and its recognition is over, a reconnect is under
\* way, or the loss was reported, or the provider stops: whatever fails, and however many
\* reconnects overlap (azure_stt.py:253 and :330).
THEOREM DeafIsNotForgotten == Spec => []NeverForgotten
<1>1. DeafInv => NeverForgotten BY DEF DeafInv, NeverForgotten, Deaf
<1> QED BY <1>1, DeafInvInit, DeafInvStep, StopInvariant, PTL DEF Spec

-----------------------------------------------------------------------------
(* Types                                                                   *)

USE FramesAssumption, AttemptsAssumption DEF End

\* the recognizers, push streams and attempts
Numbers ==
    /\ attempt \in Nat /\ {recognizer, stream, made} \subseteq Nat
    /\ alive \cup failed \subseteq Nat
    /\ recognizer <= made /\ stream <= made
    /\ feed # "none" => recognizer # 0

\* the places in the code, and the sets of jobs
Places ==
    /\ feed \in {"none", "get", "cancelled", "ended", "raised"}
    /\ job \in [Jobs -> {"idle", "event", "passed", "scheduled", "backoff", "done"}]
    /\ owned \subseteq Jobs /\ doomed \subseteq Jobs /\ escaped \subseteq Jobs
    /\ azureStop \in {"no", "gather", "done"}
    /\ starting \in {"no", "primary", "done", "raised", "cancelled"}
    /\ fanout \in {"none", "new", "get", "cancelled", "ended"}
    /\ fanout # "none" <=> starting = "done"
    /\ stopAt \in {"no", "fanout", "primary", "secondary", "done"}
    /\ {stopping, writable, reported, over, overlapped} \subseteq BOOLEAN

\* the queues, and the frames
Queues ==
    /\ inbound \in Seq(0..MaxFrames) /\ pq \in Seq(0..MaxFrames)
    /\ aq \in Seq(Nat) /\ arrived \in 0..MaxFrames

LEMMA NumbersKept == ASSUME Numbers, [Next]_vars PROVE Numbers'
<1>. USE DEF Numbers
<1>1. CASE PrimaryStarts
  BY <1>1 DEF PrimaryStarts, AzureStarts, AzureStartRaises, Built, BuildRaises
<1>2. ASSUME NEW j \in Jobs, Dies(j) \/ SdkStep(j) \/ JobStep(j) PROVE Numbers'
  <2>1. CASE Dies(j) BY <2>1 DEF Dies
  <2>2. CASE SdkStep(j) BY <2>2 DEF SdkStep, TestStopping, Submit, Own
  <2>3. CASE Begin(j) BY <2>3 DEF Begin
  <2>4. CASE Reconnects(j) BY <2>4 DEF Reconnects, Built, StillRunning
  <2>5. CASE ReconnectRaises(j) BY <2>5 DEF ReconnectRaises, BuildRaises, StillRunning
  <2>6. CASE JobCancelled(j) BY <2>6 DEF JobCancelled
  <2> QED BY <1>2, <2>1, <2>2, <2>3, <2>4, <2>5, <2>6 DEF JobStep
<1>3. CASE EndOfStream \/ FeedStep BY <1>3 DEF EndOfStream, FeedStep, Feed, FeedCancelled
<1>4. CASE FrameArrives \/ CallEnds \/ StartBegins \/ StartCancelled \/ PrimaryRaises
  BY <1>4 DEF FrameArrives, CallEnds, StartBegins, StartCancelled, PrimaryRaises
<1>5. CASE FanoutStep
  BY <1>5 DEF FanoutStep, FanoutBegins, Fanout, FanoutCancelled, Sentinel, PutToBoth
<1>6. CASE StopBegins \/ FanoutJoined \/ StopReturns
  BY <1>6 DEF StopBegins, FanoutJoined, StopReturns
<1>7. CASE PrimaryStopped BY <1>7 DEF PrimaryStopped, AzureStopBegins, Closes
<1>8. CASE SecondaryStops BY <1>8 DEF SecondaryStops, AzureStopResumes, Closes
<1>9. CASE UNCHANGED vars BY <1>9
<1> QED BY <1>1, <1>2, <1>3, <1>4, <1>5, <1>6, <1>7, <1>8, <1>9
        DEF Next, Provider, AzureNext, StopStep

LEMMA PlacesKept == ASSUME Places, [Next]_vars PROVE Places'
<1>. USE DEF Places
<1>1. CASE PrimaryStarts
  BY <1>1 DEF PrimaryStarts, AzureStarts, AzureStartRaises, Built, BuildRaises, SecondaryFails
<1>2. ASSUME NEW j \in Jobs, Dies(j) \/ SdkStep(j) \/ JobStep(j), UNCHANGED <<source, tee>>
      PROVE  Places'
  <2>1. CASE Dies(j) BY <1>2, <2>1 DEF Dies
  <2>2. CASE SdkStep(j) BY <1>2, <2>2 DEF SdkStep, TestStopping, Submit, Own
  <2>3. CASE Begin(j) BY <1>2, <2>3 DEF Begin, Attempt
  <2>4. CASE Reconnects(j) BY <1>2, <2>4 DEF Reconnects, Built, StillRunning
  <2>5. CASE ReconnectRaises(j)
    <3>1. /\ writable' \in BOOLEAN /\ UNCHANGED <<stopping, feed, doomed, escaped, azureStop>>
          /\ Recurse(j, attempt + 1)
      BY <2>5 DEF ReconnectRaises, BuildRaises
    <3>2. CASE JobEnds(j) /\ reported' = TRUE BY <1>2, <3>1, <3>2 DEF JobEnds, JobGoes
    <3>3. CASE JobGoes(j, "backoff") /\ UNCHANGED <<owned, reported>>
      BY <1>2, <3>1, <3>3 DEF JobGoes
    <3> QED BY <3>1, <3>2, <3>3 DEF Recurse, Attempt
  <2>6. CASE JobCancelled(j) BY <1>2, <2>6 DEF JobCancelled
  <2> QED BY <1>2, <2>1, <2>2, <2>3, <2>4, <2>5, <2>6 DEF JobStep
<1>3. CASE Provider(EndOfStream) \/ Provider(FeedStep)
  <2>1. CASE Provider(EndOfStream) BY <2>1 DEF Provider, EndOfStream
  <2>2. CASE Provider(FeedStep) BY <2>2 DEF Provider, FeedStep, Feed, FeedCancelled
  <2> QED BY <1>3, <2>1, <2>2
<1>4. CASE FrameArrives \/ CallEnds \/ StartBegins \/ StartCancelled \/ PrimaryRaises
  <2>1. CASE FrameArrives
    <3>1. UNCHANGED <<azure, over, tee>> BY <2>1 DEF FrameArrives
    <3> QED BY <3>1
  <2>2. CASE CallEnds BY <2>2 DEF CallEnds
  <2>3. CASE StartBegins BY <2>3 DEF StartBegins
  <2>4. CASE StartCancelled \/ PrimaryRaises BY <2>4 DEF StartCancelled, PrimaryRaises
  <2> QED BY <1>4, <2>1, <2>2, <2>3, <2>4
<1>5. CASE FanoutStep
  BY <1>5 DEF FanoutStep, FanoutBegins, Fanout, FanoutCancelled, Sentinel, PutToBoth
<1>6. CASE StopBegins \/ FanoutJoined \/ StopReturns
  <2>1. CASE StopBegins
    <3>1. /\ Cancelled \in {"none", "new", "get", "cancelled", "ended"}
          /\ Cancelled = "none" <=> fanout = "none"
      BY DEF Cancelled
    <3> QED BY <2>1, <3>1 DEF StopBegins
  <2>2. CASE FanoutJoined BY <2>2 DEF FanoutJoined
  <2>3. CASE StopReturns BY <2>3 DEF StopReturns
  <2> QED BY <1>6, <2>1, <2>2, <2>3
<1>7. CASE PrimaryStopped BY <1>7 DEF PrimaryStopped, AzureStopBegins, Cancels, Closes
<1>8. CASE SecondaryStops BY <1>8 DEF SecondaryStops, AzureStopResumes, Closes
<1>9. CASE UNCHANGED vars BY <1>9
<1> QED BY <1>1, <1>2, <1>3, <1>4, <1>5, <1>6, <1>7, <1>8, <1>9
        DEF Next, Provider, AzureNext, StopStep

LEMMA QueuesKept == ASSUME Queues, [Next]_vars PROVE Queues'
<1>. USE DEF Queues
<1>1. CASE FrameArrives
  <2>1. arrived + 1 \in 0..MaxFrames BY <1>1 DEF FrameArrives
  <2> QED BY <1>1, <2>1 DEF FrameArrives
<1>2. CASE CallEnds
  <2>1. End \in 0..MaxFrames OBVIOUS
  <2> QED BY <1>2, <2>1 DEF CallEnds
<1>3. ASSUME NEW f \in 0..MaxFrames
      PROVE  Append(pq, f) \in Seq(0..MaxFrames) /\ Append(aq, f) \in Seq(Nat)
  OBVIOUS
<1>4. CASE Fanout
  <2>1. Head(inbound) \in 0..MaxFrames /\ Tail(inbound) \in Seq(0..MaxFrames)
    BY <1>4 DEF Fanout
  <2> QED BY <1>3, <1>4, <2>1 DEF Fanout, PutToBoth
<1>5. CASE FanoutCancelled
  <2>1. End \in 0..MaxFrames OBVIOUS
  <2> QED BY <1>3, <1>5, <2>1 DEF FanoutCancelled, Sentinel, PutToBoth
<1>6. CASE Provider(Feed)
  <2>1. aq # <<>> => Tail(aq) \in Seq(Nat) OBVIOUS
  <2> QED BY <1>6, <2>1 DEF Provider, Feed
<1>7. CASE UNCHANGED <<inbound, pq, aq, arrived>> BY <1>7
<1>8. [Next]_vars => \/ FrameArrives \/ CallEnds \/ Fanout \/ FanoutCancelled \/ Provider(Feed)
                     \/ UNCHANGED <<inbound, pq, aq, arrived>>
  <2>1. ASSUME NEW j \in Jobs, Dies(j) \/ SdkStep(j) \/ JobStep(j) PROVE UNCHANGED aq
    BY <2>1 DEF Dies, SdkStep, TestStopping, Submit, Own, JobStep, Begin, Reconnects,
                ReconnectRaises, JobCancelled
  <2>2. EndOfStream \/ FeedCancelled => UNCHANGED aq BY DEF EndOfStream, FeedCancelled
  <2>3. FanoutBegins \/ StartBegins \/ StartCancelled \/ PrimaryRaises
            => UNCHANGED <<inbound, pq, aq, arrived>>
    BY DEF FanoutBegins, StartBegins, StartCancelled, PrimaryRaises
  <2>4. PrimaryStarts => UNCHANGED <<inbound, pq, aq, arrived>>
    BY DEF PrimaryStarts, AzureStarts, AzureStartRaises
  <2>5. StopBegins \/ StopStep => UNCHANGED <<inbound, pq, aq, arrived>>
    BY DEF StopBegins, StopStep, FanoutJoined, StopReturns, PrimaryStopped, AzureStopBegins,
           SecondaryStops, AzureStopResumes
  <2> QED BY <2>1, <2>2, <2>3, <2>4, <2>5 DEF Next, Provider, AzureNext, FeedStep, FanoutStep
<1> QED BY <1>1, <1>2, <1>4, <1>5, <1>6, <1>7, <1>8

LEMMA PlacesInvariant == Spec => []Places
<1>1. Init => Places
  <2>1. Init => job \in [Jobs -> {"idle", "event", "passed", "scheduled", "backoff", "done"}]
    BY DEF Init, AzureInit
  <2> QED BY <2>1 DEF Init, AzureInit, Places
<1>2. Places /\ [Next]_vars => Places' BY PlacesKept
<1> QED BY <1>1, <1>2, PTL DEF Spec

LEMMA QueuesInvariant == Spec => []Queues
<1>1. Init => Queues BY DEF Init, AzureInit, Queues
<1>2. Queues /\ [Next]_vars => Queues' BY QueuesKept
<1> QED BY <1>1, <1>2, PTL DEF Spec

\* Every variable keeps its type, the fan-out task is there once start() has returned and
\* never before, and no audio is fed before there was a recognizer.
THEOREM TypeCorrect == Spec => []TypeOK
<1>1. Init => Numbers BY DEF Init, AzureInit, Numbers
<1>2. Numbers /\ [Next]_vars => Numbers' BY NumbersKept
<1>3. Numbers /\ Places /\ Queues => TypeOK
  BY DEF Numbers, Places, Queues, TypeOK, AzureTypeOK
<1> QED BY <1>1, <1>2, <1>3, PlacesInvariant, QueuesInvariant, PTL DEF Spec

-----------------------------------------------------------------------------
(* What the providers hear                                                 *)

\* the frames put to the providers, and those that wait
Put   == IF EndsIn(pq) THEN Len(pq) - 1 ELSE Len(pq)
Waits == IF EndsIn(inbound) THEN Len(inbound) - 1 ELSE Len(inbound)

\* The frames are numbered through both queues, and an end is behind all of them: the call's
\* while it waits, the providers' when the fan-out task is over.
Numbered == /\ Put + Waits = arrived
            /\ \A i \in 1..Put : pq[i] = i
            /\ \A i \in 1..Waits : inbound[i] = Put + i
Ends     == /\ EndsIn(inbound) => over
            /\ fanout \in {"none", "new"} => pq = <<>>
            /\ fanout # "ended" => ~EndsIn(pq)
            /\ fanout = "ended" => pq = <<>> \/ EndsIn(pq)
\* the secondary's queue is what it has not taken of the primary's
Behind   == /\ Len(aq) <= Len(pq)
            /\ \A i \in 1..Len(aq) : aq[i] = pq[Len(pq) - Len(aq) + i]
OrderInv == Numbered /\ Ends /\ Behind

LEMMA Counts ==
    ASSUME Queues
    PROVE  /\ Len(pq) \in Nat /\ Len(inbound) \in Nat /\ Len(aq) \in Nat
           /\ Put \in Nat /\ Put = (IF EndsIn(pq) THEN Len(pq) - 1 ELSE Len(pq))
           /\ Waits \in Nat /\ Waits <= Len(inbound)
           /\ Waits = Len(inbound) \/ Waits = Len(inbound) - 1
           /\ \A i \in 1..Len(pq) : i \in 1..Put \/ (i = Len(pq) /\ EndsIn(pq))
<1>1. Len(pq) \in Nat /\ Len(inbound) \in Nat /\ Len(aq) \in Nat BY DEF Queues
<1>2. EndsIn(pq) => Len(pq) # 0 BY EmptySeq DEF EndsIn, Queues
<1>3. EndsIn(inbound) => Len(inbound) # 0 BY EmptySeq DEF EndsIn, Queues
<1>4. Put = (IF EndsIn(pq) THEN Len(pq) - 1 ELSE Len(pq)) BY <1>1 DEF Put
<1>5. Waits = (IF EndsIn(inbound) THEN Len(inbound) - 1 ELSE Len(inbound)) BY <1>1 DEF Waits
<1>6. Put \in Nat /\ Waits \in Nat /\ Waits <= Len(inbound)
  BY <1>1, <1>2, <1>3, <1>4, <1>5
<1>7. \A i \in 1..Len(pq) : i \in 1..Put \/ (i = Len(pq) /\ EndsIn(pq))
  BY <1>1, <1>4
<1>8. Waits = Len(inbound) \/ Waits = Len(inbound) - 1 BY <1>5
<1> QED BY <1>1, <1>4, <1>6, <1>7, <1>8

LEMMA OrderInvInit == Init => OrderInv
BY DEF Init, AzureInit, OrderInv, Numbered, Ends, Behind, Put, Waits, EndsIn

\* A frame that arrives, or the call's None, goes behind what waits.
LEMMA ArrivalKeepsOrder ==
    ASSUME Queues, OrderInv, FrameArrives \/ CallEnds PROVE OrderInv'
<1>. USE DEF Queues, OrderInv
<1>1. UNCHANGED <<pq, aq, fanout>> BY DEF FrameArrives, CallEnds, tee, azure
<1>2. ~EndsIn(inbound) /\ Waits = Len(inbound) BY DEF FrameArrives, CallEnds, Ends, Waits
<1>3. Put' = Put BY <1>1 DEF Put, EndsIn
<1>4. Ends' /\ Behind'
  <2>1. (EndsIn(inbound) => over)'
    BY <1>2 DEF FrameArrives, CallEnds, EndsIn
  <2> QED BY <1>1, <2>1 DEF Ends, Behind, EndsIn
<1>5. CASE FrameArrives
  <2>1. /\ arrived' = arrived + 1 /\ Len(inbound') = Len(inbound) + 1
        /\ \A i \in 1..Len(inbound) : inbound'[i] = inbound[i]
        /\ inbound'[Len(inbound) + 1] = arrived + 1
    BY <1>5 DEF FrameArrives
  <2>2. Waits' = Len(inbound) + 1 BY <2>1 DEF Waits, EndsIn
  <2>3. \A i \in 1..Len(inbound) + 1 : inbound'[i] = Put + i
    <3>1. Put + Len(inbound) = arrived /\ \A i \in 1..Len(inbound) : inbound[i] = Put + i
      BY <1>2 DEF Numbered
    <3>2. \A i \in 1..Len(inbound) + 1 : i \in 1..Len(inbound) \/ i = Len(inbound) + 1
      <4>1. Len(inbound) \in Nat BY Counts
      <4> QED BY <4>1
    <3>3. arrived + 1 = Put + (Len(inbound) + 1) BY <3>1, Counts
    <3> QED BY <2>1, <3>1, <3>2, <3>3
  <2>4. Numbered' BY <1>1, <1>2, <1>3, <2>1, <2>2, <2>3, Counts DEF Numbered
  <2> QED BY <1>4, <2>4
<1>6. CASE CallEnds
  <2>1. /\ arrived' = arrived /\ Len(inbound') = Len(inbound) + 1
        /\ \A i \in 1..Len(inbound) : inbound'[i] = inbound[i]
        /\ inbound'[Len(inbound) + 1] = End
    BY <1>6 DEF CallEnds
  <2>2. Waits' = Len(inbound)
    <3>1. Len(inbound') # 0 /\ Len(inbound) \in Nat BY <2>1, Counts
    <3>2. inbound' # <<>> BY <3>1, EmptySeq
    <3> QED BY <2>1, <3>1, <3>2 DEF Waits, EndsIn
  <2>3. Numbered' BY <1>1, <1>2, <1>3, <2>1, <2>2, Counts DEF Numbered
  <2> QED BY <1>4, <2>3
<1> QED BY <1>5, <1>6

\* What is put goes behind what was put, to both.
LEMMA PutKeepsBehind ==
    ASSUME Queues, Behind, NEW f \in 0..MaxFrames, PutToBoth(f)
    PROVE  /\ Behind'
           /\ Len(pq') = Len(pq) + 1 /\ pq'[Len(pq) + 1] = f
           /\ \A i \in 1..Len(pq) : pq'[i] = pq[i]
<1>. DEFINE n == Len(pq)
           k == Len(aq)
<1>1. n \in Nat /\ k \in Nat /\ k <= n /\ \A i \in 1..k : aq[i] = pq[n - k + i]
  BY Counts DEF Behind
<1>2. /\ Len(pq') = n + 1 /\ pq'[n + 1] = f /\ \A i \in 1..n : pq'[i] = pq[i]
  BY AppendProperties DEF Queues, PutToBoth
<1>3. /\ Len(aq') = k + 1 /\ aq'[k + 1] = f /\ \A i \in 1..k : aq'[i] = aq[i]
  <2>1. f \in Nat OBVIOUS
  <2> QED BY <2>1, AppendProperties DEF Queues, PutToBoth
<1>. HIDE DEF n, k
<1>4. \A i \in 1..k + 1 : aq'[i] = pq'[(n + 1) - (k + 1) + i]
  <2>. SUFFICES ASSUME NEW i \in 1..k + 1 PROVE aq'[i] = pq'[(n + 1) - (k + 1) + i] OBVIOUS
  <2>1. CASE i = k + 1
    <3>1. (n + 1) - (k + 1) + i = n + 1 BY <1>1, <2>1
    <3> QED BY <1>2, <1>3, <2>1, <3>1
  <2>2. CASE i # k + 1
    <3>1. i \in 1..k /\ n - k + i \in 1..n /\ (n + 1) - (k + 1) + i = n - k + i
      BY <1>1, <2>2
    <3> QED BY <1>1, <1>2, <1>3, <3>1
  <2> QED BY <2>1, <2>2
<1>5. Behind' BY <1>1, <1>2, <1>3, <1>4 DEF Behind
<1> QED BY <1>2, <1>5 DEF n

\* The fan-out task moves the first of what waits; the None is alone.
LEMMA FanoutKeepsOrder == ASSUME Queues, OrderInv, Fanout PROVE OrderInv'
<1>. USE DEF Queues, OrderInv
<1>. DEFINE f == Head(inbound)
<1>1. /\ inbound # <<>> /\ f = inbound[1] /\ Len(inbound) \in Nat \ {0} /\ ~EndsIn(pq)
      /\ f \in 0..MaxFrames /\ PutToBoth(f) /\ UNCHANGED <<arrived, over>>
      /\ Len(inbound') = Len(inbound) - 1
      /\ \A i \in 1..Len(inbound') : inbound'[i] = inbound[i + 1]
      /\ fanout' = IF f = End THEN "ended" ELSE "get"
  BY DEF Fanout, Ends
<1>2. /\ Behind' /\ Len(pq') = Len(pq) + 1 /\ pq'[Len(pq) + 1] = f
      /\ \A i \in 1..Len(pq) : pq'[i] = pq[i]
  BY <1>1, PutKeepsBehind
<1>. HIDE DEF f
<1>3. Put = Len(pq) /\ Len(pq) \in Nat BY <1>1 DEF Put
<1>4. f = End <=> Len(inbound) = 1 /\ EndsIn(inbound)
  <2>1. CASE 1 \in 1..Waits
    <3>1. f = Put + 1 /\ f # End
      <4>1. inbound[1] = Put + 1 BY <2>1 DEF Numbered
      <4>2. Put \in Nat BY Counts
      <4> QED BY <1>1, <4>1, <4>2
    <3>2. Len(inbound) # 1 \/ ~EndsIn(inbound)
      <4>1. Waits # 0 BY <2>1
      <4> QED BY <1>1, <4>1 DEF Waits
    <3> QED BY <3>1, <3>2
  <2>2. CASE 1 \notin 1..Waits
    <3>1. Waits = 0 /\ Len(inbound) = 1 /\ EndsIn(inbound) BY <1>1, <2>2, Counts DEF Waits
    <3> QED BY <1>1, <3>1 DEF EndsIn
  <2> QED BY <2>1, <2>2
<1>5. EndsIn(pq') <=> f = End BY <1>2, <1>3 DEF EndsIn
<1>6. EndsIn(inbound') <=> EndsIn(inbound) /\ f # End
  <2>1. CASE Len(inbound) = 1
    <3>1. inbound' = <<>>
      <4>1. inbound' \in Seq(0..MaxFrames) BY <1>1 DEF Fanout
      <4>2. Len(inbound') = 0 BY <1>1, <2>1
      <4> QED BY <4>1, <4>2, EmptySeq
    <3>2. ~EndsIn(inbound') BY <3>1 DEF EndsIn
    <3> QED BY <1>1, <1>4, <2>1, <3>2 DEF EndsIn
  <2>2. CASE Len(inbound) # 1
    <3>1. Len(inbound') \in 1..Len(inbound') /\ Len(inbound') + 1 = Len(inbound) BY <1>1, <2>2
    <3>2. inbound'[Len(inbound')] = inbound[Len(inbound)] BY <1>1, <3>1
    <3>3. inbound' # <<>> BY <3>1, EmptySeq
    <3> QED BY <1>1, <1>4, <2>2, <3>2, <3>3 DEF EndsIn
  <2> QED BY <2>1, <2>2
<1>7. Ends' BY <1>1, <1>2, <1>3, <1>5, <1>6 DEF Ends
<1>8. Numbered'
  <2>1. CASE f = End
    <3>1. Put' = Put /\ Waits' = 0 /\ Waits = 0
      <4>1. Len(inbound) = 1 /\ EndsIn(inbound) /\ ~EndsIn(inbound') /\ EndsIn(pq')
        BY <1>4, <1>5, <1>6, <2>1
      <4> QED BY <1>1, <1>2, <1>3, <4>1 DEF Put, Waits
    <3> QED BY <1>1, <1>2, <1>3, <3>1 DEF Numbered
  <2>2. CASE f # End
    <3>1. Put' = Put + 1 /\ Waits' = Waits - 1 /\ Waits \in Nat \ {0}
      <4>1. ~EndsIn(pq') /\ (EndsIn(inbound') <=> EndsIn(inbound)) BY <1>5, <1>6, <2>2
      <4>2. Put' = Put + 1 BY <1>2, <1>3, <4>1 DEF Put
      <4>3. Waits' = Waits - 1
        <5>1. CASE EndsIn(inbound)
          <6>1. EndsIn(inbound') BY <4>1, <5>1
          <6> QED BY <1>1, <5>1, <6>1 DEF Waits
        <5>2. CASE ~EndsIn(inbound)
          <6>1. ~EndsIn(inbound') BY <4>1, <5>2
          <6> QED BY <1>1, <5>2, <6>1 DEF Waits
        <5> QED BY <5>1, <5>2
      <4>4. Waits # 0
        <5>1. CASE EndsIn(inbound) BY <1>1, <1>4, <2>2, <5>1 DEF Waits
        <5>2. CASE ~EndsIn(inbound) BY <1>1, <5>2 DEF Waits
        <5> QED BY <5>1, <5>2
      <4> QED BY <4>2, <4>3, <4>4, Counts
    <3>2. f = Put + 1 BY <1>1, <3>1 DEF Numbered
    <3>3. \A i \in 1..Put' : pq'[i] = i
      <4>1. \A i \in 1..Len(pq) : pq[i] = i BY <1>3 DEF Numbered
      <4>2. \A i \in 1..Len(pq) + 1 : i \in 1..Len(pq) \/ i = Len(pq) + 1 BY <1>3
      <4> QED BY <1>2, <1>3, <3>1, <3>2, <4>1, <4>2
    <3>4. \A i \in 1..Waits' : i \in 1..Len(inbound') /\ i + 1 \in 1..Waits
      BY <1>1, <3>1, Counts
    <3>5. \A i \in 1..Waits' : inbound'[i] = Put' + i
      <4>. SUFFICES ASSUME NEW i \in 1..Waits' PROVE inbound'[i] = Put' + i OBVIOUS
      <4>1. inbound'[i] = inbound[i + 1] /\ inbound[i + 1] = Put + (i + 1)
        BY <1>1, <3>4 DEF Numbered
      <4>2. i \in Nat BY <3>1
      <4> QED BY <1>3, <3>1, <4>1, <4>2
    <3>6. Put' + Waits' = arrived'
      <4>1. Put + Waits = arrived BY DEF Numbered
      <4>2. Put \in Nat /\ arrived' = arrived BY <1>1, <1>3
      <4> QED BY <3>1, <4>1, <4>2
    <3> QED BY <3>3, <3>5, <3>6 DEF Numbered
  <2> QED BY <2>1, <2>2
<1> QED BY <1>2, <1>7, <1>8

\* A task that is cancelled puts a None of its own.
LEMMA SentinelKeepsOrder == ASSUME Queues, OrderInv, FanoutCancelled PROVE OrderInv'
<1>. USE DEF Queues, OrderInv
<1>1. /\ PutToBoth(End) /\ ~EndsIn(pq) /\ fanout' = "ended" /\ UNCHANGED <<inbound, arrived, over>>
  BY DEF FanoutCancelled, Sentinel, Ends, source
<1>2. /\ Behind' /\ Len(pq') = Len(pq) + 1 /\ pq'[Len(pq) + 1] = End
      /\ \A i \in 1..Len(pq) : pq'[i] = pq[i]
  <2>1. End \in 0..MaxFrames OBVIOUS
  <2> QED BY <1>1, <2>1, PutKeepsBehind
<1>3. EndsIn(pq') /\ Put' = Put BY <1>1, <1>2 DEF EndsIn, Put
<1>4. Waits' = Waits /\ (EndsIn(inbound') <=> EndsIn(inbound)) BY <1>1 DEF Waits, EndsIn
<1>5. Numbered'
  <2>1. Put = Len(pq) BY <1>1 DEF Put
  <2> QED BY <1>1, <1>2, <1>3, <1>4, <2>1 DEF Numbered
<1> QED BY <1>1, <1>2, <1>3, <1>4, <1>5 DEF Ends

\* The secondary takes the first of its queue.
LEMMA FeedKeepsOrder == ASSUME Queues, OrderInv, Provider(Feed) PROVE OrderInv'
<1>. USE DEF Queues, OrderInv
<1>1. UNCHANGED <<inbound, arrived, over, pq, fanout>> BY DEF Provider, source, tee
<1>2. /\ Len(aq) \in Nat \ {0} /\ Len(aq') = Len(aq) - 1
      /\ \A i \in 1..Len(aq') : aq'[i] = aq[i + 1]
  BY DEF Provider, Feed
<1>3. Behind'
  <2>1. Len(pq) \in Nat /\ Len(aq') <= Len(pq') BY <1>1, <1>2, Counts DEF Behind
  <2>2. ASSUME NEW i \in 1..Len(aq') PROVE aq'[i] = pq'[Len(pq') - Len(aq') + i]
    <3>1. i + 1 \in 1..Len(aq) /\ aq'[i] = aq[i + 1] BY <1>2
    <3>2. aq[i + 1] = pq[Len(pq) - Len(aq) + (i + 1)] BY <3>1 DEF Behind
    <3>3. Len(pq) - Len(aq) + (i + 1) = Len(pq) - Len(aq') + i BY <1>2, <2>1
    <3> QED BY <1>1, <3>1, <3>2, <3>3
  <2> QED BY <2>1, <2>2 DEF Behind
<1>4. Put' = Put /\ Waits' = Waits BY <1>1 DEF Put, Waits, EndsIn
<1>5. Numbered' BY <1>1, <1>4 DEF Numbered
<1>6. Ends' BY <1>1 DEF Ends, EndsIn
<1> QED BY <1>3, <1>5, <1>6

\* The transport and stop() move only the task.
LEMMA OthersKeepOrder ==
    ASSUME OrderInv, UNCHANGED <<inbound, arrived, over, pq, aq>>,
           \/ fanout' = fanout
           \/ fanout' \in {"new", "get"} /\ fanout \in {"none", "new"}
           \/ StopBegins
    PROVE  OrderInv'
<1>1. Numbered' /\ Behind' BY DEF OrderInv, Numbered, Behind, Put, Waits, EndsIn
<1>2. Ends' BY DEF OrderInv, Ends, EndsIn, StopBegins, Cancelled
<1> QED BY <1>1, <1>2 DEF OrderInv

LEMMA OrderInvStep == ASSUME Queues, Places, OrderInv, [Next]_vars PROVE OrderInv'
<1>. USE DEF source, tee, azure
<1>1. ASSUME NEW j \in Jobs, Provider(Dies(j) \/ SdkStep(j) \/ JobStep(j))
      PROVE  OrderInv'
  <2>1. UNCHANGED aq
    BY <1>1 DEF Provider, Dies, SdkStep, TestStopping, Submit, Own, JobStep, Begin, Reconnects,
                ReconnectRaises, JobCancelled
  <2> QED BY <1>1, <2>1, OthersKeepOrder DEF Provider
<1>2. CASE Provider(EndOfStream \/ FeedCancelled)
  BY <1>2, OthersKeepOrder DEF Provider, EndOfStream, FeedCancelled
<1>3. CASE FanoutBegins \/ StartBegins \/ StartCancelled \/ PrimaryRaises
  BY <1>3, OthersKeepOrder DEF FanoutBegins, StartBegins, StartCancelled, PrimaryRaises
<1>4. CASE PrimaryStarts
  <2>1. fanout = "none" /\ fanout' = "new" BY <1>4 DEF PrimaryStarts, SecondaryFails, Places
  <2> QED BY <1>4, <2>1, OthersKeepOrder DEF PrimaryStarts, AzureStarts, AzureStartRaises
<1>5. CASE StopBegins BY <1>5, OthersKeepOrder DEF StopBegins
<1>6. CASE StopStep
  BY <1>6, OthersKeepOrder DEF StopStep, FanoutJoined, StopReturns, PrimaryStopped,
                               AzureStopBegins, SecondaryStops, AzureStopResumes
<1>7. CASE UNCHANGED vars BY <1>7, OthersKeepOrder DEF vars
<1>8. CASE FrameArrives \/ CallEnds BY <1>8, ArrivalKeepsOrder
<1>9. CASE Fanout BY <1>9, FanoutKeepsOrder
<1>10. CASE FanoutCancelled BY <1>10, SentinelKeepsOrder
<1>11. CASE Provider(Feed) BY <1>11, FeedKeepsOrder
<1>12. Provider(AzureNext) => \/ Provider(EndOfStream \/ FeedCancelled) \/ Provider(Feed)
                             \/ \E j \in Jobs : Provider(Dies(j) \/ SdkStep(j) \/ JobStep(j))
  BY DEF Provider, AzureNext, FeedStep
<1> QED BY <1>1, <1>2, <1>3, <1>4, <1>5, <1>6, <1>7, <1>8, <1>9, <1>10, <1>11, <1>12
        DEF Next, FanoutStep

\* A queue's frames are its items but for the None at its end.
LEMMA FramesOf ==
    ASSUME NEW q \in Seq(0..MaxFrames)
    PROVE  LET n == IF EndsIn(q) THEN Len(q) - 1 ELSE Len(q)
           IN  /\ Frames(q) \in Seq(0..MaxFrames) /\ n \in Nat /\ Len(Frames(q)) = n
               /\ \A i \in 1..n : Frames(q)[i] = q[i]
<1>1. CASE EndsIn(q)
  <2>1. Len(q) \in Nat \ {0} BY <1>1 DEF EndsIn
  <2>2. \A i \in 1..Len(q) - 1 : q[i] \in 0..MaxFrames BY <2>1
  <2>3. /\ SubSeq(q, 1, Len(q) - 1) \in Seq(0..MaxFrames)
        /\ Len(SubSeq(q, 1, Len(q) - 1)) = Len(q) - 1
        /\ \A i \in 1..Len(q) - 1 : SubSeq(q, 1, Len(q) - 1)[i] = q[i]
    <3>. DEFINE m == Len(q) - 1
                t == SubSeq(q, 1, m)
    <3>1. 1 \in Int /\ m \in Int /\ \A i \in 1..m : q[i] \in 0..MaxFrames BY <2>1, <2>2
    <3>. HIDE DEF m
    <3>2. /\ t \in Seq(0..MaxFrames)
          /\ Len(t) = (IF 1 <= m THEN m - 1 + 1 ELSE 0)
          /\ \A i \in 1..m - 1 + 1 : t[i] = q[1 + i - 1]
      BY <3>1, SubSeqProperties
    <3>. HIDE DEF t
    <3>3. m \in Nat BY <2>1 DEF m
    <3>4. Len(t) = m /\ \A i \in 1..m : t[i] = q[i]
      <4>1. m - 1 + 1 = m /\ \A i \in 1..m : 1 + i - 1 = i BY <3>3
      <4> QED BY <3>2, <3>3, <4>1
    <3> QED BY <3>2, <3>4 DEF t, m
  <2> QED BY <1>1, <2>1, <2>3 DEF Frames
<1>2. CASE ~EndsIn(q) BY <1>2 DEF Frames
<1> QED BY <1>1, <1>2

LEMMA OrderIsHeard == ASSUME Queues, OrderInv PROVE HeardInOrder
<1>. DEFINE a == Frames(pq)
           b == Frames(inbound)
<1>1. /\ a \in Seq(0..MaxFrames) /\ Put \in Nat /\ Len(a) = Put
      /\ \A i \in 1..Put : a[i] = pq[i]
  BY FramesOf DEF Queues, Put
<1>2. /\ b \in Seq(0..MaxFrames) /\ Waits \in Nat /\ Len(b) = Waits
      /\ \A i \in 1..Waits : b[i] = inbound[i]
  BY FramesOf DEF Queues, Waits
<1>. HIDE DEF a, b
<1>3. /\ Put + Waits = arrived /\ \A i \in 1..Put : a[i] = i
      /\ \A i \in 1..Waits : b[i] = Put + i
  BY <1>1, <1>2 DEF OrderInv, Numbered
<1>4. /\ a \o b \in Seq(0..MaxFrames) /\ Len(a \o b) = arrived
      /\ \A i \in 1..arrived : (a \o b)[i] = IF i <= Put THEN a[i] ELSE b[i - Put]
  <2>1. /\ a \o b \in Seq(0..MaxFrames) /\ Len(a \o b) = Len(a) + Len(b)
        /\ \A i \in 1..Len(a) + Len(b) :
              (a \o b)[i] = IF i <= Len(a) THEN a[i] ELSE b[i - Len(a)]
    BY <1>1, <1>2, ConcatProperties
  <2>2. Len(a) = Put /\ Len(a) + Len(b) = arrived BY <1>1, <1>2, <1>3
  <2> QED BY <2>1, <2>2
<1>5. \A i \in 1..arrived : (a \o b)[i] = i
  <2>. SUFFICES ASSUME NEW i \in 1..arrived PROVE (a \o b)[i] = i OBVIOUS
  <2>1. CASE i <= Put BY <1>1, <1>3, <1>4, <2>1
  <2>2. CASE ~(i <= Put)
    <3>1. i - Put \in 1..Waits /\ Put + (i - Put) = i BY <1>1, <1>2, <1>3, <2>2
    <3> QED BY <1>3, <1>4, <2>2, <3>1
  <2> QED BY <2>1, <2>2
<1>6. NothingLost
  <2>1. a \o b = [i \in 1..arrived |-> (a \o b)[i]] BY <1>4, LenProperties
  <2>2. a \o b = [i \in 1..arrived |-> i] BY <1>5, <2>1
  <2> QED BY <2>2 DEF NothingLost, a, b
<1>7. ToldOnce
  <2>1. \A i \in 1..Len(pq) : pq[i] = End => i = Len(pq)
    <3>1. \A i \in 1..Put : pq[i] # End BY Counts DEF OrderInv, Numbered
    <3> QED BY <3>1, Counts
  <2>2. fanout = "ended" /\ pq # <<>> => pq[Len(pq)] = End BY DEF OrderInv, Ends, EndsIn
  <2>3. aq = SubSeq(pq, Len(pq) - Len(aq) + 1, Len(pq))
    <3>. DEFINE k == Len(pq) - Len(aq) + 1
                t == SubSeq(pq, k, Len(pq))
    <3>1. Len(aq) \in Nat /\ Len(pq) \in Nat /\ Len(aq) <= Len(pq) /\ k \in 1..Len(pq) + 1
      BY DEF Queues, OrderInv, Behind
    <3>2. \A i \in k..Len(pq) : pq[i] \in 0..MaxFrames
      <4>1. \A i \in k..Len(pq) : i \in 1..Len(pq) BY <3>1
      <4>2. \A i \in 1..Len(pq) : pq[i] \in 0..MaxFrames BY DEF Queues
      <4> QED BY <4>1, <4>2
    <3>3. t \in Seq(0..MaxFrames) /\ Len(t) = Len(aq) /\ \A i \in 1..Len(aq) : t[i] = pq[k + i - 1]
      <4>1. /\ t \in Seq(0..MaxFrames)
            /\ Len(t) = IF k <= Len(pq) THEN Len(pq) - k + 1 ELSE 0
            /\ \A i \in 1..Len(pq) - k + 1 : t[i] = pq[k + i - 1]
        <5>1. k \in Int /\ Len(pq) \in Int BY <3>1
        <5>. HIDE DEF k
        <5> QED BY <3>2, <5>1, SubSeqProperties
      <4>2. Len(pq) - k + 1 = Len(aq) /\ (k <= Len(pq) <=> Len(aq) # 0) BY <3>1
      <4>. HIDE DEF t, k
      <4> QED BY <3>1, <4>1, <4>2
    <3>4. \A i \in 1..Len(aq) : k + i - 1 = Len(pq) - Len(aq) + i BY <3>1
    <3>. HIDE DEF t, k
    <3>5. \A i \in 1..Len(aq) : aq[i] = t[i] BY <3>3, <3>4 DEF OrderInv, Behind
    <3>6. t = [i \in 1..Len(aq) |-> t[i]] /\ aq = [i \in 1..Len(aq) |-> aq[i]]
      BY <3>3, LenProperties DEF Queues
    <3>7. aq = t BY <3>5, <3>6
    <3> QED BY <3>7 DEF t, k
  <2> QED BY <2>1, <2>2, <2>3 DEF ToldOnce, OrderInv, Behind
<1> QED BY <1>6, <1>7 DEF HeardInOrder

\* stt_tee.py:150: the frames put to the primary and those that wait are the call, in order and
\* without a gap; both providers are told once that the audio is over, behind all of it, and the
\* secondary the same as the primary, for any number of frames.
THEOREM BothHear == Spec => []HeardInOrder
BY OrderInvInit, OrderInvStep, OrderIsHeard, QueuesInvariant, PlacesInvariant, PTL DEF Spec
=============================================================================
