------------------------ MODULE ScribeSessionProofs ------------------------
(***************************************************************************)
(* What holds of ScribeSession for any number of reconnects, failures and  *)
(* frames: one feed task at most, none once stop() has returned, no more   *)
(* sockets than connects, no feed task past its limit of failures, and     *)
(* none that ends in silence while the call goes on.                       *)
(***************************************************************************)
EXTENDS ScribeSession, SequenceTheorems, FiniteSetTheorems, WellFoundedInduction, TLAPS

Feeding == {"none", "get", "send", "pause", "done"}

\* The session holds the one feed task that lives; from the moment stop() begins none is
\* made, and it goes on only when the one it found is over.
FeedInv ==
    /\ feeder \in [Feeders -> Feeding]
    /\ \A f \in Feeders : Live(f) => f = feedTask
    /\ stopPc # "no" => stopping
    /\ stopPc \in {"closing", "done"} => \A f \in Feeders : ~Live(f)

LEMMA FeedersArePositive == 0 \notin Feeders
<1>1. \A n : 0 \notin 1..n OBVIOUS
<1> QED BY <1>1 DEF Feeders

LEMMA FeedInit == Init => FeedInv
BY DEF Init, FeedInv, Feeding, Live

\* start() and the reconnects, of which Connected alone may make a feed task
LEMMA ConnectKeeps ==
    ASSUME FeedInv, NEW p \in Procs, ConnectStep(p)
    PROVE  FeedInv'
<1>1. CASE UNCHANGED feeding
  <2>1. UNCHANGED <<stopping, stopPc>>
    BY DEF ConnectStep, BeginConnect, OldClosed, Connected, ConnectRaises, JobCancelled, Unwound
  <2> QED BY <1>1, <2>1 DEF FeedInv, Live, feeding
<1>2. CASE ~UNCHANGED feeding
  <2>1. /\ EnsureFeedTask /\ UNCHANGED <<stopping, stopPc>>
    BY <1>2 DEF ConnectStep, BeginConnect, OldClosed, Connected, ConnectRaises, JobCancelled,
                Unwound, AfterRaise
  <2>2. NeedsFeeder BY <1>2, <2>1 DEF EnsureFeedTask
  <2>3. PICK f \in Feeders : feeder' = [feeder EXCEPT ![f] = "get"] /\ feedTask' = f
    BY <2>1, <2>2 DEF EnsureFeedTask
  <2>4. \A e \in Feeders : ~Live(e)
    BY <2>2, FeedersArePositive DEF NeedsFeeder, FeedInv, Live
  <2>5. \A e \in Feeders : Live(e)' => e = f
    BY <2>3, <2>4 DEF FeedInv, Live
  <2>6. feeder' \in [Feeders -> Feeding] BY <2>3 DEF FeedInv, Feeding
  <2>7. stopPc' = "no" BY <2>1, <2>2 DEF NeedsFeeder, FeedInv
  <2> QED BY <2>3, <2>5, <2>6, <2>7 DEF FeedInv
<1> QED BY <1>1, <1>2

\* A feed task's own step keeps it alive or ends it.
LEMMA FeedKeeps ==
    ASSUME FeedInv, NEW f \in Feeders, FeedStep(f)
    PROVE  FeedInv'
<1>1. /\ Live(f) /\ UNCHANGED <<feedTask, stopping, stopPc>>
      /\ \E where \in Feeding : feeder' = [feeder EXCEPT ![f] = where]
  BY DEF FeedStep, Take, SendOk, SendRaises, GivesUp, Pause, FeederCancelled, FeederGoes, Feeding, Live
<1>2. \A e \in Feeders : Live(e)' => Live(e) BY <1>1 DEF FeedInv, Live
<1> QED BY <1>1, <1>2 DEF FeedInv, Feeding

LEMMA StopKeeps ==
    ASSUME FeedInv, StopBegins \/ StopStep
    PROVE  FeedInv'
<1>1. UNCHANGED feeding BY DEF StopBegins, StopStep, GatherReturns, StopCloses
<1>2. CASE StopBegins BY <1>1, <1>2 DEF StopBegins, FeedInv, Live, feeding
<1>3. CASE GatherReturns
  <2>1. \A f \in Feeders : ~Live(f)
    BY <1>3, FeedersArePositive DEF GatherReturns, FeedInv
  <2> QED BY <1>1, <1>3, <2>1 DEF GatherReturns, FeedInv, Live, feeding
<1>4. CASE StopCloses BY <1>1, <1>4 DEF StopCloses, FeedInv, Live, feeding
<1> QED BY <1>2, <1>3, <1>4 DEF StopStep

LEMMA FeedInvStep == ASSUME FeedInv, [Next]_vars PROVE FeedInv'
<1>1. CASE UNCHANGED <<feeding, stopping, stopPc>> BY <1>1 DEF FeedInv, Live, feeding
<1>2. ASSUME NEW j \in Jobs, ErrorJobBegins(j) \/ FatalError(j) \/ LongSpeechSubmits(j)
      PROVE  UNCHANGED <<feeding, stopping, stopPc>>
  BY <1>2 DEF ErrorJobBegins, FatalError, LongSpeechSubmits
<1>3. LongSpeechEnds \/ TerminalEvent \/ FrameArrives \/ CallEnds \/ SocketDies
          => UNCHANGED <<feeding, stopping, stopPc>>
  BY DEF LongSpeechEnds, TerminalEvent, FrameArrives, CallEnds, SocketDies
<1>4. UNCHANGED vars => UNCHANGED <<feeding, stopping, stopPc>> BY DEF vars
<1> QED BY <1>1, <1>2, <1>3, <1>4, ConnectKeeps, FeedKeeps, StopKeeps DEF Next

LEMMA FeedInvariant == Spec => []FeedInv
BY FeedInit, FeedInvStep, PTL DEF Spec

\* VR-005 AC-04: whoever connects, and however connects, errors and stop() overlap, the
\* inbound queue has one consumer (elevenlabs_stt.py, _ensure_feed_task).
THEOREM NeverTwoFeeders == Spec => []OneFeeder
<1>1. FeedInv => OneFeeder BY DEF FeedInv, OneFeeder
<1> QED BY <1>1, FeedInvariant, PTL

\* VR-005: no feed task survives stop(), and none comes back.
THEOREM StopEndsFeeding == Spec => []StoppedFeedsNothing
<1>1. FeedInv => StoppedFeedsNothing BY DEF FeedInv, StoppedFeedsNothing
<1> QED BY <1>1, FeedInvariant, PTL

-----------------------------------------------------------------------------
(* Types                                                                   *)

Positions == {"idle", "scheduled", "backoff", "closing", "connecting", "unwinding", "done"}
Done == {p \in Procs : pc[p] = "done"}

\* the jobs: each connects once, so there are no more sockets than jobs that are done
JobsInv ==
    /\ pc \in [Procs -> Positions]
    /\ kind \in [Procs -> {"start", "long", "error"}]
    /\ owned \subseteq Jobs /\ doomed \subseteq Procs \cup {"feeder"}
    /\ made \in Nat /\ made <= Cardinality(Done)

\* the sockets: a feed task is made behind the first
SocketsInv ==
    /\ stt \in Sockets \cup {0} /\ open \subseteq Sockets /\ made \in Sockets \cup {0}
    /\ via \in [Feeders -> Sockets \cup {0}]
    /\ target \in [Procs -> Sockets \cup {0}]
    /\ \A f \in Feeders : feeder[f] # "none" => stt # 0
    /\ \A f \in Feeders : feeder[f] = "send" => via[f] # 0

\* the feed tasks: one that lives has not failed too often
FailsInv ==
    /\ fails \in [Feeders -> 0..MaxFailures] /\ feedTask \in Feeders \cup {0}
    /\ \A f \in Feeders : feeder[f] # "done" => fails[f] < MaxFailures

FlagsInv ==
    /\ {stopping, reconnecting, limit, reported, over} \subseteq BOOLEAN
    /\ attempt \in Nat
    /\ queue \in Seq({"frame", "end"})
    /\ caller \in {"away", "passed"}
    /\ stopPc \in {"no", "awaiting", "closing", "done"}

LEMMA ProcsFinite == IsFiniteSet(Procs) /\ Cardinality(Procs) \in Nat
BY JobAssumption, FS_AddElement, FS_CardinalityType DEF Procs

LEMMA DoneCounts ==
    /\ IsFiniteSet(Done) /\ Cardinality(Done) \in Nat /\ Cardinality(Done) <= Cardinality(Procs)
BY ProcsFinite, FS_Subset, FS_CardinalityType DEF Done

\* A set of numbers has a least one.
LEMMA Least ==
    ASSUME NEW T \in SUBSET Nat, T # {} PROVE \E x \in T : \A y \in T : x <= y
<1>. DEFINE R == OpToRel(<, Nat)
<1>1. IsWellFoundedOn(R, Nat) BY NatLessThanWellFounded
<1>2. \A x, y \in Nat : <<y, x>> \in R <=> y < x BY DEF OpToRel
<1>. HIDE DEF R
<1>3. PICK x \in T : \A y \in T : ~(<<y, x>> \in R) BY <1>1, WFMin
<1>4. \A y \in T : x \in Nat /\ y \in Nat /\ ~(y < x) BY <1>2, <1>3, Zenon
<1> QED BY <1>4

LEMMA DrainLeavesFrames ==
    ASSUME NEW q \in Seq({"frame", "end"}) PROVE AfterDrain(q) \in Seq({"frame", "end"})
<1>. DEFINE ends == {i \in 1..Len(q) : q[i] = "end"}
           first(k) == \A e \in ends : k <= e
<1>1. CASE ends = {} BY <1>1 DEF AfterDrain
<1>2. CASE ends # {}
  <2>1. Len(q) \in Nat BY LenProperties
  <2>2. ends \in SUBSET Nat /\ \A k \in ends : k \in 1..Len(q) BY <2>1
  <2>3. \E k \in ends : first(k)
    <3>. HIDE DEF ends
    <3> QED BY <1>2, <2>2, Least
  <2>. DEFINE i == CHOOSE k \in ends : first(k)
  <2>4. i \in ends BY <2>3
  <2>5. AfterDrain(q) = Append(SubSeq(q, i + 1, Len(q)), "end") BY <1>2 DEF AfterDrain
  <2>6. i \in Nat
    <3>. HIDE DEF i
    <3> QED BY <2>2, <2>4
  <2>. HIDE DEF i
  <2>7. SubSeq(q, i + 1, Len(q)) \in Seq({"frame", "end"})
    <3>1. \A k \in i + 1..Len(q) : q[k] \in {"frame", "end"} BY <2>1, <2>6, ElementOfSeq
    <3> QED BY <2>1, <2>6, <3>1, SubSeqProperties
  <2> QED BY <2>5, <2>7, AppendProperties
<1> QED BY <1>1, <1>2

\* a job moves on, and if it is done its connect is counted
LEMMA JobMoves ==
    ASSUME JobsInv, NEW p \in Procs, pc[p] # "done", NEW where \in Positions, Goes(p, where),
           made' \in Nat, made' = made \/ (where = "done" /\ made' = made + 1),
           kind' \in [Procs -> {"start", "long", "error"}],
           owned' \subseteq Jobs, UNCHANGED doomed
    PROVE  JobsInv'
<1>1. pc' \in [Procs -> Positions] BY DEF JobsInv, Goes
<1>2. CASE where = "done"
  <2>1. Done' = Done \cup {p} /\ p \notin Done BY <1>2 DEF JobsInv, Goes, Done
  <2>2. Cardinality(Done') = Cardinality(Done) + 1 BY <2>1, DoneCounts, FS_AddElement
  <2>3. made' <= Cardinality(Done') BY <2>2, DoneCounts DEF JobsInv
  <2> QED BY <1>1, <2>3 DEF JobsInv
<1>3. CASE where # "done"
  <2>1. Done' = Done BY <1>3 DEF JobsInv, Goes, Done
  <2> QED BY <1>1, <1>3, <2>1 DEF JobsInv
<1> QED BY <1>2, <1>3

\* the steps that move no job
LEMMA JobsStay == ASSUME JobsInv, UNCHANGED <<pc, kind, owned, doomed, made>> PROVE JobsInv'
BY DEF JobsInv, Done

LEMMA JobsInvStep == ASSUME JobsInv, [Next]_vars PROVE JobsInv'
<1>1. ASSUME NEW p \in Procs, ConnectStep(p) PROVE JobsInv'
  <2>1. /\ pc[p] # "done" /\ UNCHANGED <<kind, doomed>>
        /\ \E where \in Positions : /\ pc' = [pc EXCEPT ![p] = where]
                                    /\ made' = made \/ (where = "done" /\ made' = made + 1)
    <3>1. CASE BeginConnect(p) BY <3>1 DEF BeginConnect, conns, Goes, Positions
    <3>2. CASE OldClosed(p) BY <3>2 DEF OldClosed, Goes, Positions
    <3>3. CASE Connected(p) BY <3>3 DEF Connected, Ends, Goes, Positions
    <3>4. CASE ConnectRaises(p) BY <3>4 DEF ConnectRaises, Ends, conns, Goes, Positions
    <3>5. CASE JobCancelled(p) BY <3>5 DEF JobCancelled, Active, Ends, conns, Goes, Positions
    <3>6. CASE Unwound(p) BY <3>6 DEF Unwound, Ends, conns, Goes, Positions
    <3> QED BY <1>1, <3>1, <3>2, <3>3, <3>4, <3>5, <3>6 DEF ConnectStep
  <2>2. owned' \subseteq owned
    BY <1>1 DEF ConnectStep, BeginConnect, OldClosed, Connected, ConnectRaises, JobCancelled,
                Unwound, Ends
  <2>3. ASSUME NEW where \in Positions, pc' = [pc EXCEPT ![p] = where],
               made' = made \/ (where = "done" /\ made' = made + 1)
        PROVE  JobsInv'
    <3>1. pc[p] # "done" /\ UNCHANGED doomed BY <2>1
    <3>2. made' \in Nat /\ kind' \in [Procs -> {"start", "long", "error"}] /\ owned' \subseteq Jobs
      BY <2>1, <2>2, <2>3 DEF JobsInv
    <3>3. Goes(p, where) BY <2>3 DEF Goes
    <3> QED BY <1>1, <2>3, <3>1, <3>2, <3>3, JobMoves
  <2> QED BY <2>1, <2>3
<1>2. ASSUME NEW j \in Jobs, ErrorJobBegins(j) PROVE JobsInv'
  <2>1. /\ j \in Procs /\ pc[j] # "done" /\ UNCHANGED <<kind, doomed, made>>
        /\ owned' \subseteq owned /\ (Goes(j, "done") \/ Goes(j, "backoff"))
    BY <1>2 DEF ErrorJobBegins, Ends, conns, Procs
  <2>2. owned' \subseteq Jobs /\ made' \in Nat /\ kind' \in [Procs -> {"start", "long", "error"}]
    BY <2>1 DEF JobsInv
  <2> QED BY <2>1, <2>2, JobMoves DEF Positions
<1>3. ASSUME NEW j \in Jobs, NEW why \in {"long", "error"}, Submit(j, why), UNCHANGED <<doomed, made>>
      PROVE  JobsInv'
  <2>1. /\ j \in Procs /\ pc[j] # "done" /\ Goes(j, "scheduled") /\ owned' \subseteq Jobs
        /\ kind' \in [Procs -> {"start", "long", "error"}] /\ made' \in Nat /\ made' = made
    BY <1>3 DEF Submit, Procs, JobsInv
  <2> QED BY <1>3, <2>1, JobMoves DEF Positions
<1>4. ASSUME NEW j \in Jobs, FatalError(j) \/ LongSpeechSubmits(j) PROVE JobsInv'
  BY <1>3, <1>4 DEF FatalError, LongSpeechSubmits, conns
<1>5. CASE StopBegins
  <2>1. /\ UNCHANGED <<pc, kind, made>> /\ owned' = {}
        /\ doomed' \subseteq doomed \cup owned \cup {"feeder"}
    BY <1>5 DEF StopBegins, conns
  <2>2. doomed' \subseteq Procs \cup {"feeder"} BY <2>1 DEF JobsInv, Procs
  <2> QED BY <2>1, <2>2 DEF JobsInv, Done
<1>6. ASSUME NEW f \in Feeders, FeedStep(f) PROVE JobsInv'
  BY <1>6, JobsStay DEF FeedStep, Take, SendOk, SendRaises, GivesUp, Pause, FeederCancelled, jobs, conns
<1>7. CASE StopStep \/ LongSpeechEnds \/ TerminalEvent \/ FrameArrives \/ CallEnds \/ SocketDies
  BY <1>7, JobsStay DEF StopStep, GatherReturns, StopCloses, LongSpeechEnds, TerminalEvent,
                        FrameArrives, CallEnds, SocketDies, jobs, conns
<1>8. CASE UNCHANGED vars BY <1>8, JobsStay DEF vars, jobs, conns
<1> QED BY <1>1, <1>2, <1>4, <1>5, <1>6, <1>7, <1>8 DEF Next

LEMMA JobsInvInit == Init => JobsInv
<1>. SUFFICES ASSUME Init PROVE JobsInv OBVIOUS
<1>1. pc \in [Procs -> Positions] BY DEF Init, Positions
<1>2. made \in Nat /\ made <= Cardinality(Done) BY DoneCounts DEF Init
<1> QED BY <1>1, <1>2 DEF Init, JobsInv

\* A connect that is counted has a number: there are as many as processes.
LEMMA SocketIsNumbered == ASSUME JobsInv' PROVE made' \in Nat /\ made' <= Cardinality(Procs)
<1>1. made' \in Nat /\ made' <= Cardinality(Done') BY DEF JobsInv
<1>2. Done' \in SUBSET Procs BY DEF Done
<1>3. Cardinality(Done') \in Nat /\ Cardinality(Done') <= Cardinality(Procs)
  BY <1>2, ProcsFinite, FS_Subset, FS_CardinalityType
<1> QED BY <1>1, <1>3, ProcsFinite

LEMMA SocketsInvStep ==
    ASSUME FeedInv, SocketsInv, JobsInv', [Next]_vars PROVE SocketsInv'
<1>. USE DEF SocketsInv
<1>0. 0 \notin Sockets
  <2>1. \A n : 0 \notin 1..n OBVIOUS
  <2> QED BY <2>1 DEF Sockets
<1>1. ASSUME NEW p \in Procs, Connected(p) PROVE SocketsInv'
  <2>1. made' = made + 1 /\ stt' = made + 1 /\ open' = open \cup {made + 1} /\ target' = target
        /\ EnsureFeedTask
    BY <1>1 DEF Connected
  <2>2. made' \in Sockets
    <3>1. made \in Nat
      <4>1. \A n : \A k \in 1..n : k \in Nat OBVIOUS
      <4> QED BY <4>1 DEF Sockets
    <3>2. made' \in 1..Cardinality(Procs) BY <2>1, <3>1, SocketIsNumbered, ProcsFinite
    <3> QED BY <3>2 DEF Sockets
  <2>3. UNCHANGED via BY <2>1 DEF EnsureFeedTask, feeding
  <2>4. \A f \in Feeders : feeder'[f] = "send" => feeder[f] = "send"
    <3>1. CASE UNCHANGED feeding BY <3>1 DEF feeding
    <3>2. ASSUME NEW f \in Feeders, feeder' = [feeder EXCEPT ![f] = "get"]
          PROVE  \A e \in Feeders : feeder'[e] = "send" => feeder[e] = "send"
      BY <3>2 DEF FeedInv
    <3> QED BY <2>1, <3>1, <3>2 DEF EnsureFeedTask
  <2> QED BY <1>0, <2>1, <2>2, <2>3, <2>4
<1>2. ASSUME NEW p \in Procs,
             BeginConnect(p) \/ OldClosed(p) \/ ConnectRaises(p) \/ JobCancelled(p) \/ Unwound(p)
      PROVE  SocketsInv'
  <2>1. UNCHANGED <<stt, made, feeder, via>> /\ open' \subseteq open
    BY <1>2 DEF BeginConnect, OldClosed, ConnectRaises, AfterRaise, JobCancelled, Unwound, conns, feeding
  <2>2. target' \in [Procs -> Sockets \cup {0}]
    BY <1>2 DEF BeginConnect, OldClosed, ConnectRaises, JobCancelled, Unwound
  <2> QED BY <2>1, <2>2
<1>3. ASSUME NEW f \in Feeders, FeedStep(f) PROVE SocketsInv'
  <2>1. UNCHANGED <<stt, open, made, target>>
    BY <1>3 DEF FeedStep, Take, SendOk, SendRaises, GivesUp, Pause, FeederCancelled, conns, jobs
  <2>2. feeder[f] # "none" /\ stt # 0
    BY <1>3 DEF FeedStep, Take, SendOk, SendRaises, GivesUp, Pause, FeederCancelled, Live
  <2>3. \/ UNCHANGED via /\ \E where \in Feeding \ {"send"} : feeder' = [feeder EXCEPT ![f] = where]
        \/ feeder' = [feeder EXCEPT ![f] = "send"] /\ via' = [via EXCEPT ![f] = stt]
        \/ /\ \E where \in Feeding \ {"send"} : feeder' = [feeder EXCEPT ![f] = where]
           /\ via' = [via EXCEPT ![f] = 0]
    BY <1>3 DEF FeedStep, Take, SendOk, SendRaises, GivesUp, Pause, FeederCancelled, FeederGoes, Feeding
  <2>4. via' \in [Feeders -> Sockets \cup {0}] BY <2>3
  <2>5. \A e \in Feeders : feeder'[e] = "send" => via'[e] # 0 BY <2>2, <2>3 DEF FeedInv
  <2> QED BY <2>1, <2>2, <2>4, <2>5
<1>4. CASE UNCHANGED <<stt, made, feeding, target>> /\ open' \subseteq open
  BY <1>4 DEF feeding
<1>5. ASSUME NEW j \in Jobs, ErrorJobBegins(j) \/ FatalError(j) \/ LongSpeechSubmits(j)
      PROVE  SocketsInv'
  BY <1>4, <1>5 DEF ErrorJobBegins, FatalError, LongSpeechSubmits, conns
<1>6. CASE StopBegins \/ StopStep \/ LongSpeechEnds \/ TerminalEvent \/ FrameArrives \/ CallEnds
           \/ SocketDies \/ UNCHANGED vars
  BY <1>4, <1>6 DEF StopBegins, StopStep, GatherReturns, StopCloses, LongSpeechEnds, TerminalEvent,
                    FrameArrives, CallEnds, SocketDies, vars, jobs, conns
<1> QED BY <1>1, <1>2, <1>3, <1>5, <1>6 DEF Next, ConnectStep

LEMMA FailsInvStep == ASSUME FeedInv, FailsInv, [Next]_vars PROVE FailsInv'
<1>. USE BoundAssumption DEF FailsInv
<1>1. CASE UNCHANGED feeding BY <1>1 DEF feeding
<1>2. CASE EnsureFeedTask
  <2>1. CASE ~UNCHANGED feeding
    <3>1. PICK f \in Feeders : /\ feeder[f] = "none" /\ feeder' = [feeder EXCEPT ![f] = "get"]
                               /\ feedTask' = f /\ UNCHANGED <<fails, via>>
      BY <1>2, <2>1 DEF EnsureFeedTask
    <3>2. \A e \in Feeders : feeder'[e] # "done" => feeder[e] # "done" BY <3>1 DEF FeedInv
    <3> QED BY <3>1, <3>2
  <2> QED BY <1>1, <2>1
<1>3. ASSUME NEW f \in Feeders, FeedStep(f) PROVE FailsInv'
  <2>1. /\ UNCHANGED feedTask /\ feeder[f] # "done"
        /\ \E where \in Feeding : feeder' = [feeder EXCEPT ![f] = where]
    BY <1>3 DEF FeedStep, Take, SendOk, SendRaises, GivesUp, Pause, FeederCancelled, FeederGoes, Feeding, Live
  <2>2. \/ UNCHANGED fails \/ fails' = [fails EXCEPT ![f] = 0]
        \/ /\ fails' = [fails EXCEPT ![f] = fails[f] + 1]
           /\ fails[f] + 1 >= MaxFailures => feeder' = [feeder EXCEPT ![f] = "done"]
    BY <1>3 DEF FeedStep, Take, SendOk, SendRaises, GivesUp, Pause, FeederCancelled, FeederGoes
  <2>3. fails[f] \in 0..MaxFailures /\ fails[f] < MaxFailures /\ MaxFailures \in Nat \ {0} BY <2>1
  <2>4. fails' \in [Feeders -> 0..MaxFailures]
    <3>1. fails[f] + 1 \in 0..MaxFailures /\ 0 \in 0..MaxFailures BY <2>3
    <3> QED BY <2>2, <3>1
  <2>5. ASSUME NEW e \in Feeders, feeder'[e] # "done" PROVE fails'[e] < MaxFailures
    <3>1. CASE e = f
      <4>1. feeder' # [feeder EXCEPT ![f] = "done"] BY <2>5, <3>1 DEF FeedInv
      <4> QED BY <2>2, <2>3, <3>1, <4>1
    <3>2. CASE e # f
      <4>1. feeder'[e] = feeder[e] /\ fails'[e] = fails[e] BY <2>1, <2>2, <3>2 DEF FeedInv
      <4> QED BY <2>5, <4>1
    <3> QED BY <3>1, <3>2
  <2> QED BY <2>1, <2>4, <2>5
<1>4. ASSUME NEW p \in Procs, ConnectStep(p) PROVE UNCHANGED feeding \/ EnsureFeedTask
  BY <1>4 DEF ConnectStep, BeginConnect, OldClosed, Connected, ConnectRaises, AfterRaise,
              JobCancelled, Unwound
<1>5. ASSUME NEW j \in Jobs, ErrorJobBegins(j) \/ FatalError(j) \/ LongSpeechSubmits(j)
      PROVE  UNCHANGED feeding
  BY <1>5 DEF ErrorJobBegins, FatalError, LongSpeechSubmits
<1>6. StopBegins \/ StopStep \/ LongSpeechEnds \/ TerminalEvent \/ FrameArrives \/ CallEnds
           \/ SocketDies \/ UNCHANGED vars => UNCHANGED feeding
  BY DEF StopBegins, StopStep, GatherReturns, StopCloses, LongSpeechEnds, TerminalEvent,
         FrameArrives, CallEnds, SocketDies, vars
<1> QED BY <1>1, <1>2, <1>3, <1>4, <1>5, <1>6 DEF Next

LEMMA FlagsInvStep == ASSUME FlagsInv, [Next]_vars PROVE FlagsInv'
<1>. USE DEF FlagsInv
<1>1. ASSUME NEW p \in Procs, ConnectStep(p) PROVE FlagsInv'
  <2>1. CASE BeginConnect(p) BY <2>1 DEF BeginConnect
  <2>2. CASE OldClosed(p) \/ JobCancelled(p) \/ Unwound(p)
    BY <2>2 DEF OldClosed, JobCancelled, Unwound
  <2>3. CASE Connected(p) BY <2>3 DEF Connected
  <2>4. CASE ConnectRaises(p)
    <3>1. attempt' \in Nat
      <4>1. attempt' = attempt \/ attempt' = attempt + 1 BY <2>4 DEF ConnectRaises
      <4> QED BY <4>1
    <3>2. reconnecting' = FALSE /\ UNCHANGED <<stopping, limit, queue, caller, stopPc, reported, over>>
      BY <2>4 DEF ConnectRaises, Guarded
    <3> QED BY <3>1, <3>2
  <2> QED BY <1>1, <2>1, <2>2, <2>3, <2>4 DEF ConnectStep
<1>2. ASSUME NEW j \in Jobs, ErrorJobBegins(j) PROVE FlagsInv'
  <2>1. queue' \in Seq({"frame", "end"}) BY <1>2, DrainLeavesFrames DEF ErrorJobBegins
  <2> QED BY <1>2, <2>1 DEF ErrorJobBegins
<1>3. ASSUME NEW j \in Jobs, FatalError(j) \/ LongSpeechSubmits(j) PROVE FlagsInv'
  BY <1>3 DEF FatalError, LongSpeechSubmits
<1>4. ASSUME NEW f \in Feeders, FeedStep(f) PROVE FlagsInv'
  <2>1. queue' \in Seq({"frame", "end"})
    <3>1. queue # <<>> => Tail(queue) \in Seq({"frame", "end"}) BY HeadTailProperties
    <3> QED BY <1>4, <3>1 DEF FeedStep, Take, SendOk, SendRaises, GivesUp, Pause, FeederCancelled
  <2>2. /\ UNCHANGED <<stopping, reconnecting, limit, over, attempt, caller, stopPc>>
        /\ reported' \in {reported, TRUE}
    BY <1>4 DEF FeedStep, Take, SendOk, SendRaises, GivesUp, Pause, FeederCancelled
  <2> QED BY <2>1, <2>2
<1>5. CASE FrameArrives \/ CallEnds
  <2>1. queue' \in Seq({"frame", "end"})
    BY <1>5, AppendProperties DEF FrameArrives, CallEnds
  <2> QED BY <1>5, <2>1 DEF FrameArrives, CallEnds
<1>6. CASE StopBegins \/ StopStep \/ LongSpeechEnds
  BY <1>6 DEF StopBegins, StopStep, GatherReturns, StopCloses, LongSpeechEnds
<1>7. CASE TerminalEvent \/ SocketDies \/ UNCHANGED vars
  BY <1>7 DEF TerminalEvent, SocketDies, vars
<1> QED BY <1>1, <1>2, <1>3, <1>4, <1>5, <1>6, <1>7 DEF Next

LEMMA FailsInvariant == Spec => []FailsInv
<1>1. Init => FailsInv BY BoundAssumption DEF Init, FailsInv
<1>2. FeedInv /\ FailsInv /\ [Next]_vars => FailsInv' BY FailsInvStep
<1> QED BY <1>1, <1>2, FeedInvariant, PTL DEF Spec

LEMMA FlagsInvariant == Spec => []FlagsInv
<1>1. Init => FlagsInv
  <2>. SUFFICES ASSUME Init PROVE FlagsInv OBVIOUS
  <2>1. queue \in Seq({"frame", "end"})
    <3>1. queue = <<>> BY DEF Init
    <3> QED BY <3>1
  <2> QED BY <2>1 DEF Init, FlagsInv
<1>2. FlagsInv /\ [Next]_vars => FlagsInv' BY FlagsInvStep
<1> QED BY <1>1, <1>2, PTL DEF Spec

\* Every variable keeps its type for any number of jobs: no more sockets are made than jobs
\* connect, a feed task sends on a socket, and it ends at its limit of failures in a row
\* (elevenlabs_stt.py, _MAX_CONSECUTIVE_SEND_FAILURES).
THEOREM TypeCorrect == Spec => []TypeOK
<1>1. Init => SocketsInv BY DEF Init, SocketsInv
<1>2. FeedInv /\ JobsInv /\ SocketsInv /\ FailsInv /\ FlagsInv => TypeOK
  BY DEF FeedInv, JobsInv, SocketsInv, FailsInv, FlagsInv, TypeOK, Feeding, Positions
<1>3. JobsInv /\ [Next]_vars => JobsInv' BY JobsInvStep
<1>4. FeedInv /\ SocketsInv /\ JobsInv' /\ [Next]_vars => SocketsInv' BY SocketsInvStep
<1> QED BY <1>1, <1>2, <1>3, <1>4, JobsInvInit, FeedInvariant, FailsInvariant, FlagsInvariant, PTL
        DEF Spec

-----------------------------------------------------------------------------
(* Listening                                                               *)

\* A None in the queue ends the call, only stop() cancels the feed task, the time limit is
\* reported when it is met, and the feed task the session holds was made.
ListenInv ==
    /\ ListensOn
    /\ \A i \in 1..Len(queue) : queue[i] = "end" => over
    /\ "feeder" \in doomed => stopping
    /\ limit => reported
    /\ feedTask # 0 => feeder[feedTask] # "none"

LEMMA ListenInit == Init => ListenInv
<1>. SUFFICES ASSUME Init PROVE ListenInv OBVIOUS
<1>1. queue = <<>> /\ Len(queue) = 0 BY DEF Init
<1> QED BY <1>1 DEF Init, ListenInv, ListensOn

\* The steps that move no feed task
LEMMA ListensUnmoved ==
    ASSUME ListenInv, UNCHANGED <<feeder, fails, feedTask, stt, limit>>,
           stopping => stopping', over => over', reported => reported',
           "feeder" \in doomed' => "feeder" \in doomed \/ stopping',
           \A i \in 1..Len(queue') : queue'[i] = "end" => over'
    PROVE  ListenInv'
BY DEF ListenInv, ListensOn

LEMMA DrainEnds ==
    ASSUME NEW i \in 1..Len(AfterDrain(queue)), AfterDrain(queue)[i] = "end"
    PROVE  \E k \in 1..Len(queue) : queue[k] = "end"
<1>. SUFFICES ASSUME ~(\E k \in 1..Len(queue) : queue[k] = "end") PROVE FALSE OBVIOUS
<1>1. AfterDrain(queue) = <<>> BY DEF AfterDrain
<1>2. Len(AfterDrain(queue)) = 0 BY <1>1
<1> QED BY <1>2

LEMMA ConnectListens ==
    ASSUME FeedInv, FlagsInv, FailsInv, ListenInv, NEW p \in Procs, ConnectStep(p)
    PROVE  ListenInv'
<1>1. CASE Connected(p)
  <2>1. UNCHANGED <<stopping, limit, queue, doomed, reported, over>> /\ EnsureFeedTask
    BY <1>1 DEF Connected
  <2>2. CASE NeedsFeeder
    <3>1. PICK f \in Feeders : /\ feeder[f] = "none" /\ feeder' = [feeder EXCEPT ![f] = "get"]
                               /\ feedTask' = f /\ UNCHANGED fails
      BY <2>1, <2>2 DEF EnsureFeedTask
    <3>2. /\ feeder'[f] = "get" /\ \A e \in Feeders : feeder'[e] = "done" => feeder[e] = "done"
      BY <3>1 DEF FeedInv
    <3> QED BY <2>1, <3>1, <3>2 DEF ListenInv, ListensOn
  <2>3. CASE ~NeedsFeeder
    <3>1. UNCHANGED <<feeder, fails, feedTask>> BY <2>1, <2>3 DEF EnsureFeedTask, feeding
    <3>2. stopping \/ \E f \in Feeders : feeder[f] # "none"
      BY <2>3 DEF NeedsFeeder, ListenInv, FailsInv
    <3> QED BY <2>1, <3>1, <3>2 DEF ListenInv, ListensOn
  <2> QED BY <2>2, <2>3
<1>2. CASE ~Connected(p)
  <2>1. UNCHANGED <<feeder, fails, feedTask, stt, limit, stopping, over, reported, doomed>>
    BY <1>2 DEF ConnectStep, BeginConnect, OldClosed, ConnectRaises, AfterRaise, JobCancelled,
                Unwound, conns, feeding
  <2>2. queue' = queue \/ queue' = <<>>
    BY <1>2 DEF ConnectStep, BeginConnect, OldClosed, ConnectRaises, JobCancelled, Unwound
  <2>3. ASSUME NEW i \in 1..Len(queue'), queue'[i] = "end" PROVE over'
    <3>1. CASE queue' = queue BY <2>1, <2>3, <3>1 DEF ListenInv
    <3>2. CASE queue' = <<>>
      <4>1. Len(queue') = 0 BY <3>2
      <4> QED BY <4>1
    <3> QED BY <2>2, <3>1, <3>2
  <2> QED BY <2>1, <2>3, ListensUnmoved
<1> QED BY <1>1, <1>2

LEMMA FeedListens ==
    ASSUME FeedInv, FlagsInv, FailsInv, ListenInv, NEW f \in Feeders, FeedStep(f)
    PROVE  ListenInv'
<1>. USE BoundAssumption
<1>1. /\ UNCHANGED <<stt, stopping, over, limit, doomed, feedTask>> /\ (reported => reported')
      /\ Live(f)
  BY DEF FeedStep, Take, SendOk, SendRaises, GivesUp, Pause, FeederCancelled, conns, Live
<1>2. \E where \in Feeding \ {"none"} : feeder' = [feeder EXCEPT ![f] = where]
  BY DEF FeedStep, Take, SendOk, SendRaises, GivesUp, Pause, FeederCancelled, FeederGoes, Feeding
<1>3. \A e \in Feeders : feeder[e] # "none" => feeder'[e] # "none" BY <1>2 DEF FeedInv
<1>4. \A e \in Feeders \ {f} : feeder'[e] = feeder[e] /\ fails'[e] = fails[e]
  BY <1>2 DEF FeedInv, FailsInv, FeedStep, Take, SendOk, SendRaises, Pause, FeederCancelled
<1>5. feeder'[f] = "done" => over \/ stopping \/ (reported' /\ (limit \/ fails'[f] = MaxFailures))
  <2>1. CASE Take(f)
    <3>1. CASE Head(queue) = "end"
      <4>1. queue # <<>> /\ queue \in Seq({"frame", "end"}) BY <2>1 DEF Take, FlagsInv
      <4>2. 1 \in 1..Len(queue) /\ queue[1] = "end" BY <3>1, <4>1, HeadTailProperties, EmptySeq, LenProperties
      <4> QED BY <4>2 DEF ListenInv
    <3>2. CASE limit
      <4>1. reported /\ reported' BY <1>1, <3>2 DEF ListenInv
      <4> QED BY <3>2, <4>1
    <3>3. CASE Head(queue) # "end" /\ ~limit
      BY <2>1, <3>3 DEF Take, FeederGoes, FeedInv
    <3> QED BY <3>1, <3>2, <3>3
  <2>2. CASE SendOk(f) \/ Pause(f) BY <2>2 DEF SendOk, Pause, FeederGoes, FeedInv
  <2>3. CASE SendRaises(f)
    <3>. SUFFICES ASSUME feeder'[f] = "done" PROVE reported' /\ fails'[f] = MaxFailures
      OBVIOUS
    <3>1. /\ fails' = [fails EXCEPT ![f] = fails[f] + 1]
          /\ fails[f] + 1 >= MaxFailures /\ reported'
      BY <2>3 DEF SendRaises, GivesUp, FeederGoes, FeedInv
    <3>2. fails[f] < MaxFailures /\ fails[f] \in 0..MaxFailures
      BY <1>1 DEF Live, FailsInv
    <3>3. fails'[f] = fails[f] + 1 BY <3>1 DEF FailsInv
    <3> QED BY <3>1, <3>2, <3>3
  <2>4. CASE FeederCancelled(f) BY <2>4 DEF FeederCancelled, ListenInv
  <2> QED BY <2>1, <2>2, <2>3, <2>4 DEF FeedStep
<1>6. \A i \in 1..Len(queue') : queue'[i] = "end" => over
  <2>1. CASE UNCHANGED queue BY <2>1 DEF ListenInv
  <2>2. CASE Take(f)
    <3>1. queue # <<>> /\ queue' = Tail(queue) /\ queue \in Seq({"frame", "end"})
      BY <2>2 DEF Take, FlagsInv
    <3>2. Len(queue') = Len(queue) - 1 /\ \A i \in 1..Len(queue) - 1 : queue'[i] = queue[i + 1]
      BY <3>1, HeadTailProperties
    <3>3. Len(queue) \in Nat BY <3>1, LenProperties
    <3>4. \A i \in 1..Len(queue) - 1 : i + 1 \in 1..Len(queue) BY <3>3
    <3> QED BY <3>2, <3>4 DEF ListenInv
  <2> QED BY <2>1, <2>2 DEF FeedStep, SendOk, SendRaises, Pause, FeederCancelled
<1>7. ListensOn'
  <2>1. stt' # 0 /\ ~stopping' => \E e \in Feeders : feeder'[e] # "none"
    BY <1>1, <1>3 DEF ListenInv, ListensOn
  <2>2. ASSUME NEW e \in Feeders, feeder'[e] = "done"
        PROVE  over' \/ stopping' \/ (reported' /\ (limit' \/ fails'[e] = MaxFailures))
    <3>1. CASE e = f BY <1>1, <1>5, <2>2, <3>1
    <3>2. CASE e # f BY <1>1, <1>4, <2>2, <3>2 DEF ListenInv, ListensOn
    <3> QED BY <3>1, <3>2
  <2> QED BY <2>1, <2>2 DEF ListensOn
<1>8. feedTask # 0 => feeder'[feedTask] # "none" BY <1>3 DEF ListenInv, FailsInv
<1> QED BY <1>1, <1>6, <1>7, <1>8 DEF ListenInv

LEMMA ListenInvStep ==
    ASSUME FeedInv, FlagsInv, FailsInv, ListenInv, [Next]_vars PROVE ListenInv'
<1>1. ASSUME NEW j \in Jobs, ErrorJobBegins(j) PROVE ListenInv'
  <2>1. /\ UNCHANGED <<feeder, fails, feedTask, stt, limit, stopping, over, doomed>>
        /\ reported => reported'
    BY <1>1 DEF ErrorJobBegins, conns, feeding
  <2>2. queue' = queue \/ queue' = AfterDrain(queue) BY <1>1 DEF ErrorJobBegins
  <2>3. ASSUME NEW i \in 1..Len(queue'), queue'[i] = "end" PROVE over'
    BY <2>1, <2>2, <2>3, DrainEnds DEF ListenInv
  <2> QED BY <2>1, <2>3, ListensUnmoved
<1>2. CASE FrameArrives \/ CallEnds
  <2>1. /\ UNCHANGED <<feeder, fails, feedTask, stt, limit, stopping, reported, doomed>>
        /\ over => over'
    BY <1>2 DEF FrameArrives, CallEnds, conns, feeding
  <2>2. ASSUME NEW i \in 1..Len(queue'), queue'[i] = "end" PROVE over'
    <3>1. CASE CallEnds BY <3>1 DEF CallEnds
    <3>2. CASE FrameArrives
      <4>1. queue' = Append(queue, "frame") BY <3>2 DEF FrameArrives
      <4>2. /\ Len(queue') = Len(queue) + 1 /\ queue'[Len(queue) + 1] = "frame"
            /\ \A k \in 1..Len(queue) : queue'[k] = queue[k]
        BY <4>1, AppendProperties DEF FlagsInv
      <4>3. Len(queue) \in Nat BY LenProperties DEF FlagsInv
      <4>4. i \in 1..Len(queue) BY <2>2, <4>2, <4>3
      <4> QED BY <2>1, <2>2, <4>2, <4>4 DEF ListenInv
    <3> QED BY <1>2, <3>1, <3>2
  <2> QED BY <2>1, <2>2, ListensUnmoved
<1>3. CASE TerminalEvent
  <2>1. /\ UNCHANGED <<feeder, fails, feedTask, stt, stopping, over, queue, doomed>>
        /\ reported' = TRUE /\ limit' \in {limit, TRUE}
    BY <1>3 DEF TerminalEvent, conns, feeding
  <2>2. CASE limit' = limit
    <3>1. \A i \in 1..Len(queue') : queue'[i] = "end" => over' BY <2>1 DEF ListenInv
    <3> QED BY <2>1, <2>2, <3>1, ListensUnmoved
  <2>3. CASE limit' = TRUE
    BY <2>1, <2>3 DEF ListenInv, ListensOn
  <2> QED BY <2>1, <2>2, <2>3
<1>4. CASE UNCHANGED <<feeder, fails, feedTask, stt, limit, over, queue>>
           /\ (stopping => stopping') /\ (reported => reported')
           /\ ("feeder" \in doomed' => "feeder" \in doomed \/ stopping')
  <2>1. \A i \in 1..Len(queue') : queue'[i] = "end" => over' BY <1>4 DEF ListenInv
  <2> QED BY <1>4, <2>1, ListensUnmoved
<1>5. ASSUME NEW j \in Jobs, FatalError(j) \/ LongSpeechSubmits(j) PROVE ListenInv'
  BY <1>4, <1>5 DEF FatalError, LongSpeechSubmits, conns, feeding
<1>6. CASE LongSpeechEnds \/ StopBegins \/ StopStep \/ SocketDies \/ UNCHANGED vars
  BY <1>4, <1>6 DEF LongSpeechEnds, StopBegins, StopStep, GatherReturns, StopCloses, SocketDies,
                    vars, conns, feeding
<1> QED BY <1>1, <1>2, <1>3, <1>5, <1>6, ConnectListens, FeedListens DEF Next

\* NC-258, NC-260: for any number of reconnects, attempts and failures, a provider that has
\* connected has a feed task, which ends only with the call, by stop(), or with a report
\* (elevenlabs_stt.py, _feed_audio and _ensure_feed_task).
THEOREM NeverDeafUnreported == Spec => []ListensOn
<1>1. ListenInv => ListensOn BY DEF ListenInv
<1>2. ListenInv /\ FeedInv /\ FlagsInv /\ FailsInv /\ [Next]_vars => ListenInv' BY ListenInvStep
<1> QED BY <1>1, <1>2, ListenInit, FeedInvariant, FlagsInvariant, FailsInvariant, PTL DEF Spec
=============================================================================
