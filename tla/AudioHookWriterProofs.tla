----------------------- MODULE AudioHookWriterProofs -----------------------
(***************************************************************************)
(* What holds of AudioHookWriter for any packet size, pace and latency,    *)
(* and any number of bytes, marks and clear requests: the byte clock does  *)
(* not run ahead of the audio, a barge-in leaves nothing old behind, every *)
(* message is answered once, and the writer implements Playout.            *)
(***************************************************************************)
EXTENDS AudioHookWriter, FiniteSetTheorems, SequenceTheorems, TLAPS

\* A padded packet counts in full on the byte clock, so it may count bytes that are not
\* there; it is padded only when it holds all that the writer has.
Bytes ==
    /\ outbound \in Seq(Nat) /\ buffer \in Seq(Nat) /\ packet \in Seq(Nat)
    /\ put \in Nat /\ sent \in Nat
    /\ pc \notin {"sending", "failed"} => packet = <<>>
    /\ pc = "sending" /\ Len(packet) < Packet => buffer = <<>>

\* A mark goes from fresh to coming to the queue to the list, so what was queued before
\* it is not written anew while the writer counts on it.
Stages ==
    /\ before \in [Names -> Nat] /\ \A n \in Names : before[n] <= put
    /\ marks \subseteq MarkRec /\ markQueue \subseteq Names
    /\ \A n \in Names : n \in fresh \/ n \in coming => n \notin markQueue
    /\ \A n \in fresh : n \notin coming
    /\ \A m \in marks : m.name \notin fresh /\ m.name \notin coming

\* The audio before a mark is gone when the mark is anchored, and until then the clock
\* has at least as far to go as the audio.
OnTime(m) == IF m.due = Never THEN before[m.name] + sent <= Gone + m.target
                              ELSE before[m.name] <= Gone

\* A packet that will be padded takes all the audio before every mark.
PaddedTakesAll ==
    pc = "sending" /\ Len(packet) < Packet =>
        \A m \in marks : before[m.name] <= Gone + Len(packet)

Age == lag \in 0..Longest

ClockInv == Bytes /\ Stages /\ Age /\ (\A m \in marks : OnTime(m)) /\ PaddedTakesAll

LEMMA Lengths ==
    ASSUME Bytes
    PROVE  /\ Len(outbound) \in Nat /\ Len(buffer) \in Nat /\ Len(packet) \in Nat
           /\ Gone \in Int /\ put \in Nat /\ sent \in Nat
BY LenProperties DEF Bytes, Gone

LEMMA MarkFields ==
    ASSUME Stages, NEW m \in marks
    PROVE  m \in MarkRec /\ m.name \in Names /\ m.target \in Nat /\ before[m.name] \in Nat
           /\ before[m.name] <= put
BY DEF Stages, MarkRec

LEMMA NeverIsLast ==
    /\ Longest \in Nat /\ Never \in Nat /\ Never \notin 0..Longest
    /\ Interval \in 0..Longest /\ Latency \in 0..Longest
BY TimeAssumption DEF Longest, Never

LEMMA ClockInit == Init => ClockInv
<1>. SUFFICES ASSUME Init PROVE ClockInv OBVIOUS
<1>1. Bytes BY EmptySeq DEF Init, Bytes
<1>2. Stages BY DEF Init, Stages
<1>3. Age BY TimeAssumption DEF Init, Age, Longest
<1> QED BY <1>1, <1>2, <1>3 DEF Init, ClockInv, PaddedTakesAll

\* Marks stay on time when audio goes and the clock stands.
LEMMA ClockStands ==
    ASSUME ClockInv, Bytes', Stages', Age', marks' \subseteq marks, UNCHANGED sent, Gone' >= Gone,
           \A m \in marks : before'[m.name] = before[m.name],
           pc' = "sending" => pc = "sending" /\ UNCHANGED packet
    PROVE  ClockInv'
<1>1. Gone \in Int /\ Gone' \in Int /\ sent \in Nat /\ Len(packet) \in Nat
  <2>1. Gone \in Int /\ sent \in Nat /\ Len(packet) \in Nat BY Lengths DEF ClockInv
  <2>2. /\ Len(outbound') \in Nat /\ Len(buffer') \in Nat /\ Len(packet') \in Nat /\ put' \in Nat
    BY LenProperties DEF Bytes
  <2> QED BY <2>1, <2>2 DEF Gone
<1>2. ASSUME NEW m \in marks' PROVE OnTime(m)'
  <2>1. m \in marks /\ OnTime(m) /\ before'[m.name] = before[m.name] BY <1>2 DEF ClockInv
  <2>2. m.target \in Nat /\ before[m.name] \in Nat BY <2>1, MarkFields DEF ClockInv
  <2> QED BY <1>1, <2>1, <2>2 DEF OnTime
<1>3. PaddedTakesAll'
  <2>. SUFFICES ASSUME pc' = "sending" /\ Len(packet') < Packet, NEW m \in marks'
                PROVE  before'[m.name] <= Gone' + Len(packet')
    BY DEF PaddedTakesAll
  <2>1. m \in marks /\ packet' = packet /\ before[m.name] <= Gone + Len(packet)
    BY DEF ClockInv, PaddedTakesAll
  <2>2. before[m.name] \in Nat /\ before'[m.name] = before[m.name]
    BY <2>1, MarkFields DEF ClockInv
  <2> QED BY <1>1, <2>1, <2>2
<1> QED BY <1>2, <1>3 DEF ClockInv

\* A chunk that is queued waits.
LEMMA PutAudioGone == ASSUME ClockInv, PutAudio PROVE put' \in Nat /\ put' > put /\ Gone' = Gone
<1>1. PICK k \in 1..MaxChunk : /\ put' = put + k
                               /\ outbound' = outbound \o [i \in 1..k |-> put + i]
  BY DEF PutAudio
<1>2. k \in Nat /\ k > 0 /\ put \in Nat BY SizeAssumption DEF ClockInv, Bytes
<1>. DEFINE new == [i \in 1..k |-> put + i]
<1>3. new \in Seq(Nat) /\ Len(new) = k
  <2>1. new \in [1..k -> Nat] BY <1>2
  <2> QED BY <1>2, <2>1, SeqDef, LenProperties
<1>. HIDE DEF new
<1>4. outbound' = outbound \o new BY <1>1 DEF new
<1>5. Len(outbound') = Len(outbound) + k
  BY <1>3, <1>4, ConcatProperties DEF ClockInv, Bytes
<1>6. UNCHANGED <<buffer, packet>> BY DEF PutAudio
<1> QED BY <1>1, <1>2, <1>5, <1>6, Lengths DEF Gone, ClockInv

\* The session's threads, the text messages, and time
LEMMA PutAudioKeeps == ASSUME ClockInv, PutAudio PROVE ClockInv'
<1>1. PICK k \in 1..MaxChunk : /\ put' = put + k
                               /\ outbound' = outbound \o [i \in 1..k |-> put + i]
  BY DEF PutAudio
<1>2. k \in Nat /\ put \in Nat BY SizeAssumption DEF ClockInv, Bytes
<1>. DEFINE new == [i \in 1..k |-> put + i]
<1>3. new \in Seq(Nat) /\ Len(new) = k
  <2>1. new \in [1..k -> Nat] BY <1>2
  <2> QED BY <1>2, <2>1, SeqDef, LenProperties
<1>. HIDE DEF new
<1>4. outbound' = outbound \o new BY <1>1 DEF new
<1>5. outbound' \in Seq(Nat) /\ Len(outbound') = Len(outbound) + k
  BY <1>3, <1>4, ConcatProperties DEF ClockInv, Bytes
<1>6. UNCHANGED <<buffer, packet, sent, marks, before, pc, fresh, coming, markQueue>>
  BY DEF PutAudio
<1>10. Age' BY DEF PutAudio, clock, ClockInv, Age
<1>7. Gone' = Gone BY PutAudioGone
<1>8. Bytes' BY <1>1, <1>2, <1>5, <1>6 DEF ClockInv, Bytes
<1>9. Stages'
  <2>1. \A n \in Names : before[n] \in Nat /\ before[n] <= put BY DEF ClockInv, Stages
  <2>2. \A n \in Names : before'[n] <= put' BY <1>1, <1>2, <1>6, <2>1
  <2> QED BY <1>6, <2>2 DEF ClockInv, Stages
<1> QED BY <1>6, <1>7, <1>8, <1>9, <1>10, Lengths, ClockStands DEF ClockInv

LEMMA QuietKeeps ==
    ASSUME ClockInv, Age',
           UNCHANGED <<outbound, buffer, packet, put, sent, marks, before, markQueue>>,
           \A n \in Names : n \in fresh' \/ n \in coming' => n \in fresh \/ n \in coming,
           \A n \in fresh' : n \notin coming',
           pc' = "sending" => pc = "sending",
           pc \in {"sending", "failed"} => pc' \in {"sending", "failed"}
    PROVE  ClockInv'
<1>1. Gone' = Gone BY DEF Gone
<1>2. Bytes' BY DEF ClockInv, Bytes
<1>3. Stages'
  <2>1. \A m \in marks : m.name \in Names BY MarkFields DEF ClockInv
  <2> QED BY <2>1 DEF ClockInv, Stages
<1> QED BY <1>1, <1>2, <1>3, Lengths, ClockStands DEF ClockInv

LEMMA OthersKeep ==
    ASSUME ClockInv,
           \/ \E n \in Names : Register(n) \/ Leave(n)
           \/ \E x \in Texts : Send(x)
           \/ RequestClear \/ Bind \/ WriteFails \/ StartText \/ TextWritten \/ StartService
           \/ Unbound \/ Wakes
    PROVE  ClockInv'
<1>0. Age'
  BY NeverIsLast DEF ClockInv, Age, clock, Register, Leave, Send, RequestClear, Bind, WriteFails,
                     Fail, StartText, TextWritten, StartService, Unbound, Wakes
<1>1. CASE \E n \in Names : Register(n)
  <2>1. PICK n \in Names : Register(n) BY <1>1
  <2>2. /\ fresh' = fresh \ {n} /\ coming' = coming \cup {n} /\ n \in fresh
        /\ UNCHANGED <<outbound, buffer, packet, put, sent, marks, before, markQueue, pc>>
    BY <2>1 DEF Register, history
  <2> QED BY <1>0, <2>2, QuietKeeps DEF ClockInv, Stages
<1>2. CASE ~\E n \in Names : Register(n)
  <2>1. /\ UNCHANGED <<outbound, buffer, packet, put, sent, marks, before, markQueue, fresh,
                       coming>>
        /\ pc' = "sending" => pc = "sending"
        /\ pc \in {"sending", "failed"} => pc' \in {"sending", "failed"}
    BY <1>2 DEF Leave, Send, RequestClear, Bind, WriteFails, Fail, StartText, TextWritten,
                StartService, Unbound, Wakes, session, history
  <2> QED BY <1>0, <2>1, QuietKeeps DEF ClockInv, Stages
<1> QED BY <1>1, <1>2

LEMMA PutMarkKeeps == ASSUME ClockInv, NEW n \in Names, PutMark(n) PROVE ClockInv'
<1>1. /\ n \in coming /\ coming' = coming \ {n} /\ markQueue' = markQueue \cup {n}
      /\ before' = [before EXCEPT ![n] = put]
      /\ UNCHANGED <<outbound, buffer, packet, put, sent, marks, pc, fresh>>
  BY DEF PutMark
<1>2. Gone' = Gone BY <1>1 DEF Gone
<1>3. Bytes' BY <1>1 DEF ClockInv, Bytes
<1>4. put \in Nat BY Lengths DEF ClockInv
<1>5. \A k \in Names : before'[k] = IF k = n THEN put ELSE before[k]
  BY <1>1 DEF ClockInv, Stages
<1>6. before' \in [Names -> Nat] /\ \A k \in Names : before'[k] <= put'
  BY <1>1, <1>4, <1>5 DEF ClockInv, Stages
<1>7. Stages' BY <1>1, <1>6 DEF ClockInv, Stages
<1>8. \A m \in marks : before'[m.name] = before[m.name]
  BY <1>1, <1>5, MarkFields DEF ClockInv, Stages
<1>9. Age' BY DEF PutMark, clock, ClockInv, Age
<1> QED BY <1>1, <1>2, <1>3, <1>7, <1>8, <1>9, Lengths, ClockStands DEF ClockInv

LEMMA LessTimer ==
    ASSUME NEW t \in Timer
    PROVE  Less(t) \in Timer /\ (Less(t) = Never <=> t = Never)
BY NeverIsLast DEF Less, Timer, Never

LEMMA TickKeeps == ASSUME ClockInv, Tick PROVE ClockInv'
<1>1. /\ marks' = {[m EXCEPT !.due = Less(@)] : m \in marks}
      /\ UNCHANGED <<outbound, buffer, packet, put, sent, before, pc, fresh, coming, markQueue>>
  BY DEF Tick, session, history
<1>2. ASSUME NEW k \in marks'
      PROVE  \E m \in marks : /\ k \in MarkRec /\ k.name = m.name /\ k.target = m.target
                              /\ k.due = Never <=> m.due = Never
  <2>1. PICK m \in marks : k = [m EXCEPT !.due = Less(@)] BY <1>1
  <2>2. m \in MarkRec BY MarkFields DEF ClockInv
  <2>3. /\ k = [name |-> m.name, target |-> m.target, due |-> Less(m.due)]
        /\ m.due \in Timer /\ m.name \in Names /\ m.target \in Nat
    BY <2>1, <2>2 DEF MarkRec
  <2> QED BY <2>3, LessTimer DEF MarkRec
<1>3. Gone' = Gone BY <1>1 DEF Gone
<1>4. Bytes' BY <1>1 DEF ClockInv, Bytes
<1>5. Stages' BY <1>1, <1>2 DEF ClockInv, Stages
<1>6. \A k \in marks' : OnTime(k)' BY <1>1, <1>2, <1>3 DEF ClockInv, OnTime
<1>7. PaddedTakesAll' BY <1>1, <1>2, <1>3 DEF ClockInv, PaddedTakesAll
<1>8. Age' BY NeverIsLast DEF Tick, More, ClockInv, Age
<1> QED BY <1>4, <1>5, <1>6, <1>7, <1>8 DEF ClockInv

-----------------------------------------------------------------------------
(* A barge-in                                                              *)

LEMMA BargeInKeeps == ASSUME ClockInv, StartBargeIn PROVE ClockInv'
<1>1. /\ buffer' = <<>> /\ outbound' = <<>> /\ markQueue' = {} /\ pc' = "barging"
      /\ pc = "service"
      /\ UNCHANGED <<packet, put, sent, marks, before, fresh, coming>>
  BY DEF StartBargeIn, history
<1>2. Gone' >= Gone BY <1>1, Lengths, EmptySeq DEF ClockInv, Gone
<1>3. Bytes' BY <1>1, EmptySeq DEF ClockInv, Bytes
<1>4. Stages' BY <1>1 DEF ClockInv, Stages
<1>5. Age' BY DEF StartBargeIn, ClockInv, Age
<1> QED BY <1>1, <1>2, <1>3, <1>4, <1>5, ClockStands DEF ClockInv

LEMMA BargeInWrittenKeeps == ASSUME ClockInv, BargeInWritten PROVE ClockInv'
<1>1. /\ marks' \subseteq marks /\ pc' = "service" /\ pc = "barging"
      /\ UNCHANGED <<outbound, buffer, packet, put, sent, before, fresh, coming, markQueue>>
  BY DEF BargeInWritten, history
<1>2. Gone' = Gone BY <1>1 DEF Gone
<1>3. Bytes' BY <1>1 DEF ClockInv, Bytes
<1>4. Stages' BY <1>1 DEF ClockInv, Stages
<1>5. Age' BY DEF BargeInWritten, clock, ClockInv, Age
<1> QED BY <1>1, <1>2, <1>3, <1>4, <1>5, Lengths, ClockStands DEF ClockInv

-----------------------------------------------------------------------------
(* Packets                                                                 *)

LEMMA DrainedLength ==
    ASSUME Bytes
    PROVE  Drained \in Seq(Nat) /\ Len(Drained) = Len(buffer) + Len(outbound)
BY ConcatProperties DEF Bytes, Drained

\* The marks the list has when _service has taken those in the queue
LEMMA NewOnTime ==
    ASSUME ClockInv, NEW buffered \in Nat, NEW m \in WithNew(buffered)
    PROVE  /\ m \in MarkRec /\ m.name \notin fresh /\ m.name \notin coming
           /\ \/ m \in marks
              \/ /\ m.name \in Names /\ (m.due = Never <=> buffered > 0)
                 /\ m.target = sent + buffered
<1>1. CASE m \in marks BY <1>1 DEF ClockInv, Stages
<1>2. CASE m \notin marks
  <2>1. PICK n \in markQueue \cap pending : m = NewMark(n, buffered)
    BY <1>2 DEF WithNew
  <2>. DEFINE d == IF buffered > 0 THEN Never ELSE IF lag < Latency THEN Latency - lag ELSE 0
  <2>2. n \in Names /\ n \notin fresh /\ n \notin coming /\ sent \in Nat
    BY Lengths DEF ClockInv, Stages
  <2>3. m = [name |-> n, target |-> sent + buffered, due |-> d] BY <2>1 DEF NewMark
  <2>4. d \in Timer /\ (d = Never <=> buffered > 0)
    BY NeverIsLast DEF ClockInv, Age, Timer
  <2>. HIDE DEF d
  <2> QED BY <2>2, <2>3, <2>4 DEF MarkRec
<1> QED BY <1>1, <1>2

\* _service puts all there is into the buffer and the packet; then a mark it takes has as
\* far to go as the audio.
LEMMA DrainKeeps ==
    ASSUME ClockInv, pc = "service", Bytes', outbound' = <<>>, markQueue' = {},
           UNCHANGED <<put, sent, before, fresh, coming>>,
           Len(buffer') + Len(packet') = Len(Drained),
           pc' = "sending" /\ Len(packet') < Packet => buffer' = <<>>,
           Age', marks' \subseteq WithNew(Len(Drained))
    PROVE  /\ ClockInv' /\ Gone' = Gone
           /\ \A m \in WithNew(Len(Drained)) :
                 m.due # Never => before[m.name] <= Gone'
<1>1. /\ packet = <<>> /\ Len(packet) = 0 /\ Len(outbound') = 0
      /\ Len(Drained) = Len(buffer) + Len(outbound)
  BY DrainedLength, EmptySeq DEF ClockInv, Bytes
<1>2. /\ Len(outbound) \in Nat /\ Len(buffer) \in Nat /\ put \in Nat /\ sent \in Nat
      /\ Len(buffer') \in Nat /\ Len(packet') \in Nat
  BY Lengths, LenProperties DEF ClockInv, Bytes
<1>3. Gone' = Gone /\ Gone \in Int /\ put = Gone + Len(Drained) /\ Len(Drained) \in Nat
  BY <1>1, <1>2 DEF Gone
<1>4. \A m \in WithNew(Len(Drained)) : m \in MarkRec /\ m.name \notin fresh /\ m.name \notin coming
  BY <1>3, NewOnTime
<1>5. \A n \in Names : before[n] \in Nat /\ before[n] <= put BY DEF ClockInv, Stages
<1>6. ASSUME NEW m \in WithNew(Len(Drained))
      PROVE  OnTime(m)
  <2>1. m.name \in Names /\ m.target \in Nat BY <1>4, <1>6 DEF MarkRec
  <2>2. CASE m \in marks BY <2>2 DEF ClockInv
  <2>3. CASE (m.due = Never <=> Len(Drained) > 0) /\ m.target = sent + Len(Drained)
    BY <1>2, <1>3, <1>5, <2>1, <2>3 DEF OnTime
  <2> QED BY <1>3, <1>6, <2>2, <2>3, NewOnTime
<1>7. Stages' BY <1>4 DEF ClockInv, Stages
<1>8. \A m \in marks' : OnTime(m)' BY <1>3, <1>6 DEF OnTime
<1>9. PaddedTakesAll'
  <2>. SUFFICES ASSUME pc' = "sending" /\ Len(packet') < Packet, NEW m \in marks'
                PROVE  before'[m.name] <= Gone' + Len(packet')
    BY DEF PaddedTakesAll
  <2>1. m.name \in Names BY <1>4 DEF MarkRec
  <2>2. Len(buffer') = 0 /\ Len(packet') = Len(Drained) BY <1>2, EmptySeq
  <2> QED BY <1>3, <1>5, <2>1, <2>2
<1> QED BY <1>3, <1>6, <1>7, <1>8, <1>9 DEF ClockInv, OnTime

LEMMA CutInTwo ==
    ASSUME NEW s \in Seq(Nat), NEW n \in Nat, n <= Len(s)
    PROVE  /\ SubSeq(s, 1, n) \in Seq(Nat) /\ Len(SubSeq(s, 1, n)) = n
           /\ SubSeq(s, n + 1, Len(s)) \in Seq(Nat)
           /\ Len(SubSeq(s, n + 1, Len(s))) = Len(s) - n
           /\ \A i \in 1..n : SubSeq(s, 1, n)[i] = s[i]
           /\ \A i \in 1..Len(s) - n : SubSeq(s, n + 1, Len(s))[i] = s[n + i]
<1>1. Len(s) \in Nat BY LenProperties
<1>2. \A i \in 1..n : s[i] \in Nat BY <1>1, ElementOfSeq
<1>3. \A i \in n + 1..Len(s) : s[i] \in Nat BY <1>1, ElementOfSeq
<1> QED BY <1>1, <1>2, <1>3, SubSeqProperties

LEMMA StartPacketKeeps == ASSUME ClockInv, StartPacket PROVE ClockInv'
<1>1. Drained \in Seq(Nat) /\ Len(Drained) \in Nat BY DrainedLength, LenProperties DEF ClockInv
<1>. DEFINE real == IF Len(Drained) >= Packet THEN Packet ELSE Len(Drained)
<1>2. /\ pc = "service" /\ pc' = "sending" /\ outbound' = <<>> /\ markQueue' = {}
      /\ marks' = WithNew(Len(Drained)) /\ lag' = 0
      /\ packet' = SubSeq(Drained, 1, real) /\ buffer' = SubSeq(Drained, real + 1, Len(Drained))
      /\ UNCHANGED <<put, sent, before, fresh, coming>>
  BY DEF StartPacket, DrainedAll, NowIsPast, history
<1>3. real \in Nat /\ real <= Len(Drained) /\ (real < Packet => real = Len(Drained))
  BY <1>1, SizeAssumption
<1>. HIDE DEF real
<1>4. /\ packet' \in Seq(Nat) /\ Len(packet') = real
      /\ buffer' \in Seq(Nat) /\ Len(buffer') = Len(Drained) - real
  BY <1>1, <1>2, <1>3, CutInTwo
<1>5. Len(buffer') + Len(packet') = Len(Drained) BY <1>1, <1>3, <1>4
<1>6. Len(packet') < Packet => buffer' = <<>> BY <1>1, <1>3, <1>4, EmptySeq
<1>7. Bytes' BY <1>2, <1>4, <1>6, EmptySeq DEF ClockInv, Bytes
<1>8. Age' BY <1>2, NeverIsLast DEF Age
<1> QED BY <1>2, <1>5, <1>6, <1>7, <1>8, DrainKeeps

\* A packet that is formed is not gone.
LEMMA StartPacketGone == ASSUME ClockInv, StartPacket PROVE Gone' = Gone
<1>1. Drained \in Seq(Nat) /\ Len(Drained) \in Nat /\ Len(Drained) = Len(buffer) + Len(outbound)
  BY DrainedLength, LenProperties DEF ClockInv
<1>. DEFINE real == IF Len(Drained) >= Packet THEN Packet ELSE Len(Drained)
<1>2. /\ packet = <<>> /\ outbound' = <<>> /\ put' = put
      /\ packet' = SubSeq(Drained, 1, real) /\ buffer' = SubSeq(Drained, real + 1, Len(Drained))
  BY DEF StartPacket, DrainedAll, history, ClockInv, Bytes
<1>3. real \in Nat /\ real <= Len(Drained) BY <1>1, SizeAssumption
<1>. HIDE DEF real
<1>4. Len(packet') = real /\ Len(buffer') = Len(Drained) - real BY <1>1, <1>2, <1>3, CutInTwo
<1>5. Len(packet) = 0 /\ Len(outbound') = 0 BY <1>2, EmptySeq
<1>6. Len(buffer) \in Nat /\ Len(outbound) \in Nat /\ put \in Nat BY Lengths DEF ClockInv
<1>7. Gone = put - Len(Drained) BY <1>1, <1>5, <1>6 DEF Gone
<1>8. Gone' = put - Len(Drained)
  <2>1. Gone' = put - 0 - (Len(Drained) - real) - real BY <1>2, <1>4, <1>5 DEF Gone
  <2> QED BY <1>1, <1>3, <1>6, <2>1
<1> QED BY <1>7, <1>8

\* What a packet that is out does to the clock
LEMMA PacketOut ==
    ASSUME ClockInv, PacketSent
    PROVE  /\ Bytes' /\ Gone' = Gone + Len(packet) /\ Gone' \in Int /\ sent' = sent + Packet
           /\ \A m \in Anchored(sent + Packet) :
                 /\ m \in MarkRec /\ m.name \notin fresh /\ m.name \notin coming
                 /\ IF m.due = Never THEN before[m.name] + sent' <= Gone' + m.target
                                     ELSE before[m.name] <= Gone'
<1>1. /\ pc = "sending" /\ pc' = "sleep" /\ packet' = <<>> /\ sent' = sent + Packet
      /\ UNCHANGED <<outbound, buffer, put, before>>
  BY DEF PacketSent, history
<1>2. /\ Len(outbound) \in Nat /\ Len(buffer) \in Nat /\ Len(packet) \in Nat /\ Len(packet') = 0
      /\ put \in Nat /\ sent \in Nat /\ Packet \in Nat /\ Gone \in Int
  BY <1>1, Lengths, EmptySeq, SizeAssumption DEF ClockInv
<1>3. Gone' = Gone + Len(packet) /\ Gone' \in Int BY <1>1, <1>2 DEF Gone
<1>4. Bytes' BY <1>1, <1>2, EmptySeq DEF ClockInv, Bytes
<1>5. ASSUME NEW k \in Anchored(sent + Packet)
      PROVE  /\ k \in MarkRec /\ k.name \notin fresh /\ k.name \notin coming
             /\ IF k.due = Never THEN before[k.name] + sent' <= Gone' + k.target
                                 ELSE before[k.name] <= Gone'
  <2>1. PICK m \in marks :
            k = IF m.due = Never /\ m.target <= sent + Packet THEN [m EXCEPT !.due = Latency] ELSE m
    BY <1>5 DEF Anchored
  <2>2. /\ m \in MarkRec /\ m.name \in Names /\ m.target \in Nat /\ m.due \in Timer
        /\ before[m.name] \in Nat /\ OnTime(m) /\ m.name \notin fresh /\ m.name \notin coming
    BY <2>1, MarkFields DEF ClockInv, Stages, MarkRec
  <2>3. Len(packet) < Packet => before[m.name] <= Gone'
    BY <1>1, <1>3, <2>1 DEF ClockInv, PaddedTakesAll
  <2>4. CASE m.due = Never /\ m.target <= sent + Packet
    <3>1. k = [name |-> m.name, target |-> m.target, due |-> Latency]
      BY <2>1, <2>2, <2>4 DEF MarkRec
    <3>2. Latency # Never /\ Latency \in Timer BY NeverIsLast DEF Timer
    <3>3. before[m.name] <= Gone'
      <4>1. before[m.name] + sent <= Gone + m.target BY <2>2, <2>4 DEF OnTime
      <4>2. CASE Len(packet) < Packet BY <2>3, <4>2
      <4>3. CASE ~(Len(packet) < Packet)
        <5>. DEFINE b == before[m.name]
                    t == m.target
                    p == Len(packet)
        <5>1. {b, t, p, sent, Packet} \subseteq Nat /\ Gone \in Int BY <1>2, <2>2
        <5>2. b + sent <= Gone + t /\ t <= sent + Packet /\ ~(p < Packet) BY <2>4, <4>1, <4>3
        <5>. HIDE DEF b, t, p
        <5>3. b <= Gone + p BY <5>1, <5>2
        <5> QED BY <1>3, <5>3 DEF b, p
      <4> QED BY <4>2, <4>3
    <3>4. k.name = m.name /\ k.due = Latency /\ k \in MarkRec BY <2>2, <3>1, <3>2 DEF MarkRec
    <3> QED BY <2>2, <3>2, <3>3, <3>4
  <2>5. CASE ~(m.due = Never /\ m.target <= sent + Packet)
    <3>1. k = m BY <2>1, <2>5
    <3>2. CASE m.due = Never
      <4>1. m.target > sent + Packet BY <1>2, <2>2, <2>5, <3>2
      <4>2. before[m.name] + sent <= Gone + m.target BY <2>2, <3>2 DEF OnTime
      <4>3. before[m.name] + sent' <= Gone' + m.target
        <5>. DEFINE b == before[m.name]
                    t == m.target
                    l == Len(packet)
                    g == Gone
        <5>1. /\ b \in Nat /\ t \in Nat /\ l \in Nat /\ g \in Int /\ sent' = sent + Packet
              /\ Gone' = g + l /\ b + sent <= g + t /\ t > sent + Packet
              /\ (l < Packet => b <= Gone')
          BY <1>1, <1>2, <1>3, <2>2, <2>3, <4>1, <4>2
        <5>. HIDE DEF b, t, l, g
        <5>2. b + sent' <= Gone' + t BY <1>2, <5>1
        <5> QED BY <5>2 DEF b, t
      <4> QED BY <2>2, <3>1, <3>2, <4>3
    <3>3. CASE m.due # Never BY <1>2, <1>3, <2>2, <3>1, <3>3 DEF OnTime
    <3> QED BY <2>2, <3>1, <3>2, <3>3
  <2> QED BY <2>4, <2>5
<1> QED BY <1>1, <1>3, <1>4, <1>5

LEMMA PacketSentKeeps == ASSUME ClockInv, PacketSent PROVE ClockInv'
<1>1. /\ marks' \subseteq Anchored(sent + Packet) /\ pc' = "sleep"
      /\ UNCHANGED <<before, put, fresh, coming, markQueue, lag>>
  BY DEF PacketSent, Resolve, history
<1>2. Stages' BY <1>1, PacketOut DEF ClockInv, Stages
<1>3. \A m \in marks' : OnTime(m)' BY <1>1, PacketOut DEF OnTime
<1> QED BY <1>1, <1>2, <1>3, PacketOut DEF ClockInv, Age, PaddedTakesAll

LEMMA NoPacketDrains ==
    ASSUME ClockInv, NoPacket
    PROVE  /\ ClockInv' /\ Gone' = Gone
           /\ \A m \in WithNew(Len(Drained)) : m.due # Never => before[m.name] <= Gone'
<1>1. /\ pc = "service" /\ pc' = "sleep" /\ outbound' = <<>> /\ markQueue' = {} /\ lag' = 0
      /\ buffer' = Drained /\ marks' \subseteq WithNew(Len(Drained))
      /\ UNCHANGED <<put, sent, before, fresh, coming, packet>>
  BY DEF NoPacket, DrainedAll, NowIsPast, Resolve, history
<1>2. Drained \in Seq(Nat) /\ Len(Drained) \in Nat /\ packet = <<>> /\ Len(packet) = 0
  BY <1>1, DrainedLength, LenProperties, EmptySeq DEF ClockInv, Bytes
<1>3. Bytes' BY <1>1, <1>2, EmptySeq DEF ClockInv, Bytes
<1>4. Age' BY <1>1, NeverIsLast DEF Age
<1>5. Len(buffer') + Len(packet') = Len(Drained) BY <1>1, <1>2
<1> QED BY <1>1, <1>3, <1>4, <1>5, DrainKeeps

-----------------------------------------------------------------------------
(* The byte clock                                                          *)

Ranked == rank \in [Names -> Nat]

Inv == ClockInv /\ Ranked

LEMMA InvInit == Init => Inv
BY ClockInit DEF Init, Inv, Ranked

LEMMA InvStep == Inv /\ [Next]_vars => Inv'
<1>. SUFFICES ASSUME Inv, [Next]_vars PROVE Inv' OBVIOUS
<1>1. ClockInv'
  <2>1. CASE \E n \in Names : PutMark(n) BY <2>1, PutMarkKeeps DEF Inv
  <2>2. CASE PutAudio BY <2>2, PutAudioKeeps DEF Inv
  <2>3. CASE Tick BY <2>3, TickKeeps DEF Inv
  <2>4. CASE StartBargeIn BY <2>4, BargeInKeeps DEF Inv
  <2>5. CASE BargeInWritten BY <2>5, BargeInWrittenKeeps DEF Inv
  <2>6. CASE StartPacket BY <2>6, StartPacketKeeps DEF Inv
  <2>7. CASE PacketSent BY <2>7, PacketSentKeeps DEF Inv
  <2>8. CASE NoPacket BY <2>8, NoPacketDrains DEF Inv
  <2>9. CASE UNCHANGED vars
    BY <2>9, QuietKeeps DEF Inv, ClockInv, Age, Stages, vars, session, clock, history
  <2> QED BY <2>1, <2>2, <2>3, <2>4, <2>5, <2>6, <2>7, <2>8, <2>9, OthersKeep DEF Next, Writer, Inv
<1>2. Ranked'
  <2>1. CASE \E n \in Names : PutMark(n)
    <3>1. PICK n \in Names : PutMark(n) BY <2>1
    <3>. DEFINE c == Cardinality({k \in Names : rank[k] > 0})
    <3>2. c \in Nat
      <4>1. {k \in Names : rank[k] > 0} \subseteq Names OBVIOUS
      <4> QED BY <4>1, NameAssumption, FS_Subset, FS_CardinalityType
    <3>. HIDE DEF c
    <3>3. rank' = [rank EXCEPT ![n] = 1 + c] BY <3>1 DEF PutMark, c
    <3> QED BY <3>2, <3>3 DEF Inv, Ranked
  <2>2. CASE UNCHANGED rank BY <2>2 DEF Inv, Ranked
  <2>3. CASE ~(\E n \in Names : PutMark(n))
    <3>1. UNCHANGED rank
      BY <2>3 DEF Next, Writer, vars, history, PutAudio, RequestClear, Bind, Tick, WriteFails, Fail,
           Register, Leave, Send, StartText, TextWritten, StartService, StartBargeIn,
           BargeInWritten, StartPacket, PacketSent, NoPacket, Unbound, Wakes
    <3> QED BY <2>2, <3>1
  <2> QED BY <2>1, <2>3
<1> QED BY <1>1, <1>2 DEF Inv

LEMMA Invariant == Spec => []Inv
BY InvInit, InvStep, PTL DEF Spec

\* What _resolve_marks releases was anchored.
LEMMA ReleasedIsDue ==
    ASSUME Ranked, NEW ms, ms \subseteq MarkRec, Resolve(ms),
           NEW n \in Names, n \in echoed', n \notin echoed
    PROVE  \E m \in ms : m.name = n /\ m.due # Never
<1>1. PICK m \in DuePrefix(ms) : m.name = n BY DEF Resolve
<1>2. m \in ms /\ (rank[m.name] <= rank[m.name] => m.due = 0) BY DEF DuePrefix
<1>3. rank[m.name] \in Nat BY <1>1 DEF Ranked
<1> QED BY <1>1, <1>2, <1>3, NeverIsLast

\* The byte clock of _audiohook_writer.py never releases a wait while audio queued before
\* its mark is still with the writer, whatever is padded, dropped or queued meanwhile.
THEOREM ClockNeverAhead == Spec => EchoedIsSent
<1>1. ASSUME Inv, [Next]_vars, NEW n \in Names, n \in echoed', n \notin echoed, pc # "barging"
      PROVE  before[n] <= Gone'
  <2>1. CASE PacketSent
    <3>1. Resolve(Anchored(sent + Packet)) BY <2>1 DEF PacketSent
    <3>2. Anchored(sent + Packet) \subseteq MarkRec BY <1>1, <2>1, PacketOut DEF Inv
    <3>3. PICK m \in Anchored(sent + Packet) : m.name = n /\ m.due # Never
      BY <1>1, <3>1, <3>2, ReleasedIsDue DEF Inv
    <3> QED BY <1>1, <2>1, <3>3, PacketOut DEF Inv
  <2>2. CASE NoPacket
    <3>1. Resolve(WithNew(Len(Drained))) BY <2>2 DEF NoPacket
    <3>2. WithNew(Len(Drained)) \subseteq MarkRec
      BY <1>1, DrainedLength, LenProperties, NewOnTime DEF Inv, ClockInv
    <3>3. PICK m \in WithNew(Len(Drained)) : m.name = n /\ m.due # Never
      BY <1>1, <3>1, <3>2, ReleasedIsDue DEF Inv
    <3> QED BY <1>1, <2>2, <3>3, NoPacketDrains DEF Inv
  <2>3. CASE ~PacketSent /\ ~NoPacket
    <3>1. echoed' \subseteq echoed
      BY <1>1, <2>3 DEF Next, Writer, vars, session, PutAudio, RequestClear, Bind, Tick,
           WriteFails, Fail, Register, PutMark, Leave, Send, StartText, TextWritten,
           StartService, StartBargeIn, BargeInWritten, StartPacket, Unbound, Wakes
    <3> QED BY <1>1, <3>1
  <2> QED BY <2>1, <2>2, <2>3
<1>2. Inv /\ [Next]_vars =>
        [\A n \in Names : n \in echoed' /\ n \notin echoed /\ pc # "barging"
            => before[n] <= Gone']_vars
  BY <1>1
<1> QED BY <1>2, Invariant, PTL DEF Spec, EchoedIsSent

-----------------------------------------------------------------------------
(* After a barge-in                                                        *)

\* The requests _barge_in has answered are the first ones, and what the writer and the
\* queue hold came after the last of these.
Above(s) == \A i \in 1..Len(s) : s[i] > Cut
Fresh ==
    /\ clears \in Nat /\ cuts \in Seq(Nat) /\ clears <= Len(cuts)
    /\ \A i \in 1..Len(cuts) : cuts[i] <= put
    /\ Above(outbound) /\ Above(buffer)

LEMMA CutBelowPut == ASSUME Fresh, put \in Nat PROVE Cut \in Nat /\ Cut <= put
<1>1. Len(cuts) \in Nat BY LenProperties DEF Fresh
<1>2. CASE Len(cuts) = clears BY <1>2 DEF Cut
<1>3. CASE Len(cuts) # clears
  <2>1. Len(cuts) - clears \in 1..Len(cuts) BY <1>1, <1>3 DEF Fresh
  <2>2. cuts[Len(cuts) - clears] \in Nat BY <2>1, ElementOfSeq DEF Fresh
  <2> QED BY <1>3, <2>1, <2>2 DEF Cut, Fresh
<1> QED BY <1>2, <1>3

LEMMA DrainedAbove ==
    ASSUME Bytes, Fresh PROVE Above(Drained)
<1>1. /\ Len(buffer) \in Nat /\ Len(outbound) \in Nat /\ Len(Drained) = Len(buffer) + Len(outbound)
      /\ \A i \in 1..Len(Drained) :
            Drained[i] = IF i <= Len(buffer) THEN buffer[i] ELSE outbound[i - Len(buffer)]
  BY Lengths, ConcatProperties DEF Bytes, Drained
<1>. SUFFICES ASSUME NEW i \in 1..Len(Drained) PROVE Drained[i] > Cut BY DEF Above
<1>2. CASE i <= Len(buffer)
  <2>1. i \in 1..Len(buffer) /\ Drained[i] = buffer[i] BY <1>1, <1>2
  <2> QED BY <2>1 DEF Fresh, Above
<1>3. CASE ~(i <= Len(buffer))
  <2>1. i - Len(buffer) \in 1..Len(outbound) /\ Drained[i] = outbound[i - Len(buffer)]
    BY <1>1, <1>3
  <2> QED BY <2>1 DEF Fresh, Above
<1> QED BY <1>2, <1>3

LEMMA PacketAbove ==
    ASSUME Bytes, Fresh, StartPacket PROVE Above(packet') /\ Above(buffer')
<1>1. Drained \in Seq(Nat) /\ Len(Drained) \in Nat BY DrainedLength, LenProperties
<1>. DEFINE real == IF Len(Drained) >= Packet THEN Packet ELSE Len(Drained)
<1>2. /\ packet' = SubSeq(Drained, 1, real) /\ buffer' = SubSeq(Drained, real + 1, Len(Drained))
  BY DEF StartPacket
<1>3. real \in Nat /\ real <= Len(Drained) BY <1>1, SizeAssumption
<1>. HIDE DEF real
<1>4. /\ Len(packet') = real /\ \A i \in 1..real : packet'[i] = Drained[i]
      /\ Len(buffer') = Len(Drained) - real
      /\ \A i \in 1..Len(Drained) - real : buffer'[i] = Drained[real + i]
  BY <1>1, <1>2, <1>3, CutInTwo
<1>5. \A i \in 1..Len(Drained) : Drained[i] > Cut BY DrainedAbove DEF Above
<1>6. \A i \in 1..real : i \in 1..Len(Drained) BY <1>1, <1>3
<1>7. \A i \in 1..Len(Drained) - real : real + i \in 1..Len(Drained) BY <1>1, <1>3
<1> QED BY <1>4, <1>5, <1>6, <1>7 DEF Above

LEMMA FreshStep == Inv /\ Fresh /\ [Next]_vars => Fresh'
<1>. SUFFICES ASSUME Inv, Fresh, [Next]_vars PROVE Fresh' OBVIOUS
<1>. USE DEF Inv, ClockInv
<1>0. put \in Nat /\ Bytes BY DEF Bytes
<1>1. Cut \in Nat /\ Cut <= put /\ Len(cuts) \in Nat BY <1>0, CutBelowPut, LenProperties DEF Fresh
<1>2. CASE PutAudio
  <2>1. UNCHANGED <<clears, cuts, buffer>> BY <1>2 DEF PutAudio
  <2>2. PICK k \in 1..MaxChunk : /\ put' = put + k
                                 /\ outbound' = outbound \o [i \in 1..k |-> put + i]
    BY <1>2 DEF PutAudio
  <2>. DEFINE new == [i \in 1..k |-> put + i]
  <2>3. new \in Seq(Nat) /\ Len(new) = k /\ k \in Nat
    <3>1. k \in Nat /\ new \in [1..k -> Nat] BY <1>0, SizeAssumption
    <3> QED BY <3>1, SeqDef, LenProperties
  <2>4. \A i \in 1..k : new[i] > Cut BY <1>0, <1>1, <2>3
  <2>. HIDE DEF new
  <2>5. Len(outbound) \in Nat /\ outbound \in Seq(Nat) BY <1>0, Lengths DEF Bytes
  <2>6. /\ Len(outbound') = Len(outbound) + k
        /\ \A i \in 1..Len(outbound) + k :
              outbound'[i] = IF i <= Len(outbound) THEN outbound[i] ELSE new[i - Len(outbound)]
    BY <2>2, <2>3, <2>5, ConcatProperties DEF new
  <2>7. ASSUME NEW i \in 1..Len(outbound') PROVE outbound'[i] > Cut
    <3>0. i \in Nat /\ i >= 1 /\ i \in 1..Len(outbound) + k BY <2>3, <2>5, <2>6
    <3>1. CASE i <= Len(outbound)
      <4>1. i \in 1..Len(outbound) BY <2>5, <3>0, <3>1
      <4>2. outbound'[i] = outbound[i] BY <2>6, <3>0, <3>1
      <4>3. outbound[i] > Cut BY <4>1 DEF Fresh, Above
      <4> QED BY <4>2, <4>3
    <3>2. CASE ~(i <= Len(outbound))
      <4>1. i - Len(outbound) \in 1..k BY <2>3, <2>5, <3>0, <3>2
      <4>2. outbound'[i] = new[i - Len(outbound)] BY <2>6, <3>0, <3>2
      <4> QED BY <2>4, <4>1, <4>2
    <3> QED BY <3>1, <3>2
  <2>8. Cut' = Cut BY <2>1 DEF Cut
  <2>9. \A i \in 1..Len(cuts) : cuts[i] \in Nat /\ cuts[i] <= put
    BY ElementOfSeq DEF Fresh
  <2>10. \A i \in 1..Len(cuts') : cuts'[i] <= put' BY <1>0, <2>1, <2>2, <2>3, <2>9
  <2> QED BY <2>1, <2>7, <2>8, <2>10 DEF Fresh, Above
<1>3. CASE RequestClear
  <2>1. cuts' = Append(cuts, put) /\ clears' = clears + 1 /\ UNCHANGED <<outbound, buffer, put>>
    BY <1>3 DEF RequestClear
  <2>2. /\ cuts' \in Seq(Nat) /\ Len(cuts') = Len(cuts) + 1
        /\ \A i \in 1..Len(cuts) : cuts'[i] = cuts[i]
        /\ cuts'[Len(cuts) + 1] = put
    BY <1>0, <2>1, AppendProperties DEF Fresh
  <2>3. Cut' = Cut
    <3>1. Len(cuts') = clears' <=> Len(cuts) = clears BY <1>1, <2>1, <2>2 DEF Fresh
    <3>2. Len(cuts') - clears' = Len(cuts) - clears BY <1>1, <2>1, <2>2 DEF Fresh
    <3>3. Len(cuts) # clears => Len(cuts) - clears \in 1..Len(cuts) BY <1>1 DEF Fresh
    <3> QED BY <2>2, <3>1, <3>2, <3>3 DEF Cut
  <2>4. \A i \in 1..Len(cuts') : cuts'[i] <= put'
    BY <1>0, <1>1, <2>1, <2>2 DEF Fresh
  <2>5. clears' \in Nat /\ clears' <= Len(cuts') BY <1>1, <2>1, <2>2 DEF Fresh
  <2> QED BY <2>1, <2>2, <2>3, <2>4, <2>5 DEF Fresh, Above
<1>4. CASE StartBargeIn
  <2>1. /\ clears > 0 /\ clears' = clears - 1 /\ outbound' = <<>> /\ buffer' = <<>>
        /\ UNCHANGED <<cuts, put>>
    BY <1>4 DEF StartBargeIn, ClearWaiting, history
  <2>2. clears' \in Nat /\ clears' <= Len(cuts') BY <1>1, <2>1 DEF Fresh
  <2> QED BY <2>1, <2>2, EmptySeq DEF Fresh, Above
<1>5. CASE StartPacket
  <2>1. outbound' = <<>> /\ UNCHANGED <<cuts, clears, put>>
    BY <1>5 DEF StartPacket, DrainedAll, history
  <2>2. Above(buffer') BY <1>0, <1>5, PacketAbove
  <2>3. Cut' = Cut BY <2>1 DEF Cut
  <2> QED BY <2>1, <2>2, <2>3, EmptySeq DEF Fresh, Above
<1>6. CASE NoPacket
  <2>1. outbound' = <<>> /\ buffer' = Drained /\ UNCHANGED <<cuts, clears, put>>
    BY <1>6 DEF NoPacket, DrainedAll, history
  <2>2. Above(buffer') BY <1>0, <2>1, DrainedAbove
  <2>3. Cut' = Cut BY <2>1 DEF Cut
  <2> QED BY <2>1, <2>2, <2>3, EmptySeq DEF Fresh, Above
<1>7. CASE UNCHANGED <<outbound, buffer, clears, cuts, put>>
  BY <1>7 DEF Fresh, Above, Cut
<1>8. CASE ~(PutAudio \/ RequestClear \/ StartBargeIn \/ StartPacket \/ NoPacket)
  <2>1. UNCHANGED <<outbound, buffer, clears, cuts, put>>
    BY <1>8 DEF Next, Writer, vars, session, history, Bind, Tick, WriteFails, Fail, Register,
         PutMark, Leave, Send, StartText, TextWritten, StartService, BargeInWritten,
         PacketSent, Unbound, Wakes
  <2> QED BY <1>7, <2>1
<1> QED BY <1>2, <1>3, <1>4, <1>5, <1>6, <1>8

LEMMA FreshInvariant == Spec => []Fresh
<1>1. Init => Fresh BY EmptySeq DEF Init, Fresh, Above
<1> QED BY <1>1, FreshStep, Invariant, PTL DEF Spec

\* No packet _service forms after a barge_in holds a byte that was queued before the request
\* that barge_in answered.
THEOREM BargeInDropsAll == Spec => NoStaleAudio
<1>1. ASSUME Inv, Fresh, [Next]_vars, pc' = "sending", pc # "sending"
      PROVE  \A i \in 1..Len(packet') : packet'[i] > Cut
  <2>1. CASE StartPacket BY <1>1, <2>1, PacketAbove DEF Inv, ClockInv, Above
  <2>2. CASE ~StartPacket
    <3>1. pc' = pc \/ pc' # "sending"
      BY <1>1, <2>2 DEF Next, Writer, vars, PutAudio, RequestClear, Bind, Tick,
           WriteFails, Fail, Register, PutMark, Leave, Send, StartText, TextWritten,
           StartService, StartBargeIn, BargeInWritten, PacketSent, NoPacket, Unbound, Wakes
    <3> QED BY <1>1, <3>1
  <2> QED BY <2>1, <2>2
<1>2. Inv /\ Fresh /\ [Next]_vars =>
        [pc' = "sending" /\ pc # "sending" => \A i \in 1..Len(packet') : packet'[i] > Cut]_vars
  BY <1>1
<1> QED BY <1>2, Invariant, FreshInvariant, PTL DEF Spec, NoStaleAudio

-----------------------------------------------------------------------------
(* Types                                                                   *)

Positions == {"flush", "writing", "service", "barging", "sending", "sleep", "failed"}

\* what the byte clock does not need
Waits ==
    /\ pending \subseteq Names /\ echoed \subseteq Names
    /\ fresh \subseteq Names /\ coming \subseteq Names /\ names \subseteq Names
Gears ==
    /\ pc \in Positions /\ bound \in BOOLEAN
    /\ nextIn \in 0..Interval /\ quiet \in Timer /\ ready \in BOOLEAN
\* The message that is being written is the first one waiting.
Messages ==
    /\ text \in Seq(Texts) /\ future \in [Texts -> {"none", "queued", "true", "false"}]
    /\ pc = "writing" => text # <<>>

\* the steps of the writer that are not about marks or messages
Plain == StartText \/ StartService \/ StartPacket \/ Unbound \/ Wakes

LEMMA WaitsStep == ASSUME Inv, Waits, [Next]_vars PROVE Waits'
<1>. USE DEF Waits
<1>1. CASE UNCHANGED <<pending, echoed, fresh, coming, names>> BY <1>1
<1>2. ASSUME NEW n \in Names, Register(n) \/ PutMark(n) \/ Leave(n) PROVE Waits'
  BY <1>2 DEF Register, PutMark, Leave
<1>3. CASE StartBargeIn \/ BargeInWritten BY <1>3 DEF StartBargeIn, BargeInWritten
<1>4. CASE PacketSent \/ NoPacket
  <2>1. echoed' \subseteq echoed \cup pending
    BY <1>4 DEF PacketSent, NoPacket, Resolve
  <2>2. UNCHANGED <<pending, fresh, coming, names>> BY <1>4 DEF PacketSent, NoPacket
  <2> QED BY <2>1, <2>2
<1>5. CASE \/ PutAudio \/ RequestClear \/ Bind \/ Tick \/ WriteFails \/ Plain \/ TextWritten
           \/ UNCHANGED vars \/ \E x \in Texts : Send(x)
  BY <1>1, <1>5 DEF PutAudio, RequestClear, Bind, Tick, WriteFails, Fail, Plain, StartText,
       TextWritten, StartService, StartPacket, Unbound, Wakes, vars, session, Send
<1> QED BY <1>2, <1>3, <1>4, <1>5 DEF Next, Writer, Plain

LEMMA GearsStep == ASSUME Inv, Gears, [Next]_vars PROVE Gears'
<1>. USE DEF Gears, Positions
<1>0. 0 \in 0..Interval /\ Interval \in 0..Interval BY TimeAssumption
<1>1. CASE UNCHANGED <<pc, bound, nextIn, quiet, ready>> BY <1>1
<1>2. CASE Tick
  <2>1. UNCHANGED <<pc, bound, ready>> BY <1>2 DEF Tick
  <2>2. nextIn' \in 0..Interval
    <3>1. nextIn' = nextIn \/ (nextIn # 0 /\ nextIn' = nextIn - 1) BY <1>2 DEF Tick, Less
    <3> QED BY <3>1, TimeAssumption
  <2>3. quiet' \in Timer
    BY <1>2, NeverIsLast DEF Tick, More, Timer, Never
  <2> QED BY <2>1, <2>2, <2>3
<1>3. CASE \/ RequestClear \/ PutAudio \/ UNCHANGED vars
           \/ \E n \in Names : Register(n) \/ PutMark(n) \/ Leave(n)
           \/ \E x \in Texts : Send(x)
  BY <1>1, <1>3 DEF RequestClear, PutAudio, vars, clock, Register, PutMark, Leave, Send
<1>4. CASE Bind \/ WriteFails \/ StartText \/ TextWritten \/ BargeInWritten \/ Unbound \/ Wakes
  BY <1>4 DEF Bind, WriteFails, Fail, StartText, TextWritten, BargeInWritten, Unbound, Wakes, clock
<1>5. CASE StartService BY <1>5 DEF StartService
<1>6. CASE StartBargeIn BY <1>6 DEF StartBargeIn, Timer
<1>7. CASE StartPacket \/ NoPacket
  <2>1. quiet' \in Timer
    BY <1>7 DEF StartPacket, NoPacket, DrainedAll, Inv, ClockInv, Age, Timer
  <2> QED BY <1>7, <2>1 DEF StartPacket, NoPacket, NowIsPast
<1>8. CASE PacketSent BY <1>0, <1>8 DEF PacketSent
<1> QED BY <1>2, <1>3, <1>4, <1>5, <1>6, <1>7, <1>8 DEF Next, Writer

LEMMA MessagesStep == ASSUME Messages, [Next]_vars PROVE Messages'
<1>. USE DEF Messages
<1>1. CASE UNCHANGED texts /\ (pc' = "writing" => pc = "writing" \/ text # <<>>) BY <1>1 DEF texts
<1>2. ASSUME NEW x \in Texts, Send(x) PROVE Messages'
  <2>1. text' \in Seq(Texts) /\ (text # <<>> => text' # <<>>)
    <3>1. Append(text, x) \in Seq(Texts) /\ Append(text, x) # <<>> BY AppendProperties
    <3> QED BY <1>2, <3>1 DEF Send
  <2> QED BY <1>2, <2>1 DEF Send
<1>3. CASE TextWritten \/ WriteFails
  <2>1. text' \in Seq(Texts)
    <3>1. CASE WriteFails BY <3>1, EmptySeq DEF WriteFails, Fail
    <3>2. CASE TextWritten BY <3>2, HeadTailProperties DEF TextWritten
    <3> QED BY <1>3, <3>1, <3>2
  <2>2. future' \in [Texts -> {"none", "queued", "true", "false"}]
    BY <1>3 DEF TextWritten, WriteFails, Fail
  <2>3. pc' # "writing" BY <1>3 DEF TextWritten, WriteFails, Fail
  <2> QED BY <2>1, <2>2, <2>3
<1>4. CASE ~(TextWritten \/ WriteFails \/ \E x \in Texts : Send(x))
  BY <1>1, <1>4 DEF Next, Writer, vars, PutAudio, RequestClear, Bind, Tick, Register, PutMark,
       Leave, StartText, StartService, StartBargeIn, BargeInWritten, StartPacket, PacketSent,
       NoPacket, Unbound, Wakes
<1> QED BY <1>2, <1>3, <1>4

\* Every variable keeps its type, for any sizes and times: the timers stay within the spans
\* the code compares, and every mark's fields with them (_audiohook_writer.py, _service).
THEOREM TypeCorrect == Spec => []TypeOK
<1>1. Init => Waits BY DEF Init, Waits
<1>2. Init => Gears
  <2>. SUFFICES ASSUME Init PROVE Gears OBVIOUS
  <2>1. nextIn \in 0..Interval /\ quiet \in Timer BY TimeAssumption DEF Init, Timer
  <2> QED BY <2>1 DEF Init, Gears, Positions
<1>3. Init => Messages BY EmptySeq DEF Init, Messages
<1>4. Inv /\ Fresh /\ Waits /\ Gears /\ Messages => TypeOK
  BY DEF Inv, ClockInv, Bytes, Stages, Age, Ranked, Fresh, Waits, Gears, Messages, Positions, TypeOK
<1>5. Inv /\ Waits /\ [Next]_vars => Waits' BY WaitsStep
<1>6. Inv /\ Gears /\ [Next]_vars => Gears' BY GearsStep
<1>7. Messages /\ [Next]_vars => Messages' BY MessagesStep
<1> QED BY <1>1, <1>2, <1>3, <1>4, <1>5, <1>6, <1>7, Invariant, FreshInvariant, PTL DEF Spec

-----------------------------------------------------------------------------
(* What TextAnswered, a liveness property, rests on                        *)

\* A message that has no answer waits to be written, and a failed writer has none waiting;
\* what waits has no answer yet, and waits once.
Awaited ==
    /\ \A x \in Texts : future[x] = "queued" => \E i \in 1..Len(text) : text[i] = x
    /\ pc = "failed" => text = <<>>
    /\ \A i \in 1..Len(text) : future[text[i]] = "queued"
    /\ \A i, k \in 1..Len(text) : text[i] = text[k] => i = k

\* An answer is given once: a Future that is done is not set again.
AnsweredOnce ==
    [][\A x \in Texts : future[x] \in {"true", "false"} => future'[x] = future[x]]_vars

LEMMA TextSteps ==
    ASSUME [Next]_vars
    PROVE  \/ TextWritten \/ WriteFails \/ \E x \in Texts : Send(x)
           \/ UNCHANGED texts /\ (pc' = "failed" <=> pc = "failed")
<1>. SUFFICES ASSUME ~(TextWritten \/ WriteFails \/ \E x \in Texts : Send(x))
              PROVE  UNCHANGED texts /\ (pc' = "failed" <=> pc = "failed")
  OBVIOUS
<1> QED
  BY DEF texts, Next, Writer, vars, PutAudio, RequestClear, Bind, Tick, Register, PutMark,
         Leave, StartText, StartService, StartBargeIn, BargeInWritten, StartPacket, PacketSent,
         NoPacket, Unbound, Wakes

LEMMA AwaitedStep ==
    ASSUME Messages, Awaited, [Next]_vars
    PROVE  Awaited' /\ \A x \in Texts : future[x] \in {"true", "false"} => future'[x] = future[x]
<1>0. Len(text) \in Nat /\ \A i \in 1..Len(text) : text[i] \in Texts
  BY LenProperties, ElementOfSeq DEF Messages
<1>1. CASE TextWritten
  <2>1. /\ text # <<>> /\ text' = Tail(text) /\ future' = [future EXCEPT ![text[1]] = "true"]
        /\ pc' # "failed"
    BY <1>1 DEF TextWritten, Messages
  <2>2. /\ Len(text) > 0 /\ Len(text') = Len(text) - 1
        /\ \A i \in 1..Len(text') : text'[i] = text[i + 1]
    BY <2>1, HeadTailProperties, EmptySeq DEF Messages
  <2>3. text[1] \in Texts /\ future[text[1]] = "queued" BY <1>0, <2>2 DEF Awaited
  <2>4. \A x \in Texts : future'[x] = IF x = text[1] THEN "true" ELSE future[x]
    BY <2>1, <2>3 DEF Messages
  <2>5. \A i \in 1..Len(text') : i + 1 \in 1..Len(text) /\ text'[i] # text[1]
    BY <1>0, <2>2 DEF Awaited
  <2>6. ASSUME NEW x \in Texts, future'[x] = "queued" PROVE \E i \in 1..Len(text') : text'[i] = x
    <3>1. x # text[1] /\ future[x] = "queued" BY <2>4, <2>6
    <3>2. PICK i \in 1..Len(text) : text[i] = x BY <3>1 DEF Awaited
    <3>3. i - 1 \in 1..Len(text') /\ text'[i - 1] = text[(i - 1) + 1]
      BY <1>0, <2>2, <3>1, <3>2
    <3>4. (i - 1) + 1 = i BY <3>2
    <3> QED BY <3>2, <3>3, <3>4
  <2>7. \A i \in 1..Len(text') : future'[text'[i]] = "queued"
    BY <1>0, <2>2, <2>4, <2>5 DEF Awaited
  <2>8. \A i, k \in 1..Len(text') : text'[i] = text'[k] => i = k
    BY <1>0, <2>2, <2>5 DEF Awaited
  <2>9. \A x \in Texts : future[x] \in {"true", "false"} => future'[x] = future[x]
    BY <2>3, <2>4
  <2> QED BY <2>1, <2>6, <2>7, <2>8, <2>9 DEF Awaited
<1>2. CASE WriteFails
  <2>1. /\ text' = <<>> /\ Len(text') = 0
        /\ future' = [x \in Texts |-> IF \E i \in 1..Len(text) : text[i] = x
                                      THEN "false" ELSE future[x]]
    BY <1>2 DEF WriteFails, Fail
  <2> QED BY <2>1 DEF Awaited
<1>3. ASSUME NEW x \in Texts, Send(x)
      PROVE  Awaited' /\ \A y \in Texts : future[y] \in {"true", "false"} => future'[y] = future[y]
  <2>1. future[x] = "none" /\ UNCHANGED pc BY <1>3 DEF Send
  <2>2. CASE pc = "failed"
    BY <1>3, <2>1, <2>2 DEF Send, Awaited, Messages
  <2>3. CASE pc # "failed"
    <3>1. /\ text' = Append(text, x)
          /\ \A y \in Texts : future'[y] = IF y = x THEN "queued" ELSE future[y]
      BY <1>3, <2>3 DEF Send, Messages
    <3>2. /\ Len(text') = Len(text) + 1 /\ text'[Len(text) + 1] = x
          /\ \A i \in 1..Len(text) : text'[i] = text[i]
      BY <3>1, AppendProperties DEF Messages
    <3>3. \A i \in 1..Len(text) : text[i] # x BY <2>1 DEF Awaited
    <3>4. \A i \in 1..Len(text') : i \in 1..Len(text) \/ i = Len(text) + 1 BY <1>0, <3>2
    <3>5. Len(text) + 1 \in 1..Len(text') /\ \A i \in 1..Len(text) : i \in 1..Len(text')
      BY <1>0, <3>2
    <3>6. \A y \in Texts : future'[y] = "queued" => \E i \in 1..Len(text') : text'[i] = y
      BY <3>1, <3>2, <3>5 DEF Awaited
    <3>7. \A i \in 1..Len(text') : future'[text'[i]] = "queued"
      BY <1>0, <3>1, <3>2, <3>4 DEF Awaited
    <3>8. \A i, k \in 1..Len(text') : text'[i] = text'[k] => i = k
      BY <3>2, <3>3, <3>4 DEF Awaited
    <3> QED BY <2>1, <2>3, <3>1, <3>6, <3>7, <3>8 DEF Awaited
  <2> QED BY <2>2, <2>3
<1>4. CASE UNCHANGED texts /\ (pc' = "failed" <=> pc = "failed")
  BY <1>4 DEF texts, Awaited
<1> QED BY <1>1, <1>2, <1>3, <1>4, TextSteps

LEMMA MessagesInvariant == Spec => [](Messages /\ Awaited)
<1>1. Init => Messages BY EmptySeq DEF Init, Messages
<1>2. Init => Awaited BY DEF Init, Awaited
<1>3. Messages /\ [Next]_vars => Messages' BY MessagesStep
<1>4. Messages /\ Awaited /\ [Next]_vars => Awaited' BY AwaitedStep
<1> QED BY <1>1, <1>2, <1>3, <1>4, PTL DEF Spec

\* Whoever awaits a message waits for one that is still to be written; when a write raises,
\* nobody is left waiting, also by a later send() (_audiohook_writer.py:94).
THEOREM NobodyLeftWaiting == Spec => []Awaited
BY MessagesInvariant, PTL

\* No message is answered twice, by its write and by the failure of a later one.
THEOREM AnswersAreFinal == Spec => AnsweredOnce
<1>1. Messages /\ Awaited /\ [Next]_vars
        => [\A x \in Texts : future[x] \in {"true", "false"} => future'[x] = future[x]]_vars
  BY AwaitedStep
<1> QED BY <1>1, MessagesInvariant, PTL DEF Spec, AnsweredOnce

-----------------------------------------------------------------------------
(* Playout                                                                 *)

InLine(s, from) == \A i \in 1..Len(s) : s[i] = from + i

\* What the writer and the queue hold is the last audio queued, in order and without a gap.
Contents ==
    /\ InLine(packet, Gone) /\ InLine(buffer, Gone + Len(packet))
    /\ InLine(outbound, put - Len(outbound))
    /\ pc = "sending" => packet # <<>>

LEMMA NothingInLine == ASSUME NEW from PROVE InLine(<<>>, from)
BY EmptySeq DEF InLine

LEMMA DrainedInLine ==
    ASSUME Bytes, Contents, packet = <<>> PROVE InLine(Drained, Gone) /\ put = Gone + Len(Drained)
<1>1. /\ Len(buffer) \in Nat /\ Len(outbound) \in Nat /\ Len(Drained) = Len(buffer) + Len(outbound)
      /\ \A i \in 1..Len(Drained) :
            Drained[i] = IF i <= Len(buffer) THEN buffer[i] ELSE outbound[i - Len(buffer)]
  BY Lengths, ConcatProperties DEF Bytes, Drained
<1>2. Gone \in Int /\ Len(packet) = 0 /\ put \in Nat BY EmptySeq, Lengths
<1>3. put - Len(outbound) = Gone + Len(buffer) /\ put = Gone + Len(Drained)
  BY <1>1, <1>2 DEF Gone
<1>. SUFFICES ASSUME NEW i \in 1..Len(Drained) PROVE Drained[i] = Gone + i BY <1>3 DEF InLine
<1>4. CASE i <= Len(buffer) BY <1>1, <1>2, <1>4 DEF Contents, InLine
<1>5. CASE i > Len(buffer)
  <2>1. i - Len(buffer) \in 1..Len(outbound) BY <1>1, <1>5
  <2>2. outbound[i - Len(buffer)] = put - Len(outbound) + (i - Len(buffer))
    BY <2>1 DEF Contents, InLine
  <2> QED BY <1>1, <1>2, <1>3, <1>5, <2>2
<1> QED BY <1>1, <1>4, <1>5

\* A packet takes the first bytes that wait, as many as fit.
LEMMA PacketInLine ==
    ASSUME ClockInv, Contents, StartPacket
    PROVE  /\ InLine(packet', Gone) /\ InLine(buffer', Gone + Len(packet'))
           /\ packet = <<>> /\ packet' # <<>>
           /\ Len(packet') \in 1..Packet /\ packet' = [i \in 1..Len(packet') |-> Gone + i]
           /\ Gone + Len(packet') <= put
<1>1. Drained \in Seq(Nat) /\ Len(Drained) \in Nat BY DrainedLength, LenProperties DEF ClockInv
<1>2. packet = <<>> /\ Drained # <<>> BY DEF StartPacket, MaySend, ClockInv, Bytes
<1>3. /\ \A i \in 1..Len(Drained) : Drained[i] = Gone + i
      /\ put = Gone + Len(Drained) /\ Gone \in Int
  BY <1>2, DrainedInLine, Lengths DEF ClockInv, InLine
<1>. DEFINE real == IF Len(Drained) >= Packet THEN Packet ELSE Len(Drained)
<1>4. /\ packet' = SubSeq(Drained, 1, real) /\ buffer' = SubSeq(Drained, real + 1, Len(Drained))
  BY DEF StartPacket
<1>5. real \in Nat /\ real <= Len(Drained) /\ real \in 1..Packet
  <2>1. Len(Drained) # 0 BY <1>1, <1>2, EmptySeq
  <2> QED BY <1>1, <2>1, SizeAssumption
<1>. HIDE DEF real
<1>6. /\ packet' \in Seq(Nat) /\ Len(packet') = real /\ \A i \in 1..real : packet'[i] = Drained[i]
      /\ Len(buffer') = Len(Drained) - real
      /\ \A i \in 1..Len(Drained) - real : buffer'[i] = Drained[real + i]
  BY <1>1, <1>4, <1>5, CutInTwo
<1>7. \A i \in 1..real : i \in 1..Len(Drained) BY <1>1, <1>5
<1>8. \A i \in 1..Len(Drained) - real : real + i \in 1..Len(Drained) BY <1>1, <1>5
<1>9. InLine(packet', Gone) BY <1>3, <1>6, <1>7 DEF InLine
<1>10. InLine(buffer', Gone + Len(packet'))
  <2>1. \A i \in 1..Len(Drained) - real : buffer'[i] = Gone + (real + i) BY <1>3, <1>6, <1>8
  <2> QED BY <1>3, <1>5, <1>6, <2>1 DEF InLine
<1>11. packet' = [i \in 1..real |-> Gone + i]
  <2>1. DOMAIN packet' = 1..real /\ packet' = [i \in DOMAIN packet' |-> packet'[i]]
    BY <1>6, LenProperties, SeqDef
  <2> QED BY <1>3, <1>6, <1>7, <2>1
<1>12. packet' # <<>> BY <1>5, <1>6, EmptySeq
<1>13. Gone + Len(packet') <= put BY <1>1, <1>3, <1>5, <1>6
<1>14. packet' = [i \in 1..Len(packet') |-> Gone + i] BY <1>6, <1>11
<1> QED BY <1>2, <1>5, <1>6, <1>9, <1>10, <1>12, <1>13, <1>14

LEMMA ContentsStep == ASSUME Inv, Contents, [Next]_vars PROVE Contents'
<1>. USE DEF Inv, ClockInv
<1>0. /\ Len(outbound) \in Nat /\ Len(buffer) \in Nat /\ Len(packet) \in Nat
      /\ Gone \in Int /\ put \in Nat
  BY Lengths
<1>1. CASE PutAudio
  <2>1. UNCHANGED <<buffer, packet, pc>> BY <1>1 DEF PutAudio
  <2>2. PICK k \in 1..MaxChunk : /\ put' = put + k
                                 /\ outbound' = outbound \o [i \in 1..k |-> put + i]
    BY <1>1 DEF PutAudio
  <2>. DEFINE new == [i \in 1..k |-> put + i]
  <2>3. new \in Seq(Nat) /\ Len(new) = k /\ k \in Nat
    <3>1. k \in Nat /\ new \in [1..k -> Nat] BY <1>0, SizeAssumption
    <3> QED BY <3>1, SeqDef, LenProperties
  <2>4. \A i \in 1..k : new[i] = put + i OBVIOUS
  <2>. HIDE DEF new
  <2>5. /\ Len(outbound') = Len(outbound) + k
        /\ \A i \in 1..Len(outbound) + k :
              outbound'[i] = IF i <= Len(outbound) THEN outbound[i] ELSE new[i - Len(outbound)]
    BY <1>0, <2>2, <2>3, ConcatProperties DEF new, Bytes
  <2>6. InLine(outbound', put' - Len(outbound'))
    <3>. SUFFICES ASSUME NEW i \in 1..Len(outbound') PROVE outbound'[i] = put' - Len(outbound') + i
      BY DEF InLine
    <3>1. put' - Len(outbound') = put - Len(outbound) BY <1>0, <2>2, <2>3, <2>5
    <3>2. CASE i <= Len(outbound)
      BY <1>0, <2>5, <3>1, <3>2 DEF Contents, InLine
    <3>3. CASE i > Len(outbound)
      <4>1. i - Len(outbound) \in 1..k BY <1>0, <2>3, <2>5, <3>3
      <4>2. outbound'[i] = put + (i - Len(outbound)) BY <2>4, <2>5, <3>3, <4>1
      <4> QED BY <1>0, <3>1, <4>2
    <3> QED BY <1>0, <2>3, <2>5, <3>2, <3>3
  <2>7. Gone' = Gone BY <1>0, <2>1, <2>2, <2>3, <2>5 DEF Gone
  <2> QED BY <2>1, <2>6, <2>7 DEF Contents
<1>2. CASE StartBargeIn
  <2>1. buffer' = <<>> /\ outbound' = <<>> /\ packet' = <<>> /\ pc' = "barging"
    BY <1>2 DEF StartBargeIn, Bytes
  <2> QED BY <2>1, NothingInLine DEF Contents
<1>3. CASE StartPacket
  <2>1. outbound' = <<>> BY <1>3 DEF StartPacket, DrainedAll
  <2>2. Gone' = Gone BY <1>3, StartPacketGone
  <2> QED BY <1>3, <2>1, <2>2, NothingInLine, PacketInLine DEF Contents
<1>4. CASE NoPacket
  <2>1. /\ outbound' = <<>> /\ buffer' = Drained /\ packet = <<>> /\ packet' = <<>>
        /\ pc' = "sleep"
    BY <1>4 DEF NoPacket, DrainedAll, Bytes
  <2>2. Gone' = Gone BY <1>4, NoPacketDrains
  <2>3. InLine(buffer', Gone' + Len(packet'))
    BY <1>0, <2>1, <2>2, DrainedInLine, EmptySeq
  <2> QED BY <2>1, <2>2, <2>3, NothingInLine DEF Contents
<1>5. CASE PacketSent
  <2>1. packet' = <<>> /\ pc' = "sleep" /\ UNCHANGED <<buffer, outbound, put>>
    BY <1>5 DEF PacketSent, history
  <2>2. Gone' = Gone + Len(packet) /\ Len(packet') = 0 BY <1>5, <2>1, PacketOut, EmptySeq
  <2>3. InLine(buffer', Gone' + Len(packet')) BY <1>0, <2>1, <2>2 DEF Contents
  <2> QED BY <2>1, <2>3, NothingInLine DEF Contents
<1>6. CASE ~(PutAudio \/ StartBargeIn \/ StartPacket \/ NoPacket \/ PacketSent)
  <2>1. UNCHANGED <<outbound, buffer, packet, put>> /\ (pc' = "sending" => pc = "sending")
    BY <1>6 DEF Next, Writer, vars, session, history, RequestClear, Bind, Tick, WriteFails, Fail,
         Register, PutMark, Leave, Send, StartText, TextWritten, StartService, BargeInWritten,
         Unbound, Wakes
  <2> QED BY <2>1 DEF Contents, InLine, Gone
<1> QED BY <1>1, <1>2, <1>3, <1>4, <1>5, <1>6

LEMMA ContentsInvariant == Spec => []Contents
<1>1. Init => Contents BY NothingInLine DEF Init, Contents
<1> QED BY <1>1, ContentsStep, Invariant, PTL DEF Spec

\* the steps of the session
LEMMA SessionPlays ==
    ASSUME Inv, \/ PutAudio \/ RequestClear
                \/ \E n \in Names : Register(n) \/ PutMark(n) \/ Leave(n)
    PROVE  Promise!Next
<1>. USE DEF Inv, ClockInv
<1>0. Gone \in Int /\ put \in Nat /\ Len(outbound) \in Nat BY Lengths
<1>. DEFINE queued == Names \ (fresh \cup coming)
<1>1. CASE PutAudio
  <2>1. put' \in Nat /\ put' > put /\ Gone' = Gone BY <1>1, PutAudioGone
  <2>2. UNCHANGED <<packet, clears, queued, before, pending, echoed, names>>
    BY <1>1 DEF PutAudio
  <2> QED BY <2>1, <2>2 DEF Promise!Next, Promise!Queue, Promise!marks, Promise!waits
<1>2. CASE RequestClear
  <2>1. clears' = clears + 1 /\ UNCHANGED <<put, packet, queued, before, pending, echoed, names>>
        /\ Gone' = Gone
    BY <1>2 DEF RequestClear, Gone
  <2> QED BY <2>1 DEF Promise!Next, Promise!Request, Promise!marks, Promise!waits
<1>3. ASSUME NEW n \in Names, Register(n) PROVE Promise!Next
  <2>1. n \in fresh /\ queued' = queued /\ pending' = pending \cup {n}
    BY <1>3 DEF Register
  <2>2. UNCHANGED <<put, packet, clears, before, echoed, names>> /\ Gone' = Gone
    BY <1>3 DEF Register, history, Gone
  <2>3. Promise!Wait(n)
    BY <2>1, <2>2 DEF Promise!Wait, Promise!audio, Promise!marks
  <2> QED BY <2>3 DEF Promise!Next
<1>4. ASSUME NEW n \in Names, PutMark(n) PROVE Promise!Next
  <2>1. n \in coming /\ queued' = queued \cup {n}
    BY <1>4 DEF PutMark, Stages
  <2>2. before' = [before EXCEPT ![n] = put] /\ Gone' = Gone
        /\ UNCHANGED <<put, packet, clears, pending, echoed, names>>
    BY <1>4 DEF PutMark, Gone
  <2>3. Promise!QueueMark(n)
    BY <2>1, <2>2 DEF Promise!QueueMark, Promise!audio, Promise!waits
  <2> QED BY <2>3 DEF Promise!Next
<1>5. ASSUME NEW n \in Names, Leave(n) PROVE Promise!Next
  <2>1. n \in pending /\ pending' = pending \ {n} /\ echoed' = echoed \ {n}
        /\ UNCHANGED <<put, packet, clears, queued, before, names>> /\ Gone' = Gone
    BY <1>5 DEF Leave, history, Gone
  <2>2. Promise!Leave(n) BY <2>1 DEF Promise!Leave, Promise!audio, Promise!marks
  <2> QED BY <2>2 DEF Promise!Next
<1> QED BY <1>1, <1>2, <1>3, <1>4, <1>5

\* What _resolve_marks releases was queued and its audio is gone.
LEMMA ReleasesDue ==
    ASSUME Ranked, NEW ms, ms \subseteq MarkRec, Resolve(ms),
           UNCHANGED <<fresh, coming, pending, before>>,
           \A m \in ms : /\ m.name \notin fresh /\ m.name \notin coming
                         /\ m.due # Never => before[m.name] <= Gone'
    PROVE  Promise!Tells
<1>. DEFINE due == {m.name : m \in DuePrefix(ms)} \cap pending
            queued == Names \ (fresh \cup coming)
<1>1. echoed' = echoed \cup due BY DEF Resolve
<1>2. ASSUME NEW n \in due PROVE n \in queued \cap pending /\ before[n] <= Gone'
  <2>1. PICK m \in DuePrefix(ms) : m.name = n BY <1>2
  <2>2. m \in ms /\ (rank[m.name] <= rank[m.name] => m.due = 0) BY <2>1 DEF DuePrefix
  <2>3. m.name \in Names BY <2>2 DEF MarkRec
  <2>4. rank[m.name] \in Nat BY <2>3 DEF Ranked
  <2>5. m.due # Never BY <2>2, <2>4, NeverIsLast
  <2> QED BY <1>2, <2>1, <2>2, <2>3, <2>5
<1>3. due \in SUBSET {n \in queued \cap pending : before[n] <= Gone'} BY <1>2
<1>. HIDE DEF due
<1> QED BY <1>1, <1>3 DEF Promise!Tells

\* the steps of the writer that move audio or release waits
LEMMA WriterPlays ==
    ASSUME Inv, Fresh, Contents,
           StartBargeIn \/ BargeInWritten \/ StartPacket \/ PacketSent \/ NoPacket
    PROVE  Promise!Next
<1>. USE DEF Inv, ClockInv
<1>. DEFINE queued == Names \ (fresh \cup coming)
<1>0. /\ Len(outbound) \in Nat /\ Len(buffer) \in Nat /\ Len(packet) \in Nat
      /\ Gone \in Int /\ put \in Nat
  BY Lengths
<1>1. CASE StartBargeIn
  <2>1. /\ clears > 0 /\ clears' = clears - 1 /\ packet = <<>> /\ packet' = <<>>
        /\ outbound' = <<>> /\ buffer' = <<>> /\ names' = pending
        /\ UNCHANGED <<put, queued, before, pending, echoed>>
    BY <1>1 DEF StartBargeIn, ClearWaiting, history, Bytes
  <2>2. Gone' = put BY <1>0, <2>1, EmptySeq DEF Gone
  <2> QED BY <2>1, <2>2 DEF Promise!Next, Promise!Cut, Promise!marks
<1>2. CASE BargeInWritten
  <2>1. /\ echoed' = echoed \cup (names \cap pending) /\ names' = {} /\ Gone' = Gone
        /\ UNCHANGED <<put, packet, clears, queued, before, pending>>
    BY <1>2 DEF BargeInWritten, history, Gone
  <2> QED BY <2>1 DEF Promise!Next, Promise!CutTells, Promise!audio, Promise!marks
<1>3. CASE StartPacket
  <2>1. /\ clears = 0 /\ UNCHANGED <<put, clears, queued, before, pending, echoed, names>>
    BY <1>3 DEF StartPacket, ClearWaiting, history, Fresh
  <2>2. Gone' = Gone BY <1>3, StartPacketGone
  <2>3. /\ packet = <<>> /\ Len(packet') \in 1..Packet /\ Gone + Len(packet') <= put
        /\ packet' = [i \in 1..Len(packet') |-> Gone + i]
    BY <1>3, PacketInLine
  <2>4. Promise!Send BY <2>1, <2>2, <2>3 DEF Promise!Send, Promise!marks, Promise!waits
  <2> QED BY <2>4 DEF Promise!Next
<1>4. CASE PacketSent
  <2>1. /\ packet # <<>> /\ packet' = <<>>
        /\ UNCHANGED <<put, clears, fresh, coming, before, pending, names>>
    BY <1>4 DEF PacketSent, history, Contents
  <2>2. Gone' = Gone + Len(packet) BY <1>4, PacketOut
  <2>3. Promise!Tells
    <3>1. Resolve(Anchored(sent + Packet)) BY <1>4 DEF PacketSent
    <3>2. /\ Anchored(sent + Packet) \subseteq MarkRec
          /\ \A m \in Anchored(sent + Packet) :
                /\ m.name \notin fresh /\ m.name \notin coming
                /\ m.due # Never => before[m.name] <= Gone'
      BY <1>4, PacketOut
    <3> QED BY <2>1, <3>1, <3>2, ReleasesDue
  <2>4. Promise!Sent BY <2>1, <2>2, <2>3 DEF Promise!Sent, Promise!marks
  <2> QED BY <2>4 DEF Promise!Next
<1>5. CASE NoPacket
  <2>1. UNCHANGED <<put, packet, clears, fresh, coming, before, pending, names>>
    BY <1>5 DEF NoPacket, history
  <2>2. Gone' = Gone BY <1>5, NoPacketDrains
  <2>3. Promise!Tells
    <3>1. Resolve(WithNew(Len(Drained))) BY <1>5 DEF NoPacket
    <3>2. /\ WithNew(Len(Drained)) \subseteq MarkRec
          /\ \A m \in WithNew(Len(Drained)) : m.name \notin fresh /\ m.name \notin coming
      BY DrainedLength, LenProperties, NewOnTime
    <3>3. \A m \in WithNew(Len(Drained)) : m.due # Never => before[m.name] <= Gone'
      BY <1>5, NoPacketDrains
    <3> QED BY <2>1, <3>1, <3>2, <3>3, ReleasesDue
  <2>4. Promise!Release BY <2>1, <2>2, <2>3 DEF Promise!Release, Promise!audio, Promise!marks
  <2> QED BY <2>4 DEF Promise!Next
<1> QED BY <1>1, <1>2, <1>3, <1>4, <1>5

\* time, text messages and failures
LEMMA QuietPlays ==
    ASSUME [Next]_vars,
           ~(\/ PutAudio \/ RequestClear \/ StartBargeIn \/ BargeInWritten \/ StartPacket
             \/ PacketSent \/ NoPacket
             \/ \E n \in Names : Register(n) \/ PutMark(n) \/ Leave(n))
    PROVE  UNCHANGED Promise!vars
<1>1. UNCHANGED <<outbound, buffer, packet, put, clears, fresh, coming, before, pending, echoed, names>>
  BY DEF Next, Writer, vars, session, history, Bind, Tick, WriteFails, Fail, Send, StartText,
       TextWritten, StartService, Unbound, Wakes
<1> QED BY <1>1 DEF Gone, Promise!vars, Promise!audio, Promise!marks, Promise!waits

\* _audiohook_writer.py keeps the promise of Playout for any packet size, pace and latency:
\* audio goes out in order and without a gap, only a barge_in drops any, and a wait is released
\* behind its audio or by a barge_in that found it waiting.
THEOREM RefinesPlayout == Spec => ImplementsPlayout
<1>1. Init => Promise!Init
  <2>. SUFFICES ASSUME Init PROVE Promise!Init OBVIOUS
  <2>1. outbound = <<>> /\ buffer = <<>> /\ packet = <<>> /\ put = 0 BY DEF Init
  <2>2. Len(outbound) = 0 /\ Len(buffer) = 0 /\ Len(packet) = 0 BY <2>1
  <2>3. Gone = 0
    <3>1. put = 0 BY <2>1
    <3>2. Gone = 0 - 0 - 0 - 0 BY <2>2, <3>1, Zenon DEF Gone
    <3> QED BY <3>2
  <2> QED BY <2>3 DEF Init, Promise!Init
<1>2. Inv /\ Fresh /\ Contents /\ [Next]_vars => [Promise!Next]_(Promise!vars)
  BY SessionPlays, WriterPlays, QuietPlays
<1> QED BY <1>1, <1>2, Invariant, FreshInvariant, ContentsInvariant, PTL
        DEF Spec, ImplementsPlayout, Promise!Spec
=============================================================================
