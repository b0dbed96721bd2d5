----------------------------- MODULE AudioMixer -----------------------------
(***************************************************************************)
(* audio.py: AudioMixer plays both sides of a call through ffplay and may  *)
(* record them.  Three kinds of threads meet in it without a lock: those   *)
(* that write_caller() and write_agent(), the mix thread, and the one that *)
(* calls shutdown(), which waits for the mix thread only so long.          *)
(*                                                                         *)
(* A frame is its number on its side, 0 is SILENCE_FRAME, and a mixed      *)
(* frame the pair it was made of.  Every frame of a side has one sample,   *)
(* chosen with the initial state, so that mixing is checked on all pairs.  *)
(***************************************************************************)
EXTENDS Mulaw, Sequences

CONSTANTS MaxFrames,    \* MAX_FRAMES
          Voices,       \* the samples of the instance
          Records,      \* record_path is given
          MaxPuts,      \* bound: frames written to a side
          MaxTicks      \* bound: frames the mix thread makes

ASSUME BoundsAssumption == {MaxFrames, MaxPuts, MaxTicks} \subseteq Nat /\ MaxFrames > 0
ASSUME VoiceAssumption  == Voices \subseteq Codes /\ Records \in BOOLEAN

Sides == {"caller", "agent"}
Frame == [caller : 0..MaxPuts, agent : 0..MaxPuts]
Silence == [s \in Sides |-> 0]

VARIABLES
    voice,      \* the sample of a side's frames
    deque, put, \* _caller and _agent, and how many frames were written to each
    proc,       \* the ffplay process
    stdin,      \* its pipe is open
    running,    \* _running
    thread,     \* where the mix thread is
    mixed,      \* the frame it holds
    attached,   \* _record_file is not None
    file,       \* that file: closed or not, its frames, the position, the header's size
    count,      \* _record_bytes, in frames
    sealed,     \* history: the header was finalized
    shut,       \* where shutdown() is
    late,       \* history: the join timed out
    played      \* history: what ffplay was given

recording == <<attached, file, count, sealed>>
vars == <<voice, deque, put, proc, stdin, running, thread, mixed, recording, shut, late, played>>

Files  == [open : BOOLEAN, data : Seq(Frame), at : Nat, size : Nat]
NoFile == [open |-> FALSE, data |-> <<>>, at |-> 0, size |-> 0]

TypeOK ==
    /\ voice \in [Sides -> Codes]
    /\ deque \in [Sides -> Seq(1..MaxPuts)] /\ put \in [Sides -> 0..MaxPuts]
    /\ proc \in {"none", "running", "gone"}
    /\ stdin \in BOOLEAN /\ running \in BOOLEAN /\ attached \in BOOLEAN
    /\ sealed \in BOOLEAN /\ late \in BOOLEAN
    /\ thread \in {"none", "loop", "pipe", "record", "append", "count", "ended", "crashed"}
    /\ mixed \in Frame /\ played \in Seq(Frame) /\ count \in Nat
    /\ file \in Files /\ file.at <= Len(file.data)
    /\ shut \in {"no", "join", "header", "close", "reap", "done"}
    /\ running => thread # "none"
    /\ thread \in {"append", "count"} => Records

Init ==
    /\ voice \in [Sides -> Voices]
    /\ deque = [s \in Sides |-> <<>>] /\ put = [s \in Sides |-> 0]
    /\ proc = "none" /\ stdin = FALSE /\ running = FALSE
    /\ thread = "none" /\ mixed = Silence
    /\ attached = FALSE /\ file = NoFile /\ count = 0 /\ sealed = FALSE
    /\ shut = "no" /\ late = FALSE /\ played = <<>>

-----------------------------------------------------------------------------
(* write_caller, write_agent                                               *)

Bounded_Newest(q) == IF Len(q) > MaxFrames THEN SubSeq(q, 1, MaxFrames) ELSE q
\* deque(maxlen=MAX_FRAMES): the oldest frame is dropped
Bounded(q) == IF Len(q) > MaxFrames THEN Tail(q) ELSE q

\* A chunk is cut into frames, the last one padded; each is appended by itself.
Write(s) ==
    /\ put[s] < MaxPuts /\ put' = [put EXCEPT ![s] = @ + 1]
    /\ deque' = [deque EXCEPT ![s] = Bounded(Append(@, put[s] + 1))]
    /\ UNCHANGED <<voice, proc, stdin, running, thread, mixed, recording, shut, late, played>>

-----------------------------------------------------------------------------
(* start()                                                                 *)

Start ==
    /\ proc = "none" /\ shut = "no"
    /\ proc' = "running" /\ stdin' = TRUE /\ running' = TRUE /\ thread' = "loop"
    /\ attached' = Records /\ file' = [NoFile EXCEPT !.open = Records]
    /\ UNCHANGED <<voice, deque, put, mixed, count, sealed, shut, late, played>>

\* open() or the header's write raises, and ffplay already runs
StartRaises ==
    /\ proc = "none" /\ shut = "no" /\ Records
    /\ proc' = "running" /\ stdin' = TRUE
    /\ attached' \in BOOLEAN /\ file' = [NoFile EXCEPT !.open = attached']
    /\ UNCHANGED <<voice, deque, put, running, thread, mixed, count, sealed, shut, late, played>>

-----------------------------------------------------------------------------
(* the mix thread                                                          *)

ThreadGoes(where) == thread' = where
Popped_Right(q) == IF q = <<>> THEN [frame |-> 0, rest |-> q]
                   ELSE [frame |-> q[Len(q)], rest |-> SubSeq(q, 1, Len(q) - 1)]
\* popleft(), or SILENCE_FRAME
Popped(q) == IF q = <<>> THEN [frame |-> 0, rest |-> q]
             ELSE [frame |-> Head(q), rest |-> Tail(q)]

Pop ==
    /\ thread = "loop" /\ running /\ Len(played) < MaxTicks /\ ThreadGoes("pipe")
    /\ mixed' = [s \in Sides |-> Popped(deque[s]).frame]
    /\ deque' = [s \in Sides |-> Popped(deque[s]).rest]
    /\ UNCHANGED <<voice, put, proc, stdin, running, recording, shut, late, played>>

LoopEnds ==
    /\ thread = "loop" /\ ~running /\ ThreadGoes("ended")
    /\ UNCHANGED <<voice, deque, put, proc, stdin, running, mixed, recording, shut, late,
                   played>>

PipeTakes ==
    /\ thread = "pipe" /\ stdin /\ proc = "running" /\ ThreadGoes("record")
    /\ played' = Append(played, mixed)
    /\ UNCHANGED <<voice, deque, put, proc, stdin, running, mixed, recording, shut, late>>

\* BrokenPipeError ends the loop; ValueError, of a closed pipe, ends the thread.
PipeBreaks ==
    /\ thread = "pipe"
    /\ \/ proc = "gone" /\ ThreadGoes("ended") /\ running' = FALSE
       \/ ~stdin /\ ThreadGoes("crashed") /\ UNCHANGED running
    /\ UNCHANGED <<voice, deque, put, proc, stdin, mixed, recording, shut, late, played>>

\* if self._record_file
ChecksFile ==
    /\ thread = "record" /\ ThreadGoes(IF attached THEN "append" ELSE "loop")
    /\ UNCHANGED <<voice, deque, put, proc, stdin, running, mixed, recording, shut, late,
                   played>>

\* at its position, which is the end of the data unless shutdown() has moved it
Appended == SubSeq(file.data, 1, file.at) \o <<mixed>>
            \o SubSeq(file.data, file.at + 2, Len(file.data))

\* self._record_file.write: shutdown() may have set it to None or closed it
WritesFile ==
    /\ thread = "append"
    /\ \/ /\ attached /\ file.open /\ ThreadGoes("count")
          /\ file' = [file EXCEPT !.data = Appended, !.at = file.at + 1]
          /\ UNCHANGED attached
       \/ ~(attached /\ file.open) /\ ThreadGoes("crashed") /\ UNCHANGED <<attached, file>>
       \/ attached /\ file.open /\ ThreadGoes("loop") /\ attached' = FALSE /\ UNCHANGED file
    /\ UNCHANGED <<voice, deque, put, proc, stdin, running, mixed, count, sealed, shut, late,
                   played>>

Counts ==
    /\ thread = "count" /\ ThreadGoes("loop") /\ count' = count + 1
    /\ UNCHANGED <<voice, deque, put, proc, stdin, running, mixed, attached, file, sealed, shut,
                   late, played>>

\* ffplay exits, by itself or because its window was closed
FfplayExits ==
    /\ proc = "running" /\ proc' = "gone"
    /\ UNCHANGED <<voice, deque, put, stdin, running, thread, mixed, recording, shut, late,
                   played>>

\* what the thread does without waiting for ffplay to read
MixStep == Pop \/ LoopEnds \/ PipeBreaks \/ ChecksFile \/ WritesFile \/ Counts

-----------------------------------------------------------------------------
(* shutdown()                                                              *)

ShutdownBegins ==
    /\ shut = "no" /\ proc # "none" /\ running' = FALSE
    /\ shut' = IF thread = "none" THEN "header" ELSE "join"
    /\ UNCHANGED <<voice, deque, put, proc, stdin, thread, mixed, recording, late, played>>

ThreadOver == thread \in {"ended", "crashed"}
JoinReturns_AtOnce == shut = "join" /\ shut' = "header" /\ UNCHANGED late
\* self._thread.join(timeout=2.0)
JoinReturns == shut = "join" /\ shut' = "header" /\ late' = ~ThreadOver

Joined ==
    /\ JoinReturns
    /\ UNCHANGED <<voice, deque, put, proc, stdin, running, thread, mixed, recording, played>>

\* _write_wav_header: at the beginning of the file
WritesHeader ==
    /\ shut = "header"
    /\ \/ /\ attached /\ shut' = "close" /\ UNCHANGED attached
          /\ file' = [file EXCEPT !.size = count, !.at = 0] /\ sealed' = TRUE
       \/ attached /\ shut' = "reap" /\ attached' = FALSE /\ UNCHANGED <<file, sealed>>
       \/ ~attached /\ shut' = "reap" /\ UNCHANGED <<attached, file, sealed>>
    /\ UNCHANGED <<voice, deque, put, proc, stdin, running, thread, mixed, count, late, played>>

ClosesFile ==
    /\ shut = "close" /\ shut' = "reap"
    /\ file' = [file EXCEPT !.open = FALSE] /\ attached' = FALSE
    /\ UNCHANGED <<voice, deque, put, proc, stdin, running, thread, mixed, count, sealed, late,
                   played>>

Reap_Terminates == stdin' = stdin /\ proc' = proc
\* close stdin, terminate, and kill after a timeout
Reap == stdin' = FALSE /\ proc' = "gone"

StopsFfplay ==
    /\ shut = "reap" /\ shut' = "done" /\ Reap
    /\ UNCHANGED <<voice, deque, put, running, thread, mixed, recording, late, played>>

ShutStep == Joined \/ WritesHeader \/ ClosesFile \/ StopsFfplay

-----------------------------------------------------------------------------
Next == \/ \E s \in Sides : Write(s)
        \/ Start \/ StartRaises \/ FfplayExits
        \/ MixStep \/ PipeTakes \/ ShutdownBegins \/ ShutStep

\* Threads run, and the join has a timeout.  That ffplay reads is not assumed.
Fairness == WF_vars(MixStep) /\ WF_vars(ShutStep)

Spec == Init /\ [][Next]_vars /\ Fairness

-----------------------------------------------------------------------------
(* Properties                                                              *)

\* What waits on a side is its newest frames, in order and without a gap, and no more
\* than MAX_FRAMES: an overflow costs the oldest audio, and delay is bounded.
Newest(q, n) == Len(q) <= MaxFrames /\ \A i \in 1..Len(q) : q[i] = n - Len(q) + i
NewestWait   == \A s \in Sides : Newest(deque[s], put[s])

\* Neither side is played out of order or twice.
InOrder ==
    \A s \in Sides : \A i, k \in 1..Len(played) :
        i < k /\ played[i][s] > 0 /\ played[k][s] > 0 => played[i][s] < played[k][s]

\* SILENCE_FRAME is of codes 255.
Said(f, s) == IF f[s] = 0 THEN 255 ELSE voice[s]

\* The sample ffplay gets: two frames are mixed only when neither is silence.
Sample(f) == IF f["agent"] = 0 THEN Said(f, "caller")
             ELSE IF f["caller"] = 0 THEN Said(f, "agent")
             ELSE Mix(Said(f, "caller"), Said(f, "agent"))

Sum(f) == Clamp(Decode(Said(f, "caller")) + Decode(Said(f, "agent")))

\* What is played is the sum of what the sides say, to within half a quantization step.
MixIsNearest == \A i \in 1..Len(played) : Nearest(Sample(played[i]), Sum(played[i]))

\* NC-235: a recording whose header was finalized says how long it is, and is what ffplay
\* was given, when the mix thread had ended before: also after a broken pipe.
RecordingSound ==
    sealed /\ ~late => file.size = Len(file.data) /\ file.data = played

\* shutdown() ends the mix thread, also one that ffplay blocks.
MixerEnds == (shut # "no" /\ thread # "none") ~> ThreadOver
=============================================================================
