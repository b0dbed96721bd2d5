------------------------------- MODULE Mulaw -------------------------------
(***************************************************************************)
(* audio.py: the G.711 mu-law codec and the mixing of two samples.  A code *)
(* is a byte; Python's ~b & 0xFF is 255 - b, a shift is a division by a    *)
(* power of two, and a mask a remainder.                                   *)
(***************************************************************************)
EXTENDS Integers

Codes   == 0..255
Samples == -32768..32767

\* 2^(e+2), half of a quantization step in segment e
Half == [e \in 0..7 |-> <<4, 8, 16, 32, 64, 128, 256, 512>>[e + 1]]

\* exponent and mantissa, from the inverted code v
Exponent(v) == (v % 128) \div 16
Mantissa(v) == v % 16

ExpLut == <<0, 132, 396, 924, 1980, 4092, 8316, 16764>>

\* _build_ulaw_table
Magnitude(v) == ExpLut[Exponent(v) + 1] + Mantissa(v) * 2 * Half[Exponent(v)]
Decode(b) == IF b < 128 THEN -Magnitude(255 - b) ELSE Magnitude(255 - b)

Bias == 132
Clip == 32635

Segment_Low(m) == IF m < 256 THEN 0
                  ELSE CHOOSE e \in 0..7 : 64 * Half[e] <= m /\ m < 128 * Half[e]
\* The loop of _linear_to_ulaw finds the highest bit of m, from 2^14 down to 2^7.
Segment(m) == CHOOSE e \in 0..7 : 32 * Half[e] <= m /\ m < 64 * Half[e]

Biased(s) == LET a == IF s < 0 THEN -s ELSE s
             IN (IF a > Clip THEN Clip ELSE a) + Bias

\* _linear_to_ulaw
Encode(s) ==
    LET m == Biased(s)
        e == Segment(m)
    IN 255 - ((IF s < 0 THEN 128 ELSE 0) + (e * 16) + ((m \div (2 * Half[e])) % 16))

Clamp(s) == IF s > 32767 THEN 32767 ELSE IF s < -32768 THEN -32768 ELSE s

\* mix_frames, of one sample
Mix(c, a) == Encode(Clamp(Decode(c) + Decode(a)))

-----------------------------------------------------------------------------
(* What it is to be right                                                  *)

Distance(x, y) == IF x < y THEN y - x ELSE x - y

\* A code stands for s when it decodes to within half a step of it; beyond the clip
\* level there is only the last code.
Nearest(b, s) ==
    \/ Distance(Decode(b), s) <= Half[Exponent(255 - b)]
    \/ s > Clip /\ b = 128
    \/ s < -Clip /\ b = 0
=============================================================================
