-------------------------- MODULE AudioMixerProofs --------------------------
(***************************************************************************)
(* What holds of AudioMixer for every size of its deques, any number of    *)
(* frames and every pair of samples, and of audio.py's codec, which it     *)
(* mixes with, for every sample and every code.                            *)
(***************************************************************************)
EXTENDS AudioMixer, SequenceTheorems, TLAPS

-----------------------------------------------------------------------------
(* The codec: the segment search finds one, a sample is encoded to a code  *)
(* that stands for it, and two samples are mixed to a code that stands for *)
(* their sum.                                                              *)

LEMMA Interval ==
    ASSUME NEW s, NEW lo \in Int, NEW hi \in Int
    PROVE  s \in lo..hi <=> s \in Int /\ lo <= s /\ s <= hi
OBVIOUS

LEMMA SampleRange ==
    ASSUME NEW s
    PROVE  s \in Samples <=> s \in Int /\ -32768 <= s /\ s <= 32767
<1>. DEFINE lo == -32768
            hi == 32767
<1>1. lo \in Int /\ hi \in Int OBVIOUS
<1>2. Samples = lo..hi BY DEF Samples
<1>. HIDE DEF lo, hi
<1>3. s \in Samples <=> s \in Int /\ lo <= s /\ s <= hi BY <1>1, <1>2, Interval
<1> QED BY <1>3 DEF lo, hi

LEMMA HalfValues ==
    /\ Half[0] = 4 /\ Half[1] = 8 /\ Half[2] = 16 /\ Half[3] = 32
    /\ Half[4] = 64 /\ Half[5] = 128 /\ Half[6] = 256 /\ Half[7] = 512
BY DEF Half

LEMMA ExpLutValues ==
    /\ ExpLut[1] = 0 /\ ExpLut[2] = 132 /\ ExpLut[3] = 396 /\ ExpLut[4] = 924
    /\ ExpLut[5] = 1980 /\ ExpLut[6] = 4092 /\ ExpLut[7] = 8316 /\ ExpLut[8] = 16764
BY DEF ExpLut

LEMMA SegmentOf ==
    ASSUME NEW m \in Nat, 132 <= m, m <= 32767
    PROVE  /\ Segment(m) \in 0..7
           /\ 32 * Half[Segment(m)] <= m /\ m < 64 * Half[Segment(m)]
<1>. DEFINE Fits(e) == 32 * Half[e] <= m /\ m < 64 * Half[e]
<1>1. \E e \in 0..7 : Fits(e)
  <2>0. CASE m < 256
    <3>1. Fits(0) BY <2>0, HalfValues
    <3> QED BY <3>1
  <2>1. CASE 256 <= m /\ m < 512
    <3>1. Fits(1) BY <2>1, HalfValues
    <3> QED BY <3>1
  <2>2. CASE 512 <= m /\ m < 1024
    <3>1. Fits(2) BY <2>2, HalfValues
    <3> QED BY <3>1
  <2>3. CASE 1024 <= m /\ m < 2048
    <3>1. Fits(3) BY <2>3, HalfValues
    <3> QED BY <3>1
  <2>4. CASE 2048 <= m /\ m < 4096
    <3>1. Fits(4) BY <2>4, HalfValues
    <3> QED BY <3>1
  <2>5. CASE 4096 <= m /\ m < 8192
    <3>1. Fits(5) BY <2>5, HalfValues
    <3> QED BY <3>1
  <2>6. CASE 8192 <= m /\ m < 16384
    <3>1. Fits(6) BY <2>6, HalfValues
    <3> QED BY <3>1
  <2>7. CASE 16384 <= m
    <3>1. Fits(7) BY <2>7, HalfValues
    <3> QED BY <3>1
  <2> HIDE DEF Fits
  <2> QED BY <2>0, <2>1, <2>2, <2>3, <2>4, <2>5, <2>6, <2>7
<1> QED BY <1>1 DEF Segment

\* The code of a quantized magnitude decodes to the middle of its interval.
LEMMA InverseCode ==
    ASSUME NEW e \in 0..7, NEW k \in 0..15, NEW g \in {0, 128}
    PROVE  LET v == g + (e * 16) + k
           IN /\ v \in Codes /\ Exponent(v) = e /\ Mantissa(v) = k
              /\ (g = 128) <=> (255 - v < 128)
<1>. DEFINE v == g + (e * 16) + k
<1>1. v \in Codes /\ ((g = 128) <=> (255 - v < 128)) BY DEF Codes
<1>2. v % 128 = (e * 16) + k OBVIOUS
<1>3. ((e * 16) + k) \div 16 = e OBVIOUS
<1>4. v % 16 = k OBVIOUS
<1> QED BY <1>1, <1>2, <1>3, <1>4 DEF Exponent, Mantissa

LEMMA Division ==
    ASSUME NEW m \in Nat, NEW d \in {8, 16, 32, 64, 128, 256, 512, 1024},
           16 * d <= m, m < 32 * d
    PROVE  m \div d \in 16..31 /\ d * (m \div d) <= m /\ m < d * (m \div d) + d
<1>0. CASE d = 8 BY <1>0
<1>1. CASE d = 16 BY <1>1
<1>2. CASE d = 32 BY <1>2
<1>3. CASE d = 64 BY <1>3
<1>4. CASE d = 128 BY <1>4
<1>5. CASE d = 256 BY <1>5
<1>6. CASE d = 512 BY <1>6
<1>7. CASE d = 1024 BY <1>7
<1> QED BY <1>0, <1>1, <1>2, <1>3, <1>4, <1>5, <1>6, <1>7

\* A magnitude of segment e comes back from its mantissa within half a step.
LEMMA Quantum ==
    ASSUME NEW m \in Nat, 132 <= m, m <= 32767, NEW e \in 0..7, 32 * Half[e] <= m, m < 64 * Half[e]
    PROVE  LET k == (m \div (2 * Half[e])) % 16
               x == ExpLut[e + 1] + k * 2 * Half[e]
           IN k \in 0..15 /\ x \in Int /\ Distance(x, m - 132) <= Half[e]
<1>. DEFINE d == 2 * Half[e]
            q == m \div d
            x == ExpLut[e + 1] + (q % 16) * 2 * Half[e]
<1>1. q \in 16..31 /\ d * q <= m /\ m < d * q + d
  <2>1. m \in Nat /\ d \in {8, 16, 32, 64, 128, 256, 512, 1024} BY HalfValues
  <2>2. 16 * d <= m /\ m < 32 * d BY HalfValues
  <2>. HIDE DEF d
  <2> QED BY <2>1, <2>2, Division
<1>. HIDE DEF q
<1>2. q % 16 = q - 16 /\ q - 16 \in 0..15 BY <1>1
<1>3. x \in Int /\ Distance(x, m - 132) <= Half[e]
  <2>0. CASE e = 0
    <3>1. 8 * q <= m /\ m < 8 * q + 8 BY <2>0, <1>1, HalfValues
    <3>2. x = 0 + (q - 16) * 8 BY <2>0, <1>1, <1>2, HalfValues, ExpLutValues
    <3>. HIDE DEF x
    <3> QED BY <2>0, <3>1, <3>2, <1>1, HalfValues DEF Distance
  <2>1. CASE e = 1
    <3>1. 16 * q <= m /\ m < 16 * q + 16 BY <2>1, <1>1, HalfValues
    <3>2. x = 132 + (q - 16) * 16 BY <2>1, <1>1, <1>2, HalfValues, ExpLutValues
    <3>. HIDE DEF x
    <3> QED BY <2>1, <3>1, <3>2, <1>1, HalfValues DEF Distance
  <2>2. CASE e = 2
    <3>1. 32 * q <= m /\ m < 32 * q + 32 BY <2>2, <1>1, HalfValues
    <3>2. x = 396 + (q - 16) * 32 BY <2>2, <1>1, <1>2, HalfValues, ExpLutValues
    <3>. HIDE DEF x
    <3> QED BY <2>2, <3>1, <3>2, <1>1, HalfValues DEF Distance
  <2>3. CASE e = 3
    <3>1. 64 * q <= m /\ m < 64 * q + 64 BY <2>3, <1>1, HalfValues
    <3>2. x = 924 + (q - 16) * 64 BY <2>3, <1>1, <1>2, HalfValues, ExpLutValues
    <3>. HIDE DEF x
    <3> QED BY <2>3, <3>1, <3>2, <1>1, HalfValues DEF Distance
  <2>4. CASE e = 4
    <3>1. 128 * q <= m /\ m < 128 * q + 128 BY <2>4, <1>1, HalfValues
    <3>2. x = 1980 + (q - 16) * 128 BY <2>4, <1>1, <1>2, HalfValues, ExpLutValues
    <3>. HIDE DEF x
    <3> QED BY <2>4, <3>1, <3>2, <1>1, HalfValues DEF Distance
  <2>5. CASE e = 5
    <3>1. 256 * q <= m /\ m < 256 * q + 256 BY <2>5, <1>1, HalfValues
    <3>2. x = 4092 + (q - 16) * 256 BY <2>5, <1>1, <1>2, HalfValues, ExpLutValues
    <3>. HIDE DEF x
    <3> QED BY <2>5, <3>1, <3>2, <1>1, HalfValues DEF Distance
  <2>6. CASE e = 6
    <3>1. 512 * q <= m /\ m < 512 * q + 512 BY <2>6, <1>1, HalfValues
    <3>2. x = 8316 + (q - 16) * 512 BY <2>6, <1>1, <1>2, HalfValues, ExpLutValues
    <3>. HIDE DEF x
    <3> QED BY <2>6, <3>1, <3>2, <1>1, HalfValues DEF Distance
  <2>7. CASE e = 7
    <3>1. 1024 * q <= m /\ m < 1024 * q + 1024 BY <2>7, <1>1, HalfValues
    <3>2. x = 16764 + (q - 16) * 1024 BY <2>7, <1>1, <1>2, HalfValues, ExpLutValues
    <3>. HIDE DEF x
    <3> QED BY <2>7, <3>1, <3>2, <1>1, HalfValues DEF Distance
  <2> QED BY <2>0, <2>1, <2>2, <2>3, <2>4, <2>5, <2>6, <2>7
<1> QED BY <1>2, <1>3 DEF q

LEMMA Biasing ==
    ASSUME NEW s \in Samples, NEW a \in Nat, a = IF s < 0 THEN -s ELSE s
    PROVE  /\ Biased(s) \in Nat /\ 132 <= Biased(s) /\ Biased(s) <= 32767
           /\ a <= Clip => Biased(s) - 132 = a
           /\ a > Clip => Biased(s) = 32767
<1>1. Biased(s) = (IF a > Clip THEN Clip ELSE a) + Bias BY DEF Biased
<1>2. CASE a > Clip BY <1>1, <1>2 DEF Clip, Bias
<1>3. CASE ~(a > Clip) BY <1>1, <1>3 DEF Clip, Bias
<1> QED BY <1>2, <1>3

\* Every sample has a code within half a quantization step, and beyond the clip level
\* the last one: the encoder is right on the whole range of 16 bits (audio.py:63).
THEOREM EncodeIsNearest ==
    ASSUME NEW s \in Samples
    PROVE  Encode(s) \in Codes /\ Nearest(Encode(s), s)
<1>0. s \in Int /\ -32768 <= s /\ s <= 32767
  BY SampleRange
<1>. DEFINE a == IF s < 0 THEN -s ELSE s
            m == Biased(s)
            e == Segment(m)
            k == (m \div (2 * Half[e])) % 16
            x == ExpLut[e + 1] + k * 2 * Half[e]
            g == IF s < 0 THEN 128 ELSE 0
            v == g + (e * 16) + k
            b == 255 - v
<1>1. \/ s < 0 /\ g = 128 /\ a = -s
      \/ s >= 0 /\ g = 0 /\ a = s
  <2>1. CASE s < 0 BY <1>0, <2>1
  <2>2. CASE s >= 0 BY <1>0, <2>2
  <2> QED BY <1>0, <2>1, <2>2
<1>2. /\ m \in Nat /\ 132 <= m /\ m <= 32767
      /\ a <= Clip => m - 132 = a
      /\ a > Clip => m = 32767
  <2>. HIDE DEF e, k, x, g, v, b
  <2>1. a = IF s < 0 THEN -s ELSE s OBVIOUS
  <2>. HIDE DEF a
  <2> QED BY <1>0, <1>1, <2>1, Biasing
<1>. HIDE DEF m
<1>3. e \in 0..7 /\ 32 * Half[e] <= m /\ m < 64 * Half[e]
  <2>. HIDE DEF a, k, x, g, v, b
  <2> QED BY <1>2, SegmentOf
<1>. HIDE DEF e
<1>4. k \in 0..15 /\ x \in Int /\ Distance(x, m - 132) <= Half[e]
  <2>. HIDE DEF a, g, v, b
  <2> QED BY <1>2, <1>3, Quantum
<1>5. Encode(s) = b
  BY DEF Encode, m, e
<1>. HIDE DEF k, x, g, a
<1>6. v \in Codes /\ Exponent(v) = e /\ Mantissa(v) = k /\ (g = 128 <=> 255 - v < 128)
  BY <1>3, <1>4, <1>1, InverseCode
<1>7. b \in Codes /\ 255 - b = v /\ (g = 128 <=> b < 128)
  BY <1>6 DEF Codes
<1>8. Magnitude(v) = x
  BY <1>6 DEF Magnitude, x
<1>9. Decode(b) = IF g = 128 THEN -x ELSE x
  BY <1>7, <1>8 DEF Decode
<1>10. Half[e] \in Nat /\ Half[Exponent(255 - b)] = Half[e]
  BY <1>3, <1>6, <1>7, HalfValues
<1>11. CASE a <= Clip
  <2>1. Distance(x, a) <= Half[e] BY <1>2, <1>4, <1>11
  <2>2. Distance(Decode(b), s) = Distance(x, a)
    <3>1. CASE g = 128
      <4>1. Decode(b) = -x /\ a = -s BY <1>1, <1>9, <3>1
      <4> QED BY <1>0, <1>4, <4>1 DEF Distance
    <3>2. CASE g # 128
      <4>1. Decode(b) = x /\ a = s BY <1>1, <1>9, <3>2
      <4> QED BY <1>0, <1>4, <4>1 DEF Distance
    <3> QED BY <3>1, <3>2
  <2> QED BY <1>5, <1>7, <1>10, <2>1, <2>2 DEF Nearest
<1>12. CASE a > Clip
  <2>1. m = 32767 BY <1>2, <1>12
  <2>2. e = 7 BY <1>3, <2>1, HalfValues
  <2>3. k = 15 BY <2>1, <2>2, HalfValues DEF k
  <2>4. (g = 0 /\ s > Clip) \/ (g = 128 /\ s < -Clip)
    BY <1>0, <1>1, <1>12 DEF Clip
  <2>5. b = 255 - (g + (7 * 16) + 15) BY <2>2, <2>3
  <2>6. (b = 128 /\ s > Clip) \/ (b = 0 /\ s < -Clip) BY <2>4, <2>5
  <2> QED BY <1>5, <1>7, <2>6 DEF Nearest
<1>13. a <= Clip \/ a > Clip BY <1>0, <1>1 DEF Clip
<1> QED BY <1>11, <1>12, <1>13

\* Two samples are mixed to the code nearest to their sum, clamped to 16 bits.
LEMMA DecodeIsSample ==
    ASSUME NEW b \in Codes
    PROVE  Decode(b) \in Int /\ -32768 <= Decode(b) /\ Decode(b) <= 32767
<1>1. ASSUME NEW v \in Codes
      PROVE  Magnitude(v) \in Int /\ 0 <= Magnitude(v) /\ Magnitude(v) <= 32767
  <2>. DEFINE e == Exponent(v)
              k == Mantissa(v)
  <2>1. e \in 0..7 /\ k \in 0..15 BY DEF Exponent, Mantissa, Codes
  <2>2. Magnitude(v) = ExpLut[e + 1] + k * 2 * Half[e] BY DEF Magnitude
  <2>. HIDE DEF e, k
  <2>3. ExpLut[e + 1] \in Nat /\ ExpLut[e + 1] < 16765
    BY <2>1, HalfValues, ExpLutValues
  <2>4. k * 2 * Half[e] \in Nat /\ k * 2 * Half[e] < 15361
    BY <2>1, HalfValues
  <2>5. Magnitude(v) \in Nat /\ Magnitude(v) < 32126 BY <2>2, <2>3, <2>4
  <2> QED BY <2>5
<1>2. 255 - b \in Codes BY DEF Codes
<1> QED BY <1>1, <1>2 DEF Decode

LEMMA MixIsNear ==
    ASSUME NEW c \in Codes, NEW a \in Codes
    PROVE  Mix(c, a) \in Codes /\ Nearest(Mix(c, a), Clamp(Decode(c) + Decode(a)))
<1>1. Clamp(Decode(c) + Decode(a)) \in Samples
  <2>1. Decode(c) \in Int /\ Decode(a) \in Int BY DecodeIsSample
  <2>. DEFINE t == Decode(c) + Decode(a)
  <2>2. t \in Int BY <2>1
  <2>. HIDE DEF t
  <2>3. CASE t > 32767
    <3>1. Clamp(t) = 32767 BY <2>3 DEF Clamp
    <3> QED BY <3>1, SampleRange DEF t
  <2>4. CASE t < -32768
    <3>1. Clamp(t) = -32768 BY <2>2, <2>4 DEF Clamp
    <3> QED BY <3>1, SampleRange DEF t
  <2>5. CASE t >= -32768 /\ t <= 32767
    <3>1. Clamp(t) = t BY <2>2, <2>5 DEF Clamp
    <3> QED BY <3>1, <2>2, <2>5, SampleRange DEF t
  <2> QED BY <2>2, <2>3, <2>4, <2>5 DEF t
<1> QED BY <1>1, EncodeIsNearest DEF Mix

\* The segments do not overlap, so the search finds the one a magnitude was made in.
LEMMA SegmentIs ==
    ASSUME NEW m \in Nat, NEW e \in 0..7, 32 * Half[e] <= m, m < 64 * Half[e]
    PROVE  Segment(m) = e
<1>. DEFINE Fits(d) == 32 * Half[d] <= m /\ m < 64 * Half[d]
<1>1. ASSUME NEW d \in 0..7, Fits(d) PROVE d = e
  BY <1>1, HalfValues
<1>2. Fits(e) OBVIOUS
<1>. HIDE DEF Fits
<1>3. (CHOOSE d \in 0..7 : Fits(d)) = e BY <1>1, <1>2
<1> QED BY <1>3 DEF Segment, Fits

\* With the bias, a decoded magnitude is in the middle of its step.
LEMMA MiddleOfStep ==
    ASSUME NEW e \in 0..7, NEW k \in 0..15, NEW x, x = ExpLut[e + 1] + k * 2 * Half[e]
    PROVE  /\ x \in Nat /\ x < Clip /\ (x = 0 <=> e = 0 /\ k = 0)
           /\ Segment(x + 132) = e
           /\ ((x + 132) \div (2 * Half[e])) % 16 = k
<1>. DEFINE d == 2 * Half[e]
            m == x + 132
<1>1. /\ x \in Nat /\ x < Clip /\ (x = 0 <=> e = 0 /\ k = 0)
      /\ m = d * (16 + k) + Half[e]
  <2>0. CASE e = 0
    <3>1. x = 0 + k * 8 BY <2>0, HalfValues, ExpLutValues
    <3>2. d = 8 /\ Half[e] = 4 BY <2>0, HalfValues
    <3>. HIDE DEF d
    <3> QED BY <2>0, <3>1, <3>2 DEF Clip
  <2>1. CASE e = 1
    <3>1. x = 132 + k * 16 BY <2>1, HalfValues, ExpLutValues
    <3>2. d = 16 /\ Half[e] = 8 BY <2>1, HalfValues
    <3>. HIDE DEF d
    <3> QED BY <2>1, <3>1, <3>2 DEF Clip
  <2>2. CASE e = 2
    <3>1. x = 396 + k * 32 BY <2>2, HalfValues, ExpLutValues
    <3>2. d = 32 /\ Half[e] = 16 BY <2>2, HalfValues
    <3>. HIDE DEF d
    <3> QED BY <2>2, <3>1, <3>2 DEF Clip
  <2>3. CASE e = 3
    <3>1. x = 924 + k * 64 BY <2>3, HalfValues, ExpLutValues
    <3>2. d = 64 /\ Half[e] = 32 BY <2>3, HalfValues
    <3>. HIDE DEF d
    <3> QED BY <2>3, <3>1, <3>2 DEF Clip
  <2>4. CASE e = 4
    <3>1. x = 1980 + k * 128 BY <2>4, HalfValues, ExpLutValues
    <3>2. d = 128 /\ Half[e] = 64 BY <2>4, HalfValues
    <3>. HIDE DEF d
    <3> QED BY <2>4, <3>1, <3>2 DEF Clip
  <2>5. CASE e = 5
    <3>1. x = 4092 + k * 256 BY <2>5, HalfValues, ExpLutValues
    <3>2. d = 256 /\ Half[e] = 128 BY <2>5, HalfValues
    <3>. HIDE DEF d
    <3> QED BY <2>5, <3>1, <3>2 DEF Clip
  <2>6. CASE e = 6
    <3>1. x = 8316 + k * 512 BY <2>6, HalfValues, ExpLutValues
    <3>2. d = 512 /\ Half[e] = 256 BY <2>6, HalfValues
    <3>. HIDE DEF d
    <3> QED BY <2>6, <3>1, <3>2 DEF Clip
  <2>7. CASE e = 7
    <3>1. x = 16764 + k * 1024 BY <2>7, HalfValues, ExpLutValues
    <3>2. d = 1024 /\ Half[e] = 512 BY <2>7, HalfValues
    <3>. HIDE DEF d
    <3> QED BY <2>7, <3>1, <3>2 DEF Clip
  <2> QED BY <2>0, <2>1, <2>2, <2>3, <2>4, <2>5, <2>6, <2>7
<1>2. 32 * Half[e] <= m /\ m < 64 * Half[e] BY <1>1, HalfValues
<1>. HIDE DEF m
<1>3. m \in Nat BY <1>1 DEF m
<1>4. Segment(m) = e BY <1>2, <1>3, SegmentIs
<1>5. m \div d = 16 + k
  <2>1. d \in {8, 16, 32, 64, 128, 256, 512, 1024} BY HalfValues
  <2>2. d * (16 + k) <= m /\ m < d * (16 + k) + d BY <1>1, HalfValues
  <2>3. 16 * d <= m /\ m < 32 * d BY <1>2, HalfValues
  <2>. DEFINE q == m \div d
  <2>4. q \in 16..31 /\ d * q <= m /\ m < d * q + d
    <3>. HIDE DEF d
    <3> QED BY <1>3, <2>1, <2>3, Division
  <2>. HIDE DEF q, d
  <2>5. d * q < d * (17 + k) /\ d * (16 + k) < d * (q + 1) BY <1>3, <2>1, <2>2, <2>4
  <2>6. q = 16 + k BY <2>1, <2>4, <2>5
  <2> QED BY <2>6 DEF q
<1>6. (16 + k) % 16 = k OBVIOUS
<1> QED BY <1>1, <1>4, <1>5, <1>6 DEF m

\* Encoding what was decoded gives the code back, but for the code 127, the negative zero,
\* which comes back as the zero 255 (audio.py:46 and :63).
THEOREM CodesComeBack ==
    ASSUME NEW b \in Codes
    PROVE  Encode(Decode(b)) = IF b = 127 THEN 255 ELSE b
<1>. DEFINE v == 255 - b
            e == Exponent(v)
            k == Mantissa(v)
            x == Magnitude(v)
            s == Decode(b)
            g == IF s < 0 THEN 128 ELSE 0
<1>1. /\ b \in Int /\ 0 <= b /\ b <= 255 /\ v \in Int /\ v = 255 - b
      /\ e \in 0..7 /\ k \in 0..15
      /\ v = (IF b < 128 THEN 128 ELSE 0) + (e * 16) + k
  BY DEF Codes, Exponent, Mantissa
<1>2. x = ExpLut[e + 1] + k * 2 * Half[e] BY DEF Magnitude
<1>3. s = IF b < 128 THEN -x ELSE x BY DEF Decode
<1>. HIDE DEF v, e, k, x, s
<1>4. /\ x \in Nat /\ x < Clip /\ (x = 0 <=> e = 0 /\ k = 0)
      /\ Segment(x + 132) = e
      /\ ((x + 132) \div (2 * Half[e])) % 16 = k
  BY <1>1, <1>2, MiddleOfStep
<1>5. Biased(s) = x + 132
  BY <1>1, <1>3, <1>4 DEF Biased, Bias, Clip
<1>6. Encode(s) = 255 - (g + (e * 16) + k)
  BY <1>4, <1>5 DEF Encode
<1>. DEFINE c == Encode(s)
<1>. HIDE DEF c
<1>7. c = 255 - (g + (e * 16) + k) BY <1>6 DEF c
<1>8. CASE b < 128 /\ x # 0
  <2>1. g = 128 BY <1>3, <1>4, <1>8
  <2>2. b # 127 BY <1>1, <1>4, <1>8
  <2> QED BY <1>1, <1>7, <1>8, <2>1, <2>2 DEF c, s
<1>9. CASE b >= 128
  <2>1. g = 0 BY <1>1, <1>3, <1>4, <1>9
  <2>2. c = b BY <1>1, <1>7, <1>9, <2>1
  <2> QED BY <1>1, <1>9, <2>2 DEF c, s
<1>10. CASE b < 128 /\ x = 0
  <2>1. b = 127 BY <1>1, <1>4, <1>10
  <2>2. g = 0 BY <1>3, <1>10
  <2>3. c = 255 BY <1>4, <1>7, <1>10, <2>2
  <2> QED BY <2>1, <2>3 DEF c, s
<1> QED BY <1>1, <1>8, <1>9, <1>10

-----------------------------------------------------------------------------
(* Types                                                                   *)

MayRecord == attached => Records

TypeInv == TypeOK /\ MayRecord

LEMMA SilenceIsFrame == Silence \in Frame
BY BoundsAssumption DEF Silence, Frame, Sides

LEMMA PoppedType ==
    ASSUME NEW q \in Seq(1..MaxPuts)
    PROVE  Popped(q).frame \in 0..MaxPuts /\ Popped(q).rest \in Seq(1..MaxPuts)
<1>1. CASE q = <<>> BY <1>1, BoundsAssumption DEF Popped
<1>2. CASE q # <<>>
  <2>1. Head(q) \in 1..MaxPuts /\ Tail(q) \in Seq(1..MaxPuts) BY <1>2, HeadTailProperties
  <2> QED BY <1>2, <2>1, BoundsAssumption DEF Popped
<1> QED BY <1>1, <1>2

LEMMA BoundedType ==
    ASSUME NEW q \in Seq(1..MaxPuts), NEW n \in 1..MaxPuts
    PROVE  Bounded(Append(q, n)) \in Seq(1..MaxPuts)
<1>1. Append(q, n) \in Seq(1..MaxPuts) /\ Append(q, n) # <<>> BY AppendProperties
<1>2. Tail(Append(q, n)) \in Seq(1..MaxPuts) BY <1>1, HeadTailProperties
<1> QED BY <1>1, <1>2 DEF Bounded

LEMMA AppendedType ==
    ASSUME TypeOK
    PROVE  Appended \in Seq(Frame) /\ file.at + 1 <= Len(Appended)
<1>. DEFINE d == file.data
            a == file.at
            left == SubSeq(d, 1, a)
            right == SubSeq(d, a + 2, Len(d))
<1>1. d \in Seq(Frame) /\ a \in Nat /\ a <= Len(d) /\ mixed \in Frame BY DEF TypeOK, Files
<1>2. left \in Seq(Frame) /\ Len(left) = a BY <1>1, SubSeqProperties
<1>3. right \in Seq(Frame) BY <1>1, SubSeqProperties, LenProperties
<1>4. <<mixed>> \in Seq(Frame) /\ Len(<<mixed>>) = 1 BY <1>1
<1>5. left \o <<mixed>> \in Seq(Frame) /\ Len(left \o <<mixed>>) = a + 1
  BY <1>2, <1>4, ConcatProperties
<1>6. Appended = (left \o <<mixed>>) \o right BY DEF Appended
<1>. HIDE DEF left, right
<1> QED BY <1>1, <1>3, <1>5, <1>6, ConcatProperties, LenProperties

LEMMA NoFileType ==
    ASSUME NEW o \in BOOLEAN, NEW f, f = [NoFile EXCEPT !.open = o]
    PROVE  f \in Files /\ f.data = <<>> /\ f.at <= Len(f.data) /\ f.open = o /\ f.at = 0
<1>1. <<>> \in Seq(Frame) /\ Len(<<>>) = 0 BY EmptySeq
<1>2. f \in Files /\ f.data = <<>> /\ f.open = o /\ f.at = 0 BY <1>1 DEF Files, NoFile
<1> QED BY <1>1, <1>2

LEMMA AppendedFile ==
    ASSUME NEW f \in Files, NEW d \in Seq(Frame), NEW n \in Nat,
           NEW g, g = [f EXCEPT !.data = d, !.at = n]
    PROVE  g \in Files /\ g.data = d /\ g.at = n /\ g.open = f.open /\ g.size = f.size
BY DEF Files

LEMMA SealedFile ==
    ASSUME NEW f \in Files, NEW n \in Nat, NEW g, g = [f EXCEPT !.size = n, !.at = 0]
    PROVE  g \in Files /\ g.data = f.data /\ g.at = 0 /\ g.open = f.open /\ g.size = n
BY DEF Files

LEMMA ClosedFile ==
    ASSUME NEW f \in Files, NEW g, g = [f EXCEPT !.open = FALSE]
    PROVE  g \in Files /\ g.data = f.data /\ g.at = f.at /\ g.size = f.size
BY DEF Files

LEMMA FileParts == ASSUME TypeOK PROVE /\ file \in Files /\ file.data \in Seq(Frame)
                                       /\ file.at \in Nat /\ file.at + 1 \in Nat
                                       /\ file.at <= Len(file.data) /\ count \in Nat
BY DEF TypeOK, Files

LEMMA WritesFileType ==
    ASSUME TypeOK, WritesFile PROVE file' \in Files /\ file'.at <= Len(file'.data)
<1>1. CASE file' = file BY <1>1, FileParts
<1>2. CASE file' = [file EXCEPT !.data = Appended, !.at = file.at + 1]
  <2>. DEFINE n == file.at + 1
  <2>1. n \in Nat /\ n <= Len(Appended) BY FileParts, AppendedType
  <2>2. file' = [file EXCEPT !.data = Appended, !.at = n] BY <1>2
  <2>. HIDE DEF n
  <2>3. file' \in Files /\ file'.data = Appended /\ file'.at = n
    BY <2>1, <2>2, FileParts, AppendedType DEF Files
  <2> QED BY <2>1, <2>3
<1> QED BY <1>1, <1>2 DEF WritesFile

LEMMA WritesHeaderType ==
    ASSUME TypeOK, WritesHeader PROVE file' \in Files /\ file'.at <= Len(file'.data)
<1>1. CASE file' = file BY <1>1, FileParts
<1>2. CASE file' = [file EXCEPT !.size = count, !.at = 0]
  <2>1. file' \in Files /\ file'.data = file.data /\ file'.at = 0
    BY <1>2, FileParts DEF Files
  <2> QED BY <2>1, FileParts, LenProperties
<1> QED BY <1>1, <1>2 DEF WritesHeader

LEMMA ClosesFileType ==
    ASSUME TypeOK, ClosesFile PROVE file' \in Files /\ file'.at <= Len(file'.data)
<1>1. file' = [file EXCEPT !.open = FALSE] BY DEF ClosesFile
<1>2. file' \in Files /\ file'.data = file.data /\ file'.at = file.at
  BY <1>1, FileParts, ClosedFile
<1> QED BY <1>2, FileParts

LEMMA TypeInit == Init => TypeInv
<1>. SUFFICES ASSUME Init PROVE TypeInv OBVIOUS
<1>1. voice \in [Sides -> Codes] BY VoiceAssumption DEF Init
<1>2. deque \in [Sides -> Seq(1..MaxPuts)] /\ put \in [Sides -> 0..MaxPuts]
  BY BoundsAssumption, EmptySeq DEF Init
<1>3. mixed \in Frame /\ played \in Seq(Frame) BY SilenceIsFrame, EmptySeq DEF Init
<1>4. file \in Files /\ file.at <= Len(file.data)
  <2>1. file = [open |-> FALSE, data |-> <<>>, at |-> 0, size |-> 0]
    BY DEF Init, NoFile
  <2>2. <<>> \in Seq(Frame) /\ Len(<<>>) = 0 BY EmptySeq
  <2> QED BY <2>1, <2>2 DEF Files
<1> QED BY <1>1, <1>2, <1>3, <1>4 DEF Init, TypeInv, TypeOK, MayRecord, Files

LEMMA TypeStep == ASSUME TypeInv, [Next]_vars PROVE TypeInv'
<1>. USE DEF TypeInv, TypeOK, MayRecord, recording, ThreadGoes
<1>1. CASE UNCHANGED vars BY <1>1 DEF vars
<1>2. ASSUME NEW s \in Sides, Write(s) PROVE TypeInv'
  <2>1. put[s] + 1 \in 1..MaxPuts BY <1>2, BoundsAssumption DEF Write
  <2>2. deque' \in [Sides -> Seq(1..MaxPuts)] BY <1>2, <2>1, BoundedType DEF Write
  <2> QED BY <1>2, <2>1, <2>2 DEF Write
<1>3. CASE Start
  <2>1. file' \in Files /\ file'.at <= Len(file'.data)
    <3>1. file' = [NoFile EXCEPT !.open = Records] BY <1>3 DEF Start
    <3> QED BY <3>1, NoFileType, VoiceAssumption
  <2> QED BY <1>3, <2>1, VoiceAssumption DEF Start
<1>4. CASE StartRaises
  <2>1. file' \in Files /\ file'.at <= Len(file'.data)
    <3>1. attached' \in BOOLEAN /\ file' = [NoFile EXCEPT !.open = attached']
      BY <1>4 DEF StartRaises
    <3> QED BY <3>1, NoFileType
  <2> QED BY <1>4, <2>1 DEF StartRaises
<1>5. CASE Pop
  <2>1. \A s \in Sides : /\ Popped(deque[s]).frame \in 0..MaxPuts
                         /\ Popped(deque[s]).rest \in Seq(1..MaxPuts)
    BY PoppedType
  <2>2. mixed' \in Frame BY <1>5, <2>1 DEF Pop, Frame, Sides
  <2>3. deque' \in [Sides -> Seq(1..MaxPuts)] BY <1>5, <2>1 DEF Pop
  <2> QED BY <1>5, <2>2, <2>3 DEF Pop
<1>6. CASE LoopEnds BY <1>6 DEF LoopEnds
<1>7. CASE PipeTakes BY <1>7, AppendProperties DEF PipeTakes
<1>8. CASE PipeBreaks BY <1>8 DEF PipeBreaks
<1>9. CASE ChecksFile BY <1>9 DEF ChecksFile
<1>10. CASE WritesFile
  <2>1. file' \in Files /\ file'.at <= Len(file'.data) BY <1>10, WritesFileType
  <2>2. /\ UNCHANGED <<voice, deque, put, proc, stdin, running, mixed, count, sealed, shut,
                      late, played>>
    BY <1>10 DEF WritesFile
  <2>3. thread' \in {"count", "crashed", "loop"} BY <1>10 DEF WritesFile
  <2>4. attached' = attached \/ attached' = FALSE BY <1>10 DEF WritesFile
  <2>5. Records /\ thread # "none" BY <1>10 DEF WritesFile
  <2>6. attached' \in BOOLEAN /\ (attached' => Records)
    <3>1. CASE attached' = attached BY <3>1
    <3>2. CASE attached' = FALSE BY <3>2
    <3> QED BY <2>4, <3>1, <3>2
  <2>7. /\ thread' # "none" /\ thread' \in {"none", "loop", "pipe", "record", "append", "count",
                                            "ended", "crashed"}
    BY <2>3
  <2> QED BY <2>1, <2>2, <2>5, <2>6, <2>7
<1>11. CASE Counts BY <1>11 DEF Counts
<1>12. CASE FfplayExits BY <1>12 DEF FfplayExits
<1>13. CASE ShutdownBegins BY <1>13 DEF ShutdownBegins
<1>14. CASE Joined BY <1>14 DEF Joined, JoinReturns, ThreadOver
<1>15. CASE WritesHeader
  <2>1. file' \in Files /\ file'.at <= Len(file'.data) BY <1>15, WritesHeaderType
  <2>2. /\ UNCHANGED <<voice, deque, put, proc, stdin, running, thread, mixed, count, late,
                      played>>
        /\ shut' \in {"close", "reap"}
    BY <1>15 DEF WritesHeader
  <2>3. attached' = attached \/ attached' = FALSE BY <1>15 DEF WritesHeader
  <2>4. sealed' = sealed \/ sealed' = TRUE BY <1>15 DEF WritesHeader
  <2>5. sealed' \in BOOLEAN BY <2>4
  <2>6. attached' \in BOOLEAN BY <2>3
  <2>7. attached' => Records BY <2>3
  <2> QED BY <2>1, <2>2, <2>5, <2>6, <2>7
<1>16. CASE ClosesFile
  <2>1. file' \in Files /\ file'.at <= Len(file'.data) BY <1>16, ClosesFileType
  <2>2. /\ UNCHANGED <<voice, deque, put, proc, stdin, running, thread, mixed, count, sealed,
                      late, played>>
        /\ shut' = "reap" /\ attached' = FALSE
    BY <1>16 DEF ClosesFile
  <2> QED BY <2>1, <2>2
<1>17. CASE StopsFfplay BY <1>17 DEF StopsFfplay, Reap
<1> QED
  BY <1>1, <1>2, <1>3, <1>4, <1>5, <1>6, <1>7, <1>8, <1>9, <1>10, <1>11, <1>12, <1>13, <1>14,
     <1>15, <1>16, <1>17 DEF Next, MixStep, ShutStep

\* Whatever the threads and ffplay do, the deques hold frames that were put, what is
\* played is made of them, and a file is only written when there is a record_path.
THEOREM TypeCorrect == Spec => []TypeOK
<1>1. TypeInv => TypeOK BY DEF TypeInv
<1> QED BY <1>1, TypeInit, TypeStep, PTL DEF Spec

-----------------------------------------------------------------------------
(* What waits on a side                                                    *)

LEMMA NewestAppend ==
    ASSUME NEW q \in Seq(1..MaxPuts), NEW n \in Nat, Newest(q, n)
    PROVE  Newest(Bounded(Append(q, n + 1)), n + 1)
<1>. DEFINE r == Append(q, n + 1)
<1>1. /\ Len(q) \in Nat /\ Len(q) <= MaxFrames /\ MaxFrames \in Nat /\ MaxFrames > 0
      /\ \A i \in 1..Len(q) : q[i] = n - Len(q) + i
  BY LenProperties, BoundsAssumption DEF Newest
<1>0. q \in Seq(Int)
  <2>1. 1..MaxPuts \subseteq Int BY BoundsAssumption
  <2> QED BY <2>1, SeqMonotonic
<1>2. r \in Seq(Int) /\ Len(r) = Len(q) + 1 /\ r # <<>>
  BY <1>0, AppendProperties
<1>3. \A i \in 1..Len(r) : r[i] = (n + 1) - Len(r) + i
  BY <1>0, <1>1, <1>2, AppendProperties
<1>. HIDE DEF r
<1>4. ASSUME Len(r) <= MaxFrames PROVE Newest(Bounded(r), n + 1)
  <2>1. Bounded(r) = r BY <1>1, <1>2, <1>4 DEF Bounded
  <2> QED BY <1>2, <1>3, <1>4, <2>1 DEF Newest
<1>5. ASSUME Len(r) > MaxFrames PROVE Newest(Bounded(r), n + 1)
  <2>1. Len(Tail(r)) = Len(q) /\ \A i \in 1..Len(q) : Tail(r)[i] = r[i + 1]
    BY <1>1, <1>2, HeadTailProperties
  <2>2. \A i \in 1..Len(q) : Tail(r)[i] = (n + 1) - Len(q) + i BY <1>1, <1>2, <1>3, <2>1
  <2>3. Bounded(r) = Tail(r) BY <1>5 DEF Bounded
  <2> QED BY <1>1, <2>1, <2>2, <2>3 DEF Newest
<1> QED BY <1>1, <1>2, <1>4, <1>5 DEF r

LEMMA NewestPopped ==
    ASSUME NEW q \in Seq(1..MaxPuts), NEW n \in Nat, Newest(q, n)
    PROVE  Newest(Popped(q).rest, n)
<1>1. CASE q = <<>> BY <1>1 DEF Popped
<1>2. CASE q # <<>>
  <2>1. /\ Tail(q) \in Seq(1..MaxPuts) /\ Len(Tail(q)) = Len(q) - 1 /\ Len(q) \in Nat
        /\ \A i \in 1..Len(q) - 1 : Tail(q)[i] = q[i + 1]
    BY <1>2, HeadTailProperties, LenProperties
  <2>2. Popped(q).rest = Tail(q) BY <1>2 DEF Popped
  <2> QED BY <2>1, <2>2, BoundsAssumption DEF Newest
<1> QED BY <1>1, <1>2

LEMMA WaitInit == Init => NewestWait
<1>1. Len(<<>>) = 0 BY EmptySeq
<1> QED BY <1>1, BoundsAssumption DEF Init, NewestWait, Newest

LEMMA WaitStep == ASSUME TypeInv, NewestWait, [Next]_vars PROVE NewestWait'
<1>1. CASE UNCHANGED <<deque, put>> BY <1>1 DEF NewestWait, Newest
<1>2. ASSUME NEW s \in Sides, Write(s) PROVE NewestWait'
  <2>1. /\ deque[s] \in Seq(1..MaxPuts) /\ put[s] \in Nat /\ Newest(deque[s], put[s])
        /\ \A t \in Sides : Newest(deque[t], put[t])
    BY BoundsAssumption DEF TypeInv, TypeOK, NewestWait
  <2>2. Newest(Bounded(Append(deque[s], put[s] + 1)), put[s] + 1) BY <2>1, NewestAppend
  <2>3. /\ deque'[s] = Bounded(Append(deque[s], put[s] + 1)) /\ put'[s] = put[s] + 1
        /\ \A t \in Sides \ {s} : deque'[t] = deque[t] /\ put'[t] = put[t]
    BY <1>2 DEF Write, TypeInv, TypeOK
  <2>4. \A t \in Sides : Newest(deque'[t], put'[t]) BY <2>1, <2>2, <2>3
  <2> QED BY <2>4 DEF NewestWait, Newest
<1>3. CASE Pop
  <2>1. \A s \in Sides : Newest(Popped(deque[s]).rest, put[s])
    BY NewestPopped, BoundsAssumption DEF TypeInv, TypeOK, NewestWait
  <2>2. \A s \in Sides : deque'[s] = Popped(deque[s]).rest /\ put'[s] = put[s] BY <1>3 DEF Pop
  <2>3. \A s \in Sides : Newest(deque'[s], put'[s]) BY <2>1, <2>2
  <2> QED BY <2>3 DEF NewestWait, Newest
<1>4. CASE UNCHANGED vars BY <1>1, <1>4 DEF vars
<1> QED
  BY <1>1, <1>2, <1>3, <1>4
  DEF Next, MixStep, ShutStep, Start, StartRaises, LoopEnds, PipeTakes, PipeBreaks, ChecksFile,
      WritesFile, Counts, FfplayExits, ShutdownBegins, Joined, WritesHeader, ClosesFile,
      StopsFfplay

\* What waits on a side is its newest frames, without a gap: audio.py's deques drop the
\* oldest one, whatever MAX_FRAMES is and however fast the sides write.
THEOREM WaitIsNewest == Spec => []NewestWait
<1>1. Init => TypeInv /\ NewestWait BY TypeInit, WaitInit
<1>2. TypeInv /\ NewestWait /\ [Next]_vars => (TypeInv /\ NewestWait)'
  BY TypeStep, WaitStep
<1> QED BY <1>1, <1>2, PTL DEF Spec

-----------------------------------------------------------------------------
(* What is played                                                          *)

Itself(b) == Nearest(b, Clamp(Decode(b)))

LEMMA CodeIsNear == ASSUME NEW b \in Codes PROVE Itself(b)
<1>. DEFINE t == Decode(b)
            e == Exponent(255 - b)
<1>1. t \in Int /\ -32768 <= t /\ t <= 32767 BY DecodeIsSample
<1>2. e \in 0..7 BY DEF Exponent, Codes
<1>. HIDE DEF t, e
<1>3. Clamp(t) = t BY <1>1 DEF Clamp
<1>4. Half[e] \in Nat BY <1>2, HalfValues
<1>5. Distance(t, t) <= Half[e] BY <1>1, <1>4 DEF Distance
<1> QED BY <1>3, <1>5 DEF Itself, Nearest, t, e

LEMMA SilenceIsZero == Decode(255) = 0
<1>1. Exponent(0) = 0 /\ Mantissa(0) = 0 BY DEF Exponent, Mantissa
<1>2. Magnitude(0) = 0 BY <1>1, ExpLutValues, HalfValues DEF Magnitude
<1> QED BY <1>2 DEF Decode

\* The mix of a voice with silence is that voice (the negative zero becomes the zero): the
\* mix thread's short cuts for a silent side play what mixing would (audio.py:230).
THEOREM SilenceChangesNothing ==
    ASSUME NEW b \in Codes
    PROVE  /\ b # 127 => Mix(b, 255) = b /\ Mix(255, b) = b
           /\ Decode(Mix(b, 255)) = Decode(b) /\ Decode(Mix(255, b)) = Decode(b)
<1>1. Decode(b) \in Int /\ -32768 <= Decode(b) /\ Decode(b) <= 32767 BY DecodeIsSample
<1>2. Clamp(Decode(b)) = Decode(b) BY <1>1 DEF Clamp
<1>3. Mix(b, 255) = Encode(Decode(b)) /\ Mix(255, b) = Encode(Decode(b))
  BY <1>1, <1>2, SilenceIsZero DEF Mix
<1>4. Decode(127) = 0
  <2>1. Exponent(128) = 0 /\ Mantissa(128) = 0 BY DEF Exponent, Mantissa
  <2>2. Magnitude(128) = 0 BY <2>1, ExpLutValues, HalfValues DEF Magnitude
  <2> QED BY <2>2 DEF Decode
<1> QED BY <1>3, <1>4, CodesComeBack, SilenceIsZero

LEMMA FrameIsNear ==
    ASSUME voice \in [Sides -> Codes], NEW f \in Frame
    PROVE  Nearest(Sample(f), Sum(f))
<1>. DEFINE c == Said(f, "caller")
            a == Said(f, "agent")
<1>1. c \in Codes /\ a \in Codes BY DEF Sides, Said, Codes
<1>2. (f["caller"] = 0 => c = 255) /\ (f["agent"] = 0 => a = 255) BY DEF Said
<1>3. /\ f["agent"] = 0 => Sample(f) = c
      /\ f["agent"] # 0 /\ f["caller"] = 0 => Sample(f) = a
      /\ f["agent"] # 0 /\ f["caller"] # 0 => Sample(f) = Mix(c, a)
      /\ Sum(f) = Clamp(Decode(c) + Decode(a))
  BY DEF Sample, Sum
<1>. HIDE DEF c, a
<1>4. Itself(c) /\ Itself(a) BY <1>1, CodeIsNear
<1>5. Decode(c) \in Int /\ Decode(a) \in Int BY <1>1, DecodeIsSample
<1>6. CASE f["agent"] = 0
  <2>1. Decode(a) = 0 BY <1>2, <1>6, SilenceIsZero
  <2>2. Sum(f) = Clamp(Decode(c)) BY <1>3, <1>5, <2>1
  <2> QED BY <1>3, <1>4, <1>6, <2>2 DEF Itself
<1>7. CASE f["agent"] # 0 /\ f["caller"] = 0
  <2>1. Decode(c) = 0 BY <1>2, <1>7, SilenceIsZero
  <2>2. Sum(f) = Clamp(Decode(a)) BY <1>3, <1>5, <2>1
  <2> QED BY <1>3, <1>4, <1>7, <2>2 DEF Itself
<1>8. CASE f["agent"] # 0 /\ f["caller"] # 0
  BY <1>1, <1>3, <1>8, MixIsNear
<1> QED BY <1>6, <1>7, <1>8

\* What ffplay plays is the sum of the two sides, clipped, to within half a step of
\* the code: whatever they say.
THEOREM MixedIsNearest == Spec => []MixIsNearest
<1>1. TypeInv => MixIsNearest
  <2>. SUFFICES ASSUME TypeInv, NEW i \in 1..Len(played)
                PROVE  Nearest(Sample(played[i]), Sum(played[i]))
    BY DEF MixIsNearest
  <2>1. played[i] \in Frame BY ElementOfSeq DEF TypeInv, TypeOK
  <2> QED BY <2>1, FrameIsNear DEF TypeInv, TypeOK
<1> QED BY <1>1, TypeInit, TypeStep, PTL DEF Spec

-----------------------------------------------------------------------------
(* The order of what is played                                             *)

\* the last frame of a side that was taken from its deque, or dropped
Taken(s) == put[s] - Len(deque[s])

OrderInv ==
    /\ \A s \in Sides : \A i \in 1..Len(played) : played[i][s] <= Taken(s)
    /\ thread = "pipe" =>
          \A s \in Sides : /\ mixed[s] <= Taken(s)
                           /\ mixed[s] > 0 => \A i \in 1..Len(played) : played[i][s] < mixed[s]
    /\ InOrder

LEMMA OrderTypes ==
    ASSUME TypeInv
    PROVE  /\ \A s \in Sides : /\ deque[s] \in Seq(1..MaxPuts) /\ Len(deque[s]) \in Nat
                               /\ put[s] \in Nat /\ Taken(s) \in Int /\ mixed[s] \in Nat
           /\ \A s \in Sides : \A i \in 1..Len(played) : played[i][s] \in Nat
           /\ Len(played) \in Nat
<1>1. ASSUME NEW f \in Frame, NEW s \in Sides PROVE f[s] \in Nat
  BY BoundsAssumption DEF Frame, Sides
<1>2. \A i \in 1..Len(played) : played[i] \in Frame BY ElementOfSeq DEF TypeInv, TypeOK
<1>3. \A s \in Sides : deque[s] \in Seq(1..MaxPuts) /\ put[s] \in Nat
  BY BoundsAssumption DEF TypeInv, TypeOK
<1>4. \A s \in Sides : Len(deque[s]) \in Nat BY <1>3, LenProperties
<1>5. \A s \in Sides : mixed[s] \in Nat BY <1>1 DEF TypeInv, TypeOK
<1>6. Len(played) \in Nat BY LenProperties DEF TypeInv, TypeOK
<1> QED BY <1>1, <1>2, <1>3, <1>4, <1>5, <1>6 DEF Taken

LEMMA OrderInit == Init => OrderInv
<1>1. Len(<<>>) = 0 BY EmptySeq
<1> QED BY <1>1 DEF Init, OrderInv, InOrder

LEMMA OrderStep == ASSUME TypeInv, NewestWait, OrderInv, [Next]_vars PROVE OrderInv'
<1>0. CASE UNCHANGED <<deque, put, mixed, played>> /\ (thread' = "pipe" => thread = "pipe")
  BY <1>0 DEF OrderInv, InOrder, Taken
<1>1. ASSUME NEW s \in Sides, Write(s) PROVE OrderInv'
  <2>0. \A t \in Sides : put'[t] \in Nat /\ Len(deque'[t]) \in Nat
    <3>1. \A t \in Sides : deque'[t] \in Seq(1..MaxPuts) /\ put'[t] \in 0..MaxPuts
      <4>1. TypeInv' BY TypeStep
      <4> QED BY <4>1 DEF TypeInv, TypeOK
    <3> QED BY <3>1, LenProperties, BoundsAssumption
  <2>1. UNCHANGED <<thread, mixed, played>> BY <1>1 DEF Write
  <2>2. \A t \in Sides : Taken(t) <= Taken(t)'
    <3>1. Len(Bounded(Append(deque[s], put[s] + 1))) <= Len(deque[s]) + 1
      <4>1. 1..MaxPuts \subseteq Int BY BoundsAssumption
      <4>2. deque[s] \in Seq(1..MaxPuts) /\ Len(deque[s]) \in Nat /\ put[s] + 1 \in Int
        BY OrderTypes
      <4>3. deque[s] \in Seq(Int) BY <4>1, <4>2, SeqMonotonic
      <4>4. /\ Append(deque[s], put[s] + 1) \in Seq(Int)
            /\ Len(Append(deque[s], put[s] + 1)) = Len(deque[s]) + 1
            /\ Append(deque[s], put[s] + 1) # <<>>
        BY <4>2, <4>3, AppendProperties
      <4>5. Len(Tail(Append(deque[s], put[s] + 1))) = Len(deque[s])
        BY <4>2, <4>4, HeadTailProperties
      <4> QED BY <4>2, <4>4, <4>5 DEF Bounded
    <3>2. /\ deque'[s] = Bounded(Append(deque[s], put[s] + 1)) /\ put'[s] = put[s] + 1
          /\ \A t \in Sides \ {s} : deque'[t] = deque[t] /\ put'[t] = put[t]
      BY <1>1 DEF Write, TypeInv, TypeOK
    <3>3. \A t \in Sides : Taken(t) \in Int /\ Taken(t) = put[t] - Len(deque[t])
      BY OrderTypes DEF Taken
    <3>4. \A t \in Sides : Taken(t)' = put'[t] - Len(deque'[t]) BY DEF Taken
    <3>5. Taken(s) <= Taken(s)' BY <2>0, <3>1, <3>2, <3>3, <3>4, OrderTypes
    <3> QED BY <3>2, <3>3, <3>4, <3>5
  <2>3. \A t \in Sides : Taken(t)' \in Int BY <2>0 DEF Taken
  <2>4. \A t \in Sides, i \in 1..Len(played) : played[i][t] <= Taken(t)'
    BY <2>2, <2>3, OrderTypes DEF OrderInv
  <2>5. thread = "pipe" => \A t \in Sides : mixed[t] <= Taken(t)'
    BY <2>2, <2>3, OrderTypes DEF OrderInv
  <2> QED BY <2>1, <2>4, <2>5 DEF OrderInv, InOrder
<1>2. CASE Pop
  <2>1. UNCHANGED <<put, played>> BY <1>2 DEF Pop
  <2>2. \A s \in Sides : /\ mixed'[s] = Popped(deque[s]).frame
                         /\ deque'[s] = Popped(deque[s]).rest
    BY <1>2 DEF Pop
  <2>3. ASSUME NEW s \in Sides
        PROVE  /\ Taken(s) <= put[s] - Len(deque'[s])
               /\ put[s] - Len(deque'[s]) \in Int
               /\ mixed'[s] \in Nat /\ mixed'[s] <= put[s] - Len(deque'[s])
               /\ mixed'[s] > 0 => mixed'[s] > Taken(s)
    <3>1. CASE deque[s] = <<>>
      <4>1. mixed'[s] = 0 /\ deque'[s] = deque[s] BY <2>2, <3>1 DEF Popped
      <4>2. Len(deque[s]) = 0 BY <3>1, EmptySeq
      <4> QED BY <4>1, <4>2, OrderTypes DEF Taken
    <3>2. CASE deque[s] # <<>>
      <4>1. mixed'[s] = Head(deque[s]) /\ deque'[s] = Tail(deque[s]) BY <2>2, <3>2 DEF Popped
      <4>2. Len(deque[s]) > 0 BY <3>2, OrderTypes, EmptySeq
      <4>3. Head(deque[s]) = put[s] - Len(deque[s]) + 1
        BY <4>2, OrderTypes DEF NewestWait, Newest
      <4>4. Len(Tail(deque[s])) = Len(deque[s]) - 1
        BY <3>2, OrderTypes, HeadTailProperties
      <4>5. Head(deque[s]) \in Nat BY <3>2, OrderTypes, HeadTailProperties, BoundsAssumption
      <4>6. /\ Len(deque'[s]) = Len(deque[s]) - 1
            /\ mixed'[s] = put[s] - Len(deque[s]) + 1 /\ mixed'[s] \in Nat
        BY <4>1, <4>3, <4>4, <4>5
      <4>7. put[s] \in Int /\ Len(deque[s]) \in Int BY OrderTypes
      <4> QED BY <4>6, <4>7 DEF Taken
    <3> QED BY <3>1, <3>2
  <2>4. \A s \in Sides : Taken(s)' = put[s] - Len(deque'[s]) BY <2>1 DEF Taken
  <2> QED BY <2>1, <2>3, <2>4, OrderTypes DEF OrderInv, InOrder
<1>3. CASE PipeTakes
  <2>1. /\ thread = "pipe" /\ thread' = "record" /\ UNCHANGED <<deque, put, mixed>>
        /\ played' = Append(played, mixed)
    BY <1>3 DEF PipeTakes, ThreadGoes
  <2>2. /\ Len(played') = Len(played) + 1
        /\ \A i \in 1..Len(played) : played'[i] = played[i]
        /\ played'[Len(played) + 1] = mixed
    BY <2>1, AppendProperties DEF TypeInv, TypeOK
  <2>3. \A i \in 1..Len(played') : i \in 1..Len(played) \/ i = Len(played) + 1
    BY <2>2, OrderTypes
  <2>4. \A s \in Sides : \A i \in 1..Len(played') : played'[i][s] <= Taken(s)
    BY <2>1, <2>2, <2>3 DEF OrderInv
  <2>5. InOrder'
    <3>. SUFFICES ASSUME NEW s \in Sides, NEW i \in 1..Len(played'), NEW k \in 1..Len(played'),
                         i < k, played'[i][s] > 0, played'[k][s] > 0
                  PROVE  played'[i][s] < played'[k][s]
      BY DEF InOrder
    <3>1. i \in 1..Len(played) BY <2>2, <2>3, OrderTypes
    <3>2. CASE k \in 1..Len(played) BY <2>2, <3>1, <3>2 DEF OrderInv, InOrder
    <3>3. CASE k = Len(played) + 1 BY <2>1, <2>2, <3>1, <3>3 DEF OrderInv
    <3> QED BY <2>3, <3>2, <3>3
  <2>6. \A s \in Sides : Taken(s)' = Taken(s) BY <2>1 DEF Taken
  <2> QED BY <2>1, <2>4, <2>5, <2>6 DEF OrderInv
<1>4. CASE UNCHANGED vars BY <1>0, <1>4 DEF vars
<1> QED
  BY <1>0, <1>1, <1>2, <1>3, <1>4
  DEF Next, MixStep, ShutStep, Start, StartRaises, LoopEnds, PipeBreaks, ChecksFile, ThreadGoes,
      WritesFile, Counts, FfplayExits, ShutdownBegins, Joined, WritesHeader, ClosesFile,
      StopsFfplay

\* Neither side of the call is played out of order or twice, whatever the deques drop.
THEOREM PlayedInOrder == Spec => []InOrder
<1>. DEFINE Inv == TypeInv /\ NewestWait /\ OrderInv
<1>1. Init => Inv BY TypeInit, WaitInit, OrderInit
<1>2. Inv /\ [Next]_vars => Inv' BY TypeStep, WaitStep, OrderStep
<1>3. Inv => InOrder BY DEF OrderInv
<1>. HIDE DEF Inv
<1> QED BY <1>1, <1>2, <1>3, PTL DEF Spec

-----------------------------------------------------------------------------
(* The recording                                                           *)

\* how far the file and the count of its frames are behind what was played
Match ==
    attached =>
       /\ thread \in {"record", "append"} =>
             played = Append(file.data, mixed) /\ count = Len(file.data)
       /\ thread = "count" => played = file.data /\ count + 1 = Len(file.data)
       /\ thread \notin {"record", "append", "count"} =>
             played = file.data /\ count = Len(file.data)

Before == shut \in {"no", "join"}

RecordingInv ==
    /\ proc = "none" => /\ thread = "none" /\ played = <<>> /\ count = 0
                        /\ shut = "no" /\ ~sealed
    /\ Before /\ attached => file.open /\ file.at = Len(file.data)
    /\ Before \/ (shut = "header" /\ ~late) => Match
    /\ ~Before /\ ~late => thread \in {"none", "ended", "crashed"}
    /\ sealed => ~Before /\ shut # "header"
    /\ RecordingSound

LEMMA AppendedAtEnd ==
    ASSUME TypeOK, file.at = Len(file.data) PROVE Appended = Append(file.data, mixed)
<1>. DEFINE d == file.data
            n == Len(d)
            t == <<mixed>>
<1>1. d \in Seq(Frame) /\ n \in Nat /\ mixed \in Frame /\ file.at = n
  BY FileParts, LenProperties DEF TypeOK
<1>2. t \in Seq(Frame) BY <1>1
<1>3. Appended = SubSeq(d, 1, n) \o t \o SubSeq(d, n + 2, n) BY <1>1 DEF Appended
<1>. HIDE DEF d, n, t
<1>4. SubSeq(d, 1, n) = d BY <1>1, SubSeqFull DEF n
<1>5. SubSeq(d, n + 2, n) = <<>> BY <1>1, SubSeqEmpty
<1>6. d \o t \in Seq(Frame) BY <1>1, <1>2, ConcatProperties
<1>7. Appended = d \o t BY <1>3, <1>4, <1>5, <1>6, ConcatEmptySeq
<1>8. d \o t = Append(d, mixed) BY <1>1, AppendIsConcat DEF t
<1> QED BY <1>7, <1>8 DEF d

LEMMA WritesFileDoes ==
    ASSUME TypeOK, WritesFile
    PROVE  \/ /\ attached /\ thread' = "count" /\ UNCHANGED attached
              /\ file'.data = Appended /\ file'.at = file.at + 1 /\ file'.open = file.open
           \/ /\ ~(attached /\ file.open) /\ thread' = "crashed" /\ UNCHANGED <<attached, file>>
           \/ /\ attached /\ thread' = "loop" /\ ~attached' /\ UNCHANGED file
<1>1. CASE file' = [file EXCEPT !.data = Appended, !.at = file.at + 1]
  <2>. DEFINE n == file.at + 1
  <2>1. n \in Nat BY FileParts
  <2>2. file' = [file EXCEPT !.data = Appended, !.at = n] BY <1>1
  <2>. HIDE DEF n
  <2>3. file'.data = Appended /\ file'.at = n /\ file'.open = file.open
    BY <2>1, <2>2, FileParts, AppendedType DEF Files
  <2>4. file'.data = Appended /\ file'.at = file.at + 1 /\ file'.open = file.open
    BY <2>3 DEF n
  <2> QED BY <2>4 DEF WritesFile, ThreadGoes
<1>2. CASE file' # [file EXCEPT !.data = Appended, !.at = file.at + 1]
  BY <1>2 DEF WritesFile, ThreadGoes
<1> QED BY <1>1, <1>2

LEMMA WritesHeaderDoes ==
    ASSUME TypeOK, WritesHeader
    PROVE  \/ /\ attached /\ shut' = "close" /\ sealed' = TRUE
              /\ file'.data = file.data /\ file'.size = count
           \/ shut' = "reap" /\ UNCHANGED <<file, sealed>>
<1>1. CASE file' = [file EXCEPT !.size = count, !.at = 0]
  <2>1. file'.data = file.data /\ file'.size = count BY <1>1, FileParts DEF Files
  <2> QED BY <2>1 DEF WritesHeader
<1>2. CASE file' # [file EXCEPT !.size = count, !.at = 0] BY <1>2 DEF WritesHeader
<1> QED BY <1>1, <1>2

LEMMA RecordingInit == Init => RecordingInv
<1>1. Len(<<>>) = 0 BY EmptySeq
<1> QED BY <1>1 DEF Init, RecordingInv, RecordingSound, Match, NoFile, Before

LEMMA RecordingStep ==
    ASSUME TypeInv, RecordingInv, [Next]_vars PROVE RecordingInv'
<1>. USE DEF RecordingInv, RecordingSound, Match, Before, recording, ThreadGoes
<1>0. TypeOK BY DEF TypeInv
<1>1. CASE UNCHANGED <<proc, thread, mixed, attached, file, count, sealed, shut, late, played>>
  BY <1>1
<1>2. ASSUME NEW s \in Sides, Write(s) PROVE RecordingInv' BY <1>1, <1>2 DEF Write
<1>3. CASE Start \/ StartRaises
  <2>1. /\ proc = "none" /\ shut = "no" /\ proc' = "running" /\ attached' \in BOOLEAN
        /\ file' = [NoFile EXCEPT !.open = attached'] /\ thread' \in {"none", "loop"}
        /\ UNCHANGED <<mixed, count, sealed, shut, late, played>>
    BY <1>3, VoiceAssumption DEF Start, StartRaises, TypeInv, TypeOK
  <2>2. file'.data = <<>> /\ file'.at = 0 /\ file'.open = attached' BY <2>1, NoFileType
  <2>3. Len(<<>>) = 0 BY EmptySeq
  <2> QED BY <2>1, <2>2, <2>3
<1>4. CASE Pop BY <1>4 DEF Pop
<1>5. CASE LoopEnds BY <1>5 DEF LoopEnds
<1>6. CASE PipeTakes BY <1>6 DEF PipeTakes
<1>7. CASE PipeBreaks BY <1>7 DEF PipeBreaks
<1>8. CASE ChecksFile BY <1>8 DEF ChecksFile
<1>9. CASE WritesFile
  <2>0. thread = "append" /\ UNCHANGED <<proc, mixed, count, sealed, shut, late, played>>
    BY <1>9 DEF WritesFile
  <2>1. CASE /\ attached /\ thread' = "count" /\ UNCHANGED attached
             /\ file'.data = Appended /\ file'.at = file.at + 1 /\ file'.open = file.open
    <3>1. CASE Before
      <4>1. /\ file.open /\ file.at = Len(file.data) /\ played = Append(file.data, mixed)
            /\ count = Len(file.data)
        BY <2>0, <2>1, <3>1
      <4>2. file'.data = Append(file.data, mixed) BY <1>0, <2>1, <4>1, AppendedAtEnd
      <4>3. Len(file'.data) = Len(file.data) + 1
        BY <1>0, <4>2, FileParts, AppendProperties
      <4> QED BY <2>0, <2>1, <3>1, <4>1, <4>2, <4>3
    <3>2. CASE ~Before BY <2>0, <2>1, <3>2
    <3> QED BY <3>1, <3>2
  <2>2. CASE ~(attached /\ file.open) /\ thread' = "crashed" /\ UNCHANGED <<attached, file>>
    BY <2>0, <2>2
  <2>3. CASE attached /\ thread' = "loop" /\ ~attached' /\ UNCHANGED file
    BY <2>0, <2>3
  <2> QED BY <1>0, <1>9, <2>1, <2>2, <2>3, WritesFileDoes
<1>10. CASE Counts BY <1>10 DEF Counts
<1>11. CASE FfplayExits BY <1>11 DEF FfplayExits
<1>12. CASE ShutdownBegins BY <1>12 DEF ShutdownBegins
<1>13. CASE Joined BY <1>13 DEF Joined, JoinReturns, ThreadOver
<1>14. CASE WritesHeader
  <2>0. shut = "header" /\ UNCHANGED <<proc, thread, mixed, count, late, played>>
    BY <1>14 DEF WritesHeader
  <2>1. CASE /\ attached /\ shut' = "close" /\ sealed' = TRUE
             /\ file'.data = file.data /\ file'.size = count
    BY <2>0, <2>1
  <2>2. CASE shut' = "reap" /\ UNCHANGED <<file, sealed>> BY <2>0, <2>2
  <2> QED BY <1>0, <1>14, <2>1, <2>2, WritesHeaderDoes
<1>15. CASE ClosesFile
  <2>1. /\ shut = "close" /\ shut' = "reap" /\ ~attached'
        /\ UNCHANGED <<proc, thread, mixed, count, sealed, late, played>>
    BY <1>15 DEF ClosesFile
  <2>2. file'.data = file.data /\ file'.size = file.size
    BY <1>0, <1>15, FileParts, ClosedFile DEF ClosesFile
  <2> QED BY <2>1, <2>2
<1>16. CASE StopsFfplay BY <1>16 DEF StopsFfplay, Reap
<1>17. CASE UNCHANGED vars BY <1>1, <1>17 DEF vars
<1> QED
  BY <1>1, <1>2, <1>3, <1>4, <1>5, <1>6, <1>7, <1>8, <1>9, <1>10, <1>11, <1>12, <1>13, <1>14,
     <1>15, <1>16, <1>17 DEF Next, MixStep, ShutStep

\* NC-235: a recording whose header was finalized after the mix thread had ended says how
\* long it is, and is what ffplay was given, wherever a write or the pipe failed.
THEOREM RecordingIsSound == Spec => []RecordingSound
<1>. DEFINE Inv == TypeInv /\ RecordingInv
<1>1. Init => Inv BY TypeInit, RecordingInit
<1>2. Inv /\ [Next]_vars => Inv' BY TypeStep, RecordingStep
<1>3. Inv => RecordingSound BY DEF RecordingInv
<1>. HIDE DEF Inv
<1> QED BY <1>1, <1>2, <1>3, PTL DEF Spec
=============================================================================
