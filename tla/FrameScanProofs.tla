--------------------------- MODULE FrameScanProofs ---------------------------
(***************************************************************************)
(* The frames of one anchor, for frames and runs of markers of any length, *)
(* numbers that wrap anywhere, and any number of losses that are far enough*)
(* apart for the scan to find its place in between.                        *)
(*                                                                         *)
(* A loss is noticed unless it leaves the place behind the frame at hand   *)
(* on a marker that is not the first: unless its length, modulo a frame,   *)
(* is one of those that are shorter than the run of markers.  That is all  *)
(* the labels need to be numbers.  That they increase needs losses of less *)
(* than half the range of the numbers, too.                                *)
(***************************************************************************)
EXTENDS FrameScan, NumberLemmas, SequenceTheorems

(* Neither the start of the capture nor a loss puts the scan on a marker that
   is not the first of its run. *)
ScanMeetsFirstMarker ==
  /\ Marks > 0
  /\ \A n \in StartAt : n \notin 1 .. Marks - 1
  /\ \A n \in LossLen : n % Period \notin 1 .. Marks - 1

HalfRange == SeqMod \div 2

LossesShort ==
  SeqMod >= 2 /\ \A n \in LossLen : n <= Period * (HalfRange - 1)

LEMMA Sizes ==
  /\ Period \in Nat \ {0} /\ Marks \in Nat /\ SeqMod \in Nat \ {0}
  /\ Period > Marks + 1 /\ HalfRange \in Nat
  /\ StartAt \subseteq 0 .. Period - 1 /\ LossLen \subseteq Nat \ {0}
BY FramedAssumption, ScanAssumption DEF HalfRange

-----------------------------------------------------------------------------
(* The words of the stream, numbered without end *)

Sent(g, c) ==
  [word |-> IF g % Period = 0 THEN Header((g \div Period) % SeqMod)
            ELSE IF g % Period <= Marks THEN Mark ELSE Data,
   sweep |-> (g \div Period) % SeqMod, at |-> g % Period, after |-> c]

Samples == {Sent(g, c) : g \in Nat, c \in Nat}

\* The next word is the g-th.
NextIs(g) == pos = g % Period /\ seq = (g \div Period) % SeqMod

LEMMA SampleIsSent ==
  ASSUME NEW g \in Nat, NextIs(g)
  PROVE  Sample = Sent(g, losses)
BY DEF NextIs, Sample, Sent, NextWord

LEMMA SentFields ==
  ASSUME NEW g \in Nat, NEW c
  PROVE  /\ Sent(g, c).at = g % Period /\ Sent(g, c).after = c
         /\ Sent(g, c).sweep = (g \div Period) % SeqMod
         /\ IsMarker(Sent(g, c)) <=> g % Period \in 1 .. Marks
         /\ g % Period \in 0 .. Period - 1
<1>1. g % Period \in 0 .. Period - 1 /\ Marks \in Nat
  BY Sizes, DivMod
<1>2. /\ Header((g \div Period) % SeqMod).kind = "seq"
      /\ Mark.kind = "mark" /\ Data.kind = "data"
  BY DEF Header, Mark, Data
<1>3. Sent(g, c).word = IF g % Period = 0 THEN Header((g \div Period) % SeqMod)
                        ELSE IF g % Period <= Marks THEN Mark ELSE Data
  BY DEF Sent
<1>4. IsMarker(Sent(g, c)) <=> g % Period \in 1 .. Marks
  BY <1>1, <1>2, <1>3 DEF IsMarker
<1> QED
  BY <1>1, <1>4 DEF Sent

(* n words further on *)
LEMMA Further ==
  ASSUME NEW g \in Nat, NextIs(g), NEW n \in Nat,
         NEW p, NEW s,
         p = (pos + n) % Period, s = (seq + ((pos + n) \div Period)) % SeqMod
  PROVE  p = (g + n) % Period /\ s = ((g + n) \div Period) % SeqMod
<1> DEFINE a == g \div Period
           r == g % Period
           b == (r + n) \div Period
<1>1. Period \in Nat \ {0} /\ SeqMod \in Nat \ {0} /\ a \in Int /\ r \in 0 .. Period - 1
  BY Sizes, DivMod
<1>0. g \in Int /\ n \in Int
  OBVIOUS
<1>2. p = (g + n) % Period
  <2>1. p = (r + n) % Period
    BY DEF NextIs
  <2>2. (r + n) % Period = (g + n) % Period
    BY <1>0, <1>1, ModPlus
  <2> QED
    BY <2>1, <2>2
<1>3. (g + n) \div Period = a + b
  BY <1>0, <1>1, DivPlus
<1>4. b \in Int
  <2>1. r + n \in Int
    BY <1>1
  <2> QED
    BY <1>1, <2>1, DivMod
<1>5. s = ((a % SeqMod) + b) % SeqMod
  BY DEF NextIs
<1> HIDE DEF a, b, r
<1>6. s = (a + b) % SeqMod
  BY <1>1, <1>4, <1>5, ModPlus
<1> QED
  BY <1>2, <1>3, <1>6

LEMMA NextWordIs ==
  ASSUME NEW g \in Nat, NextIs(g), Emit
  PROVE  pos' = (g + 1) % Period /\ seq' = ((g + 1) \div Period) % SeqMod
<1>1. /\ Period \in Nat \ {0} /\ SeqMod \in Nat \ {0}
      /\ pos \in 0 .. Period - 1 /\ seq \in 0 .. SeqMod - 1
  <2>1. g \div Period \in Int
    BY Sizes, DivMod
  <2> QED
    BY <2>1, Sizes, DivMod DEF NextIs
<1>2. pos' = (pos + 1) % Period /\ seq' = (seq + ((pos + 1) \div Period)) % SeqMod
  <2>1. CASE pos = Period - 1
    <3>1. pos + 1 = Period * 1 + 0
      BY <1>1, <2>1
    <3>2. (pos + 1) % Period = 0 /\ (pos + 1) \div Period = 1
      BY <1>1, <3>1, ModIs, DivIs, 0 \in 0 .. Period - 1
    <3>3. (seq + 1) % SeqMod = IF seq = SeqMod - 1 THEN 0 ELSE seq + 1
      <4>1. CASE seq = SeqMod - 1
        <5>1. seq + 1 = SeqMod * 1 + 0
          BY <1>1, <4>1
        <5> QED
          BY <1>1, <4>1, <5>1, ModIs, 0 \in 0 .. SeqMod - 1
      <4>2. CASE seq # SeqMod - 1
        BY <1>1, <4>2, ModOfSmall, seq + 1 \in 0 .. SeqMod - 1
      <4> QED
        BY <4>1, <4>2
    <3> QED
      BY <2>1, <3>2, <3>3 DEF Emit
  <2>2. CASE pos # Period - 1
    <3>1. pos + 1 \in 0 .. Period - 1 /\ pos + 1 = Period * 0 + (pos + 1)
      BY <1>1, <2>2
    <3>2. (pos + 1) % Period = pos + 1 /\ (pos + 1) \div Period = 0
      BY <1>1, <3>1, ModOfSmall, DivIs
    <3>3. (seq + 0) % SeqMod = seq
      BY <1>1, ModOfSmall
    <3> QED
      BY <2>2, <3>2, <3>3 DEF Emit
  <2> QED
    BY <2>1, <2>2
<1> QED
  BY <1>2, Further, 1 \in Nat

(* The number of the m-th frame, and the words behind it *)
LEMMA SentInFrame ==
  ASSUME NEW m \in Nat, NEW r \in 0 .. Period - 1, NEW c
  PROVE  /\ Period * m + r \in Nat /\ (Period * m + r) % Period = r
         /\ Sent(Period * m + r, c).at = r
         /\ Sent(Period * m + r, c).sweep = m % SeqMod
<1>1. Period * m \in Nat /\ r \in Nat /\ Period \in Nat \ {0}
  BY Sizes
<1>2. (Period * m + r) % Period = r /\ (Period * m + r) \div Period = m
  BY <1>1, ModIs, DivIs
<1> QED
  BY <1>1, <1>2 DEF Sent

LEMMA SentFirst ==
  ASSUME NEW m \in Nat, NEW c
  PROVE  /\ Period * m \in Nat /\ (Period * m) % Period = 0
         /\ Sent(Period * m, c).at = 0 /\ Sent(Period * m, c).sweep = m % SeqMod
<1>1. 0 \in 0 .. Period - 1 /\ Period * m + 0 = Period * m
  BY Sizes
<1> HIDE DEF Sent
<1> QED
  BY <1>1, SentInFrame

LEMMA MultipleIs ==
  ASSUME NEW g \in Nat, g % Period = 0
  PROVE  \E m \in Nat : g = Period * m
<1> DEFINE m == g \div Period
<1>1. g = Period * m + (g % Period) /\ m \in Int
  BY Sizes, DivMod
<1>2. m \in Nat
  BY Sizes
<1> HIDE DEF m
<1> QED
  BY <1>1, <1>2, Sizes

-----------------------------------------------------------------------------
(* The invariant.  The history is what is left of the words before the last *)
(* loss, k samples, and then words that follow one another up to the next:  *)
(* the sample in place i is the word h + i - 1, or would be if it had not   *)
(* been sent before the loss.  While more than a frame is left from before  *)
(* the loss, that starts with the frame labelled last, the m-th.            *)

(* The scan goes on to word h, or to the start v of the next frame; the
   number of that frame's end is not too far ahead of m. *)
Ahead(h, m) ==
  \E v \in Nat : /\ m <= v /\ v + 1 <= m + HalfRange
                 /\ h <= Period * v /\ Period * v < h + Period

Holds(h, k, m) ==
  /\ k <= Len(buf)
  /\ NextIs(h + Len(buf))
  /\ \A i \in k + 1 .. Len(buf) : buf[i] = Sent(h + i - 1, losses)
  /\ \A i \in 1 .. k : buf[i].after # losses
  /\ k > Period => \A i \in 1 .. k : buf[i] = Sent(Period * m + (i - 1), losses - 1)
  /\ h % Period \notin 1 .. Marks - 1
  /\ cut = NoCut => k = 0
  /\ cut # NoCut => /\ \E c \in Nat : cut.label = Sent(Period * m, c)
                    /\ LossesShort => Ahead(h, m)

ScanInv ==
  /\ buf \in Seq(Samples) /\ losses \in Nat
  /\ WholeSweep
  /\ \E h, k, m \in Nat : Holds(h, k, m)

LEMMA ScanInvInit ==
  ASSUME ScanMeetsFirstMarker, ScanInit
  PROVE  ScanInv
<1>1. pos \in 0 .. Period - 1 /\ pos \in Nat /\ pos \notin 1 .. Marks - 1
  BY Sizes DEF ScanInit, ScanMeetsFirstMarker
<1>2. buf \in Seq(Samples) /\ Len(buf) = 0 /\ losses = 0 /\ cut = NoCut /\ seq = 0
  BY DEF ScanInit
<1>3. pos % Period = pos /\ pos \div Period = 0 /\ 0 % SeqMod = 0
  <2>1. pos = Period * 0 + pos
    BY <1>1, Sizes
  <2> QED
    BY <1>1, <2>1, Sizes, ModOfSmall, DivIs, 0 \in 0 .. SeqMod - 1
<1>4. NextIs(pos + Len(buf))
  BY <1>1, <1>2, <1>3 DEF NextIs
<1>5. Holds(pos, 0, 0)
  BY <1>1, <1>2, <1>3, <1>4 DEF Holds
<1> QED
  BY <1>1, <1>2, <1>5 DEF ScanInv, WholeSweep

LEMMA ScanInvPush ==
  ASSUME ScanInv, Push
  PROVE  ScanInv'
<1>1. PICK h, k, m \in Nat : Holds(h, k, m)
  BY DEF ScanInv
<1>2. /\ buf' = Append(buf, Sample) /\ UNCHANGED <<losses, cut>> /\ Emit
      /\ buf \in Seq(Samples) /\ Len(buf) \in Nat /\ losses \in Nat
  BY LenProperties DEF ScanInv, Push
<1>3. Sample = Sent(h + Len(buf), losses) /\ Sample \in Samples
  BY <1>1, <1>2, SampleIsSent DEF Holds, Samples
<1>4. /\ buf' \in Seq(Samples) /\ Len(buf') = Len(buf) + 1
      /\ \A i \in 1 .. Len(buf) : buf'[i] = buf[i]
      /\ buf'[Len(buf) + 1] = Sample
  BY <1>2, <1>3, AppendProperties
<1>5. NextIs(h + Len(buf))'
  <2> DEFINE g == h + Len(buf)
  <2>1. NextIs(g) /\ g \in Nat
    BY <1>1, <1>2 DEF Holds
  <2> HIDE DEF g
  <2>2. pos' = (g + 1) % Period /\ seq' = ((g + 1) \div Period) % SeqMod
    BY <1>2, <2>1, NextWordIs
  <2>3. h + Len(buf') = g + 1
    BY <1>2, <1>4 DEF g
  <2> QED
    BY <2>2, <2>3 DEF NextIs
<1>6. \A i \in k + 1 .. Len(buf') : buf'[i] = Sent(h + i - 1, losses)
  <2> SUFFICES ASSUME NEW i \in k + 1 .. Len(buf') PROVE buf'[i] = Sent(h + i - 1, losses)
    OBVIOUS
  <2>1. CASE i = Len(buf) + 1
    BY <1>2, <1>3, <1>4, <2>1, h + (Len(buf) + 1) - 1 = h + Len(buf)
  <2>2. CASE i # Len(buf) + 1
    <3>1. i \in k + 1 .. Len(buf) /\ i \in 1 .. Len(buf)
      BY <1>2, <1>4, <2>2
    <3> QED
      BY <1>1, <1>4, <3>1 DEF Holds
  <2> QED
    BY <2>1, <2>2
<1>7. k <= Len(buf) /\ \A i \in 1 .. k : buf'[i] = buf[i]
  BY <1>1, <1>2, <1>4 DEF Holds
<1>8. Holds(h, k, m)'
  <2>1. /\ \A i \in 1 .. k : buf'[i].after # losses
        /\ k > Period => \A i \in 1 .. k : buf'[i] = Sent(Period * m + (i - 1), losses - 1)
    BY <1>1, <1>7 DEF Holds
  <2>2. /\ h % Period \notin 1 .. Marks - 1
        /\ cut = NoCut => k = 0
        /\ cut # NoCut => /\ \E c \in Nat : cut.label = Sent(Period * m, c)
                          /\ LossesShort => Ahead(h, m)
    BY <1>1 DEF Holds
  <2>3. k <= Len(buf')
    BY <1>2, <1>4, <1>7
  <2> QED
    BY <1>2, <1>5, <1>6, <2>1, <2>2, <2>3 DEF Holds
<1> QED
  BY <1>2, <1>4, <1>8 DEF ScanInv, WholeSweep

(* The least multiple of the length of a frame that is not below n *)
LEMMA RoundUp ==
  ASSUME NEW n \in Nat
  PROVE  \E x \in Nat : n <= Period * x /\ Period * x < n + Period
<1> DEFINE c == n + Period - 1
           x == c \div Period
<1>1. c \in Nat /\ Period \in Nat \ {0}
  BY Sizes
<1>2. x \in Int /\ c = Period * x + (c % Period) /\ c % Period \in 0 .. Period - 1
  BY <1>1, DivMod
<1>3. x \in Nat
  <2> HIDE DEF c
  <2> QED
    BY <1>1
<1>4. Period * x = c - (c % Period) /\ Period * x \in Int
  BY <1>1, <1>2
<1> HIDE DEF x
<1>5. n <= Period * x /\ Period * x < n + Period
  BY <1>1, <1>2, <1>4
<1> QED
  BY <1>3, <1>5

LEMMA ScanInvLose ==
  ASSUME ScanMeetsFirstMarker, ScanInv, Lose
  PROVE  ScanInv'
<1>1. PICK h, k, m \in Nat : Holds(h, k, m)
  BY DEF ScanInv
<1>2. PICK n \in LossLen : /\ pos' = (pos + n) % Period
                           /\ seq' = (seq + ((pos + n) \div Period)) % SeqMod
  BY DEF Lose
<1>3. /\ cut # NoCut /\ buf # <<>> /\ buf[1] = cut.label /\ buf[1].after = losses
      /\ losses' = losses + 1 /\ buf' = buf /\ cut' = cut
      /\ buf \in Seq(Samples) /\ Len(buf) \in Nat /\ losses \in Nat /\ n \in Nat
      /\ Period \in Nat \ {0} /\ n % Period \notin 1 .. Marks - 1
  BY <1>2, Sizes, LenProperties DEF Lose, InPlace, ScanInv, ScanMeetsFirstMarker
<1>4. k = 0 /\ Len(buf) > 0
  <2>1. Len(buf) > 0
    BY <1>3, EmptySeq
  <2>2. ~(k >= 1)
    BY <1>1, <1>3 DEF Holds
  <2> QED
    BY <2>1, <2>2
<1>5. \A i \in 1 .. Len(buf) : buf[i] = Sent(h + i - 1, losses)
  BY <1>1, <1>4 DEF Holds
<1>6. h % Period = 0
  <2>1. buf[1].at = h % Period
    BY <1>4, <1>5, SentFields
  <2>2. cut.label.at = 0
    <3>1. PICK c \in Nat : cut.label = Sent(Period * m, c)
      BY <1>1, <1>3 DEF Holds
    <3> QED
      BY <3>1, SentFirst
  <2>3. buf[1] = cut.label
    BY <1>3
  <2> QED
    BY <2>1, <2>2, <2>3
<1>7. PICK v \in Nat : h = Period * v
  BY <1>6, MultipleIs
<1>8. (h + n) % Period \notin 1 .. Marks - 1
  <2>1. ((h % Period) + n) % Period = (h + n) % Period
    BY <1>3, ModPlus, h \in Int, n \in Int
  <2> QED
    BY <1>3, <1>6, <2>1
<1>9. NextIs(h + n + Len(buf))'
  <2>1. NextIs(h + Len(buf)) /\ h + Len(buf) \in Nat
    BY <1>1, <1>3 DEF Holds
  <2>2. pos' = (h + Len(buf) + n) % Period /\ seq' = ((h + Len(buf) + n) \div Period) % SeqMod
    BY <1>2, <1>3, <2>1, Further
  <2>3. h + Len(buf) + n = h + n + Len(buf) /\ Len(buf') = Len(buf)
    BY <1>3
  <2> QED
    BY <2>2, <2>3 DEF NextIs
<1>10. \A i \in 1 .. Len(buf) : buf[i].after # losses + 1
  BY <1>3, <1>5, SentFields, \A i \in 1 .. Len(buf) : h + i - 1 \in Nat
<1>11. LossesShort => Ahead(h + n, v)
  <2> SUFFICES ASSUME LossesShort PROVE Ahead(h + n, v)
    OBVIOUS
  <2>1. PICK x \in Nat : n <= Period * x /\ Period * x < n + Period
    BY <1>3, RoundUp
  <2>2. x <= HalfRange - 1
    <3>1. n <= Period * (HalfRange - 1) /\ HalfRange \in Int
      BY Sizes DEF LossesShort
    <3>2. Period * HalfRange = Period * (HalfRange - 1) + Period
      BY <1>3, <3>1
    <3>3. Period * x < Period * HalfRange
      <4>1. Period * x \in Int /\ Period * HalfRange \in Int /\ Period * (HalfRange - 1) \in Int
        BY <1>3, <3>1
      <4> QED
        BY <1>3, <2>1, <3>1, <3>2, <4>1
    <3>4. x < HalfRange
      BY <1>3, <3>1, <3>3, TimesLess
    <3> QED
      BY <3>1, <3>4
  <2>3. Period * (v + x) = h + Period * x
    BY <1>3, <1>7
  <2>4. h + n <= Period * (v + x) /\ Period * (v + x) < h + n + Period
    BY <1>3, <2>1, <2>3, Period * x \in Int
  <2>5. v <= v + x /\ v + x + 1 <= v + HalfRange /\ v + x \in Nat
    BY <2>2, Sizes
  <2> QED
    BY <2>4, <2>5 DEF Ahead
<1>12. Holds(h + n, Len(buf), v)'
  <2>1. Len(buf) > Period => \A i \in 1 .. Len(buf) : buf[i] = Sent(Period * v + (i - 1), losses)
    <3>1. \A i \in 1 .. Len(buf) : h + i - 1 = Period * v + (i - 1)
      BY <1>3, <1>7
    <3> QED
      BY <1>5, <3>1
  <2>2. losses + 1 - 1 = losses
    BY <1>3
  <2>3. cut.label = Sent(Period * v, losses)
    BY <1>3, <1>4, <1>5, <1>7, h + 1 - 1 = h
  <2> QED
    BY <1>3, <1>8, <1>9, <1>10, <1>11, <2>1, <2>2, <2>3 DEF Holds, Ahead, LossesShort
<1>13. h + n \in Nat /\ WholeSweep' /\ buf' \in Seq(Samples) /\ losses' \in Nat
  BY <1>3 DEF ScanInv, WholeSweep
<1>14. \E g, j, l \in Nat : Holds(g, j, l)'
  BY <1>3, <1>12, <1>13
<1> QED
  BY <1>13, <1>14 DEF ScanInv

(* What is behind the frame when there is enough in the history.  If more
   than a frame and a sample is from before the loss, it is the marker that
   follows the number. *)
LEMMA BehindIs ==
  ASSUME ScanMeetsFirstMarker, NEW h \in Nat, NEW k \in Nat, NEW m \in Nat,
         Holds(h, k, m), buf \in Seq(Samples), losses \in Nat, Enough
  PROVE  /\ k > Period + 1 => IsMarker(Behind)
         /\ k <= Period + 1 => (IsMarker(Behind) <=> (h + 1) % Period \in 1 .. Marks)
<1>0. /\ Len(buf) \in Nat /\ Len(buf) >= Period + 2 /\ Period \in Nat \ {0}
      /\ Period > 1 /\ Marks >= 1 /\ k <= Len(buf) /\ Marks \in Nat
  BY Sizes, LenProperties DEF Enough, ScanMeetsFirstMarker, Holds
<1>1. ASSUME NEW g \in Nat PROVE (g + (Period + 1)) % Period = (g + 1) % Period
  <2>1. g + (Period + 1) = g + 1 + Period * 1
    BY <1>0
  <2>2. (g + 1 + Period * 1) % Period = (g + 1) % Period
    BY <1>0, ModTurn, g + 1 \in Int, 1 \in Int
  <2> QED
    BY <2>1, <2>2
<1>2. ASSUME k > Period + 1 PROVE IsMarker(Behind)
  <2> DEFINE g == Period * m
  <2>1. g \in Nat /\ g % Period = 0
    BY SentFirst
  <2>2. Behind = Sent(g + (Period + 2 - 1), losses - 1)
    BY <1>0, <1>2 DEF Holds, Behind
  <2> HIDE DEF g
  <2>3. g + (Period + 2 - 1) = g + (Period + 1)
    BY <1>0, <2>1
  <2>4. (g + 1) % Period = 1
    <3>1. ((g % Period) + 1) % Period = (g + 1) % Period
      BY <1>0, <2>1, ModPlus, 1 \in Int, g \in Int
    <3>2. 1 % Period = 1
      BY <1>0, ModOfSmall, 1 \in 0 .. Period - 1
    <3> QED
      BY <2>1, <3>1, <3>2
  <2>5. (g + (Period + 1)) % Period \in 1 .. Marks
    <3>1. (g + (Period + 1)) % Period = (g + 1) % Period
      BY <1>1, <2>1
    <3> QED
      BY <1>0, <2>4, <3>1
  <2> QED
    BY <1>0, <2>1, <2>2, <2>3, <2>5, SentFields, g + (Period + 1) \in Nat
<1>3. ASSUME k <= Period + 1 PROVE IsMarker(Behind) <=> (h + 1) % Period \in 1 .. Marks
  <2>1. Behind = Sent(h + (Period + 2) - 1, losses)
    BY <1>0, <1>3 DEF Holds, Behind
  <2>2. h + (Period + 2) - 1 = h + (Period + 1) /\ h + (Period + 1) \in Nat
    BY <1>0
  <2>3. IsMarker(Behind) <=> (h + (Period + 1)) % Period \in 1 .. Marks
    BY <2>1, <2>2, SentFields
  <2> QED
    BY <1>1, <2>3
<1> QED
  BY <1>2, <1>3

LEMMA NextPlace ==
  ASSUME ScanMeetsFirstMarker, NEW h \in Nat
  PROVE  /\ h % Period = 0 => (h + 1) % Period \in 1 .. Marks
         /\ h % Period \notin 1 .. Marks - 1 /\ (h + 1) % Period \in 1 .. Marks
              => h % Period = 0
<1>1. Period \in Nat \ {0} /\ Period > Marks + 1 /\ Marks >= 1 /\ Marks \in Nat
  BY Sizes DEF ScanMeetsFirstMarker
<1>2. h % Period \in 0 .. Period - 1 /\ ((h % Period) + 1) % Period = (h + 1) % Period
  BY <1>1, DivMod, ModPlus, 1 \in Int, h \in Int
<1>3. CASE h % Period = Period - 1
  <2>1. (h % Period) + 1 = Period * 1 + 0
    BY <1>1, <1>3
  <2>2. ((h % Period) + 1) % Period = 0
    BY <1>1, <2>1, ModIs, 0 \in 0 .. Period - 1
  <2> QED
    BY <1>1, <1>2, <1>3, <2>2
<1>4. CASE h % Period # Period - 1
  <2>1. ((h % Period) + 1) % Period = (h % Period) + 1
    BY <1>1, <1>2, <1>4, ModOfSmall, (h % Period) + 1 \in 0 .. Period - 1
  <2> QED
    BY <1>1, <1>2, <2>1
<1> QED
  BY <1>3, <1>4

LEMMA ScanInvPop ==
  ASSUME ScanMeetsFirstMarker, ScanInv, PopFront
  PROVE  ScanInv'
<1>1. PICK h, k, m \in Nat : Holds(h, k, m)
  BY DEF ScanInv
<1>2. /\ Enough /\ ~IsMarker(Behind) /\ buf' = Tail(buf)
      /\ UNCHANGED <<pos, seq, losses, cut>>
      /\ buf \in Seq(Samples) /\ Len(buf) \in Nat /\ losses \in Nat
  BY LenProperties DEF PopFront, vars, ScanInv
<1>3. k <= Period + 1 /\ (h + 1) % Period \notin 1 .. Marks
  <2>1. k <= Period + 1
    BY <1>1, <1>2, BehindIs, Sizes
  <2> QED
    BY <1>1, <1>2, <2>1, BehindIs
<1>4. h % Period # 0
  BY <1>3, NextPlace
<1>5. /\ buf # <<>> /\ buf' \in Seq(Samples) /\ Len(buf') = Len(buf) - 1
      /\ \A i \in 1 .. Len(buf') : buf'[i] = buf[i + 1]
  <2>1. Len(buf) > 0
    BY <1>2, Sizes DEF Enough
  <2>2. buf # <<>>
    BY <2>1, EmptySeq
  <2> QED
    BY <1>2, <2>2, HeadTailProperties
<1> DEFINE j == IF k = 0 THEN 0 ELSE k - 1
<1>6. j \in Nat /\ j <= Period /\ j <= Len(buf') /\ k <= j + 1
  BY <1>1, <1>2, <1>3, <1>5, Sizes DEF Holds, Enough
<1>7. \A i \in j + 1 .. Len(buf') : buf'[i] = Sent(h + 1 + i - 1, losses)
  <2> SUFFICES ASSUME NEW i \in j + 1 .. Len(buf') PROVE buf'[i] = Sent(h + 1 + i - 1, losses)
    OBVIOUS
  <2>1. i + 1 \in k + 1 .. Len(buf) /\ i \in 1 .. Len(buf')
    BY <1>2, <1>5, <1>6
  <2>2. buf[i + 1] = Sent(h + (i + 1) - 1, losses)
    BY <1>1, <2>1 DEF Holds
  <2>3. h + (i + 1) - 1 = h + 1 + i - 1
    BY <1>6
  <2> QED
    BY <1>5, <2>1, <2>2, <2>3
<1>8. \A i \in 1 .. j : buf'[i].after # losses
  <2> SUFFICES ASSUME NEW i \in 1 .. j PROVE buf'[i].after # losses
    OBVIOUS
  <2>1. i + 1 \in 1 .. k /\ i \in 1 .. Len(buf')
    BY <1>2, <1>5, <1>6
  <2> QED
    BY <1>1, <1>5, <2>1 DEF Holds
<1>9. NextIs(h + 1 + Len(buf))'
  <2>1. h + 1 + Len(buf') = h + Len(buf)
    BY <1>2, <1>5
  <2>2. NextIs(h + Len(buf))
    BY <1>1 DEF Holds
  <2> DEFINE g == h + Len(buf)
  <2>3. NextIs(g) /\ h + 1 + Len(buf') = g
    BY <2>1, <2>2
  <2> HIDE DEF g
  <2>4. pos' = g % Period /\ seq' = (g \div Period) % SeqMod
    BY <1>2, <2>3 DEF NextIs
  <2> QED
    BY <2>3, <2>4 DEF NextIs
<1>10. cut # NoCut /\ LossesShort => Ahead(h + 1, m)
  <2> SUFFICES ASSUME cut # NoCut, LossesShort PROVE Ahead(h + 1, m)
    OBVIOUS
  <2>1. PICK v \in Nat : /\ m <= v /\ v + 1 <= m + HalfRange
                         /\ h <= Period * v /\ Period * v < h + Period
    BY <1>1 DEF Holds, Ahead
  <2>2. h # Period * v
    BY <1>4, SentFirst
  <2>3. h + 1 <= Period * v /\ Period * v < h + 1 + Period
    <3>1. Period * v \in Nat /\ Period \in Nat
      BY Sizes
    <3> QED
      BY <2>1, <2>2, <3>1
  <2> QED
    BY <2>1, <2>3 DEF Ahead
<1>11. Holds(h + 1, j, m)'
  <2>1. (h + 1) % Period \notin 1 .. Marks - 1 /\ ~(j > Period)
    BY <1>3, <1>6, Sizes
  <2>2. cut = NoCut => j = 0
    BY <1>1 DEF Holds
  <2>3. cut # NoCut => \E c \in Nat : cut.label = Sent(Period * m, c)
    BY <1>1 DEF Holds
  <2> HIDE DEF j
  <2> QED
    <3>1. cut' = cut /\ losses' = losses
      BY <1>2
    <3> QED
      BY <3>1, <1>6, <1>7, <1>8, <1>9, <1>10, <2>1, <2>2, <2>3 DEF Holds, Ahead
<1>12. WholeSweep'
  BY <1>2 DEF ScanInv, WholeSweep
<1>13. \E g, i, l \in Nat : Holds(g, i, l)'
  BY <1>6, <1>11, h + 1 \in Nat
<1> QED
  BY <1>2, <1>5, <1>12, <1>13 DEF ScanInv

(* The words of the m-th frame are of the sweep before the next number. *)
LEMMA FrameIsSweep ==
  ASSUME NEW m \in Nat, NEW c, NEW d, NEW i \in 1 .. Period
  PROVE  /\ Sent(Period * m + (i - 1), c).at = i - 1
         /\ (Sent(Period * m + (i - 1), c).sweep + 1) % SeqMod
              = Sent(Period * (m + 1), d).sweep
<1>1. Period \in Nat \ {0} /\ SeqMod \in Nat \ {0} /\ m + 1 \in Nat
      /\ i - 1 \in 0 .. Period - 1
  BY Sizes
<1>2. Sent(Period * (m + 1), d).sweep = (m + 1) % SeqMod
  BY <1>1, SentFirst
<1>3. ((m % SeqMod) + 1) % SeqMod = (m + 1) % SeqMod
  BY <1>1, ModPlus, m \in Int, 1 \in Int
<1>4. /\ Sent(Period * m + (i - 1), c).at = i - 1
      /\ Sent(Period * m + (i - 1), c).sweep = m % SeqMod
  BY <1>1, SentInFrame
<1> QED
  BY <1>2, <1>3, <1>4

(* What a cut does.  The frame is of the words behind the loss, whose label  *)
(* is the number of the next frame there, or of those before it, labelled    *)
(* with the number that follows the m-th.                                    *)
LEMMA CutFrame ==
  ASSUME ScanMeetsFirstMarker, ScanInv, Cut
  PROVE  /\ WholeSweep' /\ cut' # NoCut
         /\ \E h, k, m \in Nat :
              /\ Holds(h, k, m)'
              /\ cut # NoCut /\ LossesShort =>
                   \E l \in Nat : /\ \E c \in Nat : cut.label = Sent(Period * l, c)
                                  /\ m - l \in 1 .. HalfRange
<1>1. PICK h, k, m \in Nat : Holds(h, k, m)
  BY DEF ScanInv
<1>2. /\ Enough /\ IsMarker(Behind) /\ buf' = SubSeq(buf, Period + 1, Len(buf))
      /\ cut' = [label |-> Label, frame |-> SubSeq(buf, 1, Period)]
      /\ UNCHANGED <<pos, seq, losses>>
      /\ buf \in Seq(Samples) /\ Len(buf) \in Nat /\ losses \in Nat
  BY LenProperties DEF Cut, vars, ScanInv
<1>3. /\ Period \in Nat \ {0} /\ Len(buf) >= Period + 2 /\ HalfRange \in Nat
      /\ k <= Len(buf)
  BY <1>1, <1>2, Sizes DEF Enough, Holds
<1>4. /\ buf' \in Seq(Samples) /\ Len(buf') = Len(buf) - Period
      /\ \A i \in 1 .. Len(buf') : buf'[i] = buf[Period + i]
  <2>1. \A i \in Period + 1 .. Len(buf) : buf[i] \in Samples
    BY <1>2, <1>3, ElementOfSeq
  <2>2. /\ buf' \in Seq(Samples)
        /\ Len(buf') = Len(buf) - (Period + 1) + 1
        /\ \A i \in 1 .. Len(buf) - (Period + 1) + 1 : buf'[i] = buf[Period + 1 + i - 1]
    BY <1>2, <1>3, <2>1, SubSeqProperties, Period + 1 \in Int, Len(buf) \in Int
  <2>3. Len(buf) - (Period + 1) + 1 = Len(buf) - Period
    BY <1>2, <1>3
  <2>4. \A i \in 1 .. Len(buf) - Period : buf'[i] = buf[Period + 1 + i - 1]
    BY <2>2, <2>3
  <2>5. \A i \in 1 .. Len(buf) - Period : Period + 1 + i - 1 = Period + i
    BY <1>3
  <2> QED
    BY <2>2, <2>3, <2>4, <2>5
<1>5. /\ cut'.label = buf[Period + 1] /\ cut' # NoCut
      /\ \A i \in 1 .. Period : cut'.frame[i] = buf[i]
  <2>1. \A i \in 1 .. Period : buf[i] \in Samples
    BY <1>2, <1>3, ElementOfSeq
  <2>2. \A i \in 1 .. Period - 1 + 1 : SubSeq(buf, 1, Period)[i] = buf[1 + i - 1]
    BY <1>3, <2>1, SubSeqProperties, 1 \in Int, Period \in Int
  <2>3. \A i \in 1 .. Period : SubSeq(buf, 1, Period)[i] = buf[i]
    BY <1>3, <2>2
  <2>4. "label" \in DOMAIN cut' /\ "label" \notin DOMAIN NoCut
    BY <1>2 DEF NoCut
  <2> QED
    BY <1>2, <2>3, <2>4 DEF Label
<1>6. NextIs(h + Period + Len(buf))'
  <2> DEFINE g == h + Len(buf)
  <2>0. NextIs(g)
    BY <1>1 DEF Holds
  <2>1. NextIs(g) /\ h + Period + Len(buf') = g
    <3>1. Len(buf') = Len(buf) - Period /\ Len(buf) \in Int /\ Period \in Int
      BY <1>2, <1>3, <1>4
    <3> QED
      BY <2>0, <3>1
  <2> HIDE DEF g
  <2>2. pos' = g % Period /\ seq' = (g \div Period) % SeqMod
    BY <1>2, <2>1 DEF NextIs
  <2> QED
    BY <2>1, <2>2 DEF NextIs
<1>7. (h + Period) % Period = h % Period
  <2>1. (h + Period * 1) % Period = h % Period
    BY <1>3, ModTurn, 1 \in Int, h \in Int
  <2> QED
    BY <1>3, <2>1, Period * 1 = Period
<1>8. CASE k <= Period
  <2>1. h % Period = 0
    <3>1. (h + 1) % Period \in 1 .. Marks
      BY <1>1, <1>2, <1>3, <1>8, BehindIs
    <3> QED
      BY <1>1, <3>1, NextPlace DEF Holds
  <2>2. PICK v \in Nat : h = Period * v
    BY <2>1, MultipleIs
  <2>3. Period * (v + 1) = h + Period /\ v + 1 \in Nat
    BY <1>3, <2>2
  <2>4. cut'.label = Sent(Period * (v + 1), losses)
    <3>0. Period + 1 \in k + 1 .. Len(buf)
      BY <1>2, <1>3, <1>8
    <3>1. buf[Period + 1] = Sent(h + (Period + 1) - 1, losses)
      BY <1>1, <3>0 DEF Holds
    <3>2. h + (Period + 1) - 1 = Period * (v + 1)
      BY <1>3, <2>3
    <3> QED
      BY <1>5, <3>1, <3>2
  <2>5. \A i \in 1 .. Len(buf') : buf'[i] = Sent(h + Period + i - 1, losses)
    <3> SUFFICES ASSUME NEW i \in 1 .. Len(buf')
                 PROVE  buf'[i] = Sent(h + Period + i - 1, losses)
      OBVIOUS
    <3>1. Period + i \in k + 1 .. Len(buf)
      BY <1>3, <1>4, <1>8
    <3>2. buf[Period + i] = Sent(h + (Period + i) - 1, losses)
      BY <1>1, <3>1 DEF Holds
    <3>3. h + (Period + i) - 1 = h + Period + i - 1
      BY <1>3
    <3> QED
      BY <1>4, <3>2, <3>3
  <2>6. WholeSweep'
    <3> SUFFICES ASSUME cut'.frame[1].after = cut'.label.after
                 PROVE  \A i \in 1 .. Period :
                          /\ cut'.frame[i].at = i - 1
                          /\ (cut'.frame[i].sweep + 1) % SeqMod = cut'.label.sweep
      BY DEF WholeSweep
    <3>1. cut'.label.after = losses
      BY <2>4 DEF Sent
    <3>2. cut'.frame[1] = buf[1]
      BY <1>3, <1>5
    <3>3. ~(k >= 1)
      BY <1>1, <3>1, <3>2 DEF Holds
    <3>4. \A i \in 1 .. Period : cut'.frame[i] = Sent(Period * v + (i - 1), losses)
      <4>1. \A i \in 1 .. Period : buf[i] = Sent(h + i - 1, losses)
        <5>1. \A i \in 1 .. Period : i \in k + 1 .. Len(buf)
          BY <1>2, <1>3, <3>3
        <5> QED
          BY <1>1, <5>1 DEF Holds
      <4>2. \A i \in 1 .. Period : h + i - 1 = Period * v + (i - 1)
        BY <1>3, <2>2
      <4> QED
        BY <1>5, <4>1, <4>2
    <3> SUFFICES ASSUME NEW i \in 1 .. Period
                 PROVE  /\ cut'.frame[i].at = i - 1
                        /\ (cut'.frame[i].sweep + 1) % SeqMod = cut'.label.sweep
      OBVIOUS
    <3>5. /\ cut'.frame[i] = Sent(Period * v + (i - 1), losses)
          /\ cut'.label = Sent(Period * (v + 1), losses)
      BY <2>4, <3>4
    <3> QED
      BY <3>5, FrameIsSweep
  <2>7. LossesShort => Ahead(h + Period, v + 1)
    <3> SUFFICES ASSUME LossesShort PROVE Ahead(h + Period, v + 1)
      OBVIOUS
    <3>1. HalfRange >= 1
      BY Sizes DEF LossesShort, HalfRange
    <3>2. /\ v + 1 <= v + 1 /\ v + 1 + 1 <= v + 1 + HalfRange
          /\ h + Period <= h + Period /\ h + Period < h + Period + Period
      BY <1>3, <3>1
    <3> QED
      BY <2>3, <3>2 DEF Ahead
  <2>8. Holds(h + Period, 0, v + 1)'
    <3>1. /\ 0 <= Len(buf') /\ ~(0 > Period)
          /\ (h + Period) % Period \notin 1 .. Marks - 1
      BY <1>1, <1>3, <1>4, <1>7 DEF Holds
    <3>2. losses' = losses /\ losses \in Nat
      BY <1>2
    <3> QED
      BY <1>6, <2>4, <2>5, <2>7, <3>1, <3>2 DEF Holds, Ahead
  <2>9. ASSUME cut # NoCut, LossesShort
        PROVE  (\E c \in Nat : cut.label = Sent(Period * m, c)) /\ v + 1 - m \in 1 .. HalfRange
    <3>1. PICK w \in Nat : /\ m <= w /\ w + 1 <= m + HalfRange
                           /\ h <= Period * w /\ Period * w < h + Period
      BY <1>1, <2>9 DEF Holds, Ahead
    <3>2. w < v + 1
      <4>1. Period * w < Period * (v + 1)
        BY <2>3, <3>1
      <4> QED
        BY <1>3, <4>1, TimesLess, w \in Int, v + 1 \in Int
    <3>3. w + 1 > v
      <4>1. Period * (w + 1) = Period * w + Period /\ Period * w \in Nat
        BY <1>3
      <4>2. Period * v < Period * (w + 1)
        BY <1>3, <2>2, <3>1, <4>1
      <4> QED
        BY <1>3, <4>2, TimesLess, w + 1 \in Int, v \in Int
    <3>4. w = v
      BY <3>2, <3>3
    <3> QED
      BY <1>1, <1>3, <2>9, <3>1, <3>4 DEF Holds
  <2> QED
    <3>1. h + Period \in Nat /\ 0 \in Nat
      BY <1>3
    <3> QED
      BY <1>5, <2>3, <2>6, <2>8, <2>9, <3>1
<1>9. CASE k > Period
  <2>1. /\ \A i \in 1 .. k : buf[i] = Sent(Period * m + (i - 1), losses - 1)
        /\ cut # NoCut
    BY <1>1, <1>3, <1>9 DEF Holds
  <2>2. /\ Period * (m + 1) = Period * m + Period /\ m + 1 \in Nat
        /\ Period * m \in Nat
    BY <1>3
  <2>3. cut'.label = Sent(Period * (m + 1), losses - 1)
    <3>1. buf[Period + 1] = Sent(Period * m + (Period + 1 - 1), losses - 1)
      BY <1>3, <1>9, <2>1
    <3>2. Period * m + (Period + 1 - 1) = Period * (m + 1)
      BY <1>3, <2>2
    <3> QED
      BY <1>5, <3>1, <3>2
  <2>4. WholeSweep'
    <3>0. \A i \in 1 .. Period : i \in 1 .. k
      BY <1>3, <1>9
    <3>1. \A i \in 1 .. Period : cut'.frame[i] = Sent(Period * m + (i - 1), losses - 1)
      BY <1>5, <2>1, <3>0
    <3> SUFFICES ASSUME NEW i \in 1 .. Period
                 PROVE  /\ cut'.frame[i].at = i - 1
                        /\ (cut'.frame[i].sweep + 1) % SeqMod = cut'.label.sweep
      BY DEF WholeSweep
    <3>2. /\ cut'.frame[i] = Sent(Period * m + (i - 1), losses - 1)
          /\ cut'.label = Sent(Period * (m + 1), losses - 1)
      BY <2>3, <3>1
    <3> QED
      BY <3>2, FrameIsSweep
  <2> DEFINE j == k - Period
  <2>5. j \in Nat /\ j <= Len(buf') /\ j # 0 /\ \A i \in 1 .. j : Period + i \in 1 .. k
    BY <1>3, <1>4, <1>9
  <2>6. \A i \in j + 1 .. Len(buf') : buf'[i] = Sent(h + Period + i - 1, losses)
    <3> SUFFICES ASSUME NEW i \in j + 1 .. Len(buf')
                 PROVE  buf'[i] = Sent(h + Period + i - 1, losses)
      OBVIOUS
    <3>1. Period + i \in k + 1 .. Len(buf) /\ i \in 1 .. Len(buf')
      BY <1>3, <1>4, <2>5
    <3>2. buf[Period + i] = Sent(h + (Period + i) - 1, losses)
      BY <1>1, <3>1 DEF Holds
    <3>3. h + (Period + i) - 1 = h + Period + i - 1
      BY <1>3, <2>5
    <3> QED
      BY <1>4, <3>1, <3>2, <3>3
  <2>7. \A i \in 1 .. j : /\ buf'[i].after # losses
                          /\ buf'[i] = Sent(Period * (m + 1) + (i - 1), losses - 1)
    <3> SUFFICES ASSUME NEW i \in 1 .. j
                 PROVE  /\ buf'[i].after # losses
                        /\ buf'[i] = Sent(Period * (m + 1) + (i - 1), losses - 1)
      OBVIOUS
    <3>1. Period + i \in 1 .. k /\ i \in 1 .. Len(buf')
      BY <1>3, <1>4, <2>5
    <3>2. buf[Period + i] = Sent(Period * m + (Period + i - 1), losses - 1)
      <4> DEFINE n == Period + i
      <4>1. n \in 1 .. k /\ n - 1 = Period + i - 1
        BY <1>3, <2>5, <3>1
      <4> HIDE DEF n
      <4>2. buf[n] = Sent(Period * m + (n - 1), losses - 1)
        BY <2>1, <4>1
      <4> QED
        BY <4>1, <4>2 DEF n
    <3>4. buf[Period + i].after # losses
      BY <1>1, <3>1 DEF Holds
    <3>3. Period * m + (Period + i - 1) = Period * (m + 1) + (i - 1)
      BY <1>3, <2>2, <2>5
    <3> QED
      BY <1>4, <3>1, <3>2, <3>3, <3>4
  <2>8. LossesShort => Ahead(h + Period, m + 1)
    <3> SUFFICES ASSUME LossesShort PROVE Ahead(h + Period, m + 1)
      OBVIOUS
    <3>1. PICK w \in Nat : /\ m <= w /\ w + 1 <= m + HalfRange
                           /\ h <= Period * w /\ Period * w < h + Period
      BY <1>1, <2>1 DEF Holds, Ahead
    <3>2. Period * (w + 1) = Period * w + Period /\ Period * w \in Nat
      BY <1>3
    <3>3. /\ m + 1 <= w + 1 /\ w + 1 + 1 <= m + 1 + HalfRange
          /\ h + Period <= Period * (w + 1) /\ Period * (w + 1) < h + Period + Period
      BY <1>3, <3>1, <3>2
    <3> QED
      BY <3>3, w + 1 \in Nat DEF Ahead
  <2> HIDE DEF j
  <2>9. Holds(h + Period, j, m + 1)'
    <3>1. (h + Period) % Period \notin 1 .. Marks - 1
      BY <1>1, <1>7 DEF Holds
    <3>2. losses' = losses /\ losses - 1 \in Nat
      <4>1. PICK g \in Nat, c \in Nat : buf[1] = Sent(g, c)
        <5>1. buf[1] \in Samples
          BY <1>2, <1>3, ElementOfSeq
        <5> QED
          BY <5>1 DEF Samples
      <4>2. buf[1] = Sent(Period * m + 0, losses - 1) /\ Period * m + 0 = Period * m
        BY <1>3, <1>9, <2>1, <2>2
      <4>3. buf[1].after = c /\ buf[1].after = losses - 1
        BY <4>1, <4>2 DEF Sent
      <4> QED
        BY <1>2, <4>3
    <3> QED
      BY <1>5, <1>6, <2>3, <2>5, <2>6, <2>7, <2>8, <3>1, <3>2 DEF Holds, Ahead
  <2>10. m + 1 - m \in 1 .. HalfRange \/ ~LossesShort
    BY Sizes DEF LossesShort, HalfRange
  <2>11. \E c \in Nat : cut.label = Sent(Period * m, c)
    BY <1>1, <2>1 DEF Holds
  <2> QED
    <3>1. h + Period \in Nat
      BY <1>3
    <3> QED
      BY <1>5, <2>2, <2>4, <2>5, <2>9, <2>10, <2>11, <3>1
<1> QED
  BY <1>3, <1>8, <1>9

-----------------------------------------------------------------------------
(* The properties *)

LEMMA ScanInvStep ==
  ASSUME ScanMeetsFirstMarker, ScanInv, [ScanNext]_scanVars
  PROVE  ScanInv'
<1>1. CASE Push
  BY <1>1, ScanInvPush
<1>2. CASE Lose
  BY <1>2, ScanInvLose
<1>3. CASE PopFront
  BY <1>3, ScanInvPop
<1>4. CASE Cut
  <2>1. buf' \in Seq(Samples) /\ losses' \in Nat
    <3>1. /\ buf' = SubSeq(buf, Period + 1, Len(buf)) /\ losses' = losses
          /\ losses \in Nat /\ buf \in Seq(Samples) /\ Len(buf) \in Nat /\ Period \in Nat
      BY <1>4, Sizes, LenProperties DEF Cut, ScanInv
    <3>2. \A i \in Period + 1 .. Len(buf) : buf[i] \in Samples
      BY <3>1, ElementOfSeq
    <3> QED
      BY <3>1, <3>2, SubSeqProperties, Period + 1 \in Int, Len(buf) \in Int
  <2>2. WholeSweep' /\ \E h, k, m \in Nat : Holds(h, k, m)'
    BY <1>4, CutFrame
  <2> QED
    BY <2>1, <2>2 DEF ScanInv
<1>5. CASE UNCHANGED scanVars
  <2>1. UNCHANGED <<pos, seq, buf, losses, cut>>
    BY <1>5 DEF scanVars, vars
  <2>2. PICK h, k, m \in Nat : Holds(h, k, m)
    BY DEF ScanInv
  <2>3. Holds(h, k, m)'
    BY <2>1, <2>2 DEF Holds, NextIs
  <2>4. \E g, j, l \in Nat : Holds(g, j, l)'
    BY <2>3
  <2> QED
    BY <2>1, <2>4 DEF ScanInv, WholeSweep
<1> QED
  BY <1>1, <1>2, <1>3, <1>4, <1>5 DEF ScanNext

LEMMA ScanInvHolds ==
  ASSUME ScanMeetsFirstMarker
  PROVE  ScanSpec => []ScanInv
<1>1. ScanInit => ScanInv
  BY ScanInvInit
<1>2. ScanInv /\ [ScanNext]_scanVars => ScanInv'
  BY ScanInvStep
<1> QED
  BY <1>1, <1>2, PTL DEF ScanSpec

(* The word that general_work reads as a sequence number is one, wherever the *)
(* capture starts and whatever is lost, as long as the scan does not meet a  *)
(* marker that is not the first of its run.                                  *)
THEOREM LabelIsHeaderHolds ==
  ASSUME ScanMeetsFirstMarker
  PROVE  ScanSpec => []LabelIsHeader
<1>1. ScanInv => LabelIsHeader
  <2> SUFFICES ASSUME ScanInv, cut # NoCut PROVE cut.label.at = 0
    BY DEF LabelIsHeader
  <2>1. PICK m \in Nat, c \in Nat : cut.label = Sent(Period * m, c)
    BY DEF ScanInv, Holds
  <2> QED
    BY <2>1, SentFirst
<1> QED
  BY <1>1, ScanInvHolds, PTL

(* A frame within which nothing was lost holds the samples of one sweep, the *)
(* one before the number in its label.                                       *)
THEOREM WholeSweepHolds ==
  ASSUME ScanMeetsFirstMarker
  PROVE  ScanSpec => []WholeSweep
<1>1. ScanInv => WholeSweep
  BY DEF ScanInv
<1> QED
  BY <1>1, ScanInvHolds, PTL

(* The numbers of an anchor's frames increase, when no loss is longer than   *)
(* half the range of the numbers, less one.                                  *)
LEMMA NumbersApart ==
  ASSUME NEW m \in Nat, NEW l \in Nat, m - l \in 1 .. HalfRange, LossesShort
  PROVE  ((m % SeqMod) - (l % SeqMod)) % SeqMod = m - l
<1> DEFINE p == m \div SeqMod
           q == l \div SeqMod
           r == m % SeqMod
           s == l % SeqMod
<1>1. /\ SeqMod \in Nat \ {0} /\ p \in Int /\ q \in Int
      /\ r \in 0 .. SeqMod - 1 /\ s \in 0 .. SeqMod - 1
      /\ m = SeqMod * p + r /\ l = SeqMod * q + s
  BY Sizes, DivMod
<1>2. m - l \in 0 .. SeqMod - 1
  BY <1>1 DEF HalfRange, LossesShort
<1> HIDE DEF p, q, r, s
<1>3. r - s = SeqMod * (q - p) + (m - l)
  <2>1. SeqMod * (q - p) = SeqMod * q - SeqMod * p
    BY <1>1
  <2>2. SeqMod * q \in Int /\ SeqMod * p \in Int
    BY <1>1
  <2> QED
    BY <1>1, <2>1, <2>2
<1>4. (r - s) % SeqMod = m - l
  BY <1>1, <1>2, <1>3, ModIs, q - p \in Int
<1> QED
  BY <1>4 DEF r, s

\* One step of LabelsIncrease.
LabelIncreases ==
  cut # NoCut /\ cut' # cut =>
    (cut'.label.sweep - cut.label.sweep) % SeqMod \in 1 .. SeqMod \div 2

LEMMA LabelStep ==
  ASSUME ScanMeetsFirstMarker, LossesShort, ScanInv, [ScanNext]_scanVars
  PROVE  [LabelIncreases]_scanVars
<1>1. CASE Cut
  <2> SUFFICES ASSUME cut # NoCut
               PROVE  (cut'.label.sweep - cut.label.sweep) % SeqMod \in 1 .. HalfRange
    BY DEF LabelIncreases, HalfRange
  <2>1. PICK h, k, m \in Nat :
          /\ Holds(h, k, m)'
          /\ \E l \in Nat : /\ \E c \in Nat : cut.label = Sent(Period * l, c)
                            /\ m - l \in 1 .. HalfRange
    BY <1>1, CutFrame
  <2>2. PICK l \in Nat, c \in Nat : /\ cut.label = Sent(Period * l, c)
                                    /\ m - l \in 1 .. HalfRange
    BY <2>1
  <2>3. PICK d \in Nat : cut'.label = Sent(Period * m, d)
    BY <1>1, <2>1, CutFrame DEF Holds
  <2>4. cut.label.sweep = l % SeqMod /\ cut'.label.sweep = m % SeqMod
    BY <2>2, <2>3, SentFirst
  <2> QED
    BY <2>2, <2>4, NumbersApart
<1>2. CASE Push \/ Lose \/ PopFront \/ UNCHANGED scanVars
  BY <1>2 DEF Push, Lose, PopFront, scanVars, LabelIncreases
<1> QED
  BY <1>1, <1>2 DEF ScanNext

THEOREM LabelsIncreaseHolds ==
  ASSUME ScanMeetsFirstMarker, LossesShort
  PROVE  ScanSpec => LabelsIncrease
<1>1. ScanInv /\ [ScanNext]_scanVars => [LabelIncreases]_scanVars
  BY LabelStep
<1> QED
  BY <1>1, ScanInvHolds, PTL DEF ScanSpec, LabelsIncrease, LabelIncreases
=============================================================================
