------------------------- MODULE AnchorStreamProofs -------------------------
(***************************************************************************)
(* Proofs about AnchorStream: the controller keeps to its schedule, the    *)
(* words of an anchor form the framed stream the host expects, and what    *)
(* the host takes of a step was recorded in that step.                     *)
(***************************************************************************)
EXTENDS AnchorStream, TLAPS

(* The counters of the controller, state by state. *)
Counters ==
  /\ state = "RESET" => record_count = 0
  /\ state = "WAIT" => /\ state_wait_ctr <= WaitTicks + 1 /\ record_count = 0
                       /\ freq_step_count < NumFreqSteps
  /\ state = "RECORD" => /\ state_wait_ctr = 0 /\ record_count <= RecordTicks
                         /\ freq_step_count < NumFreqSteps
  /\ state = "NEXT" => /\ state_wait_ctr <= NextEnd
                       /\ state_wait_ctr > 0 => record_count = 0
                       /\ freq_step_count > 0

(* A sequence has just ended, or the reset has begun. *)
ResetAge == rx_reset => age \in {0, NumFreqSteps * StepTicks}

FsInv == FsTypeOK /\ Counters /\ OnSchedule /\ ResetAge

-----------------------------------------------------------------------------
(* Arithmetic *)

LEMMA MulMono ==
  ASSUME NEW a \in Nat, NEW b \in Nat, NEW d \in Nat, a <= b
  PROVE  a * d <= b * d
<1>1. PICK c \in Nat : b = a + c
  BY b - a \in Nat
<1>2. b * d = a * d + c * d
  BY <1>1
<1>3. c * d \in Nat /\ a * d \in Nat
  OBVIOUS
<1> QED
  BY <1>2, <1>3

LEMMA NextMultiple ==
  ASSUME NEW a \in Nat, NEW d \in Nat
  PROVE  (a + 1) * d = a * d + d /\ a * d \in Nat
OBVIOUS

(* Quotient and rest are determined by the number. *)
LEMMA DivUnique ==
  ASSUME NEW d \in Nat, NEW p \in Nat, NEW q \in Nat,
         NEW r \in Nat, NEW s \in Nat, r < d, s < d, p * d + r = q * d + s
  PROVE  p = q /\ r = s
<1>1. ~(p < q)
  <2> SUFFICES ASSUME p < q PROVE FALSE
    OBVIOUS
  <2>1. (p + 1) * d <= q * d
    BY MulMono
  <2> QED
    BY <2>1, NextMultiple
<1>2. ~(q < p)
  <2> SUFFICES ASSUME q < p PROVE FALSE
    OBVIOUS
  <2>1. (q + 1) * d <= p * d
    BY MulMono
  <2> QED
    BY <2>1, NextMultiple
<1>3. p = q
  BY <1>1, <1>2
<1> QED
  BY <1>3, NextMultiple

LEMMA Parameters ==
  /\ NumFreqSteps \in Nat \ {0} /\ RecordTicks \in Nat \ {0}
  /\ FirstReset \in Nat /\ NextReset \in Nat
  /\ WaitTicks \in Nat /\ NextEnd \in Nat \ {0}
  /\ WaitLen \in Nat \ {0} /\ RecordLen \in Nat \ {0} /\ NextLen \in Nat \ {0}
  /\ StepTicks \in Nat \ {0} /\ StepTicks = WaitLen + RecordLen + NextLen
BY ControllerAssumption DEF WaitLen, RecordLen, NextLen, StepTicks

-----------------------------------------------------------------------------
(* The controller *)

LEMMA InitFsInv == FsInit => FsInv
<1> SUFFICES ASSUME FsInit PROVE FsInv
  OBVIOUS
<1>1. FsTypeOK
  <2>1. freq_step_out \in BOOLEAN /\ first_time \in BOOLEAN
    BY DEF FsInit
  <2>2. 0 \in 0 .. NumFreqSteps /\ 0 \in 0 .. RecordTicks + 1 /\ 0 \in Nat
    BY Parameters
  <2> QED
    BY <2>1, <2>2, Zenon DEF FsInit, FsTypeOK
<1>2. Counters /\ OnSchedule /\ ResetAge
  BY DEF FsInit, Counters, OnSchedule, ResetAge, rx_reset
<1> QED
  BY <1>1, <1>2 DEF FsInv

LEMMA FsResetInv == FsReset => FsInv'
<1> SUFFICES ASSUME FsReset PROVE FsInv'
  OBVIOUS
<1>1. FsTypeOK'
  <2>1. freq_step_out' \in BOOLEAN /\ first_time' \in BOOLEAN
    BY DEF FsReset
  <2>2. 0 \in 0 .. NumFreqSteps /\ 0 \in 0 .. RecordTicks + 1 /\ 0 \in Nat
    BY Parameters
  <2> QED
    BY <2>1, <2>2, Zenon DEF FsReset, FsTypeOK
<1>2. Counters' /\ OnSchedule' /\ ResetAge'
  BY DEF FsReset, Counters, OnSchedule, ResetAge, rx_reset
<1> QED
  BY <1>1, <1>2 DEF FsInv

LEMMA FsTickTypes == FsInv /\ FsTick => FsTypeOK' /\ Counters'
<1> SUFFICES ASSUME FsInv, FsTick PROVE FsTypeOK' /\ Counters'
  OBVIOUS
<1> USE Parameters
<1>1. FsTypeOK /\ Counters
  BY DEF FsInv
<1>2. (next_freq_step \in BOOLEAN) /\ ((first_time /\ ~rx_record) \in BOOLEAN)
  BY DEF next_freq_step
<1>3. ASSUME NEW s, GoTo(s)
      PROVE  /\ freq_step_out' \in BOOLEAN /\ first_time' \in BOOLEAN
             /\ age' \in Nat /\ state_wait_ctr' \in Nat
  BY <1>1, <1>2, <1>3 DEF GoTo, FsTypeOK
<1>4. /\ freq_step_out' \in BOOLEAN /\ first_time' \in BOOLEAN
      /\ age' \in Nat /\ state_wait_ctr' \in Nat
  BY <1>3 DEF FsTick, TickReset, TickWait, TickRecord, TickNext
<1>5. CASE TickReset
  BY <1>1, <1>4, <1>5 DEF TickReset, GoTo, FsTypeOK, Counters, rx_record
<1>6. CASE TickWait
  BY <1>1, <1>4, <1>6 DEF TickWait, GoTo, FsTypeOK, Counters, rx_record
<1>7. CASE TickRecord
  BY <1>1, <1>4, <1>7 DEF TickRecord, GoTo, FsTypeOK, Counters, rx_record
<1>8. CASE TickNext
  BY <1>1, <1>4, <1>8 DEF TickNext, GoTo, FsTypeOK, Counters, rx_record
<1> QED
  BY <1>5, <1>6, <1>7, <1>8 DEF FsTick

LEMMA FsTickSchedule == FsInv /\ FsTick => OnSchedule' /\ ResetAge'
<1> SUFFICES ASSUME FsInv, FsTick PROVE OnSchedule' /\ ResetAge'
  OBVIOUS
<1> USE Parameters
<1>1. FsTypeOK /\ Counters /\ OnSchedule /\ ResetAge
  BY DEF FsInv
<1>2. freq_step_count \in Nat /\ age \in Nat /\ record_count \in Nat
      /\ state_wait_ctr \in Nat
  BY <1>1 DEF FsTypeOK
<1>3. CASE TickReset
  BY <1>2, <1>3 DEF TickReset, GoTo, OnSchedule, ResetAge, StepsDone,
     StepTick, rx_reset
<1>4. CASE TickWait
  <2>1. /\ age = freq_step_count * StepTicks + state_wait_ctr
        /\ age' = age + 1 /\ freq_step_count' = freq_step_count
        /\ state_wait_ctr <= WaitTicks + 1
    BY <1>1, <1>4 DEF TickWait, GoTo, OnSchedule, StepsDone, StepTick,
       rx_reset, Counters
  <2>2. CASE state_wait_ctr > WaitTicks
    <3>1. state' = "RECORD" /\ record_count' = 0 /\ state_wait_ctr + 1 = WaitLen
      BY <1>2, <1>4, <2>1, <2>2 DEF TickWait, GoTo, rx_record, WaitLen
    <3> QED
      BY <1>2, <2>1, <3>1 DEF OnSchedule, ResetAge, StepsDone, StepTick, rx_reset
  <2>3. CASE ~(state_wait_ctr > WaitTicks)
    <3>1. state' = "WAIT" /\ state_wait_ctr' = state_wait_ctr + 1
      BY <1>4, <2>3 DEF TickWait, GoTo, rx_record
    <3> QED
      BY <1>2, <2>1, <3>1 DEF OnSchedule, ResetAge, StepsDone, StepTick, rx_reset
  <2> QED
    BY <2>2, <2>3
<1>5. CASE TickRecord
  <2>1. /\ age = freq_step_count * StepTicks + (WaitLen + record_count)
        /\ age' = age + 1 /\ state_wait_ctr = 0
    BY <1>1, <1>5 DEF TickRecord, GoTo, OnSchedule, StepsDone, StepTick,
       rx_reset, Counters
  <2>2. CASE record_count = RecordTicks
    <3>1. /\ state' = "NEXT" /\ freq_step_count' = freq_step_count + 1
          /\ state_wait_ctr' = 0
      BY <1>5, <2>2 DEF TickRecord, GoTo
    <3>2. StepsDone' = freq_step_count /\ StepTick' = WaitLen + RecordLen
      BY <1>2, <3>1 DEF StepsDone, StepTick, WaitLen, RecordLen
    <3> QED
      BY <1>2, <2>1, <2>2, <3>1, <3>2 DEF OnSchedule, ResetAge, rx_reset, RecordLen
  <2>3. CASE record_count # RecordTicks
    <3>1. /\ state' = "RECORD" /\ freq_step_count' = freq_step_count
          /\ record_count' = record_count + 1
      BY <1>5, <2>3 DEF TickRecord, GoTo, rx_record
    <3> QED
      BY <1>2, <2>1, <3>1 DEF OnSchedule, ResetAge, StepsDone, StepTick, rx_reset
  <2> QED
    BY <2>2, <2>3
<1>6. CASE TickNext
  <2>1. /\ age = (freq_step_count - 1) * StepTicks
                   + (WaitLen + RecordLen + state_wait_ctr)
        /\ age' = age + 1 /\ freq_step_count' = freq_step_count
        /\ freq_step_count - 1 \in Nat
    BY <1>1, <1>2, <1>6 DEF TickNext, GoTo, OnSchedule, StepsDone, StepTick,
       rx_reset, Counters
  <2>2. freq_step_count * StepTicks = (freq_step_count - 1) * StepTicks + StepTicks
    BY <1>2, <2>1, NextMultiple, (freq_step_count - 1) + 1 = freq_step_count
  <2>3. CASE state_wait_ctr = NextEnd
    <3>1. age' = freq_step_count * StepTicks
      BY <1>2, <2>1, <2>2, <2>3, NextMultiple DEF NextLen
    <3>2. CASE freq_step_count = NumFreqSteps
      <4>1. state' = "RESET"
        BY <1>6, <2>3, <3>2 DEF TickNext, GoTo
      <4> QED
        BY <3>1, <3>2, <4>1 DEF OnSchedule, ResetAge, rx_reset
    <3>3. CASE freq_step_count # NumFreqSteps
      <4>1. state' = "WAIT" /\ state_wait_ctr' = 0
        BY <1>6, <2>3, <3>3 DEF TickNext, GoTo
      <4>2. StepsDone' = freq_step_count /\ StepTick' = 0
        BY <2>1, <4>1 DEF StepsDone, StepTick
      <4> QED
        BY <1>2, <3>1, <4>1, <4>2, NextMultiple DEF OnSchedule, ResetAge, rx_reset
    <3> QED
      BY <3>2, <3>3
  <2>4. CASE state_wait_ctr # NextEnd
    <3>1. state' = "NEXT" /\ state_wait_ctr' = state_wait_ctr + 1
      BY <1>6, <2>4 DEF TickNext, GoTo, rx_record
    <3>2. /\ StepsDone' = freq_step_count - 1
          /\ StepTick' = WaitLen + RecordLen + (state_wait_ctr + 1)
      BY <2>1, <3>1 DEF StepsDone, StepTick, WaitLen, RecordLen
    <3>3. (freq_step_count - 1) * StepTicks \in Nat
      BY <2>1, NextMultiple
    <3> QED
      BY <1>2, <2>1, <3>1, <3>2, <3>3 DEF OnSchedule, ResetAge, rx_reset
  <2> QED
    BY <2>3, <2>4
<1> QED
  BY <1>3, <1>4, <1>5, <1>6 DEF FsTick

LEMMA FsInvStep == FsInv /\ (FsTick \/ FsReset) => FsInv'
BY FsResetInv, FsTickTypes, FsTickSchedule DEF FsInv

(* While a sequence runs, the clock is inside one of its steps. *)
LEMMA InsideStep ==
  ASSUME FsInv, ~rx_reset
  PROVE  /\ StepsDone \in 0 .. NumFreqSteps - 1
         /\ StepTick \in 0 .. StepTicks - 1
         /\ age = StepsDone * StepTicks + StepTick
         /\ age < NumFreqSteps * StepTicks
         /\ StepTick >= WaitLen /\ StepTick < WaitLen + RecordLen
              => rx_record /\ freq_step_count = StepsDone
<1> USE Parameters
<1>1. /\ state \in {"WAIT", "RECORD", "NEXT"} /\ freq_step_count \in 0 .. NumFreqSteps
      /\ record_count \in Nat /\ state_wait_ctr \in Nat
  BY DEF FsInv, FsTypeOK, rx_reset
<1>2. /\ Counters
      /\ age = StepsDone * StepTicks + StepTick
  BY DEF FsInv, OnSchedule
<1>3. StepsDone \in 0 .. NumFreqSteps - 1
  BY <1>1, <1>2 DEF StepsDone, Counters
<1>4. /\ StepTick \in 0 .. StepTicks - 1
      /\ StepTick >= WaitLen /\ StepTick < WaitLen + RecordLen
           => rx_record /\ freq_step_count = StepsDone
  <2>1. CASE state = "WAIT"
    <3>1. StepTick = state_wait_ctr /\ state_wait_ctr < WaitLen
      BY <1>1, <1>2, <2>1 DEF StepTick, Counters, WaitLen
    <3> QED
      BY <1>1, <3>1
  <2>2. CASE state = "RECORD"
    <3>1. /\ StepTick = WaitLen + record_count /\ record_count < RecordLen
          /\ rx_record /\ freq_step_count = StepsDone
      BY <1>1, <1>2, <2>2 DEF StepTick, StepsDone, Counters, RecordLen, rx_record
    <3> QED
      BY <1>1, <3>1
  <2>3. CASE state = "NEXT"
    <3>1. /\ StepTick = WaitLen + RecordLen + state_wait_ctr
          /\ state_wait_ctr < NextLen
      BY <1>1, <1>2, <2>3 DEF StepTick, Counters, NextLen
    <3> QED
      BY <1>1, <3>1
  <2> QED
    BY <1>1, <2>1, <2>2, <2>3
<1>5. age < NumFreqSteps * StepTicks
  <2>1. (StepsDone + 1) * StepTicks <= NumFreqSteps * StepTicks
    BY <1>3, MulMono
  <2>2. (StepsDone + 1) * StepTicks = StepsDone * StepTicks + StepTicks
        /\ StepsDone * StepTicks \in Nat /\ NumFreqSteps * StepTicks \in Nat
    BY <1>3, NextMultiple
  <2> QED
    BY <1>2, <1>4, <2>1, <2>2
<1> QED
  BY <1>2, <1>3, <1>4, <1>5

-----------------------------------------------------------------------------
(* The receive chain counts words as the controller counts ticks. *)
Words == NumFreqSteps * SamplesPerFreq

ChainInv ==
  /\ CombTypeOK
  /\ sent \in Nat
  /\ age = sent * Decim + data_out_counter
  /\ just_reset = (sent = 0)
  /\ restart_data = (sent <= MarkMax + 1)
  /\ reset_counter = IF sent <= MarkMax THEN sent ELSE MarkMax + 1
  /\ word \in {NoWord, Mark, Data} \cup {Header(n) : n \in 0 .. SeqMod - 1}

AnchorInv == FsInv /\ ChainInv

LEMMA ChainParameters ==
  /\ Decim \in Nat \ {0, 1} /\ MarkMax \in Nat /\ SeqMod \in Nat \ {0}
  /\ SamplesPerFreq \in Nat \ {0} /\ Words \in Nat \ {0}
  /\ NumFreqSteps * StepTicks = Words * Decim + (Decim - 1)
<1>1. /\ Decim \in Nat \ {0, 1} /\ MarkMax \in Nat /\ SeqMod \in Nat \ {0}
      /\ SamplesPerFreq \in Nat \ {0} /\ NumFreqSteps \in Nat \ {0}
  BY CombAssumption, SliceAssumption, Parameters
<1>2. Words \in Nat \ {0}
  BY <1>1 DEF Words
<1>3. Decim * Words = Words * Decim
  BY <1>1, <1>2
<1> QED
  BY <1>1, <1>2, <1>3, AlignAssumption DEF Words

(* The words sent in a sequence are fewer than a frame has, but for the one
   that goes out in the first tick of the reset. *)
LEMMA SentBound ==
  ASSUME AnchorInv
  PROVE  /\ ~rx_reset /\ data_out_strobe => sent < Words
         /\ sent <= Words
         /\ rx_reset => \/ sent = 0 /\ data_out_counter = 0
                        \/ sent = Words /\ data_out_strobe
<1> USE ChainParameters
<1>1. /\ sent \in Nat /\ data_out_counter \in 0 .. Decim - 1
      /\ age = sent * Decim + data_out_counter
  BY DEF AnchorInv, ChainInv, CombTypeOK
<1>2. sent * Decim \in Nat /\ Words * Decim \in Nat
      /\ (Words + 1) * Decim = Words * Decim + Decim
  BY <1>1, NextMultiple
<1>3. CASE ~rx_reset
  <2>1. age < Words * Decim + (Decim - 1)
    BY <1>3, InsideStep DEF AnchorInv
  <2>2. ~(Words + 1 <= sent)
    <3> SUFFICES ASSUME Words + 1 <= sent PROVE FALSE
      OBVIOUS
    <3>1. (Words + 1) * Decim <= sent * Decim
      BY <1>1, MulMono
    <3> QED
      BY <1>1, <1>2, <2>1, <3>1
  <2>3. data_out_strobe => sent # Words
    BY <1>1, <1>2, <2>1 DEF data_out_strobe
  <2> QED
    BY <1>1, <1>3, <2>2, <2>3
<1>4. CASE rx_reset
  <2>1. age = 0 \/ age = Words * Decim + (Decim - 1)
    BY <1>4 DEF AnchorInv, FsInv, ResetAge
  <2>2. CASE age = 0
    <3>1. 0 * Decim + 0 = sent * Decim + data_out_counter
      BY <1>1, <2>2
    <3>2. sent = 0 /\ data_out_counter = 0
      BY <1>1, <3>1, DivUnique
    <3> QED
      BY <1>4, <3>2
  <2>3. CASE age = Words * Decim + (Decim - 1)
    <3>1. sent = Words /\ data_out_counter = Decim - 1
      BY <1>1, <2>3, DivUnique
    <3> QED
      BY <1>4, <3>1 DEF data_out_strobe
  <2> QED
    BY <2>1, <2>2, <2>3
<1> QED
  BY <1>3, <1>4

LEMMA OutIsNextWord ==
  ASSUME ChainInv
  PROVE  out = IF sent = 0 THEN Header(num_resets)
               ELSE IF sent <= MarkMax + 1 THEN Mark ELSE Data
BY DEF ChainInv, out

LEMMA LatchedWord ==
  ASSUME ChainInv, Latch
  PROVE  word' \in {NoWord, Mark, Data} \cup {Header(n) : n \in 0 .. SeqMod - 1}
<1>1. num_resets \in 0 .. SeqMod - 1
  BY DEF ChainInv, CombTypeOK
<1> QED
  BY <1>1, OutIsNextWord DEF Latch, ChainInv

LEMMA TickAge == FsTick => age' = IF rx_reset THEN 0 ELSE age + 1
BY DEF FsTick, TickReset, TickWait, TickRecord, TickNext, GoTo

LEMMA ResetChain ==
  ASSUME ChainInv, NEW ext \in BOOLEAN, CombReset(ext), Latch,
         sent' = 0, age' = 0
  PROVE  ChainInv'
<1> USE ChainParameters
<1>1. CombTypeOK'
  BY DEF ChainInv, CombTypeOK, CombReset
<1>2. just_reset' = (sent' = 0) /\ restart_data' = (sent' <= MarkMax + 1)
  <2>1. (sent' = 0) = TRUE /\ (sent' <= MarkMax + 1) = TRUE
    OBVIOUS
  <2> QED
    BY <2>1 DEF CombReset
<1>3. age' = sent' * Decim + data_out_counter'
  BY DEF CombReset
<1>4. reset_counter' = IF sent' <= MarkMax THEN sent' ELSE MarkMax + 1
  BY DEF CombReset
<1> QED
  BY <1>1, <1>2, <1>3, <1>4, LatchedWord DEF ChainInv

LEMMA StrobeChain ==
  ASSUME ChainInv, CombStrobe, Latch, sent' = sent + 1, age' = age + 1
  PROVE  ChainInv'
<1> USE ChainParameters
<1>1. /\ sent \in Nat /\ data_out_counter = Decim - 1
      /\ age = sent * Decim + data_out_counter /\ data_out_counter' = 0
      /\ reset_counter = IF sent <= MarkMax THEN sent ELSE MarkMax + 1
  BY DEF ChainInv, CombStrobe, data_out_strobe
<1>2. age' = sent' * Decim + data_out_counter'
  BY <1>1, NextMultiple
<1>3. just_reset' = (sent' = 0)
  <2>1. (sent' = 0) = FALSE
    BY <1>1
  <2>2. just_reset' = FALSE
    BY DEF CombStrobe, CountReset, ChainInv, CombTypeOK
  <2> QED
    BY <2>1, <2>2
<1>4. CASE reset_counter <= MarkMax
  <2>1. sent <= MarkMax /\ reset_counter' = sent + 1 /\ restart_data' = restart_data
    BY <1>1, <1>4 DEF CombStrobe, CountMark
  <2>2. restart_data' = (sent' <= MarkMax + 1)
    <3>1. (sent <= MarkMax + 1) = TRUE /\ (sent' <= MarkMax + 1) = TRUE
      BY <1>1, <2>1
    <3> QED
      BY <2>1, <3>1 DEF ChainInv
  <2>3. reset_counter' = IF sent' <= MarkMax THEN sent' ELSE MarkMax + 1
    BY <1>1, <2>1
  <2> QED
    BY <2>2, <2>3, <1>1, <1>2, <1>3, LatchedWord DEF ChainInv, CombTypeOK,
       CombStrobe, CountReset
<1>5. CASE ~(reset_counter <= MarkMax)
  <2>1. sent > MarkMax /\ reset_counter' = MarkMax + 1 /\ restart_data' = FALSE
    BY <1>1, <1>5 DEF CombStrobe, CountMark
  <2>2. restart_data' = (sent' <= MarkMax + 1)
    <3>1. (sent' <= MarkMax + 1) = FALSE
      BY <1>1, <2>1
    <3> QED
      BY <2>1, <3>1
  <2>3. reset_counter' = IF sent' <= MarkMax THEN sent' ELSE MarkMax + 1
    BY <1>1, <2>1
  <2> QED
    BY <2>2, <2>3, <1>1, <1>2, <1>3, LatchedWord DEF ChainInv, CombTypeOK,
       CombStrobe, CountReset
<1> QED
  BY <1>4, <1>5

LEMMA CountChain ==
  ASSUME ChainInv, CombCount, Latch, sent' = sent, age' = age + 1
  PROVE  ChainInv'
<1> USE ChainParameters
<1>1. data_out_counter' \in 0 .. Decim - 1 /\ sent * Decim \in Nat
  BY NextMultiple DEF ChainInv, CombTypeOK, CombCount, data_out_strobe
<1>2. age' = sent' * Decim + data_out_counter'
  BY <1>1 DEF ChainInv, CombTypeOK, CombCount
<1> QED
  BY <1>1, <1>2, LatchedWord DEF ChainInv, CombTypeOK, CombCount

LEMMA AnchorStep == AnchorInv /\ [Next]_vars => AnchorInv'
<1> SUFFICES ASSUME AnchorInv, [Next]_vars PROVE AnchorInv'
  OBVIOUS
<1>1. FsInv /\ ChainInv
  BY DEF AnchorInv
<1>2. CASE Tick
  <2>1. FsInv'
    BY <1>1, <1>2, FsInvStep DEF Tick
  <2>2. ChainInv'
    <3>1. CASE rx_reset
      BY <1>1, <1>2, <3>1, TickAge, ResetChain DEF Tick
    <3>2. CASE ~rx_reset
      BY <1>1, <1>2, <3>2, TickAge, StrobeChain, CountChain DEF Tick
    <3> QED
      BY <3>1, <3>2
  <2> QED
    BY <2>1, <2>2 DEF AnchorInv
<1>3. CASE ExtReset
  <2>1. FsInv'
    BY <1>1, <1>3, FsInvStep DEF ExtReset
  <2>2. ChainInv'
    BY <1>1, <1>3, ResetChain DEF ExtReset, FsReset
  <2> QED
    BY <2>1, <2>2 DEF AnchorInv
<1>4. CASE UNCHANGED vars
  BY <1>1, <1>4 DEF vars, fsVars, fsRegs, combVars, AnchorInv, FsInv, FsTypeOK,
     Counters, OnSchedule, ResetAge, StepsDone, StepTick, rx_reset, ChainInv,
     CombTypeOK
<1> QED
  BY <1>2, <1>3, <1>4 DEF Next

LEMMA InitAnchorInv == Init => AnchorInv
<1> SUFFICES ASSUME Init PROVE AnchorInv
  OBVIOUS
<1>1. FsInv
  BY InitFsInv DEF Init
<1>2. CombTypeOK
  BY ChainParameters DEF Init, CombInit, CombTypeOK
<1>3. just_reset = (sent = 0) /\ restart_data = (sent <= MarkMax + 1)
  <2>1. (sent = 0) = TRUE /\ (sent <= MarkMax + 1) = TRUE
    BY ChainParameters DEF Init
  <2> QED
    BY <2>1 DEF Init, CombInit
<1>4. age = sent * Decim + data_out_counter /\ sent \in Nat
      /\ reset_counter = IF sent <= MarkMax THEN sent ELSE MarkMax + 1
  BY ChainParameters DEF Init, FsInit, CombInit
<1> QED
  BY <1>1, <1>2, <1>3, <1>4 DEF AnchorInv, ChainInv, Init

-----------------------------------------------------------------------------
(* The controller keeps to the host's TOTAL_TICKS in every step, for all
   values of the parameters. *)
THEOREM OnScheduleAlways == Spec => [](TypeOK /\ OnSchedule)
<1>1. AnchorInv => TypeOK /\ OnSchedule
  BY SentBound, ChainParameters DEF AnchorInv, FsInv, ChainInv, TypeOK, Words
<1> QED
  BY InitAnchorInv, AnchorStep, <1>1, PTL DEF Spec

(* So a sequence takes NUM_STEPS times as many. *)
THEOREM SequenceTicksHolds == Spec => SequenceTicks
<1>1. AnchorInv /\ [Next]_vars
        => [~rx_reset /\ rx_reset' /\ age' # 0
              => age' = NumFreqSteps * StepTicks]_fsVars
  <2> SUFFICES ASSUME AnchorInv, [Next]_vars, rx_reset', age' # 0
               PROVE  age' = NumFreqSteps * StepTicks
    OBVIOUS
  <2>1. ResetAge'
    BY AnchorStep DEF AnchorInv, FsInv
  <2> QED
    BY <2>1 DEF ResetAge
<1> QED
  BY InitAnchorInv, AnchorStep, <1>1, PTL DEF Spec, SequenceTicks

(* The spectrum of a step is taken from data recorded in that step, if the
   parameters of the host and of the FPGA satisfy SliceAssumption. *)
THEOREM SliceRecordedAlways == Spec => []SliceRecorded
<1>1. AnchorInv => SliceRecorded
  <2> SUFFICES ASSUME AnchorInv, NEW jj \in Steps, data_out_strobe, ~rx_reset,
                      sent \in SamplesPerFreq * jj + SkipSamples
                                 .. SamplesPerFreq * jj + SkipSamples + FftSize - 1
               PROVE  rx_record /\ freq_step_count = jj /\ out = Data
    BY DEF SliceRecorded
  <2> USE ChainParameters, Parameters
  <2> DEFINE base == SamplesPerFreq * jj + SkipSamples
             tick0 == Decim * (base + 0) + (Decim - 1)
             tick1 == Decim * (base + (FftSize - 1)) + (Decim - 1)
  <2>1. /\ jj \in Nat /\ base \in Nat /\ base > MarkMax + 1 /\ FftSize \in Nat
        /\ jj * StepTicks \in Nat
    <3>1. jj \in Nat /\ SkipSamples \in Nat /\ SkipSamples > MarkMax + 1 /\ FftSize \in Nat
      BY SliceAssumption DEF Steps
    <3>2. SamplesPerFreq * jj \in Nat /\ jj * StepTicks \in Nat
      BY <3>1
    <3> QED
      BY <3>1, <3>2
  <2>2. tick0 >= jj * StepTicks + WaitLen /\ tick1 < jj * StepTicks + WaitLen + RecordLen
    BY SliceAssumption
  <2>3. age = sent * Decim + (Decim - 1) /\ sent \in Nat
    BY DEF AnchorInv, ChainInv, data_out_strobe
  <2> HIDE DEF base
  <2>4. base <= sent /\ sent <= base + (FftSize - 1) /\ base + (FftSize - 1) \in Nat
    <3>1. sent \in base .. base + FftSize - 1
      BY DEF base
    <3> QED
      BY <2>1, <2>3, <3>1
  <2>5. base * Decim <= sent * Decim /\ sent * Decim <= (base + (FftSize - 1)) * Decim
    BY <2>1, <2>3, <2>4, MulMono
  <2>6. tick0 = base * Decim + (Decim - 1)
        /\ tick1 = (base + (FftSize - 1)) * Decim + (Decim - 1)
        /\ base * Decim \in Nat /\ (base + (FftSize - 1)) * Decim \in Nat
        /\ sent * Decim \in Nat
    BY <2>1, <2>3, <2>4
  <2>7. tick0 <= age /\ age <= tick1 /\ age \in Nat /\ tick0 \in Nat /\ tick1 \in Nat
    BY <2>3, <2>5, <2>6
  <2> HIDE DEF tick0, tick1
  <2>8. PICK r \in Nat : age = jj * StepTicks + r
                         /\ r >= WaitLen /\ r < WaitLen + RecordLen
    <3>1. age - jj * StepTicks \in Nat
      BY <2>1, <2>2, <2>7
    <3> QED
      BY <2>1, <2>2, <2>7, <3>1
  <2>9. /\ StepsDone \in Nat /\ StepTick \in Nat /\ StepTick < StepTicks
        /\ age = StepsDone * StepTicks + StepTick
    BY InsideStep DEF AnchorInv
  <2>10. r < StepTicks
    BY <2>8
  <2>11. StepsDone = jj /\ StepTick = r
    BY <2>1, <2>8, <2>9, <2>10, DivUnique
  <2>12. rx_record /\ freq_step_count = jj
    BY <2>8, <2>11, InsideStep DEF AnchorInv
  <2>13. out = Data
    <3>1. ~(sent = 0) /\ ~(sent <= MarkMax + 1)
      BY <2>1, <2>3, <2>4
    <3> QED
      BY <3>1, OutIsNextWord DEF AnchorInv
  <2> QED
    BY <2>12, <2>13
<1> QED
  BY InitAnchorInv, AnchorStep, <1>1, PTL DEF Spec

(* The FPGA implements the framed stream: every step of it is a step of
   FramedStream or leaves that stream alone. *)
THEOREM FramedHolds == Spec => Framed
<1> USE ChainParameters
<1>1. Init => Stream!Init
  BY DEF Init, FsInit, CombInit, Stream!Init, NoWord, Stream!NoWord
<1>2. AnchorInv /\ [Next]_vars => [Stream!Next]_(Stream!vars)
  <2> SUFFICES ASSUME AnchorInv, [Next]_vars
               PROVE  Stream!Next \/ UNCHANGED Stream!vars
    OBVIOUS
  <2> DEFINE sq == IF just_reset THEN num_resets
                   ELSE IF num_resets = 0 THEN SeqMod - 1 ELSE num_resets - 1
  <2>1. /\ num_resets \in 0 .. SeqMod - 1 /\ sent \in Nat
        /\ just_reset \in BOOLEAN /\ (just_reset <=> sent = 0)
    BY DEF AnchorInv, ChainInv, CombTypeOK
  <2>2. out = Stream!NextWord
    <3>1. sent = 0 => sq = num_resets
      BY <2>1
    <3> QED
      BY <2>1, <3>1, OutIsNextWord DEF AnchorInv, Stream!NextWord, Header,
         Mark, Data, Stream!Header, Stream!Mark, Stream!Data
  <2>3. CASE Tick /\ rx_reset
    <3>1. /\ sent' = 0 /\ just_reset' = TRUE /\ num_resets' = num_resets
          /\ word' = IF data_out_strobe THEN out ELSE word
      BY <2>3 DEF Tick, CombReset, Latch
    <3>2. sq' = num_resets
      BY <3>1
    <3>3. CASE sent = 0 /\ data_out_counter = 0
      <4>1. ~data_out_strobe
        BY <3>3 DEF data_out_strobe
      <4>2. sq = num_resets
        BY <2>1, <3>3
      <4> QED
        BY <3>1, <3>2, <3>3, <4>1, <4>2 DEF Stream!vars
    <3>4. CASE sent = Words /\ data_out_strobe
      <4>1. word' = Stream!NextWord
        BY <2>2, <3>1, <3>4
      <4>2. ~just_reset
        BY <2>1, <3>4
      <4>3. num_resets = IF sq = SeqMod - 1 THEN 0 ELSE sq + 1
        BY <2>1, <4>2
      <4>4. sent = (Words + 1) - 1
        BY <3>4
      <4> QED
        BY <3>1, <3>2, <4>1, <4>3, <4>4 DEF Stream!Next, Stream!Emit, Words
    <3> QED
      BY <2>3, <3>3, <3>4, SentBound
  <2>4. CASE Tick /\ ~rx_reset /\ CombStrobe
    <3>1. sent' = sent + 1 /\ word' = out /\ data_out_strobe
      BY <2>4 DEF Tick, Latch, CombStrobe, CombCount
    <3>2. sent # (Words + 1) - 1
      BY <2>1, <2>4, <3>1, SentBound
    <3>3. just_reset' = FALSE /\ (num_resets' = IF just_reset
                                    THEN IF num_resets = SeqMod - 1 THEN 0
                                                    ELSE num_resets + 1
                                    ELSE num_resets)
      BY <2>1, <2>4 DEF CombStrobe, CountReset
    <3>4. sq' = sq
      BY <2>1, <3>3
    <3> QED
      BY <2>2, <3>1, <3>2, <3>4 DEF Stream!Next, Stream!Emit, Words
  <2>5. CASE Tick /\ ~rx_reset /\ CombCount
    <3>1. /\ sent' = sent /\ word' = word /\ just_reset' = just_reset
          /\ num_resets' = num_resets
      BY <2>5 DEF Tick, Latch, CombCount, CombStrobe
    <3> QED
      BY <3>1 DEF Stream!vars
  <2>6. CASE ExtReset
    <3>1. /\ sent' = 0 /\ just_reset' = TRUE /\ num_resets' = 0
          /\ word' = IF data_out_strobe THEN out ELSE word
      BY <2>6 DEF ExtReset, CombReset, Latch
    <3>2. sq' = 0
      BY <3>1
    <3> QED
      BY <2>2, <3>1, <3>2 DEF Stream!Next, Stream!Restart
  <2>7. CASE UNCHANGED vars
    BY <2>7 DEF vars, combVars, Stream!vars
  <2>8. Tick => (Tick /\ rx_reset) \/ (Tick /\ ~rx_reset /\ (CombStrobe \/ CombCount))
    BY DEF Tick
  <2> QED
    BY <2>3, <2>4, <2>5, <2>6, <2>7, <2>8 DEF Next
<1> QED
  BY InitAnchorInv, AnchorStep, <1>1, <1>2, PTL DEF Spec, Framed, Stream!Spec
=============================================================================
