---------------------------- MODULE AnchorStream ----------------------------
(***************************************************************************)
(* An anchor's FPGA as usrp_std_hs_bb wires it: the controller's rx_reset  *)
(* is the reset of the receive chain, the external reset goes to both, and *)
(* the receive buffer latches the chain's output on its strobe.            *)
(*                                                                         *)
(* The chain decimates by Decim and is reset between sequences; the host   *)
(* finds a frame by counting SAMPLES_PER_SEQ-1 words, and a frequency step *)
(* in it by counting SAMPLES_PER_FREQ.  Nothing but the arithmetic of the  *)
(* parameters on both sides makes these agree.                             *)
(***************************************************************************)
EXTENDS FsController, BbComb

CONSTANTS
  SamplesPerFreq,  \* words the host counts to a step (SAMPLES_PER_FREQ, 1081)
  SkipSamples,     \* words it skips at the start of a step (SKIP_SAMPLES, 240)
  FftSize          \* words it then takes (FFT_SIZE, 782)

VARIABLES
  word,  \* the word the receive buffer latched last
  sent   \* words latched since the reset of the sequence (history)

vars == <<fsVars, combVars, word, sent>>

Steps == 0 .. NumFreqSteps - 1

\* A sequence is one tick short of a whole number of words, so that the chain
\* strobes once more in the first tick of the reset.
ASSUME AlignAssumption ==
  NumFreqSteps * StepTicks = Decim * (NumFreqSteps * SamplesPerFreq) + (Decim - 1)

\* The words the host takes of a step fit into the time the step records.
ASSUME SliceAssumption ==
  /\ SamplesPerFreq \in Nat \ {0} /\ FftSize \in Nat
  /\ SkipSamples \in Nat /\ SkipSamples > MarkMax + 1
  /\ \A jj \in Steps :
       LET Tick(p) == Decim * (SamplesPerFreq * jj + SkipSamples + p) + (Decim - 1)
       IN  /\ Tick(0) >= jj * StepTicks + WaitLen
           /\ Tick(FftSize - 1) < jj * StepTicks + WaitLen + RecordLen

\* The parameters in the sources satisfy both.
ASSUME SourceParameters ==
  LET total == 35000 + 1 + 642 + 31
      perFreq == total \div 33
      Tick(p) == 33 * p + 32
  IN  /\ perFreq = 1081
      /\ 32 * total = 33 * (32 * perFreq) + 32
      /\ \A jj \in 0 .. 31 :
           /\ Tick(perFreq * jj + 240) >= jj * total + 642
           /\ Tick(perFreq * jj + 240 + 781) < jj * total + 642 + 35001

-----------------------------------------------------------------------------
NoWord == [kind |-> "none", num |-> 0]

(* The channel registers of rx_buffer. *)
Latch == word' = IF data_out_strobe THEN out ELSE word

Tick ==
  /\ FsTick
  /\ IF rx_reset
       THEN CombReset(FALSE) /\ sent' = 0
       ELSE \/ CombStrobe /\ sent' = sent + 1
            \/ CombCount /\ UNCHANGED sent
  /\ Latch

ExtReset ==
  /\ FsReset /\ CombReset(TRUE) /\ Latch
  /\ sent' = 0

Init == FsInit /\ CombInit /\ word = NoWord /\ sent = 0
Next == Tick \/ ExtReset

Spec == Init /\ [][Next]_vars
-----------------------------------------------------------------------------
(* Properties *)

TypeOK ==
  /\ FsTypeOK /\ CombTypeOK
  /\ sent \in 0 .. NumFreqSteps * SamplesPerFreq
  /\ word \in {NoWord, Mark, Data} \cup {Header(n) : n \in 0 .. SeqMod - 1}

(* A word the host takes for the spectrum of step jj goes out while the
   controller records that step, and is data: no slice that stream_parser
   copies reaches into a change of frequency or into the markers. *)
SliceRecorded ==
  \A jj \in Steps :
    /\ data_out_strobe /\ ~rx_reset
    /\ sent \in SamplesPerFreq * jj + SkipSamples
                  .. SamplesPerFreq * jj + SkipSamples + FftSize - 1
    => rx_record /\ freq_step_count = jj /\ out = Data

(* The words of the anchor are the framed stream stream_parser expects: in
   each frame the number of the sequence, the markers and data, SAMPLES_PER_SEQ-1
   words in all, and numbers that increase by one. *)
Stream == INSTANCE FramedStream WITH
  Period <- NumFreqSteps * SamplesPerFreq + 1,
  Marks <- MarkMax + 1,
  pos <- sent,
  seq <- IF just_reset THEN num_resets
         ELSE IF num_resets = 0 THEN SeqMod - 1 ELSE num_resets - 1

Framed == Stream!Spec
=============================================================================
