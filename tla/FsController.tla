---------------------------- MODULE FsController ----------------------------
(***************************************************************************)
(* fast_square_controller: the state machine in the FPGA of an anchor that *)
(* steps the receiver through the frequencies of a sequence.  A sequence   *)
(* starts with a reset of the receive chain; then, NumFreqSteps times, the *)
(* machine waits for the synthesizer, records, and pulses freq_step.       *)
(*                                                                         *)
(* One action is one edge of the 64 MHz clock.  The wires of the           *)
(* combinational block are operators over the registers.                   *)
(***************************************************************************)
EXTENDS Integers

CONSTANTS
  NumFreqSteps,  \* NUM_FREQ_STEPS (32)
  RecordTicks,   \* RECORD_TICKS (35000)
  FirstReset,    \* last value of the counter in the first reset (28'h3ffffff)
  NextReset,     \* and in every later one (20'hfff)
  WaitTicks,     \* the counter is beyond this when the wait is over (640)
  PulseHead,     \* freq_step is pulsed below this (2'd10, that is 2)
  PulseTail,     \* and above this (20)
  NextEnd        \* last value of the counter in STATE_NEXT (30)

\* the widths of freq_step_count, record_count and state_wait_ctr suffice
ASSUME ControllerAssumption ==
  /\ NumFreqSteps \in 1 .. 2^8 - 1
  /\ RecordTicks \in 1 .. 2^16 - 2
  /\ FirstReset \in 0 .. 2^28 - 2
  /\ NextReset \in 0 .. 2^28 - 2
  /\ WaitTicks \in 0 .. 2^28 - 3
  /\ PulseHead \in Nat /\ PulseTail \in Nat
  /\ NextEnd \in 1 .. 2^28 - 2

VARIABLES
  state,
  freq_step_out,
  freq_step_count,
  record_count,
  state_wait_ctr,
  first_time,
  age             \* ticks since the reset of the sequence ended (history)

fsRegs == <<state, freq_step_out, freq_step_count, record_count,
            state_wait_ctr, first_time>>
fsVars == <<fsRegs, age>>

-----------------------------------------------------------------------------
(* Outputs *)

rx_reset == state = "RESET"
rx_record == state = "RECORD"
rx_next == /\ state = "NEXT" /\ state_wait_ctr = NextEnd
           /\ freq_step_count # NumFreqSteps

next_freq_step ==
  state = "NEXT" /\ (state_wait_ctr < PulseHead \/ state_wait_ctr > PulseTail)

-----------------------------------------------------------------------------
(* The registers every edge updates alike, when the next state is s. *)
GoTo(s) ==
  /\ state' = s
  /\ freq_step_out' = next_freq_step
  /\ state_wait_ctr' = IF s # state THEN 0
                       ELSE IF rx_record THEN state_wait_ctr ELSE state_wait_ctr + 1
  /\ record_count' = IF rx_record THEN record_count + 1 ELSE 0
  /\ first_time' = (first_time /\ ~rx_record)
  /\ age' = IF rx_reset THEN 0 ELSE age + 1

ResetDone == state_wait_ctr = IF first_time THEN FirstReset ELSE NextReset

TickReset ==
  /\ state = "RESET"
  /\ GoTo(IF ResetDone THEN "WAIT" ELSE "RESET")
  /\ freq_step_count' = 0

TickWait ==
  /\ state = "WAIT"
  /\ GoTo(IF state_wait_ctr > WaitTicks THEN "RECORD" ELSE "WAIT")
  /\ UNCHANGED freq_step_count

\* mutant: the count of recorded ticks is taken to end one tick earlier
TickRecordShort ==
  /\ state = "RECORD"
  /\ IF record_count = RecordTicks - 1
       THEN GoTo("NEXT") /\ freq_step_count' = freq_step_count + 1
       ELSE GoTo("RECORD") /\ UNCHANGED freq_step_count

TickRecord ==
  /\ state = "RECORD"
  /\ IF record_count = RecordTicks
       THEN GoTo("NEXT") /\ freq_step_count' = freq_step_count + 1
       ELSE GoTo("RECORD") /\ UNCHANGED freq_step_count

TickNext ==
  /\ state = "NEXT"
  /\ IF state_wait_ctr = NextEnd
       THEN GoTo(IF freq_step_count = NumFreqSteps THEN "RESET" ELSE "WAIT")
       ELSE GoTo("NEXT")
  /\ UNCHANGED freq_step_count

FsTick == TickReset \/ TickWait \/ TickRecord \/ TickNext

(* An edge while the reset input is asserted (rx_dsp_reset, or the reset pin
   of the daughterboard). *)
FsReset ==
  /\ state' = "RESET"
  /\ freq_step_out' = FALSE
  /\ freq_step_count' = 0
  /\ record_count' = 0
  /\ state_wait_ctr' = 0
  /\ first_time' = TRUE
  /\ age' = 0

(* The state the reset at start-up leaves. *)
FsInit ==
  /\ state = "RESET"
  /\ freq_step_out = FALSE
  /\ freq_step_count = 0
  /\ record_count = 0
  /\ state_wait_ctr = 0
  /\ first_time = TRUE
  /\ age = 0

FsSpec == FsInit /\ [][FsTick \/ FsReset]_fsVars
-----------------------------------------------------------------------------
(* Properties *)

FsTypeOK ==
  /\ state \in {"RESET", "WAIT", "RECORD", "NEXT"}
  /\ freq_step_out \in BOOLEAN
  /\ freq_step_count \in 0 .. NumFreqSteps
  /\ record_count \in 0 .. RecordTicks + 1
  /\ state_wait_ctr \in Nat
  /\ first_time \in BOOLEAN
  /\ age \in Nat

WaitLen == WaitTicks + 2
RecordLen == RecordTicks + 1
NextLen == NextEnd + 1

(* TOTAL_TICKS of defines.h: RECORD_TICKS + 1 + 642 + 31. *)
StepTicks == RecordLen + WaitLen + NextLen

(* The tick of the step the machine is in. *)
StepTick ==
  CASE state = "WAIT"   -> state_wait_ctr
    [] state = "RECORD" -> WaitLen + record_count
    [] state = "NEXT"   -> WaitLen + RecordLen + state_wait_ctr
    [] OTHER            -> 0

(* The steps the machine has completed in this sequence. *)
StepsDone == IF state = "NEXT" THEN freq_step_count - 1 ELSE freq_step_count

(* The machine is where a clock of StepTicks ticks per step says it is: no
   step of a sequence is longer or shorter than the host's TOTAL_TICKS, in
   spite of the counters that run on or are cleared late. *)
OnSchedule == ~rx_reset => age = StepsDone * StepTicks + StepTick

(* A sequence that is not cut short by the reset input takes NumFreqSteps
   times the host's TOTAL_TICKS. *)
SequenceTicks ==
  [][~rx_reset /\ rx_reset' /\ age' # 0
       => age' = NumFreqSteps * StepTicks]_fsVars
=============================================================================
