--------------------------- MODULE TunedReceiver ----------------------------
(* fast_square_demo.py with an anchor that sums the subcarriers itself: the  *)
(* thread that follows the tag's frequencies writes three registers, the     *)
(* FPGA (fast_square_rx.v) takes them over when a sweep starts and sends the *)
(* sums after each frequency step, and the host (freq_stitcher) divides the  *)
(* words by the calibration.  The mixers, the sums and the frequencies are   *)
(* left out: a register holds the round of the thread that wrote it, and of  *)
(* a word counts whether the stitcher takes it for filler.                   *)
EXTENDS Integers

CONSTANTS
  NumSubcarriers,  \* NUM_SUBCARRIERS: 4
  NumFreqs,        \* words of calibration of freq_stitcher: 56
  NumSteps,        \* frequency steps after which words are sent, in a sweep: 31
  MaxFiller,       \* words of filler in a row (bound; some hundreds)
  MaxRound         \* rounds of the thread (bound)

\* The sums, each of two words, and the three registers.
StepWords == NumSubcarriers * 2 + 3

ASSUME ReceiverAssumption ==
  /\ {NumSubcarriers, NumFreqs, NumSteps, MaxFiller, MaxRound} \subseteq Nat \ {0}
  /\ MaxFiller >= 2
  /\ NumSteps * StepWords >= NumFreqs

VARIABLES
  round, next,              \* the thread: its round, the register it writes next
  reg,                      \* *_set: the round that wrote each register
  latched,                  \* *_latched
  restart_data, new_data, new_data_ctr,
  steps, filler,            \* steps of this sweep, words of filler since the last
  state, subfreq_idx,       \* freq_stitcher; "ended": the program is gone
  sent,                     \* words of data of this sweep (history)
  spoilt                    \* a sweep was cut short by the reset pin, or a word of
                            \* data looked like filler (history)

fsrVars == <<latched, restart_data, new_data, new_data_ctr, steps, filler>>
stitcherVars == <<state, subfreq_idx>>
receiverVars == <<round, next, reg, fsrVars, stitcherVars, sent, spoilt>>

Registers == 0 .. 2                   \* carrier, subcarrier, frequency shift
Asleep == 3

ReceiverInit ==
  /\ round = 1 /\ next = 0
  /\ reg = [r \in Registers |-> 0] /\ latched = reg
  /\ restart_data = TRUE /\ new_data = FALSE /\ new_data_ctr = 0
  /\ steps = 0 /\ filler = 0
  /\ state = "RESET" /\ subfreq_idx = 0
  /\ sent = 0 /\ spoilt = FALSE

----------------------------------------------------------------------------
(* _freq_tracker *)

\* What a bug would do: the last register is forgotten.
TrackTwo ==
  /\ state # "ended" /\ next < 2
  /\ reg' = [reg EXCEPT ![next] = round]
  /\ next' = IF next = 1 THEN Asleep ELSE next + 1
  /\ UNCHANGED <<round, fsrVars, stitcherVars, sent, spoilt>>
\* set_user_register, for values computed at the start of the round.
Track ==
  /\ state # "ended" /\ next \in Registers
  /\ reg' = [reg EXCEPT ![next] = round]
  /\ next' = next + 1
  /\ UNCHANGED <<round, fsrVars, stitcherVars, sent, spoilt>>
Wake ==
  /\ state # "ended" /\ next = Asleep /\ round < MaxRound
  /\ round' = round + 1 /\ next' = 0
  /\ UNCHANGED <<reg, fsrVars, stitcherVars, sent, spoilt>>

----------------------------------------------------------------------------
(* fast_square_rx.v *)

\* The last clock of a reset.
Latch ==
  /\ latched' = reg
  /\ restart_data' = TRUE /\ new_data' = FALSE /\ new_data_ctr' = 0
  /\ steps' = 0 /\ filler' = 0 /\ sent' = 0
  /\ UNCHANGED <<round, next, reg, stitcherVars>>

\* A step takes more than five hundred words: those of the step before have
\* been sent, and words of filler.
Spaced == filler >= 2
SweepStarts == steps = NumSteps /\ Spaced /\ Latch /\ UNCHANGED spoilt
ResetPin == Latch /\ spoilt' = TRUE

FreqStep ==
  /\ steps < NumSteps /\ Spaced
  /\ restart_data' = FALSE /\ new_data' = TRUE /\ new_data_ctr' = 0
  /\ steps' = steps + 1 /\ filler' = 0
  /\ UNCHANGED <<round, next, reg, latched, stitcherVars, sent, spoilt>>

\* i_out and q_out as the host sees them: 0x8000 is -1.  Of the values of data
\* only one needs to be told from the others: a sum may be 0x00008000, and is
\* too small to be 0x80008000.
SendsData == ~restart_data /\ new_data /\ new_data_ctr < StepWords
Data == {[real |-> 1, imag |-> 1], [real |-> 0, imag |-> -1]}
Filler == IF restart_data THEN [real |-> -1, imag |-> -1] ELSE [real |-> -1, imag |-> 0]
Dispatch ==
  LET last == new_data /\ new_data_ctr = StepWords
  IN /\ new_data' = (new_data /\ ~last)
     /\ new_data_ctr' = IF last THEN 0 ELSE IF new_data THEN new_data_ctr + 1 ELSE new_data_ctr

----------------------------------------------------------------------------
(* freq_stitcher_impl::work, for one word *)

IsRestart(word) == word.imag = -1 /\ word.real = -1
IsFiller(word) == word.imag = -1 /\ (word.real = -1 \/ word.real = 0)

\* A word that is not filler is divided by the calibration.  Behind its end,
\* what is there is read, and the program may end.
Receive(word, idx) ==
  \/ /\ IsFiller(word)
     /\ state' = (IF idx >= NumFreqs THEN "DONE" ELSE "RCV") /\ subfreq_idx' = idx
  \/ /\ ~IsFiller(word)
     /\ state' = "RCV" /\ subfreq_idx' = idx + 1
  \/ /\ ~IsFiller(word) /\ idx >= NumFreqs
     /\ state' = "ended" /\ subfreq_idx' = idx
\* What a bug would do: the index goes on from one sweep to the next.
StitchOn(word) ==
  \/ state = "RESET" /\ IsRestart(word) /\ UNCHANGED stitcherVars
  \/ state = "RESET" /\ ~IsRestart(word) /\ Receive(word, subfreq_idx)
  \/ state = "RCV" /\ Receive(word, subfreq_idx)
  \/ /\ state = "DONE" /\ UNCHANGED subfreq_idx
     /\ state' = IF IsRestart(word) THEN "RESET" ELSE state
  \/ state = "ended" /\ UNCHANGED stitcherVars
Stitch(word) ==
  \/ state = "RESET" /\ IsRestart(word) /\ UNCHANGED stitcherVars
  \/ state = "RESET" /\ ~IsRestart(word) /\ Receive(word, 0)
  \/ state = "RCV" /\ Receive(word, subfreq_idx)
  \/ /\ state = "DONE" /\ UNCHANGED subfreq_idx
     /\ state' = IF IsRestart(word) THEN "RESET" ELSE state
  \/ state = "ended" /\ UNCHANGED stitcherVars

\* data_out_strobe: a word is sent and, some time later, received.
SendData ==
  /\ SendsData
  /\ \E word \in Data : Stitch(word) /\ spoilt' = (spoilt \/ IsFiller(word))
  /\ sent' = sent + 1
  /\ UNCHANGED filler
SendFiller ==
  /\ ~SendsData /\ filler < MaxFiller
  /\ Stitch(Filler)
  /\ filler' = filler + 1
  /\ UNCHANGED <<sent, spoilt>>
Strobe ==
  /\ Dispatch
  /\ SendData \/ SendFiller
  /\ UNCHANGED <<round, next, reg, latched, restart_data, steps>>

ReceiverNext == Track \/ Wake \/ SweepStarts \/ ResetPin \/ FreqStep \/ Strobe

ReceiverSpec == ReceiverInit /\ [][ReceiverNext]_receiverVars

----------------------------------------------------------------------------
(* Properties *)

(* The registers of a sweep are of one round of the thread, or of two that
   follow one another, the later registers of the earlier one. *)
RegistersOfAdjacentRounds ==
  /\ latched[0] >= latched[1] /\ latched[1] >= latched[2]
  /\ latched[0] <= latched[2] + 1

(* As long as no sweep is cut short and no sum looks like filler, the stitcher
   takes the words of the first step of each sweep for the first of the
   calibration, however far its index was in the sweep before: it has seen that
   one end, and the next begin. *)
StitchedInPlace ==
  state = "RCV" /\ steps = 1 /\ new_data /\ ~spoilt => subfreq_idx = sent

(* What the comment on the format of the data says: between the data of two
   steps there are words to be passed over, and the next data are for the next
   words of the calibration. *)
GapsPassedOver == state = "RCV" /\ ~spoilt => subfreq_idx = sent
=============================================================================
