------------------------------- MODULE BbComb -------------------------------
(***************************************************************************)
(* fast_square_bb_comb: the receive chain of an anchor's channel.  It      *)
(* passes on every Decim-th word of the comb filters' output; the first    *)
(* word after a reset is the number of resets so far, the next ones are    *)
(* markers, and the rest is data.  The values of the data, that is the     *)
(* filters, are left out.                                                  *)
(***************************************************************************)
EXTENDS Integers

CONSTANTS
  Decim,    \* data_out_counter counts 0 .. Decim-1 (33)
  MarkMax,  \* reset_counter <= MarkMax is still counted (100)
  SeqMod    \* num_resets wraps at (2^32)

ASSUME CombAssumption ==
  /\ Decim \in Nat \ {0, 1}
  /\ MarkMax \in 0 .. 2^16 - 2
  /\ SeqMod \in Nat \ {0}

VARIABLES
  restart_data,
  reset_counter,
  num_resets,
  data_out_counter,
  just_reset,
  mod_counter

combVars == <<restart_data, reset_counter, num_resets, data_out_counter,
              just_reset, mod_counter>>

-----------------------------------------------------------------------------
Mark == [kind |-> "mark", num |-> 0]
Data == [kind |-> "data", num |-> 0]
Header(n) == [kind |-> "seq", num |-> n]

\* mutant: one tick more to a word
StrobeLate == data_out_counter = Decim

data_out_strobe == data_out_counter = Decim - 1

(* The output, i_out and q_out together. *)
out ==
  IF just_reset THEN Header(num_resets)
  ELSE IF restart_data THEN Mark
  ELSE Data

-----------------------------------------------------------------------------
(* An edge with the reset of the controller, or of the whole chip. *)
CombReset(ext) ==
  /\ restart_data' = TRUE
  /\ reset_counter' = 0
  /\ data_out_counter' = 0
  /\ just_reset' = TRUE
  /\ num_resets' = IF ext THEN 0 ELSE num_resets
  /\ mod_counter' = IF ext THEN 0 ELSE mod_counter

(* The first word after a reset goes out. *)
CountReset ==
  IF just_reset
    THEN /\ num_resets' = IF num_resets = SeqMod - 1 THEN 0 ELSE num_resets + 1
         /\ mod_counter' = IF mod_counter < 4 THEN mod_counter + 1 ELSE 0
         /\ just_reset' = FALSE
    ELSE UNCHANGED <<num_resets, mod_counter, just_reset>>

\* mutant: the count of markers is off by one
CountMarkEarly ==
  IF reset_counter < MarkMax
    THEN reset_counter' = reset_counter + 1 /\ UNCHANGED restart_data
    ELSE restart_data' = FALSE /\ UNCHANGED reset_counter

CountMark ==
  IF reset_counter <= MarkMax
    THEN reset_counter' = reset_counter + 1 /\ UNCHANGED restart_data
    ELSE restart_data' = FALSE /\ UNCHANGED reset_counter

CombStrobe ==
  /\ data_out_strobe
  /\ CountReset /\ CountMark
  /\ data_out_counter' = 0

CombCount ==
  /\ ~data_out_strobe
  /\ data_out_counter' = data_out_counter + 1
  /\ UNCHANGED <<restart_data, reset_counter, num_resets, just_reset, mod_counter>>

CombInit ==
  /\ restart_data = TRUE
  /\ reset_counter = 0
  /\ num_resets = 0
  /\ data_out_counter = 0
  /\ just_reset = TRUE
  /\ mod_counter = 0

CombTypeOK ==
  /\ restart_data \in BOOLEAN
  /\ reset_counter \in 0 .. MarkMax + 1
  /\ num_resets \in 0 .. SeqMod - 1
  /\ data_out_counter \in 0 .. Decim - 1
  /\ just_reset \in BOOLEAN
  /\ mod_counter \in 0 .. 4
=============================================================================
