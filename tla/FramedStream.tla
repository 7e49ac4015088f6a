---------------------------- MODULE FramedStream ----------------------------
(***************************************************************************)
(* What the host takes the stream of an anchor to be: frames of Period     *)
(* words (SAMPLES_PER_SEQ-1 of defines.h), each with its number first,     *)
(* then Marks markers, then data.  stream_parser cuts frames by this       *)
(* layout; AnchorStream shows that the FPGA keeps to it.                   *)
(***************************************************************************)
EXTENDS Integers

CONSTANTS
  Period,  \* words in a frame
  Marks,   \* markers in a frame
  SeqMod   \* frame numbers wrap at

ASSUME FramedAssumption ==
  /\ Period \in Nat \ {0}
  /\ Marks \in Nat
  /\ SeqMod \in Nat \ {0}

VARIABLES
  word,  \* the word last sent
  pos,   \* position of the next word in its frame
  seq    \* number of that frame

vars == <<word, pos, seq>>

Mark == [kind |-> "mark", num |-> 0]
Data == [kind |-> "data", num |-> 0]
Header(n) == [kind |-> "seq", num |-> n]
NoWord == [kind |-> "none", num |-> 0]

NextWord ==
  IF pos = 0 THEN Header(seq) ELSE IF pos <= Marks THEN Mark ELSE Data

Init == word = NoWord /\ pos = 0 /\ seq = 0

Emit ==
  /\ word' = NextWord
  /\ IF pos = Period - 1
       THEN pos' = 0 /\ seq' = IF seq = SeqMod - 1 THEN 0 ELSE seq + 1
       ELSE pos' = pos + 1 /\ UNCHANGED seq

(* The anchor is reset: a frame may be cut short and numbers start over.  A
   word may go out on the same edge. *)
Restart ==
  /\ word' \in {word, NextWord}
  /\ pos' = 0 /\ seq' = 0

Next == Emit \/ Restart

Spec == Init /\ [][Next]_vars
=============================================================================
