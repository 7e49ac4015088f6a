----------------------------- MODULE FrameScan -----------------------------
(***************************************************************************)
(* How stream_parser cuts the frames of one anchor out of its samples.     *)
(* The scan looks for a marker one place behind the end of a frame,        *)
(* popping samples until it finds one; it then takes the sample before     *)
(* that marker for the number of the frame that follows, and erases one    *)
(* frame's length.  Samples may be missing: the receive buffer in the FPGA *)
(* overruns when the host is slow.                                         *)
(*                                                                         *)
(* The samples are the words of FramedStream.  StreamParser, one level up, *)
(* takes the frames of an anchor to arrive in order with some missing;     *)
(* LabelsIncrease is what justifies that.                                  *)
(***************************************************************************)
EXTENDS FramedStream, Sequences

CONSTANTS
  MaxBuf,     \* samples the model holds at a time (bound)
  StartAt,    \* positions in a frame at which the capture may start
  LossLen,    \* numbers of samples a loss may take
  MaxLosses   \* number of losses (bound)

ASSUME ScanAssumption ==
  /\ Period > Marks + 1
  /\ MaxBuf > Period + 1
  /\ StartAt \subseteq 0 .. Period - 1
  /\ LossLen \subseteq Nat \ {0} /\ MaxLosses \in Nat

VARIABLES
  buf,     \* data_history of the anchor: samples with the place they are from
  losses,  \* losses so far
  cut      \* the frame last erased and its label (history)

scanVars == <<vars, buf, losses, cut>>

NoCut == <<>>

(* A word with the frame and the position it was sent at, and the losses
   before it. *)
Sample == [word |-> NextWord, sweep |-> seq, at |-> pos, after |-> losses]

-----------------------------------------------------------------------------
(* The stream *)

Push ==
  /\ Len(buf) < MaxBuf
  /\ Emit
  /\ buf' = Append(buf, Sample)
  /\ UNCHANGED <<losses, cut>>

(* The scan has its place: the history starts with the number it read last,
   and nothing has been lost since that was sent. *)
InPlace ==
  /\ cut # NoCut /\ buf # <<>>
  /\ buf[1] = cut.label /\ buf[1].after = losses

(* The receive buffer was full while n words went by.  The model loses words
   only when the scan has found its place, after the start and after the loss
   before. *)
Lose ==
  /\ losses < MaxLosses /\ InPlace
  /\ \E n \in LossLen :
       /\ pos' = (pos + n) % Period
       /\ seq' = (seq + (pos + n) \div Period) % SeqMod
  /\ losses' = losses + 1
  /\ UNCHANGED <<word, buf, cut>>

-----------------------------------------------------------------------------
(* The scan.  data_history[i] of the source is buf[i + 1], and
   SAMPLES_PER_SEQ is Period + 1. *)

IsMarker(s) == s.word.kind = "mark"

Enough == Len(buf) > Period + 1

Behind == buf[Period + 2]

Label == buf[Period + 1]

PopFront ==
  /\ Enough /\ ~IsMarker(Behind)
  /\ buf' = Tail(buf)
  /\ UNCHANGED <<vars, losses, cut>>

\* mutant: one sample too many is erased
CutOneMore ==
  /\ Enough /\ IsMarker(Behind)
  /\ cut' = [label |-> Label, frame |-> SubSeq(buf, 1, Period)]
  /\ buf' = SubSeq(buf, Period + 2, Len(buf))
  /\ UNCHANGED <<vars, losses>>

\* mutant: the frame is popped like a sample that is out of place
CutPops ==
  /\ Enough /\ IsMarker(Behind)
  /\ cut' = [label |-> Label, frame |-> SubSeq(buf, 1, Period)]
  /\ buf' = Tail(buf)
  /\ UNCHANGED <<vars, losses>>

\* mutant: the history is cleared, not only its first frame
CutClears ==
  /\ Enough /\ IsMarker(Behind)
  /\ cut' = [label |-> Label, frame |-> SubSeq(buf, 1, Period)]
  /\ buf' = <<>>
  /\ UNCHANGED <<vars, losses>>

(* The scan stops; sooner or later the frame is published or dropped. *)
Cut ==
  /\ Enough /\ IsMarker(Behind)
  /\ cut' = [label |-> Label, frame |-> SubSeq(buf, 1, Period)]
  /\ buf' = SubSeq(buf, Period + 1, Len(buf))
  /\ UNCHANGED <<vars, losses>>

-----------------------------------------------------------------------------
ScanInit ==
  /\ word = NoWord /\ seq = 0 /\ pos \in StartAt
  /\ buf = <<>> /\ losses = 0 /\ cut = NoCut

ScanNext == Push \/ Lose \/ PopFront \/ Cut

ScanSpec == ScanInit /\ [][ScanNext]_scanVars

(* All samples the model sends are scanned in the end. *)
FairScanSpec ==
  ScanSpec /\ WF_scanVars(Push) /\ WF_scanVars(PopFront) /\ WF_scanVars(Cut)
-----------------------------------------------------------------------------
(* Properties *)

(* The sample that is read as a sequence number is one: the marker the scan
   stopped at is the first of its run ("until a subsequent restart is
   detected", the comment before the scan). *)
LabelIsHeader == cut # NoCut => cut.label.at = 0

(* The numbers of an anchor's frames increase: modulo SeqMod, the next is
   less than half the range ahead. *)
LabelsIncrease ==
  [][cut # NoCut /\ cut' # cut =>
       (cut'.label.sweep - cut.label.sweep) % SeqMod \in 1 .. SeqMod \div 2]_scanVars

(* When nothing was lost between the first sample of a frame and its label,
   the samples were sent in one sweep, the one before the number in the label. *)
WholeSweep ==
  cut # NoCut /\ cut.frame[1].after = cut.label.after =>
    \A k \in 1 .. Period :
      /\ cut.frame[k].at = k - 1
      /\ (cut.frame[k].sweep + 1) % SeqMod = cut.label.sweep

(* No sweep is left out for good, without a loss or after it: every number
   turns up again and again. *)
AllSweepsCut ==
  \A n \in 0 .. SeqMod - 1 : []<>(cut # NoCut /\ cut.label.sweep = n)
=============================================================================
