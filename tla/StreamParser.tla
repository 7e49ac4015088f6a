---------------------------- MODULE StreamParser ----------------------------
(***************************************************************************)
(* The GNU Radio block stream_parser: it takes one stream of samples from  *)
(* each anchor, cuts every stream into the frames (frequency sweeps) the   *)
(* anchor numbered, and publishes one frame of each anchor at a time, all  *)
(* of the same sweep, to the phase estimators downstream.                  *)
(*                                                                         *)
(* This module is at the level of frames: one element of hist[a] stands    *)
(* for the SAMPLES_PER_SEQ-1 samples of one sweep together with the        *)
(* sequence number the code reads behind them.  How frames are cut out of  *)
(* samples is the subject of FrameScan.  One action is one branch of the   *)
(* loops of general_work.                                                  *)
(***************************************************************************)
EXTENDS Integers, Sequences

CONSTANTS
  NAnchors,    \* input streams (4 in the source)
  RestartGap,  \* a number this much below hsn is taken for a restart (100)
  HistCap,     \* frames buffered per anchor before input is refused (100)
  MaxChunk,    \* frames the scheduler's input buffer of an anchor can hold
  MaxOut,      \* largest noutput_items of a call
  LastSeq,     \* last sequence number of a lap of an anchor's stream
  Laps,        \* how often the numbering starts over (bound)
  Lossy,       \* anchors whose stream may lack frames (overruns)
  NoSnap       \* no snapshot published yet

Anchor == 0 .. NAnchors - 1
Followers == Anchor \ {0}

Frame == [lap : 1 .. Laps, seq : 0 .. LastSeq]

ASSUME ParserAssumption ==
  /\ NAnchors \in Nat \ {0}
  /\ RestartGap \in Nat
  /\ HistCap \in Nat \ {0}
  /\ MaxChunk \in Nat \ {0}
  /\ MaxOut \in Nat \ {0}
  /\ LastSeq \in Nat
  /\ Laps \in Nat \ {0}
  /\ Lossy \subseteq Anchor
  /\ NoSnap \notin [Anchor -> Frame]

VARIABLES
  src,        \* src[a]: the frame anchor a sends next, or later when Lossy
  inbuf,      \* inbuf[a]: frames in the scheduler's buffer of input a
  hist,       \* data_history[a]
  hsn,        \* d_hsn, the highest sequence number
  restarted,  \* d_restarted[a]
  waiting,    \* d_wait_for_restart
  pc,         \* "idle" between calls of general_work, "scan" inside one
  ii,         \* the loop variable of the scan over anchors
  nout,       \* noutput_items of the call
  outCount,   \* out_count
  snap,       \* the frames last published (history, read by properties only)
  trouble     \* the first anchor has lost a frame or an anchor has started
              \* over (history, read by properties only)

upstream == <<src, inbuf, trouble>>
vars == <<src, inbuf, trouble, hist, hsn, restarted, waiting, pc, ii, nout,
          outCount, snap>>

-----------------------------------------------------------------------------
(* The streams of the anchors. *)

First == [lap |-> 1, seq |-> 0]

(* Frame f comes later than frame g in the stream of an anchor. *)
Later(f, g) == f.lap > g.lap \/ (f.lap = g.lap /\ f.seq > g.seq)

(* The frame that follows f when none is missing. *)
Succ(f) == IF f.seq < LastSeq THEN [lap |-> f.lap, seq |-> f.seq + 1]
                              ELSE [lap |-> f.lap + 1, seq |-> 0]

(* The frames an anchor may send next: src[a], or any later one if frames
   may be missing from its stream. *)
Sendable(a) ==
  {f \in Frame : f = src[a] \/ (a \in Lossy /\ Later(f, src[a]))}

(* Anchor a has sent a frame of its second lap. *)
StartedOver(a) == Later(src[a], [lap |-> 2, seq |-> 0])

(* The first anchor leaves out a frame, or an anchor has started over. *)
Troubled ==
  \/ src'[0] \notin {src[0], Succ(src[0])}
  \/ \E a \in Anchor : StartedOver(a)'

Arrive(a) ==
  /\ Len(inbuf[a]) < MaxChunk
  /\ \E f \in Sendable(a) :
       /\ inbuf' = [inbuf EXCEPT ![a] = Append(@, f)]
       /\ src' = [src EXCEPT ![a] = Succ(f)]
  /\ trouble' = (trouble \/ Troubled)
  /\ UNCHANGED <<hist, hsn, restarted, waiting, pc, ii, nout, outCount, snap>>

-----------------------------------------------------------------------------
(* general_work *)

\* mutant: the cap on the history is not tested
CallUncapped ==
  /\ pc = "idle"
  /\ hist' = [a \in Anchor |-> hist[a] \o inbuf[a]]
  /\ inbuf' = [a \in Anchor |-> <<>>]
  /\ nout' \in 1 .. MaxOut
  /\ outCount' = 0 /\ ii' = 0 /\ pc' = "scan"
  /\ UNCHANGED <<src, trouble, hsn, restarted, waiting, snap>>

\* mutant: the count of the call before is kept
CallKeepsCount ==
  /\ pc = "idle"
  /\ hist' = [a \in Anchor |->
                IF Len(hist[a]) < HistCap THEN hist[a] \o inbuf[a] ELSE hist[a]]
  /\ inbuf' = [a \in Anchor |->
                IF Len(hist[a]) < HistCap THEN <<>> ELSE inbuf[a]]
  /\ nout' \in outCount .. MaxOut
  /\ ii' = 0 /\ pc' = "scan"
  /\ UNCHANGED <<src, trouble, hsn, restarted, waiting, outCount, snap>>

(* A call: all of an input is moved to the history of its anchor, unless
   that history is full; then the scan over the anchors starts. *)
Call ==
  /\ pc = "idle"
  /\ hist' = [a \in Anchor |->
                IF Len(hist[a]) < HistCap THEN hist[a] \o inbuf[a] ELSE hist[a]]
  /\ inbuf' = [a \in Anchor |->
                IF Len(hist[a]) < HistCap THEN <<>> ELSE inbuf[a]]
  /\ nout' \in 1 .. MaxOut
  /\ outCount' = 0
  /\ ii' = 0
  /\ pc' = "scan"
  /\ UNCHANGED <<src, trouble, hsn, restarted, waiting, snap>>

(* The scan is at an anchor that has a whole frame. *)
Scanning == pc = "scan" /\ ii < NAnchors /\ hist[ii] # <<>>
seqNum == Head(hist[ii]).seq

(* The test for a stream that has started over ("repeating log files"). *)
LooksRestarted == seqNum < hsn - RestartGap /\ hsn > RestartGap

DropHead == hist' = [hist EXCEPT ![ii] = Tail(@)]
Rescan == ii' = 0

(* An anchor has no whole frame: the call returns what it has published. *)
Return ==
  /\ pc = "scan" /\ ii < NAnchors /\ hist[ii] = <<>>
  /\ pc' = "idle"
  /\ UNCHANGED <<upstream, hist, hsn, restarted, waiting, ii, nout, outCount, snap>>

\* mutant: goes on although all have started over
NoteAnyRestart ==
  /\ Scanning /\ waiting /\ LooksRestarted
  /\ restarted' = [restarted EXCEPT ![ii] = TRUE]
  /\ ii' = ii + 1
  /\ UNCHANGED <<upstream, hist, hsn, waiting, pc, nout, outCount, snap>>

\* mutant: scans from the first anchor again, as the other branches do
NoteRestartRescans ==
  /\ Scanning /\ waiting /\ LooksRestarted
  /\ \E a \in Anchor \ {ii} : ~restarted[a]
  /\ restarted' = [restarted EXCEPT ![ii] = TRUE]
  /\ Rescan
  /\ UNCHANGED <<upstream, hist, hsn, waiting, pc, nout, outCount, snap>>

(* Waiting, and this anchor has started over; others have not yet. *)
NoteRestart ==
  /\ Scanning /\ waiting /\ LooksRestarted
  /\ \E a \in Anchor \ {ii} : ~restarted[a]
  /\ restarted' = [restarted EXCEPT ![ii] = TRUE]
  /\ ii' = ii + 1
  /\ UNCHANGED <<upstream, hist, hsn, waiting, pc, nout, outCount, snap>>

\* mutant: the wait is not over when all have started over
AllRestartedStillWaits ==
  /\ Scanning /\ waiting /\ LooksRestarted
  /\ \A a \in Anchor \ {ii} : restarted[a]
  /\ hsn' = seqNum
  /\ restarted' = [a \in Anchor |-> FALSE]
  /\ Rescan
  /\ UNCHANGED <<upstream, hist, waiting, pc, nout, outCount, snap>>

(* Waiting, and this was the last anchor to start over. *)
AllRestarted ==
  /\ Scanning /\ waiting /\ LooksRestarted
  /\ \A a \in Anchor \ {ii} : restarted[a]
  /\ hsn' = seqNum
  /\ waiting' = FALSE
  /\ restarted' = [a \in Anchor |-> FALSE]
  /\ Rescan
  /\ UNCHANGED <<upstream, hist, pc, nout, outCount, snap>>

(* Waiting, and this anchor has not started over: its frame is dropped. *)
DropWaiting ==
  /\ Scanning /\ waiting /\ ~LooksRestarted
  /\ DropHead /\ Rescan
  /\ UNCHANGED <<upstream, hsn, restarted, waiting, pc, nout, outCount, snap>>

\* mutant: hsn is raised to the number after
RaiseHsnTooFar ==
  /\ Scanning /\ ~waiting
  /\ seqNum > hsn /\ ii > 0
  /\ hsn' = IF seqNum < LastSeq THEN seqNum + 1 ELSE seqNum
  /\ Rescan
  /\ UNCHANGED <<upstream, hist, restarted, waiting, pc, nout, outCount, snap>>

(* An anchor other than the first is ahead: catch up with it. *)
RaiseHsn ==
  /\ Scanning /\ ~waiting
  /\ seqNum > hsn /\ ii > 0
  /\ hsn' = seqNum
  /\ Rescan
  /\ UNCHANGED <<upstream, hist, restarted, waiting, pc, nout, outCount, snap>>

(* An anchor is far behind: it has started over, wait for the others. *)
DetectRestart ==
  /\ Scanning /\ ~waiting
  /\ seqNum < hsn /\ LooksRestarted
  /\ restarted' = [restarted EXCEPT ![ii] = TRUE]
  /\ waiting' = TRUE
  /\ Rescan
  /\ UNCHANGED <<upstream, hist, hsn, pc, nout, outCount, snap>>

\* mutant: a frame of the awaited number is dropped, too
DropNotNewer ==
  /\ Scanning /\ ~waiting
  /\ seqNum <= hsn /\ ~LooksRestarted
  /\ DropHead /\ Rescan
  /\ UNCHANGED <<upstream, hsn, restarted, waiting, pc, nout, outCount, snap>>

(* An anchor is a little behind: its frame is stale. *)
DropStale ==
  /\ Scanning /\ ~waiting
  /\ seqNum < hsn /\ ~LooksRestarted
  /\ DropHead /\ Rescan
  /\ UNCHANGED <<upstream, hsn, restarted, waiting, pc, nout, outCount, snap>>

\* mutant: any anchor's frame is accepted when it is ahead
AcceptAhead ==
  /\ Scanning /\ ~waiting
  /\ seqNum >= hsn
  /\ ii' = ii + 1
  /\ UNCHANGED <<upstream, hist, hsn, restarted, waiting, pc, nout, outCount, snap>>

(* The frame of this anchor is accepted.  The first anchor's is accepted
   when it is ahead, too, and hsn is left as it is. *)
Accept ==
  /\ Scanning /\ ~waiting
  /\ seqNum = hsn \/ (seqNum > hsn /\ ii = 0)
  /\ ii' = ii + 1
  /\ UNCHANGED <<upstream, hist, hsn, restarted, waiting, pc, nout, outCount, snap>>

\* mutant: the frames are copied and not erased
PublishKeepsAll ==
  /\ pc = "scan" /\ ii = NAnchors /\ outCount < nout
  /\ snap' = [a \in Anchor |-> Head(hist[a])]
  /\ outCount' = outCount + 1
  /\ Rescan
  /\ UNCHANGED <<upstream, hist, hsn, restarted, waiting, pc, nout>>

(* Every anchor's frame was accepted: publish and erase them. *)
Publish ==
  /\ pc = "scan" /\ ii = NAnchors /\ outCount < nout
  /\ snap' = [a \in Anchor |-> Head(hist[a])]
  /\ hist' = [a \in Anchor |-> Tail(hist[a])]
  /\ outCount' = outCount + 1
  /\ Rescan
  /\ UNCHANGED <<upstream, hsn, restarted, waiting, pc, nout>>

(* Every anchor's frame was accepted and there is no room left to publish
   them: nothing is erased and the scan starts again. *)
SpinFull ==
  /\ pc = "scan" /\ ii = NAnchors /\ outCount >= nout
  /\ Rescan
  /\ UNCHANGED <<upstream, hist, hsn, restarted, waiting, pc, nout, outCount, snap>>

-----------------------------------------------------------------------------
Init ==
  /\ src = [a \in Anchor |-> First]
  /\ inbuf = [a \in Anchor |-> <<>>]
  /\ hist = [a \in Anchor |-> <<>>]
  /\ hsn = 0
  /\ restarted = [a \in Anchor |-> FALSE]
  /\ waiting = FALSE
  /\ pc = "idle"
  /\ ii = 0
  /\ nout = 1
  /\ outCount = 0
  /\ snap = NoSnap
  /\ trouble = FALSE

Scan ==
  \/ Return
  \/ NoteRestart
  \/ AllRestarted
  \/ DropWaiting
  \/ RaiseHsn
  \/ DetectRestart
  \/ DropStale
  \/ Accept
  \/ Publish
  \/ SpinFull

Next == Call \/ Scan \/ \E a \in Anchor : Arrive(a)

(* The block's thread keeps running and every source keeps sending. *)
Fairness ==
  /\ WF_vars(Call)
  /\ WF_vars(Scan)
  /\ \A a \in Anchor : WF_vars(Arrive(a))

Spec == Init /\ [][Next]_vars
FairSpec == Spec /\ Fairness
-----------------------------------------------------------------------------
(* Properties *)

(* Types of the state of the block and of its inputs. *)
TypeOK ==
  /\ src \in [Anchor -> [lap : 1 .. Laps + 1, seq : 0 .. LastSeq]]
  /\ inbuf \in [Anchor -> Seq(Frame)]
  /\ hist \in [Anchor -> Seq(Frame)]
  /\ hsn \in 0 .. LastSeq
  /\ restarted \in [Anchor -> BOOLEAN]
  /\ waiting \in BOOLEAN
  /\ pc \in {"idle", "scan"}
  /\ ii \in 0 .. NAnchors
  /\ nout \in 1 .. MaxOut
  /\ outCount \in 0 .. nout
  /\ snap \in [Anchor -> Frame] \cup {NoSnap}
  /\ trouble \in BOOLEAN

(* A published snapshot has one sequence number for all anchors but the
   first, and the first is never behind them (general_work, the scan that
   precedes the copy to the output). *)
FollowersAgree ==
  snap # NoSnap =>
    \A a \in Followers :
      /\ snap[a].seq <= snap[0].seq
      /\ \A b \in Followers : snap[a].seq = snap[b].seq

(* What the comment before the copy says: when snapshot_flag is still set,
   the frames at the heads of all histories are of one sequence number. *)
Aligned ==
  snap # NoSnap => \A a, b \in Anchor : snap[a].seq = snap[b].seq

(* Until the first anchor loses a frame or an anchor starts over, what
   general_work publishes is of one sweep, whatever the others lose. *)
AlignedTillTrouble == ~trouble => Aligned

\* A snapshot goes to the output, perhaps one equal to the last.
Publishes == outCount' = outCount + 1

(* An anchor's frames are published in the order they were sent, and none is
   published twice, neither by the same call nor by a later one: every
   publication erases what it copied. *)
PublishInOrder ==
  [][snap # NoSnap /\ Publishes =>
       \A a \in Anchor : Later(snap'[a], snap[a])]_vars

(* Nothing is published while the block waits for all anchors to start over,
   although the copy to the output does not test d_wait_for_restart: the scan
   cannot get past the last anchor in that mode. *)
QuietWhileWaiting == [][Publishes => ~waiting]_vars

(* The scan never finds a whole snapshot when the output is full: it would
   repeat without erasing anything, and the call would not return. *)
NeverSpins == ~(pc = "scan" /\ ii = NAnchors /\ outCount >= nout)

(* An anchor that no one catches up with holds a bounded history: the cap is
   tested before a whole input is appended, hence the excess. *)
HistoryBounded == \A a \in Anchor : Len(hist[a]) < HistCap + MaxChunk

(* With no frame missing and none numbered anew, no sweep is skipped: the next
   publication is the next frame of every anchor. *)
NoSweepSkipped ==
  [][snap # NoSnap /\ Publishes =>
       \A a \in Anchor : snap'[a].lap = snap[a].lap =>
                             snap'[a].seq = snap[a].seq + 1]_vars

(* A call of general_work returns. *)
CallReturns == pc = "scan" ~> pc = "idle"

(* Once one anchor is seen to start over, the block gets back to publishing. *)
WaitEnds == waiting ~> ~waiting
=============================================================================
