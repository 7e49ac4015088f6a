------------------------- MODULE StreamParserProofs -------------------------
(***************************************************************************)
(* Proofs about StreamParser, for every number of anchors, every gap, cap  *)
(* and length of the streams: what the scan keeps, the length of the       *)
(* histories, alignment, order of publication, and completeness.           *)
(***************************************************************************)
EXTENDS StreamParser, SequenceTheorems, TLAPS

(* The anchors the scan has passed hold an acceptable frame. *)
PassedAccepted ==
  pc = "scan" /\ ~waiting =>
    \A a \in Anchor : a < ii =>
      /\ hist[a] # <<>>
      /\ Head(hist[a]).seq >= hsn
      /\ a # 0 => Head(hist[a]).seq = hsn

(* While waiting, the anchors the scan has passed have started over, and some
   anchor has not. *)
PassedRestarted ==
  pc = "scan" /\ waiting /\ ii > 0 =>
    /\ \A a \in Anchor : a < ii => restarted[a]
    /\ \E a \in Anchor : ~restarted[a]

ScanInv == TypeOK /\ PassedAccepted /\ PassedRestarted /\ FollowersAgree

-----------------------------------------------------------------------------
(* What the sequence operators do to a history. *)
LEMMA HeadTail ==
  ASSUME NEW S, NEW s \in Seq(S), s # <<>>
  PROVE  /\ Head(s) \in S
         /\ Tail(s) \in Seq(S)
         /\ Len(s) \in Nat \ {0}
         /\ Len(Tail(s)) = Len(s) - 1
OBVIOUS

(* The frame scanned is a frame; its number is a natural number. *)
LEMMA ScannedFrame ==
  ASSUME TypeOK, Scanning
  PROVE  /\ ii \in Anchor
         /\ hist[ii] \in Seq(Frame)
         /\ Head(hist[ii]) \in Frame
         /\ Tail(hist[ii]) \in Seq(Frame)
         /\ seqNum \in 0 .. LastSeq
<1>1. ii \in Anchor
  BY ParserAssumption DEF TypeOK, Scanning, Anchor
<1>2. hist[ii] \in Seq(Frame) /\ hist[ii] # <<>>
  BY <1>1 DEF TypeOK, Scanning
<1>3. Head(hist[ii]) \in Frame /\ Tail(hist[ii]) \in Seq(Frame)
  BY <1>2, HeadTail
<1> QED
  BY <1>1, <1>2, <1>3 DEF seqNum, Frame

-----------------------------------------------------------------------------
(* Type correctness.  Head(hist[a]) is a frame when a snapshot is published
   only because the scan has accepted one of every anchor, so the types need
   the scan's invariant, and the two are proved together. *)

LEMMA InitScanInv == Init => ScanInv
<1> SUFFICES ASSUME Init PROVE ScanInv
  OBVIOUS
<1> USE ParserAssumption
<1>1. src \in [Anchor -> [lap : 1 .. Laps + 1, seq : 0 .. LastSeq]]
  BY DEF Init, First
<1>2. inbuf \in [Anchor -> Seq(Frame)] /\ hist \in [Anchor -> Seq(Frame)]
  BY DEF Init
<1>3. restarted \in [Anchor -> BOOLEAN] /\ waiting \in BOOLEAN /\ trouble \in BOOLEAN
  BY DEF Init
<1>4. /\ hsn \in 0 .. LastSeq /\ pc \in {"idle", "scan"} /\ ii \in 0 .. NAnchors
      /\ nout \in 1 .. MaxOut /\ outCount \in 0 .. nout
      /\ snap \in [Anchor -> Frame] \cup {NoSnap}
  BY DEF Init
<1>5. TypeOK
  BY <1>1, <1>2, <1>3, <1>4 DEF TypeOK
<1>6. PassedAccepted /\ PassedRestarted /\ FollowersAgree
  BY DEF Init, PassedAccepted, PassedRestarted, FollowersAgree
<1> QED
  BY <1>5, <1>6 DEF ScanInv

LEMMA PublishesFrames ==
  ASSUME ScanInv, Publish
  PROVE  /\ ~waiting
         /\ \A a \in Anchor : /\ hist[a] # <<>>
                              /\ Head(hist[a]) \in Frame
                              /\ Tail(hist[a]) \in Seq(Frame)
<1>1. ii > 0 /\ \A a \in Anchor : a < ii
  BY ParserAssumption DEF Publish, Anchor
<1>2. ~waiting
  BY <1>1 DEF ScanInv, PassedRestarted, Publish, TypeOK
<1>3. \A a \in Anchor : hist[a] # <<>> /\ hist[a] \in Seq(Frame)
  BY <1>1, <1>2 DEF ScanInv, PassedAccepted, Publish, TypeOK
<1> QED
  BY <1>2, <1>3, HeadTail

LEMMA NextTypeOK == ScanInv /\ [Next]_vars => TypeOK'
<1> SUFFICES ASSUME ScanInv, [Next]_vars PROVE TypeOK'
  OBVIOUS
<1> USE ParserAssumption
<1>0. TypeOK
  BY DEF ScanInv
<1>1. ASSUME NEW a \in Anchor, Arrive(a) PROVE TypeOK'
  <2>1. PICK f \in Sendable(a) :
          /\ inbuf' = [inbuf EXCEPT ![a] = Append(@, f)]
          /\ src' = [src EXCEPT ![a] = Succ(f)]
    BY <1>1 DEF Arrive
  <2>2. f \in Frame
    BY <2>1 DEF Sendable
  <2>3. Succ(f) \in [lap : 1 .. Laps + 1, seq : 0 .. LastSeq]
    BY <2>2 DEF Succ, Frame
  <2>4. src' \in [Anchor -> [lap : 1 .. Laps + 1, seq : 0 .. LastSeq]]
    BY <1>0, <2>1, <2>3 DEF TypeOK
  <2>5. Append(inbuf[a], f) \in Seq(Frame)
    BY <1>0, <2>2 DEF TypeOK
  <2>6. inbuf' \in [Anchor -> Seq(Frame)]
    BY <1>0, <2>1, <2>5 DEF TypeOK
  <2>7. trouble' \in BOOLEAN
    BY <1>1 DEF Arrive
  <2> QED
    BY <1>0, <1>1, <2>4, <2>6, <2>7 DEF Arrive, TypeOK
<1>2. CASE Call
  <2>1. ASSUME NEW a \in Anchor PROVE hist[a] \o inbuf[a] \in Seq(Frame)
    BY <1>0 DEF TypeOK
  <2>2. hist' \in [Anchor -> Seq(Frame)] /\ inbuf' \in [Anchor -> Seq(Frame)]
    BY <1>0, <1>2, <2>1 DEF Call, TypeOK
  <2> QED
    BY <1>0, <1>2, <2>2 DEF Call, TypeOK
<1>3. CASE Return
  BY <1>0, <1>3 DEF Return, TypeOK, upstream
<1>4. CASE NoteRestart
  <2>1. ii \in Anchor /\ ii' = ii + 1
    BY <1>0, <1>4, ScannedFrame DEF NoteRestart
  <2>2. ii' \in 0 .. NAnchors
    BY <2>1 DEF Anchor
  <2>3. restarted' \in [Anchor -> BOOLEAN]
    BY <1>0, <1>4, <2>1 DEF NoteRestart, TypeOK
  <2> QED
    BY <1>0, <1>4, <2>2, <2>3 DEF NoteRestart, TypeOK, upstream
<1>5. CASE AllRestarted
  <2>1. restarted' \in [Anchor -> BOOLEAN]
    BY <1>5 DEF AllRestarted
  <2>2. hsn' \in 0 .. LastSeq
    BY <1>0, <1>5, ScannedFrame DEF AllRestarted
  <2>3. waiting' \in BOOLEAN
    BY <1>5, Zenon DEF AllRestarted
  <2>4. /\ ii' \in 0 .. NAnchors
        /\ UNCHANGED <<src, inbuf, trouble, hist, pc, nout, outCount, snap>>
    BY <1>5 DEF AllRestarted, upstream, Rescan
  <2> QED
    BY <1>0, <2>1, <2>2, <2>3, <2>4 DEF TypeOK
<1>6. CASE DropWaiting
  BY <1>0, <1>6, ScannedFrame DEF DropWaiting, DropHead, TypeOK, upstream, Rescan
<1>7. CASE RaiseHsn
  BY <1>0, <1>7, ScannedFrame DEF RaiseHsn, TypeOK, upstream, Rescan
<1>8. CASE DetectRestart
  BY <1>0, <1>8, ScannedFrame DEF DetectRestart, TypeOK, upstream, Rescan
<1>9. CASE DropStale
  BY <1>0, <1>9, ScannedFrame DEF DropStale, DropHead, TypeOK, upstream, Rescan
<1>10. CASE Accept
  <2>1. ii \in Anchor /\ ii' = ii + 1
    BY <1>0, <1>10, ScannedFrame DEF Accept
  <2>2. ii' \in 0 .. NAnchors
    BY <2>1 DEF Anchor
  <2> QED
    BY <1>0, <1>10, <2>2 DEF Accept, TypeOK, upstream
<1>11. CASE Publish
  <2>1. snap' \in [Anchor -> Frame] /\ hist' \in [Anchor -> Seq(Frame)]
    BY <1>11, PublishesFrames DEF Publish
  <2> QED
    BY <1>0, <1>11, <2>1 DEF Publish, TypeOK, upstream, Rescan
<1>12. CASE SpinFull
  BY <1>0, <1>12 DEF SpinFull, TypeOK, upstream, Rescan
<1>13. CASE UNCHANGED vars
  BY <1>0, <1>13 DEF TypeOK, vars
<1> QED
  BY <1>1, <1>2, <1>3, <1>4, <1>5, <1>6, <1>7, <1>8, <1>9, <1>10, <1>11, <1>12,
     <1>13 DEF Next, Scan

-----------------------------------------------------------------------------
(* The scan keeps its own invariant.  A step that ends at the first anchor
   (Rescan) has passed none, so only Accept and NoteRestart extend it, and
   Call may only lengthen histories. *)

LEMMA NextPassedAccepted == ScanInv /\ [Next]_vars => PassedAccepted'
<1> SUFFICES ASSUME ScanInv, [Next]_vars, (pc = "scan" /\ ~waiting)',
                    NEW a \in Anchor, a < ii'
             PROVE  (/\ hist[a] # <<>>
                     /\ Head(hist[a]).seq >= hsn
                     /\ a # 0 => Head(hist[a]).seq = hsn)'
  BY DEF PassedAccepted
<1> USE ParserAssumption
<1>0. TypeOK /\ PassedAccepted
  BY DEF ScanInv
<1>1. ~(ii' = 0)
  BY DEF Anchor
<1>2. CASE Accept
  <2>1. ii \in Anchor /\ seqNum \in 0 .. LastSeq
    BY <1>0, <1>2, ScannedFrame DEF Accept
  <2>2. a < ii \/ a = ii
    BY <1>2, <2>1 DEF Accept, Anchor
  <2>3. CASE a < ii
    BY <1>0, <1>2, <2>3 DEF Accept, PassedAccepted, Scanning
  <2>4. CASE a = ii
    <3>1. hist'[a] # <<>> /\ Head(hist'[a]).seq = seqNum
      BY <1>2, <2>4 DEF Accept, Scanning, seqNum
    <3>2. seqNum >= hsn /\ (a # 0 => seqNum = hsn)
      BY <1>0, <1>2, <2>1, <2>4 DEF Accept, TypeOK
    <3> QED
      BY <1>2, <3>1, <3>2 DEF Accept
  <2> QED
    BY <2>2, <2>3, <2>4
<1>3. CASE NoteRestart
  BY <1>3 DEF NoteRestart
<1>4. CASE \E b \in Anchor : Arrive(b)
  BY <1>0, <1>4 DEF Arrive, PassedAccepted
<1>5. CASE UNCHANGED vars
  BY <1>0, <1>5 DEF vars, PassedAccepted
<1>6. CASE Return
  BY <1>6 DEF Return
<1> QED
  BY <1>1, <1>2, <1>3, <1>4, <1>5, <1>6 DEF Next, Scan, Call, AllRestarted,
     DropWaiting, RaiseHsn, DetectRestart, DropStale, Publish, SpinFull, Rescan

LEMMA NextPassedRestarted == ScanInv /\ [Next]_vars => PassedRestarted'
<1> SUFFICES ASSUME ScanInv, [Next]_vars, (pc = "scan" /\ waiting /\ ii > 0)'
             PROVE  (/\ \A a \in Anchor : a < ii => restarted[a]
                     /\ \E a \in Anchor : ~restarted[a])'
  BY DEF PassedRestarted
<1> USE ParserAssumption
<1>0. TypeOK /\ PassedRestarted
  BY DEF ScanInv
<1>1. ~(ii' = 0)
  OBVIOUS
<1>2. CASE NoteRestart
  <2>1. ii \in Anchor
    BY <1>0, <1>2, ScannedFrame DEF NoteRestart
  <2>2. restarted'[ii] /\ \A a \in Anchor \ {ii} : restarted'[a] = restarted[a]
    BY <1>0, <1>2, <2>1 DEF NoteRestart, TypeOK
  <2>3. \E a \in Anchor : ~restarted'[a]
    BY <1>2, <2>2 DEF NoteRestart
  <2>4. ASSUME NEW a \in Anchor, a < ii' PROVE restarted'[a]
    <3>1. a = ii \/ (a < ii /\ ii > 0)
      BY <1>2, <2>1, <2>4 DEF NoteRestart, Anchor
    <3>2. CASE a = ii
      BY <2>2, <3>2
    <3>3. CASE a # ii /\ a < ii /\ ii > 0
      <4>1. restarted[a]
        BY <1>0, <1>2, <3>3 DEF NoteRestart, Scanning, PassedRestarted
      <4> QED
        BY <2>2, <3>3, <4>1
    <3> QED
      BY <3>1, <3>2, <3>3
  <2> QED
    BY <2>3, <2>4
<1>3. CASE Accept
  BY <1>3 DEF Accept
<1>4. CASE \E b \in Anchor : Arrive(b)
  BY <1>0, <1>4 DEF Arrive, PassedRestarted
<1>5. CASE UNCHANGED vars
  BY <1>0, <1>5 DEF vars, PassedRestarted
<1>6. CASE Return
  BY <1>6 DEF Return
<1> QED
  BY <1>1, <1>2, <1>3, <1>4, <1>5, <1>6 DEF Next, Scan, Call, AllRestarted,
     DropWaiting, RaiseHsn, DetectRestart, DropStale, Publish, SpinFull, Rescan

(* What a publication takes satisfies FollowersAgree. *)
LEMMA NextFollowersAgree == ScanInv /\ [Next]_vars => FollowersAgree'
<1> SUFFICES ASSUME ScanInv, [Next]_vars PROVE FollowersAgree'
  OBVIOUS
<1>1. CASE Publish
  <2>1. /\ snap' = [a \in Anchor |-> Head(hist[a])]
        /\ \A a \in Anchor : a < ii
    BY <1>1, ParserAssumption DEF Publish, Anchor
  <2>2. \A a \in Anchor : /\ Head(hist[a]) \in Frame
                          /\ Head(hist[a]).seq >= hsn
                          /\ a # 0 => Head(hist[a]).seq = hsn
    BY <1>1, <2>1, PublishesFrames DEF ScanInv, PassedAccepted, Publish
  <2>3. 0 \in Anchor
    BY ParserAssumption DEF Anchor
  <2>4. \A a \in Followers : snap'[a].seq = hsn
    BY <2>1, <2>2 DEF Followers
  <2>5. snap'[0].seq >= hsn
    BY <2>1, <2>2, <2>3
  <2>6. snap'[0].seq \in Int /\ hsn \in Int
    BY <2>1, <2>2, <2>3 DEF Frame, ScanInv, TypeOK
  <2> QED
    BY <2>4, <2>5, <2>6 DEF FollowersAgree
<1>2. CASE UNCHANGED snap
  BY <1>2 DEF FollowersAgree, ScanInv
<1> QED
  BY <1>1, <1>2 DEF Next, Scan, Arrive, Call, Return, NoteRestart, AllRestarted,
     DropWaiting, RaiseHsn, DetectRestart, DropStale, Accept, SpinFull, vars

(* The types of the block's state, and that the followers of a published
   snapshot always agree on its number (whatever the anchors lose, and however
   often they start over). *)
THEOREM FollowersAlwaysAgree == Spec => [](TypeOK /\ FollowersAgree)
<1>1. ScanInv /\ [Next]_vars => ScanInv'
  BY NextTypeOK, NextPassedAccepted, NextPassedRestarted, NextFollowersAgree
  DEF ScanInv
<1>2. ScanInv => TypeOK /\ FollowersAgree
  BY DEF ScanInv
<1> QED
  BY InitScanInv, <1>1, <1>2, PTL DEF Spec

(* Only a publication counts one more: a call starts from none. *)
LEMMA OnlyPublishPublishes == ASSUME TypeOK, Next, Publishes PROVE Publish
<1>1. outCount \in Nat
  BY ParserAssumption DEF TypeOK
<1>2. ~Call
  <2> SUFFICES ASSUME Call PROVE FALSE
    OBVIOUS
  <2>1. outCount' = 0
    BY DEF Call
  <2>2. outCount' = outCount + 1
    BY DEF Publishes
  <2> QED
    BY <1>1, <2>1, <2>2
<1> QED
  BY <1>1, <1>2 DEF Next, Scan, Arrive, Return, NoteRestart, AllRestarted,
     DropWaiting, RaiseHsn, DetectRestart, DropStale, Accept, SpinFull, Publishes

(* The copy to the output does not test d_wait_for_restart, and need not:
   no snapshot is published while the block waits. *)
THEOREM QuietWhileWaitingHolds == Spec => QuietWhileWaiting
<1>1. ScanInv /\ [Next]_vars => [Publishes => ~waiting]_vars
  <2> SUFFICES ASSUME ScanInv, Next, Publishes PROVE ~waiting
    OBVIOUS
  <2>1. Publish
    BY OnlyPublishPublishes DEF ScanInv
  <2> QED
    BY <2>1, PublishesFrames
<1>2. ScanInv /\ [Next]_vars => ScanInv'
  BY NextTypeOK, NextPassedAccepted, NextPassedRestarted, NextFollowersAgree
  DEF ScanInv
<1> QED
  BY InitScanInv, <1>1, <1>2, PTL DEF Spec, QuietWhileWaiting

-----------------------------------------------------------------------------
(* Lengths.  Between calls some history is empty: that is why the last call
   returned.  So that anchor can contribute no more frames to a call than an
   input holds, and each publication uses up one of them. *)

InputsBounded == \A a \in Anchor : Len(inbuf[a]) <= MaxChunk

SomeoneShort ==
  /\ pc = "idle" => \E a \in Anchor : hist[a] = <<>>
  /\ pc = "scan" => \E a \in Anchor : Len(hist[a]) + outCount <= MaxChunk

LengthInv == ScanInv /\ InputsBounded /\ HistoryBounded /\ SomeoneShort

LEMMA InitLengthInv == Init => LengthInv
<1> SUFFICES ASSUME Init PROVE LengthInv
  OBVIOUS
<1>1. 0 \in Anchor
  BY ParserAssumption DEF Anchor
<1>2. InputsBounded /\ HistoryBounded
  BY ParserAssumption DEF Init, InputsBounded, HistoryBounded
<1>3. SomeoneShort
  BY <1>1 DEF Init, SomeoneShort
<1> QED
  BY <1>2, <1>3, InitScanInv DEF LengthInv

(* A step other than Arrive and Call leaves every history as it is or takes
   its head off. *)
LEMMA ScanShortens ==
  ASSUME TypeOK, NEW a \in Anchor, hist'[a] = hist[a] \/ (hist[a] # <<>> /\ hist'[a] = Tail(hist[a]))
  PROVE  /\ Len(hist[a]) \in Nat /\ Len(hist'[a]) \in Nat
         /\ Len(hist'[a]) <= Len(hist[a])
<1>1. hist[a] \in Seq(Frame) /\ Len(hist[a]) \in Nat
  BY DEF TypeOK
<1>2. CASE hist'[a] = hist[a]
  BY <1>1, <1>2
<1>3. CASE hist[a] # <<>> /\ hist'[a] = Tail(hist[a])
  BY <1>1, <1>3, HeadTail
<1> QED
  BY <1>2, <1>3

(* Arithmetic of a call and of a publication. *)
LEMMA SumBound ==
  ASSUME NEW h \in Nat, NEW b \in Nat, NEW c \in Nat, NEW m \in Nat, h < c, b <= m
  PROVE  h + b \in Nat /\ h + b < c + m /\ (h = 0 => h + b <= m)
OBVIOUS

LEMMA OneOut ==
  ASSUME NEW h \in Nat \ {0}, NEW k \in Nat, NEW m \in Nat, h + k <= m
  PROVE  (h - 1) + (k + 1) <= m
OBVIOUS

LEMMA NextLengthInv == LengthInv /\ [Next]_vars => LengthInv'
<1> USE ParserAssumption
<1> SUFFICES ASSUME LengthInv, [Next]_vars
             PROVE  InputsBounded' /\ HistoryBounded' /\ SomeoneShort'
  BY NextTypeOK, NextPassedAccepted, NextPassedRestarted, NextFollowersAgree
  DEF ScanInv, LengthInv
<1>0. TypeOK /\ ScanInv /\ InputsBounded /\ HistoryBounded /\ SomeoneShort
  BY DEF LengthInv, ScanInv
<1>2. ASSUME NEW a \in Anchor, Arrive(a)
      PROVE  InputsBounded' /\ HistoryBounded' /\ SomeoneShort'
  <2>1. PICK f \in Frame : inbuf' = [inbuf EXCEPT ![a] = Append(@, f)]
    BY <1>2 DEF Arrive, Sendable
  <2>2. Len(Append(inbuf[a], f)) = Len(inbuf[a]) + 1 /\ Len(inbuf[a]) \in Nat
    BY <1>0 DEF TypeOK
  <2>3. InputsBounded'
    BY <1>0, <1>2, <2>1, <2>2 DEF Arrive, InputsBounded, TypeOK
  <2> QED
    BY <1>0, <1>2, <2>3 DEF Arrive, HistoryBounded, SomeoneShort
<1>3. CASE Call
  <2>1. \A a \in Anchor : hist[a] \in Seq(Frame) /\ inbuf[a] \in Seq(Frame)
    BY <1>0 DEF TypeOK
  <2>2. \A a \in Anchor : Len(hist[a] \o inbuf[a]) = Len(hist[a]) + Len(inbuf[a])
    BY <2>1
  <2>3. \A a \in Anchor : Len(hist[a]) \in Nat /\ Len(inbuf[a]) \in Nat
    BY <2>1
  <2>4. InputsBounded'
    BY <1>0, <1>3 DEF Call, InputsBounded
  <2>5. ASSUME NEW a \in Anchor
        PROVE  /\ Len(hist'[a]) \in Nat
               /\ Len(hist'[a]) < HistCap + MaxChunk
               /\ Len(hist[a]) = 0 => Len(hist'[a]) <= MaxChunk
    <3>1. /\ Len(inbuf[a]) <= MaxChunk /\ Len(hist[a]) < HistCap + MaxChunk
          /\ Len(hist[a]) \in Nat /\ Len(inbuf[a]) \in Nat
      BY <1>0, <2>3 DEF InputsBounded, HistoryBounded
    <3>2. CASE Len(hist[a]) < HistCap
      <4>1. hist'[a] = hist[a] \o inbuf[a]
        BY <1>3, <3>2 DEF Call
      <4>2. Len(hist'[a]) = Len(hist[a]) + Len(inbuf[a])
        BY <2>2, <4>1
      <4>3. HistCap \in Nat /\ MaxChunk \in Nat
        OBVIOUS
      <4>4. /\ Len(hist[a]) + Len(inbuf[a]) \in Nat
            /\ Len(hist[a]) + Len(inbuf[a]) < HistCap + MaxChunk
            /\ Len(hist[a]) = 0 => Len(hist[a]) + Len(inbuf[a]) <= MaxChunk
        BY ONLY <3>1, <3>2, <4>3, SumBound
      <4> QED
        BY ONLY <4>2, <4>4, Zenon
    <3>3. CASE ~(Len(hist[a]) < HistCap)
      <4>1. hist'[a] = hist[a]
        BY <1>3, <3>3 DEF Call
      <4>2. Len(hist'[a]) = Len(hist[a])
        BY <4>1
      <4> QED
        BY <2>3, <3>1, <3>3, <4>2
    <3> QED
      BY <3>2, <3>3
  <2>6. HistoryBounded'
    BY <2>5 DEF HistoryBounded
  <2>7. PICK a \in Anchor : hist[a] = <<>>
    BY <1>0, <1>3 DEF SomeoneShort, Call
  <2>8. Len(hist'[a]) <= MaxChunk /\ Len(hist'[a]) \in Nat
    <3>1. Len(hist[a]) = 0
      BY <2>7
    <3> QED
      BY <2>5, <3>1
  <2>9. SomeoneShort'
    <3>1. outCount' = 0 /\ pc' = "scan"
      BY <1>3 DEF Call
    <3>2. Len(hist'[a]) + outCount' <= MaxChunk
      BY <2>8, <3>1
    <3> QED
      BY <3>1, <3>2 DEF SomeoneShort
  <2> QED
    BY <2>4, <2>6, <2>9
<1>4. CASE Return
  <2>1. ii \in Anchor
    BY <1>0, <1>4 DEF Return, TypeOK, Anchor
  <2>2. SomeoneShort'
    BY <1>4, <2>1 DEF Return, SomeoneShort
  <2> QED
    BY <1>0, <1>4, <2>2 DEF Return, InputsBounded, HistoryBounded, upstream
<1>5. CASE Publish
  <2>1. \A a \in Anchor : hist[a] # <<>> /\ hist'[a] = Tail(hist[a])
    BY <1>0, <1>5, PublishesFrames DEF Publish
  <2>2. \A a \in Anchor : /\ Len(hist[a]) \in Nat \ {0}
                          /\ Len(hist'[a]) = Len(hist[a]) - 1
    BY <1>0, <2>1, HeadTail DEF TypeOK
  <2>3. InputsBounded' /\ HistoryBounded'
    BY <1>0, <1>5, <2>2 DEF Publish, upstream, InputsBounded, HistoryBounded
  <2>4. PICK a \in Anchor : Len(hist[a]) + outCount <= MaxChunk
    BY <1>0, <1>5 DEF Publish, SomeoneShort
  <2>5. Len(hist'[a]) + outCount' <= MaxChunk
    <3>1. outCount \in Nat /\ outCount' = outCount + 1
      BY <1>0, <1>5 DEF Publish, TypeOK
    <3>2. MaxChunk \in Nat
      OBVIOUS
    <3> QED
      BY <2>2, <2>4, <3>1, <3>2, OneOut
  <2>6. SomeoneShort'
    BY <1>5, <2>5 DEF Publish, SomeoneShort
  <2> QED
    BY <2>3, <2>6
<1>6. CASE DropWaiting \/ DropStale
  <2>1. \A a \in Anchor : hist'[a] = hist[a] \/ (hist[a] # <<>> /\ hist'[a] = Tail(hist[a]))
    BY <1>0, <1>6 DEF DropWaiting, DropStale, DropHead, Scanning, TypeOK
  <2>2. \A a \in Anchor : /\ Len(hist[a]) \in Nat /\ Len(hist'[a]) \in Nat
                          /\ Len(hist'[a]) <= Len(hist[a])
    BY <1>0, <2>1, ScanShortens
  <2>3. InputsBounded' /\ HistoryBounded'
    BY <1>0, <1>6, <2>2 DEF DropWaiting, DropStale, upstream, InputsBounded,
       HistoryBounded
  <2>4. pc = "scan" /\ pc' = "scan" /\ outCount' = outCount /\ outCount \in Nat
    BY <1>0, <1>6 DEF DropWaiting, DropStale, Scanning, TypeOK
  <2>5. PICK a \in Anchor : Len(hist[a]) + outCount <= MaxChunk
    BY <1>0, <2>4 DEF SomeoneShort
  <2>6. Len(hist'[a]) + outCount' <= MaxChunk
    BY <2>2, <2>4, <2>5
  <2>7. SomeoneShort'
    BY <2>4, <2>6 DEF SomeoneShort
  <2> QED
    BY <2>3, <2>7
<1>7. ASSUME UNCHANGED <<inbuf, hist, pc, outCount>>
      PROVE  InputsBounded' /\ HistoryBounded' /\ SomeoneShort'
  BY <1>0, <1>7 DEF InputsBounded, HistoryBounded, SomeoneShort
<1> QED
  BY <1>2, <1>3, <1>4, <1>5, <1>6, <1>7 DEF Next, Scan,
     NoteRestart, AllRestarted, RaiseHsn, DetectRestart, Accept, SpinFull,
     upstream, vars

(* The history of an anchor never grows beyond the cap by more than one
   input, whatever the other anchors do. *)
THEOREM HistoryAlwaysBounded == Spec => []HistoryBounded
<1>1. LengthInv => HistoryBounded
  BY DEF LengthInv
<1> QED
  BY InitLengthInv, NextLengthInv, <1>1, PTL DEF Spec

(* When an input cannot hold two frames, the scan never finds a snapshot it
   has no room to publish, so it never repeats without erasing anything. *)
THEOREM NeverSpinsHolds == MaxChunk = 1 => (Spec => []NeverSpins)
<1> SUFFICES ASSUME MaxChunk = 1 PROVE Spec => []NeverSpins
  OBVIOUS
<1>1. LengthInv => NeverSpins
  <2> SUFFICES ASSUME LengthInv, pc = "scan", ii = NAnchors, outCount >= nout
               PROVE  FALSE
    BY DEF NeverSpins
  <2>1. ii > 0 /\ \A a \in Anchor : a < ii
    BY ParserAssumption DEF Anchor
  <2>2. ~waiting
    BY <2>1 DEF LengthInv, ScanInv, PassedRestarted
  <2>3. \A a \in Anchor : hist[a] # <<>> /\ hist[a] \in Seq(Frame)
    BY <2>1, <2>2 DEF LengthInv, ScanInv, PassedAccepted, TypeOK
  <2>4. \A a \in Anchor : Len(hist[a]) \in Nat \ {0}
    BY <2>3, HeadTail
  <2>5. outCount \in Nat /\ outCount >= 1
    BY DEF LengthInv, ScanInv, TypeOK
  <2> QED
    BY <2>4, <2>5 DEF LengthInv, SomeoneShort
<1> QED
  BY InitLengthInv, NextLengthInv, <1>1, PTL DEF Spec

-----------------------------------------------------------------------------
(* When are snapshots aligned?  stream_parser raises hsn for every anchor but
   the first, so a gap in the first anchor's stream misaligns what it
   publishes.  This is the only way: until the first anchor's stream has a gap
   or an anchor numbers its frames anew, every snapshot is aligned, whatever
   the other anchors lose. *)


(* A sequence s of frames, followed by frames numbered nx and up: *)

\* none is numbered below n;
FloorOf(s, nx, n) ==
  /\ nx >= n
  /\ \A k \in 1 .. Len(s) : s[k].seq >= n

\* the numbers increase;
OrderedOf(s, nx) ==
  /\ \A k \in 1 .. Len(s) : s[k].seq < nx
  /\ \A k, l \in 1 .. Len(s) : k < l => s[k].seq < s[l].seq

\* they increase by one;
GaplessOf(s, nx) == \A k \in 1 .. Len(s) : s[k].seq + Len(s) - k + 1 = nx

\* the first number of all.
FirstOf(s, nx) == IF s = <<>> THEN nx ELSE Head(s).seq

(* The frames of anchor a that are yet to be published or dropped, and the
   number of the next one it may send. *)
Pending(a) == hist[a] \o inbuf[a]
NextSeq(a) == IF src[a].lap = 1 THEN src[a].seq ELSE LastSeq + 1

Floor(a, n) == FloorOf(Pending(a), NextSeq(a), n)
Next0 == FirstOf(Pending(0), NextSeq(0))

(* Numbers increase along the stream of an anchor ... *)
Ordered == \A a \in Anchor : OrderedOf(Pending(a), NextSeq(a))

(* ... and without a gap along that of the first. *)
Gapless == GaplessOf(Pending(0), NextSeq(0))

(* hsn is the number of a frame some anchor has sent, and that anchor has not
   started over: it cannot, its numbers only grow. *)
Owned == \E a \in Anchor : ~restarted[a] /\ Floor(a, hsn)

(* The first anchor is ahead of hsn only when all anchors are. *)
NoLead ==
  ~waiting => \/ Next0 <= hsn
              \/ Next0 = hsn + 1 /\ \A a \in Followers : Floor(a, hsn + 1)

(* Behind the second anchor, the scan has found the first one at hsn. *)
FirstAtHsn == pc = "scan" /\ ~waiting /\ ii > 1 => Head(hist[0]).seq = hsn

NoneRestarted == ~waiting => \A a \in Anchor : ~restarted[a]

NoneStartedOver == \A a \in Anchor : ~StartedOver(a)

AlignInv ==
  /\ NoneStartedOver
  /\ ScanInv /\ Ordered /\ Gapless /\ Owned /\ NoLead /\ FirstAtHsn
  /\ NoneRestarted /\ Aligned

-----------------------------------------------------------------------------
(* What appending a frame and taking the head off do to such a sequence. *)

LEMMA FrameSeq == \A f \in Frame : f.seq \in Nat
BY ParserAssumption DEF Frame

LEMMA AppendFrame ==
  ASSUME NEW s \in Seq(Frame), NEW nx \in Nat, NEW f \in Frame, f.seq >= nx
  PROVE  /\ OrderedOf(s, nx) => OrderedOf(Append(s, f), f.seq + 1)
         /\ \A n \in Nat : FloorOf(s, nx, n) => FloorOf(Append(s, f), f.seq + 1, n)
         /\ f.seq = nx => /\ GaplessOf(s, nx) => GaplessOf(Append(s, f), f.seq + 1)
                          /\ FirstOf(Append(s, f), f.seq + 1) = FirstOf(s, nx)
<1> DEFINE t == Append(s, f)
           m == Len(s)
<1>1. m \in Nat /\ Len(t) = m + 1 /\ t # <<>> /\ t[m + 1] = f
  BY AppendProperties, LenProperties
<1>2. \A k \in 1 .. m : t[k] = s[k]
  BY AppendProperties
<1>3. f.seq \in Nat /\ \A k \in 1 .. m : s[k].seq \in Nat
  <2>1. \A k \in 1 .. m : s[k] \in Frame
    BY ElementOfSeq
  <2> QED
    BY <2>1, FrameSeq
<1>4. f.seq = nx => FirstOf(t, f.seq + 1) = FirstOf(s, nx)
  <2>1. CASE s = <<>>
    BY <1>1, <2>1 DEF FirstOf
  <2>2. CASE s # <<>>
    BY <1>1, <2>2, HeadTailAppend DEF FirstOf
  <2> QED
    BY <2>1, <2>2
<1>5. \A k \in 1 .. Len(t) : k \in 1 .. m \/ (k = m + 1 /\ t[k] = f)
  BY <1>1
<1> HIDE DEF t, m
<1>6. ASSUME OrderedOf(s, nx) PROVE OrderedOf(t, f.seq + 1)
  <2>1. \A k \in 1 .. m : s[k].seq < nx
    BY <1>6 DEF OrderedOf, m
  <2>2. ASSUME NEW k \in 1 .. Len(t) PROVE t[k].seq < f.seq + 1
    BY <1>2, <1>3, <1>5, <2>1
  <2>3. ASSUME NEW k \in 1 .. Len(t), NEW l \in 1 .. Len(t), k < l
        PROVE  t[k].seq < t[l].seq
    <3>1. k \in 1 .. m /\ t[k] = s[k]
      BY <1>1, <1>2, <2>3
    <3>2. CASE l \in 1 .. m
      BY <1>2, <1>6, <2>3, <3>1, <3>2 DEF OrderedOf, m
    <3>3. CASE t[l] = f
      BY <1>3, <2>1, <3>1, <3>3
    <3> QED
      BY <1>5, <3>2, <3>3
  <2> QED
    BY <2>2, <2>3 DEF OrderedOf
<1>7. ASSUME NEW n \in Nat, FloorOf(s, nx, n) PROVE FloorOf(t, f.seq + 1, n)
  <2>1. nx >= n /\ \A k \in 1 .. m : s[k].seq >= n
    BY <1>7 DEF FloorOf, m
  <2>2. ASSUME NEW k \in 1 .. Len(t) PROVE t[k].seq >= n
    BY <1>2, <1>3, <1>5, <2>1
  <2> QED
    BY <1>3, <2>1, <2>2 DEF FloorOf
<1>8. ASSUME f.seq = nx, GaplessOf(s, nx) PROVE GaplessOf(t, f.seq + 1)
  <2>1. \A k \in 1 .. m : s[k].seq + m - k + 1 = nx
    BY <1>8 DEF GaplessOf, m
  <2>2. ASSUME NEW k \in 1 .. Len(t)
        PROVE  t[k].seq + Len(t) - k + 1 = f.seq + 1
    <3>1. CASE k \in 1 .. m
      BY <1>1, <1>2, <1>3, <1>8, <2>1, <3>1
    <3>2. CASE k = m + 1 /\ t[k] = f
      BY <1>1, <1>3, <3>2
    <3> QED
      BY <1>5, <3>1, <3>2
  <2> QED
    BY <2>2 DEF GaplessOf
<1> QED
  BY <1>4, <1>6, <1>7, <1>8 DEF t

(* Two neighbours of a gapless sequence. *)
LEMMA Neighbours ==
  ASSUME NEW x \in Nat, NEW y \in Nat, NEW m \in Nat, NEW n \in Nat,
         x + m - 1 + 1 = n, y + (m - 1) - 1 + 1 = n
  PROVE  y = x + 1
OBVIOUS

LEMMA DropFrame ==
  ASSUME NEW s \in Seq(Frame), s # <<>>, NEW nx \in Nat
  PROVE  /\ OrderedOf(s, nx) => /\ OrderedOf(Tail(s), nx)
                                /\ FloorOf(Tail(s), nx, Head(s).seq + 1)
                                /\ FloorOf(s, nx, Head(s).seq)
         /\ \A n \in Nat : FloorOf(s, nx, n) => /\ FloorOf(Tail(s), nx, n)
                                                /\ Head(s).seq >= n
         /\ GaplessOf(s, nx) => /\ GaplessOf(Tail(s), nx)
                                /\ FirstOf(Tail(s), nx) = Head(s).seq + 1
<1> DEFINE t == Tail(s)
           m == Len(s)
<1>1. t \in Seq(Frame) /\ Len(t) = m - 1 /\ m \in Nat \ {0} /\ Head(s) = s[1]
  BY HeadTailProperties, EmptySeq
<1>2. \A k \in 1 .. Len(t) : t[k] = s[k + 1]
  BY HeadTailProperties
<1>3. \A k \in 1 .. m : s[k].seq \in Nat
  <2>1. \A k \in 1 .. m : s[k] \in Frame
    BY ElementOfSeq
  <2> QED
    BY <2>1, FrameSeq
<1>4. t # <<>> => Head(t) = t[1] /\ Len(t) \in Nat \ {0}
  BY <1>1, EmptySeq
<1>5. t = <<>> => Len(t) = 0
  BY EmptySeq
<1> HIDE DEF t, m
<1>6. 1 \in 1 .. m /\ \A k \in 1 .. Len(t) : k + 1 \in 1 .. m /\ 1 < k + 1
  BY <1>1
<1>7. ASSUME OrderedOf(s, nx)
      PROVE  /\ OrderedOf(t, nx) /\ FloorOf(t, nx, s[1].seq + 1)
             /\ FloorOf(s, nx, s[1].seq)
  <2>1. /\ \A k \in 1 .. m : s[k].seq < nx
        /\ \A k, l \in 1 .. m : k < l => s[k].seq < s[l].seq
    BY <1>7 DEF OrderedOf, m
  <2>2. ASSUME NEW k \in 1 .. Len(t)
        PROVE  t[k].seq < nx /\ t[k].seq >= s[1].seq + 1
    BY <1>2, <1>3, <1>6, <2>1
  <2>3. ASSUME NEW k \in 1 .. Len(t), NEW l \in 1 .. Len(t), k < l
        PROVE  t[k].seq < t[l].seq
    <3>1. k + 1 < l + 1
      BY <2>3
    <3> QED
      BY <1>2, <1>6, <2>1, <3>1
  <2>4. ASSUME NEW k \in 1 .. m PROVE s[k].seq >= s[1].seq
    <3>1. k = 1 \/ 1 < k
      OBVIOUS
    <3> QED
      BY <1>3, <1>6, <2>1, <3>1
  <2>5. nx >= s[1].seq /\ nx >= s[1].seq + 1
    BY <1>3, <1>6, <2>1
  <2> QED
    BY <2>2, <2>3, <2>4, <2>5 DEF OrderedOf, FloorOf, m
<1>8. ASSUME NEW n \in Nat, FloorOf(s, nx, n)
      PROVE  FloorOf(t, nx, n) /\ s[1].seq >= n
  <2>1. nx >= n /\ \A k \in 1 .. m : s[k].seq >= n
    BY <1>8 DEF FloorOf, m
  <2>2. ASSUME NEW k \in 1 .. Len(t) PROVE t[k].seq >= n
    BY <1>2, <1>6, <2>1
  <2> QED
    BY <1>6, <2>1, <2>2 DEF FloorOf
<1>9. ASSUME GaplessOf(s, nx)
      PROVE  GaplessOf(t, nx) /\ FirstOf(t, nx) = s[1].seq + 1
  <2>1. \A k \in 1 .. m : s[k].seq + m - k + 1 = nx
    BY <1>9 DEF GaplessOf, m
  <2>2. ASSUME NEW k \in 1 .. Len(t) PROVE t[k].seq + Len(t) - k + 1 = nx
    <3>1. s[k + 1].seq + m - (k + 1) + 1 = nx /\ s[k + 1].seq \in Nat
      BY <1>3, <1>6, <2>1
    <3> QED
      BY <1>1, <1>2, <3>1
  <2>3. s[1].seq + m - 1 + 1 = nx /\ s[1].seq \in Nat
    BY <1>3, <1>6, <2>1
  <2>4. CASE t = <<>>
    <3>1. m = 1
      BY <1>1, <1>5, <2>4
    <3> QED
      BY <2>2, <2>3, <2>4, <3>1 DEF FirstOf, GaplessOf
  <2>5. CASE t # <<>>
    <3>1. 1 \in 1 .. Len(t)
      BY <1>4, <2>5
    <3>2. t[1].seq + Len(t) - 1 + 1 = nx /\ t[1].seq \in Nat
      BY <1>2, <1>3, <1>6, <2>2, <3>1
    <3>3. t[1].seq = s[1].seq + 1
      <4>1. t[1].seq + (m - 1) - 1 + 1 = nx /\ m \in Nat
        BY <1>1, <3>2
      <4> QED
        BY <2>3, <3>2, <4>1, Neighbours
    <3> QED
      BY <1>4, <2>2, <2>5, <3>3 DEF FirstOf, GaplessOf
  <2> QED
    BY <2>4, <2>5
<1> QED
  BY <1>1, <1>7, <1>8, <1>9 DEF t

-----------------------------------------------------------------------------
(* What the steps of stream_parser do to the pending frames of an anchor. *)

LEMMA PendingTypes ==
  ASSUME TypeOK, NEW a \in Anchor
  PROVE  /\ Pending(a) \in Seq(Frame) /\ NextSeq(a) \in Nat
         /\ hist[a] \in Seq(Frame) /\ inbuf[a] \in Seq(Frame)
<1>1. hist[a] \in Seq(Frame) /\ inbuf[a] \in Seq(Frame)
  BY DEF TypeOK
<1>2. Pending(a) \in Seq(Frame)
  BY <1>1, ConcatProperties DEF Pending
<1>3. src[a].seq \in Nat /\ LastSeq \in Nat
  BY ParserAssumption DEF TypeOK
<1>4. NextSeq(a) \in Nat
  BY <1>3 DEF NextSeq
<1> QED
  BY <1>1, <1>2, <1>4

LEMMA ConcatHead ==
  ASSUME NEW S, NEW s \in Seq(S), NEW t \in Seq(S), s # <<>>
  PROVE  /\ s \o t # <<>>
         /\ Head(s \o t) = Head(s)
         /\ Tail(s \o t) = Tail(s) \o t
<1> DEFINE c == s \o t
           m == Len(s)
           n == Len(t)
           l == Tail(c)
           r == Tail(s) \o t
<1>1. m \in Nat \ {0} /\ n \in Nat /\ c \in Seq(S) /\ Len(c) = m + n
  BY EmptySeq, LenProperties, ConcatProperties
<1>2. \A k \in 1 .. m + n : c[k] = IF k <= m THEN s[k] ELSE t[k - m]
  BY ConcatProperties
<1>3. c # <<>>
  BY ConcatEqualIffEmpty
<1>4. Head(c) = c[1] /\ Head(s) = s[1]
  BY <1>1, <1>3
<1>5. /\ Tail(s) \in Seq(S) /\ Len(Tail(s)) = m - 1
      /\ \A k \in 1 .. m - 1 : Tail(s)[k] = s[k + 1]
  BY HeadTailProperties
<1>6. /\ l \in Seq(S) /\ Len(l) = m + n - 1
      /\ \A k \in 1 .. m + n - 1 : l[k] = c[k + 1]
  BY <1>1, <1>3, HeadTailProperties
<1>7. /\ r \in Seq(S) /\ Len(r) = (m - 1) + n
      /\ \A k \in 1 .. (m - 1) + n :
           r[k] = IF k <= m - 1 THEN Tail(s)[k] ELSE t[k - (m - 1)]
  BY <1>5, ConcatProperties
<1> HIDE DEF c, m, n, l, r
<1>8. Head(c) = Head(s)
  BY <1>1, <1>2, <1>4
<1>9. Len(l) = Len(r) /\ Len(l) = m + n - 1
  BY <1>1, <1>6, <1>7
<1>10. ASSUME NEW k \in 1 .. Len(l) PROVE l[k] = r[k]
  <2>1. k \in 1 .. m + n - 1 /\ k \in 1 .. (m - 1) + n /\ k + 1 \in 1 .. m + n
    BY <1>1, <1>9
  <2>2. l[k] = IF k + 1 <= m THEN s[k + 1] ELSE t[(k + 1) - m]
    BY <1>2, <1>6, <2>1
  <2>3. CASE k <= m - 1
    BY <1>1, <1>5, <1>7, <2>1, <2>2, <2>3
  <2>4. CASE ~(k <= m - 1)
    <3>1. ~(k + 1 <= m) /\ (k + 1) - m = k - (m - 1)
      BY <1>1, <2>1, <2>4
    <3> QED
      BY <1>7, <2>1, <2>2, <2>4, <3>1
  <2> QED
    BY <2>3, <2>4
<1>11. l = r
  BY <1>6, <1>7, <1>9, <1>10, SeqEqual
<1> QED
  BY <1>3, <1>8, <1>11 DEF c, l, r

LEMMA ConcatAppend ==
  ASSUME NEW s \in Seq(Frame), NEW t \in Seq(Frame), NEW e \in Frame
  PROVE  s \o Append(t, e) = Append(s \o t, e)
<1> DEFINE m == Len(s)
           n == Len(t)
           x == Append(t, e)
           c == s \o t
           l == s \o x
           r == Append(c, e)
<1>1. m \in Nat /\ n \in Nat
  BY LenProperties
<1>2. /\ x \in Seq(Frame) /\ Len(x) = n + 1 /\ x[n + 1] = e
      /\ \A k \in 1 .. n : x[k] = t[k]
  BY AppendProperties
<1>3. /\ c \in Seq(Frame) /\ Len(c) = m + n
      /\ \A k \in 1 .. m + n : c[k] = IF k <= m THEN s[k] ELSE t[k - m]
  BY ConcatProperties
<1>4. /\ l \in Seq(Frame) /\ Len(l) = m + (n + 1)
      /\ \A k \in 1 .. m + (n + 1) : l[k] = IF k <= m THEN s[k] ELSE x[k - m]
  <2> HIDE DEF x
  <2>1. /\ l \in Seq(Frame) /\ Len(l) = m + Len(x)
        /\ \A k \in 1 .. m + Len(x) : l[k] = IF k <= m THEN s[k] ELSE x[k - m]
    BY <1>2, ConcatProperties
  <2> QED
    BY <1>2, <2>1
<1>5. /\ r \in Seq(Frame) /\ Len(r) = (m + n) + 1 /\ r[(m + n) + 1] = e
      /\ \A k \in 1 .. m + n : r[k] = c[k]
  <2> HIDE DEF c
  <2> QED
    BY <1>3, AppendProperties
<1> HIDE DEF m, n, x, c, l, r
<1>6. Len(l) = Len(r)
  BY <1>1, <1>4, <1>5
<1>7. ASSUME NEW k \in 1 .. Len(l) PROVE l[k] = r[k]
  <2>1. k \in 1 .. m + (n + 1) /\ (k \in 1 .. m + n \/ k = (m + n) + 1)
    BY <1>1, <1>4
  <2>2. CASE k = (m + n) + 1
    BY <1>1, <1>2, <1>4, <1>5, <2>1, <2>2
  <2>3. CASE k \in 1 .. m + n /\ k <= m
    BY <1>3, <1>4, <1>5, <2>1, <2>3
  <2>4. CASE k \in 1 .. m + n /\ ~(k <= m)
    <3>1. k - m \in 1 .. n
      BY <1>1, <2>4
    <3> QED
      BY <1>2, <1>3, <1>4, <1>5, <2>1, <2>4, <3>1
  <2> QED
    BY <2>1, <2>2, <2>3, <2>4
<1>8. l = r
  BY <1>4, <1>5, <1>6, <1>7, SeqEqual
<1> QED
  BY <1>8 DEF l, r, x, c

(* The frame scanned is the first pending one, and dropping it leaves the
   rest. *)
LEMMA PendingHead ==
  ASSUME TypeOK, NEW a \in Anchor, hist[a] # <<>>
  PROVE  /\ Pending(a) # <<>>
         /\ Head(Pending(a)) = Head(hist[a])
         /\ Tail(Pending(a)) = Tail(hist[a]) \o inbuf[a]
<1>1. hist[a] \in Seq(Frame) /\ inbuf[a] \in Seq(Frame)
  BY PendingTypes
<1> QED
  BY <1>1, ConcatHead DEF Pending

LEMMA PendingCall ==
  ASSUME TypeOK, Call, NEW a \in Anchor
  PROVE  Pending(a)' = Pending(a) /\ NextSeq(a)' = NextSeq(a)
<1>1. hist[a] \in Seq(Frame) /\ inbuf[a] \in Seq(Frame)
  BY PendingTypes
<1>2. hist[a] \o inbuf[a] \in Seq(Frame)
  BY <1>1, ConcatProperties
<1>3. (hist[a] \o inbuf[a]) \o <<>> = hist[a] \o inbuf[a]
  BY <1>2, ConcatEmptySeq
<1>4. Pending(a)' = Pending(a)
  BY <1>3 DEF Call, Pending
<1> QED
  BY <1>4 DEF Call, NextSeq

(* Before there is trouble, a frame that arrives is numbered NextSeq or above,
   and exactly NextSeq when it is of the first anchor. *)
LEMMA PendingArrive ==
  ASSUME TypeOK, NoneStartedOver, ~Troubled, NEW a \in Anchor, Arrive(a)
  PROVE  /\ \A b \in Anchor \ {a} : /\ Pending(b)' = Pending(b)
                                   /\ NextSeq(b)' = NextSeq(b)
         /\ \E f \in Frame : /\ f.seq >= NextSeq(a)
                             /\ a = 0 => f.seq = NextSeq(a)
                             /\ Pending(a)' = Append(Pending(a), f)
                             /\ NextSeq(a)' = f.seq + 1
<1>1. PICK f \in Sendable(a) : /\ inbuf' = [inbuf EXCEPT ![a] = Append(@, f)]
                               /\ src' = [src EXCEPT ![a] = Succ(f)]
  BY DEF Arrive
<1>5. src'[a] = Succ(f) /\ inbuf'[a] = Append(inbuf[a], f)
  BY <1>1 DEF TypeOK
<1>0. LastSeq \in Nat /\ Laps \in Nat
  BY ParserAssumption
<1>2. f \in Frame /\ f.lap = 1 /\ f.seq \in 0 .. LastSeq
  <2>1. f \in Frame /\ f.lap \in Nat \ {0} /\ f.seq \in 0 .. LastSeq
    BY <1>0, <1>1 DEF Sendable, Frame
  <2>2. ~Later(Succ(f), [lap |-> 2, seq |-> 0])
    BY <1>5 DEF Troubled, StartedOver
  <2> QED
    BY <1>0, <2>1, <2>2 DEF Later, Succ
<1>3. /\ src[a].lap \in Nat \ {0} /\ src[a].seq \in 0 .. LastSeq
      /\ f = src[a] \/ Later(f, src[a])
  BY <1>0, <1>1 DEF TypeOK, Sendable
<1>9. src[a].lap = 1 /\ f.seq >= src[a].seq
  BY <1>0, <1>2, <1>3 DEF Later
<1>10. ASSUME a = 0 PROVE f.seq = src[a].seq
  <2>1. Succ(f) = src[a] \/ Succ(f) = Succ(src[a])
    BY <1>5, <1>10 DEF Troubled
  <2> QED
    BY <1>0, <1>2, <1>3, <1>9, <2>1 DEF Succ
<1>4. f.seq >= NextSeq(a) /\ (a = 0 => f.seq = NextSeq(a))
  BY <1>9, <1>10 DEF NextSeq
<1>6. NextSeq(a)' = f.seq + 1
  BY <1>0, <1>2, <1>3, <1>5 DEF NextSeq, Succ
<1>7. Pending(a)' = Append(Pending(a), f)
  <2>1. hist[a] \in Seq(Frame) /\ inbuf[a] \in Seq(Frame)
    BY PendingTypes
  <2>2. hist[a] \o Append(inbuf[a], f) = Append(hist[a] \o inbuf[a], f)
    BY <1>2, <2>1, ConcatAppend
  <2> QED
    BY <1>5, <2>2 DEF Pending, Arrive
<1>8. ASSUME NEW b \in Anchor \ {a}
      PROVE  Pending(b)' = Pending(b) /\ NextSeq(b)' = NextSeq(b)
  BY <1>1 DEF Pending, NextSeq, TypeOK, Arrive
<1> QED
  BY <1>2, <1>4, <1>6, <1>7, <1>8

(* Any step leaves the pending frames of an anchor alone, drops the first, or
   appends one. *)
Same(a) == Pending(a)' = Pending(a) /\ NextSeq(a)' = NextSeq(a)
Dropped(a) ==
  /\ Pending(a) # <<>> /\ Pending(a)' = Tail(Pending(a)) /\ NextSeq(a)' = NextSeq(a)
Appended(a) ==
  \E f \in Frame : /\ f.seq >= NextSeq(a)
                   /\ a = 0 => f.seq = NextSeq(a)
                   /\ Pending(a)' = Append(Pending(a), f)
                   /\ NextSeq(a)' = f.seq + 1

(* The steps that take a frame off the history of anchor a. *)
TakesFrom(a) == Publish \/ (ii = a /\ (DropWaiting \/ DropStale))

LEMMA DropsPending ==
  ASSUME TypeOK, NEW a \in Anchor, hist[a] # <<>>, hist'[a] = Tail(hist[a]),
         UNCHANGED upstream
  PROVE  Dropped(a)
BY PendingHead DEF Dropped, Pending, NextSeq, upstream

LEMMA PendingStep ==
  ASSUME ScanInv, NoneStartedOver, ~Troubled, [Next]_vars, NEW a \in Anchor
  PROVE  Same(a) \/ (Dropped(a) /\ TakesFrom(a)) \/ Appended(a)
<1>0. TypeOK
  BY DEF ScanInv
<1>1. ASSUME NEW b \in Anchor, Arrive(b) PROVE Same(a) \/ Appended(a)
  BY <1>0, <1>1, PendingArrive DEF Same, Appended
<1>2. CASE Call
  BY <1>0, <1>2, PendingCall DEF Same
<1>3. CASE DropWaiting \/ DropStale
  <2>1. hist' = [hist EXCEPT ![ii] = Tail(@)] /\ UNCHANGED upstream /\ hist[ii] # <<>>
    BY <1>3 DEF DropWaiting, DropStale, DropHead, Scanning
  <2>2. CASE a = ii
    BY <1>0, <1>3, <2>1, <2>2, DropsPending DEF TypeOK, TakesFrom
  <2>3. CASE a # ii
    BY <2>1, <2>3, <1>0 DEF Same, Pending, NextSeq, upstream, TypeOK
  <2> QED
    BY <2>2, <2>3
<1>4. CASE Publish
  BY <1>0, <1>4, PublishesFrames, DropsPending DEF Publish, TakesFrom
<1>5. CASE UNCHANGED <<src, inbuf, hist>>
  BY <1>5 DEF Same, Pending, NextSeq
<1> QED
  BY <1>1, <1>2, <1>3, <1>4, <1>5 DEF Next, Scan, Return, NoteRestart,
     AllRestarted, RaiseHsn, DetectRestart, Accept, SpinFull, upstream, vars

(* So order is kept, the first anchor's stream stays gapless, and a floor
   stays a floor. *)
LEMMA StreamStep ==
  ASSUME ScanInv, Ordered, Gapless, NoneStartedOver, ~Troubled, [Next]_vars
  PROVE  /\ Ordered' /\ Gapless'
         /\ \A a \in Anchor : \A n \in Nat : Floor(a, n) => Floor(a, n)'
<1>0. TypeOK
  BY DEF ScanInv
<1>1. ASSUME NEW a \in Anchor
      PROVE  /\ OrderedOf(Pending(a), NextSeq(a))'
             /\ \A n \in Nat : Floor(a, n) => Floor(a, n)'
  <2>1. Pending(a) \in Seq(Frame) /\ NextSeq(a) \in Nat
    BY <1>0, PendingTypes
  <2>2. OrderedOf(Pending(a), NextSeq(a))
    BY DEF Ordered
  <2>3. CASE Same(a)
    BY <2>2, <2>3 DEF Same, OrderedOf, Floor, FloorOf
  <2>4. CASE Dropped(a)
    <3>1. /\ OrderedOf(Tail(Pending(a)), NextSeq(a))
          /\ \A n \in Nat : FloorOf(Pending(a), NextSeq(a), n)
                               => FloorOf(Tail(Pending(a)), NextSeq(a), n)
      BY <2>1, <2>2, <2>4, DropFrame DEF Dropped
    <3> QED
      BY <2>4, <3>1 DEF Dropped, OrderedOf, Floor, FloorOf
  <2>5. CASE Appended(a)
    <3>1. PICK f \in Frame : /\ f.seq >= NextSeq(a)
                             /\ a = 0 => f.seq = NextSeq(a)
                             /\ Pending(a)' = Append(Pending(a), f)
                             /\ NextSeq(a)' = f.seq + 1
      BY <2>5, Zenon DEF Appended
    <3>2. /\ OrderedOf(Append(Pending(a), f), f.seq + 1)
          /\ \A n \in Nat : FloorOf(Pending(a), NextSeq(a), n)
                               => FloorOf(Append(Pending(a), f), f.seq + 1, n)
      BY <2>1, <2>2, <3>1, AppendFrame
    <3> QED
      BY <3>1, <3>2 DEF OrderedOf, Floor, FloorOf
  <2> QED
    BY <2>3, <2>4, <2>5, PendingStep
<1>2. 0 \in Anchor
  BY ParserAssumption DEF Anchor
<1>3. Gapless'
  <2>1. Pending(0) \in Seq(Frame) /\ NextSeq(0) \in Nat
    BY <1>0, <1>2, PendingTypes
  <2>2. CASE Same(0)
    BY <2>2 DEF Same, Gapless, GaplessOf
  <2>3. CASE Dropped(0)
    <3>1. GaplessOf(Tail(Pending(0)), NextSeq(0))
      BY <2>1, <2>3, DropFrame DEF Dropped, Gapless
    <3> QED
      BY <2>3, <3>1 DEF Dropped, Gapless, GaplessOf
  <2>4. CASE Appended(0)
    <3>1. PICK f \in Frame : /\ f.seq >= NextSeq(0)
                             /\ 0 = 0 => f.seq = NextSeq(0)
                             /\ Pending(0)' = Append(Pending(0), f)
                             /\ NextSeq(0)' = f.seq + 1
      BY <2>4, Zenon DEF Appended
    <3>2. f.seq >= NextSeq(0) /\ f.seq = NextSeq(0)
      BY <3>1
    <3>3. GaplessOf(Append(Pending(0), f), f.seq + 1)
      BY <2>1, <3>2, AppendFrame DEF Gapless
    <3> QED
      BY <3>1, <3>2, <3>3 DEF Gapless, GaplessOf
  <2> QED
    BY <1>2, <2>2, <2>3, <2>4, PendingStep
<1> QED
  BY <1>1, <1>3 DEF Ordered

-----------------------------------------------------------------------------
(* The frame scanned belongs to a stream whose floor it is. *)
LEMMA ScannedPending ==
  ASSUME ScanInv, Ordered, Scanning
  PROVE  /\ ii \in Anchor /\ seqNum \in Nat /\ hsn \in Nat
         /\ Floor(ii, seqNum)
         /\ \A n \in Nat : Floor(ii, n) => seqNum >= n
<1>1. TypeOK /\ ii \in Anchor /\ seqNum \in Nat /\ hsn \in Nat
  BY ScannedFrame, ParserAssumption DEF ScanInv, TypeOK
<1>2. /\ Pending(ii) \in Seq(Frame) /\ NextSeq(ii) \in Nat /\ Pending(ii) # <<>>
      /\ Head(Pending(ii)).seq = seqNum
  BY <1>1, PendingTypes, PendingHead DEF Scanning, seqNum
<1>3. OrderedOf(Pending(ii), NextSeq(ii))
  BY <1>1 DEF Ordered
<1> QED
  BY <1>1, <1>2, <1>3, DropFrame DEF Floor

(* An anchor that has not been passed by hsn never looks restarted, so not
   all anchors do, and hsn is never lowered. *)
LEMMA NeverAllRestarted ==
  ASSUME ScanInv, Ordered, Owned
  PROVE  ~AllRestarted
<1> SUFFICES ASSUME AllRestarted PROVE FALSE
  OBVIOUS
<1>1. PICK a \in Anchor : ~restarted[a] /\ Floor(a, hsn)
  BY DEF Owned
<1>2. a = ii
  BY <1>1 DEF AllRestarted
<1>3. seqNum >= hsn
  BY <1>1, <1>2, ScannedPending DEF AllRestarted
<1>4. seqNum < hsn - RestartGap /\ RestartGap \in Nat /\ hsn \in Nat /\ seqNum \in Nat
  BY ParserAssumption, ScannedPending DEF AllRestarted, LooksRestarted
<1> QED
  BY <1>3, <1>4

LEMMA NextOwned ==
  ASSUME ScanInv, Ordered, Gapless, Owned, NoneRestarted,
         NoneStartedOver, ~Troubled, [Next]_vars
  PROVE  Owned'
<1>1. hsn \in Nat /\ TypeOK /\ RestartGap \in Nat
  BY ParserAssumption DEF ScanInv, TypeOK
<1>2. \A a \in Anchor : \A n \in Nat : Floor(a, n) => Floor(a, n)'
  BY StreamStep
<1>3. PICK a \in Anchor : ~restarted[a] /\ Floor(a, hsn)
  BY DEF Owned
<1>4. CASE RaiseHsn
  <2>1. PICK b \in Anchor : b = ii
    BY <1>4, ScannedPending DEF RaiseHsn
  <2>2. PICK n \in Nat : n = seqNum
    BY <1>4, ScannedPending DEF RaiseHsn
  <2>3. Floor(b, n) /\ ~restarted[b] /\ hsn' = n /\ restarted' = restarted
    BY <1>4, <2>1, <2>2, ScannedPending DEF RaiseHsn, NoneRestarted
  <2>4. Floor(b, n)'
    BY <1>2, <2>3
  <2>5. Floor(b, hsn)' /\ ~restarted'[b]
    BY <2>3, <2>4 DEF Floor
  <2> QED
    BY <2>5 DEF Owned
<1>5. CASE NoteRestart \/ DetectRestart
  <2>1. /\ ii \in Anchor /\ seqNum \in Nat /\ Scanning
        /\ seqNum < hsn - RestartGap /\ hsn' = hsn
        /\ restarted' = [restarted EXCEPT ![ii] = TRUE]
    BY <1>5, ScannedPending DEF NoteRestart, DetectRestart, LooksRestarted
  <2>2. a # ii
    <3>1. ~(seqNum >= hsn)
      BY <1>1, <2>1
    <3> QED
      BY <1>1, <1>3, <2>1, <3>1, ScannedPending
  <2>3. ~restarted'[a] /\ Floor(a, hsn)'
    BY <1>1, <1>2, <1>3, <2>1, <2>2 DEF TypeOK, Floor
  <2> QED
    BY <2>3 DEF Owned
<1>6. CASE UNCHANGED <<hsn, restarted>>
  <2>1. ~restarted'[a] /\ Floor(a, hsn)'
    BY <1>1, <1>2, <1>3, <1>6 DEF Floor
  <2> QED
    BY <2>1 DEF Owned
<1> QED
  BY <1>4, <1>5, <1>6, NeverAllRestarted DEF Next, Scan, Arrive, Call, Return,
     DropWaiting, DropStale, Accept, Publish, SpinFull, vars

(* The first number to come from anchor 0 changes only when a frame is taken
   off its history, and then by one. *)
LEMMA FirstStep ==
  ASSUME ScanInv, Gapless, NoneStartedOver, ~Troubled, [Next]_vars
  PROVE  /\ Next0 \in Nat
         /\ Next0' = Next0 \/ (TakesFrom(0) /\ Next0' = Next0 + 1)
<1>1. 0 \in Anchor /\ Pending(0) \in Seq(Frame) /\ NextSeq(0) \in Nat
  BY ParserAssumption, PendingTypes DEF Anchor, ScanInv
<1>2. Pending(0) # <<>> => Head(Pending(0)) \in Frame
  BY <1>1, HeadTailProperties
<1>3. Next0 \in Nat
  BY <1>1, <1>2, FrameSeq DEF Next0, FirstOf
<1>4. ASSUME Same(0) PROVE Next0' = Next0
  BY <1>4 DEF Same, Next0, FirstOf
<1>5. ASSUME Dropped(0) PROVE Next0' = Next0 + 1
  <2>1. FirstOf(Tail(Pending(0)), NextSeq(0)) = Head(Pending(0)).seq + 1
    BY <1>1, <1>5, DropFrame DEF Dropped, Gapless
  <2> QED
    BY <1>3, <1>5, <2>1 DEF Dropped, Next0, FirstOf
<1>6. ASSUME Appended(0) PROVE Next0' = Next0
  <2>1. PICK f \in Frame : /\ f.seq >= NextSeq(0)
                           /\ 0 = 0 => f.seq = NextSeq(0)
                           /\ Pending(0)' = Append(Pending(0), f)
                           /\ NextSeq(0)' = f.seq + 1
    BY <1>6, Zenon DEF Appended
  <2>2. f.seq >= NextSeq(0) /\ f.seq = NextSeq(0)
    BY <2>1
  <2>3. FirstOf(Append(Pending(0), f), f.seq + 1) = FirstOf(Pending(0), NextSeq(0))
    BY <1>1, <2>2, AppendFrame
  <2> QED
    BY <1>3, <2>1, <2>3 DEF Next0, FirstOf
<1>7. Same(0) => Next0' = Next0
  BY <1>4
<1>8. Dropped(0) => Next0' = Next0 + 1
  BY <1>5
<1>9. Appended(0) => Next0' = Next0
  BY <1>6
<1>10. Same(0) \/ (Dropped(0) /\ TakesFrom(0)) \/ Appended(0)
  BY <1>1, PendingStep
<1> QED
  BY <1>3, <1>7, <1>8, <1>9, <1>10, Zenon

(* It is the number of the frame the scan finds. *)
LEMMA FirstIsHead ==
  ASSUME ScanInv, hist[0] # <<>>
  PROVE  Next0 = Head(hist[0]).seq
<1>1. TypeOK /\ 0 \in Anchor
  BY ParserAssumption DEF ScanInv, Anchor
<1>2. Pending(0) # <<>> /\ Head(Pending(0)) = Head(hist[0])
  BY <1>1, PendingHead
<1> QED
  BY <1>2 DEF Next0, FirstOf

(* The block does not leave the wait, once it is in it. *)
LEMMA WaitingStays ==
  ASSUME ScanInv, Ordered, Owned, [Next]_vars, ~waiting'
  PROVE  ~waiting
BY NeverAllRestarted DEF Next, Scan, Arrive, Call, Return, NoteRestart,
   DropWaiting, RaiseHsn, DetectRestart, DropStale, Accept, Publish, SpinFull, vars

LEMMA NextNoneRestarted ==
  ASSUME ScanInv, Ordered, Owned, NoneRestarted, [Next]_vars
  PROVE  NoneRestarted'
<1> SUFFICES ASSUME ~waiting' PROVE \A a \in Anchor : ~restarted'[a]
  BY DEF NoneRestarted
<1>1. ~waiting
  BY WaitingStays
<1>2. restarted' = restarted
  BY <1>1 DEF Next, Scan, Arrive, Call, Return, NoteRestart, AllRestarted,
     DropWaiting, RaiseHsn, DetectRestart, DropStale, Accept, Publish, SpinFull, vars
<1> QED
  BY <1>1, <1>2 DEF NoneRestarted

LEMMA NextFirstAtHsn ==
  ASSUME ScanInv, Ordered, NoLead, FirstAtHsn, [Next]_vars
  PROVE  FirstAtHsn'
<1> SUFFICES ASSUME pc' = "scan", ~waiting', ii' > 1
             PROVE  Head(hist'[0]).seq = hsn'
  BY DEF FirstAtHsn
<1>1. ~(ii' = 0)
  OBVIOUS
<1>2. CASE Accept
  <2>1. /\ ii \in Anchor /\ seqNum \in Nat /\ hsn \in Nat
        /\ hist' = hist /\ hsn' = hsn /\ pc = "scan" /\ ~waiting
    BY <1>2, ScannedPending DEF Accept, Scanning
  <2>2. CASE ii > 1
    BY <2>1, <2>2 DEF FirstAtHsn
  <2>3. CASE ii = 1
    <3>1. 0 \in Anchor /\ 1 \in Followers /\ seqNum = hsn
      BY <1>2, <2>1, <2>3, ParserAssumption DEF Accept, Anchor, Followers
    <3>2. ~Floor(1, hsn + 1)
      <4>1. ~(seqNum >= hsn + 1) /\ hsn + 1 \in Nat
        BY <2>1, <3>1
      <4> QED
        BY <1>2, <2>3, <4>1, ScannedPending DEF Accept
    <3>3. Next0 <= hsn
      BY <2>1, <3>1, <3>2 DEF NoLead
    <3>4. hist[0] # <<>> /\ Head(hist[0]).seq >= hsn
      BY <2>1, <2>3, <3>1 DEF ScanInv, PassedAccepted
    <3>5. Head(hist[0]).seq \in Nat /\ Head(hist[0]).seq = Next0
      <4>1. Head(hist[0]) \in Frame
        BY <3>1, <3>4, PendingTypes, HeadTailProperties DEF ScanInv
      <4> QED
        BY <3>4, <4>1, FirstIsHead, FrameSeq
    <3> QED
      BY <2>1, <3>3, <3>4, <3>5
  <2>4. ii > 1 \/ ii = 1
    BY <1>2, <2>1, ParserAssumption DEF Accept, Anchor
  <2> QED
    BY <2>2, <2>3, <2>4
<1>3. CASE UNCHANGED <<hist, hsn, pc, waiting, ii>>
  BY <1>3 DEF FirstAtHsn
<1>4. ~NoteRestart
  <2> SUFFICES ASSUME NoteRestart PROVE FALSE
    OBVIOUS
  <2>1. waiting /\ waiting' = waiting
    BY DEF NoteRestart
  <2> QED
    BY <2>1, Zenon
<1>5. ~Return /\ ~Call
  BY <1>1 DEF Return, Call
<1>6. ~AllRestarted /\ ~DropWaiting /\ ~RaiseHsn /\ ~DetectRestart
  BY <1>1 DEF AllRestarted, DropWaiting, RaiseHsn, DetectRestart, Rescan
<1>7. ~DropStale /\ ~Publish /\ ~SpinFull
  BY <1>1 DEF DropStale, Publish, SpinFull, Rescan
<1>8. Accept \/ UNCHANGED <<hist, hsn, pc, waiting, ii>>
  <2>1. CASE \E a \in Anchor : Arrive(a)
    BY <2>1 DEF Arrive
  <2>2. CASE UNCHANGED vars
    BY <2>2 DEF vars
  <2> QED
    BY <1>4, <1>5, <1>6, <1>7, <2>1, <2>2, Zenon DEF Next, Scan
<1> QED
  BY <1>2, <1>3, <1>8

(* With more than one anchor, all heads are at hsn when they are published. *)
LEMMA HeadsAtHsn ==
  ASSUME ScanInv, FirstAtHsn, NAnchors > 1, Publish
  PROVE  \A a \in Anchor : hist[a] # <<>> /\ Head(hist[a]).seq = hsn
<1>1. /\ pc = "scan" /\ ii = NAnchors /\ ii > 1 /\ ~waiting
      /\ \A a \in Anchor : a < ii
  BY PublishesFrames, ParserAssumption DEF Publish, Anchor
<1>2. Head(hist[0]).seq = hsn
  BY <1>1 DEF FirstAtHsn
<1>3. \A a \in Anchor : hist[a] # <<>> /\ (a # 0 => Head(hist[a]).seq = hsn)
  BY <1>1 DEF ScanInv, PassedAccepted
<1> QED
  BY <1>2, <1>3

LEMMA NextAligned ==
  ASSUME ScanInv, FirstAtHsn, Aligned, NAnchors > 1, [Next]_vars
  PROVE  Aligned'
<1>1. CASE Publish
  <2>1. snap' = [a \in Anchor |-> Head(hist[a])]
    BY <1>1 DEF Publish
  <2> QED
    BY <1>1, <2>1, HeadsAtHsn DEF Aligned
<1>2. CASE snap' = snap
  BY <1>2 DEF Aligned
<1> QED
  BY <1>1, <1>2 DEF Next, Scan, Arrive, Call, Return, NoteRestart, AllRestarted,
     DropWaiting, RaiseHsn, DetectRestart, DropStale, Accept, SpinFull, vars

LEMMA NextNoLead ==
  ASSUME ScanInv, Ordered, Gapless, Owned, NoLead, FirstAtHsn,
         NAnchors > 1, NoneStartedOver, ~Troubled, [Next]_vars
  PROVE  NoLead'
<1> SUFFICES ASSUME ~waiting'
             PROVE  \/ Next0' <= hsn'
                    \/ Next0' = hsn' + 1 /\ \A a \in Followers : Floor(a, hsn + 1)'
  BY DEF NoLead
<1>0. ~waiting
  BY WaitingStays
<1>1. ~waiting /\ hsn \in Nat /\ TypeOK /\ 0 \in Anchor
  BY <1>0, ParserAssumption DEF ScanInv, TypeOK, Anchor
<1>2. Next0 \in Nat /\ (Next0' = Next0 \/ (TakesFrom(0) /\ Next0' = Next0 + 1))
  BY FirstStep
<1>3. Next0 <= hsn \/ (Next0 = hsn + 1 /\ \A a \in Followers : Floor(a, hsn + 1))
  BY <1>1 DEF NoLead
<1>4. CASE RaiseHsn
  <2>1. seqNum \in Nat /\ seqNum > hsn /\ hsn' = seqNum
    BY <1>4, ScannedPending DEF RaiseHsn
  <2>2. ~TakesFrom(0)
    BY <1>1, <1>4 DEF RaiseHsn, TakesFrom, Scanning, Publish, DropWaiting,
       DropStale
  <2> QED
    BY <1>1, <1>2, <1>3, <2>1, <2>2
<1>5. CASE Publish
  <2>1. hsn' = hsn /\ UNCHANGED upstream
        /\ \A a \in Anchor : hist'[a] = Tail(hist[a])
    BY <1>5 DEF Publish
  <2>2. \A a \in Anchor : hist[a] # <<>> /\ Head(hist[a]).seq = hsn
    BY <1>5, HeadsAtHsn
  <2>3. Next0 = hsn
    BY <1>1, <2>2, FirstIsHead
  <2>4. ASSUME NEW a \in Followers PROVE FloorOf(Pending(a)', NextSeq(a)', hsn + 1)
    <3>1. a \in Anchor
      BY DEF Followers
    <3>2. Dropped(a)
      BY <1>1, <2>1, <2>2, <3>1, DropsPending
    <3>3. Head(Pending(a)).seq = hsn /\ Pending(a) \in Seq(Frame) /\ NextSeq(a) \in Nat
      BY <1>1, <2>2, <3>1, PendingHead, PendingTypes
    <3>4. FloorOf(Tail(Pending(a)), NextSeq(a), hsn + 1)
      BY <3>1, <3>2, <3>3, DropFrame DEF Dropped, Ordered
    <3> QED
      BY <3>2, <3>4 DEF Dropped
  <2>5. \A a \in Followers : Floor(a, hsn + 1)'
    BY <2>1, <2>4 DEF Floor
  <2>6. Next0' = hsn' \/ Next0' = hsn' + 1
    BY <1>2, <2>1, <2>3
  <2> QED
    BY <1>1, <2>1, <2>5, <2>6
<1>6. CASE DropStale /\ ii = 0
  <2>1. hsn' = hsn /\ seqNum \in Nat /\ seqNum < hsn /\ seqNum = Next0
    BY <1>6, ScannedPending, FirstIsHead DEF DropStale, Scanning, seqNum
  <2> QED
    BY <1>1, <1>2, <2>1
<1>7. CASE hsn' = hsn /\ Next0' = Next0
  <2>1. PICK n \in Nat : n = hsn + 1
    BY <1>1
  <2>2. ASSUME NEW a \in Followers, Floor(a, hsn + 1) PROVE Floor(a, hsn + 1)'
    <3>1. a \in Anchor /\ Floor(a, n)
      BY <2>1, <2>2 DEF Followers
    <3>2. Floor(a, n)'
      BY <3>1, StreamStep
    <3> QED
      BY <1>7, <2>1, <3>2 DEF Floor
  <2> QED
    BY <1>3, <1>7, <2>2
<1>8. RaiseHsn \/ hsn' = hsn
  BY NeverAllRestarted DEF Next, Scan, Arrive, Call, Return, NoteRestart,
     DropWaiting, DetectRestart, DropStale, Accept, Publish, SpinFull, vars
<1>9. TakesFrom(0) => Publish \/ (DropStale /\ ii = 0)
  BY <1>1 DEF TakesFrom, DropWaiting
<1> QED
  BY <1>2, <1>4, <1>5, <1>6, <1>7, <1>8, <1>9

LEMMA InitAlignInv == Init => AlignInv
<1> SUFFICES ASSUME Init PROVE AlignInv
  OBVIOUS
<1> USE ParserAssumption
<1>1. \A a \in Anchor : Pending(a) = <<>> /\ NextSeq(a) = 0
  <2>1. <<>> \o <<>> = <<>>
    OBVIOUS
  <2> QED
    BY <2>1 DEF Init, First, Pending, NextSeq
<1>2. 0 \in Anchor
  BY DEF Anchor
<1>3. Len(<<>>) = 0
  OBVIOUS
<1>4. Ordered /\ Gapless
  BY <1>1, <1>2, <1>3 DEF Ordered, OrderedOf, Gapless, GaplessOf
<1>5. Floor(0, hsn) /\ ~restarted[0]
  BY <1>1, <1>2, <1>3 DEF Init, Floor, FloorOf
<1>6. Owned
  BY <1>2, <1>5 DEF Owned
<1>7. NoLead
  BY <1>1, <1>2 DEF Init, NoLead, Next0, FirstOf
<1>8. FirstAtHsn /\ NoneRestarted /\ Aligned
  BY DEF Init, FirstAtHsn, NoneRestarted, Aligned
<1>9. NoneStartedOver
  BY DEF Init, First, NoneStartedOver, StartedOver, Later
<1> QED
  BY InitScanInv, <1>4, <1>6, <1>7, <1>8, <1>9 DEF AlignInv

LEMMA NextAlignInv ==
  ASSUME NAnchors > 1, AlignInv, ~Troubled, [Next]_vars
  PROVE  AlignInv'
<1>1. /\ ScanInv /\ Ordered /\ Gapless /\ Owned /\ NoLead /\ FirstAtHsn
      /\ NoneRestarted /\ Aligned /\ NoneStartedOver
  BY DEF AlignInv
<1>2. ScanInv'
  BY <1>1, NextTypeOK, NextPassedAccepted, NextPassedRestarted,
     NextFollowersAgree DEF ScanInv
<1>3. Ordered' /\ Gapless'
  BY <1>1, StreamStep
<1>4. Owned' /\ NoLead'
  BY <1>1, NextOwned, NextNoLead
<1>5. FirstAtHsn' /\ NoneRestarted' /\ Aligned'
  BY <1>1, NextFirstAtHsn, NextNoneRestarted, NextAligned
<1>6. NoneStartedOver'
  BY DEF Troubled, NoneStartedOver
<1> QED
  BY <1>2, <1>3, <1>4, <1>5, <1>6 DEF AlignInv

LEMMA SourceStep ==
  ASSUME [Next]_vars
  PROVE  UNCHANGED <<src, trouble>> \/ \E a \in Anchor : Arrive(a)
BY DEF Next, Scan, Call, Return, NoteRestart, AllRestarted, DropWaiting, RaiseHsn,
   DetectRestart, DropStale, Accept, Publish, SpinFull, upstream, vars

LEMMA StillNoTrouble ==
  ASSUME AlignInv, UNCHANGED src
  PROVE  ~Troubled
<1>1. NoneStartedOver /\ 0 \in Anchor
  BY ParserAssumption DEF AlignInv, Anchor
<1> QED
  BY <1>1 DEF Troubled, NoneStartedOver, StartedOver

(* Until the first anchor's stream has a gap or an anchor starts over, every
   snapshot general_work publishes is aligned: the code's handling of gaps
   (the branches that raise d_hsn and erase stale data) is right for the
   other anchors, and only the exception it makes for the first is not. *)
THEOREM AlignedTillTroubleHolds ==
  NAnchors > 1 => (Spec => []AlignedTillTrouble)
<1> SUFFICES ASSUME NAnchors > 1 PROVE Spec => []AlignedTillTrouble
  OBVIOUS
<1> DEFINE Inv == trouble \in BOOLEAN /\ (~trouble => AlignInv)
<1>1. Init => Inv
  BY InitAlignInv DEF Init
<1>2. Inv /\ [Next]_vars => Inv'
  <2> SUFFICES ASSUME Inv, [Next]_vars PROVE Inv'
    OBVIOUS
  <2>1. CASE UNCHANGED <<src, trouble>>
    BY <2>1, StillNoTrouble, NextAlignInv
  <2>2. CASE \E a \in Anchor : Arrive(a)
    <3>1. trouble' = (trouble \/ Troubled)
      BY <2>2 DEF Arrive
    <3>2. ASSUME ~trouble' PROVE AlignInv'
      BY <3>1, <3>2, NextAlignInv
    <3>3. trouble' \in BOOLEAN
      BY <3>1
    <3> QED
      BY <3>2, <3>3
  <2> QED
    BY <2>1, <2>2, SourceStep, Zenon
<1>3. Inv => AlignedTillTrouble
  BY DEF AlignInv, AlignedTillTrouble
<1> QED
  BY <1>1, <1>2, <1>3, PTL DEF Spec

(* So they are for ever when the first anchor loses nothing and nothing
   starts over. *)
THEOREM AlignedWhenFirstGapless ==
  NAnchors > 1 /\ Laps = 1 /\ 0 \notin Lossy => (Spec => []Aligned)
<1> SUFFICES ASSUME NAnchors > 1, Laps = 1, 0 \notin Lossy
             PROVE  Spec => []Aligned
  OBVIOUS
<1>1. AlignInv /\ [Next]_vars => AlignInv'
  <2> SUFFICES ASSUME AlignInv, [Next]_vars PROVE AlignInv'
    OBVIOUS
  <2>1. TypeOK /\ NoneStartedOver /\ 0 \in Anchor /\ LastSeq \in Nat
    BY ParserAssumption DEF AlignInv, ScanInv, Anchor
  <2>3. ASSUME NEW a \in Anchor, Arrive(a) PROVE ~Troubled
    <3>1. PICK f \in Sendable(a) : src' = [src EXCEPT ![a] = Succ(f)]
      BY <2>3 DEF Arrive
    <3>2. f.lap = 1 /\ f.seq \in 0 .. LastSeq /\ (a = 0 => f = src[0])
      BY <3>1 DEF Sendable, Frame
    <3>3. ~Later(Succ(f), [lap |-> 2, seq |-> 0])
      BY <2>1, <3>2 DEF Later, Succ
    <3>4. \A b \in Anchor : src'[b] = IF b = a THEN Succ(f) ELSE src[b]
      BY <2>1, <3>1 DEF TypeOK
    <3> QED
      BY <2>1, <3>2, <3>3, <3>4 DEF Troubled, NoneStartedOver, StartedOver
  <2>4. ~Troubled
    BY <2>3, SourceStep, StillNoTrouble, Zenon
  <2> QED
    BY <2>4, NextAlignInv
<1>2. AlignInv => Aligned
  BY DEF AlignInv
<1> QED
  BY InitAlignInv, <1>1, <1>2, PTL DEF Spec

-----------------------------------------------------------------------------
(* Order of publication.  Frames wait for an anchor in the order in which it
   sends them, and all that wait are later than the one last published. *)

SentFrame == [lap : 1 .. Laps + 1, seq : 0 .. LastSeq]

(* The frames s are in the order of a stream that goes on with nx or later. *)
InOrder(s, nx) ==
  /\ \A k \in 1 .. Len(s) : Later(nx, s[k])
  /\ \A k, l \in 1 .. Len(s) : k < l => Later(s[l], s[k])

(* They, and what the stream goes on with, are later than frame g. *)
AllLater(s, nx, g) == Later(nx, g) /\ \A k \in 1 .. Len(s) : Later(s[k], g)

OrderInv ==
  /\ ScanInv
  /\ \A a \in Anchor :
       /\ InOrder(Pending(a), src[a])
       /\ snap # NoSnap => AllLater(Pending(a), src[a], snap[a])

LEMMA LaterFacts ==
  /\ \A f \in Frame : f \in SentFrame /\ Succ(f) \in SentFrame /\ Later(Succ(f), f)
  /\ \A f, g, h \in SentFrame : Later(f, g) /\ Later(g, h) => Later(f, h)
<1>1. LastSeq \in Nat /\ Laps \in Nat
  BY ParserAssumption
<1>2. ASSUME NEW f \in Frame
      PROVE  f \in SentFrame /\ Succ(f) \in SentFrame /\ Later(Succ(f), f)
  BY <1>1 DEF Frame, SentFrame, Succ, Later
<1>3. ASSUME NEW f \in SentFrame, NEW g \in SentFrame, NEW h \in SentFrame,
             Later(f, g), Later(g, h)
      PROVE  Later(f, h)
  BY <1>1, <1>3 DEF SentFrame, Later
<1> QED
  BY <1>2, <1>3

LEMMA AppendInOrder ==
  ASSUME NEW s \in Seq(Frame), NEW nx \in SentFrame, NEW f \in Frame,
         f = nx \/ Later(f, nx)
  PROVE  /\ InOrder(s, nx) => InOrder(Append(s, f), Succ(f))
         /\ \A g \in Frame : AllLater(s, nx, g) => AllLater(Append(s, f), Succ(f), g)
<1> DEFINE t == Append(s, f)
           m == Len(s)
<1>1. m \in Nat /\ Len(t) = m + 1 /\ t[m + 1] = f
  BY AppendProperties, LenProperties
<1>2. \A k \in 1 .. m : t[k] = s[k] /\ s[k] \in Frame
  BY AppendProperties, ElementOfSeq
<1>3. \A k \in 1 .. Len(t) : k \in 1 .. m \/ (k = m + 1 /\ t[k] = f)
  BY <1>1
<1>4. f \in SentFrame /\ Succ(f) \in SentFrame /\ Later(Succ(f), f)
  BY LaterFacts
<1>5. ASSUME NEW g \in Frame, Later(nx, g) PROVE Later(f, g) /\ Later(Succ(f), g)
  <2>1. Later(f, g)
    BY <1>4, <1>5, LaterFacts
  <2> QED
    BY <1>4, <2>1, LaterFacts
<1> HIDE DEF t, m
<1>6. ASSUME InOrder(s, nx) PROVE InOrder(t, Succ(f))
  <2>1. /\ \A k \in 1 .. m : Later(nx, s[k])
        /\ \A k, l \in 1 .. m : k < l => Later(s[l], s[k])
    BY <1>6 DEF InOrder, m
  <2>2. ASSUME NEW k \in 1 .. Len(t) PROVE Later(Succ(f), t[k])
    BY <1>2, <1>3, <1>4, <1>5, <2>1
  <2>3. ASSUME NEW k \in 1 .. Len(t), NEW l \in 1 .. Len(t), k < l
        PROVE  Later(t[l], t[k])
    <3>1. k \in 1 .. m /\ t[k] = s[k]
      BY <1>1, <1>2, <2>3
    <3>2. CASE l \in 1 .. m
      BY <1>2, <2>1, <2>3, <3>1, <3>2
    <3>3. CASE t[l] = f
      BY <1>2, <1>5, <2>1, <3>1, <3>3
    <3> QED
      BY <1>3, <3>2, <3>3
  <2> QED
    BY <2>2, <2>3 DEF InOrder
<1>7. ASSUME NEW g \in Frame, AllLater(s, nx, g) PROVE AllLater(t, Succ(f), g)
  <2>1. Later(nx, g) /\ \A k \in 1 .. m : Later(s[k], g)
    BY <1>7 DEF AllLater, m
  <2>2. ASSUME NEW k \in 1 .. Len(t) PROVE Later(t[k], g)
    BY <1>2, <1>3, <1>5, <2>1
  <2> QED
    BY <1>5, <2>1, <2>2 DEF AllLater
<1> QED
  BY <1>6, <1>7 DEF t

LEMMA TailInOrder ==
  ASSUME NEW s \in Seq(Frame), s # <<>>, NEW nx \in SentFrame
  PROVE  /\ InOrder(s, nx) => /\ InOrder(Tail(s), nx)
                              /\ AllLater(Tail(s), nx, Head(s))
         /\ \A g \in Frame : AllLater(s, nx, g) => /\ AllLater(Tail(s), nx, g)
                                                   /\ Later(Head(s), g)
<1> DEFINE t == Tail(s)
           m == Len(s)
<1>1. t \in Seq(Frame) /\ Len(t) = m - 1 /\ m \in Nat \ {0} /\ Head(s) = s[1]
  BY HeadTailProperties, EmptySeq
<1>2. \A k \in 1 .. Len(t) : t[k] = s[k + 1]
  BY HeadTailProperties
<1> HIDE DEF t, m
<1>3. 1 \in 1 .. m /\ \A k \in 1 .. Len(t) : k + 1 \in 1 .. m /\ 1 < k + 1
  BY <1>1
<1>4. ASSUME InOrder(s, nx) PROVE InOrder(t, nx) /\ AllLater(t, nx, s[1])
  <2>1. /\ \A k \in 1 .. m : Later(nx, s[k])
        /\ \A k, l \in 1 .. m : k < l => Later(s[l], s[k])
    BY <1>4 DEF InOrder, m
  <2>2. ASSUME NEW k \in 1 .. Len(t), NEW l \in 1 .. Len(t), k < l
        PROVE  Later(t[l], t[k])
    <3>1. k + 1 < l + 1
      BY <2>2
    <3> QED
      BY <1>2, <1>3, <2>1, <3>1
  <2>3. \A k \in 1 .. Len(t) : Later(nx, t[k]) /\ Later(t[k], s[1])
    BY <1>2, <1>3, <2>1
  <2> QED
    BY <1>3, <2>1, <2>2, <2>3 DEF InOrder, AllLater
<1>5. ASSUME NEW g \in Frame, AllLater(s, nx, g)
      PROVE  AllLater(t, nx, g) /\ Later(s[1], g)
  <2>1. Later(nx, g) /\ \A k \in 1 .. m : Later(s[k], g)
    BY <1>5 DEF AllLater, m
  <2> QED
    BY <1>2, <1>3, <2>1 DEF AllLater
<1> QED
  BY <1>1, <1>4, <1>5 DEF t

(* The steps, as they change what is pending of anchor a. *)
StreamUnchanged(a) == Pending(a)' = Pending(a) /\ src'[a] = src[a]
HeadDropped(a) ==
  Pending(a) # <<>> /\ Pending(a)' = Tail(Pending(a)) /\ src'[a] = src[a]
FrameSent(a) ==
  \E f \in Sendable(a) :
    Pending(a)' = Append(Pending(a), f) /\ src'[a] = Succ(f)

LEMMA StreamChanges ==
  ASSUME ScanInv, [Next]_vars, NEW a \in Anchor
  PROVE  \/ StreamUnchanged(a) /\ snap' = snap
         \/ HeadDropped(a) /\ snap' = snap /\ (DropWaiting \/ DropStale)
         \/ HeadDropped(a) /\ Publish
         \/ FrameSent(a) /\ snap' = snap
<1> TypeOK
  BY DEF ScanInv
<1>1. ASSUME NEW b \in Anchor, Arrive(b)
      PROVE  (StreamUnchanged(a) \/ FrameSent(a)) /\ snap' = snap
  <2>1. PICK f \in Sendable(b) : /\ inbuf' = [inbuf EXCEPT ![b] = Append(@, f)]
                                 /\ src' = [src EXCEPT ![b] = Succ(f)]
    BY <1>1 DEF Arrive
  <2>2. f \in Frame /\ (f = src[b] \/ Later(f, src[b]))
    BY <2>1 DEF Sendable
  <2>3. hist' = hist /\ snap' = snap
    BY <1>1 DEF Arrive
  <2>4. CASE a = b
    <3>1. inbuf'[a] = Append(inbuf[a], f) /\ src'[a] = Succ(f)
      BY <2>1, <2>4 DEF TypeOK
    <3>2. hist[a] \o Append(inbuf[a], f) = Append(hist[a] \o inbuf[a], f)
      BY <2>2, PendingTypes, ConcatAppend
    <3> QED
      BY <2>2, <2>3, <2>4, <3>1, <3>2 DEF FrameSent, Pending
  <2>5. CASE a # b
    BY <2>1, <2>3, <2>5 DEF StreamUnchanged, Pending, TypeOK
  <2> QED
    BY <2>3, <2>4, <2>5
<1>2. CASE Call
  BY <1>2, PendingCall DEF Call, StreamUnchanged
<1>3. CASE DropWaiting \/ DropStale
  <2>1. /\ hist' = [hist EXCEPT ![ii] = Tail(@)] /\ UNCHANGED upstream
        /\ hist[ii] # <<>> /\ snap' = snap
    BY <1>3 DEF DropWaiting, DropStale, DropHead, Scanning
  <2>2. CASE a = ii
    <3>1. hist'[a] = Tail(hist[a])
      BY <2>1, <2>2 DEF TypeOK
    <3> QED
      BY <1>3, <2>1, <2>2, <3>1, PendingHead DEF HeadDropped, Pending, upstream
  <2>3. CASE a # ii
    BY <2>1, <2>3 DEF StreamUnchanged, Pending, upstream, TypeOK
  <2> QED
    BY <2>1, <2>2, <2>3
<1>5. CASE UNCHANGED <<src, inbuf, hist, snap>>
  BY <1>5 DEF StreamUnchanged, Pending
<1>6. CASE Publish
  <2>1. hist[a] # <<>>
    BY <1>6, PublishesFrames
  <2> QED
    BY <1>6, <2>1, PendingHead DEF Publish, HeadDropped, Pending, upstream
<1> QED
  BY <1>1, <1>2, <1>3, <1>5, <1>6 DEF Next, Scan, Return, NoteRestart,
     AllRestarted, RaiseHsn, DetectRestart, Accept, SpinFull, upstream, vars


LEMMA InitOrderInv == Init => OrderInv
<1> SUFFICES ASSUME Init PROVE OrderInv
  OBVIOUS
<1>1. \A a \in Anchor : Pending(a) = <<>>
  BY DEF Init, Pending
<1>2. \A a \in Anchor : InOrder(Pending(a), src[a])
  BY <1>1 DEF InOrder
<1> QED
  BY <1>2, InitScanInv DEF OrderInv, Init

LEMMA NextOrderInv == OrderInv /\ [Next]_vars => OrderInv'
<1> SUFFICES ASSUME OrderInv, [Next]_vars PROVE OrderInv'
  OBVIOUS
<1>1. ScanInv /\ TypeOK
  BY DEF OrderInv, ScanInv
<1>2. ScanInv'
  BY <1>1, NextTypeOK, NextPassedAccepted, NextPassedRestarted,
     NextFollowersAgree DEF ScanInv
<1>3. ASSUME NEW a \in Anchor
      PROVE  /\ InOrder(Pending(a)', src'[a])
             /\ snap' # NoSnap => AllLater(Pending(a)', src'[a], snap'[a])
  <2>1. /\ Pending(a) \in Seq(Frame) /\ src[a] \in SentFrame
        /\ snap # NoSnap => snap[a] \in Frame
    BY <1>1, PendingTypes DEF TypeOK, SentFrame
  <2>2. /\ InOrder(Pending(a), src[a])
        /\ snap # NoSnap => AllLater(Pending(a), src[a], snap[a])
    BY DEF OrderInv
  <2>3. CASE StreamUnchanged(a) /\ snap' = snap
    BY <2>2, <2>3 DEF StreamUnchanged
  <2>4. CASE HeadDropped(a)
    <3>1. /\ InOrder(Tail(Pending(a)), src[a])
          /\ AllLater(Tail(Pending(a)), src[a], Head(Pending(a)))
          /\ snap # NoSnap => AllLater(Tail(Pending(a)), src[a], snap[a])
      BY <2>1, <2>2, <2>4, TailInOrder DEF HeadDropped
    <3>2. CASE snap' = snap
      BY <2>4, <3>1, <3>2 DEF HeadDropped
    <3>3. CASE Publish
      <4>1. snap'[a] = Head(hist[a]) /\ hist[a] # <<>>
        BY <1>1, <3>3, PublishesFrames DEF Publish
      <4>2. snap'[a] = Head(Pending(a))
        BY <1>1, <4>1, PendingHead
      <4> QED
        BY <2>4, <3>1, <4>2 DEF HeadDropped
    <3> QED
      BY <1>1, <2>4, <3>2, <3>3 DEF Next, Scan, Arrive, Call, Return,
         NoteRestart, AllRestarted, DropWaiting, RaiseHsn, DetectRestart,
         DropStale, Accept, SpinFull, vars
  <2>5. CASE FrameSent(a) /\ snap' = snap
    <3>1. PICK f \in Sendable(a) : /\ Pending(a)' = Append(Pending(a), f)
                                   /\ src'[a] = Succ(f)
      BY <2>5 DEF FrameSent
    <3>0. f \in Frame /\ (f = src[a] \/ Later(f, src[a]))
      BY DEF Sendable
    <3>2. /\ InOrder(Append(Pending(a), f), Succ(f))
          /\ snap # NoSnap => AllLater(Append(Pending(a), f), Succ(f), snap[a])
      BY <2>1, <2>2, <3>0, AppendInOrder
    <3> QED
      BY <2>5, <3>1, <3>2
  <2> QED
    BY <1>1, <2>3, <2>4, <2>5, StreamChanges
<1> QED
  BY <1>2, <1>3 DEF OrderInv

LEMMA PublishesLater ==
  ASSUME OrderInv, Publish, snap # NoSnap, NEW a \in Anchor
  PROVE  Later(snap'[a], snap[a])
<1>1. ScanInv /\ TypeOK
  BY DEF OrderInv, ScanInv
<1>2. snap'[a] = Head(hist[a]) /\ hist[a] # <<>>
  BY <1>1, PublishesFrames DEF Publish
<1>3. Pending(a) # <<>> /\ snap'[a] = Head(Pending(a))
  BY <1>1, <1>2, PendingHead
<1>4. Pending(a) \in Seq(Frame) /\ src[a] \in SentFrame /\ snap[a] \in Frame
  BY <1>1, PendingTypes DEF TypeOK, SentFrame
<1>5. AllLater(Pending(a), src[a], snap[a])
  BY DEF OrderInv
<1> QED
  BY <1>3, <1>4, <1>5, TailInOrder

(* An anchor's frames are published in the order they were sent, and none
   twice, whatever the anchors lose and however often they start over: the
   loop of general_work erases what it copied and what it drops, and only from
   the front of data_history. *)
THEOREM PublishInOrderHolds == Spec => PublishInOrder
<1>1. OrderInv /\ [Next]_vars =>
        [snap # NoSnap /\ Publishes =>
           \A a \in Anchor : Later(snap'[a], snap[a])]_vars
  <2> SUFFICES ASSUME OrderInv, Next, snap # NoSnap, Publishes, NEW a \in Anchor
               PROVE  Later(snap'[a], snap[a])
    OBVIOUS
  <2>1. Publish
    BY OnlyPublishPublishes DEF OrderInv, ScanInv
  <2> QED
    BY <2>1, PublishesLater
<1> QED
  BY InitOrderInv, NextOrderInv, <1>1, PTL DEF Spec, PublishInOrder

-----------------------------------------------------------------------------
(* With no frame missing, no sweep is skipped.  All anchors stay at the same
   frame, and hsn at its number or the one before, until the numbers start
   over.  Then either the first frame of the new lap looks restarted on every
   anchor, and all go on together from it; or the lap is too short for a
   restart to be seen, hsn stays at its last number, and only frames of that
   number are ever published again. *)

\* The k-th of the frames s, and behind them nx.
At(s, nx, k) == IF k <= Len(s) THEN s[k] ELSE nx

Chain(s, nx) == \A k \in 1 .. Len(s) : At(s, nx, k + 1) = Succ(s[k])

Coming(a) == At(Pending(a), src[a], 1)

Chained == \A a \in Anchor : Chain(Pending(a), src[a])

(* The last number is so high that the number 0 is taken for a restart. *)
RestartSeen == LastSeq > RestartGap

(* hsn goes with the number n of the frame all anchors are at. *)
HsnNear(n) ==
  IF Followers = {} THEN hsn = 0 /\ ~waiting
  ELSE \/ ~waiting /\ (hsn = n \/ hsn + 1 = n)
       \/ RestartSeen /\ hsn = LastSeq /\ n = 0

InStep ==
  \E f \in SentFrame :
    /\ \A a \in Anchor : Coming(a) = f
    /\ snap # NoSnap => \A a \in Anchor : f = Succ(snap[a])
    /\ HsnNear(f.seq)

OnlyLastNumber ==
  /\ ~RestartSeen /\ ~waiting /\ hsn = LastSeq
  /\ snap # NoSnap /\ \A a \in Anchor : snap[a].seq = LastSeq

SkipInv == OrderInv /\ Chained /\ (InStep \/ OnlyLastNumber)

LEMMA AppendChain ==
  ASSUME NEW s \in Seq(Frame), NEW f \in Frame, Chain(s, f)
  PROVE  /\ Chain(Append(s, f), Succ(f))
         /\ At(Append(s, f), Succ(f), 1) = At(s, f, 1)
<1> DEFINE t == Append(s, f)
           m == Len(s)
<1>1. m \in Nat /\ Len(t) = m + 1 /\ t[m + 1] = f
  BY AppendProperties, LenProperties
<1>2. \A k \in 1 .. m : t[k] = s[k]
  BY AppendProperties
<1>3. \A k \in 1 .. m : At(s, f, k + 1) = Succ(s[k])
  BY DEF Chain
<1>4. \A k \in 1 .. m + 1 : At(t, Succ(f), k) = At(s, f, k)
  <2> HIDE DEF t
  <2> QED
    BY <1>1, <1>2 DEF At
<1> HIDE DEF t, m
<1>5. ASSUME NEW k \in 1 .. Len(t) PROVE At(t, Succ(f), k + 1) = Succ(t[k])
  <2>1. CASE k \in 1 .. m
    BY <1>1, <1>2, <1>3, <1>4, <2>1
  <2>2. CASE k = m + 1
    BY <1>1, <2>2 DEF At
  <2> QED
    BY <1>1, <2>1, <2>2
<1>6. 1 \in 1 .. m + 1
  BY <1>1
<1> QED
  BY <1>4, <1>5, <1>6 DEF Chain, t

LEMMA TailChain ==
  ASSUME NEW s \in Seq(Frame), s # <<>>, NEW nx
  PROVE  /\ At(s, nx, 1) = Head(s)
         /\ Chain(s, nx) => /\ Chain(Tail(s), nx)
                            /\ At(Tail(s), nx, 1) = Succ(Head(s))
<1> DEFINE t == Tail(s)
           m == Len(s)
<1>1. t \in Seq(Frame) /\ Len(t) = m - 1 /\ m \in Nat \ {0} /\ Head(s) = s[1]
  BY HeadTailProperties, EmptySeq
<1>2. \A k \in 1 .. Len(t) : t[k] = s[k + 1]
  BY HeadTailProperties
<1> HIDE DEF t, m
<1>3. \A k \in 1 .. m : At(t, nx, k) = At(s, nx, k + 1)
  BY <1>1, <1>2 DEF At, m
<1>4. ASSUME Chain(s, nx) PROVE Chain(t, nx) /\ At(t, nx, 1) = Succ(s[1])
  <2>1. \A k \in 1 .. m : At(s, nx, k + 1) = Succ(s[k])
    BY <1>4 DEF Chain, m
  <2>2. ASSUME NEW k \in 1 .. Len(t) PROVE At(t, nx, k + 1) = Succ(t[k])
    <3>1. k + 1 \in 1 .. m
      BY <1>1
    <3> QED
      BY <1>2, <1>3, <2>1, <3>1
  <2> QED
    BY <1>1, <1>3, <2>1, <2>2 DEF Chain
<1>5. At(s, nx, 1) = s[1]
  BY <1>1 DEF At, m
<1> QED
  BY <1>1, <1>4, <1>5 DEF t

LEMMA PublishDrops ==
  ASSUME ScanInv, Publish, NEW a \in Anchor
  PROVE  /\ HeadDropped(a) /\ snap'[a] = Head(Pending(a))
         /\ Head(Pending(a)) \in Frame /\ Head(Pending(a)) = Head(hist[a])
<1>1. hist[a] # <<>> /\ Head(hist[a]) \in Frame /\ TypeOK
  BY PublishesFrames DEF ScanInv
<1>2. /\ Pending(a) # <<>> /\ Head(Pending(a)) = Head(hist[a])
      /\ Tail(Pending(a)) = Tail(hist[a]) \o inbuf[a]
  BY <1>1, PendingHead
<1> QED
  BY <1>1, <1>2 DEF Publish, HeadDropped, Pending, upstream

(* A frame that is sent leaves what is coming as it is; one that is dropped or
   published makes way for the next. *)
LEMMA ComingStep ==
  ASSUME ScanInv, Chained, Lossy = {}, NEW a \in Anchor
  PROVE  /\ StreamUnchanged(a) \/ FrameSent(a) =>
              /\ Chain(Pending(a)', src'[a])
              /\ At(Pending(a)', src'[a], 1) = Coming(a)
         /\ HeadDropped(a) =>
              /\ Chain(Pending(a)', src'[a])
              /\ At(Pending(a)', src'[a], 1) = Succ(Coming(a))
              /\ Coming(a) = Head(Pending(a))
<1>1. Pending(a) \in Seq(Frame) /\ Chain(Pending(a), src[a])
  BY PendingTypes DEF Chained, ScanInv
<1>2. ASSUME StreamUnchanged(a)
      PROVE  Chain(Pending(a)', src'[a]) /\ At(Pending(a)', src'[a], 1) = Coming(a)
  BY <1>1, <1>2 DEF StreamUnchanged, Coming
<1>3. ASSUME FrameSent(a)
      PROVE  Chain(Pending(a)', src'[a]) /\ At(Pending(a)', src'[a], 1) = Coming(a)
  <2>1. PICK f \in Sendable(a) : Pending(a)' = Append(Pending(a), f) /\ src'[a] = Succ(f)
    BY <1>3 DEF FrameSent
  <2>2. f \in Frame /\ f = src[a]
    BY DEF Sendable
  <2>3. /\ Chain(Append(Pending(a), f), Succ(f))
        /\ At(Append(Pending(a), f), Succ(f), 1) = At(Pending(a), src[a], 1)
    BY <1>1, <2>2, AppendChain
  <2> QED
    BY <2>1, <2>3 DEF Coming
<1>4. ASSUME HeadDropped(a)
      PROVE  /\ Chain(Pending(a)', src'[a])
             /\ At(Pending(a)', src'[a], 1) = Succ(Coming(a))
             /\ Coming(a) = Head(Pending(a))
  <2>1. /\ Chain(Tail(Pending(a)), src[a])
        /\ At(Tail(Pending(a)), src[a], 1) = Succ(Head(Pending(a)))
        /\ At(Pending(a), src[a], 1) = Head(Pending(a))
    BY <1>1, <1>4, TailChain DEF HeadDropped
  <2> QED
    BY <1>4, <2>1 DEF HeadDropped, Coming
<1> QED
  BY <1>2, <1>3, <1>4

LEMMA ScannedIsComing ==
  ASSUME ScanInv, Scanning
  PROVE  ii \in Anchor /\ seqNum = Coming(ii).seq
<1>1. TypeOK /\ ii \in Anchor
  BY ScannedFrame DEF ScanInv
<1>2. /\ Pending(ii) \in Seq(Frame) /\ Pending(ii) # <<>>
      /\ Head(Pending(ii)) = Head(hist[ii])
  BY <1>1, PendingTypes, PendingHead DEF Scanning
<1>3. At(Pending(ii), src[ii], 1) = Head(Pending(ii))
  BY <1>2, TailChain
<1> QED
  BY <1>1, <1>2, <1>3 DEF Coming, seqNum

(* Nothing is dropped as long as hsn goes with what is coming. *)
LEMMA HsnSteps ==
  ASSUME TypeOK, Scanning, NEW n, seqNum = n, HsnNear(n)
  PROVE  /\ ~DropWaiting /\ ~DropStale
         /\ AllRestarted \/ RaiseHsn \/ DetectRestart => HsnNear(n)'
<1>1. /\ ii \in Anchor /\ seqNum \in 0 .. LastSeq /\ hsn \in 0 .. LastSeq
      /\ LastSeq \in Nat /\ RestartGap \in Nat /\ waiting \in BOOLEAN
  BY ScannedFrame, ParserAssumption DEF TypeOK
<1>2. CASE Followers = {}
  <2>1. hsn = 0 /\ ~waiting
    BY <1>2 DEF HsnNear
  <2>2. ii = 0
    BY <1>1, <1>2 DEF Followers
  <2> QED
    BY <1>1, <2>1, <2>2 DEF DropWaiting, DropStale, AllRestarted, RaiseHsn,
       DetectRestart
<1>3. CASE Followers # {} /\ ~waiting /\ (hsn = n \/ hsn + 1 = n)
  <2>1. ~(seqNum < hsn)
    BY <1>1, <1>3
  <2>2. RaiseHsn => HsnNear(n)'
    BY <1>3 DEF RaiseHsn, HsnNear, seqNum
  <2> QED
    BY <1>3, <2>1, <2>2 DEF DropWaiting, DropStale, AllRestarted, DetectRestart
<1>4. CASE Followers # {} /\ RestartSeen /\ hsn = LastSeq /\ n = 0
  <2>1. LooksRestarted
    BY <1>1, <1>4 DEF LooksRestarted, RestartSeen
  <2>2. ~RaiseHsn
    BY <1>1, <1>4 DEF RaiseHsn
  <2>3. AllRestarted => HsnNear(n)'
    BY <1>4 DEF AllRestarted, HsnNear, seqNum
  <2>4. DetectRestart => HsnNear(n)'
    BY <1>4 DEF DetectRestart, HsnNear, seqNum
  <2> QED
    BY <2>1, <2>2, <2>3, <2>4 DEF DropWaiting, DropStale
<1> QED
  BY <1>2, <1>3, <1>4 DEF HsnNear

(* A lap too short for a restart to be seen: hsn stays at its last number. *)
LEMMA LastNumberSteps ==
  ASSUME TypeOK, OnlyLastNumber, Next
  PROVE  ~waiting' /\ hsn' = LastSeq
<1>1. Scanning => seqNum \in 0 .. LastSeq /\ ~LooksRestarted
  BY ScannedFrame, ParserAssumption DEF OnlyLastNumber, RestartSeen, LooksRestarted
<1>2. ~AllRestarted /\ ~DetectRestart /\ ~NoteRestart
  BY <1>1 DEF AllRestarted, DetectRestart, NoteRestart
<1>3. ~RaiseHsn
  BY <1>1, ParserAssumption DEF RaiseHsn, OnlyLastNumber
<1>4. UNCHANGED <<waiting, hsn>>
  BY <1>2, <1>3 DEF Next, Scan, Arrive, Call, Return, DropWaiting, DropStale,
     Accept, Publish, SpinFull
<1> QED
  BY <1>4 DEF OnlyLastNumber

(* What Publish leaves when all anchors were at one frame f. *)
LEMMA PublishInStep ==
  ASSUME ScanInv, Chained, Lossy = {}, Publish, NEW f \in SentFrame, HsnNear(f.seq),
         \A a \in Anchor : Coming(a) = f
  PROVE  /\ InStep' \/ OnlyLastNumber'
         /\ \A a \in Anchor : snap'[a] = f
<1>0. /\ LastSeq \in Nat /\ RestartGap \in Nat /\ hsn \in 0 .. LastSeq
      /\ ~waiting /\ 0 \in Anchor
  BY ParserAssumption, PublishesFrames DEF ScanInv, TypeOK, Anchor
<1>1. ASSUME NEW a \in Anchor
      PROVE  snap'[a] = f /\ f \in Frame /\ Coming(a)' = Succ(f)
  <2>1. /\ HeadDropped(a) /\ snap'[a] = Head(Pending(a))
        /\ Head(Pending(a)) \in Frame
    BY PublishDrops
  <2>2. At(Pending(a)', src'[a], 1) = Succ(Coming(a)) /\ Coming(a) = Head(Pending(a))
    BY <2>1, ComingStep
  <2> QED
    BY <2>1, <2>2 DEF Coming
<1>2. f \in Frame /\ f.seq \in 0 .. LastSeq /\ Succ(f) \in SentFrame
  BY <1>0, <1>1, LaterFacts DEF SentFrame
<1>3. Followers # {} => hsn = f.seq
  <2> SUFFICES ASSUME NEW a \in Followers PROVE hsn = f.seq
    OBVIOUS
  <2>1. a \in Anchor /\ a # 0 /\ a < ii
    BY ParserAssumption DEF Followers, Publish, Anchor
  <2>2. Head(hist[a]).seq = hsn
    BY <1>0, <2>1 DEF ScanInv, PassedAccepted, Publish
  <2>3. snap'[a] = Head(hist[a])
    BY <2>1 DEF Publish
  <2> QED
    BY <1>1, <2>1, <2>2, <2>3
<1>4. hsn' = hsn /\ ~waiting' /\ snap' # NoSnap
  <2>1. snap' \in [Anchor -> Frame]
    BY PublishesFrames DEF Publish
  <2> QED
    BY <1>0, <2>1, ParserAssumption DEF Publish
<1>5. ASSUME HsnNear(Succ(f).seq)' PROVE InStep'
  BY <1>1, <1>2, <1>4, <1>5 DEF InStep
<1>6. CASE Followers = {}
  <2>1. hsn = 0
    BY <1>6 DEF HsnNear
  <2> QED
    BY <1>1, <1>4, <1>5, <1>6, <2>1 DEF HsnNear
<1>7. CASE Followers # {} /\ f.seq < LastSeq
  <2>1. hsn' + 1 = Succ(f).seq
    BY <1>2, <1>3, <1>4, <1>7 DEF Succ
  <2> QED
    BY <1>1, <1>4, <1>5, <1>7, <2>1 DEF HsnNear
<1>8. CASE Followers # {} /\ f.seq = LastSeq
  <2>1. hsn' = LastSeq /\ Succ(f).seq = 0
    BY <1>0, <1>3, <1>4, <1>8 DEF Succ
  <2>2. CASE RestartSeen
    BY <1>1, <1>5, <1>8, <2>1, <2>2 DEF HsnNear, RestartSeen
  <2>3. CASE ~RestartSeen
    BY <1>1, <1>4, <1>8, <2>1, <2>3 DEF OnlyLastNumber, RestartSeen
  <2> QED
    BY <1>1, <2>2, <2>3
<1> QED
  BY <1>0, <1>2, <1>6, <1>7, <1>8

LEMMA PublishesLastNumber ==
  ASSUME ScanInv, OnlyLastNumber, Publish
  PROVE  snap' # NoSnap /\ \A a \in Anchor : snap'[a].seq = LastSeq
<1>1. /\ snap' = [a \in Anchor |-> Head(hist[a])]
      /\ \A a \in Anchor : a < ii /\ Head(hist[a]) \in Frame
  BY PublishesFrames, ParserAssumption DEF Publish, Anchor
<1>2. \A a \in Anchor : Head(hist[a]).seq >= LastSeq
  BY <1>1 DEF ScanInv, PassedAccepted, Publish, OnlyLastNumber
<1>3. \A a \in Anchor : Head(hist[a]).seq = LastSeq
  BY <1>1, <1>2, ParserAssumption DEF Frame
<1> QED
  BY <1>1, <1>3, ParserAssumption

LEMMA InitSkipInv == Init => SkipInv
<1> SUFFICES ASSUME Init PROVE SkipInv
  OBVIOUS
<1>1. \A a \in Anchor : Pending(a) = <<>> /\ src[a] = First
  BY DEF Init, Pending
<1>2. Chained /\ \A a \in Anchor : Coming(a) = First
  BY <1>1 DEF Chained, Chain, Coming, At
<1>3. First \in SentFrame /\ HsnNear(First.seq)
  BY ParserAssumption DEF Init, First, SentFrame, HsnNear
<1>4. InStep
  BY <1>2, <1>3 DEF InStep, Init
<1> QED
  BY <1>2, <1>4, InitOrderInv DEF SkipInv

LEMMA NextSkipInv ==
  ASSUME Lossy = {}, SkipInv, [Next]_vars
  PROVE  SkipInv'
<1>1. ScanInv /\ TypeOK /\ Chained /\ OrderInv
  BY DEF SkipInv, OrderInv, ScanInv
<1>2. OrderInv'
  BY <1>1, NextOrderInv
<1>3. Chained'
  <2>1. ASSUME NEW a \in Anchor PROVE Chain(Pending(a)', src'[a])
    BY <1>1, ComingStep, StreamChanges
  <2> QED
    BY <2>1 DEF Chained, Chain, At
<1>4. ASSUME InStep PROVE InStep' \/ OnlyLastNumber'
  <2>1. PICK f \in SentFrame :
          /\ \A a \in Anchor : Coming(a) = f
          /\ snap # NoSnap => \A a \in Anchor : f = Succ(snap[a])
          /\ HsnNear(f.seq)
    BY <1>4 DEF InStep
  <2>0. \A a \in Anchor : Coming(a) = f
    BY <2>1
  <2>2. CASE Publish
    BY <1>1, <2>0, <2>1, <2>2, PublishInStep
  <2>3. CASE ~Publish
    <3>1. Scanning => seqNum = f.seq
      BY <1>1, <2>0, ScannedIsComing
    <3>2. ~DropWaiting /\ ~DropStale
      BY <1>1, <2>1, <3>1, HsnSteps DEF DropWaiting, DropStale
    <3>3. ASSUME NEW a \in Anchor PROVE Coming(a)' = f /\ snap' = snap
      <4>1. StreamUnchanged(a) \/ FrameSent(a)
        BY <1>1, <2>3, <3>2, StreamChanges
      <4>2. At(Pending(a)', src'[a], 1) = f
        BY <1>1, <2>0, <4>1, ComingStep
      <4>3. snap' = snap
        BY <1>1, <2>3, StreamChanges
      <4> QED
        BY <4>2, <4>3 DEF Coming
    <3>4. HsnNear(f.seq)'
      <4>1. CASE AllRestarted \/ RaiseHsn \/ DetectRestart
        BY <1>1, <2>1, <3>1, <4>1, HsnSteps DEF AllRestarted, RaiseHsn, DetectRestart
      <4>2. CASE UNCHANGED <<hsn, waiting>>
        BY <2>1, <4>2 DEF HsnNear
      <4> QED
        BY <2>3, <3>2, <4>1, <4>2 DEF Next, Scan, Arrive, Call, Return, NoteRestart,
           Accept, SpinFull, vars
    <3> QED
      BY <2>1, <3>3, <3>4 DEF InStep
  <2> QED
    BY <2>2, <2>3
<1>5. ASSUME OnlyLastNumber PROVE OnlyLastNumber'
  <2>1. CASE UNCHANGED vars
    BY <1>5, <2>1 DEF OnlyLastNumber, RestartSeen, vars
  <2>2. CASE Next
    <3>1. ~waiting' /\ hsn' = LastSeq
      BY <1>1, <1>5, <2>2, LastNumberSteps
    <3>2. CASE Publish
      BY <1>1, <1>5, <3>1, <3>2, PublishesLastNumber DEF OnlyLastNumber, RestartSeen
    <3>3. CASE ~Publish
      <4>1. snap' = snap
        BY <2>2, <3>3 DEF Next, Scan, Arrive, Call, Return, NoteRestart,
           AllRestarted, DropWaiting, RaiseHsn, DetectRestart, DropStale, Accept,
           SpinFull
      <4> QED
        BY <1>5, <3>1, <4>1 DEF OnlyLastNumber, RestartSeen
    <3> QED
      BY <3>2, <3>3
  <2> QED
    BY <2>1, <2>2
<1> QED
  BY <1>1, <1>2, <1>3, <1>4, <1>5 DEF SkipInv

(* With no frame missing, an anchor's next publication in a lap is of its next
   frame: stale frames are dropped, and a restart is awaited, only where the
   numbers start over. *)
THEOREM NoSweepSkippedHolds == Lossy = {} => (Spec => NoSweepSkipped)
<1> SUFFICES ASSUME Lossy = {} PROVE Spec => NoSweepSkipped
  OBVIOUS
<1>1. SkipInv /\ [Next]_vars =>
        [snap # NoSnap /\ Publishes =>
           \A a \in Anchor : snap'[a].lap = snap[a].lap =>
                                 snap'[a].seq = snap[a].seq + 1]_vars
  <2> SUFFICES ASSUME SkipInv, Next, snap # NoSnap, Publishes, NEW a \in Anchor,
                      snap'[a].lap = snap[a].lap
               PROVE  snap'[a].seq = snap[a].seq + 1
    OBVIOUS
  <2>1. /\ ScanInv /\ TypeOK /\ Chained /\ OrderInv
        /\ snap[a] \in Frame
    BY DEF SkipInv, OrderInv, ScanInv, TypeOK
  <2>2. Publish
    BY <2>1, OnlyPublishPublishes
  <2>3. CASE InStep
    <3>1. PICK f \in SentFrame :
            /\ \A b \in Anchor : Coming(b) = f
            /\ \A b \in Anchor : f = Succ(snap[b])
            /\ HsnNear(f.seq)
      BY <2>3 DEF InStep
    <3>2. snap'[a] = Succ(snap[a])
      BY <2>1, <2>2, <3>1, PublishInStep
    <3> QED
      BY <2>1, <3>2, ParserAssumption DEF Succ, Frame
  <2>4. CASE OnlyLastNumber
    <3>1. snap'[a].seq = LastSeq /\ snap[a].seq = LastSeq
      BY <2>1, <2>2, <2>4, PublishesLastNumber DEF OnlyLastNumber
    <3>2. Later(snap'[a], snap[a])
      BY <2>1, <2>2, PublishesLater
    <3> QED
      BY <2>1, <3>1, <3>2, ParserAssumption DEF Later, Frame
  <2> QED
    BY <2>3, <2>4 DEF SkipInv
<1>2. Init => SkipInv
  BY InitSkipInv
<1>3. SkipInv /\ [Next]_vars => SkipInv'
  BY NextSkipInv
<1> QED
  BY <1>1, <1>2, <1>3, PTL DEF Spec, NoSweepSkipped
=============================================================================
