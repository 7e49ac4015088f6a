---------------------------- MODULE LocationFeed ----------------------------
(***************************************************************************)
(* From snapshots to sprites: the blocks of TagPipeline send numbers to    *)
(* the page of WsLocation.  The socket keeps their order and may cut them  *)
(* into messages anywhere.                                                 *)
(***************************************************************************)
EXTENDS TagPipeline, WsLocation

CONSTANT MessageMax  \* numbers in a message (bound)

ASSUME MessageAssumption == MessageMax \in Nat \ {0}

feedVars == <<pipeVars, wsVars>>

(* A message arrives. *)
Deliver ==
  /\ \E n \in 1 .. MessageMax :
       /\ n <= Len(ws)
       /\ onMessage(SubSeq(ws, 1, n))
       /\ ws' = SubSeq(ws, n + 1, Len(ws))
  /\ UNCHANGED <<published, nread, noutput, count, estTags, extVars,
                 d_harmonic_phasors, d_harmonic_freqs, d_prf>>

FeedInit == PipeInit /\ WsInit
FeedNext == (PipeNext /\ UNCHANGED wsVars) \/ Deliver

FeedSpec == FeedInit /\ [][FeedNext]_feedVars

-----------------------------------------------------------------------------
(* Properties *)

(* Position n, of snapshot n and nothing else, converted once *)
Good(n) == Numbers([from |-> {n}, passes |-> {1}])

(* The snapshots whose positions the page has taken *)
Taken ==
  nread["locate"] + count["locate"] - ((Len(ws) + Len(historic_data)) \div 3)

(* The page shows the last positions, the newest largest, each computed from
   its own snapshot alone and of whole coordinates; what is not shown yet, or
   no longer, has no size.  The tags, the state the blocks carry from one
   snapshot to the next, the cuts of the socket and the ring all have a part
   in this. *)
ShowsLatest ==
  \A age \in 0 .. estimateHistory - 1 :
    LET e == (ring.cur - age) % estimateHistory
    IN  /\ age < Taken => ring.place[e] = Good(Taken - age)
        /\ ring.scale[e] = IF age < Taken THEN estimateHistory - 1 - age ELSE 0
=============================================================================
