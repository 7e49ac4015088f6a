----------------------------- MODULE MCLocation -----------------------------
(* What becomes of snapshots, one of two parts at a time, which share no     *)
(* state: the search for the position of one, for two anchors with           *)
(* calibrations on both sides of the range of a turn, a line of positions    *)
(* and every function to a few errors; or the way of several, through the    *)
(* blocks and the socket, to the page.                                       *)
EXTENDS HarmonicSearch, LocationFeed

CONSTANTS
  Reach,     \* the last near position on either side
  MaxError

Calibrations == [a \in 0 .. Anchors - 1 |-> IF a = 0 THEN 11 ELSE -3]
Line == -(Reach + 1) .. Reach + 1
NearLine == -Reach .. Reach
NextTo == [p \in NearLine |-> {p - 1, p, p + 1}]
AnyErrors == [Line -> 0 .. MaxError]

VARIABLE part      \* "search" or "feed"

parts == <<part, searchVars, feedVars>>

MCInit == part \in {"search", "feed"} /\ SearchInit /\ FeedInit

Search(A) == part = "search" /\ A /\ UNCHANGED <<part, feedVars>>
Feed(A) == part = "feed" /\ A /\ UNCHANGED <<part, searchVars>>
Pipe(A) == Feed(A /\ UNCHANGED wsVars)

MCNext == Search(SearchNext) \/ Feed(FeedNext)

(* The loop of the descent goes on; every block's thread runs, and what is
   sent arrives. *)
MCSpec ==
  /\ MCInit /\ [][MCNext]_parts
  /\ WF_parts(Search(Descend))
  /\ WF_parts(Pipe(Publish)) /\ \A b \in Block : WF_parts(Pipe(Work(b)))
  /\ WF_parts(Pipe(EstimatePrf)) /\ WF_parts(Pipe(ExtractHarmonics)) /\ WF_parts(Pipe(Locate))
  /\ WF_parts(Feed(Deliver))

(* Every snapshot that is published is shown: none is left in a buffer for
   good. *)
EverySnapshotShown ==
  part = "feed" => \A n \in Snapshot : <>(\E e \in Sprite : ring.place[e] = Good(n))
=============================================================================
