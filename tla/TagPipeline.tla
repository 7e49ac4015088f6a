----------------------------- MODULE TagPipeline -----------------------------
(***************************************************************************)
(* The GNU Radio blocks behind stream_parser: prf_estimator tags every     *)
(* snapshot with an estimate of the tag's frequency, harmonic_extractor    *)
(* reads that tag and adds two of its own, and harmonic_localizer turns    *)
(* what the three tags carry into a position.                              *)
(*                                                                         *)
(* A block is called for any number of the snapshots it has at hand and    *)
(* handles them one by one; blocks run in threads of their own.  A value   *)
(* is the set of snapshots whose samples it depends on, and how often it   *)
(* was converted in place.                                                 *)
(***************************************************************************)
EXTENDS Integers, Sequences

CONSTANTS
  Snapshots,  \* snapshots published (bound)
  BufMax      \* snapshots the buffer between two blocks holds

ASSUME PipelineAssumption == Snapshots \in Nat \ {0} /\ BufMax \in Nat \ {0}

VARIABLES
  published,           \* snapshots stream_parser has published
  nread,               \* nread[b]: nitems_read, and nitems_written, of block b
  noutput,             \* noutput[b]: noutput_items of the call of block b, or 0
  count,               \* count[b]: those done in it
  estTags,             \* tags on stream 0 behind prf_estimator
  extTags,             \* tags on stream 0 behind harmonic_extractor
  d_prf_est,           \* of harmonic_extractor
  d_harmonic_phasors,  \* of harmonic_localizer, as is
  d_harmonic_freqs,
  d_prf,               \* d_prf_est of harmonic_localizer
  ws                   \* numbers on their way to the browser

extVars == <<extTags, d_prf_est>>
locVars == <<d_harmonic_phasors, d_harmonic_freqs, d_prf, ws>>
pipeVars == <<published, nread, noutput, count, estTags, extVars, locVars>>

Block == {"estimate", "extract", "locate"}
Snapshot == 1 .. Snapshots

Value == [from : SUBSET Snapshot, passes : Nat]
Unset == [from |-> {}, passes |-> 0]
Tag(at, key, value) == [at |-> at, key |-> key, value |-> value]

-----------------------------------------------------------------------------
(* The scheduler: a block is called for items that are there and have room
   behind the block. *)

Written(b) ==
  CASE b = "estimate" -> published
    [] b = "extract"  -> nread["estimate"]
    [] b = "locate"   -> nread["extract"]

Room(b) ==
  CASE b = "estimate" -> BufMax - (nread["estimate"] - nread["extract"])
    [] b = "extract"  -> BufMax - (nread["extract"] - nread["locate"])
    [] b = "locate"   -> BufMax

Publish ==
  /\ published < Snapshots /\ published - nread["estimate"] < BufMax
  /\ published' = published + 1
  /\ UNCHANGED <<nread, noutput, count, estTags, extVars, locVars>>

CallWork(b) ==
  /\ noutput[b] = 0
  /\ \E n \in 1 .. BufMax :
       /\ n <= Written(b) - nread[b] /\ n <= Room(b)
       /\ noutput' = [noutput EXCEPT ![b] = n]
  /\ UNCHANGED <<published, nread, count, estTags, extVars, locVars>>

WorkReturns(b) ==
  /\ noutput[b] # 0 /\ count[b] = noutput[b]
  /\ nread' = [nread EXCEPT ![b] = @ + noutput[b]]
  /\ noutput' = [noutput EXCEPT ![b] = 0]
  /\ count' = [count EXCEPT ![b] = 0]
  /\ UNCHANGED <<published, estTags, extVars, locVars>>

-----------------------------------------------------------------------------
(* The rounds of the loops in the three work functions.  Items are numbered
   from 0 and snapshots from 1: item i of each stream is snapshot i + 1. *)

Round(b) ==
  /\ count[b] < noutput[b]
  /\ count' = [count EXCEPT ![b] = @ + 1]
  /\ UNCHANGED <<published, nread, noutput>>

At(b) == nread[b] + count[b]

(* get_tags_in_range of one item, and the value of a key: the one at hand is
   kept when there is no tag. *)
TagsAt(tags, b) == {t \in tags : t.at = At(b)}

Latest(tags, key, old) ==
  IF \E t \in tags : t.key = key THEN (CHOOSE t \in tags : t.key = key).value ELSE old

EstimatePrf ==
  /\ Round("estimate")
  /\ estTags' = estTags \cup
       {Tag(At("estimate"), "prf", [from |-> {At("estimate") + 1}, passes |-> 0])}
  /\ UNCHANGED <<extVars, locVars>>

\* mutant: both tags go to the first item of the call
ExtractToFirst ==
  /\ Round("extract")
  /\ LET seen == TagsAt(estTags, "extract")
         at == At("extract")
         prf == Latest(seen, "prf", d_prf_est)
     IN  /\ d_prf_est' = prf
         /\ extTags' = extTags \cup seen \cup
              {Tag(nread["extract"], "phasor", [from |-> {at + 1} \cup prf.from, passes |-> 0]),
               Tag(nread["extract"], "hfreq", [from |-> prf.from, passes |-> 0])}
  /\ UNCHANGED <<estTags, locVars>>

(* The tags of the item go on behind the block, and two more with them. *)
ExtractHarmonics ==
  /\ Round("extract")
  /\ LET seen == TagsAt(estTags, "extract")
         at == At("extract")
         prf == Latest(seen, "prf", d_prf_est)
     IN  /\ d_prf_est' = prf
         /\ extTags' = extTags \cup seen \cup
              {Tag(at, "phasor", [from |-> {at + 1} \cup prf.from, passes |-> 0]),
               Tag(at, "hfreq", [from |-> prf.from, passes |-> 0])}
  /\ UNCHANGED <<estTags, locVars>>

Pass(v) == [v EXCEPT !.passes = @ + 1]

(* What a position was computed from, and the numbers that are sent. *)
Fix(phasors, freqs, prf) ==
  [from |-> phasors.from \cup freqs.from \cup prf.from,
   passes |-> {phasors.passes, freqs.passes}]

Numbers(p) == [axis \in 1 .. 3 |-> [fix |-> p, axis |-> axis]]

(* Frequencies and phasors are converted in place, then the position of the
   snapshot is sent. *)
Locate ==
  /\ Round("locate")
  /\ LET seen == TagsAt(extTags, "locate")
     IN  /\ d_harmonic_phasors' = Pass(Latest(seen, "phasor", d_harmonic_phasors))
         /\ d_harmonic_freqs' = Pass(Latest(seen, "hfreq", d_harmonic_freqs))
         /\ d_prf' = Latest(seen, "prf", d_prf)
  /\ ws' = ws \o Numbers(Fix(d_harmonic_phasors', d_harmonic_freqs', d_prf'))
  /\ UNCHANGED <<estTags, extVars>>

PipeInit ==
  /\ published = 0
  /\ nread = [b \in Block |-> 0]
  /\ noutput = [b \in Block |-> 0]
  /\ count = [b \in Block |-> 0]
  /\ estTags = {} /\ extTags = {}
  /\ d_prf_est = Unset /\ d_harmonic_phasors = Unset /\ d_harmonic_freqs = Unset
  /\ d_prf = Unset
  /\ ws = <<>>

Work(b) == CallWork(b) \/ WorkReturns(b)

PipeNext ==
  \/ Publish
  \/ \E b \in Block : Work(b)
  \/ EstimatePrf \/ ExtractHarmonics \/ Locate

=============================================================================
