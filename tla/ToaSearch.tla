----------------------------- MODULE ToaSearch -----------------------------
(***************************************************************************)
(* extractToAs of harmonic_localizer, from the magnitudes of the impulse   *)
(* responses on, and the start of tdoa4_slow.  For each anchor the search  *)
(* starts at the peak of the response and goes on (the response runs       *)
(* backwards and is circular) to the last bin above the threshold, until   *)
(* more than a quarter of the bins in a row are below it.  The times of    *)
(* arrival are then turned so that the first anchor's is in the middle,    *)
(* and taken relative to it.                                               *)
(*                                                                         *)
(* A magnitude is Below the threshold, above it, or the Peak; the peak of  *)
(* a response is unique.                                                   *)
(***************************************************************************)
EXTENDS Integers

CONSTANTS
  Bins,      \* FFT_SIZE_POST*INTERP
  Anchors,   \* NUM_ANCHORS
  ToaErrors  \* d_toa_errors, by anchor

ASSUME ToaAssumption ==
  /\ Bins \in Nat \ {0} /\ Bins % 4 = 0
  /\ Anchors \in Nat \ {0}
  /\ ToaErrors \in [0 .. Anchors - 1 -> Int]

VARIABLES
  phase,     \* "find", "look", "turn", "subtract" or "done"
  toas,      \* the times of arrival, by anchor; 0 for those still to be found
  ii,        \* anchors done
  response,  \* cir_mag of the anchor at hand
  found      \* the times of arrival found before they were turned (history)

toaVars == <<phase, toas, ii, response, found>>

Below == 0
Above == 1
Peak == 2

Bin == 0 .. Bins - 1
Anchor == 0 .. Anchors - 1

NoResponse == [b \in Bin |-> Below]

Responses ==
  {r \in [Bin -> {Below, Above, Peak}] :
     \E p \in Bin : \A b \in Bin : r[b] = Peak <=> b = p}

-----------------------------------------------------------------------------
(* The search *)

max_mag_idx(r) == CHOOSE b \in Bin : r[b] = Peak

\* mutant: the last bin is not followed by the first
AroundStuck(b) == IF b + 1 >= Bins THEN b ELSE b + 1

Around(b) == IF b + 1 >= Bins THEN 0 ELSE b + 1

\* mutant: the end of a run of bins above the threshold does not end the gap
LookOn(r, s) ==
  IF r[s.cur] = Below THEN [s EXCEPT !.below = @ + 1, !.cur = Around(@)]
                      ELSE [s EXCEPT !.cand = s.cur, !.cur = Around(@)]

Look(r, s) ==
  IF r[s.cur] = Below THEN [s EXCEPT !.below = @ + 1, !.cur = Around(@)]
                      ELSE [s EXCEPT !.cand = s.cur, !.below = 0, !.cur = Around(@)]

(* cand_toa_idx after the loop, which ends early when the gap is too large *)
cand_toa_idx(r) ==
  LET start == [cur |-> max_mag_idx(r), cand |-> max_mag_idx(r), below |-> 0]
      loop[j \in 0 .. Bins] ==
        IF j = 0 THEN start
        ELSE IF loop[j - 1].below > Bins \div 4 THEN loop[j - 1] ELSE Look(r, loop[j - 1])
  IN  loop[Bins].cand

res_toa(r, a) == (Bins - cand_toa_idx(r) - ToaErrors[a]) % Bins

(* The transform gives the response of the next anchor. *)
Respond ==
  /\ phase = "find"
  /\ response' \in Responses
  /\ phase' = "look"
  /\ UNCHANGED <<toas, ii, found>>

FindToa ==
  /\ phase = "look"
  /\ toas' = [toas EXCEPT ![ii] = res_toa(response, ii)]
  /\ ii' = ii + 1
  /\ found' = toas'
  /\ phase' = IF ii + 1 = Anchors THEN "turn" ELSE "find"
  /\ response' = NoResponse

-----------------------------------------------------------------------------
(* The rotation *)

Wrap(t) == IF t < 0 THEN t + Bins ELSE IF t >= Bins THEN t - Bins ELSE t

rotate_amount == (Bins \div 2) - toas[0]

Turn ==
  /\ phase = "turn"
  /\ toas' = [a \in Anchor |-> Wrap(toas[a] + rotate_amount)]
  /\ phase' = "subtract"
  /\ ii' = Anchors - 1
  /\ UNCHANGED <<response, found>>

\* mutant: the loop runs upwards, and the first anchor's time is gone
SubtractUp ==
  /\ phase = "subtract"
  /\ toas' = [toas EXCEPT ![Anchors - 1 - ii] = @ - toas[0]]
  /\ ii' = ii - 1
  /\ phase' = IF ii = 0 THEN "done" ELSE "subtract"
  /\ UNCHANGED <<response, found>>

(* The loop of tdoa4_slow runs downwards. *)
Subtract ==
  /\ phase = "subtract"
  /\ toas' = [toas EXCEPT ![ii] = @ - toas[0]]
  /\ ii' = ii - 1
  /\ phase' = IF ii = 0 THEN "done" ELSE "subtract"
  /\ UNCHANGED <<response, found>>

ToaInit ==
  /\ phase = "find" /\ ii = 0
  /\ toas = [a \in Anchor |-> 0] /\ found = toas
  /\ response = NoResponse

ToaNext == Respond \/ FindToa \/ Turn \/ Subtract
-----------------------------------------------------------------------------
(* Properties *)

(* The bin at distance d from the peak *)
BinAt(r, d) == (max_mag_idx(r) + d) % Bins

(* A bin belongs to the cluster of the peak when it is not below the threshold
   and no more than a quarter of the bins before it are missing in a row. *)
InCluster(r, d) ==
  /\ r[BinAt(r, d)] # Below
  /\ \A from \in 1 .. d :
       from + (Bins \div 4) < d =>
         \E k \in from .. from + (Bins \div 4) : r[BinAt(r, k)] # Below

(* The search ends at the far end of the cluster of the peak: it neither
   stops inside it, nor goes on to another one, wherever the response is cut
   into a circle. *)
FindsEndOfCluster ==
  phase = "look" =>
    \E d \in Bin :
      /\ InCluster(response, d)
      /\ \A e \in d + 1 .. Bins - 1 : ~InCluster(response, e)
      /\ cand_toa_idx(response) = BinAt(response, d)

(* A response that is later by some bins gives a time that is later by as
   many. *)
DelayShiftsToa ==
  phase = "look" =>
    \A s \in Bin :
      LET later == [b \in Bin |-> response[(b + s) % Bins]]
      IN  res_toa(later, 0) = (res_toa(response, 0) + s) % Bins

(* What goes into the search for the position are the differences of the
   times found, of the right sign and never more than half a turn. *)
DifferencesOfToas ==
  phase = "done" =>
    \A a \in Anchor :
      /\ toas[a] \in -(Bins \div 2) .. (Bins \div 2) - 1
      /\ (toas[a] - (found[a] - found[0])) % Bins = 0
=============================================================================
