--------------------------- MODULE PositionSearch ---------------------------
(***************************************************************************)
(* The descent of tdoa4_slow.  From the origin, a position moves to the    *)
(* best of its neighbours on a grid (one of which is itself) for as long   *)
(* as that lowers the error; a position too far from the origin ends the   *)
(* search at the origin.                                                   *)
(*                                                                         *)
(* The error of a position, the sum over the anchors of the squares of the *)
(* differences in distance, is any function of the position.  Which of     *)
(* several equally good neighbours is taken is left open: in the source it *)
(* is the first in d_poss_steps.                                           *)
(***************************************************************************)
EXTENDS Integers

CONSTANTS
  Grid,        \* positions the search can reach
  Origin,
  Neighbours,  \* positions one of d_poss_steps away, by position
  Near,        \* positions with mag <= 100.0
  Errors       \* functions from Grid to an error

\* One of the steps is of length zero.
ASSUME GridAssumption ==
  /\ Near \subseteq Grid /\ Origin \in Near
  /\ Neighbours \in [Near -> SUBSET Grid]
  /\ \A p \in Near : p \in Neighbours[p]
  /\ Errors \subseteq [Grid -> Nat]

VARIABLES
  error,         \* the error function of the measurement at hand
  est_position,
  best_error,    \* the best error so far, or Infinity
  new_est,
  ranAway        \* the search was ended for going too far (history)

vars == <<error, est_position, best_error, new_est, ranAway>>

Infinity == -1

Lower(e, f) == f = Infinity \/ e < f

(* The candidates with the lowest error *)
Best ==
  {c \in Neighbours[est_position] :
     \A d \in Neighbours[est_position] : error[c] <= error[d]}

-----------------------------------------------------------------------------
\* mutant: there is no such check
LandAnywhere(p) == est_position' = p /\ UNCHANGED ranAway

\* The check at the end of an iteration.
Land(p) ==
  IF p \in Near
    THEN est_position' = p /\ UNCHANGED ranAway
    ELSE est_position' = Origin /\ ranAway' = TRUE

\* mutant: a step that makes nothing better is taken too
MoveLevel ==
  /\ new_est
  /\ \E c \in Best :
       /\ Lower(error[c], best_error) \/ error[c] = best_error
       /\ best_error' = error[c]
       /\ Land(c)
       /\ new_est' = (c \in Near)
  /\ UNCHANGED error

\* mutant: the step taken is not the one of the lowest error
MoveElsewhere ==
  /\ new_est
  /\ \E c \in Best :
       /\ Lower(error[c], best_error)
       /\ best_error' = error[c]
       /\ \E d \in Neighbours[est_position] : Land(d) /\ new_est' = (d \in Near)
  /\ UNCHANGED error

Move ==
  /\ new_est
  /\ \E c \in Best :
       /\ Lower(error[c], best_error)
       /\ best_error' = error[c]
       /\ Land(c)
       /\ new_est' = (c \in Near)
  /\ UNCHANGED error

Settle ==
  /\ new_est
  /\ \A c \in Neighbours[est_position] : ~Lower(error[c], best_error)
  /\ new_est' = FALSE
  /\ UNCHANGED <<error, est_position, best_error, ranAway>>

Init ==
  /\ error \in Errors
  /\ est_position = Origin /\ best_error = Infinity
  /\ new_est = TRUE /\ ranAway = FALSE

Next == Move \/ Settle
-----------------------------------------------------------------------------
(* Properties *)

TypeOK ==
  /\ error \in Errors
  /\ est_position \in Near
  /\ best_error \in Nat \cup {Infinity}
  /\ {new_est, ranAway} \subseteq BOOLEAN

(* The position reported is no worse than any of its neighbours, unless the
   search ran away. *)
LocalMinimum ==
  ~new_est /\ ~ranAway =>
    \A c \in Neighbours[est_position] : error[est_position] <= error[c]
=============================================================================
