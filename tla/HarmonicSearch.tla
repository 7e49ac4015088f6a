--------------------------- MODULE HarmonicSearch ---------------------------
(***************************************************************************)
(* harmonicLocalization: the times of arrival of a snapshot, and the       *)
(* descent to its position.  The times enter the descent only through the  *)
(* error function, which is any: they are forgotten when it is chosen.     *)
(***************************************************************************)
EXTENDS ToaSearch, PositionSearch

searchVars == <<toaVars, vars>>

\* The descent has its initial values; which error function is at hand before
\* there are times does not matter.
SearchInit == ToaInit /\ Init /\ error = CHOOSE e \in Errors : TRUE

\* extractToAs has returned, and the loop of tdoa4_slow begins.
BeginDescent ==
  /\ phase = "done" /\ phase' = "locate"
  /\ error' \in Errors
  /\ toas' = [a \in Anchor |-> 0] /\ found' = toas'
  /\ UNCHANGED <<ii, response, est_position, best_error, new_est, ranAway>>

Extract == ToaNext /\ UNCHANGED vars
Descend == phase = "locate" /\ Next /\ UNCHANGED toaVars

SearchNext == Extract \/ BeginDescent \/ Descend

SearchSpec == SearchInit /\ [][SearchNext]_searchVars /\ WF_searchVars(Descend)

(* The descent ends, whatever the times: the loop has no bound of its own. *)
Ends == phase = "locate" ~> ~new_est

=============================================================================
