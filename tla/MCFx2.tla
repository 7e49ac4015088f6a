-------------------------------- MODULE MCFx2 -------------------------------
(* The firmware with one direction in use at a time, which is how the flow   *)
(* graphs use a board: each module has what it needs of the other direction. *)
EXTENDS Fx2Receive, Fx2Transmit

VARIABLE direction   \* "in" or "out"

fx2 == <<direction, vars, transmitVars>>

MCInit ==
  /\ direction \in {"in", "out"}
  /\ Init /\ (direction = "in" \/ ~tx_used)
  /\ TransmitInit /\ (direction = "out" \/ ~rx_used)

In(A) == direction = "in" /\ A /\ UNCHANGED <<direction, transmitVars>>
Out(A) == direction = "out" /\ A /\ UNCHANGED <<direction, vars>>

MCNext == In(Next) \/ Out(TransmitNext)

(* The clocks run, the receive chain goes on strobing, the firmware loops for
   ever, and the host goes on reading. *)
MCSpec ==
  /\ MCInit /\ [][MCNext]_fx2
  /\ WF_fx2(In(DspTick(TRUE))) /\ WF_fx2(In(DspTick(FALSE))) /\ WF_fx2(In(UsbTick))
  /\ WF_fx2(In(Firmware)) /\ WF_fx2(In(HostReads))

(* While the host wants samples, packets reach it: main_loop gets to the
   transfer, however often flags are raised and commands come. *)
PacketsFlow ==
  direction = "in" => (<>[](g_rx_enable /\ ~reset) => []<>(pc = "transfer"))
=============================================================================
