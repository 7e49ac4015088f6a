----------------------------- MODULE Fx2Receive -----------------------------
(***************************************************************************)
(* The receive half of main_loop, the firmware of the USB controller, with *)
(* rx_buffer on the other side of its pins and the host on the other side  *)
(* of the bus.                                                             *)
(*                                                                         *)
(* An instruction of the controller takes several edges of both clocks of  *)
(* the FPGA; the model has at least two of rxclk and one of usbclk between *)
(* two steps of the firmware.                                              *)
(***************************************************************************)
EXTENDS RxBuffer

CONSTANTS
  Ep6Max,   \* packets the endpoint of the bus buffers
  RdTicks   \* ticks RD is up for a packet: 257

ASSUME Fx2Assumption ==
  /\ Ep6Max \in Nat \ {0}
  /\ RdTicks \in Packet .. 2 * Packet - 1

VARIABLES
  tx_used,       \* the transmit side is in use, and may underrun at any time
  pc,            \* where main_loop is
  g_rx_enable,
  g_rx_overrun,
  reset,         \* rx_dsp_reset, as the host last set it
  clear_status,  \* the pin
  ep6,           \* packets in the endpoint
  settle,        \* edges of both clocks since the last step of the firmware
  unreported,    \* an overrun the host has not been told of (history)
  fresh          \* an overrun since the flag was last recorded (history)

fx2Vars == <<tx_used, pc, g_rx_enable, g_rx_overrun, reset, clear_status, ep6>>
vars == <<fifo, dspVars, usbVars, fx2Vars, settle, unreported, fresh>>

RD == pc = "transfer"

-----------------------------------------------------------------------------
(* The clocks *)

DspTick(strobe) ==
  /\ DspEdge(strobe, reset, clear_status)
  /\ unreported' = (~reset /\ (unreported \/ Overrun(strobe)))
  /\ fresh' = (fresh \/ (~reset /\ Overrun(strobe)))
  /\ settle' = [settle EXCEPT !.dsp = IF @ < 2 THEN @ + 1 ELSE 2]
  /\ UNCHANGED <<usbVars, fx2Vars>>

TransferDone == RD /\ read_count = RdTicks

UsbTick ==
  /\ ~TransferDone
  /\ UsbEdge(RD, reset)
  /\ settle' = [settle EXCEPT !.usb = 1]
  /\ UNCHANGED <<dspVars, fx2Vars, unreported, fresh>>

-----------------------------------------------------------------------------
(* The firmware *)

Settled == settle = [dsp |-> 2, usb |-> 1]

\* The next step of the firmware, from one place to another.
Goto(from, to) ==
  /\ Settled /\ pc = from
  /\ pc' = to
  /\ fresh' = (fresh /\ from # "record")
  /\ settle' = [dsp |-> 0, usb |-> 0]
  /\ UNCHANGED <<dspVars, usbVars, tx_used>>

NoSetup ==
  /\ Goto("setup", "check")
  /\ UNCHANGED <<fifo, g_rx_enable, g_rx_overrun, reset, clear_status, ep6, unreported>>

(* VRQ_GET_STATUS, GS_RX_OVERRUN *)
GetStatus ==
  /\ Goto("setup", "check")
  /\ g_rx_overrun' = FALSE
  /\ unreported' = (unreported /\ ~g_rx_overrun)
  /\ UNCHANGED <<fifo, g_rx_enable, reset, clear_status, ep6>>

(* VRQ_FPGA_SET_RX_ENABLE *)
SetRxEnable ==
  /\ Goto("setup", "check")
  /\ g_rx_enable' \in BOOLEAN
  /\ UNCHANGED <<fifo, g_rx_overrun, reset, clear_status, ep6, unreported>>

\* mutant: the host's reset does not wait for the end of a transfer
SetRxResetAnytime ==
  /\ Settled /\ pc \in {"setup", "transfer"}
  /\ reset' \in BOOLEAN
  /\ settle' = [dsp |-> 0, usb |-> 0]
  /\ fifo' = IF reset' THEN <<>> ELSE fifo
  /\ UNCHANGED <<dspVars, usbVars, tx_used, pc, g_rx_enable, g_rx_overrun, clear_status, ep6,
                 unreported, fresh>>

(* VRQ_FPGA_SET_RX_RESET: the reset clears the fifo at once. *)
SetRxReset ==
  /\ Goto("setup", "check")
  /\ reset' \in BOOLEAN
  /\ fifo' = IF reset' THEN <<>> ELSE fifo
  /\ UNCHANGED <<g_rx_enable, g_rx_overrun, clear_status, ep6, unreported>>

(* The flags of both directions are looked at first. *)
CheckFlags ==
  /\ \/ rx_overrun /\ Goto("check", "record")
     \/ tx_used /\ Goto("check", "record")
     \/ ~rx_overrun /\ Goto("check", "in")
  /\ UNCHANGED <<fifo, g_rx_enable, g_rx_overrun, reset, clear_status, ep6, unreported>>

\* mutant: the overrun is not recorded
RecordNothing ==
  /\ Goto("record", "clear")
  /\ UNCHANGED <<fifo, g_rx_enable, g_rx_overrun, reset, clear_status, ep6, unreported>>

\* mutant: the flags are not cleared
RecordOnly ==
  /\ Goto("record", "in")
  /\ g_rx_overrun' = (g_rx_overrun \/ rx_overrun)
  /\ UNCHANGED <<fifo, g_rx_enable, reset, clear_status, ep6, unreported>>

\* mutant: the loop starts over before the flags are cleared
RecordStartsOver ==
  /\ Goto("record", "setup")
  /\ g_rx_overrun' = (g_rx_overrun \/ rx_overrun)
  /\ UNCHANGED <<fifo, g_rx_enable, reset, clear_status, ep6, unreported>>

Record ==
  /\ Goto("record", "clear")
  /\ g_rx_overrun' = (g_rx_overrun \/ rx_overrun)
  /\ UNCHANGED <<fifo, g_rx_enable, reset, clear_status, ep6, unreported>>

(* fpga_clear_flags: a pulse. *)
ClearFlags ==
  /\ \/ Goto("clear", "cleared") /\ clear_status' = TRUE
     \/ Goto("cleared", "in") /\ clear_status' = FALSE
  /\ UNCHANGED <<fifo, g_rx_enable, g_rx_overrun, reset, ep6, unreported>>

StartTransfer ==
  /\ g_rx_enable /\ ep6 < Ep6Max /\ have_pkt_rdy
  /\ Goto("in", "transfer")
  /\ UNCHANGED <<fifo, g_rx_enable, g_rx_overrun, reset, clear_status, ep6, unreported>>

NoTransfer ==
  /\ ~(g_rx_enable /\ ep6 < Ep6Max /\ have_pkt_rdy)
  /\ Goto("in", "setup")
  /\ UNCHANGED <<fifo, g_rx_enable, g_rx_overrun, reset, clear_status, ep6, unreported>>

(* The bus drops RD after RdTicks ticks; main_loop waits for that. *)
EndTransfer ==
  /\ TransferDone
  /\ pc' = "setup" /\ ep6' = ep6 + 1
  /\ settle' = [dsp |-> 0, usb |-> 0]
  /\ UNCHANGED <<fifo, dspVars, usbVars, tx_used, g_rx_enable, g_rx_overrun, reset,
                 clear_status, unreported, fresh>>

HostReads ==
  /\ ep6 > 0 /\ ep6' = ep6 - 1
  /\ UNCHANGED <<fifo, dspVars, usbVars, tx_used, pc, g_rx_enable, g_rx_overrun, reset,
                 clear_status, settle, unreported, fresh>>

-----------------------------------------------------------------------------
Init ==
  /\ RxBufferInit
  /\ tx_used \in BOOLEAN
  /\ pc = "setup" /\ g_rx_enable = FALSE /\ g_rx_overrun = FALSE
  /\ reset = FALSE /\ clear_status = FALSE /\ ep6 = 0
  /\ settle = [dsp |-> 0, usb |-> 0] /\ unreported = FALSE /\ fresh = FALSE

Ticks == UsbTick \/ \E strobe \in BOOLEAN : DspTick(strobe)
Firmware ==
  \/ NoSetup \/ GetStatus \/ SetRxEnable \/ SetRxReset
  \/ CheckFlags \/ Record \/ ClearFlags
  \/ StartTransfer \/ NoTransfer \/ EndTransfer

Next == Ticks \/ Firmware \/ HostReads

Spec == Init /\ [][Next]_vars
-----------------------------------------------------------------------------
(* Properties *)

TypeOK ==
  /\ RxBufferTypeOK
  /\ pc \in {"setup", "check", "record", "clear", "cleared", "in", "transfer"}
  /\ {tx_used, g_rx_enable, g_rx_overrun, reset, clear_status, unreported, fresh} \subseteq BOOLEAN
  /\ ep6 \in 0 .. Ep6Max
  /\ settle \in [dsp : 0 .. 2, usb : 0 .. 1]

(* The words of the stream take turns by channel, even when the fifo fills up
   or samples are overrun; and as long as no overrun was flagged, each sample
   is complete and follows the one before. *)
ContinuousUnlessFlagged ==
  [][last' # last /\ last' # NoWord =>
       \/ last = NoWord /\ last'.ch = 1
       \/ /\ last.ch < Channels /\ last'.ch = last.ch + 1
          /\ clean => last'.at = last.at
       \/ /\ last.ch = Channels /\ last'.ch = 1
          /\ clean => last'.at = (last.at + 1) % AtMod]_vars

(* A packet is read from a fifo that holds it, and starts with the first
   channel: the host can split the channels without a mark in the data, and a
   reset between packets does not disturb that. *)
PacketWords ==
  [][UsbTick /\ rdreq(RD) => fifo # <<>> /\ Head(fifo) = (read_count % Channels) + 1]_vars

(* An overrun the host was not told of is still on its way to it. *)
NoOverrunLost == unreported => rx_overrun_dsp \/ rx_overrun \/ g_rx_overrun

(* So it is when the transmit side is idle and its flag never clears both. *)
NoOverrunLostRxOnly == ~tx_used => NoOverrunLost

(* The firmware takes the flag for an overrun only when there was one since
   it last did: the pin it reads has been cleared by then, and is not stale. *)
NoFalseOverrun == [][pc = "record" /\ pc' # pc /\ rx_overrun => fresh]_vars
=============================================================================
