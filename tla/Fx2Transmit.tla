----------------------------- MODULE Fx2Transmit ----------------------------
(***************************************************************************)
(* The transmit half of main_loop, with tx_buffer on the other side of its *)
(* pins and the host on the other side of the bus.  As in Fx2Receive there *)
(* are at least two edges of txclk and one of usbclk between two steps of  *)
(* the firmware; the receive half only takes time, and may raise its flag. *)
(***************************************************************************)
EXTENDS TxBuffer

CONSTANTS
  Ep2Max,   \* packets the endpoint of the bus buffers
  WrTicks   \* ticks WR is up for a packet: 257

ASSUME Fx2TransmitAssumption ==
  /\ Ep2Max \in Nat \ {0}
  /\ WrTicks \in TxPacket + 1 .. 2 * TxPacket - 1

VARIABLES
  rx_used,       \* the receive side is in use, and may overrun at any time
  tx_pc,         \* where main_loop is
  g_tx_enable,
  g_tx_underrun,
  tx_reset,      \* tx_dsp_reset, as the host last set it
  tx_clear,      \* the pin clear_status
  ep2,           \* packets in the endpoint
  wr_ticks,      \* ticks of the transfer that have passed
  word,          \* the first word of the packet that is next in the endpoint
  tx_settle,     \* edges of both clocks since the last step of the firmware
  untold         \* an underrun the host has not been told of (history)

txFirmVars == <<rx_used, g_tx_enable, g_tx_underrun, tx_reset, tx_clear, ep2, word>>
transmitVars ==
  <<txfifo, txDspVars, txUsbVars, txFirmVars, tx_pc, wr_ticks, tx_settle, untold>>

WR == tx_pc = "transfer"

-----------------------------------------------------------------------------
(* The clocks *)

TxDspTick(strobe) ==
  /\ TxDspEdge(strobe, tx_reset, tx_clear)
  /\ untold' = (~tx_reset /\ (untold \/ Underrun(strobe)))
  /\ tx_settle' = [tx_settle EXCEPT !.dsp = IF @ < 2 THEN @ + 1 ELSE 2]
  /\ UNCHANGED <<txUsbVars, txFirmVars, tx_pc, wr_ticks>>

(* What is on the bus: the words of the packet, and nothing after it. *)
usbdata == IF WR /\ wr_ticks < TxPacket THEN (word + wr_ticks) % WordMod ELSE NoTxWord

TxTransferDone == WR /\ wr_ticks = WrTicks

TxUsbTick ==
  /\ ~TxTransferDone
  /\ TxUsbEdge(WR, usbdata, tx_reset)
  /\ wr_ticks' = IF WR THEN wr_ticks + 1 ELSE 0
  /\ tx_settle' = [tx_settle EXCEPT !.usb = 1]
  /\ UNCHANGED <<txDspVars, txFirmVars, tx_pc, untold>>

-----------------------------------------------------------------------------
(* The firmware *)

TxSettled == tx_settle = [dsp |-> 2, usb |-> 1]

TxGoto(from, to) ==
  /\ TxSettled /\ tx_pc = from
  /\ tx_pc' = to
  /\ tx_settle' = [dsp |-> 0, usb |-> 0]
  /\ UNCHANGED <<txDspVars, txUsbVars, rx_used, word, ep2>>

TxNoSetup ==
  /\ TxGoto("setup", "check")
  /\ UNCHANGED <<txfifo, g_tx_enable, g_tx_underrun, tx_reset, tx_clear, wr_ticks, untold>>

(* VRQ_GET_STATUS, GS_TX_UNDERRUN *)
GetTxStatus ==
  /\ TxGoto("setup", "check")
  /\ g_tx_underrun' = FALSE
  /\ untold' = (untold /\ ~g_tx_underrun)
  /\ UNCHANGED <<txfifo, g_tx_enable, tx_reset, tx_clear, wr_ticks>>

(* VRQ_FPGA_SET_TX_ENABLE *)
SetTxEnable ==
  /\ TxGoto("setup", "check")
  /\ g_tx_enable' \in BOOLEAN
  /\ UNCHANGED <<txfifo, g_tx_underrun, tx_reset, tx_clear, wr_ticks, untold>>

(* VRQ_FPGA_SET_TX_RESET: the reset clears the fifo at once. *)
SetTxReset ==
  /\ TxGoto("setup", "check")
  /\ tx_reset' \in BOOLEAN
  /\ txfifo' = IF tx_reset' THEN <<>> ELSE txfifo
  /\ UNCHANGED <<g_tx_enable, g_tx_underrun, tx_clear, wr_ticks, untold>>

(* The flags of both directions are looked at first. *)
CheckTxFlags ==
  /\ \/ tx_underrun /\ TxGoto("check", "record")
     \/ rx_used /\ TxGoto("check", "record")
     \/ ~tx_underrun /\ TxGoto("check", "out")
  /\ UNCHANGED <<txfifo, g_tx_enable, g_tx_underrun, tx_reset, tx_clear, wr_ticks, untold>>

\* mutant: the flag is cleared without being recorded
RecordNoUnderrun ==
  /\ TxGoto("record", "clear")
  /\ UNCHANGED <<txfifo, g_tx_enable, g_tx_underrun, tx_reset, tx_clear, wr_ticks, untold>>

RecordUnderrun ==
  /\ TxGoto("record", "clear")
  /\ g_tx_underrun' = (g_tx_underrun \/ tx_underrun)
  /\ UNCHANGED <<txfifo, g_tx_enable, tx_reset, tx_clear, wr_ticks, untold>>

(* fpga_clear_flags: a pulse. *)
ClearTxFlags ==
  /\ \/ TxGoto("clear", "cleared") /\ tx_clear' = TRUE
     \/ TxGoto("cleared", "out") /\ tx_clear' = FALSE
  /\ UNCHANGED <<txfifo, g_tx_enable, g_tx_underrun, tx_reset, wr_ticks, untold>>

\* mutant: the room in the buffer is not looked at
StartWriteAnyway ==
  /\ g_tx_enable /\ ep2 > 0
  /\ TxGoto("out", "transfer")
  /\ wr_ticks' = 0
  /\ UNCHANGED <<txfifo, g_tx_enable, g_tx_underrun, tx_reset, tx_clear, untold>>

CanWrite == g_tx_enable /\ ep2 > 0 /\ have_space

StartWrite ==
  /\ CanWrite
  /\ TxGoto("out", "transfer")
  /\ wr_ticks' = 0
  /\ UNCHANGED <<txfifo, g_tx_enable, g_tx_underrun, tx_reset, tx_clear, untold>>

NoWrite ==
  /\ ~CanWrite
  /\ TxGoto("out", "setup")
  /\ UNCHANGED <<txfifo, g_tx_enable, g_tx_underrun, tx_reset, tx_clear, wr_ticks, untold>>

(* The bus drops WR after WrTicks ticks; main_loop waits for that. *)
EndWrite ==
  /\ TxTransferDone
  /\ tx_pc' = "setup" /\ wr_ticks' = 0
  /\ ep2' = ep2 - 1 /\ word' = (word + TxPacket) % WordMod
  /\ tx_settle' = [dsp |-> 0, usb |-> 0]
  /\ UNCHANGED <<txfifo, txDspVars, txUsbVars, rx_used, g_tx_enable, g_tx_underrun, tx_reset,
                 tx_clear, untold>>

HostWrites ==
  /\ ep2 < Ep2Max /\ ep2' = ep2 + 1
  /\ UNCHANGED <<txfifo, txDspVars, txUsbVars, rx_used, tx_pc, g_tx_enable, g_tx_underrun,
                 tx_reset, tx_clear, wr_ticks, word, tx_settle, untold>>

-----------------------------------------------------------------------------
TransmitInit ==
  /\ TxBufferInit
  /\ rx_used \in BOOLEAN
  /\ tx_pc = "setup" /\ g_tx_enable = FALSE /\ g_tx_underrun = FALSE
  /\ tx_reset = FALSE /\ tx_clear = FALSE /\ ep2 = 0 /\ wr_ticks = 0 /\ word = 0
  /\ tx_settle = [dsp |-> 0, usb |-> 0] /\ untold = FALSE

TxTicks == TxUsbTick \/ \E strobe \in BOOLEAN : TxDspTick(strobe)
TxFirmware ==
  \/ TxNoSetup \/ GetTxStatus \/ SetTxEnable \/ SetTxReset
  \/ CheckTxFlags \/ RecordUnderrun \/ ClearTxFlags
  \/ StartWrite \/ NoWrite \/ EndWrite

TransmitNext == TxTicks \/ TxFirmware \/ HostWrites

TransmitSpec == TransmitInit /\ [][TransmitNext]_transmitVars
-----------------------------------------------------------------------------
(* Properties *)

(* The words the transmit chain takes are those the host sent, each on its
   channel, with none missing, repeated or added, through underruns and full
   buffers; after a reset they start with the first of a packet. *)
TakenAsSent ==
  [][~tx_reset /\ TxRead /\ tx_phase' # tx_phase =>
       /\ tx_last' # NoTxWord
       /\ tx_last' % TxChannels = tx_phase
       /\ IF tx_last = NoTxWord THEN tx_last' % TxPacket = 0
                                ELSE tx_last' = (tx_last + 1) % WordMod]_transmitVars

(* An underrun the host was not told of is still on its way to it, unless the
   flag of the other direction has led to its being cleared. *)
NoUnderrunLostTxOnly ==
  ~rx_used => (untold => tx_underrun_dsp \/ tx_underrun \/ g_tx_underrun)
=============================================================================
