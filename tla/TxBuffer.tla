------------------------------ MODULE TxBuffer ------------------------------
(***************************************************************************)
(* tx_buffer: the buffer in the FPGA between the USB controller, which     *)
(* writes packets, and the transmit chain, which takes a sample of all     *)
(* channels at each strobe.  A packet is written one tick behind the pin,  *)
(* and the tick too many that the controller needs is not a word.          *)
(*                                                                         *)
(* A word is its number in what the host sends, modulo WordMod.            *)
(***************************************************************************)
EXTENDS Integers, Sequences

CONSTANTS
  TxChannels,  \* fifo words to a sample
  TxPacket,    \* words in a USB packet (256)
  TxDepth,     \* words the fifo holds (4096)
  SpaceLevel,  \* there is room for a packet below this level (4092-256)
  WordMod,     \* words the model tells apart (bound)
  NoTxWord

ASSUME TxBufferAssumption ==
  /\ TxChannels \in Nat \ {0}
  /\ TxPacket \in Nat \ {0} /\ TxPacket % TxChannels = 0
  /\ WordMod \in Nat \ {0, 1} /\ WordMod % TxPacket = 0
  /\ SpaceLevel \in Nat \ {0} /\ TxDepth \in Nat /\ SpaceLevel + TxPacket <= TxDepth + 1
  /\ NoTxWord \notin Nat

VARIABLES
  txfifo,
  tx_phase,
  tx_underrun_dsp,
  clear_tx_dsp,      \* clear_status_dsp
  have_space,
  wr_reg,
  usbdata_reg,
  write_count,
  tx_underrun,
  bus_sync,          \* the two registers that bring the reset to the bus side
  tx_last            \* the word last taken since the reset (history)

txDspVars == <<tx_phase, tx_underrun_dsp, clear_tx_dsp, tx_last>>
txUsbVars == <<have_space, wr_reg, usbdata_reg, write_count, tx_underrun, bus_sync>>

-----------------------------------------------------------------------------
(* The side of the transmit chain: an edge of txclk. *)

tx_empty == txfifo = <<>>
TxRead == tx_phase # TxChannels /\ ~tx_empty

Underrun(strobe) == strobe /\ tx_phase # TxChannels

NextTxPhase(strobe) ==
  CASE tx_phase = TxChannels -> IF strobe THEN 0 ELSE tx_phase
    [] TxRead                -> tx_phase + 1
    [] OTHER                 -> tx_phase

TxDspEdge(strobe, reset, clear_status) ==
  /\ clear_tx_dsp' = clear_status
  /\ IF reset
       THEN /\ tx_phase' = 0 /\ tx_underrun_dsp' = FALSE /\ tx_last' = NoTxWord
            /\ UNCHANGED txfifo
       ELSE /\ tx_phase' = NextTxPhase(strobe)
            /\ tx_underrun_dsp' = (Underrun(strobe) \/ (tx_underrun_dsp /\ ~clear_tx_dsp))
            /\ IF TxRead
                 THEN tx_last' = Head(txfifo) /\ txfifo' = Tail(txfifo)
                 ELSE UNCHANGED <<tx_last, txfifo>>

-----------------------------------------------------------------------------
(* The side of the bus: an edge of usbclk. *)

bus_reset == bus_sync[2]

wrreq == wr_reg /\ write_count < TxPacket

(* The reset holds the fifo empty; a word for which there is no room is lost. *)
TxWrite(reset) ==
  txfifo' = IF wrreq /\ ~reset /\ Len(txfifo) < TxDepth
              THEN Append(txfifo, usbdata_reg) ELSE txfifo

TxUsbEdge(WR, usbdata, reset) ==
  /\ have_space' = (Len(txfifo) < SpaceLevel)
  /\ wr_reg' = WR /\ usbdata_reg' = usbdata
  /\ write_count' = IF wr_reg /\ ~bus_reset THEN (write_count + 1) % (2 * TxPacket) ELSE 0
  /\ TxWrite(reset)
  /\ tx_underrun' = tx_underrun_dsp
  /\ bus_sync' = <<reset, bus_sync[1]>>

TxBufferInit ==
  /\ txfifo = <<>> /\ tx_phase = 0
  /\ tx_underrun_dsp = FALSE /\ clear_tx_dsp = FALSE
  /\ have_space = FALSE /\ wr_reg = FALSE /\ usbdata_reg = NoTxWord
  /\ write_count = 0 /\ tx_underrun = FALSE /\ bus_sync = <<FALSE, FALSE>>
  /\ tx_last = NoTxWord

TxBufferTypeOK ==
  /\ txfifo \in Seq(0 .. WordMod - 1) /\ Len(txfifo) <= TxDepth
  /\ tx_phase \in 0 .. TxChannels
  /\ {tx_underrun_dsp, clear_tx_dsp, have_space, wr_reg, tx_underrun} \subseteq BOOLEAN
  /\ usbdata_reg \in 0 .. WordMod - 1 \cup {NoTxWord}
  /\ write_count \in 0 .. 2 * TxPacket - 1
  /\ bus_sync \in BOOLEAN \X BOOLEAN
  /\ tx_last \in 0 .. WordMod - 1 \cup {NoTxWord}
=============================================================================
