------------------------------ MODULE RxBuffer ------------------------------
(***************************************************************************)
(* rx_buffer: the buffer in the FPGA between the receive chain, which      *)
(* strobes a sample of all channels at once, and the USB controller, which *)
(* reads packets.  A sample is latched in the channel registers, then      *)
(* written to the fifo one channel per tick.                               *)
(*                                                                         *)
(* A sample is the number of its strobe modulo AtMod; the fifo holds the   *)
(* channels of its words.                                                  *)
(***************************************************************************)
EXTENDS Integers, Sequences

CONSTANTS
  Channels,  \* fifo words to a sample
  Packet,    \* words in a USB packet (256)
  Depth,     \* words the fifo holds (4096)
  AtMod      \* samples the model tells apart (bound)

ASSUME RxBufferAssumption ==
  /\ Channels \in Nat \ {0, 1}
  /\ Packet \in Nat \ {0} /\ Packet % Channels = 0
  /\ Depth \in Nat /\ Depth >= Packet
  /\ AtMod \in Nat \ {0, 1}

VARIABLES
  fifo,
  regs,              \* ch_0_reg .. ch_7_reg: the sample they hold
  phase,
  rx_overrun_dsp,
  clear_status_dsp,
  have_pkt_rdy,
  read_count,
  rx_overrun,
  last,              \* the word last written since the reset (history)
  clean              \* no overrun since the reset (history)

dspVars == <<regs, phase, rx_overrun_dsp, clear_status_dsp, last, clean>>
usbVars == <<have_pkt_rdy, read_count, rx_overrun>>

NoWord == [ch |-> 0, at |-> 0]

-----------------------------------------------------------------------------
(* The side of the receive chain: an edge of rxclk. *)

rx_full == Len(fifo) = Depth

(* The phase is frozen while the fifo is full; the registers are not. *)
NextPhase(strobe) ==
  CASE phase = 0                        -> IF strobe THEN 1 ELSE 0
    [] phase # 0 /\ rx_full             -> phase
    [] phase = Channels /\ ~rx_full     -> 0
    [] OTHER                            -> phase + 1

Write ==
  IF phase # 0 /\ ~rx_full
    THEN fifo' = Append(fifo, phase) /\ last' = [ch |-> phase, at |-> regs]
    ELSE UNCHANGED <<fifo, last>>

\* mutant: an overrun is taken to be a strobe while the fifo is full
OverrunWhenFull(strobe) == strobe /\ phase # 0 /\ rx_full

Overrun(strobe) == strobe /\ phase # 0

DspEdge(strobe, reset, clear_status) ==
  /\ regs' = IF strobe THEN (regs + 1) % AtMod ELSE regs
  /\ clear_status_dsp' = clear_status
  /\ IF reset
       THEN /\ phase' = 0 /\ rx_overrun_dsp' = FALSE
            /\ last' = NoWord /\ clean' = TRUE
            /\ UNCHANGED fifo
       ELSE /\ phase' = NextPhase(strobe)
            /\ rx_overrun_dsp' = (Overrun(strobe) \/ (rx_overrun_dsp /\ ~clear_status_dsp))
            /\ clean' = (clean /\ ~Overrun(strobe))
            /\ Write

-----------------------------------------------------------------------------
(* The side of the bus: an edge of usbclk.  The 257th word of a read is not
   taken from the fifo. *)

PacketReady == Len(fifo) >= Packet

rdreq(RD) == RD /\ read_count < Packet

UsbEdge(RD, reset) ==
  /\ have_pkt_rdy' = PacketReady
  /\ rx_overrun' = rx_overrun_dsp
  /\ read_count' = IF RD /\ ~reset THEN (read_count + 1) % (2 * Packet) ELSE 0
  /\ fifo' = IF rdreq(RD) /\ fifo # <<>> THEN Tail(fifo) ELSE fifo

RxBufferInit ==
  /\ fifo = <<>> /\ regs = 0 /\ phase = 0
  /\ rx_overrun_dsp = FALSE /\ clear_status_dsp = FALSE
  /\ have_pkt_rdy = FALSE /\ read_count = 0 /\ rx_overrun = FALSE
  /\ last = NoWord /\ clean = TRUE

RxBufferTypeOK ==
  /\ fifo \in Seq(1 .. Channels) /\ Len(fifo) <= Depth
  /\ regs \in 0 .. AtMod - 1 /\ phase \in 0 .. Channels
  /\ {rx_overrun_dsp, clear_status_dsp, have_pkt_rdy, rx_overrun, clean} \subseteq BOOLEAN
  /\ read_count \in 0 .. 2 * Packet - 1
  /\ last \in [ch : 0 .. Channels, at : 0 .. AtMod - 1]
=============================================================================
