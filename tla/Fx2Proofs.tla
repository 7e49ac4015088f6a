------------------------------ MODULE Fx2Proofs -----------------------------
(***************************************************************************)
(* Proofs about the FX2 firmware and the buffers it empties and fills,     *)
(* Fx2Receive and Fx2Transmit, for any number of channels, sizes of        *)
(* packets, of the fifos and of the endpoints, any samples and any         *)
(* commands.                                                               *)
(***************************************************************************)
EXTENDS Fx2Receive, Fx2Transmit, NumberLemmas, SequenceTheorems

-----------------------------------------------------------------------------
(* Arithmetic: the remainder of the next number, and channels in turn. *)

LEMMA ModRange ==
  ASSUME NEW c \in Nat \ {0}, NEW n \in Nat
  PROVE  n % c \in 0 .. c - 1 /\ n \div c \in Nat
  BY SMT

LEMMA ModStep ==
  ASSUME NEW c \in Nat \ {0}, NEW n \in Nat
  PROVE  (n + 1) % c = IF n % c = c - 1 THEN 0 ELSE (n % c) + 1
<1> DEFINE q == n \div c
           r == n % c
<1>1. n = c * q + r /\ q \in Int /\ q + 1 \in Int /\ r \in 0 .. c - 1
  BY DivMod, n \in Int
<1> HIDE DEF q, r
<1>2. CASE r = c - 1
  <2>1. n + 1 = c * (q + 1) + 0
    BY <1>1, <1>2
  <2>2. (c * (q + 1) + 0) % c = 0
    BY <1>1, ModIs, 0 \in 0 .. c - 1
  <2> QED
    BY <1>2, <2>1, <2>2 DEF r
<1>3. CASE r # c - 1
  <2>1. n + 1 = c * q + (r + 1) /\ r + 1 \in 0 .. c - 1
    BY <1>1, <1>3
  <2>2. (c * q + (r + 1)) % c = r + 1
    BY <1>1, <2>1, ModIs
  <2> QED
    BY <1>3, <2>1, <2>2 DEF r
<1> QED
  BY <1>2, <1>3

SuccCh(c) == IF c = Channels THEN 1 ELSE c + 1
ChanOf(n) == (n % Channels) + 1

LEMMA ChanStep ==
  /\ ChanOf(0) = 1 /\ ChanOf(Packet) = 1
  /\ \A n \in Nat : ChanOf(n) \in 1 .. Channels /\ ChanOf(n + 1) = SuccCh(ChanOf(n))
<1>1. Channels \in Nat \ {0} /\ Packet % Channels = 0 /\ 0 \in 0 .. Channels - 1
  BY RxBufferAssumption
<1>2. 0 % Channels = 0
  BY <1>1, ModOfSmall
<1>3. ASSUME NEW n \in Nat
      PROVE  ChanOf(n) \in 1 .. Channels /\ ChanOf(n + 1) = SuccCh(ChanOf(n))
  <2>1. n % Channels \in 0 .. Channels - 1
    BY <1>1, ModRange
  <2>2. (n + 1) % Channels = IF n % Channels = Channels - 1 THEN 0 ELSE (n % Channels) + 1
    BY <1>1, ModStep
  <2> QED
    BY <1>1, <2>1, <2>2 DEF ChanOf, SuccCh
<1> QED
  BY <1>1, <1>2, <1>3 DEF ChanOf

-----------------------------------------------------------------------------
(* Types, and that there is room in the endpoint for a packet under way. *)

TypeInv == TypeOK /\ (RD => ep6 < Ep6Max)

LEMMA Sizes ==
  /\ Channels \in Nat \ {0, 1} /\ Packet \in Nat \ {0} /\ AtMod \in Nat \ {0, 1}
  /\ Depth \in Nat /\ Depth >= Packet
  /\ Ep6Max \in Nat \ {0} /\ RdTicks \in Packet .. 2 * Packet - 1
BY RxBufferAssumption, Fx2Assumption

LEMMA DspTypes ==
  ASSUME TypeInv, NEW strobe \in BOOLEAN, DspTick(strobe) PROVE TypeInv'
<1> USE DEF TypeOK, RxBufferTypeOK, NoWord
<1>1. TypeOK
  BY DEF TypeInv
<1>2. regs' \in 0 .. AtMod - 1 /\ clear_status_dsp' \in BOOLEAN
  <2>1. regs + 1 \in Nat /\ AtMod \in Nat \ {0}
    BY <1>1, Sizes
  <2>2. (regs + 1) % AtMod \in 0 .. AtMod - 1
    BY <2>1, ModRange
  <2> QED
    BY <1>1, <2>2 DEF DspTick, DspEdge
<1>3. settle' \in [dsp : 0 .. 2, usb : 0 .. 1] /\ unreported' \in BOOLEAN /\ fresh' \in BOOLEAN
  BY <1>1 DEF DspTick, Overrun
<1>4. phase' \in 0 .. Channels
  <2>1. phase' \in {0, 1, phase} \/ (phase # Channels /\ phase' = phase + 1)
    BY DEF DspTick, DspEdge, NextPhase
  <2>2. phase \in 0 .. Channels
    BY <1>1
  <2> QED
    BY <2>1, <2>2, Sizes
<1>5. rx_overrun_dsp' \in BOOLEAN /\ clean' \in BOOLEAN
  BY <1>1 DEF DspTick, DspEdge, Overrun
<1>6. fifo' \in Seq(1 .. Channels) /\ Len(fifo') <= Depth
  <2>1. CASE reset \/ phase = 0 \/ rx_full
    BY <1>1, <2>1 DEF DspTick, DspEdge, Write
  <2>2. CASE ~reset /\ phase # 0 /\ ~rx_full
    <3>1. fifo' = Append(fifo, phase)
      BY <2>2 DEF DspTick, DspEdge, Write
    <3>2. phase \in 1 .. Channels /\ Len(fifo) \in Nat /\ Len(fifo) # Depth
      BY <1>1, <2>2, Sizes DEF rx_full
    <3> QED
      BY <1>1, <3>1, <3>2, Sizes
  <2> QED
    BY <2>1, <2>2
<1>7. last' \in [ch : 0 .. Channels, at : 0 .. AtMod - 1]
  <2>1. last' \in {last, [ch |-> 0, at |-> 0], [ch |-> phase, at |-> regs]}
    BY DEF DspTick, DspEdge, Write
  <2>2. /\ last \in [ch : 0 .. Channels, at : 0 .. AtMod - 1]
        /\ phase \in 0 .. Channels /\ regs \in 0 .. AtMod - 1
    BY <1>1
  <2> QED
    BY <2>1, <2>2, Sizes
<1> QED
  BY <1>1, <1>2, <1>3, <1>4, <1>5, <1>6, <1>7 DEF DspTick, usbVars, fx2Vars, TypeInv, RD

LEMMA UsbTypes ==
  ASSUME TypeInv, UsbTick PROVE TypeInv'
<1> USE DEF TypeOK, RxBufferTypeOK
<1>1. TypeOK
  BY DEF TypeInv
<1>2. read_count' \in 0 .. 2 * Packet - 1
  <2>1. read_count + 1 \in Nat /\ 2 * Packet \in Nat \ {0}
    BY <1>1, Sizes
  <2>2. (read_count + 1) % (2 * Packet) \in 0 .. 2 * Packet - 1
    BY <2>1, ModRange
  <2> QED
    BY <2>1, <2>2, Sizes DEF UsbTick, UsbEdge
<1>3. fifo' \in Seq(1 .. Channels) /\ Len(fifo') <= Depth
  <2>1. CASE fifo' = fifo
    BY <1>1, <2>1
  <2>2. CASE fifo # <<>> /\ fifo' = Tail(fifo)
    <3>1. fifo \in Seq(1 .. Channels) /\ Len(fifo) <= Depth
      BY <1>1
    <3> QED
      BY <2>2, <3>1, Sizes
  <2> QED
    BY <2>1, <2>2 DEF UsbTick, UsbEdge
<1>4. settle' \in [dsp : 0 .. 2, usb : 0 .. 1] /\ have_pkt_rdy' \in BOOLEAN /\ rx_overrun' \in BOOLEAN
  BY <1>1 DEF UsbTick, UsbEdge, PacketReady
<1> QED
  BY <1>1, <1>2, <1>3, <1>4 DEF UsbTick, dspVars, fx2Vars, TypeInv, RD

LEMMA FirmwareTypes ==
  ASSUME TypeInv, Firmware \/ HostReads PROVE TypeInv'
<1> USE Sizes DEF TypeOK, RxBufferTypeOK, TypeInv, RD, dspVars, usbVars
<1>1. CASE NoSetup
  BY <1>1 DEF NoSetup, Goto
<1>2. CASE GetStatus
  <2>1. unreported' \in BOOLEAN /\ g_rx_overrun' \in BOOLEAN /\ fresh' \in BOOLEAN
    BY <1>2 DEF GetStatus, Goto
  <2> QED
    BY <1>2, <2>1 DEF GetStatus, Goto
<1>3. CASE SetRxEnable
  BY <1>3 DEF SetRxEnable, Goto
<1>4. CASE SetRxReset
  <2>1. fifo' \in Seq(1 .. Channels) /\ Len(fifo') <= Depth
    <3>1. CASE reset'
      <4>1. fifo' = <<>>
        BY <1>4, <3>1 DEF SetRxReset
      <4> QED
        BY <4>1
    <3>2. CASE ~reset'
      BY <1>4, <3>2 DEF SetRxReset
    <3> QED
      BY <3>1, <3>2
  <2> QED
    BY <1>4, <2>1 DEF SetRxReset, Goto
<1>5. CASE CheckFlags
  BY <1>5 DEF CheckFlags, Goto
<1>6. CASE Record
  BY <1>6 DEF Record, Goto
<1>7. CASE ClearFlags
  <2>1. clear_status' \in BOOLEAN /\ fresh' \in BOOLEAN /\ pc' \in {"cleared", "in"}
    BY <1>7 DEF ClearFlags, Goto
  <2>2. settle' \in [dsp : 0 .. 2, usb : 0 .. 1]
    BY <1>7 DEF ClearFlags, Goto
  <2> QED
    BY <1>7, <2>1, <2>2 DEF ClearFlags, Goto
<1>8. CASE StartTransfer
  BY <1>8 DEF StartTransfer, Goto
<1>9. CASE NoTransfer
  BY <1>9 DEF NoTransfer, Goto
<1>10. CASE EndTransfer
  BY <1>10 DEF EndTransfer, TransferDone
<1>11. CASE HostReads
  BY <1>11 DEF HostReads
<1> QED
  BY <1>1, <1>2, <1>3, <1>4, <1>5, <1>6, <1>7, <1>8, <1>9, <1>10, <1>11 DEF Firmware

LEMMA TypeInvInductive == TypeInv /\ [Next]_vars => TypeInv'
<1> SUFFICES ASSUME TypeInv, [Next]_vars PROVE TypeInv'
  OBVIOUS
<1>1. CASE UNCHANGED vars
  BY <1>1 DEF vars, dspVars, usbVars, fx2Vars, TypeInv, TypeOK, RxBufferTypeOK, RD
<1> QED
  BY <1>1, DspTypes, UsbTypes, FirmwareTypes DEF Next, Ticks

LEMMA TypeInvAlways == Spec => []TypeInv
<1>1. ASSUME Init PROVE TypeInv
  <2>1. fifo \in Seq(1 .. Channels) /\ Len(fifo) = 0
    BY <1>1 DEF Init, RxBufferInit
  <2>2. last \in [ch : 0 .. Channels, at : 0 .. AtMod - 1]
    BY <1>1, Sizes DEF Init, RxBufferInit, NoWord
  <2>3. settle \in [dsp : 0 .. 2, usb : 0 .. 1]
    BY <1>1 DEF Init
  <2>4. /\ regs \in 0 .. AtMod - 1 /\ phase \in 0 .. Channels
        /\ read_count \in 0 .. 2 * Packet - 1 /\ ep6 \in 0 .. Ep6Max
    BY <1>1, Sizes DEF Init, RxBufferInit
  <2>5. /\ rx_overrun_dsp = FALSE /\ clear_status_dsp = FALSE /\ have_pkt_rdy = FALSE
        /\ rx_overrun = FALSE /\ clean = TRUE
        /\ tx_used \in BOOLEAN /\ g_rx_enable = FALSE /\ g_rx_overrun = FALSE
        /\ reset = FALSE /\ clear_status = FALSE /\ unreported = FALSE /\ fresh = FALSE
        /\ pc = "setup"
    BY <1>1 DEF Init, RxBufferInit
  <2> QED
    <3>1. RxBufferTypeOK
      <4>1. {rx_overrun_dsp, clear_status_dsp, have_pkt_rdy, rx_overrun, clean} \subseteq BOOLEAN
        BY <2>5
      <4>2. Len(fifo) <= Depth
        BY <2>1, Sizes
      <4> QED
        BY <2>1, <2>2, <2>4, <4>1, <4>2 DEF RxBufferTypeOK
    <3>2. TypeOK
      BY <2>3, <2>4, <2>5, <3>1 DEF TypeOK
    <3> QED
      BY <2>5, <3>2 DEF TypeInv, RD
<1> QED
  BY <1>1, TypeInvInductive, PTL DEF Spec

-----------------------------------------------------------------------------
(* The words written last, the phase and the channel registers: a sample is *)
(* written from the first channel to the last before the next one is begun. *)

WriteInv ==
  /\ phase \in {0, 1} => last = NoWord \/ last.ch = Channels
  /\ phase \notin {0, 1} => last.ch = phase - 1
  /\ clean /\ last # NoWord =>
       IF phase = 1 THEN regs = (last.at + 1) % AtMod ELSE last.at = regs

\* One step of ContinuousUnlessFlagged.
Continues ==
  last' # last /\ last' # NoWord =>
    \/ last = NoWord /\ last'.ch = 1
    \/ /\ last.ch < Channels /\ last'.ch = last.ch + 1
       /\ clean => last'.at = last.at
    \/ /\ last.ch = Channels /\ last'.ch = 1
       /\ clean => last'.at = (last.at + 1) % AtMod

LEMMA WriteInvStep ==
  ASSUME TypeInv, WriteInv, NEW strobe \in BOOLEAN, DspTick(strobe)
  PROVE  WriteInv' /\ Continues
<1>1. /\ phase \in 0 .. Channels /\ Channels \in Nat \ {0, 1} /\ regs \in Nat
      /\ last \in [ch : 0 .. Channels, at : 0 .. AtMod - 1] /\ clean \in BOOLEAN
  BY Sizes DEF TypeInv, TypeOK, RxBufferTypeOK
<1>2. DspEdge(strobe, reset, clear_status)
  BY DEF DspTick
<1>3. CASE reset
  BY <1>1, <1>2, <1>3 DEF DspEdge, WriteInv, Continues
<1>4. CASE ~reset /\ phase = 0
  <2>1. /\ last' = last /\ phase' = IF strobe THEN 1 ELSE 0
        /\ regs' = IF strobe THEN (regs + 1) % AtMod ELSE regs
        /\ clean' = clean
    BY <1>1, <1>2, <1>4 DEF DspEdge, NextPhase, Write, Overrun
  <2> QED
    BY <1>1, <1>4, <2>1 DEF WriteInv, Continues
<1>5. CASE ~reset /\ phase # 0 /\ rx_full
  <2>1. /\ last' = last /\ phase' = phase /\ (clean' => clean /\ regs' = regs)
    BY <1>2, <1>5 DEF DspEdge, NextPhase, Write, Overrun
  <2> QED
    BY <1>1, <1>5, <2>1 DEF WriteInv, Continues
<1>6. CASE ~reset /\ phase # 0 /\ ~rx_full
  <2>1. /\ last' = [ch |-> phase, at |-> regs]
        /\ phase' = IF phase = Channels THEN 0 ELSE phase + 1
        /\ clean' => clean /\ regs' = regs
    BY <1>2, <1>6 DEF DspEdge, NextPhase, Write, Overrun
  <2>2. WriteInv'
    BY <1>1, <1>6, <2>1 DEF WriteInv, NoWord
  <2>3. Continues
    BY <1>1, <1>6, <2>1 DEF WriteInv, NoWord, Continues
  <2> QED
    BY <2>2, <2>3
<1> QED
  BY <1>3, <1>4, <1>5, <1>6

LEMMA FirmwareLeavesDsp ==
  ASSUME Firmware \/ HostReads PROVE UNCHANGED <<dspVars, usbVars, tx_used>>
BY DEF Firmware, NoSetup, GetStatus, SetRxEnable, SetRxReset, CheckFlags, Record, ClearFlags,
       StartTransfer, NoTransfer, EndTransfer, HostReads, Goto

LEMMA WriteInvInductive ==
  TypeInv /\ WriteInv /\ [Next]_vars => WriteInv' /\ Continues
<1> SUFFICES ASSUME TypeInv, WriteInv, [Next]_vars PROVE WriteInv' /\ Continues
  OBVIOUS
<1>1. ASSUME UNCHANGED dspVars PROVE WriteInv' /\ Continues
  BY <1>1 DEF dspVars, WriteInv, Continues
<1>2. CASE UsbTick
  BY <1>1, <1>2 DEF UsbTick
<1>3. CASE Firmware \/ HostReads
  BY <1>1, <1>3, FirmwareLeavesDsp
<1>4. CASE UNCHANGED vars
  BY <1>1, <1>4 DEF vars
<1> QED
  BY <1>2, <1>3, <1>4, WriteInvStep DEF Next, Ticks

(* Whatever the samples, the firmware and the host do, the words written to
   the fifo take turns by channel, and as long as no overrun is flagged they
   are those of whole samples, none left out. *)
THEOREM ContinuousHolds == Spec => ContinuousUnlessFlagged
<1>1. Init => WriteInv
  BY DEF Init, RxBufferInit, WriteInv
<1>2. TypeInv /\ WriteInv /\ [Next]_vars => [Continues]_vars
  BY WriteInvInductive
<1> QED
  BY <1>1, <1>2, TypeInvAlways, WriteInvInductive, PTL
  DEF Spec, ContinuousUnlessFlagged, Continues

-----------------------------------------------------------------------------
(* Packets.  Resets come between packets, and empty the fifo for as long as *)
(* they last; a packet is begun when the fifo holds one, and the words left *)
(* of it are still there until it has been read.                            *)

\* Words read of the packet under way.
Taken == IF RD THEN IF read_count < Packet THEN read_count ELSE Packet ELSE 0
\* The channel of the word written next.
NextCh == IF phase = 0 THEN 1 ELSE phase

ResetInv ==
  reset => /\ fifo = <<>> /\ ~RD
           /\ settle.dsp >= 1 => phase = 0
           /\ have_pkt_rdy => settle.usb = 0
ReadInv ==
  /\ RD => read_count <= RdTicks /\ (read_count < Packet => Len(fifo) + read_count >= Packet)
  /\ ~RD /\ settle.usb = 1 =>
       read_count = 0 /\ (have_pkt_rdy => Len(fifo) >= Packet)
TurnInv ==
  ~reset =>
    /\ fifo = <<>> => NextCh = 1
    /\ fifo # <<>> => fifo[1] = ChanOf(Taken) /\ SuccCh(fifo[Len(fifo)]) = NextCh
    /\ \A k \in 1 .. Len(fifo) - 1 : fifo[k + 1] = SuccCh(fifo[k])

PacketInv == ResetInv /\ ReadInv /\ TurnInv

\* One step of PacketWords.
ReadsWord == UsbTick /\ rdreq(RD) => fifo # <<>> /\ Head(fifo) = (read_count % Channels) + 1

LEMMA FifoType ==
  ASSUME TypeInv
  PROVE  /\ fifo \in Seq(1 .. Channels) /\ Len(fifo) \in Nat
         /\ phase \in 0 .. Channels /\ read_count \in 0 .. 2 * Packet - 1
         /\ settle \in [dsp : 0 .. 2, usb : 0 .. 1]
BY DEF TypeInv, TypeOK, RxBufferTypeOK

LEMMA DspKeepsPackets ==
  ASSUME TypeInv, PacketInv, NEW strobe \in BOOLEAN, DspTick(strobe) PROVE PacketInv'
<1>1. /\ UNCHANGED <<reset, pc, read_count, have_pkt_rdy>>
      /\ settle'.usb = settle.usb /\ settle'.dsp >= 1
  BY FifoType DEF DspTick, usbVars, fx2Vars
<1>2. DspEdge(strobe, reset, clear_status)
  BY DEF DspTick
<1>3. CASE reset
  <2>1. fifo' = fifo /\ phase' = 0
    BY <1>2, <1>3 DEF DspEdge
  <2> QED
    BY <1>1, <1>3, <2>1 DEF PacketInv, ResetInv, ReadInv, TurnInv, RD
<1>4. CASE ~reset /\ (phase = 0 \/ rx_full)
  <2>1. fifo' = fifo /\ NextCh' = NextCh
    BY <1>2, <1>4, Sizes DEF DspEdge, Write, NextPhase, NextCh
  <2> QED
    BY <1>1, <1>4, <2>1 DEF PacketInv, ResetInv, ReadInv, TurnInv, RD, Taken
<1>5. CASE ~reset /\ phase # 0 /\ ~rx_full
  <2>1. fifo' = Append(fifo, phase) /\ NextCh' = SuccCh(phase) /\ NextCh = phase
    BY <1>2, <1>5, FifoType, Sizes DEF DspEdge, Write, NextPhase, NextCh, SuccCh
  <2>2. /\ Len(fifo') = Len(fifo) + 1 /\ fifo'[Len(fifo) + 1] = phase /\ fifo' # <<>>
        /\ \A k \in 1 .. Len(fifo) : fifo'[k] = fifo[k]
    BY <2>1, FifoType
  <2>3. ReadInv'
    BY <1>1, <2>2, FifoType, Sizes DEF PacketInv, ReadInv, RD
  <2>4. Taken' = Taken
    BY <1>1 DEF Taken, RD
  <2>5. fifo'[1] = ChanOf(Taken)
    <3>1. CASE fifo = <<>>
      <4>1. Taken \in {0, Packet}
        BY <3>1, FifoType, Sizes DEF PacketInv, ReadInv, Taken
      <4> QED
        <5>1. Len(fifo) = 0 /\ phase = 1
          BY <1>5, <2>1, <3>1 DEF PacketInv, TurnInv
        <5> QED
          BY <2>2, <4>1, <5>1, ChanStep, Len(fifo) + 1 = 1
    <3>2. CASE fifo # <<>>
      BY <1>5, <2>2, <3>2, FifoType DEF PacketInv, TurnInv
    <3> QED
      BY <3>1, <3>2
  <2>6. \A k \in 1 .. Len(fifo') - 1 : fifo'[k + 1] = SuccCh(fifo'[k])
    <3> SUFFICES ASSUME NEW k \in 1 .. Len(fifo') - 1 PROVE fifo'[k + 1] = SuccCh(fifo'[k])
      OBVIOUS
    <3>1. CASE k < Len(fifo)
      BY <1>5, <2>2, <3>1, FifoType DEF PacketInv, TurnInv
    <3>2. CASE k = Len(fifo)
      BY <1>5, <2>1, <2>2, <3>2, FifoType DEF PacketInv, TurnInv
    <3> QED
      BY <2>2, <3>1, <3>2, FifoType
  <2>7. TurnInv'
    BY <1>1, <2>1, <2>2, <2>4, <2>5, <2>6, FifoType DEF TurnInv
  <2> QED
    BY <1>1, <1>5, <2>3, <2>7 DEF PacketInv, ResetInv
<1> QED
  BY <1>3, <1>4, <1>5

LEMMA UsbKeepsPackets ==
  ASSUME TypeInv, PacketInv, UsbTick PROVE PacketInv' /\ ReadsWord
<1>1. /\ UNCHANGED <<reset, pc, phase>>
      /\ settle'.usb = 1 /\ settle'.dsp = settle.dsp
  BY FifoType DEF UsbTick, dspVars, fx2Vars
<1>2. UsbEdge(RD, reset) /\ ~TransferDone
  BY DEF UsbTick
<1>3. CASE ~RD
  <2>1. /\ fifo' = fifo /\ read_count' = 0 /\ ~RD' /\ ~rdreq(RD)
        /\ have_pkt_rdy' = (Len(fifo) >= Packet)
    BY <1>1, <1>2, <1>3 DEF UsbEdge, rdreq, PacketReady, RD
  <2>2. ResetInv'
    <3>1. fifo = <<>> => ~(Len(fifo) >= Packet)
      BY Sizes
    <3> QED
      BY <1>1, <2>1, <3>1 DEF PacketInv, ResetInv, RD
  <2>3. ReadInv' /\ TurnInv'
    BY <1>1, <1>3, <2>1 DEF PacketInv, ReadInv, TurnInv, Taken, NextCh
  <2> QED
    BY <2>1, <2>2, <2>3 DEF PacketInv, ReadsWord
<1>4. CASE RD /\ read_count >= Packet
  <2>1. /\ ~reset /\ fifo' = fifo /\ RD' /\ ~rdreq(RD)
    BY <1>1, <1>2, <1>4, FifoType, Sizes DEF UsbEdge, rdreq, RD, PacketInv, ResetInv
  <2>2. read_count' = read_count + 1 /\ read_count' <= RdTicks
    <3>1. /\ read_count < RdTicks /\ read_count + 1 \in 0 .. (2 * Packet) - 1
          /\ 2 * Packet \in Nat \ {0}
      BY <1>2, <1>4, FifoType, Sizes DEF TransferDone, PacketInv, ReadInv
    <3>2. (read_count + 1) % (2 * Packet) = read_count + 1
      BY <3>1, ModOfSmall
    <3> QED
      BY <1>2, <1>4, <2>1, <3>1, <3>2, FifoType, Sizes DEF UsbEdge
  <2>3. ResetInv' /\ ReadInv'
    BY <1>1, <1>4, <2>1, <2>2, FifoType, Sizes DEF ResetInv, ReadInv
  <2>4. Taken' = Taken /\ NextCh' = NextCh
    BY <1>1, <1>4, <2>1, <2>2, FifoType, Sizes DEF Taken, NextCh
  <2> QED
    BY <1>1, <2>1, <2>3, <2>4 DEF PacketInv, TurnInv, ReadsWord
<1>5. CASE RD /\ read_count < Packet
  <2>1. ~reset /\ RD' /\ fifo # <<>> /\ Len(fifo) + read_count >= Packet
    BY <1>1, <1>5, FifoType, Sizes DEF RD, PacketInv, ResetInv, ReadInv
  <2>2. fifo[1] = ChanOf(read_count) /\ fifo' = Tail(fifo)
    BY <1>2, <1>5, <2>1 DEF UsbEdge, rdreq, PacketInv, TurnInv, Taken
  <2>3. read_count' = read_count + 1 /\ read_count' <= RdTicks
    <3>1. read_count + 1 \in 0 .. (2 * Packet) - 1 /\ 2 * Packet \in Nat \ {0}
      BY <1>5, FifoType, Sizes
    <3>2. (read_count + 1) % (2 * Packet) = read_count + 1
      BY <3>1, ModOfSmall
    <3> QED
      BY <1>2, <1>5, <2>1, <3>1, <3>2, FifoType, Sizes DEF UsbEdge
  <2>4. /\ Len(fifo') = Len(fifo) - 1
        /\ \A k \in 1 .. Len(fifo) - 1 : fifo'[k] = fifo[k + 1]
    BY <2>1, <2>2, FifoType
  <2>5. ReadsWord
    BY <2>1, <2>2, FifoType DEF ReadsWord, ChanOf
  <2>6. ResetInv' /\ ReadInv'
    BY <1>1, <2>1, <2>3, <2>4, FifoType, Sizes DEF ResetInv, ReadInv
  <2>7. /\ Taken = read_count /\ Taken' = read_count + 1
        /\ NextCh' = NextCh /\ ChanOf(Taken') = SuccCh(fifo[1])
    <3>1. Taken = read_count /\ Taken' = read_count + 1
      BY <1>5, <2>1, <2>3, FifoType, Sizes DEF Taken
    <3>2. NextCh' = NextCh
      BY <1>1 DEF NextCh
    <3>3. ChanOf(read_count + 1) = SuccCh(ChanOf(read_count))
      BY FifoType, ChanStep
    <3>4. ChanOf(Taken') = SuccCh(fifo[1])
      BY <2>2, <3>1, <3>3
    <3> QED
      BY <3>1, <3>2, <3>4
  <2>8. TurnInv'
    <3>1. CASE fifo' = <<>>
      <4>1. Len(fifo) = 1 /\ Taken' = Packet
        <5>1. Len(fifo') = 0
          BY <3>1
        <5> QED
          <6>1. Len(fifo) = 1
            BY <2>4, <5>1, FifoType
          <6>2. read_count + 1 = Packet
            BY <1>5, <2>1, <6>1, FifoType, Sizes
          <6> QED
            BY <2>7, <6>1, <6>2
      <4>2. NextCh = 1
        BY <2>1, <2>7, <4>1, ChanStep DEF PacketInv, TurnInv
      <4> QED
        BY <2>7, <3>1, <4>2 DEF TurnInv
    <3>2. CASE fifo' # <<>>
      <4>1. Len(fifo) > 1 /\ fifo'[1] = fifo[2] /\ fifo'[Len(fifo')] = fifo[Len(fifo)]
        BY <2>1, <2>2, <2>4, <3>2, FifoType
      <4>2. fifo'[1] = ChanOf(Taken')
        BY <2>1, <2>7, <4>1, FifoType DEF PacketInv, TurnInv
      <4>3. \A k \in 1 .. Len(fifo') - 1 : fifo'[k + 1] = SuccCh(fifo'[k])
        BY <2>1, <2>4, FifoType DEF PacketInv, TurnInv
      <4> QED
        BY <2>1, <2>7, <3>2, <4>1, <4>2, <4>3 DEF PacketInv, TurnInv
    <3> QED
      BY <3>1, <3>2
  <2> QED
    BY <2>5, <2>6, <2>8 DEF PacketInv
<1> QED
  BY <1>3, <1>4, <1>5, FifoType, Sizes

LEMMA FirmwareKeepsPackets ==
  ASSUME TypeInv, PacketInv, Firmware \/ HostReads PROVE PacketInv'
<1>1. UNCHANGED <<phase, read_count, have_pkt_rdy>>
  BY FirmwareLeavesDsp DEF dspVars, usbVars
<1>2. ASSUME UNCHANGED <<fifo, reset, RD>>, settle' = [dsp |-> 0, usb |-> 0] \/ settle' = settle
      PROVE  PacketInv'
  <2>1. NextCh' = NextCh /\ Taken' = Taken
    BY <1>1, <1>2 DEF NextCh, Taken
  <2> QED
    BY <1>1, <1>2, <2>1, FifoType DEF PacketInv, ResetInv, ReadInv, TurnInv
<1>3. CASE NoSetup \/ GetStatus \/ SetRxEnable \/ CheckFlags \/ Record \/ ClearFlags \/ NoTransfer
  BY <1>2, <1>3
  DEF NoSetup, GetStatus, SetRxEnable, CheckFlags, Record, ClearFlags, NoTransfer, Goto, RD
<1>4. CASE HostReads
  BY <1>2, <1>4 DEF HostReads, RD
<1>5. CASE SetRxReset
  <2>1. /\ pc = "setup" /\ pc' = "check" /\ Settled /\ settle' = [dsp |-> 0, usb |-> 0]
        /\ reset' \in BOOLEAN /\ fifo' = IF reset' THEN <<>> ELSE fifo
    BY <1>5 DEF SetRxReset, Goto
  <2>2. ResetInv' /\ ReadInv'
    BY <1>1, <2>1 DEF ResetInv, ReadInv, RD
  <2>3. NextCh' = NextCh /\ Taken' = 0 /\ Taken = 0
    BY <1>1, <2>1 DEF NextCh, Taken, RD
  <2>4. CASE reset /\ ~reset'
    <3>1. fifo' = <<>> /\ phase = 0
      BY <2>1, <2>4 DEF Settled, PacketInv, ResetInv
    <3> QED
      BY <1>1, <2>2, <3>1 DEF PacketInv, TurnInv, NextCh
  <2>5. CASE ~reset \/ reset'
    BY <2>1, <2>2, <2>3, <2>5 DEF PacketInv, TurnInv
  <2> QED
    BY <2>4, <2>5
<1>6. CASE StartTransfer
  <2>1. /\ ~RD /\ RD' /\ Settled /\ have_pkt_rdy
        /\ settle' = [dsp |-> 0, usb |-> 0] /\ UNCHANGED <<fifo, reset>>
    BY <1>6 DEF StartTransfer, Goto, RD
  <2>2. ~reset /\ read_count = 0 /\ Len(fifo) >= Packet
    BY <2>1 DEF Settled, PacketInv, ResetInv, ReadInv
  <2>3. NextCh' = NextCh /\ Taken' = 0 /\ Taken = 0
    BY <1>1, <2>1, <2>2, Sizes DEF NextCh, Taken
  <2>4. ResetInv' /\ ReadInv'
    BY <1>1, <2>1, <2>2, FifoType, Sizes DEF ResetInv, ReadInv
  <2> QED
    BY <2>1, <2>3, <2>4 DEF PacketInv, TurnInv
<1>7. CASE EndTransfer
  <2>1. /\ RD /\ ~RD' /\ read_count = RdTicks
        /\ settle' = [dsp |-> 0, usb |-> 0] /\ UNCHANGED <<fifo, reset>>
    BY <1>7 DEF EndTransfer, TransferDone, RD
  <2>2. NextCh' = NextCh /\ Taken' = 0 /\ Taken = Packet
    BY <1>1, <2>1, Sizes DEF NextCh, Taken
  <2>3. ResetInv' /\ ReadInv'
    BY <1>1, <2>1 DEF PacketInv, ResetInv, ReadInv
  <2> QED
    BY <2>1, <2>2, <2>3, ChanStep DEF PacketInv, TurnInv
<1> QED
  BY <1>3, <1>4, <1>5, <1>6, <1>7 DEF Firmware

LEMMA PacketInvInductive ==
  TypeInv /\ PacketInv /\ [Next]_vars => PacketInv' /\ [ReadsWord]_vars
<1> SUFFICES ASSUME TypeInv, PacketInv, [Next]_vars PROVE PacketInv' /\ [ReadsWord]_vars
  OBVIOUS
<1>1. CASE UNCHANGED vars
  <2>1. PacketInv'
    BY <1>1 DEF vars, dspVars, usbVars, fx2Vars, PacketInv, ResetInv, ReadInv, TurnInv, Taken,
                NextCh, RD
  <2> QED
    BY <1>1, <2>1
<1>2. CASE UsbTick
  BY <1>2, UsbKeepsPackets
<1>3. ASSUME NEW strobe \in BOOLEAN, DspTick(strobe) PROVE PacketInv' /\ [ReadsWord]_vars
  <2>1. PacketInv'
    BY <1>3, DspKeepsPackets
  <2> QED
    BY <1>2, <2>1 DEF ReadsWord
<1>4. CASE Firmware \/ HostReads
  <2>1. PacketInv'
    BY <1>4, FirmwareKeepsPackets
  <2> QED
    BY <1>2, <2>1 DEF ReadsWord
<1> QED
  BY <1>1, <1>2, <1>3, <1>4 DEF Next, Ticks

(* Every word of a packet is there when it is read, and a packet begins with
   the first channel and goes through the channels in turn, whatever the host
   commands and however long it does not read. *)
THEOREM PacketWordsHolds == Spec => PacketWords
<1>1. Init => PacketInv
  BY DEF Init, RxBufferInit, PacketInv, ResetInv, ReadInv, TurnInv, RD, NextCh
<1> QED
  BY <1>1, TypeInvAlways, PacketInvInductive, PTL DEF Spec, PacketWords, ReadsWord

-----------------------------------------------------------------------------
(* Overruns.  The flag in the FPGA is cleared only on the way from "record" *)
(* to the next round, or by a reset, which makes the loss known; and the    *)
(* pin the firmware reads is not older than the round.                      *)

\* The pin is that of this round.
PinRead == (pc \in {"setup", "check"} /\ settle.usb = 1) \/ pc = "record"

OverrunInv ==
  /\ clear_status => pc = "cleared"
  /\ clear_status_dsp => pc = "cleared" \/ (pc = "in" /\ settle.dsp = 0)
  /\ reset /\ unreported => pc = "check" /\ settle.dsp = 0
  /\ PinRead /\ rx_overrun /\ ~reset => rx_overrun_dsp
  /\ ~tx_used /\ ~reset /\ pc = "record" => rx_overrun
  /\ ~tx_used /\ ~reset =>
       /\ pc \in {"clear", "cleared"} => g_rx_overrun
       /\ pc = "in" /\ clear_status_dsp => g_rx_overrun
  /\ ~tx_used /\ unreported => rx_overrun_dsp \/ g_rx_overrun

\* The flag, and the pin where it is read, are of an overrun not yet recorded.
FreshInv ==
  /\ pc = "cleared" => clear_status
  /\ pc = "cleared" /\ settle.dsp >= 1 => clear_status_dsp
  /\ rx_overrun_dsp /\ ~fresh => pc = "clear" \/ (pc = "cleared" /\ settle.dsp < 2)
  /\ PinRead /\ rx_overrun => fresh

RaiseInv == OverrunInv /\ FreshInv

LEMMA FlagTypes ==
  ASSUME TypeInv
  PROVE  /\ rx_overrun_dsp \in BOOLEAN /\ clear_status_dsp \in BOOLEAN /\ rx_overrun \in BOOLEAN
         /\ clear_status \in BOOLEAN /\ unreported \in BOOLEAN /\ fresh \in BOOLEAN
         /\ reset \in BOOLEAN /\ tx_used \in BOOLEAN /\ g_rx_overrun \in BOOLEAN
         /\ settle \in [dsp : 0 .. 2, usb : 0 .. 1]
         /\ pc \in {"setup", "check", "record", "clear", "cleared", "in", "transfer"}
BY DEF TypeInv, TypeOK, RxBufferTypeOK

LEMMA DspKeepsRaise ==
  ASSUME TypeInv, RaiseInv, NEW strobe \in BOOLEAN, DspTick(strobe) PROVE RaiseInv'
<1>1. /\ UNCHANGED <<tx_used, pc, g_rx_overrun, reset, clear_status, rx_overrun>>
      /\ settle'.usb = settle.usb /\ settle'.dsp >= 1
      /\ settle'.dsp = IF settle.dsp < 2 THEN settle.dsp + 1 ELSE 2
  BY FlagTypes DEF DspTick, usbVars, fx2Vars
<1>2. /\ clear_status_dsp' = clear_status
      /\ unreported' = (~reset /\ (unreported \/ Overrun(strobe)))
      /\ fresh' = (fresh \/ (~reset /\ Overrun(strobe)))
      /\ rx_overrun_dsp' = (~reset /\ (Overrun(strobe) \/ (rx_overrun_dsp /\ ~clear_status_dsp)))
  BY DEF DspTick, DspEdge
<1>3. Overrun(strobe) \in BOOLEAN /\ PinRead' = PinRead
  BY <1>1 DEF Overrun, PinRead
<1> HIDE DEF Overrun
<1>4. OverrunInv'
  BY <1>1, <1>2, <1>3, FlagTypes DEF RaiseInv, OverrunInv, PinRead
<1>5. FreshInv'
  BY <1>1, <1>2, <1>3, FlagTypes DEF RaiseInv, OverrunInv, FreshInv
<1> QED
  BY <1>4, <1>5 DEF RaiseInv

LEMMA UsbKeepsRaise ==
  ASSUME TypeInv, RaiseInv, UsbTick PROVE RaiseInv'
<1>1. /\ UNCHANGED <<tx_used, pc, g_rx_overrun, reset, clear_status, clear_status_dsp,
                     rx_overrun_dsp, unreported, fresh>>
      /\ settle'.usb = 1 /\ settle'.dsp = settle.dsp /\ rx_overrun' = rx_overrun_dsp
  BY FlagTypes DEF UsbTick, UsbEdge, dspVars, fx2Vars
<1>2. OverrunInv'
  BY <1>1, FlagTypes DEF RaiseInv, OverrunInv, PinRead
<1>3. FreshInv'
  BY <1>1, FlagTypes DEF RaiseInv, FreshInv, PinRead
<1> QED
  BY <1>2, <1>3 DEF RaiseInv

LEMMA FirmwareKeepsRaise ==
  ASSUME TypeInv, RaiseInv, Firmware \/ HostReads PROVE RaiseInv'
<1>1. UNCHANGED <<tx_used, clear_status_dsp, rx_overrun_dsp, rx_overrun>>
  BY FirmwareLeavesDsp DEF dspVars, usbVars
<1> USE <1>1, FlagTypes DEF RaiseInv, OverrunInv, FreshInv, PinRead, Settled
<1>2. CASE NoSetup \/ SetRxEnable
  BY <1>2 DEF NoSetup, SetRxEnable, Goto
<1>3. CASE GetStatus
  BY <1>3 DEF GetStatus, Goto
<1>4. CASE SetRxReset
  BY <1>4 DEF SetRxReset, Goto
<1>5. CASE CheckFlags
  BY <1>5 DEF CheckFlags, Goto
<1>6. CASE Record
  BY <1>6 DEF Record, Goto
<1>7. CASE ClearFlags
  BY <1>7 DEF ClearFlags, Goto
<1>8. CASE StartTransfer
  BY <1>8 DEF StartTransfer, Goto
<1>9. CASE NoTransfer
  BY <1>9 DEF NoTransfer, Goto
<1>10. CASE EndTransfer
  BY <1>10 DEF EndTransfer, TransferDone, RD
<1>11. CASE HostReads
  BY <1>11 DEF HostReads
<1> QED
  BY <1>2, <1>3, <1>4, <1>5, <1>6, <1>7, <1>8, <1>9, <1>10, <1>11 DEF Firmware

LEMMA RaiseInvInductive == TypeInv /\ RaiseInv /\ [Next]_vars => RaiseInv'
<1> SUFFICES ASSUME TypeInv, RaiseInv, [Next]_vars PROVE RaiseInv'
  OBVIOUS
<1>1. CASE UNCHANGED vars
  BY <1>1 DEF vars, dspVars, usbVars, fx2Vars, RaiseInv, OverrunInv, FreshInv, PinRead
<1> QED
  BY <1>1, DspKeepsRaise, UsbKeepsRaise, FirmwareKeepsRaise DEF Next, Ticks

LEMMA RaiseInvAlways == Spec => [](TypeInv /\ RaiseInv)
<1>1. Init => RaiseInv
  BY DEF Init, RxBufferInit, RaiseInv, OverrunInv, FreshInv, PinRead
<1> QED
  BY <1>1, TypeInvAlways, RaiseInvInductive, PTL DEF Spec

(* With an idle transmit side, every overrun is told to a host that asks, or
   is still on its way: clearing the flags never loses one. *)
THEOREM NoOverrunLostHolds == Spec => []NoOverrunLostRxOnly
<1>1. RaiseInv => NoOverrunLostRxOnly
  BY DEF RaiseInv, OverrunInv, NoOverrunLostRxOnly, NoOverrunLost
<1> QED
  BY <1>1, RaiseInvAlways, PTL

(* What the firmware records as an overrun is one that has happened since it
   last recorded one, also while the transmit side clears the flags. *)
THEOREM NoFalseOverrunHolds == Spec => NoFalseOverrun
<1>1. RaiseInv => [pc = "record" /\ pc' # pc /\ rx_overrun => fresh]_vars
  BY DEF RaiseInv, FreshInv, PinRead
<1> QED
  BY <1>1, RaiseInvAlways, PTL DEF NoFalseOverrun

-----------------------------------------------------------------------------
(* Transmission *)

(* Arithmetic of multiples. *)

LEMMA MultipleStep ==
  ASSUME NEW c \in Nat \ {0}, NEW n \in Nat, NEW m \in Nat, n % c = 0, m % c = 0, n < m
  PROVE  n + c <= m /\ (n + c) % c = 0
<1> DEFINE q == n \div c
           p == m \div c
           r == (n + c) \div c
           s == (n + c) % c
<1>1. q \in Nat /\ p \in Nat /\ n = c * q /\ m = c * p
  BY DivMod, ModRange
<1>2. n + c \in Nat /\ r \in Nat /\ s \in 0 .. c - 1 /\ n + c = c * r + s
  BY DivMod, ModRange, n + c \in Nat
<1> HIDE DEF q, p, r, s
<1>3. q + 1 <= p
  BY <1>1
<1>4. c * (q + 1) <= c * p
  BY <1>1, <1>3
<1>5. c * (q + 1) + 0 = c * r + s
  BY <1>1, <1>2
<1>6. s = 0
  BY <1>1, <1>2, <1>5, OneRemainder, 0 \in 0 .. c - 1, q + 1 \in Nat
<1> QED
  BY <1>1, <1>4, <1>6 DEF s

LEMMA MultipleOfMultiple ==
  ASSUME NEW c \in Nat \ {0}, NEW d \in Nat \ {0}, NEW n \in Nat, n % d = 0, d % c = 0
  PROVE  n % c = 0
<1> DEFINE q == n \div d
           p == d \div c
<1>1. q \in Nat /\ p \in Nat /\ n = d * q /\ d = c * p
  BY DivMod, ModRange
<1> HIDE DEF q, p
<1>2. p * q \in Int /\ n = c * (p * q) + 0
  BY <1>1
<1>3. (c * (p * q) + 0) % c = 0
  BY <1>2, ModIs, 0 \in 0 .. c - 1
<1> QED
  BY <1>2, <1>3

-----------------------------------------------------------------------------
(* Types. *)

TxPlaces == {"setup", "check", "record", "clear", "cleared", "out", "transfer"}

TxTypeOK ==
  /\ TxBufferTypeOK
  /\ tx_pc \in TxPlaces
  /\ {rx_used, g_tx_enable, g_tx_underrun, tx_reset, tx_clear, untold} \subseteq BOOLEAN
  /\ wr_ticks \in 0 .. WrTicks /\ word \in 0 .. WordMod - 1
  /\ tx_settle \in [dsp : 0 .. 2, usb : 0 .. 1]

LEMMA TxSizes ==
  /\ TxChannels \in Nat \ {0} /\ TxPacket \in Nat \ {0} /\ TxPacket % TxChannels = 0
  /\ WordMod \in Nat \ {0, 1} /\ WordMod % TxPacket = 0
  /\ SpaceLevel \in Nat \ {0} /\ TxDepth \in Nat /\ SpaceLevel + TxPacket <= TxDepth + 1
  /\ NoTxWord \notin Nat
  /\ WrTicks \in TxPacket + 1 .. 2 * TxPacket - 1
BY TxBufferAssumption, Fx2TransmitAssumption

LEMMA TxDspTypes ==
  ASSUME TxTypeOK, NEW strobe \in BOOLEAN, TxDspTick(strobe) PROVE TxTypeOK'
<1> USE DEF TxTypeOK, TxBufferTypeOK
<1>1. tx_settle' \in [dsp : 0 .. 2, usb : 0 .. 1] /\ untold' \in BOOLEAN
  BY DEF TxDspTick, Underrun
<1>2. tx_phase' \in 0 .. TxChannels
  <2>1. tx_phase' \in {0, tx_phase} \/ (tx_phase # TxChannels /\ tx_phase' = tx_phase + 1)
    BY DEF TxDspTick, TxDspEdge, NextTxPhase, TxRead
  <2> QED
    BY <2>1, TxSizes
<1>3. tx_underrun_dsp' \in BOOLEAN /\ clear_tx_dsp' \in BOOLEAN
  BY DEF TxDspTick, TxDspEdge, Underrun
<1>4. /\ txfifo' \in Seq(0 .. WordMod - 1) /\ Len(txfifo') <= TxDepth
      /\ tx_last' \in 0 .. WordMod - 1 \cup {NoTxWord}
  <2>1. CASE UNCHANGED txfifo /\ tx_last' \in {tx_last, NoTxWord}
    BY <2>1
  <2>2. CASE TxRead /\ tx_last' = Head(txfifo) /\ txfifo' = Tail(txfifo)
    <3>1. txfifo # <<>> /\ txfifo \in Seq(0 .. WordMod - 1) /\ Len(txfifo) <= TxDepth
      BY <2>2 DEF TxRead, tx_empty
    <3>2. /\ Tail(txfifo) \in Seq(0 .. WordMod - 1) /\ Head(txfifo) \in 0 .. WordMod - 1
          /\ Len(Tail(txfifo)) = Len(txfifo) - 1
      BY <3>1, HeadTailProperties
    <3>3. Len(Tail(txfifo)) <= TxDepth
      BY <3>1, <3>2, TxSizes
    <3> QED
      BY <2>2, <3>2, <3>3
  <2> QED
    BY <2>1, <2>2 DEF TxDspTick, TxDspEdge
<1> QED
  BY <1>1, <1>2, <1>3, <1>4 DEF TxDspTick, txUsbVars, txFirmVars

\* A word that is written is one.
WriteWords == wrreq /\ ~tx_reset => usbdata_reg # NoTxWord

LEMMA TxUsbTypes ==
  ASSUME TxTypeOK, WriteWords, TxUsbTick PROVE TxTypeOK'
<1> USE DEF TxTypeOK, TxBufferTypeOK
<1>1. tx_settle' \in [dsp : 0 .. 2, usb : 0 .. 1]
  BY DEF TxUsbTick
<1>2. wr_ticks' \in 0 .. WrTicks
  BY TxSizes DEF TxUsbTick, TxTransferDone, WR
<1>3. usbdata_reg' \in 0 .. WordMod - 1 \cup {NoTxWord}
  <2>1. word + wr_ticks \in Nat /\ WordMod \in Nat \ {0}
    BY TxSizes
  <2>2. (word + wr_ticks) % WordMod \in 0 .. WordMod - 1
    BY <2>1, ModRange
  <2> QED
    BY <2>2 DEF TxUsbTick, TxUsbEdge, usbdata
<1>4. write_count' \in 0 .. 2 * TxPacket - 1
  <2>1. write_count + 1 \in Nat /\ 2 * TxPacket \in Nat \ {0}
    BY TxSizes
  <2>2. (write_count + 1) % (2 * TxPacket) \in 0 .. 2 * TxPacket - 1
    BY <2>1, ModRange
  <2>3. 0 \in 0 .. 2 * TxPacket - 1
    BY TxSizes
  <2>4. write_count' = (write_count + 1) % (2 * TxPacket) \/ write_count' = 0
    BY DEF TxUsbTick, TxUsbEdge
  <2> QED
    BY <2>2, <2>3, <2>4
<1>5. txfifo' \in Seq(0 .. WordMod - 1) /\ Len(txfifo') <= TxDepth
  <2>1. CASE txfifo' = txfifo
    BY <2>1
  <2>2. CASE wrreq /\ ~tx_reset /\ Len(txfifo) < TxDepth /\ txfifo' = Append(txfifo, usbdata_reg)
    <3>1. usbdata_reg \in 0 .. WordMod - 1
      BY <2>2 DEF WriteWords
    <3> QED
      BY <2>2, <3>1, TxSizes
  <2> QED
    BY <2>1, <2>2 DEF TxUsbTick, TxUsbEdge, TxWrite
<1>6. /\ have_space' \in BOOLEAN /\ wr_reg' \in BOOLEAN /\ tx_underrun' \in BOOLEAN
      /\ bus_sync' \in BOOLEAN \X BOOLEAN
  BY DEF TxUsbTick, TxUsbEdge, WR
<1> QED
  BY <1>1, <1>2, <1>3, <1>4, <1>5, <1>6 DEF TxUsbTick, txDspVars, txFirmVars

LEMMA TxFirmwareLeaves ==
  TxFirmware \/ HostWrites => UNCHANGED <<txDspVars, txUsbVars, rx_used>>
BY DEF TxFirmware, HostWrites, TxNoSetup, GetTxStatus, SetTxEnable, SetTxReset, CheckTxFlags,
       RecordUnderrun, ClearTxFlags, StartWrite, NoWrite, EndWrite, TxGoto

LEMMA TxFirmwareTypes ==
  ASSUME TxTypeOK, TxFirmware \/ HostWrites PROVE TxTypeOK'
<1>1. UNCHANGED <<txDspVars, txUsbVars, rx_used>>
  BY TxFirmwareLeaves
<1>2. /\ txfifo' \in {txfifo, <<>>}
      /\ tx_pc' \in TxPlaces
      /\ {g_tx_enable', g_tx_underrun', tx_reset', tx_clear', untold'} \subseteq BOOLEAN
      /\ wr_ticks' \in {wr_ticks, 0}
      /\ tx_settle' \in {tx_settle, [dsp |-> 0, usb |-> 0]}
  <2> USE DEF TxTypeOK, TxPlaces
  <2>1. CASE TxNoSetup \/ SetTxEnable \/ CheckTxFlags \/ ClearTxFlags
    BY <2>1 DEF TxNoSetup, SetTxEnable, CheckTxFlags, ClearTxFlags, TxGoto
  <2>2. CASE GetTxStatus
    BY <2>2 DEF GetTxStatus, TxGoto
  <2>3. CASE SetTxReset
    BY <2>3 DEF SetTxReset, TxGoto
  <2>4. CASE RecordUnderrun
    BY <2>4 DEF RecordUnderrun, TxGoto, TxBufferTypeOK
  <2>5. CASE StartWrite \/ NoWrite
    BY <2>5 DEF StartWrite, NoWrite, TxGoto
  <2>6. CASE EndWrite \/ HostWrites
    BY <2>6 DEF EndWrite, HostWrites
  <2> QED
    BY <2>1, <2>2, <2>3, <2>4, <2>5, <2>6, TxFirmware \/ HostWrites DEF TxFirmware
<1>3. word' \in 0 .. WordMod - 1
  <2>1. word + TxPacket \in Nat /\ WordMod \in Nat \ {0}
    BY TxSizes DEF TxTypeOK
  <2>2. (word + TxPacket) % WordMod \in 0 .. WordMod - 1
    BY <2>1, ModRange
  <2>3. word' \in {word, (word + TxPacket) % WordMod}
    BY DEF TxFirmware, HostWrites, TxNoSetup, GetTxStatus, SetTxEnable, SetTxReset, CheckTxFlags,
           RecordUnderrun, ClearTxFlags, StartWrite, NoWrite, EndWrite, TxGoto
  <2> QED
    BY <2>2, <2>3 DEF TxTypeOK
<1>4. txfifo' \in Seq(0 .. WordMod - 1) /\ Len(txfifo') <= TxDepth
  <2>1. <<>> \in Seq(0 .. WordMod - 1) /\ Len(<<>>) <= TxDepth
    BY TxSizes
  <2> QED
    BY <1>2, <2>1 DEF TxTypeOK, TxBufferTypeOK
<1> QED
  BY <1>1, <1>2, <1>3, <1>4, TxSizes DEF TxTypeOK, TxBufferTypeOK, txDspVars, txUsbVars

-----------------------------------------------------------------------------
(* A packet under way: its words follow the pin by a tick, and the reset   *)
(* has reached the bus side before it is written.                          *)

SyncInv ==
  /\ wr_reg => tx_pc = "transfer" \/ (tx_pc = "setup" /\ tx_settle.usb = 0)
  /\ ~tx_reset =>
       /\ tx_pc # "check" \/ tx_settle.usb = 1 => ~bus_sync[1]
       /\ \/ tx_pc \in {"setup", "transfer"}
          \/ tx_pc \in {"record", "clear", "cleared", "out"} /\ tx_settle.usb = 1
          => ~bus_sync[2]

WordInv ==
  /\ word % TxPacket = 0
  /\ tx_pc = "transfer" =>
       /\ wr_reg <=> wr_ticks > 0
       /\ wr_ticks > 0 =>
            usbdata_reg = IF wr_ticks <= TxPacket THEN (word + wr_ticks - 1) % WordMod
                                                  ELSE NoTxWord
       /\ ~tx_reset /\ wr_ticks > 0 => write_count = wr_ticks - 1
  /\ ~tx_reset /\ tx_pc # "transfer" /\ wr_reg => write_count >= TxPacket

PacketOut == TxTypeOK /\ SyncInv /\ WordInv

LEMMA TxTypes ==
  ASSUME TxTypeOK
  PROVE  /\ txfifo \in Seq(0 .. WordMod - 1) /\ Len(txfifo) \in Nat /\ Len(txfifo) <= TxDepth
         /\ tx_phase \in 0 .. TxChannels
         /\ write_count \in 0 .. 2 * TxPacket - 1 /\ wr_ticks \in 0 .. WrTicks
         /\ word \in 0 .. WordMod - 1
         /\ tx_last \in 0 .. WordMod - 1 \cup {NoTxWord}
         /\ tx_settle \in [dsp : 0 .. 2, usb : 0 .. 1] /\ tx_pc \in TxPlaces
         /\ wr_reg \in BOOLEAN /\ have_space \in BOOLEAN
         /\ bus_sync \in BOOLEAN \X BOOLEAN /\ tx_reset \in BOOLEAN
BY DEF TxTypeOK, TxBufferTypeOK

LEMMA WordsWritten == PacketOut => WriteWords
<1> SUFFICES ASSUME PacketOut, wrreq, ~tx_reset PROVE usbdata_reg # NoTxWord
  BY DEF WriteWords
<1>1. tx_pc = "transfer" /\ wr_ticks > 0 /\ wr_ticks <= TxPacket
  BY TxTypes, TxSizes DEF PacketOut, WordInv, wrreq
<1>2. word + wr_ticks - 1 \in Nat /\ WordMod \in Nat \ {0}
  BY <1>1, TxTypes, TxSizes DEF PacketOut
<1>3. (word + wr_ticks - 1) % WordMod \in Nat
  BY <1>2, ModRange
<1> QED
  BY <1>1, <1>3, TxSizes DEF PacketOut, WordInv

LEMMA UsbKeepsPacketOut ==
  ASSUME PacketOut, TxUsbTick PROVE PacketOut'
<1> USE TxTypes, TxSizes DEF PacketOut
<1>1. TxTypeOK'
  BY TxUsbTypes, WordsWritten
<1>2. /\ UNCHANGED <<tx_reset, tx_pc, word>>
      /\ tx_settle'.usb = 1 /\ tx_settle'.dsp = tx_settle.dsp
  BY DEF TxUsbTick, txDspVars, txFirmVars
<1>3. /\ wr_reg' = WR /\ usbdata_reg' = usbdata /\ bus_sync' = <<tx_reset, bus_sync[1]>>
      /\ write_count' = IF wr_reg /\ ~bus_reset THEN (write_count + 1) % (2 * TxPacket) ELSE 0
      /\ wr_ticks' = IF WR THEN wr_ticks + 1 ELSE 0
  BY DEF TxUsbTick, TxUsbEdge
<1>4. SyncInv'
  <2>1. bus_sync'[1] = tx_reset /\ bus_sync'[2] = bus_sync[1]
    BY <1>3
  <2> QED
    BY <1>2, <1>3, <2>1 DEF SyncInv, WR, TxPlaces
<1>5. CASE ~WR
  BY <1>1, <1>2, <1>3, <1>4, <1>5 DEF WordInv, WR
<1>6. CASE WR
  <2>1. /\ tx_pc = "transfer" /\ tx_pc' = "transfer" /\ wr_reg' /\ wr_ticks' = wr_ticks + 1
    BY <1>2, <1>3, <1>6 DEF WR
  <2>2. usbdata_reg' = IF wr_ticks' <= TxPacket THEN (word + wr_ticks' - 1) % WordMod ELSE NoTxWord
    <3>1. word + wr_ticks' - 1 = word + wr_ticks
      BY <2>1
    <3>2. wr_ticks' <= TxPacket <=> wr_ticks < TxPacket
      BY <2>1
    <3> QED
      BY <1>3, <1>6, <3>1, <3>2 DEF usbdata
  <2>3. ~tx_reset => write_count' = wr_ticks
    <3>1. CASE wr_ticks = 0
      BY <1>3, <2>1, <3>1 DEF WordInv
    <3>2. CASE wr_ticks > 0 /\ ~tx_reset
      <4>1. wr_reg /\ write_count = wr_ticks - 1 /\ ~bus_reset
        BY <2>1, <3>2 DEF WordInv, SyncInv, bus_reset
      <4>2. wr_ticks \in 0 .. 2 * TxPacket - 1 /\ 2 * TxPacket \in Nat \ {0}
        BY <2>1
      <4>3. wr_ticks % (2 * TxPacket) = wr_ticks
        BY <4>2, ModOfSmall
      <4>4. write_count + 1 = wr_ticks
        BY <4>1
      <4> QED
        BY <1>3, <4>1, <4>3, <4>4
    <3> QED
      BY <3>1, <3>2
  <2>4. word % TxPacket = 0
    BY DEF WordInv
  <2>5. WordInv'
    <3>1. wr_ticks' > 0 /\ wr_ticks = wr_ticks' - 1
      <4>1. wr_ticks \in Nat
        OBVIOUS
      <4> QED
        BY ONLY <2>1, <4>1
    <3> QED
      BY ONLY <1>2, <2>1, <2>2, <2>3, <2>4, <3>1 DEF WordInv
  <2> QED
    BY <1>1, <1>4, <2>5
<1> QED
  BY <1>1, <1>4, <1>5, <1>6

LEMMA FirmwareKeepsPacketOut ==
  ASSUME PacketOut, TxFirmware \/ HostWrites PROVE PacketOut'
<1> USE TxTypes, TxSizes DEF PacketOut
<1>1. TxTypeOK'
  BY TxFirmwareTypes
<1>2. UNCHANGED <<wr_reg, usbdata_reg, write_count, bus_sync>>
  BY TxFirmwareLeaves DEF txUsbVars
<1>3. CASE TxNoSetup \/ GetTxStatus \/ SetTxEnable \/ SetTxReset
  <2>1. /\ tx_pc = "setup" /\ tx_pc' = "check" /\ tx_settle.usb = 1 /\ tx_settle'.usb = 0
        /\ UNCHANGED <<word, wr_ticks>>
    BY <1>3 DEF TxNoSetup, GetTxStatus, SetTxEnable, SetTxReset, TxGoto, TxSettled
  <2>2. ~wr_reg
    BY <2>1 DEF SyncInv
  <2> QED
    BY <1>1, <1>2, <2>1, <2>2 DEF SyncInv, WordInv
<1>4. CASE CheckTxFlags \/ RecordUnderrun \/ ClearTxFlags
  <2>1. /\ tx_pc \in {"check", "record", "clear", "cleared"}
        /\ tx_pc' \in {"record", "clear", "cleared", "out"}
        /\ tx_settle.usb = 1 /\ tx_settle'.usb = 0
        /\ UNCHANGED <<word, wr_ticks, tx_reset>>
    BY <1>4 DEF CheckTxFlags, RecordUnderrun, ClearTxFlags, TxGoto, TxSettled
  <2> QED
    BY <1>1, <1>2, <2>1 DEF SyncInv, WordInv
<1>5. CASE StartWrite \/ NoWrite
  <2>1. /\ tx_pc = "out" /\ tx_pc' \in {"transfer", "setup"}
        /\ tx_settle.usb = 1 /\ tx_settle'.usb = 0
        /\ tx_pc' = "transfer" => wr_ticks' = 0
        /\ UNCHANGED <<word, tx_reset>>
    BY <1>5 DEF StartWrite, NoWrite, TxGoto, TxSettled
  <2>2. ~wr_reg
    BY <2>1 DEF SyncInv
  <2> QED
    BY <1>1, <1>2, <2>1, <2>2 DEF SyncInv, WordInv
<1>6. CASE EndWrite
  <2>1. /\ tx_pc = "transfer" /\ tx_pc' = "setup" /\ wr_ticks = WrTicks
        /\ tx_settle'.usb = 0 /\ word' = (word + TxPacket) % WordMod /\ UNCHANGED tx_reset
    BY <1>6 DEF EndWrite, TxTransferDone, WR
  <2>2. word' % TxPacket = 0
    <3>1. word + TxPacket <= WordMod /\ (word + TxPacket) % TxPacket = 0
      <4>1. /\ word \in Nat /\ WordMod \in Nat /\ word < WordMod /\ TxPacket \in Nat \ {0}
            /\ word % TxPacket = 0 /\ WordMod % TxPacket = 0
        BY DEF WordInv
      <4> QED
        BY <4>1, MultipleStep
    <3>2. 0 % TxPacket = 0 /\ WordMod % WordMod = 0
      <4>1. 0 \in 0 .. TxPacket - 1 /\ WordMod \in Nat \ {0}
        OBVIOUS
      <4>2. 0 % TxPacket = 0
        BY <4>1, ModOfSmall
      <4>3. WordMod % WordMod = 0
        BY <4>1
      <4> QED
        BY <4>2, <4>3
    <3>3. CASE word + TxPacket < WordMod
      <4>1. word + TxPacket \in 0 .. WordMod - 1 /\ WordMod \in Nat \ {0}
        BY <3>3
      <4>2. word' = word + TxPacket
        BY <2>1, <4>1, ModOfSmall
      <4> QED
        BY <3>1, <4>2
    <3>4. CASE word + TxPacket = WordMod
      BY <2>1, <3>2, <3>4
    <3> QED
      BY <3>1, <3>3, <3>4
  <2> QED
    BY <1>1, <1>2, <2>1, <2>2 DEF SyncInv, WordInv
<1>7. CASE HostWrites
  BY <1>1, <1>2, <1>7 DEF HostWrites, SyncInv, WordInv
<1> QED
  BY <1>3, <1>4, <1>5, <1>6, <1>7 DEF TxFirmware

LEMMA PacketOutInductive == PacketOut /\ [TransmitNext]_transmitVars => PacketOut'
<1> SUFFICES ASSUME PacketOut, [TransmitNext]_transmitVars PROVE PacketOut'
  OBVIOUS
<1>1. ASSUME NEW strobe \in BOOLEAN, TxDspTick(strobe) PROVE PacketOut'
  <2>1. TxTypeOK'
    BY <1>1, TxDspTypes DEF PacketOut
  <2>2. /\ UNCHANGED <<wr_reg, usbdata_reg, write_count, bus_sync, tx_reset, tx_pc, word, wr_ticks>>
        /\ tx_settle'.usb = tx_settle.usb
    BY <1>1, TxTypes DEF PacketOut, TxDspTick, txUsbVars, txFirmVars
  <2> QED
    BY <2>1, <2>2 DEF PacketOut, SyncInv, WordInv
<1>2. CASE UNCHANGED transmitVars
  BY <1>2 DEF transmitVars, txDspVars, txUsbVars, txFirmVars, PacketOut, SyncInv, WordInv,
              TxTypeOK, TxBufferTypeOK
<1> QED
  BY <1>1, <1>2, UsbKeepsPacketOut, FirmwareKeepsPacketOut DEF TransmitNext, TxTicks

LEMMA PacketOutAlways == TransmitSpec => []PacketOut
<1>1. TransmitInit => PacketOut
  <2> SUFFICES ASSUME TransmitInit PROVE PacketOut
    OBVIOUS
  <2>1. 0 % TxPacket = 0
    BY TxSizes, ModOfSmall, 0 \in 0 .. TxPacket - 1
  <2>2. TxBufferTypeOK
    <3>1. txfifo \in Seq(0 .. WordMod - 1) /\ Len(txfifo) <= TxDepth
      <4>1. txfifo = <<>>
        BY DEF TransmitInit, TxBufferInit
      <4> QED
        BY <4>1, TxSizes
    <3>2. bus_sync \in BOOLEAN \X BOOLEAN
      BY DEF TransmitInit, TxBufferInit
    <3>3. 0 \in 0 .. TxChannels /\ 0 \in 0 .. 2 * TxPacket - 1
      BY TxSizes
    <3> QED
      BY <3>1, <3>2, <3>3 DEF TransmitInit, TxBufferInit, TxBufferTypeOK
  <2>3. TxTypeOK
    <3>1. 0 \in 0 .. WrTicks /\ 0 \in 0 .. WordMod - 1
      BY TxSizes
    <3>2. tx_settle \in [dsp : 0 .. 2, usb : 0 .. 1]
      BY DEF TransmitInit
    <3>3. {rx_used, g_tx_enable, g_tx_underrun, tx_reset, tx_clear, untold} \subseteq BOOLEAN
      BY DEF TransmitInit
    <3>4. tx_pc \in TxPlaces /\ wr_ticks = 0 /\ word = 0
      BY DEF TransmitInit, TxPlaces
    <3> QED
      BY <2>2, <3>1, <3>2, <3>3, <3>4 DEF TxTypeOK
  <2> QED
    BY <2>1, <2>3 DEF TransmitInit, TxBufferInit, PacketOut, SyncInv, WordInv
<1> QED
  BY <1>1, PacketOutInductive, PTL DEF TransmitSpec

-----------------------------------------------------------------------------
(* Underruns, as the overruns above: the flag is cleared only *)
(* on the way from "record" to the next round, or by a reset, and the pin   *)
(* the firmware reads is not older than the round.                          *)

\* The pin is that of this round.
TxPinRead == (tx_pc \in {"setup", "check"} /\ tx_settle.usb = 1) \/ tx_pc = "record"

UnderrunInv ==
  /\ tx_clear => tx_pc = "cleared"
  /\ clear_tx_dsp => tx_pc = "cleared" \/ (tx_pc = "out" /\ tx_settle.dsp = 0)
  /\ tx_reset /\ untold => tx_pc = "check" /\ tx_settle.dsp = 0
  /\ TxPinRead /\ tx_underrun /\ ~tx_reset => tx_underrun_dsp
  /\ ~rx_used /\ ~tx_reset /\ tx_pc = "record" => tx_underrun
  /\ ~rx_used /\ ~tx_reset =>
       /\ tx_pc \in {"clear", "cleared"} => g_tx_underrun
       /\ tx_pc = "out" /\ clear_tx_dsp => g_tx_underrun
  /\ ~rx_used /\ untold => tx_underrun_dsp \/ g_tx_underrun

LEMMA TxFlagTypes ==
  ASSUME TxTypeOK
  PROVE  /\ tx_underrun_dsp \in BOOLEAN /\ clear_tx_dsp \in BOOLEAN /\ tx_underrun \in BOOLEAN
         /\ tx_clear \in BOOLEAN /\ untold \in BOOLEAN
         /\ tx_reset \in BOOLEAN /\ rx_used \in BOOLEAN /\ g_tx_underrun \in BOOLEAN
         /\ tx_settle \in [dsp : 0 .. 2, usb : 0 .. 1] /\ tx_pc \in TxPlaces
BY DEF TxTypeOK, TxBufferTypeOK

LEMMA DspKeepsUnderrun ==
  ASSUME TxTypeOK, UnderrunInv, NEW strobe \in BOOLEAN, TxDspTick(strobe) PROVE UnderrunInv'
<1>1. /\ UNCHANGED <<rx_used, tx_pc, g_tx_underrun, tx_reset, tx_clear, tx_underrun>>
      /\ tx_settle'.usb = tx_settle.usb /\ tx_settle'.dsp >= 1
  BY TxFlagTypes DEF TxDspTick, txUsbVars, txFirmVars
<1>2. /\ clear_tx_dsp' = tx_clear
      /\ untold' = (~tx_reset /\ (untold \/ Underrun(strobe)))
      /\ tx_underrun_dsp' =
           (~tx_reset /\ (Underrun(strobe) \/ (tx_underrun_dsp /\ ~clear_tx_dsp)))
  BY DEF TxDspTick, TxDspEdge
<1>3. Underrun(strobe) \in BOOLEAN /\ TxPinRead' = TxPinRead
  BY <1>1 DEF Underrun, TxPinRead
<1> HIDE DEF Underrun
<1> QED
  BY <1>1, <1>2, <1>3, TxFlagTypes DEF UnderrunInv, TxPinRead

LEMMA UsbKeepsUnderrun ==
  ASSUME TxTypeOK, UnderrunInv, TxUsbTick PROVE UnderrunInv'
<1>1. /\ UNCHANGED <<rx_used, tx_pc, g_tx_underrun, tx_reset, tx_clear, clear_tx_dsp,
                     tx_underrun_dsp, untold>>
      /\ tx_settle'.usb = 1 /\ tx_settle'.dsp = tx_settle.dsp /\ tx_underrun' = tx_underrun_dsp
  BY TxFlagTypes DEF TxUsbTick, TxUsbEdge, txDspVars, txFirmVars
<1> QED
  BY <1>1, TxFlagTypes DEF UnderrunInv, TxPinRead

LEMMA FirmwareKeepsUnderrun ==
  ASSUME TxTypeOK, UnderrunInv, TxFirmware \/ HostWrites PROVE UnderrunInv'
<1>1. UNCHANGED <<rx_used, clear_tx_dsp, tx_underrun_dsp, tx_underrun>>
  BY TxFirmwareLeaves DEF txDspVars, txUsbVars
<1> USE <1>1, TxFlagTypes DEF UnderrunInv, TxPinRead, TxSettled
<1>2. CASE TxNoSetup \/ SetTxEnable
  BY <1>2 DEF TxNoSetup, SetTxEnable, TxGoto
<1>3. CASE GetTxStatus
  BY <1>3 DEF GetTxStatus, TxGoto
<1>4. CASE SetTxReset
  BY <1>4 DEF SetTxReset, TxGoto
<1>5. CASE CheckTxFlags
  BY <1>5 DEF CheckTxFlags, TxGoto
<1>6. CASE RecordUnderrun
  BY <1>6 DEF RecordUnderrun, TxGoto
<1>7. CASE ClearTxFlags
  BY <1>7 DEF ClearTxFlags, TxGoto
<1>8. CASE StartWrite
  BY <1>8 DEF StartWrite, TxGoto
<1>9. CASE NoWrite
  BY <1>9 DEF NoWrite, TxGoto
<1>10. CASE EndWrite
  BY <1>10 DEF EndWrite, TxTransferDone, WR
<1>11. CASE HostWrites
  BY <1>11 DEF HostWrites
<1> QED
  BY <1>2, <1>3, <1>4, <1>5, <1>6, <1>7, <1>8, <1>9, <1>10, <1>11 DEF TxFirmware

(* With an idle receive side, every underrun is told to a host that asks, or
   is still on its way: clearing the flags never loses one. *)
THEOREM NoUnderrunLostHolds == TransmitSpec => []NoUnderrunLostTxOnly
<1>1. TransmitInit => UnderrunInv
  BY DEF TransmitInit, TxBufferInit, UnderrunInv, TxPinRead
<1>2. TxTypeOK /\ UnderrunInv /\ [TransmitNext]_transmitVars => UnderrunInv'
  <2> SUFFICES ASSUME TxTypeOK, UnderrunInv, [TransmitNext]_transmitVars PROVE UnderrunInv'
    OBVIOUS
  <2>1. CASE UNCHANGED transmitVars
    BY <2>1 DEF transmitVars, txDspVars, txUsbVars, txFirmVars, UnderrunInv, TxPinRead
  <2> QED
    BY <2>1, DspKeepsUnderrun, UsbKeepsUnderrun, FirmwareKeepsUnderrun DEF TransmitNext, TxTicks
<1>3. UnderrunInv => NoUnderrunLostTxOnly
  BY DEF UnderrunInv, NoUnderrunLostTxOnly
<1>4. PacketOut => TxTypeOK
  BY DEF PacketOut
<1> QED
  BY <1>1, <1>2, <1>3, <1>4, PacketOutAlways, PTL DEF TransmitSpec

-----------------------------------------------------------------------------
(* What the fifo holds: a packet under way has room, and the words follow   *)
(* each other from the last one taken to the next one to be written.        *)

NextWord(w) == IF w = WordMod - 1 THEN 0 ELSE w + 1

\* The words of the packet under way that are in the fifo.
Written ==
  IF tx_pc # "transfer" \/ wr_ticks = 0 THEN 0
  ELSE IF wr_ticks <= TxPacket THEN wr_ticks - 1 ELSE TxPacket

SpaceInv ==
  /\ tx_pc = "transfer" => Len(txfifo) + TxPacket <= TxDepth + Written
  /\ \/ tx_pc \in {"check", "record", "clear", "cleared", "out"}
     \/ tx_pc = "setup" /\ tx_settle.usb = 1
     => (have_space => Len(txfifo) < SpaceLevel)

\* The next word to be written.
ToCome == (word + Written) % WordMod

\* A word w comes after the last one taken.
FollowsTaken(w) ==
  IF tx_last = NoTxWord THEN w % TxPacket = 0 ELSE w = NextWord(tx_last)

OnChannel ==
  IF tx_last = NoTxWord THEN tx_phase = 0
  ELSE \/ tx_phase = (tx_last % TxChannels) + 1
       \/ tx_phase = 0 /\ (tx_last % TxChannels) + 1 = TxChannels

WordsFollow ==
  /\ \A k \in 1 .. Len(txfifo) - 1 : txfifo[k + 1] = NextWord(txfifo[k])
  /\ txfifo # <<>> => FollowsTaken(txfifo[1]) /\ ToCome = NextWord(txfifo[Len(txfifo)])
  /\ txfifo = <<>> => FollowsTaken(ToCome)

OrderInv ==
  /\ tx_reset => /\ txfifo = <<>>
                 /\ \/ tx_last = NoTxWord /\ tx_phase = 0
                    \/ tx_pc = "check" /\ tx_settle.dsp = 0
  /\ ~tx_reset => OnChannel /\ WordsFollow

FifoInv == PacketOut /\ SpaceInv /\ OrderInv

LEMMA NextWordIsNext ==
  ASSUME NEW w \in 0 .. WordMod - 1
  PROVE  /\ NextWord(w) \in 0 .. WordMod - 1
         /\ (w + 1) % WordMod = NextWord(w)
         /\ NextWord(w) % TxChannels = IF w % TxChannels = TxChannels - 1
                                         THEN 0 ELSE (w % TxChannels) + 1
<1> USE TxSizes
<1>1. NextWord(w) \in 0 .. WordMod - 1
  BY DEF NextWord
<1>2. (w + 1) % WordMod = NextWord(w)
  <2>1. w % WordMod = w /\ w \in Nat /\ WordMod \in Nat \ {0}
    BY ModOfSmall, WordMod \in Nat \ {0}
  <2> QED
    BY <2>1, ModStep DEF NextWord
<1>3. (w + 1) % TxChannels = IF w % TxChannels = TxChannels - 1
                               THEN 0 ELSE (w % TxChannels) + 1
  BY ModStep, w \in Nat, TxChannels \in Nat \ {0}
<1>4. CASE w # WordMod - 1
  BY <1>1, <1>2, <1>3, <1>4 DEF NextWord
<1>5. CASE w = WordMod - 1
  <2>1. WordMod % TxChannels = 0
    BY MultipleOfMultiple, WordMod \in Nat, TxChannels \in Nat \ {0}, TxPacket \in Nat \ {0}
  <2>2. w + 1 = WordMod /\ w % TxChannels \in 0 .. TxChannels - 1
    BY <1>5, ModRange, w \in Nat, TxChannels \in Nat \ {0}
  <2>3. w % TxChannels = TxChannels - 1
    BY <1>3, <2>1, <2>2
  <2>4. 0 % TxChannels = 0
    BY ModOfSmall, 0 \in 0 .. TxChannels - 1, TxChannels \in Nat \ {0}
  <2> QED
    BY <1>1, <1>2, <1>5, <2>3, <2>4 DEF NextWord
<1> QED
  BY <1>4, <1>5

LEMMA FirstOfPacket ==
  ASSUME NEW w \in 0 .. WordMod - 1, w % TxPacket = 0 PROVE w % TxChannels = 0
BY TxSizes, MultipleOfMultiple, w \in Nat, TxChannels \in Nat \ {0}, TxPacket \in Nat \ {0}

\* The word to come is a word, and the one after it comes next.
LEMMA WordToCome ==
  ASSUME NEW n \in 0 .. WordMod - 1, NEW k \in Nat
  PROVE  /\ (n + k) % WordMod \in 0 .. WordMod - 1
         /\ (n + k + 1) % WordMod = NextWord((n + k) % WordMod)
         /\ (n + 0) % WordMod = n
<1>1. WordMod \in Nat \ {0} /\ n + k \in Nat
  BY TxSizes
<1>2. (n + k) % WordMod \in 0 .. WordMod - 1
  BY <1>1, ModRange
<1>3. (n + 0) % WordMod = n
  BY <1>1, ModOfSmall, n + 0 = n
<1>4. (n + k + 1) % WordMod = NextWord((n + k) % WordMod)
  BY <1>1, ModStep DEF NextWord
<1> QED
  BY <1>2, <1>3, <1>4

\* A tick of the transmit chain takes the next word of the order, if any.
TakesNext ==
  ~tx_reset /\ TxRead /\ tx_phase' # tx_phase =>
    /\ tx_last' # NoTxWord
    /\ tx_last' % TxChannels = tx_phase
    /\ IF tx_last = NoTxWord THEN tx_last' % TxPacket = 0
                             ELSE tx_last' = (tx_last + 1) % WordMod

LEMMA DspKeepsFifo ==
  ASSUME FifoInv, NEW strobe \in BOOLEAN, TxDspTick(strobe)
  PROVE  SpaceInv' /\ OrderInv' /\ TakesNext
<1>1. TxTypeOK
  BY DEF FifoInv, PacketOut
<1>2. /\ UNCHANGED <<tx_reset, tx_pc, wr_ticks, word, have_space>>
      /\ tx_settle'.usb = tx_settle.usb /\ tx_settle'.dsp >= 1
  BY <1>1, TxTypes DEF TxDspTick, txUsbVars, txFirmVars
<1>3. TxDspEdge(strobe, tx_reset, tx_clear)
  BY DEF TxDspTick
<1>4. Written' = Written /\ ToCome' = ToCome
  BY <1>2 DEF Written, ToCome
<1>5. Written \in 0 .. TxPacket
  BY <1>1, TxTypes, TxSizes DEF Written
<1>6. CASE tx_reset
  <2>1. txfifo' = txfifo /\ tx_phase' = 0 /\ tx_last' = NoTxWord
    BY <1>3, <1>6 DEF TxDspEdge
  <2> QED
    BY <1>2, <1>4, <1>6, <2>1 DEF FifoInv, SpaceInv, OrderInv, TakesNext
<1>7. CASE ~tx_reset /\ ~TxRead
  <2>1. txfifo' = txfifo /\ tx_last' = tx_last /\ tx_phase' = NextTxPhase(strobe)
    BY <1>3, <1>7 DEF TxDspEdge
  <2>2. tx_phase' = tx_phase \/ (tx_phase = TxChannels /\ tx_phase' = 0)
    BY <1>7, <2>1 DEF NextTxPhase
  <2>3. OnChannel'
    <3>1. OnChannel
      BY <1>7 DEF FifoInv, OrderInv
    <3>2. tx_phase = TxChannels => tx_last # NoTxWord
      BY <3>1, TxSizes DEF OnChannel
    <3> QED
      BY <1>1, <2>1, <2>2, <3>1, <3>2, TxTypes, TxSizes DEF OnChannel
  <2>4. SpaceInv' /\ WordsFollow'
    BY <1>2, <1>4, <1>7, <2>1 DEF FifoInv, SpaceInv, OrderInv, WordsFollow, FollowsTaken
  <2> QED
    BY <1>2, <1>7, <2>3, <2>4 DEF OrderInv, TakesNext
<1>8. CASE ~tx_reset /\ TxRead
  <2>1. /\ txfifo # <<>> /\ tx_phase # TxChannels
        /\ txfifo' = Tail(txfifo) /\ tx_last' = Head(txfifo) /\ tx_phase' = tx_phase + 1
    BY <1>3, <1>8 DEF TxDspEdge, TxRead, tx_empty, NextTxPhase
  <2>2. /\ tx_last' = txfifo[1] /\ tx_last' \in 0 .. WordMod - 1
        /\ Len(txfifo') = Len(txfifo) - 1 /\ Len(txfifo) >= 1
        /\ \A k \in 1 .. Len(txfifo') : txfifo'[k] = txfifo[k + 1]
    <3>1. txfifo \in Seq(0 .. WordMod - 1)
      BY <1>1, TxTypes
    <3>2. Head(txfifo) = txfifo[1] /\ Len(txfifo) >= 1
      BY <2>1, <3>1
    <3> QED
      BY <2>1, <3>1, <3>2, HeadTailProperties
  <2>3. OnChannel /\ WordsFollow /\ FollowsTaken(tx_last')
    BY <1>8, <2>1, <2>2 DEF FifoInv, OrderInv, WordsFollow
  <2>4. tx_last' # NoTxWord
    BY <2>2, TxSizes
  <2>5. tx_last' % TxChannels = tx_phase
    <3>1. CASE tx_last = NoTxWord
      BY <2>2, <2>3, <3>1, FirstOfPacket DEF OnChannel, FollowsTaken
    <3>2. CASE tx_last # NoTxWord
      <4>1. tx_last \in 0 .. WordMod - 1 /\ tx_last' = NextWord(tx_last)
        BY <1>1, <2>3, <3>2, TxTypes DEF FollowsTaken
      <4>2. tx_last % TxChannels \in 0 .. TxChannels - 1
        BY <4>1, ModRange, TxSizes, tx_last \in Nat, TxChannels \in Nat \ {0}
      <4>3. tx_last' % TxChannels = IF tx_last % TxChannels = TxChannels - 1
                                      THEN 0 ELSE (tx_last % TxChannels) + 1
        BY <4>1, NextWordIsNext
      <4> QED
        BY <2>1, <2>3, <3>2, <4>2, <4>3, TxSizes DEF OnChannel
    <3> QED
      BY <3>1, <3>2
  <2>6. TakesNext
    <3>1. tx_last # NoTxWord => tx_last' = (tx_last + 1) % WordMod
      BY <1>1, <2>3, TxTypes, NextWordIsNext DEF FollowsTaken
    <3> QED
      BY <2>3, <2>4, <2>5, <3>1 DEF TakesNext, FollowsTaken
  <2>7. OnChannel'
    BY <2>1, <2>4, <2>5 DEF OnChannel
  <2>8. WordsFollow'
    <3>1. \A k \in 1 .. Len(txfifo') - 1 : txfifo'[k + 1] = NextWord(txfifo'[k])
      <4> SUFFICES ASSUME NEW k \in 1 .. Len(txfifo') - 1
                   PROVE  txfifo'[k + 1] = NextWord(txfifo'[k])
        OBVIOUS
      <4>1. Len(txfifo) \in Nat
        BY <1>1, TxTypes
      <4>2. /\ k + 1 \in 1 .. Len(txfifo) - 1
            /\ txfifo'[k] = txfifo[k + 1] /\ txfifo'[k + 1] = txfifo[k + 1 + 1]
        BY <2>2, <4>1
      <4> QED
        BY <2>3, <4>2 DEF WordsFollow
    <3>2. CASE txfifo' = <<>>
      <4>1. Len(txfifo) = 1
        <5>1. Len(txfifo') = 0
          BY <3>2
        <5> QED
          BY <1>1, <2>2, <5>1, TxTypes
      <4>2. ToCome = NextWord(tx_last')
        BY <2>1, <2>2, <2>3, <4>1 DEF WordsFollow
      <4> QED
        BY <1>4, <2>4, <3>1, <3>2, <4>2 DEF WordsFollow, FollowsTaken
    <3>3. CASE txfifo' # <<>>
      <4>1. Len(txfifo) > 1
        <5>1. txfifo' \in Seq(0 .. WordMod - 1)
          BY <1>1, <2>1, TxTypes, HeadTailProperties
        <5>2. Len(txfifo') # 0
          BY <3>3, <5>1
        <5> QED
          BY <1>1, <2>2, <5>2, TxTypes
      <4>2. /\ txfifo'[1] = txfifo[2] /\ txfifo'[Len(txfifo')] = txfifo[Len(txfifo)]
            /\ txfifo[2] = NextWord(txfifo[1])
        <5>1. /\ 1 \in 1 .. Len(txfifo') /\ Len(txfifo') \in 1 .. Len(txfifo')
              /\ 1 \in 1 .. Len(txfifo) - 1 /\ Len(txfifo') + 1 = Len(txfifo)
          BY <1>1, <2>2, <4>1, TxTypes
        <5> QED
          BY <2>2, <2>3, <5>1, 1 + 1 = 2 DEF WordsFollow
      <4> QED
        BY <1>4, <2>1, <2>2, <2>3, <2>4, <3>1, <3>3, <4>2 DEF WordsFollow, FollowsTaken
    <3> QED
      BY <3>2, <3>3
  <2>9. SpaceInv'
    BY <1>1, <1>2, <1>4, <1>5, <2>2, TxTypes, TxSizes DEF FifoInv, SpaceInv
  <2> QED
    BY <1>2, <1>8, <2>6, <2>7, <2>8, <2>9 DEF OrderInv
<1> QED
  BY <1>6, <1>7, <1>8

LEMMA UsbKeepsFifo ==
  ASSUME FifoInv, TxUsbTick PROVE SpaceInv' /\ OrderInv'
<1>1. PacketOut /\ TxTypeOK
  BY DEF FifoInv, PacketOut
<1>2. /\ UNCHANGED <<tx_reset, tx_pc, word, tx_phase, tx_last>>
      /\ tx_settle'.usb = 1 /\ tx_settle'.dsp = tx_settle.dsp
      /\ have_space' = (Len(txfifo) < SpaceLevel)
      /\ wr_ticks' = IF WR THEN wr_ticks + 1 ELSE 0
  BY <1>1, TxTypes DEF TxUsbTick, TxUsbEdge, txDspVars, txFirmVars
<1>3. TxWrite(tx_reset)
  BY DEF TxUsbTick, TxUsbEdge
<1>4. CASE tx_reset \/ ~wrreq
  <2>1. txfifo' = txfifo
    BY <1>3, <1>4 DEF TxWrite
  <2>2. ~tx_reset => Written' = Written
    <3>1. CASE tx_pc # "transfer"
      BY <1>2, <3>1 DEF Written
    <3>2. CASE tx_pc = "transfer" /\ ~tx_reset
      BY <1>1, <1>2, <1>4, <3>2, TxTypes, TxSizes
      DEF Written, wrreq, WR, PacketOut, WordInv
    <3> QED
      BY <3>1, <3>2
  <2>3. CASE ~tx_reset
    <3>1. ToCome' = ToCome /\ Written' = Written
      BY <1>2, <2>2, <2>3 DEF ToCome
    <3>2. SpaceInv'
      BY <1>2, <2>1, <3>1 DEF FifoInv, SpaceInv
    <3>3. OnChannel' /\ WordsFollow'
      BY <1>2, <2>1, <2>3, <3>1
      DEF FifoInv, OrderInv, OnChannel, WordsFollow, FollowsTaken
    <3> QED
      BY <1>2, <2>3, <3>2, <3>3 DEF OrderInv
  <2>4. CASE tx_reset
    <3>1. Written' \in 0 .. TxPacket
      BY <1>1, <1>2, TxTypes, TxSizes DEF Written, WR
    <3>2. txfifo = <<>>
      BY <2>4 DEF FifoInv, OrderInv
    <3>3. Len(txfifo) = 0
      BY <3>2
    <3>4. TxPacket <= TxDepth + Written'
      <4>1. TxPacket <= TxDepth /\ TxPacket \in Nat /\ TxDepth \in Nat
        BY TxSizes
      <4>2. \A n \in 0 .. TxPacket : TxPacket <= TxDepth + n
        BY <4>1
      <4> QED
        BY <3>1, <4>2
    <3>5. SpaceInv'
      BY <1>2, <2>1, <3>3, <3>4, TxSizes DEF SpaceInv
    <3> QED
      BY <1>2, <2>1, <2>4, <3>5 DEF FifoInv, OrderInv
  <2> QED
    BY <2>3, <2>4
<1>5. CASE ~tx_reset /\ wrreq
  <2>1. /\ tx_pc = "transfer" /\ wr_ticks > 0 /\ wr_ticks <= TxPacket
        /\ usbdata_reg = (word + wr_ticks - 1) % WordMod
    BY <1>1, <1>5, TxTypes, TxSizes DEF PacketOut, WordInv, wrreq
  <2>2. Written = wr_ticks - 1 /\ Written' = Written + 1 /\ Written \in 0 .. TxPacket - 1
    <3>1. wr_ticks' = wr_ticks + 1 /\ tx_pc' = "transfer" /\ wr_ticks \in 1 .. TxPacket
      BY <1>1, <1>2, <2>1, TxTypes DEF WR
    <3>2. Written = wr_ticks - 1
      BY <2>1, <3>1, TxSizes DEF Written
    <3>3. Written' = wr_ticks
      BY <3>1, TxSizes DEF Written
    <3> QED
      BY <3>1, <3>2, <3>3, TxSizes
  <2>3. usbdata_reg = ToCome /\ ToCome \in 0 .. WordMod - 1 /\ ToCome' = NextWord(ToCome)
    <3>1. word + Written = word + wr_ticks - 1 /\ word + Written' = word + Written + 1
      BY <1>1, <2>2, TxTypes
    <3> QED
      BY <1>1, <1>2, <2>1, <2>2, <3>1, TxTypes, WordToCome DEF ToCome
  <2>4. txfifo' = Append(txfifo, ToCome)
    <3>1. Len(txfifo) + TxPacket <= TxDepth + Written
      BY <2>1 DEF FifoInv, SpaceInv
    <3>2. Len(txfifo) < TxDepth
      BY <1>1, <2>2, <3>1, TxTypes, TxSizes
    <3> QED
      BY <1>3, <1>5, <2>3, <3>2 DEF TxWrite
  <2>5. /\ Len(txfifo') = Len(txfifo) + 1 /\ txfifo' # <<>> /\ Len(txfifo) \in Nat
        /\ txfifo'[Len(txfifo')] = ToCome
        /\ \A k \in 1 .. Len(txfifo) : txfifo'[k] = txfifo[k]
    BY <1>1, <2>3, <2>4, TxTypes, AppendProperties
  <2>6. SpaceInv'
    <3>1. tx_pc' = "transfer" /\ Len(txfifo) + TxPacket <= TxDepth + Written
      BY <1>2, <2>1 DEF FifoInv, SpaceInv
    <3>2. Len(txfifo') + TxPacket <= TxDepth + Written'
      BY <2>2, <2>5, <3>1, TxSizes
    <3> QED
      BY <3>1, <3>2 DEF SpaceInv
  <2>7. OnChannel' /\ WordsFollow
    BY <1>2, <1>5 DEF FifoInv, OrderInv, OnChannel
  <2>8. FollowsTaken(txfifo'[1])
    <3>1. CASE txfifo = <<>>
      <4>1. Len(txfifo') = 1
        BY <2>5, <3>1
      <4> QED
        BY <2>5, <2>7, <3>1, <4>1 DEF WordsFollow
    <3>2. CASE txfifo # <<>>
      <4>1. 1 \in 1 .. Len(txfifo)
        BY <1>1, <3>2, TxTypes
      <4> QED
        BY <2>5, <2>7, <3>2, <4>1 DEF WordsFollow
    <3> QED
      BY <3>1, <3>2
  <2>9. \A k \in 1 .. Len(txfifo') - 1 : txfifo'[k + 1] = NextWord(txfifo'[k])
    <3> SUFFICES ASSUME NEW k \in 1 .. Len(txfifo') - 1
                 PROVE  txfifo'[k + 1] = NextWord(txfifo'[k])
      OBVIOUS
    <3>1. CASE k < Len(txfifo)
      <4>1. k \in 1 .. Len(txfifo) - 1 /\ k \in 1 .. Len(txfifo) /\ k + 1 \in 1 .. Len(txfifo)
        BY <2>5, <3>1
      <4> QED
        BY <2>5, <2>7, <4>1 DEF WordsFollow
    <3>2. CASE k = Len(txfifo)
      <4>1. k \in 1 .. Len(txfifo) /\ k + 1 = Len(txfifo') /\ txfifo # <<>>
        BY <2>5, <3>2
      <4> QED
        BY <2>5, <2>7, <3>2, <4>1 DEF WordsFollow
    <3> QED
      BY <2>5, <3>1, <3>2
  <2>10. WordsFollow'
    BY <1>2, <2>3, <2>5, <2>8, <2>9 DEF WordsFollow, FollowsTaken
  <2> QED
    BY <1>2, <1>5, <2>6, <2>7, <2>10 DEF OrderInv
<1> QED
  BY <1>4, <1>5

LEMMA FirmwareKeepsFifo ==
  ASSUME FifoInv, TxFirmware \/ HostWrites PROVE SpaceInv' /\ OrderInv'
<1>1. PacketOut /\ TxTypeOK
  BY DEF FifoInv, PacketOut
<1>2. UNCHANGED <<tx_phase, tx_last, have_space>>
  BY TxFirmwareLeaves DEF txDspVars, txUsbVars
<1>3. ASSUME UNCHANGED <<txfifo, tx_reset>>, ToCome' = ToCome,
             tx_reset /\ tx_pc = "check" => tx_pc' # "check" \/ tx_settle'.dsp = tx_settle.dsp,
             tx_pc = "check" /\ tx_pc' # "check" => tx_settle.dsp = 2
      PROVE  OrderInv'
  <2>1. CASE tx_reset
    BY <1>1, <1>2, <1>3, <2>1, TxTypes DEF FifoInv, OrderInv
  <2>2. CASE ~tx_reset
    BY <1>2, <1>3, <2>2 DEF FifoInv, OrderInv, OnChannel, WordsFollow, FollowsTaken
  <2> QED
    BY <1>1, <2>1, <2>2, TxTypes
<1>4. CASE TxNoSetup \/ GetTxStatus \/ SetTxEnable
  <2>1. /\ tx_pc = "setup" /\ tx_pc' = "check" /\ tx_settle.usb = 1 /\ tx_settle.dsp = 2
        /\ UNCHANGED <<txfifo, tx_reset, word>>
    BY <1>4 DEF TxNoSetup, GetTxStatus, SetTxEnable, TxGoto, TxSettled
  <2>2. ToCome' = ToCome
    BY <2>1 DEF ToCome, Written
  <2> QED
    BY <1>2, <1>3, <2>1, <2>2 DEF FifoInv, SpaceInv
<1>5. CASE SetTxReset
  <2>1. /\ tx_pc = "setup" /\ tx_pc' = "check" /\ tx_settle = [dsp |-> 2, usb |-> 1]
        /\ tx_settle' = [dsp |-> 0, usb |-> 0]
        /\ tx_reset' \in BOOLEAN /\ txfifo' = IF tx_reset' THEN <<>> ELSE txfifo
        /\ UNCHANGED word
    BY <1>5 DEF SetTxReset, TxGoto, TxSettled
  <2>2. ToCome' = ToCome /\ ToCome = word /\ word % TxPacket = 0
    BY <1>1, <2>1, TxTypes, WordToCome, 0 \in Nat DEF ToCome, Written, PacketOut, WordInv
  <2>3. SpaceInv'
    BY <1>1, <1>2, <2>1, TxTypes, TxSizes DEF FifoInv, SpaceInv
  <2>4. CASE tx_reset'
    BY <2>1, <2>3, <2>4 DEF OrderInv
  <2>5. CASE ~tx_reset' /\ tx_reset
    <3>1. txfifo' = <<>> /\ tx_last' = NoTxWord /\ tx_phase' = 0
      BY <1>2, <2>1, <2>5 DEF FifoInv, OrderInv
    <3>2. OnChannel'
      BY <3>1 DEF OnChannel
    <3>3. Len(txfifo') = 0
      BY <3>1
    <3>4. WordsFollow'
      BY <2>2, <3>1, <3>3 DEF WordsFollow, FollowsTaken
    <3> QED
      BY <2>3, <2>5, <3>2, <3>4 DEF OrderInv
  <2>6. CASE ~tx_reset' /\ ~tx_reset
    BY <1>2, <2>1, <2>2, <2>3, <2>6
    DEF FifoInv, OrderInv, OnChannel, WordsFollow, FollowsTaken
  <2> QED
    BY <1>1, <2>1, <2>4, <2>5, <2>6, TxTypes
<1>6. CASE CheckTxFlags \/ RecordUnderrun \/ ClearTxFlags
  <2>1. /\ tx_pc \in {"check", "record", "clear", "cleared"}
        /\ tx_pc' \in {"record", "clear", "cleared", "out"}
        /\ tx_settle.dsp = 2 /\ UNCHANGED <<txfifo, tx_reset, word>>
    BY <1>6 DEF CheckTxFlags, RecordUnderrun, ClearTxFlags, TxGoto, TxSettled
  <2>2. ToCome' = ToCome
    BY <2>1 DEF ToCome, Written
  <2> QED
    BY <1>2, <1>3, <2>1, <2>2 DEF FifoInv, SpaceInv
<1>7. CASE StartWrite
  <2>1. /\ tx_pc = "out" /\ tx_pc' = "transfer" /\ have_space /\ wr_ticks' = 0
        /\ tx_settle.dsp = 2 /\ UNCHANGED <<txfifo, tx_reset, word>>
    BY <1>7 DEF StartWrite, CanWrite, TxGoto, TxSettled
  <2>2. ToCome' = ToCome /\ Written' = 0
    BY <2>1 DEF ToCome, Written
  <2>3. SpaceInv'
    BY <1>1, <2>1, <2>2, TxTypes, TxSizes DEF FifoInv, SpaceInv
  <2> QED
    BY <1>3, <2>1, <2>2, <2>3
<1>8. CASE NoWrite
  <2>1. /\ tx_pc = "out" /\ tx_pc' = "setup" /\ tx_settle.dsp = 2 /\ tx_settle'.usb = 0
        /\ UNCHANGED <<txfifo, tx_reset, word>>
    BY <1>8 DEF NoWrite, TxGoto, TxSettled
  <2>2. ToCome' = ToCome
    BY <2>1 DEF ToCome, Written
  <2> QED
    BY <1>3, <2>1, <2>2 DEF SpaceInv
<1>9. CASE EndWrite
  <2>1. /\ tx_pc = "transfer" /\ wr_ticks = WrTicks /\ tx_pc' = "setup" /\ tx_settle'.usb = 0
        /\ word' = (word + TxPacket) % WordMod /\ UNCHANGED <<txfifo, tx_reset>>
    BY <1>9 DEF EndWrite, TxTransferDone, WR
  <2>2. ToCome' = ToCome
    <3>1. Written = TxPacket /\ Written' = 0
      BY <2>1, TxSizes DEF Written
    <3>2. /\ (word + TxPacket) % WordMod \in 0 .. WordMod - 1
          /\ (word' + 0) % WordMod = word'
      BY <1>1, <2>1, TxTypes, TxSizes, WordToCome, TxPacket \in Nat, 0 \in Nat
    <3> QED
      BY <2>1, <3>1, <3>2 DEF ToCome
  <2> QED
    BY <1>3, <2>1, <2>2 DEF SpaceInv
<1>10. CASE HostWrites
  <2>1. UNCHANGED <<txfifo, tx_reset, tx_pc, wr_ticks, word, tx_settle>>
    BY <1>10 DEF HostWrites
  <2>2. ToCome' = ToCome /\ Written' = Written
    BY <2>1 DEF ToCome, Written
  <2> QED
    BY <1>2, <1>3, <2>1, <2>2 DEF FifoInv, SpaceInv
<1> QED
  BY <1>4, <1>5, <1>6, <1>7, <1>8, <1>9, <1>10 DEF TxFirmware

LEMMA FifoInvInductive ==
  FifoInv /\ [TransmitNext]_transmitVars => FifoInv' /\ [TakesNext]_transmitVars
<1> SUFFICES ASSUME FifoInv, [TransmitNext]_transmitVars
             PROVE  SpaceInv' /\ OrderInv' /\ [TakesNext]_transmitVars
  BY PacketOutInductive DEF FifoInv
<1>1. CASE UNCHANGED transmitVars
  <2>1. SpaceInv' /\ OrderInv'
    BY <1>1 DEF transmitVars, txDspVars, txUsbVars, txFirmVars, FifoInv, SpaceInv, OrderInv,
                Written, ToCome, OnChannel, WordsFollow, FollowsTaken
  <2> QED
    BY <1>1, <2>1
<1>2. ASSUME NEW strobe \in BOOLEAN, TxDspTick(strobe)
      PROVE  SpaceInv' /\ OrderInv' /\ [TakesNext]_transmitVars
  BY <1>2, DspKeepsFifo
<1>3. CASE TxUsbTick
  <2>1. SpaceInv' /\ OrderInv' /\ UNCHANGED tx_phase
    BY <1>3, UsbKeepsFifo DEF TxUsbTick, txDspVars
  <2> QED
    BY <2>1 DEF TakesNext
<1>4. CASE TxFirmware \/ HostWrites
  <2>1. SpaceInv' /\ OrderInv' /\ UNCHANGED tx_phase
    BY <1>4, FirmwareKeepsFifo, TxFirmwareLeaves DEF txDspVars
  <2> QED
    BY <2>1 DEF TakesNext
<1> QED
  BY <1>1, <1>2, <1>3, <1>4 DEF TransmitNext, TxTicks

(* The transmit chain takes the words the host sent, in order and each on its
   channel, whatever the host commands: no underrun and no full buffer loses
   or repeats one, and no reset starts in the middle of a packet. *)
THEOREM TakenAsSentHolds == TransmitSpec => TakenAsSent
<1>1. TransmitInit => SpaceInv /\ OrderInv
  <2> SUFFICES ASSUME TransmitInit PROVE SpaceInv /\ OrderInv
    OBVIOUS
  <2>1. /\ txfifo = <<>> /\ Len(txfifo) = 0 /\ tx_phase = 0 /\ tx_last = NoTxWord
        /\ tx_pc = "setup" /\ tx_settle.usb = 0 /\ ~tx_reset /\ word = 0
    BY DEF TransmitInit, TxBufferInit
  <2>2. ToCome % TxPacket = 0
    <3>1. 0 \in 0 .. WordMod - 1 /\ 0 \in 0 .. TxPacket - 1
      BY TxSizes
    <3>2. ToCome = 0
      BY <2>1, <3>1, WordToCome, 0 \in Nat DEF ToCome, Written
    <3> QED
      BY <3>1, <3>2, ModOfSmall, TxSizes
  <2> QED
    BY <2>1, <2>2 DEF SpaceInv, OrderInv, OnChannel, WordsFollow, FollowsTaken
<1>2. TransmitSpec => []FifoInv /\ [][TakesNext]_transmitVars
  <2>1. FifoInv <=> PacketOut /\ SpaceInv /\ OrderInv
    BY DEF FifoInv
  <2> QED
    BY <1>1, <2>1, FifoInvInductive, PacketOutAlways, PTL DEF TransmitSpec
<1> QED
  BY <1>2, PTL DEF TakenAsSent, TakesNext
=============================================================================
