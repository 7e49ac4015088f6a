# A verification project for fast-square

fast-square locates a tag that transmits a square wave of ultra-wide bandwidth.
Four anchors, the channels of two USRP1 boards, sweep a narrow receiver over the
band in 32 frequency steps; a GNU Radio flow graph cuts their streams into
sweeps, estimates the frequency of the tag, extracts the phasors of its
harmonics, turns them into times of arrival and these into a position; a web
page shows the positions.

This directory holds TLA+ models of that system, the TLC configurations that
check them, and proofs checked by TLAPS. Paths below are relative to `src/`, and
`:n` is a line of the file named before. Run from here:

    tlc -workers 2 -config parser_lossy.cfg StreamParser.tla
    tlapm StreamParserProofs.tla

`PROJECT.json` lists components, runs, mutants (a change a bug would make, and
the property that notices it), the source lines of every definition, findings,
hazards and theorems. Definitions headed "mutant" or "what a bug would do" are
those changes; nothing else uses them.

## 1. The system

    tag ))) anchor FPGA                      FX2              host
            fast_square_controller                            stream_parser
              | rx_reset, record                                | snapshots of 4 anchors
            fast_square_bb_comb -> rx_buffer -> main_loop ->  prf_estimator
              one word in 33         4096 words   USB           | + tag prf_est
                                                              harmonic_extractor
            tx chain  <-  tx_buffer  <-  main_loop  <-          | + tags phasor_calc, harmonic_freqs
                                                              harmonic_localizer
    an earlier anchor:                                          | 3 floats a message
            fast_square_rx -> ... -> freq_stitcher            wsLocation.js (browser)
              registers  <-  _freq_tracker (fast_square_demo.py)

| component | state | operations | correct when |
|---|---|---|---|
| `fast_square_controller.v` | state, tick counters, step count, `first_time` | one clock edge; reset | every step takes the `TOTAL_TICKS` the host counts on |
| `fast_square_bb_comb.v` | decimation counter, sequence number, markers left | strobe, count, reset | each sequence is its number, 101 markers, data, and of the length the host assumes |
| `usrp_std_hs_bb.v` (top level) | wiring, `ext_reset`, antenna select | -- | the slices the host takes were recorded in their own step |
| `rx_buffer.v` | fifo, channel registers, phase, overrun flag in two clock domains | edge of rxclk, edge of usbclk | the stream is continuous, or an overrun is flagged |
| `tx_buffer.v` | fifo, phase, underrun flag, count of a packet, synchronised reset | edge of txclk, edge of usbclk | the words sent are taken in order, each on its channel; underruns are flagged |
| FX2 firmware, `usrp_main.c` | enables, sticky flags, GPIF transfer | `main_loop`, vendor commands | flags are reported, packets are whole, they keep flowing |
| `stream_parser` | four deques, `d_hsn`, restart flags | `general_work` | a snapshot is one sweep of all anchors; each sweep once, in order |
| `prf_estimator`, `harmonic_extractor`, `harmonic_localizer::work` | last tag values | `work` | a position comes from one snapshot alone |
| `extractToAs`, `tdoa4_slow` | candidate, gap count; position, best error | loops within `work` | end of the peak's cluster; a local minimum; termination |
| `fast_square_rx.v`, `freq_stitcher` | registers and their latched copies, dispatch counter; state, index | strobe, step, reset; `work` | a sweep is tuned consistently; words meet their calibration |
| flow graph scripts | parameters, widgets, blocks, connections | constructor, setters, two threads | each anchor on its port; widgets, displays and boards agree |
| `scopesink_cir.py` | queue, cursors, labels, mode | controls, records | a trace is drawn as its labels say |
| `wsLocation.js` | numbers left over, ring of 60 sprites | `onMessage`, `updateLocation` | the last positions, newest largest |
| `swig_doc.py`, `doxyxml` | objects read lazily from doxygen's files | read, convert, write docstrings | every function and word has its place, errors end the program or cost one entry |
| `inband_lib/*.v` | packet fifos, channel RAMs, command reader | clocked state machines | no packet lost, split or sent to another channel |
| `serial_io.v`, `master_control.v`, `atr_delay.v`, setting registers | shift register, delays | serial clock, tx/rx switch | a register is written once, whole |
| cordic, CIC, DDC, combs, window, phase corrections | samples | arithmetic | numerical, no control |

How they interact. The clock domains of the FPGA (64 MHz converters, 48 MHz bus)
share the fifos and a flag each way. The firmware polls pins and starts
transfers, and handles the host's commands between two of them. GNU Radio runs
every block in a thread of its own; blocks share bounded buffers and tags on
items. The scripts set up the graph in the main thread, may start one of their own,
and then work in reaction to widgets. The page is single threaded and reacts to
messages.

What is hard. Four streams lose samples independently and must be brought to the
same sweep; numbers start over when a log file repeats or a board is reset; the
framing depends on arithmetic between constants in Verilog and in a C header; a
flag is set in one clock domain and cleared from another through a firmware that
reads it in between; a call of a block may be for any number of items; loops
inside a call have no bound written down; registers are written one by one while
a sweep may take them over; a setter that raises an exception leaves half its
work done.

## 2. Modules

| module | models | composed of |
|---|---|---|
| `StreamParser` | `general_work`, at the level of frames | -- |
| `StreamParserProofs` | its invariants, alignment, order and completeness, for all parameters | extends it |
| `FramedStream` | abstract: the stream of an anchor as the host takes it to be | -- |
| `FrameScan` | the scan of `general_work` in the samples of one anchor | extends `FramedStream` |
| `FrameScanProofs` | labels and frames, for all parameters | extends it |
| `FsController`, `BbComb` | the two FPGA modules, clock by clock | -- |
| `AnchorStream` | their wiring; implements `FramedStream` | extends both, instance of `FramedStream` |
| `AnchorStreamProofs` | schedule, slices, refinement, for all parameters | extends it |
| `RxBuffer`, `TxBuffer` | `rx_buffer.v`, `tx_buffer.v`, both clock domains | -- |
| `Fx2Receive`, `Fx2Transmit` | firmware, one direction, with its buffer and the host | extend the buffers |
| `Fx2Proofs` | both directions, for all parameters | extends both |
| `MCFx2` | the firmware with one direction in use at a time | extends both directions |
| `TagPipeline` | `work` of three blocks, their buffers and tags | -- |
| `WsLocation` | the object of the page | -- |
| `LocationFeed` | blocks, socket and page | extends both of them |
| `ToaSearch` | `extractToAs` after the transform, differences | -- |
| `PositionSearch` | the descent of `tdoa4_slow` | -- |
| `HarmonicSearch` | one after the other, as `harmonicLocalization` calls them | extends both searches |
| `MCLocation` | the search and the feed in one run | extends `HarmonicSearch` and `LocationFeed` |
| `HarmonicSearchProofs` | both searches, for all sizes, responses and grids | extends `HarmonicSearch` |
| `FlowGraphScripts` | what the eight scripts do, as sequences of steps | -- |
| `FlowGraphApp` | a script at work: constructor, check of the graph, setters, thread | extends it |
| `TunedReceiver` | `_freq_tracker`, `fast_square_rx.v`, `freq_stitcher` | -- |
| `FlowGraphProofs` | the eight scripts, for all options, values and decimations; the receiver, for all parameters | extends `FlowGraphApp` and `TunedReceiver` |
| `ScopeSink` | the oscilloscope display | -- |
| `DisplayProofs` | what page and oscilloscope show, for all parameters | extends `LocationFeed` and `ScopeSink` |
| `MCFlowGraphs` | the three parts of the host side in one run | extends the three |
| `DoxygenSchema` | the generated classes: what each keeps of a node | -- |
| `DoxygenText` | reading a file into objects, and text out of them | extends it |
| `DoxyIndex` | the objects of `doxyxml` over a directory, read lazily | extends it |
| `SwigDoc`, `MCSwigDoc` | `swig_doc.py`; the directories it is run on | extends it |
| `NumberLemmas` | induction and remainders | extended by the proofs |

Contracts between them. `FramedStream` is the one between FPGA and host:
`AnchorStream` implements it (the run checks it, the proof shows it for all
parameters), `FrameScan` reads it. `FrameScan!LabelsIncrease` -- labels of frames
only go up, after a loss too -- is the assumption `StreamParser` makes of its
inputs. `RxBuffer` is where samples are lost: `FrameScan!Lose` is its overrun.

### StreamParser

An element of `hist[a]` stands for the `SAMPLES_PER_SEQ-1` samples of a sweep
and the number the code reads behind them. `Call` is the part of `general_work`
(`gr-fast-square/lib/stream_parser_impl.cc`) that fills the histories, and every
branch of the scan is an action: `Return` (not enough data), `NoteRestart`,
`AllRestarted`, `DropWaiting` (the three outcomes while `d_wait_for_restart`),
`RaiseHsn`, `DetectRestart`, `DropStale`, `Accept` (the four while not), `Publish`
and `SpinFull` (a snapshot with and without room). `pc`, `ii`, `outCount` are the
position in the code. An anchor in `Lossy` may skip frames; a lap is a pass over
the numbers. `snap` is a history variable, read by properties only, and so is
`trouble`: it remembers that the first anchor has left
out a frame or that some anchor has started over.

The loop `jj<4` over the restart flags is over all anchors, of which the source
has four. Files of time stamps are left out.

### FsController, BbComb, AnchorStream

An action is an edge of the 64 MHz clock; combinational wires are operators.
`age`, the ticks since the reset of the sequence ended, and `sent`, the words
since then, are history. `freq_step` (`next_freq_step`) is as in the source, where
the literal `2'd10` is two bits wide and means 2. Sequence numbers wrap at
`SeqMod`, 2^32 in the source. Data samples are one value `Data`: the comb filters
are arithmetic. `mod_counter` only selects the antenna and has no properties.

Three assumptions tie the constants: `AlignAssumption` (a sequence is one tick
short of a whole number of words), `SliceAssumption` (the host's slices fall into
the recording) and `SourceParameters`, in which TLC evaluates both for the
numbers of `defines.h` and the Verilog. The alignment holds only because 32
steps of a multiple of 33 ticks plus 1 leave a rest of 32, so that the last word
goes out on the very edge that starts the reset.

### FrameScan

`buf` holds samples with the place they were sent from. `PopFront` is one round
of the inner `while`; `Cut` is the exit of that loop together with the erasure
that follows later, whichever branch erases. `data_history[i]` is `buf[i + 1]`.
A sample also carries how many losses came before it, which only properties and the
guard of `Lose` read: a loss is taken when the scan is in place after the last one
(`InPlace`), so that losses closer together than that are not in the model.

### RxBuffer, TxBuffer, Fx2Receive, Fx2Transmit, MCFx2

`DspEdge` is an edge of rxclk (latch, phase, overrun, write), `UsbEdge` one of
usbclk; `TxDspEdge` and `TxUsbEdge` are those of the other buffer, which moves words
the other way. Details of `tx_buffer.v` the model keeps: a word is written one tick
behind the pin; the 257th tick of a transfer, which the controller of the bus
needs, is counted and not written; nothing stops a write to a full fifo but the
check for room before the transfer; the reset empties the fifo at once and
reaches the count two edges of usbclk later. A word is its number among those
the host sends.

The firmware's `main_loop` (`dsp-fast-square/usrp_main.c`) is cut at its reads of
pins and its writes to them: `CheckFlags` (the `if`), `Record`, `ClearFlags` (a
pulse: two steps), `StartTransfer`/`NoTransfer`, `EndTransfer`, and the same for the
transmit side; the commands are `GetStatus`, `SetRxEnable`, `SetRxReset` and their
counterparts. `Settled` states what the speeds of the two chips give: an FX2
instruction takes 83 ns, more than five edges of rxclk and four of usbclk; the
model asks for two and one between two steps of the firmware.

Each of the two modules lets the other direction do what it can do to this one:
take time, and raise its own flag at any moment (`tx_used`, `rx_used`), which also
clears both. A round of `main_loop` serves OUT before IN, so that in `Fx2Receive`
the transmit half is a delay between "record" and "in". `MCFx2` runs one direction
at a time with or without that interference.

### TagPipeline, WsLocation, LocationFeed

A value is the set of snapshots it depends on and the number of times it was
converted in place (`d_harmonic_freqs[ii] *= 2.0*M_PI` and the phase
corrections): what a formula computes is left out, what it is computed from is
not. `CallWork`, `Round` and `WorkReturns` separate a call, the rounds of its
loop and its return, when `nitems_read` moves. `onMessage` is atomic, as a
handler of a page is; the socket keeps the order and may cut the numbers into
messages anywhere. Sizes of sprites are in units of 1/60 of the largest.

### ToaSearch, PositionSearch, HarmonicSearch

Magnitudes are below the threshold, above it, or the peak, which is unique.
`Look` is a round of the loop, `cand_toa_idx` the loop, `Turn` the rotation and
`Subtract` a round of the loop that opens `tdoa4_slow`. In `PositionSearch` the
error is any function of the position, and a round of the `while` is `Move` or
`Settle`; which of several best neighbours is taken is left open. `BeginDescent`
joins them: the differences enter the descent through the error function alone, and
every function is tried after every extraction.

### FlowGraphScripts, FlowGraphApp

A script is a sequence of steps: keep a value, make an object with settings taken
from attributes, call a `set_` method, pass an attribute on to another setter, connect
two ports, start a thread, raise. `Perform` is a step, `Raises` the ways it can fail
(an attribute or a method that is not there, an input connected twice). A call that
takes an attribute is two steps, as it is in Python: the argument is read (`Reads`, and
`arg` or `probeArg` holds it), and then the method is called with what was read; the other
thread may run in between. `MakeNext` is the constructor, `Start` the check GNU Radio
makes of the ports, `CallSetter` and `InSetter` a setter step by step, `ReadSensor` and
`InProbe` the thread of `fast_square_fft.py`, which overlaps both. `overlapped` is
history: both threads have been in the setters of the oscillator's state at once, and
neither has entered them alone since. `objs[a].of` remembers which attribute a
setting was taken from, so that `SettingsAgree` can compare them later.

The boards are told apart by the serial number the script asks for (`Addresses`), and an
anchor is a channel of a board (`Anchor`), whatever the attribute is called that
holds the board. `Recorded` are the anchors in a file that a script has written.

The classes of GNU Radio and wx are not in
the repository: `Classes` has their ports and methods as the scripts use them.
The prime-factor search of `mrfm.py` is modelled in numbers (`halves`,
`decimation`), as it decides whether a script starts.

Parameters have two values each; layout, ranges of widgets, and constants that
nothing changes are left out.

### TunedReceiver

A register holds the round of the thread that wrote it; `Latch` is the last clock
of a reset, at the start of a sweep or from the pin; `FreqStep` is the strobe of the
controller, `Strobe` a word sent and received, with the dispatch counter of the
Verilog (`new_data_ctr`) and the state machine of `freq_stitcher` for one word. A
step sends `NUM_SUBCARRIERS*2+3` words, the registers after the sums.

A word has the real and the imaginary part that the host sees, where 0x8000 is -1. Filler
(`Filler`) is -1 and -1 while a sweep starts, and -1 and 0 between two steps. The
stitcher (`IsFiller`, line 73) knows filler by an imaginary part of -1: it passes over
the first and takes the second for data. Of the values of data one matters, a sum that it
takes for filler (`Data`). A word taken for data behind the end of the calibration is
divided by what lies there, or ends the program. `spoilt` is history: a sweep was cut
short, or a sum looked like filler. `Spaced` says that the words of a step have been sent,
and some filler, when the next step comes, which is some hundred words later.

### ScopeSink

An action is a control, a record triggered, posted or drawn. `labels` and `enabled`
are what the window shows, `info` what it draws with; the two parts of
`set_sample_rate` are steps of their own, as records may be queued in between.
The range found from samples is `AsFound`.

### DoxygenSchema, DoxygenText, DoxyIndex, SwigDoc

The generated readers differ in tables only, so `Schema` is those tables: for each
class the attributes read as integers, what becomes of text, and which child
elements are kept, and how. `Build` is the common `build` method over a table,
`Fails` what raises in it. A `DoxyFile` or `DoxyClass` is an entry of `obj`, read by
`Parse` when something first asks for it; `parsed` is set before the file is
opened, as in the source. `SwigDoc` follows the loops of
`make_swig_interface_file` one iteration at a time. Only classes that a file can
reach are there; export back to XML is left out. A name is the sequence of its
parts between underscores, a text the sequence of its words.

## 3. Runs

| run | module | properties | distinct states |
|---|---|---|---|
| `parser_lossy` | StreamParser | FollowersAgree, HistoryBounded, AlignedTillTrouble, PublishInOrder, QuietWhileWaiting | 2.1 M |
| `parser_lossless` | StreamParser | NeverSpins, NoSweepSkipped, CallReturns, WaitEnds | 13 k |
| `parser_first_ahead` | StreamParser | Aligned -- violated | |
| `anchor_stream` | AnchorStream | SliceRecorded, SequenceTicks, Framed | 1.6 k |
| `scan_long_loss` | FrameScan | LabelIsHeader, WholeSweep, LabelsIncrease, AllSweepsCut | 132 k |
| `scan_short_loss` | FrameScan | LabelIsHeader -- violated | |
| `fx2_transfers` | MCFx2 | NoOverrunLostRxOnly, NoUnderrunLostTxOnly, ContinuousUnlessFlagged, PacketWords, NoFalseOverrun, TakenAsSent, PacketsFlow | 384 k |
| `fx2_tx_underrun` | Fx2Receive | NoOverrunLost -- violated | |
| `location` | MCLocation | FindsEndOfCluster, DelayShiftsToa, DifferencesOfToas, LocalMinimum, Ends, ShowsLatest, EverySnapshotShown | 78 k |
| `flow_graphs` | MCFlowGraphs | AnchorKeepsItsPort, SettingsAgree, OnlyDemoSettersRaise, RegistersOfAdjacentRounds, StitchedInPlace, DrawnAsLabelled | 7.1 M |
| `receiver_gaps` | TunedReceiver | GapsPassedOver -- violated | |
| `swig_doc` | MCSwigDoc | GivesUpOnlyFor, EveryFunctionOnce, WordsInOrder | 78 k |

What they show, and why the bounds are enough:

- **parser_lossy.** Whatever two of three anchors lose, and whatever restarts, a
  snapshot has one number for all anchors but the first and a number that is not
  smaller for the first; it is of one sweep until the first anchor loses a frame
  or one starts over; frames are published in order and once, which is asked of every
  publication, of one that looks like the last one too; nothing is
  published while waiting. Three anchors are the smallest number with two
  followers, which is what "followers agree" needs; `RestartGap = 1` with numbers
  up to 2 lets the numbers of a second lap be both far and a little behind;
  `HistCap = 1` with inputs of two frames reaches the cap and the scan that finds
  a snapshot and no room (`SpinFull`). The first anchor is one of the lossy ones.
- **parser_lossless.** With nothing lost and all anchors starting over, no sweep
  is skipped, calls return and the wait ends. Inputs hold one frame at a time,
  as GNU Radio's default buffer (8191 items) is shorter than a frame (34593):
  this is what makes `NeverSpins` true. With larger buffers an input could bring
  two frames into a call that has room for one snapshot, and the loop would not
  end; `parser_lossy` reaches that loop.
- **anchor_stream.** Three steps of 25 ticks, words of four ticks, numbers modulo
  4, resets at any tick: small numbers that satisfy the same two assumptions as
  those of the sources, with all counters reaching their ends, several sequences,
  and a wrap of the numbers.
- **scan_long_loss.** Frames of 6 words, two of them markers. The capture starts
  anywhere but at the first marker, where the sample behind a frame would be the
  second. Up to two losses, each when the scan is in place, of 2 to 18 words; what
  a loss may not be is one word more than whole frames, for the same reason. The stream
  may go on anywhere, among the markers too. Every label is a number and larger than
  the last; a frame within which nothing was lost is one whole sweep; and no
  number is left out for good.
- **fx2_transfers.** Two channels, packets of four words, transfers a tick too
  long, fifos of seven, one packet in an endpoint: the receive fifo fills up in the
  middle of a sample and of a packet, and a packet sent just fits at the level
  (4) below which there is room. Samples come at any rate, commands and resets
  between any two rounds.
- **location.** One of two parts at a time, which share no state. The search: every
  response of eight bins; a gap of more than two bins
  ends the search, and clusters and gaps of every length lie across the end of
  the array. Two anchors, with calibration offsets outside and below the range.
  Then every function with values 0..3 on seven positions in a line, of which
  the outer two are too far away. The feed: buffers of two snapshots, so that every
  block is called for one or two while its neighbours are at any point of theirs; five
  snapshots on a ring of three sprites wrap it; messages of one to five numbers cut a
  position anywhere.
- **flow_graphs.** All eight scripts with every combination of their options; two
  values tell whether a setting follows its parameter, and two setters (one in the
  thread) can overlap at any step, also between the reading of an argument and the call.
  Recordings of each script that shares its boards with `rt_harmonia.py`. Decimations
  that factor into two halves, into halves only in one order, and not at all. The receiver
  with one subcarrier (five words a step), three steps, up to three words of filler in a
  row and seven words of calibration: the index passes the end in the middle of a step and
  goes on far behind it. Three rounds of the thread. Two scales on each axis of the
  oscilloscope put the cursors at both ends.
- **receiver_gaps.** The same receiver, alone, asked whether words of filler between two
  steps are passed over.
- **swig_doc.** Two headers and two classes, of which one is a block: enough for a
  make function of a block to be missing, in the wrong file, there twice, or behind a
  typedef of its name, and for the header of the block to be there twice. Every
  file in turn missing, not XML, or of another shape, members in every section;
  for one class every outline of sections and internal parts.

`CHECK_DEADLOCK FALSE` is set only where the model ends: the searches, which
terminate, and the feed after its last snapshot (`location`); `flow_graphs` and
`receiver_gaps`, when the program has stopped or died.

### Fairness

- `StreamParser!Fairness`: the thread of the block runs, and the sources go on
  sending. GNU Radio calls a block as long as it has input, and a receiver
  streams until it is stopped. The scan's branches exclude one another, so that
  one weak fairness condition for `Scan` is enough.
- `FrameScan!FairScanSpec`: samples keep coming and are scanned. No fairness for
  losses.
- `MCFx2!MCSpec`: both clocks run, the chain keeps strobing and not only
  strobing, the firmware loops for ever, the host reads what is in the endpoint.
  Nothing forces commands, so that a host that resets for ever is not excluded:
  `PacketsFlow` is conditional on reception staying enabled and out of reset.
- `MCLocation!MCSpec`: the loop of the descent runs within one call, in which nothing
  else happens; the threads of blocks run, and what is sent arrives. A socket that
  closes is not opened again by the page, and is not modelled.

### Findings

1. **The first anchor is never compared upwards**
   (`gr-fast-square/lib/stream_parser_impl.cc:129`, `sequence_num > d_hsn && ii > 0`).
   When the first anchor has lost a frame, it is accepted ahead of `d_hsn` and a
   snapshot of different sweeps is published, against the comment at line 149
   ("all data is aligned"). `parser_first_ahead` shows it in two anchors;
   `AlignedTillTroubleHolds` proves that, until an anchor starts over, it is the
   only way.
2. **The scan settles on any marker** (line 87). It tests one sample only. When
   that sample is a marker that is not the first, the scan stops there and from then
   on takes a marker for the sequence number, against the comment at line 83.
   `scan_short_loss` shows it for a loss of one sample. The proofs say when it
   cannot happen: when no capture starts at a marker other than the last, and no
   loss, modulo a frame, is of 1 to `Marks - 1` samples (`ScanMeetsFirstMarker`; 100
   of the 34593 lengths of the source are). For several losses that the scan has no time
   to recover between, their sum counts; these are not in the model.
3. **Clearing flags that were not read** (`dsp-fast-square/usrp_main.c:248`).
   `fpga_clear_flags` clears both flags; an overrun raised after line 244 has
   looked and before the pulse is cleared and never reported. With one direction
   in use nothing is lost (`NoOverrunLostRxOnly`, `NoUnderrunLostTxOnly`): the flag
   that led to the clearing has been recorded. `fx2_tx_underrun` shows the loss
   with underruns.
4. **Filler between two steps is not recognised**
   (`gr-fast-square/lib/freq_stitcher_impl.cc:73`). The comment at line 59 gives the
   format of the data, with filler between the data of one step and the next.
   `fast_square_rx.v` sends 0x8000 as the real part (line 160) and 0x0000 as the imaginary part
   (line 166), and `analyzeDemoData.m:47` looks for it there; line 73 asks for an imaginary
   part of -1, so that every word of filler between two steps is divided by the
   calibration and moves the index. `receiver_gaps` shows it at the first word. What is left
   is `StitchedInPlace`: the words of the first step of a sweep meet the first
   words of the calibration, as the filler at the start of a sweep is recognised.

### Observations

What the models of the scripts and tools do, because the code does, without a
statement of the repository that says otherwise; a reader of the runs will meet
them.

- `fast_square_bb_comb.py` and `fast_square_hs.py` with `--test` connect a stitcher
  that is commented out, and end there; `rt_harmonia.py` calls `tb.Wait` in the end,
  which does not exist, and with `--fromfile` and `--tofile` together uses boards it
  has not made. `fast_square_bb_comb.py` and `rt_harmonia.py` never set a sample rate.
- `fast_square_demo.py` kept the setters of the script it was made from: those for
  sample rate, frequency, antenna and lock state stop at the first widget that is
  not there, after the parameter has been set (`OnlyDemoSettersRaise`).
- `mrfm_fft.py` without `-f` calls a setter with None; a decimation that has no two
  halves leaves the script without one, and it ends.
- `fast_square_rx.v` sends 11 words a step where the comments of `freq_stitcher` speak of
  4. The index, which also counts filler (finding 4), goes far past the end of the
  calibration before it is compared. After a reset in the middle of a sweep the stitcher
  may go on from where it was (`StitchedInPlace` promises the place only when no sweep is
  cut short and no sum looks like filler).
- `set_lo_locked_probe` of `fast_square_fft.py:269` reads the attribute before it calls
  `set_value` with it, and both the window's thread and the thread that reads the sensor
  can be in it: the widget may then show the older of two values, until the next round of
  the thread. `SettingsAgree` excepts the state of the oscillator after such a meeting.
- `fast_square_hs.py:158-161` has the default serial numbers of the two boards the other
  way round from `rt_harmonia.py:217-219` and `fast_square_bb_comb.py:174-176`. Its
  recordings, played back by `rt_harmonia.py --fromfile`, bring the anchors in the order
  2, 3, 0, 1. `AnchorKeepsItsPort` is about live boards and the recordings of the other
  two scripts.
- Records queued when the sample rate changes are drawn with the new rate; in XY
  mode the vertical scale is not used; a `frame_decim` of 0 shows one record only.
- In `doxyxml` a malformed file of a header ends the program, one of a class costs
  its entries only; only errors of the XML parser are caught at all; members of one
  name in several sections are reduced to the first; operators and text in lists, bold
  or parameter descriptions have no entry or are left out of it; a class in a namespace
  gets the entry of a class and is only not taken for a block.

## 4. Proofs

All parameters are arbitrary values that satisfy the assumptions named in the
modules; each module with assumptions is also run, so that TLC evaluates them.

**StreamParserProofs** (`ParserAssumption`). `ScanInv` = types, `FollowersAgree`,
and what the scan knows of the anchors it has passed: when not waiting, each has a
frame whose number is `hsn`, or at least that for the first (`PassedAccepted`);
when waiting, each has started over and some anchor has not (`PassedRestarted`).
`FollowersAgree` is not inductive alone: at `Publish` it needs
`PassedAccepted` for all anchors, and that no snapshot is published while waiting
follows from `PassedRestarted`, as the scan cannot be past all anchors when one
has not started over. Theorems: `FollowersAlwaysAgree`, `QuietWhileWaitingHolds`,
`HistoryAlwaysBounded`, and `NeverSpinsHolds` for `MaxChunk = 1`, from `LengthInv`:
between calls some history is empty, which is why the last call returned; that
anchor has no more frames in a call than an input holds, and every publication
uses one of them.

Alignment: `AlignInv` adds that no anchor has started over, that the
numbers along each stream increase (`Ordered`), without gap for the first (`Gapless`);
that `hsn` is the number of a frame some anchor has sent and that anchor has none
older (`Owned`), so that no restart is ever seen; and `NoLead`: the first anchor is
ahead of `hsn` by one at most, and only when all others are too. A step that keeps
out of trouble keeps `AlignInv`, so `~trouble => AlignInv` is inductive: this is
`AlignedTillTroubleHolds`, for two or more anchors. `AlignedWhenFirstGapless` is its
case without restarts and with a lossless first anchor.

Order: `OrderInv` says of each anchor that its frames in history and input follow
one another in the stream, that what it sends next comes behind them, and that all
are later than the frame last published. `PublishInOrderHolds` needs no condition:
losses and restarts only take frames out. It is said of every step that publishes,
also when the snapshot equals the last one: each frame of it was still ahead of the last
one published of its anchor.

Completeness: `SkipInv` holds when no frame is missing. Either all anchors are at
the same frame, the successor of the one last published, and `hsn` has its number
or the one before (`InStep`), so that no frame is ever stale and nothing is dropped
while waiting; or the numbers have started over and a lap is too short for the block
to see it (`LastSeq <= RestartGap`), and only frames of the last number are
published ever after (`OnlyLastNumber`). In both a publication is of the next frame
or of another lap (`NoSweepSkippedHolds`). The second case keeps the property only because that
speaks of one lap: the block then drops whole laps but for their last frame.

**AnchorStreamProofs** (`ControllerAssumption`, `CombAssumption`,
`AlignAssumption`, `SliceAssumption`). `OnScheduleAlways` (of `OnSchedule`, which only
the proof states, as each of the other properties rests on it) and
`SequenceTicksHolds` from bounds on the counters state by state; `SliceRecordedAlways`
and `FramedHolds` (`Spec => Stream!Spec`, the refinement of `FramedStream`) from the
equation `age = sent * Decim + data_out_counter` of `ChainInv`, with lemmas on
multiples: the length of a step and the decimation meet only in the assumptions.

**FrameScanProofs** (`FramedAssumption`, `ScanAssumption`). `ScanInv` numbers the words
of the stream without end. The history is at most two pieces: `k` words from before the
last loss, and behind them words that follow one another as if the first of all had
been number `h`. As long as more than a frame of the first piece is left, the scan is in
place in it; when the word behind a frame is of the second, its position is that of
`h` plus a frame and one, and `h`, modulo a frame, is not in 1 .. `Marks - 1`
(`Holds`). That is what `ScanMeetsFirstMarker` gives at a start and at a loss, and what
popping a word keeps, because the scan stops when `h` comes round to 0. So no marker
but the first is ever taken for the one behind a frame, for any number of losses
(`LabelIsHeaderHolds`, `WholeSweepHolds`). `LabelsIncreaseHolds` also needs that a loss
is of less than half the range of the numbers (`LossesShort`; of the source, 2^31 sweeps), as larger ones
look like a step back. Both hypotheses are about the constants `StartAt` and `LossLen`;
the run's constants satisfy them, and `scan_short_loss` is what happens when the
first does not hold.

**Fx2Proofs**, receiving (`RxBufferAssumption`, `Fx2Assumption`). `TypeInv` adds to the
types that a packet under way has room in the endpoint. `WriteInv` relates the phase, the last
word written and the channel registers (`ContinuousHolds`). `PacketInv` relates the
count of a read to what the fifo holds and to the reset, which takes effect between
two packets because a step of the firmware is longer than a tick
(`PacketWordsHolds`). `RaiseInv` follows a flag from the edge that raises it to the
host: between the clearing pulse and the next look at the pin it is gone, and what
is gone has been recorded (`NoOverrunLostHolds`, `NoFalseOverrunHolds`).

Sending (`TxBufferAssumption`, `Fx2TransmitAssumption`). `SyncInv`: the
reset has left both registers of the synchroniser before a packet is written.
`WordInv`: the word behind the pin and the count of the packet are those of the tick.
`SpaceInv`: what was seen as room is still there, for as many words as are to come.
`OrderInv`: the words in the fifo follow one another, the first comes after the
last one taken and the last before the next one to be written, and the phase is
the channel after that of the last one. None is inductive alone: a word that is
dropped for lack of room, or written with the wrong count, would break `OrderInv`.
Theorems: `TakenAsSentHolds` and `NoUnderrunLostHolds`, the latter from an invariant on the
flag like that of the other direction.

**HarmonicSearchProofs** (`ToaAssumption`, `GridAssumption`). The loop of `extractToAs`
is a function of the number of its rounds (`LoopTo`). `SearchState` is what it is after k
rounds: the last bin above the threshold, and how many below have followed it; so it
stops at the one bin that ends the cluster of the peak (`SearchFindsEnd`, `OneEnd`),
and the loop over a turned response sees the same values from a turned peak
(`TurnedResult`). `FindsEndOfClusterHolds`, `DelayShiftsToaHolds` and
`DifferencesOfToasHold` then follow from `ToaInv`, which says of every moment which
anchors have their time and which their difference, up to a whole turn.
`LocalMinimumHolds`: `best_error` is the error of the position at hand, or
infinite at the start; the last round compares it with every neighbour.

**FlowGraphProofs**, the scripts (`DecimAssumption`, `ScriptAssumption`). The
properties do not follow from what `FlowGraphApp` does with a list of steps, but
from what the lists have in common. `Rules` says that, of a script and its options:
the attributes that hold values are kept first, and settings are taken from these
alone (`KeepsFirst`); a setter passes on the value of its own attribute, to
everything that was made or set from it, unless it also calls what the script does
not have (`SettersCall`, `SettersTell`, `Doomed`); nothing is made from an attribute that
another one follows (`FollowersShow`); a setting that is computed once is of an
attribute that no setter changes (`SetsStay`); what a setter calls is there and has the
method, but for most setters of `fast_square_demo.py` (`SettersAdmitted`); a thread
starts when what its setter calls is made, and the constructor calls nothing after that
(`ThreadsLate`); the blocks that know an
anchor by its number are in `rt_harmonia.py` alone (`StagesAnchor`). The first half is about any script that keeps
the rules. `AppInv` = where the constructor is (`MakingInv`), what exists and is
connected, of the steps done (`MadeInv`, `WireInv`), what no setter touches
(`KeptInv`), what the second thread and the main thread are in the middle of
(`ThreadInv`, `ProbeInv`, `RunInv`, `TuneInv`), what a thread has read for a call (`ArgInv`:
the parameter's value, unless it is the oscillator's state and both threads are in its
setters), which setters have raised (`RaiseInv`), and,
for every setting taken from an attribute, that it has its value, or that a step to
come in one of the threads will give it, or that the main thread is about to raise
(`ShownInv`, `AgreeInv`). `SettingsAgree`, which speaks of moments when nothing is under
way, is not inductive without the last: the thread reads the sensor at any time, also
while a setter or the constructor is half done.

The second half shows of each of the eight scripts that it keeps the rules
(`TxRules`, `FftRules`, `DemoRules`, `BoardRules`, `HarmoniaRules`, `MrfmRules`), from a plan of
the classes it makes and the settings it shows, to which every piece of its list
keeps (`Planned`, `RulesFromPlan`); for `mrfm_fft.py` with a lemma on the search for two
factors, which gives back the decimation it was asked for or none at all
(`DecimationIs`). Theorems: `SettingsAgreeHolds`, `OnlyDemoSettersRaiseHolds`.

`AnchorKeepsItsPortHolds` needs the wiring itself: a flow graph that runs has exactly
the connections of its list (`AnchorsRun`, from `MadeInv` and `WireInv`), one goes
into each input (`BackFrom`), and four steps back from input i of any of the four
blocks is anchor i of the live boards or tape i (`OriginsAre`), which `rt_harmonia.py` and
`fast_square_bb_comb.py`, with the serial numbers they ask for, fill from anchor i
(`RecordedIs`).

The receiver (`ReceiverAssumption`). `RegistersHold`: the registers already
written are of this round, the others of the one before, and a latched picture is
one of these. `StitchedHolds`: while no sweep is spoilt, the stitcher waits for a sweep when
one starts, and in the first step its index is the number of words of data sent, state by
state; later it is at least that, as filler may add to it, so that by the end of the sweep,
which has more words of data than the calibration, the index is past the end. The filler
at the start of the next sweep is recognised, and ends the one before.

**DisplayProofs**, the page (`PipelineAssumption`, `MessageAssumption`,
`RingAssumption`). `FeedInv` = types (which say that no block is ahead of the one before
it), `TagInv` (the tags of item k, for every item written, carry what was computed
from snapshot k, converted once), and for some t, `ShownInv`: the ring shows the last of
t positions, and the numbers left over in the page, followed by those on their way,
are the numbers of the positions from t + 1 to the last one located. Neither a
message cut in the middle of a position nor a call for several items disturbs the
third, because of the second (`ShowsLatestHolds`). The oscilloscope
(`ScopeAssumption`): `DrawnHolds`, from `LabelInv`: the labels are
those of cursor and mode, and the buttons of the vertical range are enabled only
while its cursor counts. Without the last conjunct a press of a button would set
the label of a mode that is not in use.

**NumberLemmas.** The library's theorems of induction take an operator as parameter,
which none of the provers can instantiate. `SetInduction` states induction for a
set of numbers and is proved from the pigeonhole theorem for finite sets; loops and
recursive functions are then reasoned about through the set of those n for which
a function that computes the first n rounds exists, or has the property at hand.

Only model-checked:

- all liveness (`CallReturns`, `WaitEnds`, `AllSweepsCut`, `PacketsFlow`, `Ends`,
  `EverySnapshotShown`), which is outside the reach of the prover, as is ENABLED;
- the documentation tools (`GivesUpOnlyFor`, `EveryFunctionOnce`, `WordsInOrder`): they speak of what is read from a tree and written from it again,
  and the readers are recursive operators over trees, of which the prover can
  neither read the definitions nor do the induction.

## 5. Plan

Done, in this order: StreamParser and its proofs; the anchor (controller, chain,
framing) and its proofs; the scan of samples; the receive path of FX2 and FPGA;
the searches; tags and page; the scripts, the tuned receiver and the oscilloscope
with proofs; the documentation tools; the transmit path; proofs for both
directions.

Then the scan of samples under several losses, the searches, the page, order
and completeness of what `stream_parser` publishes, and the scripts were proved.

Next:

1. To prove: the parts of the documentation tools that do not depend on how a
   file is read (`GivesUpOnlyFor`), after a split of `DoxygenText`.
2. Sample values in `FrameScan`: data that looks like a marker; the two streams
   of a board that lose the same samples; losses closer together than a frame.
3. Responses that are zero everywhere in `ToaSearch`.
4. `inband_lib`: channel RAM and demultiplexer first, then command reader and
   packet builder; `serial_io` (which strobes on every fall of its enable, reads and
   writes cut short included) and `atr_delay`.

## 6. Not modelled

- Signal processing (cordic, CIC, combs, estimates, windows, phase corrections,
  `tdoa4`, which nothing calls): formulas over real numbers; their results are
  model values or sets of dependencies.
- Scaling of samples to floats and back (`getSequenceNum`): done half in a driver
  that is not in the repository, with rounding TLC cannot express.
- USB, I2C and SPI transfers, loading of the FPGA, LEDs: register accesses through
  a library that is not in the repository.
- The FPGA of the tag: a free-running generator.
- Drawing of the scene, offline Matlab and C prototypes, build files, vendored
  libraries, the export half of the generated documentation classes.
- In-band signalling and control registers: planned, see above.
