---------------------------- MODULE FlowGraphApp ----------------------------
(* A flow graph script at work.  The constructor runs step by step in the    *)
(* main thread and may start a second one; the graph is checked and started; *)
(* then the window calls a setter for each change of a widget, and the       *)
(* setters that no widget calls may be called all the same.  An exception in *)
(* the constructor ends the program; in a setter, only the setter.           *)
EXTENDS FlowGraphScripts, SequencesExt

CONSTANTS
  Scripts,        \* the scripts to run
  Values          \* values a parameter is set to, with 0 the first one

ASSUME ScriptAssumption ==
  Scripts \subseteq {"demo", "fft", "bb_comb", "hs", "rt_harmonia", "tx", "cal_tx", "mrfm_fft"}

VARIABLES
  script,         \* the script, and its options
  o,
  phase,          \* "making", "running", "stopped" or "died"
  pars,           \* attributes that hold values
  objs,           \* attributes that hold objects: [cls, of, val, file]
  edges,          \* connections made
  todo,           \* steps left of what the main thread does
  arg,            \* <<the value it has read for its next step>>, or <<>>
  calling,        \* the setter it is in
  probing,        \* steps left of what the second thread does
  probeArg,       \* and the value that it has read
  threads,        \* the second thread has been started
  raised,         \* setters in which an exception was raised (history)
  overlapped      \* the last to enter the setters of both threads found the
                  \* other one in them (history)

appVars ==
  <<script, o, phase, pars, objs, edges, todo, arg, calling, probing, probeArg, threads,
    raised, overlapped>>

Options ==
  [test : BOOLEAN, tofile : BOOLEAN, fromfile : BOOLEAN, freq : BOOLEAN, decim : Decims]
\* A script has some of the options; the others do not matter.
OptionsOf(s) ==
  LET own == [demo |-> {"test", "tofile"}, fft |-> {"tofile"}, bb_comb |-> {"test", "tofile"},
              hs |-> {"test", "tofile"}, rt_harmonia |-> {"tofile", "fromfile"},
              tx |-> {}, cal_tx |-> {}, mrfm_fft |-> {"freq", "decim"}]
      first == CHOOSE d \in Decims : TRUE
  IN {c \in Options :
        /\ \A n \in {"test", "tofile", "fromfile", "freq"} \ own[s] : ~c[n]
        /\ "decim" \notin own[s] => c.decim = first}

Construct(s, c) ==
  CASE s = "demo" -> Demo(c) [] s = "fft" -> Fft(c) [] s = "bb_comb" -> BbComb(c)
    [] s = "hs" -> Hs(c) [] s = "rt_harmonia" -> Harmonia(c) [] s = "tx" -> Tx
    [] s = "cal_tx" -> CalTx [] s = "mrfm_fft" -> Mrfm(c)

Setters(s) ==
  CASE s = "demo" -> DemoSetters [] s = "fft" -> FftSetters [] s = "tx" -> TxSetters
    [] s = "cal_tx" -> CalTxSetters [] s = "mrfm_fft" -> MrfmSetters
    [] s \in {"bb_comb", "hs", "rt_harmonia"} -> <<>>

\* Setters that set a parameter and then what follows it.
Follower(s) ==
  CASE s \in {"demo", "fft"} -> [param_samp_rate |-> "samp_rate", param_freq |-> "freq",
                                 param_gain |-> "gain", chan0_lo_locked |-> "lo_locked_probe"]
    [] s \in {"tx", "cal_tx"} -> [gain |-> "tun_gain", freq |-> "tun_freq"]
    [] OTHER -> <<>>

\* What a bug would do: the attribute is set after what is made from it.
SetterLate(s, p, v) ==
  IF p \in DOMAIN Follower(s)
  THEN LET q == Follower(s)[p] IN <<Put(p, v)>> \o Setters(s)[q] \o <<Pass(p, q)>>
  ELSE Setters(s)[p] \o <<Put(p, v)>>
Setter(s, p, v) ==
  IF p \in DOMAIN Follower(s)
  THEN LET q == Follower(s)[p] IN <<Put(p, v), Pass(p, q)>> \o Setters(s)[q]
  ELSE <<Put(p, v)>> \o Setters(s)[p]

\* The parameters whose setters both threads call.
OfOscillator == {"chan0_lo_locked", "lo_locked_probe"}

----------------------------------------------------------------------------
(* The classes: numbers of inputs and of outputs that may be connected, and  *)
(* what can be set                                                           *)

Class(ins, outs, sets) == [ins |-> ins, outs |-> outs, sets |-> sets]
Widget == Class({0}, {0}, {"value"})
UsrpSets == {"samp_rate", "center_freq", "gain", "antenna", "bandwidth"}

FreqStitcher == Class({1}, 0 .. 1, {})
StreamParser == Class({4}, 0 .. 4, {})
FourToFour == Class({4}, {4}, {})
HarmonicLocalizer == Class({4}, {0}, {})
Classes ==
  [text_box |-> Widget, slider |-> Widget, radio_buttons |-> Widget, static_text |-> Widget,
   field |-> Widget,
   usrp_source |-> Class({0}, {2}, UsrpSets), usrp_source_1 |-> Class({0}, {1}, UsrpSets),
   usrp_sink |-> Class({1}, {0}, UsrpSets),
   mrfm_source_c |-> Class({0}, {1}, {"center_freq", "decim", "tune"}),
   subdev |-> Class({0}, {0}, {"gain"}),
   file_source |-> Class({0}, {1}, {}), file_sink |-> Class({1}, {0}, {}),
   throttle |-> Class({1}, {1}, {"sample_rate"}), one_to_one |-> Class({1}, {1}, {}),
   multiply_vcc |-> Class(1 .. 3, {1}, {}), deinterleave |-> Class({1}, 1 .. 2, {}),
   sig_source_c |-> Class({0}, {1}, {"sampling_freq", "amplitude"}),
   fft_sink_c |-> Class({1}, {0}, {"sample_rate", "baseband_freq"}),
   waterfall_sink_c |-> Class({1}, {0}, {"sample_rate", "baseband_freq"}),
   scope_sink_c |-> Class({1}, {0}, {"sample_rate"}), ws_sink_c |-> Class({0}, {0}, {}),
   freq_stitcher |-> FreqStitcher, stream_parser |-> StreamParser,
   four_to_four |-> FourToFour, harmonic_localizer |-> HarmonicLocalizer]

----------------------------------------------------------------------------
(* One step *)

\* AttributeError of a missing attribute or method; an input connected twice.
Raises(s) ==
  \/ s.do = "raise"
  \/ /\ s.do \in {"call", "set"}
     /\ \/ s.attr \notin DOMAIN objs
        \/ s.setting \notin Classes[objs[s.attr].cls].sets
  \/ /\ s.do = "wire"
     /\ \/ ~({s.from, s.to} \subseteq DOMAIN objs)
        \/ \E e \in edges : e.to = s.to /\ e.in = s.in

\* f with the values of new, where it has any.
Updated(f, new) ==
  [x \in DOMAIN f \union DOMAIN new |-> IF x \in DOMAIN new THEN new[x] ELSE f[x]]
At(x, v) == [y \in {x} |-> v]

SetTo(a, setting, par, v) ==
  objs' = [objs EXCEPT ![a] = [cls |-> @.cls, file |-> @.file,
                               of |-> Updated(@.of, At(setting, par)),
                               val |-> Updated(@.val, At(setting, v))]]

\* The argument of a call, and the value that is passed on, is an attribute,
\* which is read first: another thread may run before the value is used.
Reads(s, value) == s.do \in {"call", "pass"} /\ value = <<>>
Perform(s, value) ==
  \/ /\ Reads(s, value)
     /\ UNCHANGED <<pars, objs, edges, threads>>
  \/ /\ s.do = "keep"
     /\ pars' = Updated(pars, s.values)
     /\ UNCHANGED <<objs, edges, threads>>
  \/ /\ s.do = "pass" /\ ~Reads(s, value)
     /\ pars' = Updated(pars, At(s.attr, value[1]))
     /\ UNCHANGED <<objs, edges, threads>>
  \/ /\ s.do = "make"
     /\ objs' = Updated(objs, At(s.attr,
                  [cls |-> s.cls, file |-> s.file, of |-> s.of,
                   val |-> [k \in DOMAIN s.of |-> pars[s.of[k]]]]))
     /\ UNCHANGED <<pars, edges, threads>>
  \/ /\ s.do = "call" /\ ~Reads(s, value)
     /\ SetTo(s.attr, s.setting, s.par, value[1])
     /\ UNCHANGED <<pars, edges, threads>>
  \/ /\ s.do = "set"
     /\ SetTo(s.attr, s.setting, s.par, s.val)
     /\ UNCHANGED <<pars, edges, threads>>
  \/ /\ s.do = "wire"
     /\ edges' = edges \union {s}
     /\ UNCHANGED <<pars, objs, threads>>
  \/ /\ s.do = "thread"
     /\ threads' = TRUE
     /\ UNCHANGED <<pars, objs, edges>>
\* The value held, and the steps left, after that.
Held(s, value) == IF Reads(s, value) THEN <<pars[s.par]>> ELSE <<>>
Left(steps, value) == IF Reads(Head(steps), value) THEN steps ELSE Tail(steps)

----------------------------------------------------------------------------
(* The program *)

AppInit ==
  /\ script \in Scripts
  /\ o \in OptionsOf(script)
  /\ phase = "making" /\ todo = Construct(script, o)
  /\ pars = <<>> /\ objs = <<>> /\ edges = {}
  /\ calling = "nothing" /\ probing = <<>> /\ threads = FALSE /\ raised = {}
  /\ arg = <<>> /\ probeArg = <<>> /\ overlapped = FALSE

MakeNext ==
  /\ phase = "making" /\ todo # <<>>
  /\ IF Raises(Head(todo))
     THEN /\ phase' = "died" /\ todo' = <<>> /\ arg' = <<>>
          /\ UNCHANGED <<pars, objs, edges, threads>>
     ELSE /\ Perform(Head(todo), arg)
          /\ todo' = Left(todo, arg) /\ arg' = Held(Head(todo), arg)
          /\ UNCHANGED phase
  /\ UNCHANGED <<script, o, calling, probing, probeArg, raised, overlapped>>

\* GNU Radio's check of the ports of every block that is connected at all.
Ins(b) == {e.in : e \in {d \in edges : d.to = b}}
Outs(b) == {e.out : e \in {d \in edges : d.from = b}}
Whole(b) ==
  /\ \E n \in Classes[objs[b].cls].ins : Ins(b) = 0 .. n - 1
  /\ \E n \in Classes[objs[b].cls].outs : Outs(b) = 0 .. n - 1
Connected == {e.from : e \in edges} \union {e.to : e \in edges}

Start ==
  /\ phase = "making" /\ todo = <<>>
  /\ phase' = IF \A b \in Connected : Whole(b) THEN "running" ELSE "died"
  /\ UNCHANGED <<script, o, pars, objs, edges, todo, arg, calling, probing, probeArg, threads,
                 raised, overlapped>>

\* A change of a widget, or another call of a setter.
CallSetter(p, v) ==
  /\ phase = "running" /\ todo = <<>>
  /\ p \in DOMAIN Setters(script) \union DOMAIN Follower(script)
  /\ todo' = Setter(script, p, v) /\ calling' = p
  /\ overlapped' = IF p \in OfOscillator THEN probing # <<>> ELSE overlapped
  /\ UNCHANGED <<script, o, phase, pars, objs, edges, arg, probing, probeArg, threads, raised>>

\* mrfm_fft.py shows a frequency only when the board has been tuned to it.
TuneFails ==
  /\ phase = "running" /\ script = "mrfm_fft" /\ todo # <<>>
  /\ calling = "freq" /\ Head(todo).do = "keep"
  /\ todo' = <<>> /\ calling' = "nothing"
  /\ UNCHANGED <<script, o, phase, pars, objs, edges, arg, probing, probeArg, threads, raised,
                 overlapped>>

InSetter ==
  /\ phase = "running" /\ todo # <<>>
  /\ IF Raises(Head(todo))
     THEN /\ todo' = <<>> /\ arg' = <<>> /\ raised' = raised \union {calling}
          /\ UNCHANGED <<pars, objs, edges, threads>>
     ELSE /\ Perform(Head(todo), arg)
          /\ todo' = Left(todo, arg) /\ arg' = Held(Head(todo), arg)
          /\ UNCHANGED raised
  /\ calling' = IF todo' = <<>> THEN "nothing" ELSE calling
  /\ UNCHANGED <<script, o, phase, probing, probeArg, overlapped>>

\* The thread of fast_square_fft.py: a round with the state of the oscillator,
\* and the steps of its setter, in which an AttributeError is passed over.
ReadSensor(v) ==
  /\ threads /\ phase \in {"making", "running"} /\ probing = <<>>
  /\ probing' = Setter(script, "chan0_lo_locked", v)
  /\ overlapped' = (calling \in OfOscillator)
  /\ UNCHANGED <<script, o, phase, pars, objs, edges, todo, arg, calling, probeArg, threads,
                 raised>>
InProbe ==
  /\ threads /\ phase \in {"making", "running"} /\ probing # <<>>
  /\ IF Raises(Head(probing))
     THEN /\ probing' = <<>> /\ probeArg' = <<>>
          /\ UNCHANGED <<pars, objs, edges, threads>>
     ELSE /\ Perform(Head(probing), probeArg)
          /\ probing' = Left(probing, probeArg) /\ probeArg' = Held(Head(probing), probeArg)
  /\ UNCHANGED <<script, o, phase, todo, arg, calling, raised, overlapped>>

\* The window is closed, or the time is up; the top block of rt_harmonia.py has
\* no method Wait, which it calls in the end.
Finish ==
  /\ phase = "running" /\ todo = <<>>
  /\ phase' = IF script = "rt_harmonia" THEN "died" ELSE "stopped"
  /\ UNCHANGED <<script, o, pars, objs, edges, todo, arg, calling, probing, probeArg, threads,
                 raised, overlapped>>

AppNext ==
  \/ MakeNext
  \/ Start
  \/ \E p \in DOMAIN pars, v \in Values : CallSetter(p, v)
  \/ TuneFails
  \/ InSetter
  \/ \E v \in Values : ReadSensor(v)
  \/ InProbe
  \/ Finish

----------------------------------------------------------------------------
(* Properties *)

\* The boards that the scripts for two boards ask for, by serial number:
\* fast_square_hs.py has them the other way round.
Addresses(s) ==
  IF s = "hs" THEN [source |-> "7R24X9U1", source2 |-> "9R24X1U1"]
  ELSE [source |-> "9R24X1U1", source2 |-> "7R24X9U1"]
\* Anchors are numbered by the board and the channel they are connected to.
Anchor(serial, port) == (IF serial = "9R24X1U1" THEN 0 ELSE 2) + port
\* The anchors in a file, when script s has written it.
Recorded(s, f) ==
  LET steps == Range(Construct(s, [CHOOSE c \in OptionsOf(s) : TRUE EXCEPT
                       !.tofile = TRUE, !.test = FALSE, !.fromfile = FALSE]))
      sinks == {m.attr : m \in {n \in steps : n.do = "make" /\ n.file = f}}
  IN {Anchor(Addresses(s)[w.from], w.out) :
        w \in {x \in steps : x.do = "wire" /\ x.to \in sinks}}
\* A source is at most four connections behind an input of the localizer, and
\* an input that is further from one has no origin.
Hops == 4
\* Where what comes into some inputs has come from, n connections back.
Back(ports) ==
  {<<e.from, e.out>> : e \in {d \in edges : <<d.to, d.in>> \in ports}}
Behind(b, port) ==
  LET behind[n \in 0 .. Hops] == IF n = 0 THEN {<<b, port>>} ELSE Back(behind[n - 1])
  IN behind
Brought(a, port, recorder) ==
  CASE objs[a].cls = "usrp_source" -> {Anchor(Addresses(script)[a], port)}
    [] objs[a].cls = "file_source" -> Recorded(recorder, objs[a].file)
    [] OTHER -> {}
Origins(b, port, recorder) ==
  UNION {Brought(p[1], p[2], recorder) : p \in UNION {Behind(b, port)[n] : n \in 1 .. Hops}}

(* Anchor i is input i of every block from the parser to the localizer, which
   know the place and the calibration of an anchor by its number: live, and
   from files that rt_harmonia.py or fast_square_bb_comb.py has written.  Files
   of fast_square_hs.py bring the anchors of the other board. *)
AnchorKeepsItsPort ==
  phase = "running" =>
    \A recorder \in {"rt_harmonia", "bb_comb"} :
      \A b \in {"parser", "prf_est", "h_extract", "h_locate"} \intersect DOMAIN objs :
        \A port \in 0 .. 3 : Origins(b, port, recorder) = {port}

(* When no thread is in a setter and none has raised an exception, everything
   that was made or set from a parameter has its value: the widgets that show
   it, the displays and the board.  The state of the oscillator is excepted
   after both threads have been in its setter at once, until one of them has
   entered it alone. *)
SettingsAgree ==
  phase = "running" /\ todo = <<>> /\ probing = <<>> /\ raised = {} =>
    \A a \in DOMAIN objs : \A k \in DOMAIN objs[a].of :
      \/ objs[a].val[k] = pars[objs[a].of[k]]
      \/ overlapped /\ objs[a].of[k] \in OfOscillator

(* A setter stops half-way only in fast_square_demo.py: those whose widgets
   the script does not have, and the gain of a source that is a file. *)
OnlyDemoSettersRaise ==
  raised # {} =>
    /\ script = "demo"
    /\ raised \intersect {"gain", "param_gain"} # {} => o.test
=============================================================================
