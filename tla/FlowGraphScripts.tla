-------------------------- MODULE FlowGraphScripts --------------------------
(* The flow graph scripts, as what they do: a constructor and a setter are   *)
(* sequences of steps on the attributes of the program.  Values are numbers  *)
(* that tell one setting from another; parameters that are constants of a    *)
(* script, and the layout of its window, are left out.                       *)
EXTENDS Naturals, Sequences, FiniteSetsExt

CONSTANTS
  Decims,          \* decimations that may be asked of mrfm_fft.py
  MaxFactor        \* one more than each half of the decimation: 257

ASSUME DecimAssumption ==
  /\ Decims \subseteq Nat \ {0} /\ Decims # {}
  /\ MaxFactor \in 2 .. 257

\* Steps: keep values as attributes, make an object with settings taken from
\* attributes (and perhaps a file), call a set_ method with the value of an
\* attribute or with another one that stands for it, pass the value of one
\* attribute to the setter of another, connect two ports, start a thread, raise
\* an exception.
Keep(values) == [do |-> "keep", values |-> values]
Make(a, cls, of) == [do |-> "make", attr |-> a, cls |-> cls, of |-> of, file |-> "none"]
File(a, cls, f) == [do |-> "make", attr |-> a, cls |-> cls, of |-> <<>>, file |-> f]
Call(a, setting, par) == [do |-> "call", attr |-> a, setting |-> setting, par |-> par]
Pass(p, a) == [do |-> "pass", par |-> p, attr |-> a]
Set(a, setting, par, v) ==
  [do |-> "set", attr |-> a, setting |-> setting, par |-> par, val |-> v]
Wire(a, i, b, j) == [do |-> "wire", from |-> a, out |-> i, to |-> b, in |-> j]
Thread == [do |-> "thread"]
Raise == [do |-> "raise"]

First(pars) == Keep([p \in pars |-> 0])
Put(p, v) == Keep([q \in {p} |-> v])
Chain(names) == [n \in 1 .. Len(names) - 1 |-> Wire(names[n], 0, names[n + 1], 0)]
When(condition, steps) == IF condition THEN steps ELSE <<>>

\* Two widgets for one parameter.
TextBox(p, box) == <<Make(box, "text_box", [value |-> p])>>
BoxAndSlider(p, box, slider) ==
  <<Make(box, "text_box", [value |-> p]), Make(slider, "slider", [value |-> p])>>

Variables ==
  {"param_samp_rate", "param_freq", "param_gain", "address", "chan0_lo_locked",
   "samp_rate", "lo_locked_probe", "gain", "freq", "ant"}

----------------------------------------------------------------------------
(* fast_square_demo.py *)

DemoVariables == <<First(Variables)>>
DemoGain == BoxAndSlider("gain", "_gain_text_box", "_gain_slider")
FromTestFiles ==
  <<File("source_pre", "file_source", "test.dat"),
    Make("source", "throttle", [sample_rate |-> "samp_rate"]),
    Wire("source_pre", 0, "source", 0),
    File("source_freqs_pre", "file_source", "test_freqs.dat"),
    Make("source_freqs", "throttle", [sample_rate |-> "samp_rate"]),
    Wire("source_freqs_pre", 0, "source_freqs", 0)>>
DemoSource(o) ==
  IF o.test THEN FromTestFiles
  ELSE <<Make("source", "usrp_source", <<>>), Call("source", "center_freq", "freq"),
         Call("source", "gain", "gain"), Call("source", "antenna", "ant"),
         Call("source", "bandwidth", "samp_rate"), Call("source", "samp_rate", "samp_rate")>>
DemoSinks ==
  <<Make("scopesink_0", "fft_sink_c", [sample_rate |-> "samp_rate"]),
    Make("scopesink_1", "scope_sink_c", [sample_rate |-> "samp_rate"]),
    Make("scopesink_2", "scope_sink_c", [sample_rate |-> "samp_rate"])>>
DemoBlocks ==
  <<Make("multiply_0", "multiply_vcc", <<>>), Make("multiply_1", "multiply_vcc", <<>>),
    Make("carrier_est", "sig_source_c", [sampling_freq |-> "samp_rate"]),
    Make("subcarrier_est", "sig_source_c", [sampling_freq |-> "samp_rate"]),
    Make("carrier_tracking_filter", "one_to_one", <<>>),
    Make("carrier_tracking", "one_to_one", <<>>),
    Make("carrier_tracking_conj", "one_to_one", <<>>),
    Make("subcarrier_tracking_filter", "one_to_one", <<>>),
    Make("subcarrier_tracking", "one_to_one", <<>>),
    File("stitcher", "freq_stitcher", "cal.dat")>>
DemoWiring(o) ==
  (IF o.test THEN <<Wire("source_freqs", 0, "stitcher", 0)>>
   ELSE When(o.tofile,
          <<File("logfile0", "file_sink", "usrp_chan0.dat"), Wire("source", 0, "logfile0", 0),
            File("logfile1", "file_sink", "usrp_chan1.dat"), Wire("source", 1, "logfile1", 0)>>)
        \o <<Wire("source", 1, "stitcher", 0)>>)
  \o <<Wire("source", 0, "multiply_0", 0), Wire("carrier_est", 0, "multiply_0", 1)>>
  \o Chain(<<"multiply_0", "carrier_tracking_filter", "carrier_tracking", "carrier_tracking_conj",
             "multiply_1">>)
  \o <<Wire("source", 0, "multiply_1", 1), Wire("subcarrier_est", 0, "multiply_1", 2)>>
  \o Chain(<<"multiply_1", "subcarrier_tracking_filter", "subcarrier_tracking", "scopesink_1">>)
  \o <<Wire("multiply_1", 0, "scopesink_0", 0)>>
Demo(o) ==
  DemoVariables \o DemoGain \o DemoSource(o) \o DemoSinks \o DemoBlocks \o DemoWiring(o)

\* The script was made from another one and kept its setters, not its widgets.
DemoSetters ==
  [samp_rate |-> <<Call("wxgui_scopesink2_0", "sample_rate", "samp_rate"),
                   Call("fft", "sample_rate", "samp_rate"),
                   Call("wxgui_waterfallsink2_0", "sample_rate", "samp_rate"),
                   Call("_samp_rate_text_box", "value", "samp_rate"),
                   Call("source", "samp_rate", "samp_rate"),
                   Call("source", "bandwidth", "samp_rate")>>,
   lo_locked_probe |-> <<Call("_lo_locked_probe_static_text", "value", "lo_locked_probe")>>,
   gain |-> <<Call("_gain_slider", "value", "gain"), Call("_gain_text_box", "value", "gain"),
              Call("source", "gain", "gain")>>,
   freq |-> <<Call("fft", "baseband_freq", "freq"), Call("_freq_slider", "value", "freq"),
              Call("_freq_text_box", "value", "freq"), Call("source", "center_freq", "freq")>>,
   ant |-> <<Call("source", "antenna", "ant"), Call("_ant_chooser", "value", "ant")>>]

----------------------------------------------------------------------------
(* fast_square_fft.py *)

FftVariables == <<First(Variables)>>
\* What a bug would do: take over the setters without one of the widgets.
FftWidgetsFewer ==
  BoxAndSlider("gain", "_gain_text_box", "_gain_slider")
  \o BoxAndSlider("freq", "_freq_text_box", "_freq_slider")
  \o <<Make("_ant_chooser", "radio_buttons", [value |-> "ant"])>>
FftWidgets ==
  TextBox("samp_rate", "_samp_rate_text_box")
  \o BoxAndSlider("gain", "_gain_text_box", "_gain_slider")
  \o BoxAndSlider("freq", "_freq_text_box", "_freq_slider")
  \o <<Make("_ant_chooser", "radio_buttons", [value |-> "ant"])>>
FftSource(o) ==
  <<Make("uhd_usrp_source_0", "usrp_source_1", <<>>),
    Call("uhd_usrp_source_0", "samp_rate", "samp_rate"),
    Call("uhd_usrp_source_0", "center_freq", "freq"),
    Call("uhd_usrp_source_0", "gain", "gain"),
    Call("uhd_usrp_source_0", "antenna", "ant"),
    Call("uhd_usrp_source_0", "bandwidth", "samp_rate")>>
  \o When(o.tofile, <<File("logfile0", "file_sink", "usrp_fft_iq.dat"),
                      Wire("uhd_usrp_source_0", 0, "logfile0", 0)>>)
FftSinks ==
  <<Make("wxgui_waterfallsink2_0", "waterfall_sink_c", [sample_rate |-> "samp_rate"]),
    Make("wxgui_scopesink2_0", "scope_sink_c", [sample_rate |-> "samp_rate"]),
    Make("_lo_locked_probe_static_text", "static_text", [value |-> "lo_locked_probe"]),
    Make("fft", "fft_sink_c", [sample_rate |-> "samp_rate"])>>
FftWiring ==
  <<Wire("uhd_usrp_source_0", 0, "wxgui_scopesink2_0", 0),
    Wire("uhd_usrp_source_0", 0, "wxgui_waterfallsink2_0", 0),
    Wire("uhd_usrp_source_0", 0, "fft", 0)>>
Fft(o) == FftVariables \o FftWidgets \o FftSource(o) \o FftSinks \o <<Thread>> \o FftWiring

FftSetters ==
  [samp_rate |-> <<Call("wxgui_scopesink2_0", "sample_rate", "samp_rate"),
                   Call("fft", "sample_rate", "samp_rate"),
                   Call("wxgui_waterfallsink2_0", "sample_rate", "samp_rate"),
                   Call("_samp_rate_text_box", "value", "samp_rate"),
                   Call("uhd_usrp_source_0", "samp_rate", "samp_rate"),
                   Call("uhd_usrp_source_0", "bandwidth", "samp_rate")>>,
   lo_locked_probe |-> <<Call("_lo_locked_probe_static_text", "value", "lo_locked_probe")>>,
   gain |-> <<Call("_gain_slider", "value", "gain"), Call("_gain_text_box", "value", "gain"),
              Call("uhd_usrp_source_0", "gain", "gain")>>,
   freq |-> <<Call("_freq_slider", "value", "freq"), Call("_freq_text_box", "value", "freq"),
              Call("uhd_usrp_source_0", "center_freq", "freq")>>,
   ant |-> <<Call("uhd_usrp_source_0", "antenna", "ant"), Call("_ant_chooser", "value", "ant")>>]

----------------------------------------------------------------------------
(* rt_harmonia.py, fast_square_bb_comb.py and fast_square_hs.py: two boards of *)
(* two channels each.                                                         *)

HarmoniaVariables == <<First(Variables \union {"address2"})>>
TwoBoards ==
  <<Make("source", "usrp_source", <<>>), Call("source", "gain", "gain"),
    Make("source2", "usrp_source", <<>>), Call("source2", "gain", "gain")>>
ToFiles ==
  <<File("logfile0", "file_sink", "usrp_chan0.dat"), Wire("source", 0, "logfile0", 0),
    File("logfile1", "file_sink", "usrp_chan1.dat"), Wire("source", 1, "logfile1", 0),
    File("logfile2", "file_sink", "usrp_chan2.dat"), Wire("source2", 0, "logfile2", 0),
    File("logfile3", "file_sink", "usrp_chan3.dat"), Wire("source2", 1, "logfile3", 0)>>
FromFiles ==
  <<File("logfile0", "file_source", "usrp_chan0.dat"),
    File("logfile1", "file_source", "usrp_chan1.dat"),
    File("logfile2", "file_source", "usrp_chan2.dat"),
    File("logfile3", "file_source", "usrp_chan3.dat"),
    Wire("logfile0", 0, "parser", 0), Wire("logfile1", 0, "parser", 1),
    Wire("logfile2", 0, "parser", 2), Wire("logfile3", 0, "parser", 3)>>
ToParser ==
  <<Wire("source", 0, "parser", 0), Wire("source", 1, "parser", 1),
    Wire("source2", 0, "parser", 2), Wire("source2", 1, "parser", 3)>>
\* What a bug would do: exchange the boards.
FourWiresCrossed(a, b) == [i \in 1 .. 4 |-> Wire(a, i - 1, b, (i + 1) % 4)]
\* Anchor for anchor, from one block to the next.
FourWires(a, b) == [i \in 1 .. 4 |-> Wire(a, i - 1, b, i - 1)]
Chained ==
  <<Make("prf_est", "four_to_four", <<>>)>> \o FourWires("parser", "prf_est")
  \o <<Make("h_extract", "four_to_four", <<>>)>> \o FourWires("prf_est", "h_extract")
  \o <<Make("h_locate", "harmonic_localizer", <<>>)>> \o FourWires("h_extract", "h_locate")
  \o <<Make("ws_port", "ws_sink_c", <<>>)>>
HarmoniaWiring(o) ==
  IF o.tofile
  THEN ToFiles \o <<Make("parser", "stream_parser", <<>>)>> \o ToParser
  ELSE <<Make("parser", "stream_parser", <<>>)>>
       \o (IF o.fromfile THEN FromFiles ELSE ToParser) \o Chained
Harmonia(o) == HarmoniaVariables \o When(~o.fromfile, TwoBoards) \o HarmoniaWiring(o)

\* The stitcher is not made any more, and still connected.
FromTestToStitcher == FromTestFiles \o <<Wire("source_freqs", 0, "stitcher", 0)>>
BbCombSources == TwoBoards
BbComb(o) ==
  HarmoniaVariables
  \o (IF o.test THEN FromTestToStitcher ELSE BbCombSources \o When(o.tofile, ToFiles))
HsSources ==
  <<Make("source", "usrp_source", <<>>), Call("source", "samp_rate", "samp_rate"),
    Make("source2", "usrp_source", <<>>), Call("source2", "samp_rate", "samp_rate")>>
HsWiring(o) == When(o.tofile, ToFiles)
Hs(o) ==
  HarmoniaVariables
  \o (IF o.test THEN FromTestToStitcher ELSE HsSources \o HsWiring(o))

----------------------------------------------------------------------------
(* fast_square_tx.py and fast_square_cal_tx.py, which differ in their bands *)

TxWidgets ==
  BoxAndSlider("tun_gain", "_tun_gain_text_box", "_tun_gain_slider")
  \o BoxAndSlider("tun_freq", "_tun_freq_text_box", "_tun_freq_slider")
  \o BoxAndSlider("ampl", "_ampl_text_box", "_ampl_slider")
TxBlocks ==
  <<Make("uhd_usrp_sink_0", "usrp_sink", <<>>),
    Call("uhd_usrp_sink_0", "samp_rate", "samp_rate"),
    Call("uhd_usrp_sink_0", "center_freq", "tun_freq"),
    Call("uhd_usrp_sink_0", "gain", "tun_gain"),
    Make("analog_sig_source_x_0", "sig_source_c",
         [sampling_freq |-> "samp_rate", amplitude |-> "ampl"]),
    Wire("analog_sig_source_x_0", 0, "uhd_usrp_sink_0", 0)>>
Tx == <<First({"samp_rate", "gain", "freq", "address", "tun_gain", "tun_freq", "ampl"})>>
      \o TxWidgets \o TxBlocks
TxSetters ==
  [samp_rate |-> <<Call("analog_sig_source_x_0", "sampling_freq", "samp_rate"),
                   Call("uhd_usrp_sink_0", "samp_rate", "samp_rate")>>,
   tun_gain |-> <<Call("_tun_gain_slider", "value", "tun_gain"),
                  Call("_tun_gain_text_box", "value", "tun_gain"),
                  Call("uhd_usrp_sink_0", "gain", "tun_gain")>>,
   tun_freq |-> <<Call("_tun_freq_slider", "value", "tun_freq"),
                  Call("_tun_freq_text_box", "value", "tun_freq"),
                  Call("uhd_usrp_sink_0", "center_freq", "tun_freq")>>,
   ampl |-> <<Call("_ampl_slider", "value", "ampl"), Call("_ampl_text_box", "value", "ampl"),
              Call("analog_sig_source_x_0", "amplitude", "ampl")>>]
CalTx == Tx
CalTxSetters == TxSetters

----------------------------------------------------------------------------
(* mrfm.py and mrfm_fft.py *)

\* set_decim_rate: the prime factors of the rate, smallest first, are dealt to
\* the two halves in turn, or to the other one when one would grow too large.
\* A rate for which this fails has no halves.
NoHalves == <<>>
Factors(rate) == {i \in 2 .. MaxFactor - 1 : rate % i = 0}
Deal(s) ==
  LET i == Min(Factors(s.rate))
      next == [s EXCEPT !.rate = s.rate \div i, !.turn = 1 - s.turn]
  IN IF s.rate <= 1 \/ Factors(s.rate) = {} THEN s
     ELSE IF s.a * i < MaxFactor /\ (s.turn = 1 \/ s.b * i >= MaxFactor)
          THEN [next EXCEPT !.a = s.a * i]
     ELSE IF s.b * i < MaxFactor THEN [next EXCEPT !.b = s.b * i]
     ELSE s
\* A half is 256 at most, and a round doubles one of them at least.
MaxRounds == 16
Dealt(rate) ==
  LET dealt[n \in 0 .. MaxRounds] ==
        IF n = 0 THEN [rate |-> rate, turn |-> 1, a |-> 1, b |-> 1] ELSE Deal(dealt[n - 1])
  IN dealt[MaxRounds]
halves(rate) ==
  IF Dealt(rate).rate <= 1 THEN <<Dealt(rate).a, Dealt(rate).b>> ELSE NoHalves
Settable(rate) == halves(rate) # NoHalves

\* The register holds each half less one in 8 bits.
decimation(rate) ==
  LET h == halves(rate)
      register == (h[1] - 1) * 256 + (h[2] - 1)
  IN (register \div 256 + 1) * ((register % 256) + 1)

MrfmWidgets ==
  <<Make("form_freq", "field", <<>>), Make("form_gain", "field", <<>>),
    Make("form_decim", "field", <<>>)>>
MrfmSetters ==
  [freq |-> <<Call("u", "tune", "freq"), Call("form_freq", "value", "freq")>>,
   gain |-> <<Call("form_gain", "value", "gain"), Call("subdev", "gain", "gain")>>]
\* Without a frequency the first set_center_freq gets None, and without a
\* decimation the rate shown is a quotient by None.  The register that
\* set_center_freq writes stays as it is when the board is tuned later.
Mrfm(o) ==
  <<Keep([freq |-> 0, gain |-> 0, first_freq |-> 0, decim |-> o.decim]),
    Make("u", "mrfm_source_c", <<>>)>>
  \o When(Settable(o.decim), <<Set("u", "decim", "decim", decimation(o.decim))>>)
  \o (IF o.freq THEN <<Call("u", "center_freq", "first_freq")>> ELSE <<Raise>>)
  \o <<Make("subdev", "subdev", <<>>), Make("deint", "deinterleave", <<>>),
       Wire("u", 0, "deint", 0), Make("scope1", "fft_sink_c", [sample_rate |-> "decim"]),
       Make("scope2", "fft_sink_c", [sample_rate |-> "decim"]),
       Wire("deint", 0, "scope1", 0), Wire("deint", 1, "scope2", 0)>>
  \o MrfmWidgets \o MrfmSetters.gain \o MrfmSetters.freq
  \o (IF Settable(o.decim) THEN <<Set("form_decim", "value", "decim", decimation(o.decim))>>
      ELSE <<Raise>>)
=============================================================================
