----------------------------- MODULE ScopeSink ------------------------------
(* scopesink_cir.py: the oscilloscope display of a flow graph.  The block    *)
(* that triggers puts records into a queue of two, a thread posts one in     *)
(* frame_decim of them as an event of the window, and the window, which also *)
(* handles the controls, draws them.  Samples are left out: records are      *)
(* counted, and AsFound is the range found from their samples.               *)
EXTENDS Naturals

CONSTANTS
  Channels,        \* inputs of the sink, of which a complex one has two each
  FrameDecim,      \* one record in FrameDecim is drawn
  VScales,         \* length of v_scale_list
  TimeBases,       \* length of time_base_list
  MaxEvents        \* events waiting for the window (unbounded in wx)

ASSUME ScopeAssumption == {FrameDecim, VScales, TimeBases, MaxEvents} \subseteq Nat \ {0}

VARIABLES
  guts,            \* of the block: sample rate, trigger channel and mode
  msgq,            \* records that wait for the thread
  iscan,           \* records until the next one is drawn
  events,          \* records that wait for the window
  info,            \* win_info: rate, running, xy, autorange, marker, cursors v and t
  labels,          \* what the labels show: [v, t]
  enabled,         \* the buttons of the vertical range are enabled
  y_range,         \* of the graph: "none" before the first record, then "found"
  resetting,       \* the window is between the two parts of set_sample_rate
  drawn            \* the last record drawn, and how: [kind, x, y] (history)

scopeVars ==
  <<guts, msgq, iscan, events, info, labels, enabled, y_range, resetting, drawn>>

AsFound == 0        \* in the place of a scale of the list
QueueLength == 2
Rates == {1, 2}
Markers == {"line", "plus", "dot"}
Modes == {"Free", "Auto", "Norm"}

----------------------------------------------------------------------------
(* The controls of the window *)

\* A cursor of gru starts in the middle of its list, unless it is told where,
\* and stays where it is at either end.
Middle(length) == length \div 2 + 1
Prev(cursor) == IF cursor = 1 THEN 1 ELSE cursor - 1
NextOf(cursor, length) == IF cursor = length THEN length ELSE cursor + 1

\* Between two events the window is idle.
Idle == ~resetting
OfWindow == <<guts, msgq, iscan, events, y_range, resetting, drawn>>

UpdateVLabel == labels' = [labels EXCEPT !.v = info'.v]
DecrVScale ==
  /\ Idle /\ enabled
  /\ info' = [info EXCEPT !.v = Prev(@)] /\ UpdateVLabel
  /\ UNCHANGED <<OfWindow, enabled>>
IncrVScale ==
  /\ Idle /\ enabled
  /\ info' = [info EXCEPT !.v = NextOf(@, VScales)] /\ UpdateVLabel
  /\ UNCHANGED <<OfWindow, enabled>>

UpdateTimeLabel == labels' = [labels EXCEPT !.t = info'.t]
DecrTimebase ==
  /\ Idle
  /\ info' = [info EXCEPT !.t = Prev(@)] /\ UpdateTimeLabel
  /\ UNCHANGED <<OfWindow, enabled>>
IncrTimebase ==
  /\ Idle
  /\ info' = [info EXCEPT !.t = NextOf(@, TimeBases)] /\ UpdateTimeLabel
  /\ UNCHANGED <<OfWindow, enabled>>

\* The scale nearest to the range found, whichever it is.
AutorangeOnKeepsButtons ==                         \* what a bug would do
  /\ info' = [info EXCEPT !.autorange = TRUE]
  /\ labels' = [labels EXCEPT !.v = AsFound] /\ UNCHANGED enabled
AutorangeOn ==
  /\ info' = [info EXCEPT !.autorange = TRUE]
  /\ labels' = [labels EXCEPT !.v = AsFound] /\ enabled' = FALSE
AutorangeOff ==
  /\ \E v \in IF y_range = "found" THEN 1 .. VScales ELSE {info.v} :
       info' = [info EXCEPT !.autorange = FALSE, !.v = v]
  /\ UpdateVLabel /\ enabled' = TRUE
AutorangeBox ==
  /\ Idle
  /\ IF info.autorange THEN AutorangeOff ELSE AutorangeOn
  /\ UNCHANGED OfWindow

SetMarker ==
  /\ Idle
  /\ \E s \in Markers \ {info.marker} : info' = [info EXCEPT !.marker = s]
  /\ UNCHANGED <<OfWindow, labels, enabled>>
XyChoice ==
  /\ Idle
  /\ info' = [info EXCEPT !.xy = ~@]
  /\ UNCHANGED <<OfWindow, labels, enabled>>
RunStop ==
  /\ Idle
  /\ info' = [info EXCEPT !.running = ~@]
  /\ UNCHANGED <<OfWindow, labels, enabled>>
TriggerChoice ==
  /\ Idle
  /\ \/ \E ch \in 0 .. 3 : guts' = [guts EXCEPT !.channel = ch]
     \/ \E mode \in Modes : guts' = [guts EXCEPT !.mode = mode]
  /\ UNCHANGED <<msgq, iscan, events, info, labels, enabled, y_range, resetting, drawn>>

\* set_sample_rate: the block first, and the window after it.
SetGutsRate ==
  /\ Idle
  /\ \E r \in Rates \ {guts.rate} : guts' = [guts EXCEPT !.rate = r]
  /\ resetting' = TRUE
  /\ UNCHANGED <<msgq, iscan, events, info, labels, enabled, y_range, drawn>>
SetWindowRate ==
  /\ resetting
  /\ info' = [info EXCEPT !.rate = guts.rate] /\ resetting' = FALSE
  /\ UNCHANGED <<guts, msgq, iscan, events, labels, enabled, y_range, drawn>>

----------------------------------------------------------------------------
(* Records *)

\* The block drops a record when the queue is full.
Trigger ==
  /\ msgq < QueueLength
  /\ msgq' = msgq + 1
  /\ UNCHANGED <<guts, iscan, events, info, labels, enabled, y_range, resetting, drawn>>

\* input_watcher.handle_msg
HandleMsg ==
  /\ msgq > 0 /\ msgq' = msgq - 1
  /\ IF iscan = 0
     THEN /\ events < MaxEvents
          /\ events' = events + 1 /\ iscan' = FrameDecim - 1
     ELSE /\ iscan' = iscan - 1
          /\ UNCHANGED events
  /\ UNCHANGED <<guts, info, labels, enabled, y_range, resetting, drawn>>

TakeEvent ==
  /\ Idle /\ events > 0 /\ events' = events - 1
  /\ UNCHANGED <<guts, msgq, iscan, info, labels, enabled, resetting>>

DropEvent ==
  /\ TakeEvent
  /\ info.running => info.xy /\ Channels < 2
  /\ UNCHANGED <<y_range, drawn>>

\* Draw with the range there is, then look for a new one.
FormatData ==
  /\ TakeEvent
  /\ info.running /\ ~info.xy
  /\ drawn' = [kind |-> "time", x |-> info.t, y |-> IF info.autorange THEN AsFound ELSE info.v]
  /\ y_range' = "found"
FormatXyData ==
  /\ TakeEvent
  /\ info.running /\ info.xy /\ Channels >= 2
  /\ drawn' = [kind |-> "xy", x |-> AsFound, y |-> AsFound]
  /\ y_range' = "found"

----------------------------------------------------------------------------
ScopeInit ==
  /\ guts = [rate |-> 1, channel |-> 0, mode |-> "Auto"]
  /\ msgq = 0 /\ events = 0 /\ iscan = 0
  /\ \E auto \in BOOLEAN, xy \in BOOLEAN, v \in 1 .. VScales, t \in 1 .. TimeBases :
       /\ info = [rate |-> 1, running |-> TRUE, xy |-> xy, autorange |-> auto,
                  marker |-> "line", v |-> IF auto THEN Middle(VScales) ELSE v, t |-> t]
       /\ labels = [v |-> IF auto THEN AsFound ELSE v, t |-> t]
       /\ enabled = ~auto
  /\ y_range = "none" /\ resetting = FALSE /\ drawn = [kind |-> "nothing"]

ScopeNext ==
  \/ DecrVScale \/ IncrVScale \/ DecrTimebase \/ IncrTimebase
  \/ AutorangeBox \/ SetMarker \/ XyChoice \/ RunStop \/ TriggerChoice
  \/ SetGutsRate \/ SetWindowRate
  \/ Trigger \/ HandleMsg
  \/ DropEvent \/ FormatData \/ FormatXyData

ScopeSpec == ScopeInit /\ [][ScopeNext]_scopeVars

(* A record drawn against time is drawn at the scales that the labels show
   when it is drawn, which every control of either scale has to keep true. *)
DrawnAsLabelled ==
  [][drawn' # drawn /\ drawn'.kind = "time" =>
       drawn'.x = labels.t /\ drawn'.y = labels.v]_scopeVars
=============================================================================
