----------------------------- MODULE WsLocation -----------------------------
(***************************************************************************)
(* wsLocation, the object of the web page that shows the latest positions: *)
(* it collects the numbers it receives, cuts them into positions of three, *)
(* and moves the next of a ring of sprites to each; a sprite is the        *)
(* smaller the older its position is.                                      *)
(***************************************************************************)
EXTENDS Integers, Sequences

CONSTANTS
  estimateHistory,  \* sprites (60)
  NoPosition        \* the random place a sprite is at when it is not shown

ASSUME RingAssumption == estimateHistory \in Nat \ {0}

VARIABLES
  historic_data,  \* numbers received and not used
  ring            \* estimateCur, estimateValid, and the sprites

wsVars == <<historic_data, ring>>

Sprite == 0 .. estimateHistory - 1

-----------------------------------------------------------------------------
(* The sizes, in units of 1/estimateHistory, when sprite cur has moved: the
   ii-th sprite behind it is of size ii. *)
Shrink(cur, valid, scale) ==
  [e \in Sprite |->
     LET ii == (e - cur - 1) % estimateHistory
     IN  IF estimateHistory - ii <= valid THEN ii ELSE scale[e]]

updateLocation(r, position) ==
  LET cur == (r.cur + 1) % estimateHistory
      valid == IF r.valid < estimateHistory THEN r.valid + 1 ELSE r.valid
  IN  [cur |-> cur, valid |-> valid, place |-> [r.place EXCEPT ![cur] = position],
       scale |-> Shrink(cur, valid, r.scale)]

(* The i-th position in the numbers d *)
Triple(d, i) == SubSeq(d, 3 * i - 2, 3 * i)

(* The ring r after the first n positions in the numbers d were shown. *)
Shown(r, d, n) ==
  LET shown[i \in 0 .. n] ==
        IF i = 0 THEN r ELSE updateLocation(shown[i - 1], Triple(d, i))
  IN  shown[n]

\* mutant: what does not make a position is forgotten
onMessageForgets(incoming) ==
  LET data == historic_data \o incoming
  IN  /\ ring' = Shown(ring, data, Len(data) \div 3)
      /\ historic_data' = <<>>

(* As many positions as the numbers make are shown; the rest is kept. *)
onMessage(incoming) ==
  LET data == historic_data \o incoming
      n == Len(data) \div 3
  IN  /\ ring' = Shown(ring, data, n)
      /\ historic_data' = SubSeq(data, 3 * n + 1, Len(data))

WsInit ==
  /\ historic_data = <<>>
  /\ ring = [cur |-> 0, valid |-> 0, place |-> [e \in Sprite |-> NoPosition],
             scale |-> [e \in Sprite |-> 0]]
=============================================================================
