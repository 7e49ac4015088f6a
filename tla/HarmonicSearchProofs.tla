------------------------ MODULE HarmonicSearchProofs ------------------------
(***************************************************************************)
(* The searches of harmonic_localizer.  The search for a time of arrival   *)
(* ends at the end of the cluster of the peak, a delay of the response     *)
(* delays it by as much, and what goes into the search for the position    *)
(* are the differences of the times found: for any number of bins and      *)
(* anchors, any response with a peak and any calibration.  The position    *)
(* that tdoa4_slow reports is a local minimum of the error, for any grid,  *)
(* any set of steps with a step of length zero, and any error function.    *)
(***************************************************************************)
EXTENDS HarmonicSearch, NumberLemmas

-----------------------------------------------------------------------------
(* The bins at a distance from the peak *)

LEMMA BinsPositive ==
  Bins \in Nat \ {0} /\ Bins \div 4 \in Nat /\ Bins = 4 * (Bins \div 4)
BY ToaAssumption

LEMMA PeakBin ==
  ASSUME NEW r \in Responses
  PROVE  /\ r \in [Bin -> {Below, Above, Peak}]
         /\ max_mag_idx(r) \in Bin /\ r[max_mag_idx(r)] = Peak
         /\ \A b \in Bin : r[b] = Peak <=> b = max_mag_idx(r)
<1>1. PICK p \in Bin : \A b \in Bin : r[b] = Peak <=> b = p
  BY DEF Responses
<1>2. max_mag_idx(r) \in Bin /\ r[max_mag_idx(r)] = Peak
  BY <1>1 DEF max_mag_idx
<1> QED
  BY <1>1, <1>2 DEF Responses

LEMMA AtTypes ==
  ASSUME NEW r \in Responses, NEW d \in Int
  PROVE  /\ BinAt(r, d) \in Bin
         /\ Around(BinAt(r, d)) = BinAt(r, d + 1)
         /\ BinAt(r, 0) = max_mag_idx(r)
<1> DEFINE p == max_mag_idx(r)
<1>1. p \in 0 .. Bins - 1 /\ Bins \in Nat \ {0}
  BY PeakBin, BinsPositive DEF Bin
<1> HIDE DEF p
<1> DEFINE n == p + d
<1>2. n % Bins \in 0 .. Bins - 1 /\ n \in Int
  BY <1>1, DivMod
<1>3. p % Bins = p
  BY <1>1, ModOfSmall
<1>4. ((n % Bins) + 1) % Bins = (n + 1) % Bins
  BY <1>1, <1>2, ModPlus, 1 \in Int
<1>5. CASE (n % Bins) + 1 >= Bins
  <2>1. (n % Bins) + 1 = Bins * 1 + 0
    BY <1>1, <1>2, <1>5
  <2>2. ((n % Bins) + 1) % Bins = 0
    BY <1>1, <2>1, ModIs, 1 \in Int, 0 \in 0 .. Bins - 1
  <2> QED
    BY <1>1, <1>2, <1>3, <1>4, <1>5, <2>2 DEF BinAt, Around, Bin, p
<1>6. CASE ~((n % Bins) + 1 >= Bins)
  <2>1. (n % Bins) + 1 \in 0 .. Bins - 1
    BY <1>1, <1>2, <1>6
  <2>2. ((n % Bins) + 1) % Bins = (n % Bins) + 1
    BY <1>1, <2>1, ModOfSmall
  <2> QED
    BY <1>1, <1>2, <1>3, <1>4, <1>6, <2>2 DEF BinAt, Around, Bin, p
<1> QED
  BY <1>5, <1>6

-----------------------------------------------------------------------------
(* The loop of the search.  It is defined by recursion on the number of     *)
(* rounds, so there is first to be shown that there is such a function.     *)

Start(r) == [cur |-> max_mag_idx(r), cand |-> max_mag_idx(r), below |-> 0]

LoopStep(r, s) == IF s.below > Bins \div 4 THEN s ELSE Look(r, s)

LoopTo(r, n, f) ==
  f = [j \in 0 .. n |-> IF j = 0 THEN Start(r) ELSE LoopStep(r, f[j - 1])]

LEMMA LoopExists ==
  ASSUME NEW r
  PROVE  \A n \in Nat : \E f : LoopTo(r, n, f)
<1> DEFINE S == {n \in Nat : \E f : LoopTo(r, n, f)}
<1>1. 0 \in S
  <2>1. LoopTo(r, 0, [j \in 0 .. 0 |-> Start(r)])
    BY DEF LoopTo
  <2> QED
    BY <2>1
<1>2. ASSUME NEW n \in Nat, n \in S PROVE n + 1 \in S
  <2>1. PICK f : LoopTo(r, n, f)
    BY <1>2
  <2> DEFINE g == [j \in 0 .. n + 1 |-> IF j = n + 1 THEN LoopStep(r, f[n]) ELSE f[j]]
  <2>2. \A j \in 0 .. n : f[j] = IF j = 0 THEN Start(r) ELSE LoopStep(r, f[j - 1])
    BY <2>1 DEF LoopTo
  <2>3. \A j \in 0 .. n + 1 : g[j] = IF j = 0 THEN Start(r) ELSE LoopStep(r, g[j - 1])
    BY <2>2
  <2>4. LoopTo(r, n + 1, g)
    BY <2>3 DEF LoopTo
  <2> QED
    BY <2>4
<1> HIDE DEF S
<1>3. \A n \in Nat : n \in S
  BY <1>1, <1>2, SetInduction
<1> QED
  BY <1>3 DEF S

LEMMA LoopOfSearch ==
  ASSUME NEW r
  PROVE  \E f : LoopTo(r, Bins, f) /\ cand_toa_idx(r) = f[Bins].cand
<1> DEFINE f == CHOOSE f : LoopTo(r, Bins, f)
<1>1. LoopTo(r, Bins, f)
  BY LoopExists, BinsPositive
<1>2. cand_toa_idx(r) = f[Bins].cand
  BY DEF cand_toa_idx, LoopTo, LoopStep, Start
<1> QED
  BY <1>1, <1>2

-----------------------------------------------------------------------------
(* What the loop has found after k rounds: c is the distance of the last bin *)
(* that is not below the threshold, and it belongs to the cluster.           *)

Quarter == Bins \div 4

Gap(k, c) == IF k = 0 THEN 0 ELSE k - 1 - c

SearchState(r, k, c) ==
  [cur |-> BinAt(r, k), cand |-> BinAt(r, c), below |-> Gap(k, c)]

Searched(r, k, c) ==
  /\ c < k \/ (k = 0 /\ c = 0)
  /\ Gap(k, c) <= Quarter + 1
  /\ InCluster(r, c)
  /\ \A d \in c + 1 .. k - 1 : r[BinAt(r, d)] = Below

LEMMA SearchStarts ==
  ASSUME NEW r \in Responses
  PROVE  Start(r) = SearchState(r, 0, 0) /\ Searched(r, 0, 0)
<1>1. Gap(0, 0) = 0 /\ 0 <= Quarter + 1
  BY BinsPositive DEF Gap, Quarter
<1>2. BinAt(r, 0) = max_mag_idx(r) /\ r[BinAt(r, 0)] = Peak
  BY AtTypes, PeakBin, 0 \in Int
<1>3. Start(r) = SearchState(r, 0, 0)
  BY <1>1, <1>2 DEF Start, SearchState
<1>4. InCluster(r, 0)
  BY <1>2 DEF InCluster, Below, Peak
<1> QED
  BY <1>1, <1>3, <1>4 DEF Searched

LEMMA SearchContinues ==
  ASSUME NEW r \in Responses, NEW k \in Nat, NEW c \in Nat,
         Searched(r, k, c), Gap(k, c) <= Quarter
  PROVE  \E e \in Nat : /\ Look(r, SearchState(r, k, c)) = SearchState(r, k + 1, e)
                        /\ Searched(r, k + 1, e)
<1> DEFINE q == Quarter
<1>1. q \in Nat /\ Gap(k, c) \in Int
  BY BinsPositive DEF Quarter, Gap
<1>2. Around(BinAt(r, k)) = BinAt(r, k + 1)
  BY AtTypes, k \in Int
<1> HIDE DEF q
<1>3. CASE r[BinAt(r, k)] = Below
  <2>1. k # 0
    BY <1>3, AtTypes, PeakBin, 0 \in Int DEF Below, Peak
  <2>2. Gap(k + 1, c) = Gap(k, c) + 1 /\ Gap(k + 1, c) <= q + 1 /\ c < k
    BY <1>1, <2>1 DEF Gap, q, Searched
  <2>3. Look(r, SearchState(r, k, c)) = SearchState(r, k + 1, c)
    BY <1>2, <1>3, <2>2 DEF Look, SearchState
  <2>4. \A d \in c + 1 .. k : r[BinAt(r, d)] = Below
    BY <1>3 DEF Searched
  <2>5. Searched(r, k + 1, c)
    BY <2>2, <2>4 DEF Searched, q
  <2> QED
    BY <2>3, <2>5
<1>4. CASE r[BinAt(r, k)] # Below
  <2>1. Gap(k + 1, k) = 0 /\ 0 <= q + 1
    BY <1>1 DEF Gap, q
  <2>2. Look(r, SearchState(r, k, c)) = SearchState(r, k + 1, k)
    BY <1>2, <1>4, <2>1 DEF Look, SearchState
  <2>3. InCluster(r, k)
    <3>1. ASSUME NEW from \in 1 .. k, from + q < k
          PROVE  \E m \in from .. from + q : r[BinAt(r, m)] # Below
      <4>1. c < k /\ r[BinAt(r, c)] # Below /\ k - 1 - c <= q
        BY <1>1, <3>1 DEF Searched, InCluster, Gap, q
      <4>2. CASE from + q < c
        BY <1>1, <4>1, <4>2 DEF Searched, InCluster, q, Quarter
      <4>3. CASE ~(from + q < c)
        <5>1. c \in from .. from + q
          BY <1>1, <3>1, <4>1, <4>3
        <5> QED
          BY <4>1, <5>1
      <4> QED
        BY <4>2, <4>3
    <3> QED
      BY <1>4, <3>1 DEF InCluster, q, Quarter
  <2>4. Searched(r, k + 1, k)
    BY <2>1, <2>3 DEF Searched, q
  <2> QED
    BY <2>2, <2>4
<1> QED
  BY <1>3, <1>4

(* After j rounds, or after fewer when the gap has become too large. *)
LEMMA SearchInvariant ==
  ASSUME NEW r \in Responses, NEW f, LoopTo(r, Bins, f)
  PROVE  \A j \in 0 .. Bins : \E k, c \in Nat :
           /\ f[j] = SearchState(r, k, c) /\ Searched(r, k, c)
           /\ k <= j /\ (Gap(k, c) <= Quarter => k = j)
<1> DEFINE P(j) == \E k, c \in Nat :
                     /\ f[j] = SearchState(r, k, c) /\ Searched(r, k, c)
                     /\ k <= j /\ (Gap(k, c) <= Quarter => k = j)
           S == {j \in Nat : j <= Bins => P(j)}
<1>0. Bins \in Nat /\ \A j \in 0 .. Bins : f[j] = IF j = 0 THEN Start(r)
                                                  ELSE LoopStep(r, f[j - 1])
  BY BinsPositive DEF LoopTo
<1>1. 0 \in S
  <2>1. f[0] = Start(r)
    BY <1>0
  <2>2. P(0)
    BY <2>1, SearchStarts
  <2> QED
    BY <2>2
<1>2. ASSUME NEW j \in Nat, j \in S PROVE j + 1 \in S
  <2> SUFFICES ASSUME j + 1 <= Bins PROVE P(j + 1)
    OBVIOUS
  <2>1. P(j)
    BY <1>0, <1>2
  <2>2. PICK k, c \in Nat : /\ f[j] = SearchState(r, k, c) /\ Searched(r, k, c)
                            /\ k <= j /\ (Gap(k, c) <= Quarter => k = j)
    BY <2>1
  <2>3. f[j + 1] = LoopStep(r, f[j])
    BY <1>0
  <2>4. Quarter \in Nat /\ Gap(k, c) \in Int
    BY BinsPositive DEF Quarter, Gap
  <2>5. CASE Gap(k, c) > Quarter
    <3>1. f[j + 1] = f[j]
      BY <2>2, <2>3, <2>5 DEF LoopStep, SearchState, Quarter
    <3> QED
      BY <2>2, <2>4, <2>5, <3>1
  <2>6. CASE Gap(k, c) <= Quarter
    <3>1. ~(f[j].below > Bins \div 4)
      BY <2>2, <2>4, <2>6 DEF SearchState, Quarter
    <3>2. f[j + 1] = Look(r, SearchState(r, k, c)) /\ k = j
      BY <2>2, <2>3, <2>6, <3>1 DEF LoopStep
    <3>3. PICK e \in Nat : /\ Look(r, SearchState(r, k, c)) = SearchState(r, k + 1, e)
                           /\ Searched(r, k + 1, e)
      BY <2>2, <2>6, SearchContinues
    <3> QED
      BY <3>2, <3>3
  <2> QED
    BY <2>4, <2>5, <2>6
<1> HIDE DEF S, P
<1>3. \A j \in Nat : j \in S
  BY <1>1, <1>2, SetInduction
<1>4. \A j \in 0 .. Bins : P(j)
  BY <1>0, <1>3 DEF S
<1> QED
  BY <1>4 DEF P

EndOfCluster(r, d) ==
  InCluster(r, d) /\ \A e \in d + 1 .. Bins - 1 : ~InCluster(r, e)

LEMMA SearchFindsEnd ==
  ASSUME NEW r \in Responses
  PROVE  \E d \in Bin : EndOfCluster(r, d) /\ cand_toa_idx(r) = BinAt(r, d)
<1> DEFINE q == Quarter
<1>0. Bins \in Nat \ {0} /\ Bins \in 0 .. Bins /\ q \in Nat
  BY BinsPositive DEF Quarter
<1>1. PICK f : LoopTo(r, Bins, f) /\ cand_toa_idx(r) = f[Bins].cand
  BY LoopOfSearch
<1>2. PICK k, c \in Nat : /\ f[Bins] = SearchState(r, k, c) /\ Searched(r, k, c)
                          /\ k <= Bins /\ (Gap(k, c) <= q => k = Bins)
  BY <1>0, <1>1, SearchInvariant
<1>3. cand_toa_idx(r) = BinAt(r, c)
  BY <1>1, <1>2 DEF SearchState
<1>4. c < k
  BY <1>0, <1>2 DEF Searched, Gap
<1>5. InCluster(r, c) /\ \A d \in c + 1 .. k - 1 : r[BinAt(r, d)] = Below
  BY <1>2 DEF Searched
<1>6. ASSUME NEW e \in c + 1 .. Bins - 1 PROVE ~InCluster(r, e)
  <2>1. CASE e < k
    BY <1>5, <2>1 DEF InCluster
  <2>2. CASE e >= k
    <3>1. k - 1 - c > q
      BY <1>0, <1>2, <1>4, <2>2 DEF Gap
    <3>2. c + 1 \in 1 .. e /\ c + 1 + q < e
      BY <1>0, <2>2, <3>1
    <3>3. \A m \in c + 1 .. c + 1 + q : r[BinAt(r, m)] = Below
      BY <1>0, <1>5, <3>1
    <3> QED
      BY <3>2, <3>3 DEF InCluster, q, Quarter
  <2> QED
    BY <2>1, <2>2
<1>7. c \in Bin
  BY <1>0, <1>2, <1>4 DEF Bin
<1> QED
  BY <1>3, <1>5, <1>6, <1>7 DEF EndOfCluster

LEMMA OneEnd ==
  ASSUME NEW r, NEW d \in Bin, EndOfCluster(r, d), NEW e \in Bin, EndOfCluster(r, e)
  PROVE  d = e
<1>1. d \in 0 .. Bins - 1 /\ e \in 0 .. Bins - 1 /\ Bins \in Nat
  BY BinsPositive DEF Bin
<1>2. ~(e \in d + 1 .. Bins - 1) /\ ~(d \in e + 1 .. Bins - 1)
  BY DEF EndOfCluster
<1> QED
  BY <1>1, <1>2

-----------------------------------------------------------------------------
(* A response that is turned by s bins has its bins at the same distances    *)
(* from the peak, so its cluster ends at the same distance.                  *)

Turned(r, s) == [b \in Bin |-> r[(b + s) % Bins]]

LEMMA TurnedResponse ==
  ASSUME NEW r \in Responses, NEW s \in Bin
  PROVE  /\ Turned(r, s) \in Responses
         /\ max_mag_idx(Turned(r, s)) = (max_mag_idx(r) - s) % Bins
<1> DEFINE t == Turned(r, s)
           p == max_mag_idx(r)
           o == (p - s) % Bins
<1>1. /\ Bins \in Nat \ {0} /\ s \in Int /\ p \in Int
      /\ s \in 0 .. Bins - 1 /\ p \in 0 .. Bins - 1
  BY BinsPositive, PeakBin DEF Bin
<1>2. o \in 0 .. Bins - 1
  <2>1. p - s \in Int
    BY <1>1
  <2> QED
    BY <1>1, <2>1, DivMod
<1>3. ASSUME NEW b \in Bin PROVE (b + s) % Bins \in Bin /\ ((b + s) % Bins = p <=> b = o)
  <2>1. b \in 0 .. Bins - 1 /\ b \in Int /\ b + s \in Int
    BY <1>1 DEF Bin
  <2>2. (b + s) % Bins \in 0 .. Bins - 1
    BY <1>1, <2>1, DivMod
  <2>3. ASSUME (b + s) % Bins = p PROVE b = o
    <3>1. (((b + s) % Bins) + (-s)) % Bins = (b + s + (-s)) % Bins
      BY <1>1, <2>1, ModPlus, -s \in Int
    <3>2. b + s + (-s) = b /\ b % Bins = b
      BY <1>1, <2>1, ModOfSmall
    <3> QED
      BY <1>1, <2>3, <3>1, <3>2, p + (-s) = p - s
  <2>4. ASSUME b = o PROVE (b + s) % Bins = p
    <3>1. (((p - s) % Bins) + s) % Bins = (p - s + s) % Bins
      BY <1>1, ModPlus, p - s \in Int
    <3>2. p - s + s = p /\ p % Bins = p
      BY <1>1, ModOfSmall
    <3> QED
      BY <2>4, <3>1, <3>2
  <2> QED
    BY <2>2, <2>3, <2>4 DEF Bin
<1>4. /\ r \in [Bin -> {Below, Above, Peak}]
      /\ \A b \in Bin : r[b] = Peak <=> b = p
  BY PeakBin
<1>5. o \in Bin
  BY <1>2 DEF Bin
<1>6. t \in [Bin -> {Below, Above, Peak}] /\ \A b \in Bin : t[b] = Peak <=> b = o
  <2> HIDE DEF o, p
  <2> QED
    BY <1>3, <1>4 DEF Turned
<1> HIDE DEF t, p, o
<1>7. t \in Responses
  BY <1>5, <1>6 DEF Responses
<1>8. max_mag_idx(t) = o
  BY <1>5, <1>6 DEF max_mag_idx
<1> QED
  BY <1>7, <1>8 DEF t, o, p

LEMMA TurnedDistance ==
  ASSUME NEW r \in Responses, NEW s \in Bin, NEW d \in Int
  PROVE  /\ BinAt(Turned(r, s), d) = (BinAt(r, d) - s) % Bins
         /\ Turned(r, s)[BinAt(Turned(r, s), d)] = r[BinAt(r, d)]
<1> DEFINE t == Turned(r, s)
           p == max_mag_idx(r)
           n == BinAt(r, d)
<1>1. /\ Bins \in Nat \ {0} /\ s \in Int /\ p \in Int
      /\ t \in Responses /\ max_mag_idx(t) = (p - s) % Bins
  <2>1. p \in Bin
    BY PeakBin
  <2>2. t \in Responses /\ max_mag_idx(t) = (p - s) % Bins
    BY TurnedResponse
  <2> QED
    BY <2>1, <2>2, BinsPositive DEF Bin
<1>2. n \in 0 .. Bins - 1 /\ n = (p + d) % Bins
  <2>1. n \in Bin
    BY AtTypes
  <2>2. n = (p + d) % Bins
    BY DEF BinAt
  <2> QED
    BY <2>1, <2>2 DEF Bin
<1> HIDE DEF t, p, n
<1>3. BinAt(t, d) = (p - s + d) % Bins
  <2>1. p - s \in Int
    BY <1>1
  <2> QED
    BY <1>1, <2>1, ModPlus DEF BinAt
<1>4. (n - s) % Bins = (p - s + d) % Bins
  <2>1. p + d \in Int /\ -s \in Int
    BY <1>1
  <2>2. (((p + d) % Bins) + (-s)) % Bins = (p + d + (-s)) % Bins
    BY <1>1, <2>1, ModPlus
  <2>3. p + d + (-s) = p - s + d /\ ((p + d) % Bins) + (-s) = n - s
    BY <1>1, <1>2
  <2> QED
    BY <2>2, <2>3
<1>5. (((n - s) % Bins) + s) % Bins = n
  <2>1. n - s \in Int
    BY <1>1, <1>2
  <2>2. (((n - s) % Bins) + s) % Bins = (n - s + s) % Bins
    BY <1>1, <2>1, ModPlus
  <2>3. n - s + s = n /\ n % Bins = n
    BY <1>1, <1>2, ModOfSmall
  <2> QED
    BY <2>2, <2>3
<1>6. t[BinAt(t, d)] = r[n]
  <2>1. BinAt(t, d) \in Bin /\ BinAt(t, d) = (n - s) % Bins
    BY <1>1, <1>3, <1>4, AtTypes
  <2>2. t[BinAt(t, d)] = r[(BinAt(t, d) + s) % Bins]
    BY <2>1 DEF t, Turned
  <2> QED
    BY <1>5, <2>1, <2>2
<1> QED
  BY <1>3, <1>4, <1>6 DEF t, n

LEMMA TurnedCluster ==
  ASSUME NEW r \in Responses, NEW s \in Bin, NEW d \in Nat
  PROVE  InCluster(Turned(r, s), d) <=> InCluster(r, d)
<1>1. \A e \in Int : Turned(r, s)[BinAt(Turned(r, s), e)] = r[BinAt(r, e)]
  BY TurnedDistance
<1>2. \A from \in 1 .. d : \A e \in from .. from + (Bins \div 4) : e \in Int
  BY BinsPositive
<1> QED
  BY <1>1, <1>2 DEF InCluster

LEMMA TurnedToa ==
  ASSUME NEW r \in Responses, NEW s \in Bin
  PROVE  cand_toa_idx(Turned(r, s)) = (cand_toa_idx(r) - s) % Bins
<1>1. PICK d \in Bin : EndOfCluster(r, d) /\ cand_toa_idx(r) = BinAt(r, d)
  BY SearchFindsEnd
<1>2. PICK e \in Bin : /\ EndOfCluster(Turned(r, s), e)
                       /\ cand_toa_idx(Turned(r, s)) = BinAt(Turned(r, s), e)
  BY SearchFindsEnd, TurnedResponse
<1>3. EndOfCluster(r, e)
  <2>1. \A n \in e .. Bins - 1 : n \in Nat
    BY DEF Bin
  <2>2. e \in Nat
    BY DEF Bin
  <2> QED
    BY <1>2, <2>1, <2>2, TurnedCluster DEF EndOfCluster
<1>4. d = e /\ d \in Int
  BY <1>1, <1>3, OneEnd DEF Bin
<1> QED
  BY <1>1, <1>2, <1>4, TurnedDistance

LEMMA ToaRange ==
  ASSUME NEW r \in Responses, NEW a \in Anchor
  PROVE  cand_toa_idx(r) \in Bin /\ res_toa(r, a) \in 0 .. Bins - 1
<1>1. cand_toa_idx(r) \in Bin
  <2>1. PICK d \in Bin : cand_toa_idx(r) = BinAt(r, d)
    BY SearchFindsEnd
  <2>2. d \in Int
    BY DEF Bin
  <2> QED
    BY <2>1, <2>2, AtTypes
<1>2. Bins - cand_toa_idx(r) - ToaErrors[a] \in Int
  BY <1>1, ToaAssumption DEF Bin, Anchor
<1> QED
  BY <1>1, <1>2, BinsPositive, DivMod DEF res_toa

LEMMA TurnedResult ==
  ASSUME NEW r \in Responses, NEW s \in Bin, NEW a \in Anchor
  PROVE  res_toa(Turned(r, s), a) = (res_toa(r, a) + s) % Bins
<1> DEFINE c == cand_toa_idx(r)
           e == ToaErrors[a]
           n == c - s
           q == n \div Bins
<1>1. Bins \in Nat \ {0} /\ c \in Int /\ s \in Int /\ e \in Int /\ n \in Int
  BY BinsPositive, ToaRange, ToaAssumption DEF Bin, Anchor
<1>2. cand_toa_idx(Turned(r, s)) = n % Bins
  BY TurnedToa
<1>3. n = Bins * q + (n % Bins) /\ q \in Int /\ n % Bins \in Int
  <2> HIDE DEF n
  <2> QED
    BY <1>1, DivMod
<1> HIDE DEF q
<1>4. Bins - (n % Bins) - e = (Bins - c - e + s) + Bins * q
  <2> DEFINE u == Bins * q
             m == n % Bins
  <2>1. u \in Int /\ m \in Int /\ n = u + m
    BY <1>1, <1>3
  <2> HIDE DEF u, m
  <2>2. Bins - m - e = (Bins - c - e + s) + u
    BY <1>1, <2>1
  <2> QED
    BY <2>2 DEF u, m
<1>5. ((Bins - c - e + s) + Bins * q) % Bins = (Bins - c - e + s) % Bins
  <2>1. Bins - c - e + s \in Int
    BY <1>1
  <2> QED
    BY <1>1, <1>3, <2>1, ModTurn
<1>6. (((Bins - c - e) % Bins) + s) % Bins = (Bins - c - e + s) % Bins
  <2>1. Bins - c - e \in Int
    BY <1>1
  <2> QED
    BY <1>1, <2>1, ModPlus
<1>7. res_toa(r, a) = (Bins - c - e) % Bins
  BY DEF res_toa
<1>8. res_toa(Turned(r, s), a) = (Bins - (n % Bins) - e) % Bins
  BY <1>2 DEF res_toa
<1> QED
  BY <1>4, <1>5, <1>6, <1>7, <1>8

-----------------------------------------------------------------------------
(* The three properties of the times of arrival *)

LEMMA CalibrationTypes ==
  /\ Bins \in Nat \ {0} /\ Anchors \in Nat \ {0} /\ 0 \in Anchor
  /\ Bins \div 2 \in Nat /\ Bins = 2 * (Bins \div 2)
BY ToaAssumption DEF Anchor

\* Half a turn
Half == Bins \div 2

\* m is n, or a turn more or less.
IsTurnOf(m, n) == m \in Int /\ (m = n \/ m = n + Bins \/ m = n - Bins)

Difference(a) == found[a] - found[0]

(* The anchors from ii on have their difference already, the others are only
   turned: the first one is in the middle until it is subtracted from itself. *)
ToaInv ==
  /\ phase \in {"find", "look", "turn", "subtract", "done", "locate"}
  /\ phase = "look" => response \in Responses
  /\ ii \in Int /\ toas \in [Anchor -> Int] /\ found \in [Anchor -> Bin]
  /\ phase \in {"find", "look"} => ii \in Anchor
  /\ phase \in {"find", "look", "turn"} => toas = found
  /\ phase = "subtract" =>
       /\ ii \in Anchor
       /\ \A a \in Anchor :
            IF a <= ii THEN toas[a] \in Bin /\ IsTurnOf(toas[a] - Half, Difference(a))
                       ELSE toas[a] \in -Half .. Half - 1 /\ IsTurnOf(toas[a], Difference(a))
       /\ toas[0] = Half
  /\ phase = "done" =>
       \A a \in Anchor : /\ toas[a] \in -Half .. Half - 1
                         /\ IsTurnOf(toas[a], Difference(a))

LEMMA ToaInvInit == SearchInit => ToaInv
<1> SUFFICES ASSUME SearchInit PROVE ToaInv
  OBVIOUS
<1>1. 0 \in Anchor /\ 0 \in Bin
  BY CalibrationTypes, BinsPositive DEF Bin
<1>2. toas = [a \in Anchor |-> 0] /\ found = toas /\ ii = 0 /\ phase = "find"
  BY DEF SearchInit, ToaInit
<1>3. toas \in [Anchor -> Int] /\ found \in [Anchor -> Bin]
  BY <1>1, <1>2
<1> QED
  BY <1>1, <1>2, <1>3 DEF ToaInv

LEMMA ToaInvFind ==
  ASSUME ToaInv, FindToa
  PROVE  ToaInv'
<1>1. /\ phase = "look" /\ response \in Responses /\ ii \in Anchor /\ ii \in Int
      /\ toas = found /\ toas \in [Anchor -> Int] /\ found \in [Anchor -> Bin]
  BY DEF ToaInv, FindToa
<1>2. res_toa(response, ii) \in Bin
  BY <1>1, ToaRange DEF Bin
<1>3. toas' = [toas EXCEPT ![ii] = res_toa(response, ii)] /\ found' = toas'
  BY DEF FindToa
<1>4. toas' \in [Anchor -> Bin]
  BY <1>1, <1>2, <1>3
<1>5. toas' \in [Anchor -> Int]
  BY <1>4, BinsPositive DEF Bin
<1>6. /\ ii' = ii + 1 /\ ii' \in Int
      /\ phase' = IF ii + 1 = Anchors THEN "turn" ELSE "find"
  BY <1>1 DEF FindToa
<1>7. phase' = "find" => ii' \in Anchor
  BY <1>1, <1>6, CalibrationTypes DEF Anchor
<1> QED
  BY <1>3, <1>4, <1>5, <1>6, <1>7 DEF ToaInv

LEMMA Wrapped ==
  ASSUME NEW t \in Int, t >= -Bins, t < 2 * Bins
  PROVE  Wrap(t) \in Bin /\ IsTurnOf(Wrap(t), t)
BY CalibrationTypes DEF Wrap, Bin, IsTurnOf

LEMMA ToaInvTurn ==
  ASSUME ToaInv, Turn
  PROVE  ToaInv'
<1>1. /\ phase = "turn" /\ toas = found /\ found \in [Anchor -> Bin]
      /\ phase' = "subtract" /\ ii' = Anchors - 1 /\ found' = found
      /\ toas' = [a \in Anchor |-> Wrap(toas[a] + rotate_amount)]
  BY DEF ToaInv, Turn
<1>2. rotate_amount = Half - found[0] /\ found[0] \in Bin /\ 0 \in Anchor
  BY <1>1, CalibrationTypes DEF rotate_amount, Half
<1>3. /\ Bins \in Nat \ {0} /\ Half \in Nat /\ Bins = 2 * Half
      /\ Half \in Bin
  BY CalibrationTypes DEF Half, Bin
<1>4. ASSUME NEW a \in Anchor
      PROVE  toas'[a] \in Bin /\ IsTurnOf(toas'[a] - Half, Difference(a))
  <2> DEFINE t == toas[a] + rotate_amount
  <2>1. toas'[a] = Wrap(t) /\ found[a] \in Bin /\ toas[a] = found[a]
    BY <1>1
  <2>2. t \in Int /\ t >= -Bins /\ t < 2 * Bins /\ t = Difference(a) + Half
        /\ Difference(a) \in Int
    BY <1>2, <1>3, <2>1 DEF Bin, Difference
  <2> HIDE DEF t
  <2>3. Wrap(t) \in Bin /\ IsTurnOf(Wrap(t), t)
    BY <2>2, Wrapped
  <2>4. IsTurnOf(Wrap(t) - Half, Difference(a))
    BY <1>3, <2>2, <2>3 DEF IsTurnOf
  <2> QED
    BY <2>1, <2>3, <2>4
<1>5. toas'[0] = Half
  <2>1. toas[0] + rotate_amount = Half
    BY <1>1, <1>2, <1>3 DEF Bin
  <2>2. Wrap(Half) = Half
    BY <1>3 DEF Wrap, Bin
  <2> QED
    BY <1>1, <1>2, <2>1, <2>2
<1>6. ii' \in Anchor /\ ii' \in Int /\ \A a \in Anchor : a <= ii'
  BY <1>1, CalibrationTypes DEF Anchor
<1>7. toas' \in [Anchor -> Int]
  <2>1. DOMAIN toas' = Anchor
    BY <1>1
  <2> QED
    BY <1>1, <1>3, <1>4 DEF Bin
<1>8. \A a \in Anchor : Difference(a)' = Difference(a)
  BY <1>1 DEF Difference
<1>9. Half' = Half
  BY DEF Half
<1> QED
  BY <1>1, <1>4, <1>5, <1>6, <1>7, <1>8, <1>9 DEF ToaInv

LEMMA ToaInvSubtract ==
  ASSUME ToaInv, Subtract
  PROVE  ToaInv'
<1>1. /\ phase = "subtract" /\ ii \in Anchor /\ toas[0] = Half
      /\ toas \in [Anchor -> Int] /\ found \in [Anchor -> Bin]
      /\ found' = found /\ ii' = ii - 1
      /\ toas' = [toas EXCEPT ![ii] = @ - Half]
      /\ phase' = IF ii = 0 THEN "done" ELSE "subtract"
  BY DEF ToaInv, Subtract
<1>2. \A a \in Anchor :
        IF a <= ii THEN toas[a] \in Bin /\ IsTurnOf(toas[a] - Half, Difference(a))
                   ELSE toas[a] \in -Half .. Half - 1 /\ IsTurnOf(toas[a], Difference(a))
  BY <1>1 DEF ToaInv
<1>3. Bins \in Nat \ {0} /\ Half \in Nat /\ Bins = 2 * Half /\ Anchors \in Nat
  BY CalibrationTypes DEF Half
<1>4. ASSUME NEW a \in Anchor
      PROVE  IF a <= ii'
             THEN toas'[a] \in Bin /\ IsTurnOf(toas'[a] - Half, Difference(a))
             ELSE toas'[a] \in -Half .. Half - 1 /\ IsTurnOf(toas'[a], Difference(a))
  <2>1. a \in Int /\ ii \in Int /\ (a <= ii' <=> a <= ii /\ a # ii)
    BY <1>1, <1>3 DEF Anchor
  <2>2. CASE a = ii
    <3>1. toas'[a] = toas[a] - Half /\ toas[a] \in Bin
          /\ IsTurnOf(toas[a] - Half, Difference(a))
      BY <1>1, <1>2, <2>1, <2>2
    <3>2. toas[a] - Half \in -Half .. Half - 1
      BY <1>3, <3>1 DEF Bin
    <3> QED
      BY <2>1, <2>2, <3>1, <3>2
  <2>3. CASE a # ii
    <3>1. toas'[a] = toas[a]
      BY <1>1, <2>3
    <3> QED
      BY <1>2, <2>1, <2>3, <3>1
  <2> QED
    BY <2>2, <2>3
<1>5. toas' \in [Anchor -> Int] /\ ii' \in Int
  BY <1>1, <1>3 DEF Anchor
<1>6. (\A a \in Anchor : Difference(a)' = Difference(a)) /\ Half' = Half
  BY <1>1 DEF Difference, Half
<1>7. CASE ii = 0
  <2>1. \A a \in Anchor : ~(a <= ii')
    BY <1>1, <1>3, <1>7 DEF Anchor
  <2>2. \A a \in Anchor : /\ toas'[a] \in -Half .. Half - 1
                          /\ IsTurnOf(toas'[a], Difference(a))
    BY <1>4, <2>1
  <2> QED
    BY <1>1, <1>5, <1>6, <1>7, <2>2 DEF ToaInv
<1>8. CASE ii # 0
  <2>1. ii' \in Anchor /\ toas'[0] = Half /\ 0 \in Anchor
    BY <1>1, <1>3, <1>8 DEF Anchor
  <2> QED
    BY <1>1, <1>4, <1>5, <1>6, <1>8, <2>1 DEF ToaInv
<1> QED
  BY <1>7, <1>8

LEMMA ToaInvNext == ToaInv /\ [SearchNext]_searchVars => ToaInv'
<1> SUFFICES ASSUME ToaInv, [SearchNext]_searchVars PROVE ToaInv'
  OBVIOUS
<1>1. CASE Respond
  BY <1>1 DEF ToaInv, Respond, Difference, Half
<1>2. CASE FindToa
  BY <1>2, ToaInvFind
<1>3. CASE Turn
  BY <1>3, ToaInvTurn
<1>4. CASE Subtract
  BY <1>4, ToaInvSubtract
<1>5. CASE BeginDescent
  <2>1. phase' = "locate" /\ ii' = ii /\ toas' = [a \in Anchor |-> 0] /\ found' = toas'
    BY <1>5 DEF BeginDescent
  <2>2. toas' \in [Anchor -> Int] /\ toas' \in [Anchor -> Bin]
    BY <2>1, BinsPositive DEF Bin
  <2> QED
    BY <2>1, <2>2 DEF ToaInv
<1>6. CASE UNCHANGED toaVars
  BY <1>6 DEF ToaInv, toaVars, Difference, Half
<1> QED
  BY <1>1, <1>2, <1>3, <1>4, <1>5, <1>6
     DEF SearchNext, Extract, ToaNext, Descend, searchVars

LEMMA ToaInvHolds == SearchSpec => []ToaInv
<1> QED
  BY ToaInvInit, ToaInvNext, PTL DEF SearchSpec

(* The search for a time of arrival (extractToAs) ends at the far end of the *)
(* cluster of the peak, in every response that has a peak.                   *)
THEOREM FindsEndOfClusterHolds == SearchSpec => []FindsEndOfCluster
<1>1. ToaInv => FindsEndOfCluster
  BY SearchFindsEnd DEF ToaInv, FindsEndOfCluster, EndOfCluster
<1> QED
  BY <1>1, ToaInvHolds, PTL

(* A response that arrives later by some bins gives a time of arrival that   *)
(* is later by as many, modulo the turn, whatever the calibration.           *)
THEOREM DelayShiftsToaHolds == SearchSpec => []DelayShiftsToa
<1>1. ToaInv => DelayShiftsToa
  <2> SUFFICES ASSUME ToaInv, phase = "look", NEW s \in Bin
               PROVE  res_toa([b \in Bin |-> response[(b + s) % Bins]], 0)
                        = (res_toa(response, 0) + s) % Bins
    BY DEF DelayShiftsToa
  <2>1. response \in Responses /\ 0 \in Anchor
    BY CalibrationTypes DEF ToaInv
  <2>2. res_toa(Turned(response, s), 0) = (res_toa(response, 0) + s) % Bins
    BY <2>1, TurnedResult
  <2> QED
    BY <2>2 DEF Turned
<1> QED
  BY <1>1, ToaInvHolds, PTL

(* What tdoa4_slow is given are the differences of the times that were       *)
(* found, of the right sign and at most half a turn.                         *)
THEOREM DifferencesOfToasHold == SearchSpec => []DifferencesOfToas
<1>1. ToaInv => DifferencesOfToas
  <2> SUFFICES ASSUME ToaInv, phase = "done", NEW a \in Anchor
               PROVE  /\ toas[a] \in -(Bins \div 2) .. (Bins \div 2) - 1
                      /\ (toas[a] - (found[a] - found[0])) % Bins = 0
    BY DEF DifferencesOfToas
  <2> DEFINE t == toas[a]
             d == Difference(a)
  <2>1. t \in -Half .. Half - 1 /\ IsTurnOf(t, d)
    BY DEF ToaInv
  <2>2. found[a] \in Bin /\ found[0] \in Bin
    BY CalibrationTypes DEF ToaInv
  <2>3. d \in Int /\ t \in Int /\ Bins \in Nat \ {0} /\ 0 \in 0 .. Bins - 1
    BY <2>1, <2>2, CalibrationTypes DEF Bin, Difference, IsTurnOf
  <2> HIDE DEF t, d
  <2>4. PICK k \in {-1, 0, 1} : t - d = Bins * k + 0
    BY <2>1, <2>3 DEF IsTurnOf
  <2>5. (t - d) % Bins = 0
    BY <2>3, <2>4, ModIs, k \in Int
  <2> QED
    BY <2>1, <2>5 DEF t, d, Difference, Half
<1> QED
  BY <1>1, ToaInvHolds, PTL

-----------------------------------------------------------------------------
(* The descent to the position *)

\* The error the search compares with is that of the position it is at.
BestIsOfEstimate ==
  best_error = Infinity \/ ranAway \/ best_error = error[est_position]

\* A search that ran away has ended.
AwayIsOver == ranAway => ~new_est

IInv == TypeOK /\ BestIsOfEstimate /\ AwayIsOver /\ LocalMinimum

LEMMA StepIInv == IInv /\ [Next]_vars => IInv'
<1> SUFFICES ASSUME IInv, [Next]_vars PROVE IInv'
  OBVIOUS
<1> USE DEF IInv, TypeOK
<1>0. /\ est_position \in Grid /\ error \in [Grid -> Nat]
      /\ Neighbours[est_position] \subseteq Grid
  BY GridAssumption
<1>1. CASE Move
  <2>1. PICK c \in Best : /\ Lower(error[c], best_error)
                          /\ best_error' = error[c]
                          /\ Land(c)
                          /\ new_est' = (c \in Near)
    BY <1>1 DEF Move
  <2>2. error' = error /\ new_est /\ ~ranAway
    BY <1>1 DEF Move, AwayIsOver
  <2>3. c \in Grid /\ error[c] \in Nat
    BY <1>0 DEF Best
  <2>4. CASE c \in Near
    BY <2>1, <2>2, <2>3, <2>4 DEF Land, BestIsOfEstimate, AwayIsOver, LocalMinimum
  <2>5. CASE c \notin Near
    BY <2>1, <2>2, <2>3, <2>5, GridAssumption
      DEF Land, BestIsOfEstimate, AwayIsOver, LocalMinimum
  <2> QED
    BY <2>4, <2>5
<1>2. CASE Settle
  <2>1. UNCHANGED <<error, est_position, best_error, ranAway>> /\ new_est' = FALSE
    BY <1>2 DEF Settle
  <2>2. /\ TypeOK' /\ BestIsOfEstimate' /\ AwayIsOver'
    BY <2>1 DEF BestIsOfEstimate, AwayIsOver
  <2>3. ASSUME ~ranAway, NEW c \in Neighbours[est_position]
        PROVE  error[est_position] <= error[c]
    <3>1. ~Lower(error[c], best_error)
      BY <1>2, <2>3 DEF Settle
    <3>2. best_error # Infinity /\ best_error = error[est_position]
      BY <3>1, <2>3 DEF Lower, BestIsOfEstimate
    <3> QED
      BY <1>0, <2>3, <3>1, <3>2 DEF Lower
  <2>4. LocalMinimum'
    BY <2>1, <2>3 DEF LocalMinimum
  <2> QED
    BY <2>2, <2>4
<1>3. CASE UNCHANGED vars
  BY <1>3 DEF vars, BestIsOfEstimate, AwayIsOver, LocalMinimum
<1> QED
  BY <1>1, <1>2, <1>3 DEF Next

\* Before the descent everything is as its first lines set it.
ReadyInv ==
  phase # "locate" =>
    new_est /\ ~ranAway /\ best_error = Infinity

SInv == IInv /\ ReadyInv

LEMMA InitSInv == SearchInit => SInv
BY GridAssumption DEF SearchInit, ToaInit, Init, SInv, IInv, ReadyInv, TypeOK,
   BestIsOfEstimate, AwayIsOver, LocalMinimum, Infinity

LEMMA StepSInv == SInv /\ [SearchNext]_searchVars => SInv'
<1> SUFFICES ASSUME SInv, [SearchNext]_searchVars PROVE SInv'
  OBVIOUS
<1>1. CASE Extract
  <2>1. UNCHANGED vars /\ phase # "locate" /\ phase' # "locate"
    BY <1>1 DEF Extract, ToaNext, Respond, FindToa, Turn, Subtract
  <2> QED
    BY <2>1, StepIInv DEF SInv, ReadyInv, vars
<1>2. CASE BeginDescent
  <2>1. /\ new_est' /\ phase' = "locate" /\ error' \in Errors
        /\ UNCHANGED <<est_position, best_error, new_est, ranAway>>
        /\ ~ranAway /\ best_error = Infinity
    BY <1>2 DEF BeginDescent, SInv, ReadyInv
  <2> QED
    BY <2>1 DEF SInv, ReadyInv, IInv, TypeOK, BestIsOfEstimate, AwayIsOver, LocalMinimum
<1>3. CASE Descend
  BY <1>3, StepIInv DEF Descend, SInv, ReadyInv, toaVars
<1>4. CASE UNCHANGED searchVars
  BY <1>4, StepIInv DEF searchVars, toaVars, vars, SInv, ReadyInv
<1> QED
  BY <1>1, <1>2, <1>3, <1>4 DEF SearchNext

(* The search reports a local minimum unless it ran away: the comparisons of
   the descent are with the error of the position at hand, and the last round
   has seen all of its neighbours. *)
THEOREM LocalMinimumHolds == SearchSpec => []LocalMinimum
<1>1. SearchInit => SInv
  BY InitSInv
<1>2. SearchSpec => []SInv
  BY <1>1, StepSInv, PTL DEF SearchSpec
<1> QED
  BY <1>2, PTL DEF SInv, IInv
=============================================================================
