---------------------------- MODULE DisplayProofs ---------------------------
(***************************************************************************)
(* Proofs about the two displays: LocationFeed, from snapshots to sprites, *)
(* for any length of the ring, of the buffers and of the messages, and     *)
(* ScopeSink, for any lists of scales, any decimation and any number of    *)
(* channels and waiting events.                                            *)
(***************************************************************************)
EXTENDS LocationFeed, ScopeSink, NumberLemmas, SequenceTheorems

-----------------------------------------------------------------------------
(* The ring of sprites shows the last of t positions, the newest at t modulo
   its length, the one before behind it, and so on. *)

H == estimateHistory

Placed(r, t, age) ==
  LET e == (t - age) % H
  IN  /\ age < t => r.place[e] = Good(t - age)
      /\ r.scale[e] = IF age < t THEN H - 1 - age ELSE 0

RingShows(r, t) ==
  /\ r.cur = t % H
  /\ r.valid = IF t < H THEN t ELSE H
  /\ DOMAIN r.place = Sprite
  /\ \A age \in Sprite : Placed(r, t, age)

(* Counted back from the newest position t + 1, the sprite of age age is the
   one the loop over the sizes reaches at H - 1 - age. *)
LEMMA SpriteOfAge ==
  ASSUME NEW t \in Nat, NEW age \in Sprite
  PROVE  /\ H \in Nat \ {0} /\ (t - age) % H \in Sprite /\ t % H \in Sprite
         /\ (((t - age) % H) - (t % H) - 1) % H = H - 1 - age
         /\ age # 0 => (t - age) % H # t % H
<1>0. H \in Nat \ {0}
  BY RingAssumption DEF H
<1>1. t \in Int /\ t - age \in Int /\ age \in Int /\ H - 1 - age \in 0 .. H - 1
  BY <1>0 DEF Sprite, H
<1>2. /\ t % H \in Sprite /\ (t - age) % H \in Sprite
      /\ t = H * (t \div H) + (t % H) /\ t \div H \in Int
  BY <1>0, <1>1, DivMod DEF Sprite, H
<1>3. ASSUME NEW a \in Sprite, t - a \in Int, H - 1 - a \in 0 .. H - 1
      PROVE  (((t - a) % H) + (-(t % H) - 1)) % H = H - 1 - a
  <2> DEFINE c == t % H
             q == t \div H
  <2>1. c \in Int /\ q \in Int /\ -c - 1 \in Int /\ t = H * q + c
    BY <1>2 DEF Sprite
  <2> HIDE DEF c, q
  <2>2. (((t - a) % H) + (-c - 1)) % H = ((t - a) + (-c - 1)) % H
    BY <1>0, <1>3, <2>1, ModPlus
  <2>3. (t - a) + (-c - 1) = (H - 1 - a) + H * (q - 1)
    <3>1. H * (q - 1) = H * q - H
      BY <1>0, <2>1
    <3> QED
      BY <1>0, <1>3, <2>1, <3>1 DEF Sprite
  <2>4. q - 1 \in Int /\ H - 1 - a \in Int
    BY <2>1, <1>3
  <2>5. ((H - 1 - a) + H * (q - 1)) % H = (H - 1 - a) % H
    BY <1>0, <2>4, ModTurn
  <2>6. (H - 1 - a) % H = H - 1 - a
    BY <1>0, <1>3, ModOfSmall
  <2> QED
    BY <2>2, <2>3, <2>5, <2>6 DEF c
<1>4. (((t - age) % H) - (t % H) - 1) % H = H - 1 - age
  <2>1. ((t - age) % H) - (t % H) - 1 = ((t - age) % H) + (-(t % H) - 1)
    BY <1>2 DEF Sprite
  <2> QED
    BY <1>1, <1>3, <2>1
<1>5. ASSUME age # 0, (t - age) % H = t % H PROVE FALSE
  <2>1. 0 \in Sprite /\ t - 0 \in Int /\ H - 1 - 0 \in 0 .. H - 1 /\ t - 0 = t
    BY <1>0, <1>1 DEF Sprite, H
  <2>2. (((t - 0) % H) + (-(t % H) - 1)) % H = H - 1 - 0
    BY <1>3, <2>1
  <2>3. (((t - age) % H) + (-(t % H) - 1)) % H = H - 1 - age
    BY <1>1, <1>3
  <2>4. H - 1 - 0 = H - 1 - age
    BY <1>5, <2>1, <2>2, <2>3
  <2> QED
    BY <1>0, <1>1, <1>5, <2>4
<1> QED
  BY <1>0, <1>2, <1>4, <1>5

LEMMA RingStep ==
  ASSUME NEW t \in Nat, NEW r, RingShows(r, t)
  PROVE  RingShows(updateLocation(r, Good(t + 1)), t + 1)
<1> DEFINE u == t + 1
           c == u % H
           s == updateLocation(r, Good(u))
           v == IF t < H THEN t + 1 ELSE H
<1>0. H \in Nat \ {0} /\ u \in Nat /\ t \in Int /\ 1 \in Int
  BY RingAssumption DEF H
<1>1. (r.cur + 1) % H = c
  BY <1>0, ModPlus DEF RingShows
<1>2. (IF r.valid < H THEN r.valid + 1 ELSE r.valid) = v
  BY <1>0 DEF RingShows
<1>3. s = [cur |-> c, valid |-> v, place |-> [r.place EXCEPT ![c] = Good(u)],
           scale |-> Shrink(c, v, r.scale)]
  <2> HIDE DEF c, v
  <2> QED
    BY <1>1, <1>2 DEF updateLocation, H
<1>4. v = (IF u < H THEN u ELSE H)
  BY <1>0
<1>5. c \in Sprite
  BY <1>0, DivMod, u \in Int DEF Sprite, H
<1>6. ASSUME NEW age \in Sprite PROVE Placed(s, u, age)
  <2> DEFINE e == (u - age) % H
             z == (e - c - 1) % H
  <2>1. /\ e \in Sprite /\ z = H - 1 - age
        /\ age # 0 => e # c
    BY <1>0, SpriteOfAge
  <2>2. age \in 0 .. H - 1
    BY DEF Sprite, H
  <2>3. s.scale[e] = IF H - z <= v THEN z ELSE r.scale[e]
    <3> HIDE DEF c, v, e
    <3> QED
      BY <1>3, <2>1 DEF Shrink, H, z
  <2>4. s.place[e] = IF e = c THEN Good(u) ELSE r.place[e]
    <3>1. DOMAIN r.place = Sprite
      BY DEF RingShows
    <3> HIDE DEF c, v, e, s
    <3> QED
      BY <1>3, <2>1, <3>1
  <2>5. age = 0 => e = c
    <3>1. age = 0 => u - age = u
      BY <1>0, <2>2
    <3> QED
      BY <3>1
  <2>6. age # 0 => /\ age - 1 \in Sprite /\ (t - (age - 1)) % H = e
                   /\ t - (age - 1) = u - age
    <3>1. age # 0 => age - 1 \in Sprite /\ t - (age - 1) = u - age
      BY <1>0, <2>2 DEF Sprite, H
    <3> QED
      BY <3>1
  <2> HIDE DEF c, e, z, s
  <2>7. age < u => s.place[e] = Good(u - age)
    <3>1. CASE age = 0
      BY <1>0, <2>4, <2>5, <3>1, u - 0 = u
    <3>2. CASE age # 0
      <4>1. Placed(r, t, age - 1)
        BY <2>6, <3>2 DEF RingShows
      <4>2. age - 1 < t => r.place[e] = Good(u - age)
        BY <2>6, <3>2, <4>1 DEF Placed
      <4>3. age < u => age - 1 < t
        BY <1>0, <2>2
      <4> QED
        BY <2>1, <2>4, <3>2, <4>2, <4>3
    <3> QED
      BY <3>1, <3>2
  <2>8. s.scale[e] = IF age < u THEN H - 1 - age ELSE 0
    <3>1. (H - z <= v) <=> age < u
      BY <1>0, <2>1, <2>2
    <3>2. CASE age < u
      BY <2>1, <2>3, <3>1, <3>2
    <3>3. CASE ~(age < u)
      <4>1. age # 0 /\ ~(age - 1 < t)
        BY <1>0, <2>2, <3>3
      <4>2. Placed(r, t, age - 1)
        BY <2>6, <4>1 DEF RingShows
      <4>3. r.scale[e] = 0
        BY <2>6, <4>1, <4>2 DEF Placed
      <4> QED
        BY <2>3, <3>1, <3>3, <4>3
    <3> QED
      BY <3>2, <3>3
  <2> QED
    BY <2>7, <2>8 DEF Placed, e
<1>7. s.cur = c /\ s.valid = v /\ DOMAIN s.place = Sprite
  <2>1. DOMAIN r.place = Sprite
    BY DEF RingShows
  <2> HIDE DEF c, v, s
  <2> QED
    BY <1>3, <2>1
<1> HIDE DEF s, v
<1> QED
  BY <1>4, <1>6, <1>7 DEF RingShows, s

-----------------------------------------------------------------------------
(* The loop of onMessage, as a function of its rounds, and what it shows when
   the numbers of a message continue the stream of positions. *)

ShownTo(r, d, n, f) ==
  f = [i \in 0 .. n |-> IF i = 0 THEN r ELSE updateLocation(f[i - 1], Triple(d, i))]

LEMMA ShownExists ==
  ASSUME NEW r, NEW d
  PROVE  \A n \in Nat : \E f : ShownTo(r, d, n, f)
<1> DEFINE S == {n \in Nat : \E f : ShownTo(r, d, n, f)}
<1>1. 0 \in S
  <2>1. ShownTo(r, d, 0, [i \in 0 .. 0 |-> r])
    BY DEF ShownTo
  <2> QED
    BY <2>1
<1>2. ASSUME NEW n \in Nat, n \in S PROVE n + 1 \in S
  <2>1. PICK f : ShownTo(r, d, n, f)
    BY <1>2
  <2> DEFINE g == [i \in 0 .. n + 1 |->
                     IF i = n + 1 THEN updateLocation(f[n], Triple(d, n + 1)) ELSE f[i]]
  <2>2. \A i \in 0 .. n :
          f[i] = IF i = 0 THEN r ELSE updateLocation(f[i - 1], Triple(d, i))
    BY <2>1 DEF ShownTo
  <2>3. \A i \in 0 .. n + 1 :
          g[i] = IF i = 0 THEN r ELSE updateLocation(g[i - 1], Triple(d, i))
    BY <2>2
  <2>4. ShownTo(r, d, n + 1, g)
    BY <2>3 DEF ShownTo
  <2> QED
    BY <2>4
<1> HIDE DEF S
<1>3. \A n \in Nat : n \in S
  BY <1>1, <1>2, SetInduction
<1> QED
  BY <1>3 DEF S

LEMMA ShownInOrder ==
  ASSUME NEW t \in Nat, NEW r, RingShows(r, t), NEW d, NEW n \in Nat,
         \A i \in 1 .. n : Triple(d, i) = Good(t + i)
  PROVE  RingShows(Shown(r, d, n), t + n)
<1> DEFINE f == CHOOSE f : ShownTo(r, d, n, f)
<1>1. ShownTo(r, d, n, f)
  BY ShownExists
<1>2. Shown(r, d, n) = f[n]
  BY DEF Shown, ShownTo
<1> HIDE DEF f
<1>3. \A i \in 0 .. n :
        f[i] = IF i = 0 THEN r ELSE updateLocation(f[i - 1], Triple(d, i))
  BY <1>1 DEF ShownTo
<1> DEFINE S == {i \in Nat : i <= n => RingShows(f[i], t + i)}
<1>4. 0 \in S
  <2>1. f[0] = r /\ t + 0 = t
    BY <1>3
  <2> QED
    BY <2>1
<1>5. ASSUME NEW i \in Nat, i \in S PROVE i + 1 \in S
  <2> SUFFICES ASSUME i + 1 <= n PROVE RingShows(f[i + 1], t + (i + 1))
    OBVIOUS
  <2>1. RingShows(f[i], t + i) /\ t + i \in Nat /\ (t + i) + 1 = t + (i + 1)
    BY <1>5
  <2>2. f[i + 1] = updateLocation(f[i], Triple(d, i + 1))
    BY <1>3
  <2>3. Triple(d, i + 1) = Good((t + i) + 1)
    BY <2>1
  <2> QED
    BY <2>1, <2>2, <2>3, RingStep
<1> HIDE DEF S
<1>6. \A i \in Nat : i \in S
  BY <1>4, <1>5, SetInduction
<1>7. RingShows(f[n], t + n)
  BY <1>6 DEF S
<1> QED
  BY <1>2, <1>7

-----------------------------------------------------------------------------
(* The stream of numbers that make the positions of the snapshots in turn. *)

Word(j) == [fix |-> [from |-> {(j \div 3) + 1}, passes |-> {1}], axis |-> (j % 3) + 1]

Words == {Word(j) : j \in Nat}

LEMMA WordOfPosition ==
  ASSUME NEW t \in Nat, NEW k \in 1 .. 3
  PROVE  /\ Word(3 * t + (k - 1)) = Good(t + 1)[k]
         /\ Good(t + 1)[k] \in Words
<1>1. k - 1 \in 0 .. 3 - 1 /\ 3 \in Nat \ {0} /\ t \in Int /\ 3 * t + (k - 1) \in Nat
  OBVIOUS
<1>2. (3 * t + (k - 1)) \div 3 = t
  BY <1>1, DivIs
<1>3. (3 * t + (k - 1)) % 3 = k - 1
  BY <1>1, ModIs
<1>4. Word(3 * t + (k - 1)) = Good(t + 1)[k]
  <2>1. (k - 1) + 1 = k
    OBVIOUS
  <2> QED
    BY <1>2, <1>3, <2>1 DEF Word, Good, Numbers
<1> QED
  BY <1>1, <1>4 DEF Words

LEMMA GoodIsThree ==
  ASSUME NEW t \in Nat
  PROVE  Good(t + 1) \in Seq(Words) /\ Len(Good(t + 1)) = 3
<1>1. \A k \in 1 .. 3 : Good(t + 1)[k] \in Words
  BY WordOfPosition
<1>2. Good(t + 1) = [k \in 1 .. 3 |-> Good(t + 1)[k]]
  BY DEF Good, Numbers
<1> DEFINE g == Good(t + 1)
<1>3. g \in [1 .. 3 -> Words]
  <2> HIDE DEF g
  <2> QED
    BY <1>1, <1>2 DEF g
<1> HIDE DEF g
<1>4. g \in Seq(Words)
  BY <1>3, SeqDef, 3 \in Nat
<1>5. Len(g) = 3
  <2>1. DOMAIN g = 1 .. 3 /\ DOMAIN g = 1 .. Len(g) /\ Len(g) \in Nat
    BY <1>3, <1>4, LenProperties
  <2> QED
    BY <2>1
<1> QED
  BY <1>4, <1>5 DEF g

LEMMA TripleIsGood ==
  ASSUME NEW t \in Nat, NEW d \in Seq(Words),
         \A k \in 1 .. Len(d) : d[k] = Word(3 * t + (k - 1)),
         NEW i \in Nat \ {0}, 3 * i <= Len(d)
  PROVE  Triple(d, i) = Good(t + i)
<1> DEFINE m == 3 * i - 2
           n == 3 * i
           s == SubSeq(d, m, n)
           u == t + (i - 1)
<1>1. m \in Int /\ n \in Int /\ m <= n /\ n - m + 1 = 3 /\ u \in Nat /\ u + 1 = t + i
  OBVIOUS
<1>2. \A k \in m .. n : d[k] \in Words
  <2>1. \A k \in m .. n : k \in 1 .. Len(d)
    OBVIOUS
  <2> QED
    BY <2>1, ElementOfSeq
<1>3. /\ s \in Seq(Words) /\ Len(s) = 3
      /\ \A k \in 1 .. 3 : s[k] = d[m + k - 1]
  <2> HIDE DEF m, n
  <2> QED
    BY <1>1, <1>2, SubSeqProperties
<1>4. ASSUME NEW k \in 1 .. 3 PROVE s[k] = Good(u + 1)[k]
  <2>1. m + k - 1 \in 1 .. Len(d) /\ 3 * t + ((m + k - 1) - 1) = 3 * u + (k - 1)
    OBVIOUS
  <2>2. s[k] = Word(3 * u + (k - 1))
    BY <1>3, <2>1
  <2> HIDE DEF s, u
  <2> QED
    BY <1>1, <2>2, WordOfPosition
<1>5. Good(u + 1) \in Seq(Words) /\ Len(Good(u + 1)) = 3
  BY <1>1, GoodIsThree
<1>6. s = Good(u + 1)
  <2> HIDE DEF s, u
  <2> QED
    BY <1>3, <1>4, <1>5, SeqEqual
<1> QED
  BY <1>1, <1>6 DEF Triple

(* The numbers u continue the stream behind position t, up to position n. *)
Continues(u, t, n) ==
  /\ u \in Seq(Words) /\ t <= n /\ Len(u) = 3 * (n - t)
  /\ \A k \in 1 .. Len(u) : u[k] = Word(3 * t + (k - 1))

(* One more position is sent. *)
LEMMA StreamGrows ==
  ASSUME NEW t \in Nat, NEW n \in Nat, NEW h \in Seq(Words), NEW w \in Seq(Words),
         Continues(h \o w, t, n)
  PROVE  /\ w \o Good(n + 1) \in Seq(Words)
         /\ Continues(h \o (w \o Good(n + 1)), t, n + 1)
<1> DEFINE g == Good(n + 1)
           u == h \o w
           v == u \o g
<1>1. g \in Seq(Words) /\ Len(g) = 3 /\ \A k \in 1 .. 3 : g[k] = Word(3 * n + (k - 1))
  BY GoodIsThree, WordOfPosition
<1> HIDE DEF g
<1>2. w \o g \in Seq(Words) /\ h \o (w \o g) = v
  <2>1. w \o g \in Seq(Words)
    BY <1>1, ConcatProperties
  <2>2. (h \o w) \o g = h \o (w \o g)
    BY <1>1, ConcatAssociative
  <2> QED
    BY <2>1, <2>2
<1>3. /\ u \in Seq(Words) /\ t <= n /\ Len(u) = 3 * (n - t)
      /\ \A k \in 1 .. Len(u) : u[k] = Word(3 * t + (k - 1))
  BY DEF Continues
<1> HIDE DEF u
<1>4. /\ v \in Seq(Words) /\ Len(v) = Len(u) + 3
      /\ \A k \in 1 .. Len(u) + 3 : v[k] = IF k <= Len(u) THEN u[k] ELSE g[k - Len(u)]
  <2>1. g \in Seq(Words) /\ Len(g) = 3
    BY <1>1
  <2>2. u \in Seq(Words)
    BY <1>3
  <2>3. /\ v \in Seq(Words) /\ Len(v) = Len(u) + Len(g)
        /\ \A k \in 1 .. Len(u) + Len(g) :
             v[k] = IF k <= Len(u) THEN u[k] ELSE g[k - Len(u)]
    BY <2>1, <2>2, ConcatProperties
  <2> QED
    BY <2>1, <2>3
<1> HIDE DEF v
<1>5. ASSUME NEW k \in 1 .. Len(v) PROVE v[k] = Word(3 * t + (k - 1))
  <2>0. Len(u) \in Nat /\ k \in Nat \ {0} /\ k <= Len(u) + 3
    BY <1>3, <1>4
  <2>1. CASE k <= Len(u)
    BY <1>3, <1>4, <2>0, <2>1
  <2>2. CASE ~(k <= Len(u))
    <3>1. k - Len(u) \in 1 .. 3
      BY <2>0, <2>2
    <3>2. 3 * n + ((k - Len(u)) - 1) = 3 * t + (k - 1)
      BY <1>3, <2>0
    <3>3. v[k] = g[k - Len(u)]
      BY <1>4, <2>0, <2>2
    <3> QED
      BY <1>1, <3>1, <3>2, <3>3
  <2> QED
    BY <2>1, <2>2
<1>6. Len(v) = 3 * ((n + 1) - t) /\ t <= n + 1
  BY <1>3, <1>4
<1> QED
  BY <1>2, <1>4, <1>5, <1>6 DEF Continues, g

(* The first m of the numbers under way are received, and the first p
   positions of what there is then are shown. *)
Received(h, w, m) == h \o SubSeq(w, 1, m)
UnderWay(w, m) == SubSeq(w, m + 1, Len(w))
Rest(d, p) == SubSeq(d, 3 * p + 1, Len(d))

LEMMA StreamTaken ==
  ASSUME NEW t \in Nat, NEW n \in Nat, NEW h \in Seq(Words), NEW w \in Seq(Words),
         Continues(h \o w, t, n), NEW m \in 1 .. Len(w),
         NEW p \in Nat, 3 * p <= Len(Received(h, w, m))
  PROVE  /\ Received(h, w, m) \in Seq(Words)
         /\ \A k \in 1 .. Len(Received(h, w, m)) :
              Received(h, w, m)[k] = Word(3 * t + (k - 1))
         /\ Rest(Received(h, w, m), p) \in Seq(Words)
         /\ UnderWay(w, m) \in Seq(Words)
         /\ Continues(Rest(Received(h, w, m), p) \o UnderWay(w, m), t + p, n)
<1> DEFINE u == h \o w
           x == SubSeq(w, 1, m)
           y == SubSeq(w, m + 1, Len(w))
           d == Received(h, w, m)
           z == SubSeq(d, 3 * p + 1, Len(d))
           a == Len(h)
           b == Len(w)
<1>1. a \in Nat /\ b \in Nat /\ m \in 1 .. b /\ p \in Nat
  BY LenProperties
<1>2. \A k \in 1 .. b : w[k] \in Words
  BY ElementOfSeq
<1>3. /\ x \in Seq(Words) /\ Len(x) = m
      /\ \A k \in 1 .. m : x[k] = w[k]
  <2>1. \A k \in 1 .. m : w[k] \in Words
    BY <1>1, <1>2
  <2>2. /\ x \in Seq(Words) /\ Len(x) = IF 1 <= m THEN m - 1 + 1 ELSE 0
        /\ \A k \in 1 .. m - 1 + 1 : x[k] = w[1 + k - 1]
    BY <1>1, <2>1, SubSeqProperties, 1 \in Int, m \in Int
  <2> QED
    BY <1>1, <2>2
<1>4. /\ y \in Seq(Words) /\ Len(y) = b - m
      /\ \A k \in 1 .. b - m : y[k] = w[m + k]
  <2>1. \A k \in m + 1 .. b : w[k] \in Words
    BY <1>1, <1>2
  <2>2. /\ y \in Seq(Words) /\ Len(y) = IF m + 1 <= b THEN b - (m + 1) + 1 ELSE 0
        /\ \A k \in 1 .. b - (m + 1) + 1 : y[k] = w[(m + 1) + k - 1]
    BY <1>1, <2>1, SubSeqProperties, m + 1 \in Int, b \in Int
  <2>3. b - (m + 1) + 1 = b - m /\ (~(m + 1 <= b) => b - m = 0)
    BY <1>1
  <2>4. \A k \in Int : (m + 1) + k - 1 = m + k
    BY <1>1
  <2>5. Len(y) = b - m
    BY <2>2, <2>3
  <2>6. ASSUME NEW k \in 1 .. b - m PROVE y[k] = w[m + k]
    <3>1. y[k] = w[(m + 1) + k - 1]
      BY <2>2, <2>3
    <3> QED
      BY <2>4, <3>1, k \in Int
  <2>7. y \in Seq(Words)
    BY <2>2
  <2> QED
    BY <2>5, <2>6, <2>7
<1>5. /\ u \in Seq(Words) /\ Len(u) = a + b /\ t <= n /\ Len(u) = 3 * (n - t)
      /\ \A k \in 1 .. a + b : u[k] = Word(3 * t + (k - 1))
      /\ \A k \in 1 .. a + b : u[k] = IF k <= a THEN h[k] ELSE w[k - a]
  BY ConcatProperties DEF Continues
<1> HIDE DEF x, y, u, b
<1>6. /\ d \in Seq(Words) /\ Len(d) = a + m
      /\ \A k \in 1 .. a + m : d[k] = IF k <= a THEN h[k] ELSE x[k - a]
  BY <1>3, ConcatProperties DEF x, Received
<1>14. 3 * p <= Len(d)
  OBVIOUS
<1> HIDE DEF a, d
<1>7. \A k \in 1 .. a + m : d[k] = u[k]
  <2> SUFFICES ASSUME NEW k \in 1 .. a + m PROVE d[k] = u[k]
    OBVIOUS
  <2>1. k \in 1 .. a + b
    BY <1>1
  <2>2. CASE k <= a
    BY <1>5, <1>6, <2>1, <2>2
  <2>3. CASE ~(k <= a)
    <3>1. k - a \in 1 .. m
      BY <1>1, <2>3
    <3> QED
      BY <1>3, <1>5, <1>6, <2>1, <2>3, <3>1
  <2> QED
    BY <2>2, <2>3
<1>8. \A k \in 1 .. Len(d) : d[k] = Word(3 * t + (k - 1))
  <2>1. \A k \in 1 .. a + m : k \in 1 .. a + b
    BY <1>1
  <2> QED
    BY <1>5, <1>6, <1>7, <2>1
<1>9. /\ z \in Seq(Words) /\ Len(z) = a + m - 3 * p
      /\ \A k \in 1 .. a + m - 3 * p : z[k] = d[3 * p + k]
  <2>0. a + m \in Nat /\ 3 * p + 1 \in Int /\ Len(d) \in Int /\ 3 * p <= a + m
    BY <1>1, <1>6, <1>14
  <2>1. \A k \in 3 * p + 1 .. Len(d) : d[k] \in Words
    <3>1. \A k \in 3 * p + 1 .. Len(d) : k \in 1 .. Len(d)
      BY <1>1, <2>0
    <3> QED
      BY <1>6, <3>1, ElementOfSeq
  <2>2. /\ z \in Seq(Words)
        /\ Len(z) = IF 3 * p + 1 <= Len(d) THEN Len(d) - (3 * p + 1) + 1 ELSE 0
        /\ \A k \in 1 .. Len(d) - (3 * p + 1) + 1 : z[k] = d[(3 * p + 1) + k - 1]
    BY <2>0, <2>1, SubSeqProperties
  <2> HIDE DEF z
  <2>3. Len(d) - (3 * p + 1) + 1 = a + m - 3 * p
    BY <1>1, <1>6, <2>0
  <2>4. \A k \in 1 .. a + m - 3 * p : (3 * p + 1) + k - 1 = 3 * p + k
    BY <1>1
  <2>5. Len(z) = a + m - 3 * p
    BY <1>1, <1>6, <2>0, <2>2
  <2> QED
    BY <2>2, <2>3, <2>4, <2>5
<1> HIDE DEF z
<1> DEFINE v == z \o y
<1>10. /\ v \in Seq(Words) /\ Len(v) = Len(z) + Len(y)
       /\ \A k \in 1 .. Len(z) + Len(y) : v[k] = IF k <= Len(z) THEN z[k] ELSE y[k - Len(z)]
  <2>1. z \in Seq(Words) /\ y \in Seq(Words)
    BY <1>4, <1>9
  <2> QED
    BY <2>1, ConcatProperties
<1>11. 3 * p <= a + m /\ Len(v) = (a + b) - 3 * p
  BY <1>1, <1>4, <1>6, <1>9, <1>10
<1> HIDE DEF v
<1>12. ASSUME NEW k \in 1 .. Len(v) PROVE v[k] = Word(3 * (t + p) + (k - 1))
  <2> DEFINE q == 3 * p
  <2>0. q \in Nat /\ q + k \in 1 .. a + b /\ k \in 1 .. Len(z) + Len(y)
    BY <1>1, <1>10, <1>11
  <2>1. v[k] = u[q + k]
    <3>1. CASE k <= Len(z)
      <4>1. k \in 1 .. (a + m) - q /\ q + k \in 1 .. a + m
        BY <1>1, <1>9, <3>1, <2>0
      <4>2. v[k] = z[k]
        BY <1>10, <2>0, <3>1
      <4>3. z[k] = d[q + k]
        <5>1. k \in 1 .. a + m - 3 * p
          BY <1>1, <4>1
        <5> QED
          BY <1>9, <5>1
      <4> QED
        BY <1>7, <4>1, <4>2, <4>3
    <3>2. CASE ~(k <= Len(z))
      <4>1. Len(z) = (a + m) - q /\ Len(y) = b - m /\ q <= a + m
        BY <1>1, <1>4, <1>9, <1>11
      <4>2. /\ k - Len(z) \in 1 .. b - m /\ m + (k - Len(z)) = (q + k) - a
            /\ ~(q + k <= a)
        BY <1>1, <2>0, <3>2, <4>1
      <4>3. v[k] = w[(q + k) - a]
        BY <1>4, <1>10, <2>0, <3>2, <4>2
      <4> QED
        BY <1>5, <2>0, <4>2, <4>3
    <3> QED
      BY <3>1, <3>2
  <2>2. 3 * t + ((q + k) - 1) = 3 * (t + p) + (k - 1)
    BY <1>1
  <2>3. u[q + k] = Word(3 * t + ((q + k) - 1))
    BY <1>5, <2>0
  <2> QED
    BY <2>1, <2>2, <2>3
<1>13. t + p <= n /\ Len(v) = 3 * (n - (t + p))
  BY <1>1, <1>5, <1>11
<1> QED
  BY <1>4, <1>6, <1>8, <1>9, <1>10, <1>12, <1>13 DEF Continues, v, y, z, d, Rest, UnderWay

-----------------------------------------------------------------------------
(* The blocks: what they count, and that every tag that will still be read is
   at the item it was made of and carries a value of that item alone. *)

PipeTypes ==
  /\ published \in Nat
  /\ nread \in [Block -> Nat] /\ noutput \in [Block -> Nat] /\ count \in [Block -> Nat]
  /\ \A b \in Block : count[b] <= noutput[b] /\ nread[b] + noutput[b] <= Written(b)

Of(i) == [from |-> {i + 1}, passes |-> 0]

TaggedBy(b, keys) == {Tag(i, k, Of(i)) : i \in 0 .. At(b) - 1, k \in keys}

TagInv ==
  /\ estTags = TaggedBy("estimate", {"prf"})
  /\ extTags = TaggedBy("extract", {"prf", "phasor", "hfreq"})

(* Of the stream of numbers, what is before position t has been shown. *)
ShownInv(t) ==
  /\ historic_data \in Seq(Words) /\ ws \in Seq(Words)
  /\ Continues(historic_data \o ws, t, At("locate"))
  /\ RingShows(ring, t)

FeedInv == PipeTypes /\ TagInv /\ \E t \in Nat : ShownInv(t)

LEMMA Counts ==
  ASSUME PipeTypes
  PROVE  /\ {"estimate", "extract", "locate"} = Block
         /\ \A b \in Block : /\ nread[b] \in Nat /\ noutput[b] \in Nat /\ count[b] \in Nat
                             /\ At(b) \in Nat /\ Written(b) \in Nat
                             /\ count[b] <= noutput[b]
                             /\ nread[b] + noutput[b] <= Written(b)
BY DEF PipeTypes, Block, At, Written

(* A round of a block counts an item that is there; no other step counts. *)
LEMMA RoundStep ==
  ASSUME PipeTypes, NEW b \in Block, Round(b)
  PROVE  /\ PipeTypes'
         /\ At(b) < Written(b)
         /\ At(b)' = At(b) + 1 /\ \A c \in Block \ {b} : At(c)' = At(c)
<1>0. /\ published \in Nat
      /\ nread \in [Block -> Nat] /\ noutput \in [Block -> Nat] /\ count \in [Block -> Nat]
      /\ \A c \in Block : count[c] <= noutput[c] /\ nread[c] + noutput[c] <= Written(c)
  BY DEF PipeTypes
<1>1. /\ count' = [count EXCEPT ![b] = @ + 1] /\ count[b] < noutput[b]
      /\ UNCHANGED <<published, nread, noutput>>
  BY DEF Round
<1>2. /\ count' \in [Block -> Nat] /\ count'[b] = count[b] + 1
      /\ \A c \in Block \ {b} : count'[c] = count[c]
  BY <1>0, <1>1
<1>3. \A c \in Block : count'[c] <= noutput[c]
  BY <1>0, <1>1, <1>2
<1>4. \A c \in Block : Written(c)' = Written(c)
  BY <1>1 DEF Written
<1>5. PipeTypes'
  BY <1>0, <1>1, <1>2, <1>3, <1>4 DEF PipeTypes
<1>6. At(b)' = At(b) + 1 /\ \A c \in Block \ {b} : At(c)' = At(c)
  BY <1>0, <1>1, <1>2 DEF At
<1>7. At(b) < Written(b)
  BY <1>1, Counts DEF At
<1> QED
  BY <1>5, <1>6, <1>7

LEMMA CountStep ==
  ASSUME PipeTypes, PipeNext
  PROVE  /\ PipeTypes'
         /\ Publish \/ (\E b \in Block : Work(b)) => \A c \in Block : At(c)' = At(c)
<1>0. /\ published \in Nat
      /\ nread \in [Block -> Nat] /\ noutput \in [Block -> Nat] /\ count \in [Block -> Nat]
      /\ \A b \in Block : count[b] <= noutput[b] /\ nread[b] + noutput[b] <= Written(b)
  BY DEF PipeTypes
<1>1. CASE Publish
  <2>1. \A b \in Block : Written(b)' >= Written(b)
    BY <1>0, <1>1 DEF Publish, Written, Block
  <2>2. \A b \in Block : Written(b) \in Nat /\ Written(b)' \in Nat
    BY <1>0, <1>1 DEF Publish, Written, Block
  <2> QED
    BY <1>0, <1>1, <2>1, <2>2 DEF Publish, PipeTypes, At
<1>2. ASSUME NEW b \in Block, Round(b) PROVE PipeTypes'
  BY <1>2, RoundStep
<1>3. ASSUME NEW b \in Block, CallWork(b) PROVE PipeTypes' /\ \A c \in Block : At(c)' = At(c)
  <2>1. PICK n \in 1 .. BufMax :
           /\ n <= Written(b) - nread[b] /\ noutput' = [noutput EXCEPT ![b] = n]
    BY <1>3 DEF CallWork
  <2>2. noutput[b] = 0 /\ UNCHANGED <<published, nread, count>> /\ n \in Nat
    BY <1>3, PipelineAssumption, n \in 1 .. BufMax DEF CallWork
  <2>3. /\ noutput' \in [Block -> Nat] /\ noutput'[b] = n
        /\ \A c \in Block \ {b} : noutput'[c] = noutput[c]
    BY <1>0, <2>1, <2>2
  <2>4. \A c \in Block : Written(c)' = Written(c) /\ Written(c) \in Nat
    BY <1>0, <2>2 DEF Written, Block
  <2>5. \A c \in Block : count[c] <= noutput'[c] /\ nread[c] + noutput'[c] <= Written(c)
    <3>1. count[b] <= n /\ nread[b] + n <= Written(b)
      BY <1>0, <2>1, <2>2, <2>4
    <3> QED
      BY <1>0, <2>3, <3>1
  <2>6. \A c \in Block : count'[c] <= noutput'[c] /\ (nread[c] + noutput[c])' <= Written(c)'
    BY <2>2, <2>4, <2>5
  <2> QED
    BY <1>0, <2>2, <2>3, <2>6 DEF PipeTypes, At
<1>4. ASSUME NEW b \in Block, WorkReturns(b)
      PROVE  PipeTypes' /\ \A c \in Block : At(c)' = At(c)
  <2>1. /\ count[b] = noutput[b] /\ published' = published
        /\ nread' = [nread EXCEPT ![b] = @ + noutput[b]]
        /\ noutput' = [noutput EXCEPT ![b] = 0]
        /\ count' = [count EXCEPT ![b] = 0]
    BY <1>4 DEF WorkReturns
  <2>2. /\ nread' \in [Block -> Nat] /\ noutput' \in [Block -> Nat]
        /\ count' \in [Block -> Nat]
        /\ nread'[b] = nread[b] + noutput[b] /\ noutput'[b] = 0 /\ count'[b] = 0
        /\ \A c \in Block \ {b} :
             nread'[c] = nread[c] /\ noutput'[c] = noutput[c] /\ count'[c] = count[c]
    BY <1>0, <2>1
  <2>3. \A c \in Block : Written(c)' >= Written(c) /\ Written(c) \in Nat /\ Written(c)' \in Nat
    <3>1. \A c \in Block : nread'[c] >= nread[c]
      BY <1>0, <2>2
    <3> QED
      BY <1>0, <2>1, <2>2, <3>1 DEF Written, Block
  <2>4. \A c \in Block : nread'[c] + noutput'[c] = nread[c] + noutput[c]
    BY <1>0, <2>2
  <2>5. \A c \in Block : nread'[c] + noutput'[c] <= Written(c)'
    BY <1>0, <2>3, <2>4
  <2>6. \A c \in Block : count'[c] <= noutput'[c]
    BY <1>0, <2>2
  <2>7. \A c \in Block : At(c)' = At(c)
    BY <1>0, <2>1, <2>2 DEF At
  <2> QED
    BY <1>0, <2>1, <2>2, <2>5, <2>6, <2>7 DEF PipeTypes
<1>5. EstimatePrf \/ ExtractHarmonics \/ Locate => \E b \in Block : Round(b)
  BY DEF EstimatePrf, ExtractHarmonics, Locate, Block
<1> QED
  <2>1. Publish \/ (\E b \in Block : Work(b)) =>
          PipeTypes' /\ \A c \in Block : At(c)' = At(c)
    BY <1>1, <1>3, <1>4 DEF Work
  <2> QED
    BY <1>2, <1>5, <2>1 DEF PipeNext

(* The tags of the next item of a block whose upstream has handled it. *)
LEMMA TagsOfItem ==
  ASSUME PipeTypes, NEW b \in Block, NEW c \in Block, NEW keys, At(b) < At(c)
  PROVE  /\ TagsAt(TaggedBy(c, keys), b) = {Tag(At(b), k, Of(At(b))) : k \in keys}
         /\ \A k \in keys : \A old : Latest(TagsAt(TaggedBy(c, keys), b), k, old) = Of(At(b))
<1> DEFINE i == At(b)
           seen == TagsAt(TaggedBy(c, keys), b)
<1>1. i \in 0 .. At(c) - 1 /\ i \in Nat
  BY Counts
<1>2. seen = {Tag(i, k, Of(i)) : k \in keys}
  <2> HIDE DEF i
  <2>1. ASSUME NEW x \in seen PROVE x \in {Tag(i, k, Of(i)) : k \in keys}
    <3>1. x.at = i /\ x \in TaggedBy(c, keys)
      BY <2>1 DEF TagsAt, i
    <3>2. PICK j \in 0 .. At(c) - 1, k \in keys : x = Tag(j, k, Of(j))
      BY <3>1 DEF TaggedBy
    <3>3. j = i
      BY <3>1, <3>2 DEF Tag
    <3> QED
      BY <3>2, <3>3
  <2>2. ASSUME NEW k \in keys PROVE Tag(i, k, Of(i)) \in seen
    <3>1. Tag(i, k, Of(i)) \in TaggedBy(c, keys)
      BY <1>1 DEF TaggedBy
    <3>2. Tag(i, k, Of(i)).at = i
      BY DEF Tag
    <3> QED
      BY <3>1, <3>2 DEF TagsAt, i
  <2> QED
    BY <2>1, <2>2
<1> HIDE DEF seen, i
<1>3. ASSUME NEW k \in keys, NEW old PROVE Latest(seen, k, old) = Of(i)
  <2>1. /\ Tag(i, k, Of(i)) \in seen /\ Tag(i, k, Of(i)).key = k
    BY <1>2 DEF Tag
  <2>2. \A x \in seen : x.value = Of(i)
    BY <1>2 DEF Tag
  <2> QED
    BY <2>1, <2>2 DEF Latest
<1> QED
  BY <1>2, <1>3 DEF seen, i

LEMMA TaggedMore ==
  ASSUME NEW b \in Block, NEW keys, At(b) \in Nat, At(b)' = At(b) + 1
  PROVE  TaggedBy(b, keys)' = TaggedBy(b, keys) \cup {Tag(At(b), k, Of(At(b))) : k \in keys}
<1> DEFINE i == At(b)
<1>1. 0 .. (i + 1) - 1 = (0 .. i - 1) \cup {i}
  OBVIOUS
<1>2. TaggedBy(b, keys)' = {Tag(j, k, Of(j)) : j \in 0 .. (i + 1) - 1, k \in keys}
  BY DEF TaggedBy
<1> HIDE DEF i
<1> QED
  BY <1>1, <1>2 DEF TaggedBy, i

LEMMA TaggedSame ==
  ASSUME NEW b \in Block, NEW keys, At(b)' = At(b)
  PROVE  TaggedBy(b, keys)' = TaggedBy(b, keys)
BY DEF TaggedBy

LEMMA UpstreamAhead ==
  ASSUME PipeTypes
  PROVE  /\ "estimate" \in Block /\ "extract" \in Block /\ "locate" \in Block
         /\ Written("extract") <= At("estimate") /\ Written("locate") <= At("extract")
<1>1. "estimate" \in Block /\ "extract" \in Block /\ "locate" \in Block
  BY DEF Block
<1>2. Written("extract") = nread["estimate"] /\ Written("locate") = nread["extract"]
  BY DEF Written
<1> QED
  BY <1>1, <1>2, Counts DEF At

LEMMA TagStep ==
  ASSUME PipeTypes, TagInv, PipeNext
  PROVE  TagInv'
<1>0. /\ "estimate" \in Block /\ "extract" \in Block /\ "locate" \in Block
      /\ At("estimate") \in Nat /\ At("extract") \in Nat
      /\ "estimate" # "extract" /\ "extract" # "locate" /\ "estimate" # "locate"
  BY UpstreamAhead, Counts
<1>1. CASE EstimatePrf
  <2>1. At("estimate")' = At("estimate") + 1 /\ At("extract")' = At("extract")
    BY <1>0, <1>1, RoundStep DEF EstimatePrf
  <2>2. estTags' = estTags \cup {Tag(At("estimate"), k, Of(At("estimate"))) : k \in {"prf"}}
    BY <1>1 DEF EstimatePrf, Of
  <2>3. extTags' = extTags
    BY <1>1 DEF EstimatePrf, extVars
  <2> QED
    BY <1>0, <2>1, <2>2, <2>3, TaggedMore, TaggedSame DEF TagInv
<1>2. CASE ExtractHarmonics
  <2> DEFINE i == At("extract")
             keys == {"prf", "phasor", "hfreq"}
             seen == TagsAt(estTags, "extract")
             prf == Latest(seen, "prf", d_prf_est)
  <2>1. i' = i + 1 /\ At("estimate")' = At("estimate") /\ i < Written("extract")
    BY <1>0, <1>2, RoundStep DEF ExtractHarmonics
  <2>2. i < At("estimate")
    BY <2>1, UpstreamAhead, Counts
  <2>3. seen = {Tag(i, k, Of(i)) : k \in {"prf"}} /\ prf = Of(i)
    BY <1>0, <2>2, TagsOfItem, Zenon DEF TagInv
  <2>4. /\ extTags' = extTags \cup seen \cup
               {Tag(i, "phasor", [from |-> {i + 1} \cup prf.from, passes |-> 0]),
                Tag(i, "hfreq", [from |-> prf.from, passes |-> 0])}
        /\ estTags' = estTags
    BY <1>2, Zenon DEF ExtractHarmonics
  <2>5. /\ [from |-> {i + 1} \cup prf.from, passes |-> 0] = Of(i)
        /\ [from |-> prf.from, passes |-> 0] = Of(i)
    BY <2>3 DEF Of
  <2> HIDE DEF i, seen, prf
  <2>6. extTags' = extTags \cup {Tag(i, k, Of(i)) : k \in keys}
    BY <2>3, <2>4, <2>5
  <2> QED
    BY <1>0, <2>1, <2>4, <2>6, TaggedMore, TaggedSame DEF TagInv, i
<1>3. CASE Locate
  <2>1. At("estimate")' = At("estimate") /\ At("extract")' = At("extract")
    BY <1>0, <1>3, RoundStep DEF Locate
  <2>2. UNCHANGED <<estTags, extTags>>
    BY <1>3 DEF Locate, extVars
  <2> QED
    BY <1>0, <2>1, <2>2, TaggedSame DEF TagInv
<1>4. CASE Publish \/ \E b \in Block : Work(b)
  <2>1. At("estimate")' = At("estimate") /\ At("extract")' = At("extract")
    BY <1>0, <1>4, CountStep
  <2>2. UNCHANGED <<estTags, extTags>>
    BY <1>4 DEF Publish, Work, CallWork, WorkReturns, extVars
  <2> QED
    BY <1>0, <2>1, <2>2, TaggedSame DEF TagInv
<1> QED
  BY <1>1, <1>2, <1>3, <1>4 DEF PipeNext

(* So what harmonic_localizer sends is the position of the snapshot at hand:
   all it computes from comes with the tags of that item. *)
LEMMA SendsGood ==
  ASSUME PipeTypes, TagInv, Locate
  PROVE  ws' = ws \o Good(At("locate") + 1) /\ At("locate")' = At("locate") + 1
<1> DEFINE i == At("locate")
           keys == {"prf", "phasor", "hfreq"}
           seen == TagsAt(extTags, "locate")
<1>0. "locate" \in Block /\ "extract" \in Block /\ i \in Nat
  BY UpstreamAhead, Counts
<1>1. i' = i + 1 /\ i < Written("locate")
  BY <1>0, RoundStep DEF Locate
<1>2. i < At("extract")
  BY <1>1, UpstreamAhead, Counts
<1>3. \A k \in keys : \A old : Latest(seen, k, old) = Of(i)
  <2>1. extTags = TaggedBy("extract", keys)
    BY DEF TagInv
  <2> HIDE DEF keys
  <2>2. \A k \in keys : \A old :
           Latest(TagsAt(TaggedBy("extract", keys), "locate"), k, old) = Of(At("locate"))
    BY <1>0, <1>2, TagsOfItem, Zenon
  <2> QED
    BY <2>1, <2>2, Zenon
<1>4. /\ Latest(seen, "phasor", d_harmonic_phasors) = Of(i)
      /\ Latest(seen, "hfreq", d_harmonic_freqs) = Of(i)
      /\ Latest(seen, "prf", d_prf) = Of(i)
  BY <1>3
<1>5. /\ d_harmonic_phasors' = Pass(Of(i)) /\ d_harmonic_freqs' = Pass(Of(i))
      /\ d_prf' = Of(i)
      /\ ws' = ws \o Numbers(Fix(d_harmonic_phasors', d_harmonic_freqs', d_prf'))
  <2> HIDE DEF i
  <2> QED
    BY <1>4 DEF Locate
<1>6. Fix(Pass(Of(i)), Pass(Of(i)), Of(i)) = [from |-> {i + 1}, passes |-> {1}]
  <2> HIDE DEF i
  <2>1. Pass(Of(i)) = [from |-> {i + 1}, passes |-> 1]
    BY DEF Pass, Of
  <2> QED
    BY <2>1 DEF Fix, Of
<1> QED
  BY <1>1, <1>5, <1>6 DEF Good

-----------------------------------------------------------------------------
(* The whole feed *)

LEMMA InitFeedInv == FeedInit => FeedInv
<1> SUFFICES ASSUME FeedInit PROVE FeedInv
  OBVIOUS
<1>1. PipeTypes
  BY DEF FeedInit, PipeInit, PipeTypes, Written, Block
<1>2. At("estimate") = 0 /\ At("extract") = 0 /\ At("locate") = 0
  BY DEF FeedInit, PipeInit, At, Block
<1>3. TagInv
  BY <1>2 DEF FeedInit, PipeInit, TagInv, TaggedBy
<1>4. historic_data = <<>> /\ ws = <<>> /\ <<>> \in Seq(Words) /\ <<>> \o <<>> = <<>>
  BY DEF FeedInit, PipeInit, WsInit
<1>5. Continues(<<>>, 0, 0)
  BY DEF Continues
<1>6. RingShows(ring, 0)
  <2>1. H \in Nat \ {0}
    BY RingAssumption DEF H
  <2>2. 0 % H = 0
    BY <2>1, ModOfSmall, 0 \in 0 .. H - 1
  <2>3. \A age \in Sprite : (0 - age) % H \in Sprite /\ ~(age < 0)
    BY SpriteOfAge DEF Sprite
  <2>4. /\ ring.cur = 0 /\ ring.valid = 0 /\ DOMAIN ring.place = Sprite
        /\ \A e \in Sprite : ring.scale[e] = 0
    BY DEF FeedInit, WsInit
  <2> QED
    BY <2>1, <2>2, <2>3, <2>4 DEF RingShows, Placed
<1>7. ShownInv(0)
  BY <1>2, <1>4, <1>5, <1>6 DEF ShownInv
<1> QED
  BY <1>1, <1>3, <1>7, 0 \in Nat DEF FeedInv

LEMMA PipeSame ==
  ASSUME PipeTypes, TagInv,
         UNCHANGED <<published, nread, noutput, count, estTags, extTags>>
  PROVE  PipeTypes' /\ TagInv'
<1>1. \A b : Written(b)' = Written(b)
  BY DEF Written
<1>2. PipeTypes'
  BY <1>1 DEF PipeTypes
<1>3. \A b : At(b)' = At(b)
  BY DEF At
<1>4. TagInv'
  BY <1>3, TaggedSame, UpstreamAhead DEF TagInv
<1> QED
  BY <1>2, <1>4

LEMMA DeliverStep ==
  ASSUME NEW t \in Nat, PipeTypes, ShownInv(t), Deliver
  PROVE  \E s \in Nat : ShownInv(s)'
<1> DEFINE n == At("locate")
<1>1. PICK m \in 1 .. MessageMax : /\ m <= Len(ws)
                                   /\ onMessage(SubSeq(ws, 1, m))
                                   /\ ws' = SubSeq(ws, m + 1, Len(ws))
  BY DEF Deliver
<1>2. /\ historic_data \in Seq(Words) /\ ws \in Seq(Words)
      /\ Continues(historic_data \o ws, t, n) /\ RingShows(ring, t)
  BY DEF ShownInv
<1>3. n' = n /\ n \in Nat
  BY UpstreamAhead, Counts DEF Deliver, At
<1> HIDE DEF n
<1> DEFINE d == Received(historic_data, ws, m)
           p == Len(d) \div 3
<1>4. m \in 1 .. Len(ws)
  BY <1>1, <1>2, MessageAssumption
<1>5. /\ ring' = Shown(ring, d, p)
      /\ historic_data' = Rest(d, p) /\ ws' = UnderWay(ws, m)
  BY <1>1 DEF onMessage, Received, Rest, UnderWay
<1>6. d \in Seq(Words) /\ Len(d) \in Nat
  <2>1. SubSeq(ws, 1, m) \in Seq(Words)
    <3>1. \A k \in 1 .. m : ws[k] \in Words
      BY <1>2, <1>4, ElementOfSeq
    <3> QED
      BY <1>4, <3>1, SubSeqProperties, 1 \in Int
  <2> QED
    BY <1>2, <2>1, ConcatProperties, LenProperties DEF Received
<1>7. p \in Nat /\ 3 * p <= Len(d)
  <2> HIDE DEF d
  <2> QED
    BY <1>6
<1> HIDE DEF p
<1>8. /\ \A k \in 1 .. Len(d) : d[k] = Word(3 * t + (k - 1))
      /\ Rest(d, p) \in Seq(Words) /\ UnderWay(ws, m) \in Seq(Words)
      /\ Continues(Rest(d, p) \o UnderWay(ws, m), t + p, n)
  BY <1>2, <1>3, <1>4, <1>7, StreamTaken
<1> HIDE DEF d
<1>9. \A i \in 1 .. p : Triple(d, i) = Good(t + i)
  <2> SUFFICES ASSUME NEW i \in 1 .. p PROVE Triple(d, i) = Good(t + i)
    OBVIOUS
  <2>1. i \in Nat \ {0} /\ 3 * i <= Len(d)
    BY <1>6, <1>7
  <2> QED
    BY <1>6, <1>8, <2>1, TripleIsGood
<1>10. RingShows(Shown(ring, d, p), t + p)
  BY <1>2, <1>7, <1>9, ShownInOrder
<1>11. PICK s \in Nat : s = t + p
  BY <1>7
<1>12. ShownInv(s)'
  <2>1. Continues(historic_data' \o ws', s, n) /\ RingShows(ring', s)
    BY <1>1, <1>5, <1>8, <1>10, <1>11
  <2>2. historic_data' \in Seq(Words) /\ ws' \in Seq(Words)
    BY <1>1, <1>5, <1>8
  <2> QED
    BY <1>3, <2>1, <2>2 DEF ShownInv, n
<1> QED
  BY <1>11, <1>12

LEMMA NextFeedInv == FeedInv /\ [FeedNext]_feedVars => FeedInv'
<1> SUFFICES ASSUME FeedInv, [FeedNext]_feedVars PROVE FeedInv'
  OBVIOUS
<1>1. PipeTypes /\ TagInv
  BY DEF FeedInv
<1>2. PICK t \in Nat : ShownInv(t)
  BY DEF FeedInv
<1>3. CASE PipeNext /\ UNCHANGED wsVars
  <2>1. PipeTypes' /\ TagInv'
    BY <1>1, <1>3, CountStep, TagStep
  <2>2. CASE Locate
    <3>1. ws' = ws \o Good(At("locate") + 1) /\ At("locate")' = At("locate") + 1
      BY <1>1, <2>2, SendsGood
    <3>2. At("locate") \in Nat
      BY <1>1, UpstreamAhead, Counts
    <3>3. /\ historic_data \in Seq(Words) /\ ws \in Seq(Words)
          /\ Continues(historic_data \o ws, t, At("locate"))
      BY <1>2 DEF ShownInv
    <3>4. /\ ws \o Good(At("locate") + 1) \in Seq(Words)
          /\ Continues(historic_data \o (ws \o Good(At("locate") + 1)), t, At("locate") + 1)
      BY <3>2, <3>3, StreamGrows
    <3>5. ShownInv(t)'
      BY <1>2, <1>3, <3>1, <3>3, <3>4 DEF ShownInv, wsVars
    <3> QED
      BY <2>1, <3>5 DEF FeedInv
  <2>3. CASE ~Locate
    <3>1. At("locate")' = At("locate")
      <4>1. "locate" \in Block /\ "estimate" # "locate" /\ "extract" # "locate"
            /\ "estimate" \in Block /\ "extract" \in Block
        BY <1>1, UpstreamAhead
      <4>2. CASE EstimatePrf
        BY <1>1, <4>1, <4>2, RoundStep DEF EstimatePrf
      <4>3. CASE ExtractHarmonics
        BY <1>1, <4>1, <4>3, RoundStep DEF ExtractHarmonics
      <4>4. CASE Publish \/ \E b \in Block : Work(b)
        BY <1>1, <1>3, <4>1, <4>4, CountStep
      <4> QED
        BY <1>3, <2>3, <4>2, <4>3, <4>4 DEF PipeNext
    <3>2. ws' = ws
      BY <1>3, <2>3 DEF PipeNext, Publish, Work, CallWork, WorkReturns, EstimatePrf,
         ExtractHarmonics, locVars
    <3>3. ShownInv(t)'
      BY <1>2, <1>3, <3>1, <3>2 DEF ShownInv, wsVars
    <3> QED
      BY <2>1, <3>3 DEF FeedInv
  <2> QED
    BY <2>2, <2>3
<1>4. CASE Deliver
  <2>1. \E s \in Nat : ShownInv(s)'
    BY <1>1, <1>2, <1>4, DeliverStep
  <2>2. UNCHANGED <<published, nread, noutput, count, estTags, extTags>>
    BY <1>4 DEF Deliver, extVars
  <2>3. PipeTypes' /\ TagInv'
    BY <1>1, <2>2, PipeSame
  <2> QED
    BY <2>1, <2>3 DEF FeedInv
<1>5. CASE UNCHANGED feedVars
  <2>1. UNCHANGED <<published, nread, noutput, count, estTags, extTags, ws,
                    historic_data, ring>>
    BY <1>5 DEF feedVars, pipeVars, wsVars, extVars, locVars
  <2>2. PipeTypes' /\ TagInv'
    BY <1>1, <2>1, PipeSame
  <2>3. ShownInv(t)'
    BY <1>2, <2>1 DEF ShownInv, At
  <2> QED
    BY <2>2, <2>3 DEF FeedInv
<1> QED
  BY <1>3, <1>4, <1>5 DEF FeedNext

LEMMA FeedShowsLatest == FeedInv => ShowsLatest
<1> SUFFICES ASSUME FeedInv PROVE ShowsLatest
  OBVIOUS
<1>1. PICK t \in Nat : ShownInv(t)
  BY DEF FeedInv
<1>2. /\ historic_data \in Seq(Words) /\ ws \in Seq(Words)
      /\ Continues(historic_data \o ws, t, At("locate")) /\ RingShows(ring, t)
  BY <1>1 DEF ShownInv
<1>3. At("locate") \in Nat /\ At("locate") - t \in Int
  BY UpstreamAhead, Counts DEF FeedInv
<1>4. Len(ws) + Len(historic_data) = 3 * (At("locate") - t) + 0
  <2>1. Len(historic_data \o ws) = Len(historic_data) + Len(ws)
    BY <1>2, ConcatProperties
  <2>2. Len(historic_data) \in Nat /\ Len(ws) \in Nat
    BY <1>2, LenProperties
  <2> QED
    BY <1>2, <1>3, <2>1, <2>2 DEF Continues
<1>5. (Len(ws) + Len(historic_data)) \div 3 = At("locate") - t
  BY <1>3, <1>4, DivIs, 0 \in 0 .. 3 - 1
<1>6. Taken = t
  <2>1. "locate" \in Block /\ nread["locate"] \in Nat /\ count["locate"] \in Nat
    BY UpstreamAhead, Counts DEF FeedInv
  <2>2. At("locate") = nread["locate"] + count["locate"]
    BY DEF At
  <2> QED
    BY <1>5, <2>1, <2>2 DEF Taken
<1>7. ASSUME NEW age \in Sprite
      PROVE  LET e == (ring.cur - age) % estimateHistory
             IN  /\ age < t => ring.place[e] = Good(t - age)
                 /\ ring.scale[e] = IF age < t THEN estimateHistory - 1 - age ELSE 0
  <2>1. H \in Nat \ {0} /\ age \in Int /\ t \in Int /\ -age \in Int
    BY SpriteOfAge DEF Sprite
  <2>2. ring.cur = t % H /\ Placed(ring, t, age)
    BY <1>2 DEF RingShows
  <2>3. (ring.cur - age) % H = (t - age) % H
    <3>1. ((t % H) + (-age)) % H = (t + (-age)) % H
      BY <2>1, ModPlus
    <3>2. (t % H) \in Int
      BY <2>1, DivMod
    <3>3. ring.cur - age = (t % H) + (-age) /\ t - age = t + (-age)
      BY <2>1, <2>2, <3>2
    <3> QED
      BY <3>1, <3>3
  <2> QED
    BY <2>2, <2>3 DEF Placed, H
<1> QED
  BY <1>6, <1>7 DEF ShowsLatest, Sprite

(* The page shows the last positions, each computed from its own snapshot
   alone and of whole coordinates, however long the ring is, however many
   items the blocks are called for, and wherever the socket cuts the numbers. *)
THEOREM ShowsLatestHolds == FeedSpec => []ShowsLatest
BY InitFeedInv, NextFeedInv, FeedShowsLatest, PTL DEF FeedSpec

-----------------------------------------------------------------------------
(* ScopeSink *)


InfoType ==
  [rate : Rates, running : BOOLEAN, xy : BOOLEAN, autorange : BOOLEAN,
   marker : Markers, v : 1 .. VScales, t : 1 .. TimeBases]

(* The labels are those of the mode and the cursors, and the buttons of the
   vertical range move its cursor only while it is the one that is used. *)
LabelInv ==
  /\ guts \in [rate : Rates, channel : 0 .. 3, mode : Modes]
  /\ info \in InfoType /\ enabled \in BOOLEAN
  /\ labels \in [v : Nat, t : Nat]
  /\ labels.t = info.t
  /\ labels.v = IF info.autorange THEN AsFound ELSE info.v
  /\ enabled = ~info.autorange

\* One step of DrawnAsLabelled.
Labelled ==
  drawn' # drawn /\ drawn'.kind = "time" => drawn'.x = labels.t /\ drawn'.y = labels.v

LEMMA Lists ==
  /\ VScales \in Nat \ {0} /\ TimeBases \in Nat \ {0}
  /\ \A n \in Nat \ {0} : Middle(n) \in 1 .. n
  /\ \A n \in Nat \ {0} : \A c \in 1 .. n : Prev(c) \in 1 .. n /\ NextOf(c, n) \in 1 .. n
<1>1. VScales \in Nat \ {0} /\ TimeBases \in Nat \ {0}
  BY ScopeAssumption
<1>2. ASSUME NEW n \in Nat \ {0} PROVE Middle(n) \in 1 .. n
  BY SMT DEF Middle
<1>3. ASSUME NEW n \in Nat \ {0}, NEW c \in 1 .. n
      PROVE  Prev(c) \in 1 .. n /\ NextOf(c, n) \in 1 .. n
  BY DEF Prev, NextOf
<1> QED
  BY <1>1, <1>2, <1>3

(* The controls: each leaves the labels true, and draws nothing. *)
LEMMA ControlsKeepLabels ==
  ASSUME LabelInv,
         \/ DecrVScale \/ IncrVScale \/ DecrTimebase \/ IncrTimebase \/ AutorangeBox
         \/ SetMarker \/ XyChoice \/ RunStop \/ TriggerChoice \/ SetGutsRate \/ SetWindowRate
  PROVE  LabelInv' /\ drawn' = drawn
<1> USE Lists DEF LabelInv, InfoType, OfWindow
<1>1. CASE DecrVScale
  <2>1. /\ enabled' = enabled /\ ~info.autorange
        /\ info' = [info EXCEPT !.v = Prev(info.v)] /\ labels' = [labels EXCEPT !.v = info'.v]
    BY <1>1 DEF DecrVScale, UpdateVLabel
  <2>2. info' \in InfoType /\ ~info'.autorange
    BY <2>1
  <2>3. info'.v \in Nat /\ info'.t = info.t
    BY <2>1, <2>2
  <2>4. labels' \in [v : Nat, t : Nat] /\ labels'.t = labels.t /\ labels'.v = info'.v
    BY <2>1, <2>3
  <2> QED
    BY <1>1, <2>1, <2>2, <2>3, <2>4 DEF DecrVScale
<1>2. CASE IncrVScale
  <2>1. /\ enabled' = enabled /\ ~info.autorange
        /\ info' = [info EXCEPT !.v = NextOf(info.v, VScales)]
        /\ labels' = [labels EXCEPT !.v = info'.v]
    BY <1>2 DEF IncrVScale, UpdateVLabel
  <2>2. info' \in InfoType /\ ~info'.autorange
    BY <2>1
  <2>3. info'.v \in Nat /\ info'.t = info.t
    BY <2>1, <2>2
  <2>4. labels' \in [v : Nat, t : Nat] /\ labels'.t = labels.t /\ labels'.v = info'.v
    BY <2>1, <2>3
  <2> QED
    BY <1>2, <2>1, <2>2, <2>3, <2>4 DEF IncrVScale
<1>3. CASE DecrTimebase
  BY <1>3 DEF DecrTimebase, UpdateTimeLabel
<1>4. CASE IncrTimebase
  BY <1>4 DEF IncrTimebase, UpdateTimeLabel
<1>5. CASE AutorangeBox
  <2>1. CASE info.autorange
    <3>1. PICK v \in 1 .. VScales : info' = [info EXCEPT !.autorange = FALSE, !.v = v]
      BY <1>5, <2>1 DEF AutorangeBox, AutorangeOff
    <3>2. labels' = [labels EXCEPT !.v = info'.v] /\ enabled' = TRUE
      BY <1>5, <2>1 DEF AutorangeBox, AutorangeOff, UpdateVLabel
    <3>3. info' \in InfoType /\ ~info'.autorange
      BY <3>1
    <3>4. info'.v \in Nat /\ info'.t = info.t
      BY <3>1, <3>3
    <3>5. labels' \in [v : Nat, t : Nat] /\ labels'.t = labels.t /\ labels'.v = info'.v
      BY <3>2, <3>4
    <3> QED
      BY <1>5, <3>2, <3>3, <3>4, <3>5 DEF AutorangeBox
  <2>2. CASE ~info.autorange
    <3>1. /\ info' = [info EXCEPT !.autorange = TRUE]
          /\ labels' = [labels EXCEPT !.v = 0] /\ enabled' = FALSE
      BY <1>5, <2>2 DEF AutorangeBox, AutorangeOn, AsFound
    <3>2. info' \in InfoType /\ info'.autorange
      BY <3>1
    <3> QED
      BY <1>5, <3>1, <3>2 DEF AutorangeBox, AsFound
  <2> QED
    BY <2>1, <2>2
<1>6. CASE SetMarker
  BY <1>6 DEF SetMarker
<1>7. CASE XyChoice \/ RunStop
  BY <1>7 DEF XyChoice, RunStop
<1>8. CASE TriggerChoice
  <2>1. guts' \in [rate : Rates, channel : 0 .. 3, mode : Modes]
    BY <1>8 DEF TriggerChoice
  <2> QED
    BY <1>8, <2>1 DEF TriggerChoice
<1>9. CASE SetGutsRate
  BY <1>9 DEF SetGutsRate
<1>10. CASE SetWindowRate
  BY <1>10 DEF SetWindowRate
<1> QED
  BY <1>1, <1>2, <1>3, <1>4, <1>5, <1>6, <1>7, <1>8, <1>9, <1>10

LEMMA LabelInvInductive ==
  LabelInv /\ [ScopeNext]_scopeVars => LabelInv' /\ [Labelled]_scopeVars
<1> SUFFICES ASSUME LabelInv, [ScopeNext]_scopeVars
             PROVE  LabelInv' /\ [Labelled]_scopeVars
  OBVIOUS
<1>1. ASSUME UNCHANGED <<guts, info, labels, enabled>> PROVE LabelInv'
  BY <1>1 DEF LabelInv, InfoType
<1>2. CASE UNCHANGED scopeVars
  BY <1>1, <1>2 DEF scopeVars
<1>3. CASE Trigger \/ HandleMsg \/ DropEvent
  BY <1>1, <1>3 DEF Trigger, HandleMsg, DropEvent, TakeEvent, Labelled
<1>4. CASE FormatData
  BY <1>1, <1>4 DEF FormatData, TakeEvent, Labelled, LabelInv
<1>5. CASE FormatXyData
  BY <1>1, <1>5 DEF FormatXyData, TakeEvent, Labelled
<1> QED
  BY <1>2, <1>3, <1>4, <1>5, ControlsKeepLabels DEF ScopeNext, Labelled

(* A trace against time is drawn at the scales the labels show, for lists of
   scales of any length and whatever controls are used between two records. *)
THEOREM DrawnHolds == ScopeSpec => DrawnAsLabelled
<1>1. ASSUME ScopeInit PROVE LabelInv
  <2>1. PICK auto \in BOOLEAN, xy \in BOOLEAN, v \in 1 .. VScales, t \in 1 .. TimeBases :
          /\ info = [rate |-> 1, running |-> TRUE, xy |-> xy, autorange |-> auto,
                     marker |-> "line", v |-> IF auto THEN Middle(VScales) ELSE v, t |-> t]
          /\ labels = [v |-> IF auto THEN AsFound ELSE v, t |-> t]
          /\ enabled = ~auto
    BY <1>1 DEF ScopeInit
  <2>2. info \in InfoType
    BY <2>1, Lists DEF InfoType, Rates, Markers
  <2>3. guts \in [rate : Rates, channel : 0 .. 3, mode : Modes]
    BY <1>1 DEF ScopeInit, Rates, Modes
  <2>4. labels \in [v : Nat, t : Nat]
    BY <2>1, Lists DEF AsFound
  <2> QED
    BY <2>1, <2>2, <2>3, <2>4 DEF LabelInv
<1> QED
  BY <1>1, LabelInvInductive, PTL DEF ScopeSpec, DrawnAsLabelled, Labelled
=============================================================================
