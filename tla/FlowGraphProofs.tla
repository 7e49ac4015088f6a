--------------------------- MODULE FlowGraphProofs ---------------------------
(***************************************************************************)
(* Proofs about the flow graph scripts and the receiver that one of them     *)
(* tunes.  What a script must keep to, for its settings to agree whatever is *)
(* called and whatever two threads do, is stated as rules of its lists of    *)
(* steps (Rules).  The first part proves the properties for any script that  *)
(* keeps the rules; the second that the eight scripts do, for all            *)
(* decimations and values; the third where the inputs of the blocks that     *)
(* know an anchor by its number come from; the last is about the receiver.   *)
(***************************************************************************)
EXTENDS FlowGraphApp, TunedReceiver, NumberLemmas, SequenceTheorems

-----------------------------------------------------------------------------
(* Sequences *)

IsSeq(t) == t \in Seq(Range(t))

LEMMA SeqFacts ==
  ASSUME NEW t, IsSeq(t)
  PROVE  /\ Len(t) \in Nat /\ DOMAIN t = 1 .. Len(t)
         /\ \A n \in 1 .. Len(t) : t[n] \in Range(t)
         /\ \A m \in Range(t) : \E n \in 1 .. Len(t) : t[n] = m
BY DEF IsSeq, Range

LEMMA SeqIn ==
  ASSUME NEW S, NEW t \in Seq(S)
  PROVE  IsSeq(t) /\ Range(t) \subseteq S
<1>1. Range(t) \subseteq S
  BY DEF Range
<1>2. /\ t = [n \in 1 .. Len(t) |-> t[n]] /\ Len(t) \in Nat
      /\ \A n \in 1 .. Len(t) : t[n] \in Range(t)
  BY DEF Range
<1> QED
  BY <1>1, <1>2 DEF IsSeq

LEMMA HeadTail ==
  ASSUME NEW t, IsSeq(t), t # <<>>
  PROVE  /\ Head(t) \in Range(t) /\ Head(t) = t[1] /\ 1 \in DOMAIN t
         /\ IsSeq(Tail(t)) /\ Range(Tail(t)) \subseteq Range(t)
         /\ \A m \in Range(t) : m = Head(t) \/ m \in Range(Tail(t))
         /\ Len(Tail(t)) = Len(t) - 1 /\ Len(t) \in Nat \ {0}
         /\ \A n \in 1 .. Len(t) - 1 : Tail(t)[n] = t[n + 1]
<1>1. t \in Seq(Range(t))
  BY DEF IsSeq
<1>2. Tail(t) \in Seq(Range(t)) /\ Len(Tail(t)) = Len(t) - 1 /\ Len(t) \in Nat \ {0}
  BY <1>1
<1>3. \A n \in 1 .. Len(t) - 1 : Tail(t)[n] = t[n + 1]
  BY <1>1
<1>4. Head(t) = t[1] /\ 1 \in DOMAIN t /\ t[1] \in Range(t)
  BY <1>1, <1>2 DEF Range
<1>5. IsSeq(Tail(t)) /\ Range(Tail(t)) \subseteq Range(t)
  BY <1>2, SeqIn
<1>6. ASSUME NEW m \in Range(t) PROVE m = Head(t) \/ m \in Range(Tail(t))
  <2>1. PICK n \in 1 .. Len(t) : t[n] = m
    BY SeqFacts
  <2>2. CASE n # 1
    <3>1. n - 1 \in 1 .. Len(t) - 1 /\ Tail(t)[n - 1] = t[n]
      BY <1>2, <1>3, <2>2
    <3> QED
      BY <1>2, <1>5, <2>1, <3>1, SeqFacts
  <2> QED
    BY <1>4, <2>1, <2>2
<1> QED
  BY <1>2, <1>3, <1>4, <1>5, <1>6

LEMMA CatFacts ==
  ASSUME NEW t, IsSeq(t), NEW u, IsSeq(u)
  PROVE  /\ IsSeq(t \o u) /\ Len(t \o u) = Len(t) + Len(u)
         /\ Range(t \o u) = Range(t) \union Range(u)
         /\ \A n \in 1 .. Len(t) : (t \o u)[n] = t[n]
         /\ \A n \in 1 .. Len(u) : (t \o u)[Len(t) + n] = u[n]
<1> DEFINE S == Range(t) \union Range(u)
           c == t \o u
<1>1. t \in Seq(S) /\ u \in Seq(S)
  BY DEF IsSeq
<1> HIDE DEF S
<1>2. c \in Seq(S) /\ Len(c) = Len(t) + Len(u) /\ Len(t) \in Nat /\ Len(u) \in Nat
  BY <1>1
<1>3. \A n \in 1 .. Len(t) : c[n] = t[n]
  BY <1>1
<1>4. \A n \in 1 .. Len(u) : c[Len(t) + n] = u[n]
  BY <1>1
<1> HIDE DEF c
<1>5. IsSeq(c) /\ Range(c) \subseteq S
  BY <1>2, SeqIn
<1>6. Range(t) \subseteq Range(c)
  <2> SUFFICES ASSUME NEW m \in Range(t) PROVE m \in Range(c)
    OBVIOUS
  <2>1. PICK n \in 1 .. Len(t) : t[n] = m
    BY SeqFacts
  <2>2. n \in 1 .. Len(c) /\ c[n] = m
    BY <1>2, <1>3, <2>1
  <2> QED
    BY <1>5, <2>2, SeqFacts
<1>7. Range(u) \subseteq Range(c)
  <2> SUFFICES ASSUME NEW m \in Range(u) PROVE m \in Range(c)
    OBVIOUS
  <2>1. PICK n \in 1 .. Len(u) : u[n] = m
    BY SeqFacts
  <2>2. Len(t) + n \in 1 .. Len(c) /\ c[Len(t) + n] = m
    BY <1>2, <1>4, <2>1
  <2> QED
    BY <1>5, <2>2, SeqFacts
<1> QED
  BY <1>2, <1>3, <1>4, <1>5, <1>6, <1>7 DEF c, S

-----------------------------------------------------------------------------
(* The rules *)

Settables(s) == DOMAIN Setters(s) \union DOMAIN Follower(s)
Calls(s, q) == Range(Setters(s)[q])
Makes(s, c, a) == {m \in Range(Construct(s, c)) : m.do = "make" /\ m.attr = a}
\* The step leaves setting k of attribute a with the value of parameter q.
Shows(m, a, k, q) ==
  \/ m.do = "make" /\ m.attr = a /\ k \in DOMAIN m.of /\ m.of[k] = q
  \/ m.do \in {"call", "set"} /\ m.attr = a /\ m.setting = k /\ m.par = q
\* The setter calls a method of an attribute that is never made.
Doomed(s, c, q) == \E m \in Calls(s, q) : Makes(s, c, m.attr) = {}

\* Parameters are kept first, and only then; no others are shown.
KeepsFirst(s, c) ==
  LET all == Construct(s, c)
      first == Head(all).values
  IN /\ IsSeq(all) /\ all # <<>> /\ Head(all).do = "keep"
     /\ \A m \in Range(Tail(all)) : m.do \notin {"keep", "pass"}
     /\ Settables(s) \subseteq DOMAIN first
     /\ \A m \in Range(all) : \A a, k, q : Shows(m, a, k, q) => q \in DOMAIN first
\* A setter calls methods with its parameter, and does nothing else.
SettersCall(s) ==
  \A q \in DOMAIN Setters(s) :
    /\ IsSeq(Setters(s)[q])
    /\ \A m \in Calls(s, q) : m = Call(m.attr, m.setting, q)
\* A parameter that another one follows is not shown itself.
FollowersShow(s, c) ==
  \A p \in DOMAIN Follower(s) :
    /\ p \notin DOMAIN Setters(s) /\ Follower(s)[p] \in DOMAIN Setters(s)
    /\ \A m \in Range(Construct(s, c)) : \A a, k : ~Shows(m, a, k, p)
\* What shows a parameter is told by its setter, or the setter raises.
SettersTell(s, c) ==
  \A q \in DOMAIN Setters(s) :
    \/ Doomed(s, c, q)
    \/ \A m \in Range(Construct(s, c)) : \A a, k :
         Shows(m, a, k, q) => Call(a, k, q) \in Calls(s, q)
\* A value that stands for a parameter is that of the parameter, which stays.
SetsStay(s, c) ==
  LET first == Head(Construct(s, c)).values
  IN \A m \in Range(Construct(s, c)) : m.do = "set" =>
       /\ m.par \notin Settables(s)
       /\ m.par \in DOMAIN first /\ m.val = first[m.par]
\* What a setter calls has been made, of a class that has the method.
Admitted(s, c, q) ==
  \A n \in Calls(s, q) :
    /\ Makes(s, c, n.attr) # {}
    /\ \A m \in Makes(s, c, n.attr) : n.setting \in Classes[m.cls].sets
Target(s, p) == IF p \in DOMAIN Follower(s) THEN Follower(s)[p] ELSE p
Sound(s, c, p) == s # "demo" \/ (p \in {"gain", "param_gain"} /\ ~c.test)
SettersAdmitted(s, c) ==
  \A p \in Settables(s) : Sound(s, c, p) => Admitted(s, c, Target(s, p))
\* What the setter of the second thread calls is made before it is started, and
\* nothing is called after that.
Probed(s) == Follower(s)["chan0_lo_locked"]
ThreadsLate(s, c) ==
  LET all == Construct(s, c)
  IN \A n \in DOMAIN all : all[n].do = "thread" =>
       /\ "chan0_lo_locked" \in DOMAIN Follower(s) /\ s # "demo" /\ s # "mrfm_fft"
       /\ \A m \in Calls(s, Probed(s)) :
            \E k \in 1 .. n - 1 : all[k].do = "make" /\ all[k].attr = m.attr
       /\ \A k \in n + 1 .. Len(all) : all[k].do # "call"

\* The blocks that know an anchor by its number are in rt_harmonia.py alone.
Stages == {"parser", "prf_est", "h_extract", "h_locate"}
StagesAnchor(s, c) == s # "rt_harmonia" => \A b \in Stages : Makes(s, c, b) = {}

Rules(s, c) ==
  /\ KeepsFirst(s, c) /\ SettersCall(s) /\ FollowersShow(s, c) /\ SettersTell(s, c)
  /\ SetsStay(s, c) /\ SettersAdmitted(s, c) /\ ThreadsLate(s, c)
  /\ StagesAnchor(s, c)

-----------------------------------------------------------------------------
(* One step *)

\* The attributes that a step sets, and their values.
Keeps(m) == m.do \in {"keep", "pass"}
Named(m) == IF m.do = "keep" THEN DOMAIN m.values ELSE {m.attr}
Kept(m, value) == IF m.do = "keep" THEN m.values ELSE At(m.attr, value[1])

LEMMA KeptNamed ==
  ASSUME NEW m, NEW value PROVE DOMAIN Kept(m, value) = Named(m)
BY DEF Kept, Named, At

Shaped == \A a \in DOMAIN objs : DOMAIN objs[a].val = DOMAIN objs[a].of

LEMMA SetToFacts ==
  ASSUME NEW a, NEW setting, NEW par, NEW v, SetTo(a, setting, par, v), a \in DOMAIN objs
  PROVE  /\ DOMAIN objs' = DOMAIN objs
         /\ objs'[a].cls = objs[a].cls /\ objs'[a].file = objs[a].file
         /\ objs'[a].of = Updated(objs[a].of, At(setting, par))
         /\ objs'[a].val = Updated(objs[a].val, At(setting, v))
         /\ \A b \in DOMAIN objs : b # a => objs'[b] = objs[b]
BY DEF SetTo

(* What a step does to the objects there are, and to their classes. *)
LEMMA PerformClasses ==
  ASSUME NEW m, NEW value, Perform(m, value), ~Reads(m, value), ~Raises(m)
  PROVE  /\ DOMAIN objs \subseteq DOMAIN objs'
         /\ m.do = "make" =>
              /\ m.attr \in DOMAIN objs'
              /\ objs'[m.attr].cls = m.cls /\ objs'[m.attr].file = m.file
         /\ \A a \in DOMAIN objs' :
              \/ m.do = "make" /\ a = m.attr
              \/ a \in DOMAIN objs /\ objs'[a].cls = objs[a].cls /\ objs'[a].file = objs[a].file
<1>1. CASE m.do \in {"keep", "pass", "wire", "thread"}
  <2>1. objs' = objs
    BY <1>1 DEF Perform
  <2> QED
    BY <1>1, <2>1
<1>2. CASE m.do = "make"
  <2> DEFINE new == [cls |-> m.cls, file |-> m.file, of |-> m.of,
                     val |-> [k \in DOMAIN m.of |-> pars[m.of[k]]]]
  <2>1. objs' = Updated(objs, At(m.attr, new))
    BY <1>2 DEF Perform
  <2>2. new.cls = m.cls /\ new.file = m.file
    OBVIOUS
  <2> HIDE DEF new
  <2> QED
    BY <1>2, <2>1, <2>2 DEF Updated, At
<1>3. CASE m.do \in {"call", "set"}
  <2>1. m.attr \in DOMAIN objs
    BY <1>3 DEF Raises
  <2>2. PICK v : SetTo(m.attr, m.setting, m.par, v)
    BY <1>3 DEF Perform
  <2> QED
    BY <1>3, <2>1, <2>2, SetToFacts
<1> QED
  BY <1>1, <1>2, <1>3 DEF Perform

(* What it does to the parameters that they show. *)
LEMMA PerformShows ==
  ASSUME NEW m, NEW value, Perform(m, value), ~Reads(m, value), ~Raises(m), Shaped
  PROVE  /\ Shaped'
         /\ Keeps(m) => pars' = Updated(pars, Kept(m, value)) /\ objs' = objs
         /\ ~Keeps(m) => pars' = pars
         /\ \A a \in DOMAIN objs' : \A k \in DOMAIN objs'[a].of :
              \/ /\ Shows(m, a, k, objs'[a].of[k])
                 /\ m.do = "set" => objs'[a].val[k] = m.val
                 /\ m.do = "call" => objs'[a].val[k] = value[1]
                 /\ m.do = "make" => objs'[a].val[k] = pars[objs'[a].of[k]]
              \/ /\ a \in DOMAIN objs /\ k \in DOMAIN objs[a].of
                 /\ objs'[a].of[k] = objs[a].of[k] /\ objs'[a].val[k] = objs[a].val[k]
                 /\ m.do = "call" => m.attr # a \/ m.setting # k
<1>1. CASE m.do \in {"keep", "pass", "wire", "thread"}
  <2>1. objs' = objs
    BY <1>1 DEF Perform
  <2>2. Keeps(m) => pars' = Updated(pars, Kept(m, value))
    BY DEF Perform, Keeps, Kept
  <2>3. ~Keeps(m) => pars' = pars
    BY <1>1 DEF Perform, Keeps
  <2> QED
    BY <1>1, <2>1, <2>2, <2>3 DEF Shaped
<1>2. CASE m.do = "make"
  <2> DEFINE new == [cls |-> m.cls, file |-> m.file, of |-> m.of,
                     val |-> [k \in DOMAIN m.of |-> pars[m.of[k]]]]
  <2>1. objs' = Updated(objs, At(m.attr, new)) /\ pars' = pars
    BY <1>2 DEF Perform
  <2>2. new.of = m.of /\ DOMAIN new.val = DOMAIN m.of
        /\ \A k \in DOMAIN m.of : new.val[k] = pars[m.of[k]]
    OBVIOUS
  <2> HIDE DEF new
  <2>3. ASSUME NEW a \in DOMAIN objs'
        PROVE  (a = m.attr /\ objs'[a] = new) \/ (a # m.attr /\ a \in DOMAIN objs
        /\ objs'[a] = objs[a])
    BY <2>1 DEF Updated, At
  <2>4. Shaped'
    BY <2>2, <2>3 DEF Shaped
  <2>5. ASSUME NEW a \in DOMAIN objs', NEW k \in DOMAIN objs'[a].of
        PROVE  \/ Shows(m, a, k, objs'[a].of[k]) /\ objs'[a].val[k] = pars[objs'[a].of[k]]
               \/ /\ a \in DOMAIN objs /\ k \in DOMAIN objs[a].of
                  /\ objs'[a].of[k] = objs[a].of[k] /\ objs'[a].val[k] = objs[a].val[k]
    BY <1>2, <2>2, <2>3 DEF Shows
  <2>6. ~Keeps(m)
    BY <1>2 DEF Keeps
  <2> QED
    BY <1>2, <2>1, <2>4, <2>5, <2>6
<1>3. CASE m.do \in {"call", "set"}
  <2> DEFINE v == IF m.do = "call" THEN value[1] ELSE m.val
             a0 == m.attr
  <2>1. a0 \in DOMAIN objs
    BY <1>3 DEF Raises
  <2>2. SetTo(a0, m.setting, m.par, v) /\ pars' = pars
    BY <1>3 DEF Perform
  <2>3. /\ DOMAIN objs' = DOMAIN objs
        /\ objs'[a0].of = Updated(objs[a0].of, At(m.setting, m.par))
        /\ objs'[a0].val = Updated(objs[a0].val, At(m.setting, v))
        /\ \A b \in DOMAIN objs : b # a0 => objs'[b] = objs[b]
    <3> HIDE DEF v
    <3> QED
      BY <2>1, <2>2, SetToFacts
  <2>4. Shaped'
    <3> HIDE DEF v, a0
    <3> QED
      BY <2>1, <2>3 DEF Shaped, Updated, At
  <2>5. ASSUME NEW k \in DOMAIN objs'[a0].of
        PROVE  \/ k = m.setting /\ objs'[a0].of[k] = m.par /\ objs'[a0].val[k] = v
               \/ /\ k # m.setting /\ k \in DOMAIN objs[a0].of
                  /\ objs'[a0].of[k] = objs[a0].of[k] /\ objs'[a0].val[k] = objs[a0].val[k]
    <3> HIDE DEF v, a0
    <3> QED
      BY <2>1, <2>3 DEF Shaped, Updated, At
  <2>6. ASSUME NEW a \in DOMAIN objs', NEW k \in DOMAIN objs'[a].of
        PROVE  \/ /\ Shows(m, a, k, objs'[a].of[k])
                  /\ m.do = "set" => objs'[a].val[k] = m.val
                  /\ m.do = "call" => objs'[a].val[k] = value[1]
               \/ /\ a \in DOMAIN objs /\ k \in DOMAIN objs[a].of
                  /\ objs'[a].of[k] = objs[a].of[k] /\ objs'[a].val[k] = objs[a].val[k]
                  /\ m.do = "call" => m.attr # a \/ m.setting # k
    <3>1. CASE a # a0
      BY <2>3, <2>6, <3>1
    <3>2. CASE a = a0
      BY <1>3, <2>1, <2>5, <3>2 DEF Shows
    <3> QED
      BY <3>1, <3>2
  <2>7. ~Keeps(m)
    BY <1>3 DEF Keeps
  <2> QED
    BY <1>3, <2>2, <2>4, <2>6, <2>7
<1> QED
  BY <1>1, <1>2, <1>3 DEF Perform

-----------------------------------------------------------------------------
(* The steps of a setter: values are kept, and then every method that shows *)
(* them is called.                                                           *)

Queue(s, t) ==
  /\ IsSeq(t)
  /\ \A m \in Range(t) :
       Keeps(m) \/ \E q \in DOMAIN Setters(s) : m \in Calls(s, q)
  /\ \A n \in DOMAIN t : Keeps(t[n]) =>
       \A p \in Named(t[n]) :
         /\ p \in Settables(s)
         /\ p \in DOMAIN Setters(s) =>
              \A m \in Calls(s, p) : \E k \in n + 1 .. Len(t) : t[k] = m

LEMMA EmptyQueue ==
  ASSUME NEW s PROVE Queue(s, <<>>)
<1>1. Range(<<>>) = {} /\ DOMAIN <<>> = {}
  BY DEF Range
<1>2. IsSeq(<<>>)
  BY DEF IsSeq
<1> QED
  BY <1>1, <1>2 DEF Queue

LEMMA QueueTail ==
  ASSUME NEW s, NEW t, Queue(s, t), t # <<>>
  PROVE  /\ Queue(s, Tail(t))
         /\ Keeps(Head(t)) => \A p \in Named(Head(t)) :
              /\ p \in Settables(s)
              /\ p \in DOMAIN Setters(s) => Calls(s, p) \subseteq Range(Tail(t))
<1>1. /\ Head(t) \in Range(t) /\ Head(t) = t[1] /\ 1 \in DOMAIN t
      /\ IsSeq(Tail(t)) /\ Range(Tail(t)) \subseteq Range(t)
      /\ Len(Tail(t)) = Len(t) - 1 /\ Len(t) \in Nat \ {0}
      /\ \A n \in 1 .. Len(t) - 1 : Tail(t)[n] = t[n + 1]
  BY HeadTail DEF Queue
<1>2. DOMAIN t = 1 .. Len(t) /\ DOMAIN Tail(t) = 1 .. Len(t) - 1
  BY <1>1, SeqFacts DEF Queue
<1>3. ASSUME NEW n \in DOMAIN Tail(t), Keeps(Tail(t)[n]),
             NEW p \in Named(Tail(t)[n])
      PROVE  /\ p \in Settables(s)
             /\ p \in DOMAIN Setters(s) =>
                  \A m \in Calls(s, p) : \E k \in n + 1 .. Len(Tail(t)) : Tail(t)[k] = m
  <2>1. n + 1 \in DOMAIN t /\ t[n + 1] = Tail(t)[n] /\ n \in Nat
    BY <1>1, <1>2, <1>3
  <2>2. p \in Settables(s)
    BY <1>3, <2>1 DEF Queue
  <2>3. ASSUME p \in DOMAIN Setters(s), NEW m \in Calls(s, p)
        PROVE  \E k \in n + 1 .. Len(Tail(t)) : Tail(t)[k] = m
    <3>1. PICK k \in (n + 1) + 1 .. Len(t) : t[k] = m
      BY <1>3, <2>1, <2>3 DEF Queue
    <3>2. k - 1 \in n + 1 .. Len(Tail(t)) /\ k - 1 \in 1 .. Len(t) - 1 /\ (k - 1) + 1 = k
      BY <1>1, <2>1, <3>1
    <3>3. Tail(t)[k - 1] = m
      BY <1>1, <3>1, <3>2
    <3> QED
      BY <3>2, <3>3
  <2> QED
    BY <2>2, <2>3
<1>4. ASSUME Keeps(Head(t)), NEW p \in Named(Head(t))
      PROVE  /\ p \in Settables(s)
             /\ p \in DOMAIN Setters(s) => Calls(s, p) \subseteq Range(Tail(t))
  <2>1. p \in Settables(s)
    BY <1>1, <1>4 DEF Queue
  <2>2. ASSUME p \in DOMAIN Setters(s), NEW m \in Calls(s, p)
        PROVE  m \in Range(Tail(t))
    <3>1. PICK k \in 1 + 1 .. Len(t) : t[k] = m
      BY <1>1, <1>4, <2>2 DEF Queue
    <3>2. k - 1 \in 1 .. Len(t) - 1 /\ (k - 1) + 1 = k /\ k - 1 \in DOMAIN Tail(t)
      BY <1>1, <1>2, <3>1
    <3>3. Tail(t)[k - 1] = m
      BY <1>1, <3>1, <3>2
    <3> QED
      BY <3>2, <3>3 DEF Range
  <2> QED
    BY <2>1, <2>2
<1> QED
  BY <1>1, <1>3, <1>4 DEF Queue

(* A setter, and what it follows from: values kept in one or two steps, and *)
(* the calls.                                                                *)
LEMMA KeepThenCalls ==
  ASSUME NEW s, SettersCall(s), NEW q \in DOMAIN Setters(s), NEW x, IsSeq(x),
         \A m \in Range(x) : Keeps(m) /\ Named(m) \subseteq Settables(s)
                             /\ Named(m) \intersect DOMAIN Setters(s) \subseteq {q}
  PROVE  /\ Queue(s, x \o Setters(s)[q])
         /\ Range(x \o Setters(s)[q]) = Range(x) \union Calls(s, q)
         /\ Len(x \o Setters(s)[q]) >= Len(x)
<1> DEFINE y == Setters(s)[q]
           t == x \o y
<1>1. IsSeq(y) /\ Range(y) = Calls(s, q) /\ \A m \in Range(y) : m.do = "call"
  <2>1. IsSeq(y) /\ Range(y) = Calls(s, q)
    BY DEF SettersCall, Calls
  <2>2. ASSUME NEW m \in Calls(s, q) PROVE m.do = "call"
    <3>1. m = Call(m.attr, m.setting, q)
      BY DEF SettersCall
    <3> QED
      BY <3>1 DEF Call
  <2> QED
    BY <2>1, <2>2
<1> HIDE DEF y
<1>2. /\ IsSeq(t) /\ Len(t) = Len(x) + Len(y) /\ Range(t) = Range(x) \union Range(y)
      /\ \A n \in 1 .. Len(x) : t[n] = x[n]
      /\ \A n \in 1 .. Len(y) : t[Len(x) + n] = y[n]
  BY <1>1, CatFacts
<1> HIDE DEF t
<1>3. /\ Len(x) \in Nat /\ Len(y) \in Nat /\ DOMAIN t = 1 .. Len(t)
      /\ \A n \in 1 .. Len(x) : x[n] \in Range(x)
      /\ \A n \in 1 .. Len(y) : y[n] \in Range(y)
      /\ \A m \in Range(y) : \E n \in 1 .. Len(y) : y[n] = m
  BY <1>1, <1>2, SeqFacts
<1>4. \A m \in Range(t) : Keeps(m) \/ m \in Calls(s, q)
  BY <1>1, <1>2
<1>5. ASSUME NEW n \in DOMAIN t, Keeps(t[n]), NEW p \in Named(t[n])
      PROVE  /\ p \in Settables(s)
             /\ p \in DOMAIN Setters(s) =>
                  \A m \in Calls(s, p) : \E k \in n + 1 .. Len(t) : t[k] = m
  <2>1. n \in 1 .. Len(x)
    <3> SUFFICES ASSUME n \notin 1 .. Len(x) PROVE FALSE
      OBVIOUS
    <3>1. n - Len(x) \in 1 .. Len(y) /\ Len(x) + (n - Len(x)) = n
      BY <1>2, <1>3, <1>5
    <3>2. t[n] \in Range(y)
      BY <1>2, <1>3, <3>1
    <3> QED
      BY <1>1, <1>5, <3>2 DEF Keeps
  <2>2. t[n] \in Range(x)
    BY <1>2, <1>3, <2>1
  <2>3. p \in Settables(s) /\ (p \in DOMAIN Setters(s) => p = q)
    BY <1>5, <2>2
  <2>4. ASSUME NEW m \in Calls(s, q) PROVE \E k \in n + 1 .. Len(t) : t[k] = m
    <3>1. PICK j \in 1 .. Len(y) : y[j] = m
      BY <1>1, <1>3
    <3>2. Len(x) + j \in n + 1 .. Len(t) /\ t[Len(x) + j] = m
      BY <1>2, <1>3, <2>1, <3>1
    <3> QED
      BY <3>2
  <2> QED
    BY <2>3, <2>4
<1>6. Queue(s, t)
  BY <1>2, <1>4, <1>5 DEF Queue
<1>7. Range(t) = Range(x) \union Calls(s, q) /\ Len(t) >= Len(x)
  BY <1>1, <1>2, <1>3
<1> QED
  BY <1>6, <1>7 DEF t, y

\* A step of the setter of p.
StepOf(s, p, m) ==
  \/ m.do = "keep" /\ Named(m) = {p}
  \/ m.do = "pass" /\ m.par = p /\ m.attr = Target(s, p)
  \/ m \in Calls(s, Target(s, p))

LEMMA SetterShape ==
  ASSUME NEW s, NEW c, Rules(s, c), NEW p \in Settables(s), NEW v
  PROVE  /\ Target(s, p) \in DOMAIN Setters(s)
         /\ Queue(s, Setter(s, p, v)) /\ Setter(s, p, v) # <<>>
         /\ \A m \in Range(Setter(s, p, v)) : StepOf(s, p, m)
         /\ Calls(s, Target(s, p)) \subseteq Range(Setter(s, p, v))
         /\ p \notin DOMAIN Follower(s) =>
              Setter(s, p, v) = <<Put(p, v)>> \o Setters(s)[p]
<1> DEFINE q == Target(s, p)
<1>1. q \in DOMAIN Setters(s) /\ q \in Settables(s)
  BY DEF Rules, FollowersShow, Target, Settables
<1>2. SettersCall(s)
  BY DEF Rules
<1>5. Put(p, v).do = "keep" /\ Named(Put(p, v)) = {p} /\ Keeps(Put(p, v))
  BY DEF Put, Keep, Named, Keeps
<1>6. /\ Pass(p, q).do = "pass" /\ Named(Pass(p, q)) = {q} /\ Keeps(Pass(p, q))
      /\ Pass(p, q).par = p /\ Pass(p, q).attr = q
  <2> HIDE DEF q
  <2> QED
    BY DEF Pass, Named, Keeps
<1>3. CASE p \in DOMAIN Follower(s)
  <2>1. Setter(s, p, v) = <<Put(p, v), Pass(p, q)>> \o Setters(s)[q]
    BY <1>3 DEF Setter, Target
  <2>2. p \notin DOMAIN Setters(s)
    BY <1>3 DEF Rules, FollowersShow
  <2> DEFINE x == <<Put(p, v), Pass(p, q)>>
  <2>3. IsSeq(x) /\ Range(x) \subseteq {Put(p, v), Pass(p, q)} /\ Len(x) = 2
    <3> HIDE DEF q
    <3>1. x \in Seq({Put(p, v), Pass(p, q)}) /\ Len(x) = 2
      OBVIOUS
    <3> QED
      BY <3>1, SeqIn
  <2> HIDE DEF x, q
  <2>4. \A m \in Range(x) : Keeps(m) /\ Named(m) \subseteq Settables(s)
                             /\ Named(m) \intersect DOMAIN Setters(s) \subseteq {q}
    BY <1>1, <1>5, <1>6, <2>2, <2>3
  <2>5. /\ Queue(s, x \o Setters(s)[q])
        /\ Range(x \o Setters(s)[q]) = Range(x) \union Calls(s, q)
        /\ Len(x \o Setters(s)[q]) >= Len(x)
    BY <1>1, <1>2, <2>3, <2>4, KeepThenCalls
  <2>6. Len(<<>>) = 0
    OBVIOUS
  <2>7. \A m \in Range(x) : StepOf(s, p, m)
    BY <1>5, <1>6, <2>3 DEF StepOf, q
  <2>8. \A m \in Calls(s, q) : StepOf(s, p, m)
    BY DEF StepOf, q
  <2>9. x \o Setters(s)[q] # <<>>
    BY <2>3, <2>5, <2>6
  <2>10. Setter(s, p, v) = x \o Setters(s)[q]
    BY <2>1 DEF x
  <2> QED
    BY <1>1, <1>3, <2>5, <2>7, <2>8, <2>9, <2>10 DEF q
<1>4. CASE p \notin DOMAIN Follower(s)
  <2>1. Setter(s, p, v) = <<Put(p, v)>> \o Setters(s)[p] /\ q = p
    BY <1>4 DEF Setter, Target
  <2> DEFINE x == <<Put(p, v)>>
  <2>2. IsSeq(x) /\ Range(x) \subseteq {Put(p, v)} /\ Len(x) = 1
    <3>1. x \in Seq({Put(p, v)}) /\ Len(x) = 1
      OBVIOUS
    <3> QED
      BY <3>1, SeqIn
  <2> HIDE DEF x, q
  <2>4. \A m \in Range(x) : Keeps(m) /\ Named(m) \subseteq Settables(s)
                             /\ Named(m) \intersect DOMAIN Setters(s) \subseteq {p}
    BY <1>5, <2>2
  <2>5. /\ Queue(s, x \o Setters(s)[p])
        /\ Range(x \o Setters(s)[p]) = Range(x) \union Calls(s, p)
        /\ Len(x \o Setters(s)[p]) >= Len(x)
    BY <1>1, <1>2, <2>1, <2>2, <2>4, KeepThenCalls
  <2>6. Len(<<>>) = 0
    OBVIOUS
  <2>7. \A m \in Range(x) : StepOf(s, p, m)
    BY <1>5, <2>2 DEF StepOf
  <2>8. \A m \in Calls(s, p) : StepOf(s, p, m)
    BY <2>1 DEF StepOf, q
  <2>9. x \o Setters(s)[p] # <<>>
    BY <2>2, <2>5, <2>6
  <2>10. Setter(s, p, v) = x \o Setters(s)[p]
    BY <2>1 DEF x
  <2> QED
    BY <1>1, <2>1, <2>5, <2>7, <2>8, <2>9, <2>10 DEF q
<1> QED
  BY <1>3, <1>4

(* What the steps of a setter set and read, and which setters set the state of *)
(* the oscillator.                                                              *)
LEMMA StepNames ==
  ASSUME NEW s, NEW c, Rules(s, c), NEW p \in Settables(s), NEW m, StepOf(s, p, m)
  PROVE  /\ Keeps(m) \/ (m.do = "call" /\ m \in Calls(s, Target(s, p)))
         /\ m.do = "call" => m.par = Target(s, p)
         /\ m.do = "pass" => m.par = p
         /\ m.do \in {"call", "pass"} => m.par \in Settables(s)
         /\ Keeps(m) => Named(m) \subseteq {p, Target(s, p)}
<1>4. Target(s, p) \in Settables(s)
  <2>1. Target(s, p) \in DOMAIN Setters(s)
    BY SetterShape
  <2> QED
    BY <2>1 DEF Settables
<1>1. CASE m \in Calls(s, Target(s, p))
  <2>1. Target(s, p) \in DOMAIN Setters(s)
    BY SetterShape
  <2>2. m = Call(m.attr, m.setting, Target(s, p))
    BY <1>1, <2>1 DEF Rules, SettersCall
  <2>3. m.do = "call" /\ m.par = Target(s, p)
    BY <2>2 DEF Call
  <2> QED
    BY <1>1, <1>4, <2>3 DEF Keeps
<1>2. CASE m.do = "keep" /\ Named(m) = {p}
  BY <1>2 DEF Keeps
<1>3. CASE m.do = "pass" /\ m.par = p /\ m.attr = Target(s, p)
  BY <1>3 DEF Keeps, Named
<1> QED
  BY <1>1, <1>2, <1>3, <1>4 DEF StepOf

LEMMA OscillatorNames ==
  ASSUME NEW s
  PROVE  /\ "chan0_lo_locked" \in DOMAIN Follower(s) =>
              Follower(s)["chan0_lo_locked"] = "lo_locked_probe"
         /\ \A p \in DOMAIN Follower(s) : Follower(s)[p] \in OfOscillator => p \in OfOscillator
<1>1. CASE s \in {"demo", "fft"}
  <2> DEFINE f == [param_samp_rate |-> "samp_rate", param_freq |-> "freq",
                   param_gain |-> "gain", chan0_lo_locked |-> "lo_locked_probe"]
  <2>1. Follower(s) = f
    BY <1>1 DEF Follower
  <2>2. /\ DOMAIN f = {"param_samp_rate", "param_freq", "param_gain", "chan0_lo_locked"}
        /\ f["param_samp_rate"] = "samp_rate" /\ f["param_freq"] = "freq"
        /\ f["param_gain"] = "gain" /\ f["chan0_lo_locked"] = "lo_locked_probe"
    OBVIOUS
  <2> HIDE DEF f
  <2> QED
    BY <2>1, <2>2 DEF OfOscillator
<1>2. CASE s \in {"tx", "cal_tx"}
  <2> DEFINE f == [gain |-> "tun_gain", freq |-> "tun_freq"]
  <2>1. Follower(s) = f
    BY <1>2 DEF Follower
  <2>2. DOMAIN f = {"gain", "freq"} /\ f["gain"] = "tun_gain" /\ f["freq"] = "tun_freq"
    OBVIOUS
  <2> HIDE DEF f
  <2> QED
    BY <2>1, <2>2 DEF OfOscillator
<1>3. CASE s \notin {"demo", "fft", "tx", "cal_tx"}
  <2>1. Follower(s) = <<>> /\ DOMAIN <<>> = {}
    BY <1>3 DEF Follower
  <2> QED
    BY <2>1
<1> QED
  BY <1>1, <1>2, <1>3

-----------------------------------------------------------------------------
(* The inductive invariant, for script s with options c *)

Alive == phase \in {"making", "running"}
Fresh(s, c) ==
  phase = "making" /\ todo = Construct(s, c) /\ DOMAIN objs = {} /\ edges = {}
  /\ ~threads

\* What is left of the constructor.
MakingInv(s, c) ==
  phase = "making" =>
    /\ raised = {} /\ IsSeq(todo) /\ Range(todo) \subseteq Range(Construct(s, c))
    /\ Fresh(s, c) \/ \A m \in Range(todo) : m.do \notin {"keep", "pass"}

\* The objects and connections are those of the steps done.
MadeInv(s, c) ==
  Alive =>
    /\ \A a \in DOMAIN objs : \E m \in Makes(s, c, a) :
         objs[a].cls = m.cls /\ objs[a].file = m.file
    /\ \A m \in Range(Construct(s, c)) : m.do = "make" =>
         m.attr \in DOMAIN objs \/ (phase = "making" /\ m \in Range(todo))
WireInv(s, c) ==
  Alive =>
    /\ \A e \in edges : /\ e \in Range(Construct(s, c)) /\ e.do = "wire"
                        /\ {e.from, e.to} \subseteq DOMAIN objs
    /\ \A m \in Range(Construct(s, c)) : m.do = "wire" =>
         m \in edges \/ (phase = "making" /\ m \in Range(todo))

\* What no setter sets has the value it was given first.
KeptInv(s, c) ==
  Alive =>
    LET first == Head(Construct(s, c)).values
    IN \/ Fresh(s, c)
       \/ /\ DOMAIN first \subseteq DOMAIN pars
          /\ \A p \in DOMAIN first \ Settables(s) : pars[p] = first[p]

\* The second thread finds what its setter calls.
MayProbe(s) == "chan0_lo_locked" \in DOMAIN Follower(s) /\ s # "demo" /\ s # "mrfm_fft"
ThreadInv(s) ==
  /\ phase = "making" => \A n \in DOMAIN todo : todo[n].do = "thread" =>
       /\ MayProbe(s)
       /\ \A m \in Calls(s, Probed(s)) :
            \/ m.attr \in DOMAIN objs
            \/ \E k \in 1 .. n - 1 : todo[k].do = "make" /\ todo[k].attr = m.attr
       /\ \A k \in n + 1 .. Len(todo) : todo[k].do # "call"
  /\ phase = "making" /\ threads => \A m \in Range(todo) : m.do # "call"
  /\ Alive /\ threads =>
       MayProbe(s) /\ \A m \in Calls(s, Probed(s)) : m.attr \in DOMAIN objs
ProbeInv(s) ==
  Alive =>
    /\ Queue(s, probing)
    /\ probing # <<>> => threads
    /\ \A m \in Range(probing) : StepOf(s, "chan0_lo_locked", m)

\* The setter under way, and the setters that have raised an exception.
RunInv(s) ==
  phase = "running" =>
    /\ Queue(s, todo)
    /\ todo # <<>> =>
         /\ calling \in Settables(s)
         /\ \A m \in Range(todo) : StepOf(s, calling, m)
RaiseInv(s, c) == \A p \in raised : ~Sound(s, c, p)

\* What shows a parameter is told by its setter.
ShownInv(s, c) ==
  Alive => \A a \in DOMAIN objs : \A k \in DOMAIN objs[a].of :
    LET q == objs[a].of[k]
    IN /\ q \notin DOMAIN Follower(s) /\ q \in DOMAIN Head(Construct(s, c)).values
       /\ q \in DOMAIN Setters(s) => Doomed(s, c, q) \/ Call(a, k, q) \in Calls(s, q)

\* A setting is that of its parameter, or a thread is about to make it so, or
\* the main thread is about to raise an exception, or the two threads have met
\* in the setter.
Agrees(a, k) == objs[a].val[k] = pars[objs[a].of[k]]
Told(a, k, t) == Call(a, k, objs[a].of[k]) \in Range(t)
WillRaise ==
  phase = "running" /\ \E m \in Range(todo) : m.do = "call" /\ m.attr \notin DOMAIN objs
Met(a, k) == overlapped /\ objs[a].of[k] \in OfOscillator
AgreeInv ==
  Alive /\ raised = {} =>
    \A a \in DOMAIN objs : \A k \in DOMAIN objs[a].of :
      Agrees(a, k) \/ Told(a, k, todo) \/ Told(a, k, probing) \/ WillRaise \/ Met(a, k)

\* A value that has been read is that of the parameter still, unless the two
\* threads are in the setter of the same one.
ArgOK(value, t) ==
  value # <<>> =>
    /\ t # <<>> /\ Head(t).do \in {"call", "pass"}
    /\ value = <<pars[Head(t).par]>> \/ (overlapped /\ Head(t).par \in OfOscillator)
ArgInv(s) ==
  Alive =>
    /\ ArgOK(arg, todo) /\ ArgOK(probeArg, probing)
    /\ calling \in OfOscillator => phase = "running" /\ todo # <<>>
    /\ calling \in OfOscillator /\ probing # <<>> => overlapped
    /\ overlapped => MayProbe(s)

\* The setter that may end early keeps its value first; before, all agree.
TuneInv(s) ==
  s = "mrfm_fft" /\ phase = "running" /\ todo # <<>> =>
    /\ \A m \in Range(Tail(todo)) : m.do # "keep"
    /\ raised = {} /\ Head(todo).do = "keep" =>
         \A a \in DOMAIN objs : \A k \in DOMAIN objs[a].of : Agrees(a, k)

ScriptInv(s, c) ==
  /\ MakingInv(s, c) /\ MadeInv(s, c) /\ WireInv(s, c) /\ KeptInv(s, c)
  /\ ThreadInv(s) /\ ProbeInv(s) /\ RunInv(s) /\ RaiseInv(s, c)
  /\ Shaped /\ ShownInv(s, c) /\ AgreeInv /\ ArgInv(s) /\ TuneInv(s)

AppInv == script \in Scripts /\ o \in OptionsOf(script) /\ ScriptInv(script, o)

-----------------------------------------------------------------------------
(* The steps of the two threads *)

LEMMA KeepsDoNotRaise ==
  ASSUME NEW m, Keeps(m) PROVE ~Raises(m)
BY DEF Raises, Keeps

(* A setter's call of what has been made does not raise. *)
LEMMA CallsDoNotRaise ==
  ASSUME NEW s, NEW c, MadeInv(s, c), Alive, SettersCall(s), NEW q \in DOMAIN Setters(s),
         Admitted(s, c, q), NEW m \in Calls(s, q), m.attr \in DOMAIN objs
  PROVE  ~Raises(m)
<1>1. m = Call(m.attr, m.setting, q)
  BY DEF SettersCall
<1>2. m.do = "call"
  BY <1>1 DEF Call
<1>3. PICK n \in Makes(s, c, m.attr) : objs[m.attr].cls = n.cls
  BY DEF MadeInv
<1>4. m.setting \in Classes[n.cls].sets
  BY DEF Admitted
<1> QED
  BY <1>2, <1>3, <1>4 DEF Raises

(* The objects made and the connections. *)
LEMMA MadeStep ==
  ASSUME NEW s, NEW c, MadeInv(s, c), WireInv(s, c), Alive, NEW m, NEW value,
         Perform(m, value), ~Reads(m, value), ~Raises(m),
         m \in Range(Construct(s, c)) \/ m.do \in {"keep", "pass", "call"},
         phase' = phase,
         phase = "making" => \A n \in Range(todo) : n = m \/ n \in Range(todo')
  PROVE  MadeInv(s, c)' /\ WireInv(s, c)'
<1>1. /\ DOMAIN objs \subseteq DOMAIN objs'
      /\ m.do = "make" =>
           /\ m.attr \in DOMAIN objs'
           /\ objs'[m.attr].cls = m.cls /\ objs'[m.attr].file = m.file
      /\ \A a \in DOMAIN objs' :
           \/ m.do = "make" /\ a = m.attr
           \/ a \in DOMAIN objs /\ objs'[a].cls = objs[a].cls /\ objs'[a].file = objs[a].file
  BY PerformClasses
<1>2. /\ \A a \in DOMAIN objs : \E n \in Makes(s, c, a) :
           objs[a].cls = n.cls /\ objs[a].file = n.file
      /\ \A n \in Range(Construct(s, c)) : n.do = "make" =>
           n.attr \in DOMAIN objs \/ (phase = "making" /\ n \in Range(todo))
  BY DEF MadeInv
<1>3. ASSUME NEW a \in DOMAIN objs'
      PROVE  \E n \in Makes(s, c, a) : objs'[a].cls = n.cls /\ objs'[a].file = n.file
  <2>1. CASE m.do = "make" /\ a = m.attr
    <3>1. m \in Makes(s, c, a)
      BY <2>1 DEF Makes
    <3> QED
      BY <1>1, <2>1, <3>1
  <2>2. CASE a \in DOMAIN objs /\ objs'[a].cls = objs[a].cls /\ objs'[a].file = objs[a].file
    BY <1>2, <2>2
  <2> QED
    BY <1>1, <2>1, <2>2
<1>4. ASSUME NEW n \in Range(Construct(s, c)), n.do = "make"
      PROVE  n.attr \in DOMAIN objs' \/ (phase' = "making" /\ n \in Range(todo'))
  BY <1>1, <1>2, <1>4
<1>5. MadeInv(s, c)'
  BY <1>3, <1>4 DEF MadeInv
<1>6. edges' = IF m.do = "wire" THEN edges \union {m} ELSE edges
  BY DEF Perform, SetTo
<1>7. m.do = "wire" => {m.from, m.to} \subseteq DOMAIN objs /\ m \in Range(Construct(s, c))
  BY DEF Raises
<1>8. /\ \A e \in edges : /\ e \in Range(Construct(s, c)) /\ e.do = "wire"
                          /\ {e.from, e.to} \subseteq DOMAIN objs
      /\ \A n \in Range(Construct(s, c)) : n.do = "wire" =>
           n \in edges \/ (phase = "making" /\ n \in Range(todo))
  BY DEF WireInv
<1>9. \A e \in edges' : /\ e \in Range(Construct(s, c)) /\ e.do = "wire"
                        /\ {e.from, e.to} \subseteq DOMAIN objs'
  BY <1>1, <1>6, <1>7, <1>8
<1>10. ASSUME NEW n \in Range(Construct(s, c)), n.do = "wire"
       PROVE  n \in edges' \/ (phase' = "making" /\ n \in Range(todo'))
  BY <1>6, <1>8, <1>10
<1>11. WireInv(s, c)'
  BY <1>9, <1>10 DEF WireInv
<1> QED
  BY <1>5, <1>11

(* What is shown. *)
LEMMA ShownStep ==
  ASSUME NEW s, NEW c, Rules(s, c), Shaped, ShownInv(s, c), Alive, phase' = phase,
         NEW m, NEW value, Perform(m, value), ~Reads(m, value), ~Raises(m),
         \/ m \in Range(Construct(s, c))
         \/ Keeps(m)
         \/ \E q \in DOMAIN Setters(s) : m \in Calls(s, q)
  PROVE  Shaped' /\ ShownInv(s, c)'
<1> DEFINE first == Head(Construct(s, c)).values
           Kind(a, k, q) == /\ q \notin DOMAIN Follower(s) /\ q \in DOMAIN first
                            /\ q \in DOMAIN Setters(s) =>
                                 Doomed(s, c, q) \/ Call(a, k, q) \in Calls(s, q)
<1>1. /\ Shaped'
      /\ \A a \in DOMAIN objs' : \A k \in DOMAIN objs'[a].of :
           \/ Shows(m, a, k, objs'[a].of[k])
           \/ /\ a \in DOMAIN objs /\ k \in DOMAIN objs[a].of
              /\ objs'[a].of[k] = objs[a].of[k]
  BY PerformShows
<1>2. ASSUME NEW a, NEW k, NEW q, Shows(m, a, k, q) PROVE Kind(a, k, q)
  <2>1. CASE m \in Range(Construct(s, c))
    <3>1. q \notin DOMAIN Follower(s)
      BY <1>2, <2>1 DEF Rules, FollowersShow
    <3>2. q \in DOMAIN first
      BY <1>2, <2>1 DEF Rules, KeepsFirst
    <3>3. q \in DOMAIN Setters(s) => Doomed(s, c, q) \/ Call(a, k, q) \in Calls(s, q)
      BY <1>2, <2>1 DEF Rules, SettersTell
    <3> QED
      BY <3>1, <3>2, <3>3
  <2>2. CASE Keeps(m)
    BY <1>2, <2>2 DEF Shows, Keeps
  <2>3. CASE \E p \in DOMAIN Setters(s) : m \in Calls(s, p)
    <3>1. PICK p \in DOMAIN Setters(s) : m \in Calls(s, p)
      BY <2>3
    <3>2. m = Call(m.attr, m.setting, p)
      BY <3>1 DEF Rules, SettersCall
    <3>3. m.do = "call" /\ m.par = p
      BY <3>2 DEF Call
    <3>4. a = m.attr /\ k = m.setting /\ q = p
      BY <1>2, <3>3 DEF Shows
    <3>5. p \notin DOMAIN Follower(s)
      BY DEF Rules, FollowersShow
    <3>6. p \in DOMAIN first
      BY DEF Rules, KeepsFirst, Settables
    <3> QED
      BY <3>1, <3>2, <3>4, <3>5, <3>6
  <2> QED
    BY <2>1, <2>2, <2>3
<1>3. \A a \in DOMAIN objs : \A k \in DOMAIN objs[a].of : Kind(a, k, objs[a].of[k])
  BY DEF ShownInv
<1> HIDE DEF Kind
<1>4. \A a \in DOMAIN objs' : \A k \in DOMAIN objs'[a].of : Kind(a, k, objs'[a].of[k])
  BY <1>1, <1>2, <1>3
<1>5. ShownInv(s, c)'
  BY <1>4 DEF ShownInv, Kind
<1> QED
  BY <1>1, <1>5

(* What agrees. *)
LEMMA AgreeStep ==
  ASSUME NEW s, NEW c, Rules(s, c), Shaped, ShownInv(s, c), KeptInv(s, c), AgreeInv,
         Alive, raised = {}, NEW m, NEW value,
         Perform(m, value), ~Reads(m, value), ~Raises(m),
         Keeps(m) => \/ DOMAIN objs = {}
           \/ \A p \in Named(m) :
                /\ p \in Settables(s)
                /\ p \in DOMAIN Setters(s) =>
                     /\ Calls(s, p) \subseteq Range(todo') \union Range(probing')
                     /\ Doomed(s, c, p) => WillRaise',
         m.do = "set" => m.val = pars[m.par],
         m.do = "call" => value = <<pars[m.par]>> \/ (overlapped /\ m.par \in OfOscillator),
         overlapped' = overlapped,
         \A n \in Range(todo) \union Range(probing) :
           n.do = "call" /\ n # m => n \in Range(todo') \union Range(probing'),
         WillRaise => WillRaise'
  PROVE  \A a \in DOMAIN objs' : \A k \in DOMAIN objs'[a].of :
           \/ Agrees(a, k)' \/ Told(a, k, todo)' \/ Told(a, k, probing)'
           \/ WillRaise' \/ Met(a, k)'
<1> DEFINE T == Range(todo) \union Range(probing)
           U == Range(todo') \union Range(probing')
<1> SUFFICES ASSUME NEW a \in DOMAIN objs', NEW k \in DOMAIN objs'[a].of, ~WillRaise'
             PROVE  \/ objs'[a].val[k] = pars'[objs'[a].of[k]]
                    \/ Call(a, k, objs'[a].of[k]) \in U
                    \/ overlapped /\ objs'[a].of[k] \in OfOscillator
  BY DEF Agrees, Told, Met
<1>1. /\ Keeps(m) => pars' = Updated(pars, Kept(m, value)) /\ objs' = objs
      /\ ~Keeps(m) => pars' = pars
      /\ \/ /\ Shows(m, a, k, objs'[a].of[k])
            /\ m.do = "set" => objs'[a].val[k] = m.val
            /\ m.do = "call" => objs'[a].val[k] = value[1]
            /\ m.do = "make" => objs'[a].val[k] = pars[objs'[a].of[k]]
         \/ /\ a \in DOMAIN objs /\ k \in DOMAIN objs[a].of
            /\ objs'[a].of[k] = objs[a].of[k] /\ objs'[a].val[k] = objs[a].val[k]
            /\ m.do = "call" => m.attr # a \/ m.setting # k
  BY PerformShows
<1>2. CASE /\ Shows(m, a, k, objs'[a].of[k])
           /\ m.do = "set" => objs'[a].val[k] = m.val
           /\ m.do = "call" => objs'[a].val[k] = value[1]
           /\ m.do = "make" => objs'[a].val[k] = pars[objs'[a].of[k]]
  <2>1. ~Keeps(m)
    BY <1>2 DEF Shows, Keeps
  <2>2. m.do \in {"call", "set"} => m.par = objs'[a].of[k]
    BY <1>2 DEF Shows
  <2>3. m.do \in {"call", "set", "make"}
    BY <1>2 DEF Shows
  <2>4. CASE m.do = "call"
    <3>1. value = <<pars[m.par]>> => value[1] = pars[m.par]
      OBVIOUS
    <3> QED
      BY <1>1, <1>2, <2>1, <2>2, <2>4, <3>1
  <2>5. CASE m.do \in {"set", "make"}
    BY <1>1, <1>2, <2>1, <2>2, <2>5
  <2> QED
    BY <2>3, <2>4, <2>5
<1>3. CASE /\ a \in DOMAIN objs /\ k \in DOMAIN objs[a].of
           /\ objs'[a].of[k] = objs[a].of[k] /\ objs'[a].val[k] = objs[a].val[k]
           /\ m.do = "call" => m.attr # a \/ m.setting # k
  <2> DEFINE q == objs[a].of[k]
  <2>1. \/ objs[a].val[k] = pars[q] \/ Call(a, k, q) \in T
        \/ overlapped /\ q \in OfOscillator
    BY <1>3 DEF AgreeInv, Agrees, Told, Met
  <2>2. Call(a, k, q) \in T => Call(a, k, q) \in U
    <3>1. Call(a, k, q).do = "call" /\ Call(a, k, q).attr = a /\ Call(a, k, q).setting = k
      BY DEF Call
    <3> QED
      BY <1>3, <3>1
  <2>3. CASE Keeps(m) /\ q \in Named(m)
    <3>1. q \in Settables(s) /\ (q \in DOMAIN Setters(s) => Calls(s, q) \subseteq U /\ ~Doomed(s,
            c, q))
      BY <1>3, <2>3
    <3>2. q \notin DOMAIN Follower(s)
          /\ (q \in DOMAIN Setters(s) => Doomed(s, c, q) \/ Call(a, k, q) \in Calls(s, q))
      BY <1>3 DEF ShownInv
    <3>3. q \in DOMAIN Setters(s)
      BY <3>1, <3>2 DEF Settables
    <3> QED
      BY <1>3, <3>1, <3>2, <3>3
  <2>4. CASE ~(Keeps(m) /\ q \in Named(m))
    <3>1. q \in DOMAIN pars
      <4>1. q \in DOMAIN Head(Construct(s, c)).values
        BY <1>3 DEF ShownInv
      <4>2. ~Fresh(s, c)
        BY <1>3 DEF Fresh
      <4> QED
        BY <4>1, <4>2 DEF KeptInv
    <3>2. pars'[q] = pars[q]
      <4>1. CASE Keeps(m)
        BY <1>1, <2>4, <3>1, <4>1, KeptNamed DEF Updated
      <4>2. CASE ~Keeps(m)
        BY <1>1, <4>2
      <4> QED
        BY <4>1, <4>2
    <3> QED
      BY <1>3, <2>1, <2>2, <3>2
  <2> QED
    BY <2>3, <2>4
<1> QED
  BY <1>1, <1>2, <1>3

LEMMA CallsAreCalls ==
  ASSUME NEW s, SettersCall(s), NEW q \in DOMAIN Setters(s), NEW m \in Calls(s, q)
  PROVE  m.do = "call"
<1>1. m = Call(m.attr, m.setting, q)
  BY DEF SettersCall
<1> QED
  BY <1>1 DEF Call

-----------------------------------------------------------------------------
(* A step of the constructor *)

LEMMA MakingStep ==
  ASSUME NEW s, NEW c, Rules(s, c), ScriptInv(s, c), phase = "making", todo # <<>>,
         ~Raises(Head(todo)), Perform(Head(todo), arg), ~Reads(Head(todo), arg),
         todo' = Tail(todo), arg' = <<>>,
         UNCHANGED <<phase, calling, probing, probeArg, raised, overlapped>>
  PROVE  ScriptInv(s, c)'
<1> DEFINE all == Construct(s, c)
           first == Head(all).values
           m == Head(todo)
<1>1. /\ MakingInv(s, c) /\ MadeInv(s, c) /\ WireInv(s, c) /\ KeptInv(s, c)
      /\ ThreadInv(s) /\ ProbeInv(s) /\ RaiseInv(s, c)
      /\ Shaped /\ ShownInv(s, c) /\ AgreeInv /\ ArgInv(s)
  BY DEF ScriptInv
<1>2. Alive /\ phase' = phase /\ raised = {} /\ raised' = {} /\ probing' = probing
  BY <1>1 DEF Alive, MakingInv
<1>3. IsSeq(todo) /\ Range(todo) \subseteq Range(all)
  BY <1>1 DEF MakingInv
<1>4. /\ m \in Range(todo) /\ m = todo[1] /\ 1 \in DOMAIN todo
      /\ IsSeq(todo') /\ Range(todo') \subseteq Range(todo)
      /\ \A n \in Range(todo) : n = m \/ n \in Range(todo')
      /\ Len(todo') = Len(todo) - 1 /\ Len(todo) \in Nat \ {0}
      /\ \A n \in 1 .. Len(todo) - 1 : todo'[n] = todo[n + 1]
  BY <1>3, HeadTail
<1>5. m \in Range(all)
  BY <1>3, <1>4
<1>7. /\ Fresh(s, c) => m = Head(all) /\ m.do = "keep" /\ todo' = Tail(all)
      /\ ~Fresh(s, c) => ~Keeps(m)
  <2>1. Fresh(s, c) => m = Head(all) /\ m.do = "keep" /\ todo' = Tail(all)
    BY DEF Fresh, Rules, KeepsFirst
  <2>2. ~Fresh(s, c) => ~Keeps(m)
    BY <1>1, <1>4 DEF MakingInv, Keeps
  <2> QED
    BY <2>1, <2>2
<1>8. \A n \in Range(todo') : n.do \notin {"keep", "pass"}
  <2>1. Fresh(s, c) => \A n \in Range(todo') : n.do \notin {"keep", "pass"}
    BY <1>7 DEF Rules, KeepsFirst
  <2>2. ~Fresh(s, c) => \A n \in Range(todo') : n.do \notin {"keep", "pass"}
    BY <1>1, <1>4 DEF MakingInv
  <2> QED
    BY <2>1, <2>2
<1> HIDE DEF all, m
<1>9. Perform(m, arg) /\ ~Reads(m, arg) /\ ~Raises(m)
  BY DEF m
<1>10. MakingInv(s, c)'
  BY <1>2, <1>3, <1>4, <1>8 DEF MakingInv, all
<1>11. MadeInv(s, c)' /\ WireInv(s, c)'
  BY <1>1, <1>2, <1>4, <1>5, <1>9, MadeStep DEF all
<1>12. Shaped' /\ ShownInv(s, c)'
  BY <1>1, <1>2, <1>5, <1>9, ShownStep DEF all
<1>13. /\ m.do = "keep" => pars' = Updated(pars, m.values)
       /\ ~Keeps(m) => pars' = pars
  BY <1>1, <1>9, PerformShows DEF Keeps, Kept
<1>14. KeptInv(s, c)'
  <2>1. CASE Fresh(s, c)
    <3>1. pars' = Updated(pars, first)
      BY <1>7, <1>13, <2>1
    <3> HIDE DEF first
    <3>2. DOMAIN first \subseteq DOMAIN pars' /\ \A p \in DOMAIN first : pars'[p] = first[p]
      BY <3>1 DEF Updated
    <3> QED
      BY <3>2 DEF KeptInv, first, all
  <2>2. CASE ~Fresh(s, c)
    BY <1>1, <1>2, <1>7, <1>13, <2>2 DEF KeptInv, first, all
  <2> QED
    BY <2>1, <2>2
<1>15. /\ DOMAIN objs \subseteq DOMAIN objs'
       /\ m.do = "make" => m.attr \in DOMAIN objs'
  BY <1>9, PerformClasses
<1>16. /\ threads => threads'
       /\ threads' => threads \/ m.do = "thread"
  BY <1>9 DEF Perform, SetTo
<1>17. ThreadInv(s)'
  <2>1. ASSUME NEW n \in DOMAIN todo', todo'[n].do = "thread"
        PROVE  /\ MayProbe(s)
               /\ \A d \in Calls(s, Probed(s)) :
                    \/ d.attr \in DOMAIN objs'
                    \/ \E k \in 1 .. n - 1 : todo'[k].do = "make" /\ todo'[k].attr = d.attr
               /\ \A k \in n + 1 .. Len(todo') : todo'[k].do # "call"
    <3>1. n \in 1 .. Len(todo) - 1 /\ n + 1 \in DOMAIN todo /\ todo[n + 1] = todo'[n]
      BY <1>3, <1>4, SeqFacts
    <3>2. MayProbe(s)
      BY <1>1, <1>2, <2>1, <3>1 DEF ThreadInv
    <3>3. ASSUME NEW d \in Calls(s, Probed(s)), d.attr \notin DOMAIN objs'
          PROVE  \E k \in 1 .. n - 1 : todo'[k].do = "make" /\ todo'[k].attr = d.attr
      <4>1. PICK k \in 1 .. (n + 1) - 1 : todo[k].do = "make" /\ todo[k].attr = d.attr
        BY <1>1, <1>15, <2>1, <3>1, <3>3 DEF ThreadInv
      <4>2. k # 1
        BY <1>4, <1>15, <3>3, <4>1
      <4>3. k - 1 \in 1 .. n - 1 /\ todo'[k - 1] = todo[k]
        BY <1>4, <3>1, <4>1, <4>2
      <4> QED
        BY <4>1, <4>3
    <3>4. ASSUME NEW k \in n + 1 .. Len(todo') PROVE todo'[k].do # "call"
      <4>1. k + 1 \in (n + 1) + 1 .. Len(todo) /\ todo'[k] = todo[k + 1]
        BY <1>4, <3>1
      <4> QED
        BY <1>1, <1>2, <2>1, <3>1, <4>1 DEF ThreadInv
    <3> QED
      BY <3>2, <3>3, <3>4
  <2>2. ASSUME threads'
        PROVE  MayProbe(s) /\ \A d \in Calls(s, Probed(s)) : d.attr \in DOMAIN objs'
    <3>1. CASE threads
      BY <1>1, <1>2, <1>15, <3>1 DEF ThreadInv
    <3>2. CASE m.do = "thread"
      <4>1. \A k \in 1 .. 1 - 1 : FALSE
        OBVIOUS
      <4> QED
        BY <1>1, <1>4, <1>15, <3>2, <4>1 DEF ThreadInv
    <3> QED
      BY <1>16, <2>2, <3>1, <3>2
  <2>3. ASSUME threads', NEW d \in Range(todo') PROVE d.do # "call"
    <3>1. CASE threads
      BY <1>1, <1>4, <2>3, <3>1 DEF ThreadInv
    <3>2. CASE m.do = "thread"
      <4>1. PICK k \in 1 .. Len(todo') : todo'[k] = d
        BY <1>4, <2>3, SeqFacts
      <4>2. k + 1 \in 1 + 1 .. Len(todo) /\ todo'[k] = todo[k + 1]
        BY <1>4, <4>1
      <4> QED
        BY <1>1, <1>4, <3>2, <4>1, <4>2 DEF ThreadInv
    <3> QED
      BY <1>16, <2>3, <3>1, <3>2
  <2> QED
    BY <2>1, <2>2, <2>3 DEF ThreadInv
<1>18. ProbeInv(s)'
  <2>1. Queue(s, probing) /\ (probing # <<>> => threads)
        /\ \A d \in Range(probing) : StepOf(s, "chan0_lo_locked", d)
    BY <1>1, <1>2 DEF ProbeInv
  <2> QED
    BY <1>2, <1>16, <2>1 DEF ProbeInv
<1>19. AgreeInv'
  <2>1. Keeps(m) => DOMAIN objs = {}
    BY <1>7 DEF Fresh
  <2>2. m.do = "set" => m.val = pars[m.par]
    <3> SUFFICES ASSUME m.do = "set" PROVE m.val = pars[m.par]
      OBVIOUS
    <3>1. m.par \notin Settables(s) /\ m.par \in DOMAIN first /\ m.val = first[m.par]
      BY <1>5 DEF Rules, SetsStay, all
    <3>2. ~Fresh(s, c)
      BY <1>7
    <3> QED
      BY <1>1, <1>2, <3>1, <3>2 DEF KeptInv, all
  <2>3. \A n \in Range(todo) \union Range(probing) :
          n.do = "call" /\ n # m => n \in Range(todo') \union Range(probing')
    BY <1>2, <1>4
  <2>4. ~WillRaise
    BY DEF WillRaise
  <2>6. m.do = "call" => arg = <<pars[m.par]>> \/ (overlapped /\ m.par \in OfOscillator)
    BY <1>1, <1>2, <1>9 DEF ArgInv, ArgOK, Reads, m
  <2>5. \A a \in DOMAIN objs' : \A k \in DOMAIN objs'[a].of :
          \/ Agrees(a, k)' \/ Told(a, k, todo)' \/ Told(a, k, probing)'
          \/ WillRaise' \/ Met(a, k)'
    BY <1>1, <1>2, <1>9, <2>1, <2>2, <2>3, <2>4, <2>6, AgreeStep
  <2> QED
    BY <2>5 DEF AgreeInv
<1>21. ArgInv(s)'
  <2>1. Keeps(m) => probing = <<>>
    <3>1. Keeps(m) => ~threads
      BY <1>7 DEF Fresh
    <3> QED
      BY <1>1, <1>2, <3>1 DEF ProbeInv
  <2>2. ArgOK(probeArg, probing)'
    BY <1>1, <1>2, <1>13, <2>1 DEF ArgInv, ArgOK
  <2>3. ArgOK(arg, todo)'
    BY DEF ArgOK
  <2> QED
    BY <1>1, <1>2, <2>2, <2>3 DEF ArgInv, MayProbe
<1>20. RunInv(s)' /\ RaiseInv(s, c)' /\ TuneInv(s)'
  BY <1>2 DEF RunInv, RaiseInv, TuneInv
<1> QED
  BY <1>10, <1>11, <1>12, <1>14, <1>17, <1>18, <1>19, <1>20, <1>21 DEF ScriptInv
-----------------------------------------------------------------------------
(* Steps of a setter, in either thread *)

LEMMA QueueStep ==
  ASSUME NEW s, NEW c, KeptInv(s, c), NEW m, NEW value,
         Perform(m, value), ~Reads(m, value), ~Raises(m), phase' = phase,
         Keeps(m) \/ m.do = "call", Keeps(m) => Named(m) \subseteq Settables(s),
         phase = "making" => todo' = todo
  PROVE  /\ KeptInv(s, c)' /\ DOMAIN objs' = DOMAIN objs
         /\ threads' = threads /\ edges' = edges
         /\ Fresh(s, c) => Fresh(s, c)'
<1> DEFINE first == Head(Construct(s, c)).values
<1>1. threads' = threads /\ edges' = edges
  BY DEF Perform, SetTo, Keeps
<1>2. DOMAIN objs' = DOMAIN objs
  <2>1. DOMAIN objs \subseteq DOMAIN objs'
        /\ \A a \in DOMAIN objs' : m.do = "make" \/ a \in DOMAIN objs
    BY PerformClasses
  <2> QED
    BY <2>1 DEF Keeps
<1>3. \/ Keeps(m) /\ pars' = Updated(pars, Kept(m, value))
      \/ pars' = pars
  BY DEF Perform, SetTo, Keeps, Kept
<1>4. Fresh(s, c) => Fresh(s, c)'
  BY <1>1, <1>2 DEF Fresh
<1>5. ASSUME Alive, ~Fresh(s, c)
      PROVE  /\ DOMAIN first \subseteq DOMAIN pars'
             /\ \A p \in DOMAIN first \ Settables(s) : pars'[p] = first[p]
  <2>1. /\ DOMAIN first \subseteq DOMAIN pars
        /\ \A p \in DOMAIN first \ Settables(s) : pars[p] = first[p]
    BY <1>5 DEF KeptInv
  <2> HIDE DEF first
  <2> QED
    BY <1>3, <2>1, KeptNamed DEF Updated
<1>6. KeptInv(s, c)'
  BY <1>4, <1>5 DEF KeptInv, Alive
<1> QED
  BY <1>1, <1>2, <1>4, <1>6

(* The call that is doomed to raise, from its place in the queue. *)
LEMMA DoomedRaises ==
  ASSUME NEW s, NEW c, MadeInv(s, c), phase = "running", SettersCall(s),
         NEW q \in DOMAIN Setters(s), Doomed(s, c, q), NEW t, Calls(s, q) \subseteq Range(t)
  PROVE  \E m \in Range(t) : m.do = "call" /\ m.attr \notin DOMAIN objs
<1>1. PICK m \in Calls(s, q) : Makes(s, c, m.attr) = {}
  BY DEF Doomed
<1>2. m.do = "call"
  BY CallsAreCalls
<1>3. m.attr \notin DOMAIN objs
  BY <1>1 DEF MadeInv, Alive
<1> QED
  BY <1>1, <1>2, <1>3

(* The second thread reads the parameters of the oscillator, and sets no others. *)
LEMMA ProbeNames ==
  ASSUME NEW s, NEW c, Rules(s, c), MayProbe(s), NEW m, StepOf(s, "chan0_lo_locked", m)
  PROVE  /\ Probed(s) = "lo_locked_probe" /\ Target(s, "chan0_lo_locked") = "lo_locked_probe"
         /\ Keeps(m) => Named(m) \subseteq OfOscillator
         /\ m.do \in {"call", "pass"} => m.par \in OfOscillator
<1>1. "chan0_lo_locked" \in Settables(s)
  BY DEF MayProbe, Settables
<1>2. Probed(s) = "lo_locked_probe" /\ Target(s, "chan0_lo_locked") = "lo_locked_probe"
  BY OscillatorNames DEF MayProbe, Probed, Target
<1>3. /\ m.do = "call" => m.par = "lo_locked_probe"
      /\ m.do = "pass" => m.par = "chan0_lo_locked"
      /\ Keeps(m) => Named(m) \subseteq {"chan0_lo_locked", "lo_locked_probe"}
  BY <1>1, <1>2, StepNames
<1> QED
  BY <1>2, <1>3 DEF OfOscillator

(* A step of one setter of the oscillator is one of the others' only. *)
LEMMA OscillatorSetter ==
  ASSUME NEW s, NEW c, Rules(s, c), NEW p \in Settables(s), NEW m, StepOf(s, p, m)
  PROVE  /\ m.do \in {"call", "pass"} /\ m.par \in OfOscillator => p \in OfOscillator
         /\ Keeps(m) => \A q \in Named(m) : q \in OfOscillator => p \in OfOscillator
<1>1. Target(s, p) \in OfOscillator => p \in OfOscillator
  BY OscillatorNames DEF Target
<1> QED
  BY <1>1, StepNames

(* A value that has been read stays that of the parameter while other parameters *)
(* are set.                                                                      *)
LEMMA ArgStays ==
  ASSUME NEW s, NEW c, Rules(s, c), Alive, KeptInv(s, c), ~Fresh(s, c), Shaped,
         NEW m, NEW value, Perform(m, value), ~Reads(m, value), ~Raises(m),
         NEW q \in Settables(s), Keeps(m) => q \notin Named(m)
  PROVE  pars'[q] = pars[q]
<1>1. q \in DOMAIN pars
  BY DEF Rules, KeepsFirst, KeptInv
<1>2. /\ Keeps(m) => pars' = Updated(pars, Kept(m, value))
      /\ ~Keeps(m) => pars' = pars
  BY PerformShows
<1>3. CASE Keeps(m)
  BY <1>1, <1>2, <1>3, KeptNamed DEF Updated
<1> QED
  BY <1>2, <1>3

(* The setter of the second thread. *)
LEMMA ProbeHead ==
  ASSUME NEW s, NEW c, Rules(s, c), Alive, ThreadInv(s), ProbeInv(s), probing # <<>>
  PROVE  /\ threads /\ MayProbe(s) /\ Queue(s, probing) /\ ~Fresh(s, c)
         /\ "chan0_lo_locked" \in Settables(s)
         /\ StepOf(s, "chan0_lo_locked", Head(probing))
<1>1. /\ threads /\ Queue(s, probing)
      /\ \A n \in Range(probing) : StepOf(s, "chan0_lo_locked", n)
  BY DEF ProbeInv
<1>2. Head(probing) \in Range(probing)
  BY <1>1, HeadTail DEF Queue
<1>3. MayProbe(s)
  BY <1>1 DEF ThreadInv
<1>4. ~Fresh(s, c)
  BY <1>1 DEF Fresh
<1> QED
  BY <1>1, <1>2, <1>3, <1>4 DEF MayProbe, Settables

(* What the second thread has read, when the main thread makes a step. *)
LEMMA ProbeArgStays ==
  ASSUME NEW s, NEW c, Rules(s, c), Alive, ArgInv(s), KeptInv(s, c), ThreadInv(s),
         ProbeInv(s), Shaped, calling \in Settables(s), NEW m, StepOf(s, calling, m),
         Perform(m, arg), ~Reads(m, arg), ~Raises(m),
         UNCHANGED <<probing, probeArg, overlapped>>
  PROVE  ArgOK(probeArg, probing)'
<1>1. SUFFICES ASSUME probeArg # <<>> PROVE ArgOK(probeArg, probing)'
  BY DEF ArgOK
<1> DEFINE h == Head(probing)
<1>2. /\ probing # <<>> /\ h.do \in {"call", "pass"}
      /\ probeArg = <<pars[h.par]>> \/ (overlapped /\ h.par \in OfOscillator)
      /\ calling \in OfOscillator => overlapped
  BY <1>1 DEF ArgInv, ArgOK
<1>3. /\ MayProbe(s) /\ ~Fresh(s, c) /\ "chan0_lo_locked" \in Settables(s)
      /\ StepOf(s, "chan0_lo_locked", h)
  BY <1>2, ProbeHead
<1> HIDE DEF h
<1>4. h.par \in OfOscillator
  BY <1>2, <1>3, ProbeNames
<1>5. CASE overlapped
  BY <1>2, <1>4, <1>5 DEF ArgOK, h
<1>6. CASE ~overlapped
  <2>1. Keeps(m) => h.par \notin Named(m)
    BY <1>2, <1>4, <1>6, OscillatorSetter
  <2>2. h.par \in Settables(s)
    BY <1>2, <1>3, StepNames
  <2>3. pars'[h.par] = pars[h.par]
    BY <1>3, <2>1, <2>2, ArgStays
  <2> QED
    BY <1>2, <1>6, <2>3 DEF ArgOK, h
<1> QED
  BY <1>5, <1>6

(* The main thread has read a parameter of the oscillator only in its setter. *)
LEMMA MainReads ==
  ASSUME NEW s, NEW c, Rules(s, c), Alive, ArgInv(s), MakingInv(s, c), ThreadInv(s), RunInv(s),
         threads, arg # <<>>
  PROVE  /\ phase = "running" /\ todo # <<>> /\ calling \in Settables(s)
         /\ StepOf(s, calling, Head(todo)) /\ Head(todo).par \in Settables(s)
         /\ Head(todo).par \in OfOscillator => calling \in OfOscillator
<1> DEFINE h == Head(todo)
<1>1. todo # <<>> /\ h.do \in {"call", "pass"}
  BY DEF ArgInv, ArgOK
<1>2. phase # "making"
  <2> SUFFICES ASSUME phase = "making" PROVE FALSE
    OBVIOUS
  <2>1. ~Fresh(s, c)
    BY DEF Fresh
  <2>2. IsSeq(todo) /\ \A n \in Range(todo) : n.do \notin {"keep", "pass"}
    BY <2>1 DEF MakingInv
  <2>3. h \in Range(todo)
    BY <1>1, <2>2, HeadTail
  <2> QED
    BY <1>1, <2>2, <2>3 DEF ThreadInv
<1>3. phase = "running"
  BY <1>2 DEF Alive
<1>4. /\ Queue(s, todo) /\ calling \in Settables(s)
      /\ \A n \in Range(todo) : StepOf(s, calling, n)
  BY <1>1, <1>3 DEF RunInv
<1>5. h \in Range(todo)
  BY <1>1, <1>4, HeadTail DEF Queue
<1>6. StepOf(s, calling, h)
  BY <1>4, <1>5
<1> HIDE DEF h
<1>7. h.par \in Settables(s)
  BY <1>1, <1>4, <1>6, StepNames
<1>8. h.par \in OfOscillator => calling \in OfOscillator
  BY <1>1, <1>4, <1>6, OscillatorSetter
<1> QED
  BY <1>1, <1>3, <1>4, <1>6, <1>7, <1>8 DEF h

(* What the main thread has read, when the second one makes a step. *)
LEMMA ArgStaysRead ==
  ASSUME NEW s, NEW c, Rules(s, c), Alive, ArgInv(s), KeptInv(s, c), MakingInv(s, c),
         ThreadInv(s), ProbeInv(s), RunInv(s), Shaped, probing # <<>>,
         NEW m, StepOf(s, "chan0_lo_locked", m),
         Perform(m, probeArg), ~Reads(m, probeArg), ~Raises(m),
         UNCHANGED <<todo, arg, overlapped>>
  PROVE  ArgOK(arg, todo)'
<1>1. SUFFICES ASSUME arg # <<>> PROVE ArgOK(arg, todo)'
  BY DEF ArgOK
<1> DEFINE h == Head(todo)
<1>2. /\ todo # <<>> /\ h.do \in {"call", "pass"}
      /\ arg = <<pars[h.par]>> \/ (overlapped /\ h.par \in OfOscillator)
      /\ calling \in OfOscillator => overlapped
  BY <1>1 DEF ArgInv, ArgOK
<1>3. MayProbe(s) /\ ~Fresh(s, c) /\ threads
  BY ProbeHead
<1>4. h.par \in Settables(s) /\ (h.par \in OfOscillator => calling \in OfOscillator)
  BY <1>1, <1>3, MainReads
<1> HIDE DEF h
<1>5. CASE h.par \in OfOscillator
  BY <1>2, <1>4, <1>5 DEF ArgOK, h
<1>6. CASE h.par \notin OfOscillator
  <2>1. Keeps(m) => h.par \notin Named(m)
    BY <1>3, <1>6, ProbeNames
  <2>2. pars'[h.par] = pars[h.par]
    BY <1>3, <1>4, <2>1, ArgStays
  <2> QED
    BY <1>2, <1>6, <2>2 DEF ArgOK, h
<1> QED
  BY <1>5, <1>6

LEMMA SetterStep ==
  ASSUME NEW s, NEW c, Rules(s, c), ScriptInv(s, c), phase = "running", todo # <<>>,
         ~Raises(Head(todo)), Perform(Head(todo), arg), ~Reads(Head(todo), arg),
         todo' = Tail(todo), arg' = <<>>,
         calling' = (IF todo' = <<>> THEN "nothing" ELSE calling),
         UNCHANGED <<phase, probing, probeArg, raised, overlapped>>
  PROVE  ScriptInv(s, c)'
<1> DEFINE m == Head(todo)
<1>1. /\ MadeInv(s, c) /\ WireInv(s, c) /\ KeptInv(s, c)
      /\ ThreadInv(s) /\ ProbeInv(s) /\ RunInv(s) /\ RaiseInv(s, c)
      /\ Shaped /\ ShownInv(s, c) /\ AgreeInv /\ ArgInv(s) /\ TuneInv(s)
  BY DEF ScriptInv
<1>2. Alive /\ phase' = "running" /\ phase' = phase /\ probing' = probing /\ raised' = raised
  BY DEF Alive
<1>3. /\ Queue(s, todo) /\ calling \in Settables(s)
      /\ \A n \in Range(todo) : StepOf(s, calling, n)
  BY <1>1 DEF RunInv
<1>4. SettersCall(s) /\ Target(s, calling) \in DOMAIN Setters(s)
  BY <1>3, SetterShape DEF Rules
<1>5. /\ m \in Range(todo) /\ IsSeq(todo') /\ Range(todo') \subseteq Range(todo)
      /\ \A n \in Range(todo) : n = m \/ n \in Range(todo')
  BY <1>3, HeadTail DEF Queue
<1>6. /\ Queue(s, todo')
      /\ Keeps(m) => \A p \in Named(m) :
           /\ p \in Settables(s)
           /\ p \in DOMAIN Setters(s) => Calls(s, p) \subseteq Range(todo')
  BY <1>3, QueueTail
<1> HIDE DEF m
<1>7. Perform(m, arg) /\ ~Reads(m, arg) /\ ~Raises(m)
  BY DEF m
<1>8. /\ Keeps(m) \/ (m.do = "call" /\ m \in Calls(s, Target(s, calling)))
      /\ Keeps(m) => m.do \in {"keep", "pass"} /\ Named(m) \subseteq {calling, Target(s, calling)}
  BY <1>3, <1>5, StepNames DEF Keeps
<1>9. /\ KeptInv(s, c)' /\ DOMAIN objs' = DOMAIN objs
      /\ threads' = threads /\ edges' = edges
  BY <1>1, <1>2, <1>6, <1>7, <1>8, QueueStep
<1>10. MadeInv(s, c)' /\ WireInv(s, c)'
  BY <1>1, <1>2, <1>5, <1>7, <1>8, MadeStep
<1>11. Shaped' /\ ShownInv(s, c)'
  BY <1>1, <1>2, <1>4, <1>7, <1>8, ShownStep
<1>12. MakingInv(s, c)'
  BY <1>2 DEF MakingInv
<1>13. ThreadInv(s)'
  BY <1>1, <1>2, <1>9 DEF ThreadInv, Alive
<1>14. ProbeInv(s)'
  BY <1>1, <1>2, <1>9 DEF ProbeInv, Alive
<1>15. RunInv(s)'
  BY <1>2, <1>3, <1>5, <1>6 DEF RunInv
<1>16. RaiseInv(s, c)'
  BY <1>1, <1>2 DEF RaiseInv
<1>17. ASSUME raised = {}
       PROVE  \A a \in DOMAIN objs' : \A k \in DOMAIN objs'[a].of :
                \/ Agrees(a, k)' \/ Told(a, k, todo)' \/ Told(a, k, probing)'
                \/ WillRaise' \/ Met(a, k)'
  <2>1. Keeps(m) => \A p \in Named(m) :
          /\ p \in Settables(s)
          /\ p \in DOMAIN Setters(s) =>
               /\ Calls(s, p) \subseteq Range(todo') \union Range(probing')
               /\ Doomed(s, c, p) => WillRaise'
    <3> SUFFICES ASSUME Keeps(m), NEW p \in Named(m), p \in DOMAIN Setters(s),
                        Doomed(s, c, p)
                 PROVE  WillRaise'
      BY <1>6
    <3>1. \E n \in Range(todo') : n.do = "call" /\ n.attr \notin DOMAIN objs
      BY <1>1, <1>4, <1>6, DoomedRaises
    <3> QED
      BY <1>2, <1>9, <3>1 DEF WillRaise
  <2>2. m.do # "set"
    BY <1>8
  <2>5. m.do = "call" => arg = <<pars[m.par]>> \/ (overlapped /\ m.par \in OfOscillator)
    BY <1>1, <1>2, <1>7 DEF ArgInv, ArgOK, Reads, m
  <2>3. \A n \in Range(todo) \union Range(probing) :
          n.do = "call" /\ n # m => n \in Range(todo') \union Range(probing')
    BY <1>2, <1>5
  <2>4. WillRaise => WillRaise'
    <3> SUFFICES ASSUME NEW n \in Range(todo), n.do = "call", n.attr \notin DOMAIN objs
                 PROVE  WillRaise'
      BY DEF WillRaise
    <3>1. n # m
      BY <1>7 DEF Raises
    <3> QED
      BY <1>2, <1>5, <1>9, <3>1 DEF WillRaise
  <2> QED
    BY <1>1, <1>2, <1>7, <1>17, <2>1, <2>2, <2>3, <2>4, <2>5, AgreeStep
<1>18. AgreeInv'
  BY <1>2, <1>17 DEF AgreeInv
<1>19. TuneInv(s)'
  <2> SUFFICES ASSUME s = "mrfm_fft", todo' # <<>>
               PROVE  /\ \A n \in Range(Tail(todo')) : n.do # "keep"
                      /\ Head(todo').do # "keep"
    BY <1>2 DEF TuneInv
  <2>1. \A n \in Range(todo') : n.do # "keep"
    BY <1>1 DEF TuneInv
  <2>2. Head(todo') \in Range(todo') /\ Range(Tail(todo')) \subseteq Range(todo')
    BY <1>5, HeadTail
  <2> QED
    BY <2>1, <2>2
<1>20. ArgInv(s)'
  <2>1. ArgOK(probeArg, probing)'
    BY <1>1, <1>2, <1>3, <1>5, <1>7, ProbeArgStays
  <2>2. ArgOK(arg, todo)'
    BY DEF ArgOK
  <2>3. calling' \in OfOscillator => calling' = calling /\ todo' # <<>>
    BY DEF OfOscillator
  <2> QED
    BY <1>1, <1>2, <2>1, <2>2, <2>3 DEF ArgInv, MayProbe
<1> QED
  BY <1>9, <1>10, <1>11, <1>12, <1>13, <1>14, <1>15, <1>16, <1>18, <1>19, <1>20 DEF ScriptInv

(* A setter that raises an exception is one of those that may. *)
LEMMA SetterRaises ==
  ASSUME NEW s, NEW c, Rules(s, c), ScriptInv(s, c), phase = "running", todo # <<>>,
         Raises(Head(todo)), todo' = <<>>, arg' = <<>>, raised' = raised \union {calling},
         calling' = "nothing",
         UNCHANGED <<phase, pars, objs, edges, probing, probeArg, threads, overlapped>>
  PROVE  ScriptInv(s, c)'
<1> DEFINE m == Head(todo)
<1>1. /\ MadeInv(s, c) /\ WireInv(s, c) /\ KeptInv(s, c)
      /\ ThreadInv(s) /\ ProbeInv(s) /\ RunInv(s) /\ RaiseInv(s, c)
      /\ Shaped /\ ShownInv(s, c) /\ ArgInv(s)
  BY DEF ScriptInv
<1>2. phase' = "running" /\ raised' # {}
  OBVIOUS
<1>3. /\ Queue(s, todo) /\ calling \in Settables(s)
      /\ \A n \in Range(todo) : StepOf(s, calling, n)
  BY <1>1 DEF RunInv
<1>4. SettersCall(s) /\ SettersAdmitted(s, c) /\ Target(s, calling) \in DOMAIN Setters(s)
  BY <1>3, SetterShape DEF Rules
<1>5. m \in Range(todo)
  BY <1>3, HeadTail DEF Queue
<1>6. m \in Calls(s, Target(s, calling))
  BY <1>3, <1>5, StepNames, KeepsDoNotRaise
<1>7. ~Sound(s, c, calling)
  <2> SUFFICES ASSUME Sound(s, c, calling) PROVE FALSE
    OBVIOUS
  <2>1. Admitted(s, c, Target(s, calling))
    BY <1>3, <1>4 DEF SettersAdmitted
  <2>2. Makes(s, c, m.attr) # {}
    BY <1>6, <2>1 DEF Admitted
  <2>3. m.attr \in DOMAIN objs
    BY <1>1, <2>2 DEF MadeInv, Alive, Makes
  <2> HIDE DEF m
  <2>4. ~Raises(m)
    BY <1>1, <1>4, <1>6, <2>1, <2>3, CallsDoNotRaise DEF Alive
  <2> QED
    BY <2>4 DEF m
<1>8. RaiseInv(s, c)'
  BY <1>1, <1>7 DEF RaiseInv
<1>9. MadeInv(s, c)' /\ WireInv(s, c)' /\ ShownInv(s, c)' /\ Shaped'
  BY <1>1, <1>2 DEF MadeInv, WireInv, ShownInv, Shaped, Alive
<1>10. KeptInv(s, c)'
  BY <1>1, <1>2 DEF KeptInv, Alive, Fresh
<1>11. ThreadInv(s)' /\ ProbeInv(s)'
  BY <1>1, <1>2 DEF ThreadInv, ProbeInv, Alive
<1>12. RunInv(s)'
  BY EmptyQueue DEF RunInv
<1>13. MakingInv(s, c)' /\ AgreeInv' /\ TuneInv(s)'
  BY <1>2 DEF MakingInv, AgreeInv, TuneInv
<1>14. ArgInv(s)'
  BY <1>1, <1>2 DEF ArgInv, ArgOK, Alive, MayProbe, OfOscillator
<1> QED
  BY <1>8, <1>9, <1>10, <1>11, <1>12, <1>13, <1>14 DEF ScriptInv

(* The second thread never raises an exception, and finishes what it begins. *)
LEMMA ProbeSound ==
  ASSUME NEW s, NEW c, Rules(s, c), ScriptInv(s, c), Alive, probing # <<>>
  PROVE  ~Raises(Head(probing))
<1>1. MadeInv(s, c) /\ ThreadInv(s) /\ ProbeInv(s)
  BY DEF ScriptInv
<1>2. /\ threads /\ Queue(s, probing) /\ MayProbe(s)
      /\ \A n \in Range(probing) : StepOf(s, "chan0_lo_locked", n)
      /\ \A n \in Calls(s, Probed(s)) : n.attr \in DOMAIN objs
  BY <1>1 DEF ProbeInv, ThreadInv
<1>3. /\ "chan0_lo_locked" \in Settables(s) /\ Target(s, "chan0_lo_locked") = Probed(s)
      /\ Sound(s, c, "chan0_lo_locked")
  BY <1>2 DEF MayProbe, Settables, Target, Probed, Sound
<1>4. Admitted(s, c, Probed(s)) /\ SettersCall(s)
  BY <1>3 DEF Rules, SettersAdmitted
<1>5. Probed(s) \in DOMAIN Setters(s)
  BY <1>3, SetterShape
<1>6. Head(probing) \in Range(probing)
  BY <1>2, HeadTail DEF Queue
<1>7. CASE Head(probing) \in Calls(s, Probed(s))
  BY <1>1, <1>2, <1>4, <1>5, <1>7, CallsDoNotRaise
<1>8. Keeps(Head(probing)) \/ Head(probing) \in Calls(s, Probed(s))
  BY <1>2, <1>3, <1>6, StepNames
<1> QED
  BY <1>7, <1>8, KeepsDoNotRaise

LEMMA ProbeStep ==
  ASSUME NEW s, NEW c, Rules(s, c), ScriptInv(s, c), Alive, probing # <<>>,
         Perform(Head(probing), probeArg), ~Reads(Head(probing), probeArg),
         probing' = Tail(probing), probeArg' = <<>>,
         UNCHANGED <<phase, todo, arg, calling, raised, overlapped>>
  PROVE  ScriptInv(s, c)'
<1> DEFINE m == Head(probing)
<1>1. /\ MakingInv(s, c) /\ MadeInv(s, c) /\ WireInv(s, c) /\ KeptInv(s, c)
      /\ ThreadInv(s) /\ ProbeInv(s) /\ RunInv(s) /\ RaiseInv(s, c)
      /\ Shaped /\ ShownInv(s, c) /\ AgreeInv /\ ArgInv(s)
  BY DEF ScriptInv
<1>2. Alive /\ phase' = phase /\ todo' = todo /\ calling' = calling /\ raised' = raised
  OBVIOUS
<1>3. /\ threads /\ Queue(s, probing) /\ MayProbe(s)
      /\ \A n \in Range(probing) : StepOf(s, "chan0_lo_locked", n)
      /\ \A n \in Calls(s, Probed(s)) : n.attr \in DOMAIN objs
  BY <1>1 DEF ProbeInv, ThreadInv
<1>4. /\ SettersCall(s) /\ Probed(s) \in DOMAIN Setters(s)
      /\ "chan0_lo_locked" \in Settables(s) /\ Target(s, "chan0_lo_locked") = Probed(s)
  <2>1. "chan0_lo_locked" \in Settables(s) /\ Target(s, "chan0_lo_locked") = Probed(s)
    BY <1>3 DEF MayProbe, Settables, Target, Probed
  <2> QED
    BY <2>1, SetterShape DEF Rules
<1>5. /\ m \in Range(probing) /\ IsSeq(probing') /\ Range(probing') \subseteq Range(probing)
      /\ \A n \in Range(probing) : n = m \/ n \in Range(probing')
  BY <1>3, HeadTail DEF Queue
<1>6. /\ Queue(s, probing')
      /\ Keeps(m) => \A p \in Named(m) :
           /\ p \in Settables(s)
           /\ p \in DOMAIN Setters(s) => Calls(s, p) \subseteq Range(probing')
  BY <1>3, QueueTail
<1>7. Perform(m, probeArg) /\ ~Reads(m, probeArg) /\ ~Raises(m)
  BY ProbeSound
<1>20. m = Head(probing)
  OBVIOUS
<1> HIDE DEF m
<1>8. /\ Keeps(m) \/ (m.do = "call" /\ m \in Calls(s, Probed(s)))
      /\ Keeps(m) => m.do \in {"keep", "pass"}
      /\ StepOf(s, "chan0_lo_locked", m)
  BY <1>3, <1>4, <1>5, StepNames DEF Keeps
<1>9. /\ KeptInv(s, c)' /\ DOMAIN objs' = DOMAIN objs
      /\ threads' = threads /\ edges' = edges
      /\ Fresh(s, c) => Fresh(s, c)'
  BY <1>1, <1>2, <1>6, <1>7, <1>8, QueueStep
<1>10. MadeInv(s, c)' /\ WireInv(s, c)'
  BY <1>1, <1>2, <1>5, <1>7, <1>8, MadeStep
<1>11. Shaped' /\ ShownInv(s, c)'
  BY <1>1, <1>2, <1>4, <1>7, <1>8, ShownStep
<1>12. MakingInv(s, c)'
  BY <1>1, <1>2, <1>9 DEF MakingInv
<1>13. ThreadInv(s)'
  BY <1>1, <1>2, <1>9 DEF ThreadInv, Alive
<1>14. ProbeInv(s)'
  BY <1>3, <1>5, <1>6, <1>9 DEF ProbeInv
<1>15. RunInv(s)' /\ RaiseInv(s, c)'
  BY <1>1, <1>2 DEF RunInv, RaiseInv
<1>17. ASSUME raised = {}
       PROVE  \A a \in DOMAIN objs' : \A k \in DOMAIN objs'[a].of :
                \/ Agrees(a, k)' \/ Told(a, k, todo)' \/ Told(a, k, probing)'
                \/ WillRaise' \/ Met(a, k)'
  <2>1. Keeps(m) => \A p \in Named(m) :
          /\ p \in Settables(s)
          /\ p \in DOMAIN Setters(s) =>
               /\ Calls(s, p) \subseteq Range(todo') \union Range(probing')
               /\ Doomed(s, c, p) => WillRaise'
    <3> SUFFICES ASSUME Keeps(m), NEW p \in Named(m), p \in DOMAIN Setters(s),
                        Doomed(s, c, p)
                 PROVE  FALSE
      BY <1>6
    <3>1. PICK n \in Calls(s, p) : Makes(s, c, n.attr) = {}
      BY DEF Doomed
    <3>2. n \in Range(probing) /\ n.do = "call"
      BY <1>4, <1>5, <1>6, CallsAreCalls
    <3>4. n \in Calls(s, Probed(s))
      BY <1>3, <1>4, <3>2, StepNames DEF Keeps
    <3>3. n.attr \in DOMAIN objs
      BY <1>3, <3>4
    <3> QED
      BY <1>1, <3>1, <3>3 DEF MadeInv
  <2>2. m.do # "set"
    BY <1>8
  <2>5. m.do = "call" =>
          probeArg = <<pars[m.par]>> \/ (overlapped /\ m.par \in OfOscillator)
    BY <1>1, <1>2, <1>7, <1>20 DEF ArgInv, ArgOK, Reads
  <2>3. \A n \in Range(todo) \union Range(probing) :
          n.do = "call" /\ n # m => n \in Range(todo') \union Range(probing')
    BY <1>2, <1>5
  <2>4. WillRaise => WillRaise'
    BY <1>2, <1>9 DEF WillRaise
  <2> QED
    BY <1>1, <1>2, <1>7, <1>17, <2>1, <2>2, <2>3, <2>4, <2>5, AgreeStep
<1>18. AgreeInv'
  BY <1>2, <1>17 DEF AgreeInv
<1>19. TuneInv(s)'
  BY <1>3 DEF TuneInv, MayProbe
<1>21. ArgInv(s)'
  <2>1. ArgOK(arg, todo)'
    BY <1>1, <1>2, <1>7, <1>8, ArgStaysRead
  <2>2. ArgOK(probeArg, probing)'
    BY DEF ArgOK
  <2> QED
    BY <1>1, <1>2, <2>1, <2>2 DEF ArgInv, MayProbe
<1> QED
  BY <1>9, <1>10, <1>11, <1>12, <1>13, <1>14, <1>15, <1>18, <1>19, <1>21 DEF ScriptInv

-----------------------------------------------------------------------------
(* Beginning and ending *)

LEMMA EndStep ==
  ASSUME NEW s, NEW c, ScriptInv(s, c), phase' \notin {"making", "running"},
         raised' = raised, objs' = objs
  PROVE  ScriptInv(s, c)'
<1>1. RaiseInv(s, c) /\ Shaped
  BY DEF ScriptInv
<1>2. RaiseInv(s, c)' /\ Shaped'
  BY <1>1 DEF RaiseInv, Shaped
<1>3. ~Alive'
  BY DEF Alive
<1>4. /\ MakingInv(s, c)' /\ MadeInv(s, c)' /\ WireInv(s, c)' /\ KeptInv(s, c)'
      /\ ThreadInv(s)' /\ ProbeInv(s)' /\ RunInv(s)' /\ ShownInv(s, c)' /\ AgreeInv'
      /\ ArgInv(s)' /\ TuneInv(s)'
  BY <1>3 DEF MakingInv, MadeInv, WireInv, KeptInv, ThreadInv, ProbeInv, RunInv, ShownInv,
              AgreeInv, ArgInv, TuneInv, Alive
<1> QED
  BY <1>2, <1>4 DEF ScriptInv

LEMMA NothingIn ==
  \A m : m \notin Range(<<>>)
BY DEF Range

LEMMA StartStep ==
  ASSUME NEW s, NEW c, Rules(s, c), ScriptInv(s, c), phase = "making", todo = <<>>,
         phase' = "running",
         UNCHANGED <<pars, objs, edges, todo, arg, calling, probing, probeArg, threads, raised,
                     overlapped>>
  PROVE  ScriptInv(s, c)'
<1>1. /\ MakingInv(s, c) /\ MadeInv(s, c) /\ WireInv(s, c) /\ KeptInv(s, c)
      /\ ThreadInv(s) /\ ProbeInv(s) /\ RaiseInv(s, c)
      /\ Shaped /\ ShownInv(s, c) /\ AgreeInv /\ ArgInv(s)
  BY DEF ScriptInv
<1>2. MadeInv(s, c)' /\ WireInv(s, c)'
  BY <1>1, NothingIn DEF MadeInv, WireInv, Alive
<1>3. ~Fresh(s, c)
  BY DEF Fresh, Rules, KeepsFirst
<1>4. KeptInv(s, c)' /\ ShownInv(s, c)' /\ Shaped' /\ RaiseInv(s, c)'
  BY <1>1, <1>3 DEF KeptInv, ShownInv, Shaped, RaiseInv, Alive
<1>5. ThreadInv(s)' /\ ProbeInv(s)'
  BY <1>1 DEF ThreadInv, ProbeInv, Alive
<1>6. RunInv(s)' /\ TuneInv(s)' /\ MakingInv(s, c)'
  BY EmptyQueue DEF RunInv, TuneInv, MakingInv
<1>7. AgreeInv'
  <2>1. ~WillRaise
    BY DEF WillRaise
  <2>2. ASSUME raised = {}, NEW a \in DOMAIN objs, NEW k \in DOMAIN objs[a].of
        PROVE  Agrees(a, k) \/ Told(a, k, probing) \/ Met(a, k)
    BY <1>1, <2>1, <2>2, NothingIn DEF AgreeInv, Alive, Told
  <2> QED
    BY <2>2 DEF AgreeInv, Agrees, Told, Met
<1>8. ArgInv(s)'
  BY <1>1 DEF ArgInv, ArgOK, Alive, MayProbe
<1> QED
  BY <1>2, <1>4, <1>5, <1>6, <1>7, <1>8 DEF ScriptInv

LEMMA TailAfterOne ==
  ASSUME NEW e, NEW u, IsSeq(u)
  PROVE  Range(Tail(<<e>> \o u)) = Range(u)
<1>1. u \in Seq(Range(u))
  BY DEF IsSeq
<1>2. <<e>> \o u # <<>> /\ Tail(<<e>> \o u) = u
  BY <1>1
<1> QED
  BY <1>2

(* What shows the state of the oscillator is told of it by a setter that one *)
(* of the threads enters.                                                     *)
LEMMA OscillatorTold ==
  ASSUME NEW s, NEW c, Rules(s, c), Alive, ShownInv(s, c), MayProbe(s),
         NEW p \in Settables(s), p \in OfOscillator, NEW v,
         NEW a \in DOMAIN objs, NEW k \in DOMAIN objs[a].of, objs[a].of[k] \in OfOscillator
  PROVE  /\ Target(s, p) \in DOMAIN Setters(s) /\ Target(s, p) = Probed(s)
         /\ Calls(s, Target(s, p)) \subseteq Range(Setter(s, p, v))
         /\ Doomed(s, c, Target(s, p)) \/ Told(a, k, Setter(s, p, v))
<1> DEFINE q == objs[a].of[k]
<1>1. /\ "chan0_lo_locked" \in DOMAIN Follower(s) /\ Probed(s) = "lo_locked_probe"
      /\ Follower(s)["chan0_lo_locked"] = "lo_locked_probe"
  BY OscillatorNames DEF MayProbe, Probed
<1>2. "lo_locked_probe" \in DOMAIN Setters(s) /\ "lo_locked_probe" \notin DOMAIN Follower(s)
  BY <1>1 DEF Rules, FollowersShow
<1>3. Target(s, p) = "lo_locked_probe"
  BY <1>1, <1>2 DEF Target, OfOscillator
<1>4. q = "lo_locked_probe"
  BY <1>1 DEF ShownInv, OfOscillator
<1>5. Doomed(s, c, q) \/ Call(a, k, q) \in Calls(s, q)
  BY <1>2, <1>4 DEF ShownInv
<1>6. Calls(s, Target(s, p)) \subseteq Range(Setter(s, p, v))
  BY SetterShape
<1> QED
  BY <1>1, <1>2, <1>3, <1>4, <1>5, <1>6 DEF Told

LEMMA CallStep ==
  ASSUME NEW s, NEW c, Rules(s, c), ScriptInv(s, c), phase = "running", todo = <<>>,
         NEW p \in Settables(s), NEW v, todo' = Setter(s, p, v), calling' = p,
         overlapped' = (IF p \in OfOscillator THEN probing # <<>> ELSE overlapped),
         UNCHANGED <<phase, pars, objs, edges, arg, probing, probeArg, threads, raised>>
  PROVE  ScriptInv(s, c)'
<1>1. /\ MadeInv(s, c) /\ WireInv(s, c) /\ KeptInv(s, c)
      /\ ThreadInv(s) /\ ProbeInv(s) /\ RaiseInv(s, c)
      /\ Shaped /\ ShownInv(s, c) /\ AgreeInv /\ ArgInv(s)
  BY DEF ScriptInv
<1>2. MadeInv(s, c)' /\ WireInv(s, c)' /\ KeptInv(s, c)' /\ ShownInv(s, c)' /\ Shaped'
      /\ RaiseInv(s, c)'
  BY <1>1 DEF MadeInv, WireInv, KeptInv, ShownInv, Shaped, RaiseInv, Alive, Fresh
<1>3. ThreadInv(s)' /\ ProbeInv(s)' /\ MakingInv(s, c)'
  BY <1>1 DEF ThreadInv, ProbeInv, MakingInv, Alive
<1>4. RunInv(s)'
  BY SetterShape DEF RunInv
<1>5. ASSUME raised = {}, NEW a \in DOMAIN objs, NEW k \in DOMAIN objs[a].of
      PROVE  Agrees(a, k) \/ Told(a, k, probing) \/ Met(a, k)
  <2>1. ~WillRaise
    BY NothingIn DEF WillRaise
  <2> QED
    BY <1>1, <1>5, <2>1, NothingIn DEF AgreeInv, Alive, Told
<1>8. probing # <<>> => MayProbe(s)
  BY <1>1 DEF ProbeInv, ThreadInv, Alive
<1>9. overlapped => MayProbe(s)
  BY <1>1 DEF ArgInv, Alive
<1>6. AgreeInv'
  <2> SUFFICES ASSUME raised = {}, NEW a \in DOMAIN objs, NEW k \in DOMAIN objs[a].of
               PROVE  \/ Agrees(a, k) \/ Told(a, k, todo') \/ Told(a, k, probing)
                      \/ WillRaise' \/ (overlapped' /\ objs[a].of[k] \in OfOscillator)
    BY DEF AgreeInv, Agrees, Told, Met
  <2>1. CASE ~Met(a, k) \/ overlapped'
    BY <1>5, <2>1 DEF Met
  <2>2. CASE Met(a, k) /\ ~overlapped'
    <3>1. p \in OfOscillator /\ MayProbe(s) /\ objs[a].of[k] \in OfOscillator
      BY <1>9, <2>2 DEF Met
    <3>2. /\ Target(s, p) \in DOMAIN Setters(s)
          /\ Calls(s, Target(s, p)) \subseteq Range(todo')
          /\ Doomed(s, c, Target(s, p)) \/ Told(a, k, todo')
      BY <1>1, <3>1, OscillatorTold DEF Alive
    <3>3. CASE Doomed(s, c, Target(s, p))
      <4>1. \E m \in Range(todo') : m.do = "call" /\ m.attr \notin DOMAIN objs
        BY <1>1, <3>2, <3>3, DoomedRaises DEF Rules
      <4> QED
        BY <4>1 DEF WillRaise
    <3> QED
      BY <3>2, <3>3
  <2> QED
    BY <2>1, <2>2
<1>7. TuneInv(s)'
  <2> SUFFICES ASSUME s = "mrfm_fft"
               PROVE  /\ \A m \in Range(Tail(todo')) : m.do # "keep"
                      /\ raised = {} =>
                           \A a \in DOMAIN objs : \A k \in DOMAIN objs[a].of : Agrees(a, k)
    BY DEF TuneInv, Agrees
  <2>1. probing = <<>> /\ ~overlapped
    BY <1>8, <1>9 DEF MayProbe
  <2>2. raised = {} => \A a \in DOMAIN objs : \A k \in DOMAIN objs[a].of : Agrees(a, k)
    BY <1>5, <2>1, NothingIn DEF Told, Met
  <2>3. p \notin DOMAIN Follower(s) /\ p \in DOMAIN Setters(s)
    BY DEF Follower, Settables
  <2>4. todo' = <<Put(p, v)>> \o Setters(s)[p] /\ SettersCall(s)
    BY <2>3, SetterShape DEF Rules
  <2>5. ASSUME NEW m \in Range(Tail(todo')) PROVE m.do # "keep"
    <3>1. IsSeq(Setters(s)[p]) /\ Range(Setters(s)[p]) = Calls(s, p)
      BY <2>3, <2>4 DEF SettersCall, Calls
    <3>2. m \in Calls(s, p)
      BY <2>4, <2>5, <3>1, TailAfterOne
    <3> QED
      BY <2>3, <2>4, <3>2, CallsAreCalls
  <2> QED
    BY <2>2, <2>5
<1>10. ArgInv(s)'
  <2>1. /\ arg = <<>> /\ ArgOK(probeArg, probing)
    BY <1>1 DEF ArgInv, ArgOK, Alive
  <2>2. ArgOK(arg, todo)'
    BY <2>1 DEF ArgOK
  <2>3. ArgOK(probeArg, probing)'
    BY <2>1 DEF ArgOK
  <2>4. todo' # <<>>
    BY SetterShape
  <2>5. overlapped' => MayProbe(s)
    BY <1>8, <1>9
  <2>6. calling' \in OfOscillator /\ probing' # <<>> => overlapped'
    OBVIOUS
  <2> QED
    BY <2>2, <2>3, <2>4, <2>5, <2>6 DEF ArgInv, MayProbe
<1> QED
  BY <1>2, <1>3, <1>4, <1>6, <1>7, <1>10 DEF ScriptInv

(* A setter that ends before it has done anything. *)
LEMMA TuneStep ==
  ASSUME NEW s, NEW c, ScriptInv(s, c), phase = "running", todo # <<>>, s = "mrfm_fft",
         Head(todo).do = "keep", todo' = <<>>, calling' = "nothing",
         UNCHANGED <<phase, pars, objs, edges, arg, probing, probeArg, threads, raised, overlapped>>
  PROVE  ScriptInv(s, c)'
<1>1. /\ MadeInv(s, c) /\ WireInv(s, c) /\ KeptInv(s, c)
      /\ ThreadInv(s) /\ ProbeInv(s) /\ RaiseInv(s, c)
      /\ Shaped /\ ShownInv(s, c) /\ AgreeInv /\ ArgInv(s) /\ TuneInv(s)
  BY DEF ScriptInv
<1>2. MadeInv(s, c)' /\ WireInv(s, c)' /\ KeptInv(s, c)' /\ ShownInv(s, c)' /\ Shaped'
      /\ RaiseInv(s, c)'
  BY <1>1 DEF MadeInv, WireInv, KeptInv, ShownInv, Shaped, RaiseInv, Alive, Fresh
<1>3. ThreadInv(s)' /\ ProbeInv(s)' /\ MakingInv(s, c)'
  BY <1>1 DEF ThreadInv, ProbeInv, MakingInv, Alive
<1>4. RunInv(s)' /\ TuneInv(s)'
  BY EmptyQueue DEF RunInv, TuneInv
<1>5. AgreeInv'
  BY <1>1 DEF AgreeInv, TuneInv, Agrees
<1>6. ArgInv(s)'
  <2>1. arg = <<>>
    BY <1>1 DEF ArgInv, ArgOK, Alive
  <2> QED
    BY <1>1, <2>1 DEF ArgInv, ArgOK, Alive, MayProbe, OfOscillator
<1> QED
  BY <1>2, <1>3, <1>4, <1>5, <1>6 DEF ScriptInv

LEMMA ReadStep ==
  ASSUME NEW s, NEW c, Rules(s, c), ScriptInv(s, c), Alive, threads, probing = <<>>,
         NEW v, probing' = Setter(s, "chan0_lo_locked", v),
         overlapped' = (calling \in OfOscillator),
         UNCHANGED <<phase, pars, objs, edges, todo, arg, calling, probeArg, threads, raised>>
  PROVE  ScriptInv(s, c)'
<1>1. /\ MakingInv(s, c) /\ MadeInv(s, c) /\ WireInv(s, c) /\ KeptInv(s, c)
      /\ ThreadInv(s) /\ RunInv(s) /\ RaiseInv(s, c)
      /\ Shaped /\ ShownInv(s, c) /\ AgreeInv /\ ArgInv(s)
  BY DEF ScriptInv
<1>2. /\ MadeInv(s, c)' /\ WireInv(s, c)' /\ KeptInv(s, c)' /\ ShownInv(s, c)' /\ Shaped'
      /\ RaiseInv(s, c)' /\ MakingInv(s, c)'
  BY <1>1 DEF MadeInv, WireInv, KeptInv, ShownInv, Shaped, RaiseInv, Alive, Fresh, MakingInv
<1>3. ThreadInv(s)' /\ RunInv(s)'
  BY <1>1 DEF ThreadInv, RunInv, Alive
<1>4. MayProbe(s) /\ \A m \in Calls(s, Probed(s)) : m.attr \in DOMAIN objs
  BY <1>1 DEF ThreadInv
<1>5. /\ "chan0_lo_locked" \in Settables(s) /\ Target(s, "chan0_lo_locked") = Probed(s)
  BY <1>4 DEF MayProbe, Settables, Target, Probed
<1>6. ProbeInv(s)'
  BY <1>5, SetterShape DEF ProbeInv
<1>7. TuneInv(s)'
  BY <1>4 DEF TuneInv, MayProbe
<1>9. AgreeInv'
  <2> SUFFICES ASSUME raised = {}, NEW a \in DOMAIN objs, NEW k \in DOMAIN objs[a].of
               PROVE  \/ Agrees(a, k) \/ Told(a, k, todo) \/ Told(a, k, probing')
                      \/ WillRaise \/ (overlapped' /\ objs[a].of[k] \in OfOscillator)
    BY DEF AgreeInv, Agrees, Told, Met, WillRaise
  <2>1. Agrees(a, k) \/ Told(a, k, todo) \/ WillRaise \/ Met(a, k)
    BY <1>1, NothingIn DEF AgreeInv, Told
  <2>2. CASE Met(a, k)
    <3>1. Doomed(s, c, Probed(s)) \/ Told(a, k, probing')
      <4>1. "chan0_lo_locked" \in OfOscillator
        BY DEF OfOscillator
      <4> QED
        BY <1>1, <1>4, <1>5, <2>2, <4>1, OscillatorTold DEF Met
    <3>2. ~Doomed(s, c, Probed(s))
      BY <1>1, <1>4 DEF Doomed, MadeInv
    <3> QED
      BY <3>1, <3>2
  <2> QED
    BY <2>1, <2>2
<1>10. ArgInv(s)'
  <2>1. probeArg = <<>>
    BY <1>1 DEF ArgInv, ArgOK
  <2>2. ArgOK(probeArg, probing)'
    BY <2>1 DEF ArgOK
  <2>3. ArgOK(arg, todo)'
    <3>1. arg # <<>> /\ Head(todo).par \in OfOscillator => overlapped'
      BY <1>1, MainReads
    <3> QED
      BY <1>1, <3>1 DEF ArgInv, ArgOK
  <2> QED
    BY <1>1, <1>4, <2>2, <2>3 DEF ArgInv, MayProbe, Alive
<1> QED
  BY <1>2, <1>3, <1>6, <1>7, <1>9, <1>10 DEF ScriptInv

(* The value of an attribute is read, or nothing happens at all. *)
LEMMA SameButArgs ==
  ASSUME NEW s, NEW c, ScriptInv(s, c), ArgInv(s)',
         UNCHANGED <<phase, pars, objs, edges, todo, calling, probing, threads, raised, overlapped>>
  PROVE  ScriptInv(s, c)'
BY DEF ScriptInv, MakingInv, MadeInv, WireInv, KeptInv, ThreadInv, ProbeInv, RunInv,
  RaiseInv, Shaped, ShownInv, AgreeInv, TuneInv, Alive, Fresh, Agrees, Told, WillRaise, Met

LEMMA MainTakes ==
  ASSUME NEW s, NEW c, ScriptInv(s, c), Alive, todo # <<>>, Reads(Head(todo), arg),
         Perform(Head(todo), arg), arg' = Held(Head(todo), arg), todo' = Left(todo, arg),
         UNCHANGED <<phase, calling, probing, probeArg, raised, overlapped>>
  PROVE  ScriptInv(s, c)'
<1>1. /\ Head(todo).do \in {"call", "pass"} /\ todo' = todo
      /\ arg' = <<pars[Head(todo).par]>>
  BY DEF Reads, Held, Left
<1>2. UNCHANGED <<pars, objs, edges, threads>>
  BY <1>1 DEF Perform
<1>3. ArgInv(s)'
  <2>1. ArgInv(s)
    BY DEF ScriptInv
  <2> QED
    BY <1>1, <1>2, <2>1 DEF ArgInv, ArgOK, Alive, MayProbe
<1> QED
  BY <1>1, <1>2, <1>3, SameButArgs

LEMMA ProbeTakes ==
  ASSUME NEW s, NEW c, ScriptInv(s, c), Alive, probing # <<>>, Reads(Head(probing), probeArg),
         Perform(Head(probing), probeArg), probeArg' = Held(Head(probing), probeArg),
         probing' = Left(probing, probeArg),
         UNCHANGED <<phase, todo, arg, calling, raised, overlapped>>
  PROVE  ScriptInv(s, c)'
<1>1. /\ Head(probing).do \in {"call", "pass"} /\ probing' = probing
      /\ probeArg' = <<pars[Head(probing).par]>>
  BY DEF Reads, Held, Left
<1>2. UNCHANGED <<pars, objs, edges, threads>>
  BY <1>1 DEF Perform
<1>3. ArgInv(s)'
  <2>1. ArgInv(s)
    BY DEF ScriptInv
  <2> QED
    BY <1>1, <1>2, <2>1 DEF ArgInv, ArgOK, Alive, MayProbe
<1> QED
  BY <1>1, <1>2, <1>3, SameButArgs

-----------------------------------------------------------------------------
(* The program *)

AllRules == \A s \in Scripts : \A c \in OptionsOf(s) : Rules(s, c)

LEMMA AppInitHolds ==
  ASSUME AllRules, AppInit
  PROVE  AppInv
<1>1. PICK s, c : s = script /\ c = o
  OBVIOUS
<1>2. /\ s \in Scripts /\ c \in OptionsOf(s) /\ phase = "making" /\ todo = Construct(s, c)
      /\ objs = <<>> /\ edges = {} /\ probing = <<>> /\ threads = FALSE /\ raised = {}
      /\ arg = <<>> /\ probeArg = <<>> /\ overlapped = FALSE /\ calling = "nothing"
  BY <1>1 DEF AppInit
<1>3. Rules(s, c)
  BY <1>2 DEF AllRules
<1>4. DOMAIN objs = {}
  BY <1>2
<1>5. Fresh(s, c)
  BY <1>2, <1>4 DEF Fresh
<1>6. MakingInv(s, c) /\ MadeInv(s, c) /\ WireInv(s, c) /\ KeptInv(s, c)
  BY <1>2, <1>3, <1>4, <1>5 DEF MakingInv, MadeInv, WireInv, KeptInv, Rules, KeepsFirst
<1>7. ThreadInv(s)
  BY <1>2, <1>3 DEF ThreadInv, Rules, ThreadsLate, MayProbe
<1>8. ProbeInv(s)
  BY <1>2, EmptyQueue, NothingIn DEF ProbeInv
<1>9. /\ RunInv(s) /\ RaiseInv(s, c) /\ Shaped /\ ShownInv(s, c) /\ AgreeInv /\ TuneInv(s)
      /\ ArgInv(s)
  BY <1>2, <1>4 DEF RunInv, RaiseInv, Shaped, ShownInv, AgreeInv, TuneInv, ArgInv, ArgOK,
                    OfOscillator
<1> QED
  BY <1>1, <1>2, <1>6, <1>7, <1>8, <1>9 DEF AppInv, ScriptInv

LEMMA AppStepHolds ==
  ASSUME AllRules, AppInv, [AppNext]_appVars
  PROVE  AppInv'
<1>1. PICK s, c : s = script /\ c = o
  OBVIOUS
<1>2. s \in Scripts /\ c \in OptionsOf(s) /\ ScriptInv(s, c)
  BY <1>1 DEF AppInv
<1>3. Rules(s, c)
  BY <1>2 DEF AllRules
<1>4. script' = s /\ o' = c
  BY <1>1 DEF AppNext, appVars, MakeNext, Start, CallSetter, TuneFails, InSetter, ReadSensor,
              InProbe, Finish
<1>5. SUFFICES ScriptInv(s, c)'
  <2> SUFFICES ASSUME ScriptInv(s, c)' PROVE AppInv'
    OBVIOUS
  <2> QED
    BY <1>2, <1>4 DEF AppInv
<1>6. CASE UNCHANGED appVars
  <2>1. UNCHANGED <<phase, pars, objs, edges, todo, arg, calling, probing, probeArg, threads,
                    raised, overlapped>>
    BY <1>6 DEF appVars
  <2>2. ArgInv(s)'
    BY <1>2, <2>1 DEF ScriptInv, ArgInv, ArgOK, Alive, MayProbe
  <2> QED
    BY <1>2, <2>1, <2>2, SameButArgs
<1>7. CASE MakeNext
  <2>1. CASE Raises(Head(todo))
    BY <1>2, <1>7, <2>1, EndStep DEF MakeNext
  <2>2. CASE ~Raises(Head(todo)) /\ ~Reads(Head(todo), arg)
    BY <1>2, <1>3, <1>7, <2>2, MakingStep DEF MakeNext, Left, Held
  <2>3. CASE ~Raises(Head(todo)) /\ Reads(Head(todo), arg)
    BY <1>2, <1>7, <2>3, MainTakes DEF MakeNext, Alive
  <2> QED
    BY <2>1, <2>2, <2>3
<1>8. CASE Start
  <2>1. CASE phase' = "running"
    BY <1>2, <1>3, <1>8, <2>1, StartStep DEF Start
  <2>2. CASE phase' = "died"
    BY <1>2, <1>8, <2>2, EndStep DEF Start
  <2> QED
    BY <1>8, <2>1, <2>2 DEF Start
<1>9. ASSUME NEW p, NEW v, CallSetter(p, v) PROVE ScriptInv(s, c)'
  <2>1. p \in Settables(s) /\ todo' = Setter(s, p, v)
    BY <1>1, <1>9 DEF CallSetter, Settables
  <2> QED
    BY <1>2, <1>3, <1>9, <2>1, CallStep DEF CallSetter
<1>10. CASE TuneFails
  BY <1>1, <1>2, <1>10, TuneStep DEF TuneFails
<1>11. CASE InSetter
  <2>1. CASE Raises(Head(todo))
    BY <1>2, <1>3, <1>11, <2>1, SetterRaises DEF InSetter
  <2>2. CASE ~Raises(Head(todo)) /\ ~Reads(Head(todo), arg)
    BY <1>2, <1>3, <1>11, <2>2, SetterStep DEF InSetter, Left, Held
  <2>3. CASE ~Raises(Head(todo)) /\ Reads(Head(todo), arg)
    <3>1. calling' = calling
      BY <1>11, <2>3 DEF InSetter, Left
    <3> QED
      BY <1>2, <1>11, <2>3, <3>1, MainTakes DEF InSetter, Alive
  <2> QED
    BY <2>1, <2>2, <2>3
<1>12. ASSUME NEW v, ReadSensor(v) PROVE ScriptInv(s, c)'
  <2>1. probing' = Setter(s, "chan0_lo_locked", v) /\ Alive
    BY <1>1, <1>12 DEF ReadSensor, Alive
  <2> QED
    BY <1>2, <1>3, <1>12, <2>1, ReadStep DEF ReadSensor
<1>13. CASE InProbe
  <2>1. Alive /\ probing # <<>>
    BY <1>13 DEF InProbe, Alive
  <2>2. ~Raises(Head(probing))
    BY <1>2, <1>3, <2>1, ProbeSound
  <2>3. CASE ~Reads(Head(probing), probeArg)
    BY <1>2, <1>3, <1>13, <2>1, <2>2, <2>3, ProbeStep DEF InProbe, Left, Held
  <2>4. CASE Reads(Head(probing), probeArg)
    BY <1>2, <1>13, <2>1, <2>2, <2>4, ProbeTakes DEF InProbe
  <2> QED
    BY <2>3, <2>4
<1>14. CASE Finish
  <2>1. phase' \notin {"making", "running"}
    BY <1>14 DEF Finish
  <2> QED
    BY <1>2, <1>14, <2>1, EndStep DEF Finish
<1> QED
  BY <1>6, <1>7, <1>8, <1>9, <1>10, <1>11, <1>12, <1>13, <1>14 DEF AppNext

LEMMA InvAgrees ==
  ASSUME AppInv PROVE SettingsAgree
<1>1. AgreeInv
  BY DEF AppInv, ScriptInv
<1> SUFFICES ASSUME phase = "running", todo = <<>>, probing = <<>>, raised = {},
                    NEW a \in DOMAIN objs, NEW k \in DOMAIN objs[a].of
             PROVE  Agrees(a, k) \/ Met(a, k)
  BY DEF SettingsAgree, Agrees, Met
<1>2. Alive /\ ~WillRaise
  BY NothingIn DEF Alive, WillRaise
<1> QED
  BY <1>1, <1>2, NothingIn DEF AgreeInv, Told

LEMMA InvRaises ==
  ASSUME AppInv PROVE OnlyDemoSettersRaise
BY DEF AppInv, ScriptInv, RaiseInv, Sound, OnlyDemoSettersRaise

-----------------------------------------------------------------------------
(* The lists of steps.  A list keeps to a plan of classes that attributes   *)
(* are made of, and of settings that show parameters.                        *)

Fits(m, M, T) ==
  /\ m.do \in {"make", "call", "wire", "raise"}
  /\ m.do = "make" => <<m.attr, m.cls>> \in M
  /\ \A a, k, q : Shows(m, a, k, q) => <<a, k, q>> \in T
Planned(t, M, T) == IsSeq(t) /\ \A m \in Range(t) : Fits(m, M, T)
Made(t) == {m.attr : m \in {n \in Range(t) : n.do = "make"}}

LEMMA OfFits ==
  ASSUME NEW a, NEW cls, NEW of, NEW M, NEW T, <<a, cls>> \in M,
         \A k \in DOMAIN of : <<a, k, of[k]>> \in T
  PROVE  Fits(Make(a, cls, of), M, T)
BY DEF Make, Fits, Shows

LEMMA FileFits ==
  ASSUME NEW a, NEW cls, NEW f, NEW M, NEW T, <<a, cls>> \in M
  PROVE  Fits(File(a, cls, f), M, T)
<1>1. DOMAIN <<>> = {}
  OBVIOUS
<1> QED
  BY <1>1 DEF File, Fits, Shows

LEMMA CallFits ==
  ASSUME NEW a, NEW k, NEW q, NEW M, NEW T, <<a, k, q>> \in T
  PROVE  Fits(Call(a, k, q), M, T)
BY DEF Call, Fits, Shows

LEMMA WireFits ==
  ASSUME NEW a, NEW i, NEW b, NEW j, NEW M, NEW T
  PROVE  Fits(Wire(a, i, b, j), M, T)
BY DEF Wire, Fits, Shows

LEMMA RaiseFits ==
  ASSUME NEW M, NEW T PROVE Fits(Raise, M, T)
BY DEF Raise, Fits, Shows

LEMMA EmptyPlan ==
  ASSUME NEW M, NEW T PROVE Planned(<<>>, M, T) /\ Made(<<>>) = {}
<1>1. IsSeq(<<>>)
  BY DEF IsSeq
<1> QED
  BY <1>1, NothingIn DEF Planned, Made

LEMMA PlansJoin ==
  ASSUME NEW t, NEW u, NEW M, NEW T, Planned(t, M, T), Planned(u, M, T)
  PROVE  Planned(t \o u, M, T) /\ Made(t \o u) = Made(t) \union Made(u)
<1>1. IsSeq(t \o u) /\ Range(t \o u) = Range(t) \union Range(u)
  BY CatFacts DEF Planned
<1> QED
  BY <1>1 DEF Planned, Made

LEMMA PlanWhen ==
  ASSUME NEW b, NEW t, NEW M, NEW T, b => Planned(t, M, T)
  PROVE  /\ Planned(When(b, t), M, T)
         /\ ~b => When(b, t) = <<>>
         /\ b => When(b, t) = t
BY EmptyPlan DEF When

NoStages(M) == \A b \in Stages : \A cls : <<b, cls>> \notin M

LEMMA ConsEnds ==
  ASSUME NEW e, NEW t, IsSeq(t)
  PROVE  /\ <<e>> \o t # <<>>
         /\ Head(<<e>> \o t) = e
         /\ Tail(<<e>> \o t) = t
<1>1. t \in Seq(Range(t))
  BY DEF IsSeq
<1> QED
  BY <1>1

(* A script keeps the rules when its list keeps to a plan that does. *)
LEMMA RulesFromPlan ==
  ASSUME NEW s, NEW c, NEW first, NEW rest, NEW M, NEW T,
         Construct(s, c) = <<Keep(first)>> \o rest, IsSeq(rest),
         \A m \in Range(rest) :
           \/ m.do = "thread" \/ Fits(m, M, T)
           \/ /\ m.do = "set" /\ <<m.attr, m.setting, m.par>> \in T
              /\ m.par \notin Settables(s) /\ m.par \in DOMAIN first /\ m.val = first[m.par],
         SettersCall(s), DOMAIN Setters(s) \subseteq DOMAIN first,
         \A p \in DOMAIN Follower(s) :
           p \in DOMAIN first /\ p \notin DOMAIN Setters(s) /\ Follower(s)[p] \in DOMAIN Setters(s),
         \A a, k, q : <<a, k, q>> \in T =>
           /\ q \in DOMAIN first /\ q \notin DOMAIN Follower(s)
           /\ q \in DOMAIN Setters(s) =>
                \/ Call(a, k, q) \in Calls(s, q)
                \/ \E m \in Calls(s, q) : \A cls : <<m.attr, cls>> \notin M,
         \A p \in Settables(s) : Sound(s, c, p) =>
           \A n \in Calls(s, Target(s, p)) :
             /\ n.attr \in Made(rest)
             /\ \A cls : <<n.attr, cls>> \in M => n.setting \in Classes[cls].sets,
         ThreadsLate(s, c), s # "rt_harmonia" => NoStages(M)
  PROVE  Rules(s, c)
<1> DEFINE all == Construct(s, c)
<1>3. all # <<>> /\ Tail(all) = rest /\ Head(all) = Keep(first)
  BY ConsEnds
<1>4. IsSeq(all) /\ Range(all) = {Keep(first)} \union Range(rest)
  <2>1. IsSeq(<<Keep(first)>>) /\ Range(<<Keep(first)>>) = {Keep(first)}
    BY DEF IsSeq, Range
  <2> QED
    BY <2>1, CatFacts
<1>5. Keep(first).do = "keep" /\ Keep(first).values = first
  BY DEF Keep
<1> HIDE DEF all
<1>6. ASSUME NEW m \in Range(all), NEW a, NEW k, NEW q, Shows(m, a, k, q)
      PROVE  <<a, k, q>> \in T
  <2>1. m.do # "keep" /\ m.do # "thread"
    BY <1>6 DEF Shows
  <2>2. m \in Range(rest)
    BY <1>4, <1>5, <2>1
  <2>3. CASE m.do = "set" /\ <<m.attr, m.setting, m.par>> \in T
    BY <1>6, <2>3 DEF Shows
  <2>4. CASE Fits(m, M, T)
    BY <1>6, <2>4 DEF Fits
  <2> QED
    BY <2>1, <2>2, <2>3, <2>4
<1>7. KeepsFirst(s, c)
  <2>1. \A m \in Range(rest) : m.do \notin {"keep", "pass"}
    BY DEF Fits
  <2>2. \A m \in Range(all) : \A a, k, q : Shows(m, a, k, q) => q \in DOMAIN first
    BY <1>6
  <2> QED
    BY <1>3, <1>4, <1>5, <2>1, <2>2 DEF KeepsFirst, Settables, all
<1>8. FollowersShow(s, c)
  <2>1. ASSUME NEW p \in DOMAIN Follower(s), NEW m \in Range(all), NEW a, NEW k, Shows(m, a, k, p)
        PROVE  FALSE
    <3>1. <<a, k, p>> \in T
      BY <1>6, <2>1
    <3> QED
      BY <3>1
  <2> QED
    BY <2>1 DEF FollowersShow, all
<1>9. ASSUME NEW a, NEW m \in Makes(s, c, a) PROVE <<a, m.cls>> \in M
  <2>1. m \in Range(all) /\ m.do = "make" /\ m.attr = a
    BY DEF Makes, all
  <2>2. m \in Range(rest)
    BY <1>4, <1>5, <2>1
  <2> QED
    BY <2>1, <2>2 DEF Fits
<1>10. SettersTell(s, c)
  <2>1. ASSUME NEW q \in DOMAIN Setters(s), ~Doomed(s, c, q),
               NEW m \in Range(all), NEW a, NEW k, Shows(m, a, k, q)
        PROVE  Call(a, k, q) \in Calls(s, q)
    <3>1. <<a, k, q>> \in T
      BY <1>6, <2>1
    <3>2. CASE \E d \in Calls(s, q) : \A cls : <<d.attr, cls>> \notin M
      <4>1. PICK d \in Calls(s, q) : \A cls : <<d.attr, cls>> \notin M
        BY <3>2
      <4>2. Makes(s, c, d.attr) = {}
        BY <1>9, <4>1
      <4> QED
        BY <2>1, <4>2 DEF Doomed
    <3> QED
      BY <3>1, <3>2
  <2> QED
    BY <2>1 DEF SettersTell, all
<1>11. SetsStay(s, c)
  <2>1. ASSUME NEW m \in Range(all), m.do = "set"
        PROVE  m.par \notin Settables(s) /\ m.par \in DOMAIN first /\ m.val = first[m.par]
    <3>1. m \in Range(rest)
      BY <1>4, <1>5, <2>1
    <3> QED
      BY <2>1, <3>1 DEF Fits
  <2> QED
    BY <1>3, <1>5, <2>1 DEF SetsStay, all
<1>12. SettersAdmitted(s, c)
  <2> SUFFICES ASSUME NEW p \in Settables(s), Sound(s, c, p), NEW n \in Calls(s, Target(s, p))
               PROVE  /\ Makes(s, c, n.attr) # {}
                      /\ \A m \in Makes(s, c, n.attr) : n.setting \in Classes[m.cls].sets
    BY DEF SettersAdmitted, Admitted
  <2>1. n.attr \in Made(rest) /\ \A cls : <<n.attr, cls>> \in M => n.setting \in Classes[cls].sets
    OBVIOUS
  <2>2. PICK m \in Range(rest) : m.do = "make" /\ m.attr = n.attr
    BY <2>1 DEF Made
  <2>3. m \in Makes(s, c, n.attr)
    BY <1>4, <2>2 DEF Makes, all
  <2> QED
    BY <1>9, <2>1, <2>3
<1>13. StagesAnchor(s, c)
  <2>1. ASSUME s # "rt_harmonia", NEW b \in Stages PROVE Makes(s, c, b) = {}
    BY <1>9, <2>1 DEF NoStages
  <2> QED
    BY <2>1 DEF StagesAnchor
<1> QED
  BY <1>7, <1>8, <1>10, <1>11, <1>12, <1>13 DEF Rules

LEMMA ConsJoin ==
  ASSUME NEW e, NEW t, IsSeq(t), NEW u, IsSeq(u)
  PROVE  (<<e>> \o t) \o u = <<e>> \o (t \o u)
<1> DEFINE S == {e} \union Range(t) \union Range(u)
<1>1. t \in Seq(S) /\ u \in Seq(S) /\ <<e>> \in Seq(S)
  BY DEF IsSeq
<1> HIDE DEF S
<1> QED
  BY <1>1

LEMMA ConsFacts ==
  ASSUME NEW e, NEW t, IsSeq(t)
  PROVE  /\ IsSeq(<<e>> \o t) /\ Len(<<e>> \o t) = 1 + Len(t) /\ (<<e>> \o t)[1] = e
         /\ Range(<<e>> \o t) = {e} \union Range(t)
         /\ \A n \in 1 .. Len(t) : (<<e>> \o t)[1 + n] = t[n]
<1>1. PICK w : w = <<e>>
  OBVIOUS
<1>2. Len(w) = 1 /\ w[1] = e /\ Range(w) = {e}
  BY <1>1 DEF Range
<1>0. IsSeq(w)
  BY <1>1 DEF IsSeq, Range
<1>3. /\ IsSeq(w \o t) /\ Len(w \o t) = Len(w) + Len(t)
      /\ Range(w \o t) = Range(w) \union Range(t)
      /\ \A n \in 1 .. Len(w) : (w \o t)[n] = w[n]
      /\ \A n \in 1 .. Len(t) : (w \o t)[Len(w) + n] = t[n]
  BY <1>0, CatFacts
<1>4. (w \o t)[1] = e
  BY <1>2, <1>3
<1>5. /\ IsSeq(w \o t) /\ Len(w \o t) = 1 + Len(t)
      /\ Range(w \o t) = {e} \union Range(t)
      /\ \A n \in 1 .. Len(t) : (w \o t)[1 + n] = t[n]
  BY <1>2, <1>3
<1> QED
  BY <1>1, <1>4, <1>5

LEMMA NoThread ==
  ASSUME NEW s, NEW c, NEW first, NEW rest,
         Construct(s, c) = <<Keep(first)>> \o rest, IsSeq(rest),
         \A m \in Range(rest) : m.do # "thread"
  PROVE  ThreadsLate(s, c)
<1>1. IsSeq(<<Keep(first)>>) /\ Range(<<Keep(first)>>) = {Keep(first)} /\ Keep(first).do = "keep"
  BY DEF IsSeq, Range, Keep
<1>2. IsSeq(Construct(s, c)) /\ Range(Construct(s, c)) = {Keep(first)} \union Range(rest)
  BY <1>1, CatFacts
<1>3. \A n \in DOMAIN Construct(s, c) : Construct(s, c)[n] \in Range(Construct(s, c))
  BY <1>2, SeqFacts
<1> QED
  BY <1>1, <1>2, <1>3 DEF ThreadsLate

(* The steps of the lists, by the settings that they take from parameters. *)
LEMMA ValueFits ==
  ASSUME NEW a, NEW cls, NEW q, NEW M, NEW T, <<a, cls>> \in M, <<a, "value", q>> \in T
  PROVE  Fits(Make(a, cls, [value |-> q]), M, T)
<1> DEFINE of == [value |-> q]
<1>1. DOMAIN of = {"value"} /\ of["value"] = q
  OBVIOUS
<1> HIDE DEF of
<1>2. Fits(Make(a, cls, of), M, T)
  BY <1>1, OfFits
<1> QED
  BY <1>2 DEF of

LEMMA RateFits ==
  ASSUME NEW a, NEW cls, NEW q, NEW M, NEW T, <<a, cls>> \in M, <<a, "sample_rate", q>> \in T
  PROVE  Fits(Make(a, cls, [sample_rate |-> q]), M, T)
<1> DEFINE of == [sample_rate |-> q]
<1>1. DOMAIN of = {"sample_rate"} /\ of["sample_rate"] = q
  OBVIOUS
<1> HIDE DEF of
<1>2. Fits(Make(a, cls, of), M, T)
  BY <1>1, OfFits
<1> QED
  BY <1>2 DEF of

LEMMA CarrierFits ==
  ASSUME NEW a, NEW cls, NEW q, NEW M, NEW T, <<a, cls>> \in M, <<a, "sampling_freq", q>> \in T
  PROVE  Fits(Make(a, cls, [sampling_freq |-> q]), M, T)
<1> DEFINE of == [sampling_freq |-> q]
<1>1. DOMAIN of = {"sampling_freq"} /\ of["sampling_freq"] = q
  OBVIOUS
<1> HIDE DEF of
<1>2. Fits(Make(a, cls, of), M, T)
  BY <1>1, OfFits
<1> QED
  BY <1>2 DEF of

LEMMA ToneFits ==
  ASSUME NEW a, NEW cls, NEW q, NEW r, NEW M, NEW T, <<a, cls>> \in M,
         <<a, "sampling_freq", q>> \in T, <<a, "amplitude", r>> \in T
  PROVE  Fits(Make(a, cls, [sampling_freq |-> q, amplitude |-> r]), M, T)
<1> DEFINE of == [sampling_freq |-> q, amplitude |-> r]
<1>1. /\ DOMAIN of = {"sampling_freq", "amplitude"}
      /\ of["sampling_freq"] = q /\ of["amplitude"] = r
  OBVIOUS
<1> HIDE DEF of
<1>2. Fits(Make(a, cls, of), M, T)
  BY <1>1, OfFits
<1> QED
  BY <1>2 DEF of

LEMMA MakeFits ==
  ASSUME NEW a, NEW cls, NEW M, NEW T, <<a, cls>> \in M
  PROVE  Fits(Make(a, cls, <<>>), M, T)
<1>1. DOMAIN <<>> = {}
  OBVIOUS
<1> QED
  BY <1>1, OfFits

LEMMA MakeMade ==
  ASSUME NEW t, NEW a, NEW cls, NEW of, Make(a, cls, of) \in Range(t)
  PROVE  a \in Made(t)
<1>1. Make(a, cls, of).do = "make" /\ Make(a, cls, of).attr = a
  BY DEF Make
<1> QED
  BY <1>1 DEF Made

LEMMA FileMade ==
  ASSUME NEW t, NEW a, NEW cls, NEW f, File(a, cls, f) \in Range(t)
  PROVE  a \in Made(t)
<1>1. File(a, cls, f).do = "make" /\ File(a, cls, f).attr = a
  BY DEF File
<1> QED
  BY <1>1 DEF Made

LEMMA WiresPlan ==
  ASSUME NEW t, IsSeq(t), \A m \in Range(t) : m.do = "wire", NEW M, NEW T
  PROVE  Planned(t, M, T)
BY DEF Planned, Fits, Shows

LEMMA ChainPlan ==
  ASSUME NEW names, Len(names) \in Nat, NEW M, NEW T
  PROVE  Planned(Chain(names), M, T)
<1> DEFINE k == Len(names) - 1
           f(n) == Wire(names[n], 0, names[n + 1], 0)
           t == [n \in 1 .. k |-> f(n)]
<1>1. Chain(names) = t
  BY DEF Chain
<1>2. \A n : f(n).do = "wire"
  BY DEF Wire
<1> HIDE DEF f
<1>3. IsSeq(t) /\ \A m \in Range(t) : m.do = "wire"
  <2>1. CASE k \in Nat
    BY <1>2, <2>1 DEF IsSeq, Range
  <2>2. CASE k \notin Nat
    <3>1. 1 .. k = {}
      BY <2>2
    <3>2. t = <<>>
      BY <3>1
    <3> QED
      BY <3>2, NothingIn DEF IsSeq
  <2> QED
    BY <2>1, <2>2
<1> HIDE DEF t
<1> QED
  BY <1>1, <1>3, WiresPlan

LEMMA BoxAndSliderPlan ==
  ASSUME NEW p, NEW box, NEW slider, NEW M, NEW T,
         <<box, "text_box">> \in M, <<slider, "slider">> \in M,
         <<box, "value", p>> \in T, <<slider, "value", p>> \in T
  PROVE  /\ Planned(BoxAndSlider(p, box, slider), M, T)
         /\ {box, slider} \subseteq Made(BoxAndSlider(p, box, slider))
<1> DEFINE x == Make(box, "text_box", [value |-> p])
           y == Make(slider, "slider", [value |-> p])
           t == BoxAndSlider(p, box, slider)
<1>1. Fits(x, M, T) /\ Fits(y, M, T)
  BY ValueFits
<1>2. IsSeq(t) /\ Range(t) = {x, y}
  BY DEF BoxAndSlider, IsSeq, Range
<1>3. {box, slider} \subseteq Made(t)
  BY <1>2, MakeMade
<1> QED
  BY <1>1, <1>2, <1>3 DEF Planned

LEMMA OneStep ==
  ASSUME NEW m PROVE IsSeq(<<m>>) /\ Range(<<m>>) = {m}
BY DEF IsSeq, Range

LEMMA SnocFacts ==
  ASSUME NEW t, IsSeq(t), NEW m
  PROVE  IsSeq(t \o <<m>>) /\ Range(t \o <<m>>) = Range(t) \union {m}
<1>1. PICK w : w = <<m>>
  OBVIOUS
<1>2. IsSeq(w) /\ Range(w) = {m}
  BY <1>1, OneStep
<1>3. IsSeq(w)
  BY <1>2
<1>4. IsSeq(t \o w) /\ Range(t \o w) = Range(t) \union Range(w)
  BY <1>3, CatFacts
<1> QED
  BY <1>1, <1>2, <1>4

-----------------------------------------------------------------------------
(* fast_square_tx.py and fast_square_cal_tx.py *)

TxClasses == {<<"_tun_gain_text_box", "text_box">>, <<"_tun_gain_slider", "slider">>,
  <<"_tun_freq_text_box", "text_box">>, <<"_tun_freq_slider", "slider">>,
  <<"_ampl_text_box", "text_box">>, <<"_ampl_slider", "slider">>,
  <<"uhd_usrp_sink_0", "usrp_sink">>, <<"analog_sig_source_x_0", "sig_source_c">>}
TxShown == {<<"_tun_gain_text_box", "value", "tun_gain">>, <<"_tun_gain_slider", "value",
  "tun_gain">>,
  <<"_tun_freq_text_box", "value", "tun_freq">>, <<"_tun_freq_slider", "value", "tun_freq">>,
  <<"_ampl_text_box", "value", "ampl">>, <<"_ampl_slider", "value", "ampl">>,
  <<"uhd_usrp_sink_0", "samp_rate", "samp_rate">>, <<"uhd_usrp_sink_0", "center_freq", "tun_freq">>,
  <<"uhd_usrp_sink_0", "gain", "tun_gain">>,
  <<"analog_sig_source_x_0", "sampling_freq", "samp_rate">>,
  <<"analog_sig_source_x_0", "amplitude", "ampl">>}

LEMMA TxWidgetsPlan ==
  /\ Planned(TxWidgets, TxClasses, TxShown)
  /\ {"_tun_gain_text_box", "_tun_gain_slider", "_tun_freq_text_box", "_tun_freq_slider",
      "_ampl_text_box", "_ampl_slider"} \subseteq Made(TxWidgets)
<1> DEFINE x == BoxAndSlider("tun_gain", "_tun_gain_text_box", "_tun_gain_slider")
           y == BoxAndSlider("tun_freq", "_tun_freq_text_box", "_tun_freq_slider")
           z == BoxAndSlider("ampl", "_ampl_text_box", "_ampl_slider")
<1>1. /\ <<"_tun_gain_text_box", "text_box">> \in TxClasses
      /\ <<"_tun_gain_slider", "slider">> \in TxClasses
      /\ <<"_tun_freq_text_box", "text_box">> \in TxClasses
      /\ <<"_tun_freq_slider", "slider">> \in TxClasses
      /\ <<"_ampl_text_box", "text_box">> \in TxClasses
      /\ <<"_ampl_slider", "slider">> \in TxClasses
      /\ <<"_tun_gain_text_box", "value", "tun_gain">> \in TxShown
      /\ <<"_tun_gain_slider", "value", "tun_gain">> \in TxShown
      /\ <<"_tun_freq_text_box", "value", "tun_freq">> \in TxShown
      /\ <<"_tun_freq_slider", "value", "tun_freq">> \in TxShown
      /\ <<"_ampl_text_box", "value", "ampl">> \in TxShown
      /\ <<"_ampl_slider", "value", "ampl">> \in TxShown
  BY DEF TxClasses, TxShown
<1>2. /\ Planned(x, TxClasses, TxShown)
      /\ {"_tun_gain_text_box", "_tun_gain_slider"} \subseteq Made(x)
      /\ Planned(y, TxClasses, TxShown)
      /\ {"_tun_freq_text_box", "_tun_freq_slider"} \subseteq Made(y)
      /\ Planned(z, TxClasses, TxShown) /\ {"_ampl_text_box", "_ampl_slider"} \subseteq Made(z)
  BY <1>1, BoxAndSliderPlan
<1>3. TxWidgets = (x \o y) \o z
  BY DEF TxWidgets
<1> HIDE DEF x, y, z
<1>4. Planned(x \o y, TxClasses, TxShown) /\ Made(x \o y) = Made(x) \union Made(y)
  BY <1>2, PlansJoin
<1>5. Planned((x \o y) \o z, TxClasses, TxShown)
      /\ Made((x \o y) \o z) = Made(x \o y) \union Made(z)
  BY <1>2, <1>4, PlansJoin
<1> QED
  BY <1>2, <1>3, <1>4, <1>5

LEMMA TxBlocksPlan ==
  /\ Planned(TxBlocks, TxClasses, TxShown)
  /\ {"uhd_usrp_sink_0", "analog_sig_source_x_0"} \subseteq Made(TxBlocks)
<1>1. /\ <<"uhd_usrp_sink_0", "usrp_sink">> \in TxClasses
      /\ <<"analog_sig_source_x_0", "sig_source_c">> \in TxClasses
      /\ <<"uhd_usrp_sink_0", "samp_rate", "samp_rate">> \in TxShown
      /\ <<"uhd_usrp_sink_0", "center_freq", "tun_freq">> \in TxShown
      /\ <<"uhd_usrp_sink_0", "gain", "tun_gain">> \in TxShown
      /\ <<"analog_sig_source_x_0", "sampling_freq", "samp_rate">> \in TxShown
      /\ <<"analog_sig_source_x_0", "amplitude", "ampl">> \in TxShown
  BY DEF TxClasses, TxShown
<1>2. /\ Fits(Make("uhd_usrp_sink_0", "usrp_sink", <<>>), TxClasses, TxShown)
      /\ Fits(Call("uhd_usrp_sink_0", "samp_rate", "samp_rate"), TxClasses, TxShown)
      /\ Fits(Call("uhd_usrp_sink_0", "center_freq", "tun_freq"), TxClasses, TxShown)
      /\ Fits(Call("uhd_usrp_sink_0", "gain", "tun_gain"), TxClasses, TxShown)
      /\ Fits(Make("analog_sig_source_x_0", "sig_source_c", [sampling_freq |-> "samp_rate",
           amplitude |-> "ampl"]), TxClasses, TxShown)
      /\ Fits(Wire("analog_sig_source_x_0", 0, "uhd_usrp_sink_0", 0), TxClasses, TxShown)
  BY <1>1, CallFits, MakeFits, ToneFits, WireFits
<1>3. /\ IsSeq(TxBlocks)
      /\ Range(TxBlocks) = {Make("uhd_usrp_sink_0", "usrp_sink", <<>>),
           Call("uhd_usrp_sink_0", "samp_rate", "samp_rate"),
           Call("uhd_usrp_sink_0", "center_freq", "tun_freq"),
           Call("uhd_usrp_sink_0", "gain", "tun_gain"),
           Make("analog_sig_source_x_0", "sig_source_c", [sampling_freq |-> "samp_rate",
             amplitude |-> "ampl"]),
           Wire("analog_sig_source_x_0", 0, "uhd_usrp_sink_0", 0)}
  BY DEF TxBlocks, Range, IsSeq
<1> QED
  BY <1>2, <1>3, MakeMade DEF Planned

LEMMA TxSettersAre ==
  /\ DOMAIN TxSetters = {"samp_rate", "tun_gain", "tun_freq", "ampl"}
  /\ \A q \in DOMAIN TxSetters : IsSeq(TxSetters[q])
  /\ Range(TxSetters["samp_rate"]) = {Call("analog_sig_source_x_0", "sampling_freq", "samp_rate"),
       Call("uhd_usrp_sink_0", "samp_rate", "samp_rate")}
  /\ Range(TxSetters["tun_gain"]) = {Call("_tun_gain_slider", "value", "tun_gain"),
       Call("_tun_gain_text_box", "value", "tun_gain"), Call("uhd_usrp_sink_0", "gain", "tun_gain")}
  /\ Range(TxSetters["tun_freq"]) = {Call("_tun_freq_slider", "value", "tun_freq"),
       Call("_tun_freq_text_box", "value", "tun_freq"),
       Call("uhd_usrp_sink_0", "center_freq", "tun_freq")}
  /\ Range(TxSetters["ampl"]) = {Call("_ampl_slider", "value", "ampl"),
       Call("_ampl_text_box", "value", "ampl"), Call("analog_sig_source_x_0", "amplitude", "ampl")}
<1>1. DOMAIN TxSetters = {"samp_rate", "tun_gain", "tun_freq", "ampl"}
  BY DEF TxSetters
<1>2. /\ IsSeq(TxSetters["samp_rate"])
      /\ Range(TxSetters["samp_rate"]) = {Call("analog_sig_source_x_0", "sampling_freq",
           "samp_rate"),
           Call("uhd_usrp_sink_0", "samp_rate", "samp_rate")}
  BY DEF TxSetters, IsSeq, Range
<1>3. /\ IsSeq(TxSetters["tun_gain"])
      /\ Range(TxSetters["tun_gain"]) = {Call("_tun_gain_slider", "value", "tun_gain"),
           Call("_tun_gain_text_box", "value", "tun_gain"), Call("uhd_usrp_sink_0", "gain",
             "tun_gain")}
  BY DEF TxSetters, IsSeq, Range
<1>4. /\ IsSeq(TxSetters["tun_freq"])
      /\ Range(TxSetters["tun_freq"]) = {Call("_tun_freq_slider", "value", "tun_freq"),
           Call("_tun_freq_text_box", "value", "tun_freq"),
           Call("uhd_usrp_sink_0", "center_freq", "tun_freq")}
  BY DEF TxSetters, IsSeq, Range
<1>5. /\ IsSeq(TxSetters["ampl"])
      /\ Range(TxSetters["ampl"]) = {Call("_ampl_slider", "value", "ampl"),
           Call("_ampl_text_box", "value", "ampl"), Call("analog_sig_source_x_0", "amplitude",
             "ampl")}
  BY DEF TxSetters, IsSeq, Range
<1> QED
  BY <1>1, <1>2, <1>3, <1>4, <1>5

LEMMA ClassSets ==
  /\ \A cls \in {"text_box", "slider", "radio_buttons", "static_text", "field"} :
       Classes[cls].sets = {"value"}
  /\ \A cls \in {"usrp_source", "usrp_source_1", "usrp_sink"} : Classes[cls].sets = UsrpSets
  /\ Classes["mrfm_source_c"].sets = {"center_freq", "decim", "tune"}
  /\ Classes["subdev"].sets = {"gain"}
  /\ Classes["sig_source_c"].sets = {"sampling_freq", "amplitude"}
  /\ \A cls \in {"fft_sink_c", "waterfall_sink_c"} :
       Classes[cls].sets = {"sample_rate", "baseband_freq"}
  /\ Classes["scope_sink_c"].sets = {"sample_rate"}
BY DEF Classes, Class, Widget

LEMMA TxRules ==
  ASSUME NEW s \in {"tx", "cal_tx"}, NEW c PROVE Rules(s, c)
<1> DEFINE names == {"samp_rate", "gain", "freq", "address", "tun_gain", "tun_freq", "ampl"}
           first == [p \in names |-> 0]
           rest == TxWidgets \o TxBlocks
<1>1. /\ Setters(s) = TxSetters
      /\ Follower(s) = [gain |-> "tun_gain", freq |-> "tun_freq"]
  BY DEF Setters, Follower, CalTxSetters
<1>2. Planned(rest, TxClasses, TxShown) /\ Made(rest) = Made(TxWidgets) \union Made(TxBlocks)
  BY TxWidgetsPlan, TxBlocksPlan, PlansJoin
<1>3. Construct(s, c) = <<Keep(first)>> \o rest
  <2>1. Construct(s, c) = (<<First(names)>> \o TxWidgets) \o TxBlocks
    BY DEF Construct, Tx, CalTx
  <2>2. First(names) = Keep(first)
    BY DEF First
  <2>3. IsSeq(TxWidgets) /\ IsSeq(TxBlocks)
    BY TxWidgetsPlan, TxBlocksPlan DEF Planned
  <2> HIDE DEF first
  <2> QED
    BY <2>1, <2>2, <2>3, ConsJoin
<1>4. IsSeq(rest) /\ \A m \in Range(rest) : Fits(m, TxClasses, TxShown)
  BY <1>2 DEF Planned
<1>5. ThreadsLate(s, c)
  <2>1. \A m \in Range(rest) : m.do # "thread"
    BY <1>4 DEF Fits
  <2> HIDE DEF rest, first
  <2> QED
    BY <1>3, <1>4, <2>1, NoThread
<1>6. SettersCall(s)
  <2>1. \A q \in DOMAIN TxSetters : \A m \in Range(TxSetters[q]) : m = Call(m.attr, m.setting, q)
    BY TxSettersAre DEF Call
  <2> QED
    BY <1>1, <2>1, TxSettersAre DEF SettersCall, Calls
<1>7. /\ DOMAIN first = names
      /\ DOMAIN Setters(s) = {"samp_rate", "tun_gain", "tun_freq", "ampl"}
      /\ DOMAIN Follower(s) = {"gain", "freq"}
      /\ Follower(s)["gain"] = "tun_gain" /\ Follower(s)["freq"] = "tun_freq"
  BY <1>1, TxSettersAre
<1>8. ASSUME NEW a, NEW k, NEW q, <<a, k, q>> \in TxShown
      PROVE  q \in DOMAIN Setters(s) /\ Call(a, k, q) \in Calls(s, q)
  BY <1>1, <1>7, <1>8, TxSettersAre DEF TxShown, Calls
<1>9. ASSUME NEW q \in DOMAIN Setters(s), NEW n \in Calls(s, q)
      PROVE  /\ n.attr \in Made(rest)
             /\ \A cls : <<n.attr, cls>> \in TxClasses => n.setting \in Classes[cls].sets
  <2>1. n.attr \in Made(rest)
    BY <1>1, <1>2, <1>7, <1>9, TxSettersAre, TxWidgetsPlan, TxBlocksPlan DEF Calls, Call
  <2>2. ASSUME NEW cls, <<n.attr, cls>> \in TxClasses PROVE n.setting \in Classes[cls].sets
    BY <1>1, <1>7, <1>9, <2>2, TxSettersAre, ClassSets DEF Calls, Call, TxClasses, UsrpSets
  <2> QED
    BY <2>1, <2>2
<1>10. \A p \in Settables(s) : Target(s, p) \in DOMAIN Setters(s)
  BY <1>7 DEF Settables, Target
<1> HIDE DEF first, rest, names
<1>11. DOMAIN Setters(s) \subseteq DOMAIN first
       /\ \A p \in DOMAIN Follower(s) :
            p \in DOMAIN first /\ p \notin DOMAIN Setters(s) /\ Follower(s)[p] \in DOMAIN Setters(s)
  BY <1>7 DEF names
<1>12. NoStages(TxClasses)
  BY DEF NoStages, Stages, TxClasses
<1> QED
  BY <1>3, <1>4, <1>5, <1>6, <1>8, <1>9, <1>10, <1>11, <1>12, RulesFromPlan

-----------------------------------------------------------------------------
(* fast_square_fft.py, which starts the second thread *)

FftClasses == {<<"_samp_rate_text_box", "text_box">>, <<"_gain_text_box", "text_box">>,
  <<"_gain_slider", "slider">>, <<"_freq_text_box", "text_box">>,
  <<"_freq_slider", "slider">>, <<"_ant_chooser", "radio_buttons">>,
  <<"uhd_usrp_source_0", "usrp_source_1">>, <<"logfile0", "file_sink">>,
  <<"wxgui_waterfallsink2_0", "waterfall_sink_c">>, <<"wxgui_scopesink2_0", "scope_sink_c">>,
  <<"_lo_locked_probe_static_text", "static_text">>, <<"fft", "fft_sink_c">>}

FftShown == {<<"_samp_rate_text_box", "value", "samp_rate">>,
  <<"_gain_text_box", "value", "gain">>, <<"_gain_slider", "value", "gain">>,
  <<"_freq_text_box", "value", "freq">>, <<"_freq_slider", "value", "freq">>,
  <<"_ant_chooser", "value", "ant">>, <<"uhd_usrp_source_0", "samp_rate", "samp_rate">>,
  <<"uhd_usrp_source_0", "center_freq", "freq">>, <<"uhd_usrp_source_0", "gain", "gain">>,
  <<"uhd_usrp_source_0", "antenna", "ant">>,
  <<"uhd_usrp_source_0", "bandwidth", "samp_rate">>,
  <<"wxgui_waterfallsink2_0", "sample_rate", "samp_rate">>,
  <<"wxgui_scopesink2_0", "sample_rate", "samp_rate">>,
  <<"_lo_locked_probe_static_text", "value", "lo_locked_probe">>,
  <<"fft", "sample_rate", "samp_rate">>}

LEMMA FftWidgetsPlan ==
  /\ Planned(FftWidgets, FftClasses, FftShown)
  /\ {"_samp_rate_text_box", "_gain_text_box", "_gain_slider", "_freq_text_box", "_freq_slider",
      "_ant_chooser"} \subseteq Made(FftWidgets)
<1> DEFINE w == TextBox("samp_rate", "_samp_rate_text_box")
           x == BoxAndSlider("gain", "_gain_text_box", "_gain_slider")
           y == BoxAndSlider("freq", "_freq_text_box", "_freq_slider")
           m == Make("_ant_chooser", "radio_buttons", [value |-> "ant"])
           b == Make("_samp_rate_text_box", "text_box", [value |-> "samp_rate"])
           z == <<m>>
<1>1. /\ <<"_samp_rate_text_box", "text_box">> \in FftClasses
      /\ <<"_ant_chooser", "radio_buttons">> \in FftClasses
      /\ <<"_gain_text_box", "text_box">> \in FftClasses
      /\ <<"_gain_slider", "slider">> \in FftClasses
      /\ <<"_freq_text_box", "text_box">> \in FftClasses
      /\ <<"_freq_slider", "slider">> \in FftClasses
      /\ <<"_samp_rate_text_box", "value", "samp_rate">> \in FftShown
      /\ <<"_ant_chooser", "value", "ant">> \in FftShown
      /\ <<"_gain_text_box", "value", "gain">> \in FftShown
      /\ <<"_gain_slider", "value", "gain">> \in FftShown
      /\ <<"_freq_text_box", "value", "freq">> \in FftShown
      /\ <<"_freq_slider", "value", "freq">> \in FftShown
  BY DEF FftClasses, FftShown
<1>2. /\ Planned(x, FftClasses, FftShown) /\ {"_gain_text_box", "_gain_slider"} \subseteq Made(x)
      /\ Planned(y, FftClasses, FftShown) /\ {"_freq_text_box", "_freq_slider"} \subseteq Made(y)
  BY <1>1, BoxAndSliderPlan
<1>3. Fits(m, FftClasses, FftShown) /\ Fits(b, FftClasses, FftShown)
  BY <1>1, ValueFits
<1>4. IsSeq(z) /\ Range(z) = {m} /\ IsSeq(w) /\ Range(w) = {b}
  BY DEF TextBox, IsSeq, Range
<1>5. "_ant_chooser" \in Made(z) /\ "_samp_rate_text_box" \in Made(w)
  BY <1>4, MakeMade
<1>6. Planned(z, FftClasses, FftShown) /\ Planned(w, FftClasses, FftShown)
  BY <1>3, <1>4 DEF Planned
<1>7. FftWidgets = ((w \o x) \o y) \o z
  BY DEF FftWidgets
<1> HIDE DEF w, x, y, z, m, b
<1>8. Planned(w \o x, FftClasses, FftShown) /\ Made(w \o x) = Made(w) \union Made(x)
  BY <1>2, <1>6, PlansJoin
<1>9. /\ Planned((w \o x) \o y, FftClasses, FftShown)
      /\ Made((w \o x) \o y) = Made(w \o x) \union Made(y)
  BY <1>2, <1>8, PlansJoin
<1>10. /\ Planned(((w \o x) \o y) \o z, FftClasses, FftShown)
       /\ Made(((w \o x) \o y) \o z) = Made((w \o x) \o y) \union Made(z)
  BY <1>6, <1>9, PlansJoin
<1> QED
  BY <1>2, <1>5, <1>7, <1>8, <1>9, <1>10

LEMMA FftSinksPlan ==
  /\ Planned(FftSinks, FftClasses, FftShown)
  /\ {"wxgui_waterfallsink2_0", "wxgui_scopesink2_0", "_lo_locked_probe_static_text",
       "fft"} \subseteq Made(FftSinks)
<1>1. /\ <<"wxgui_waterfallsink2_0", "waterfall_sink_c">> \in FftClasses
      /\ <<"wxgui_scopesink2_0", "scope_sink_c">> \in FftClasses
      /\ <<"_lo_locked_probe_static_text", "static_text">> \in FftClasses
      /\ <<"fft", "fft_sink_c">> \in FftClasses
      /\ <<"wxgui_waterfallsink2_0", "sample_rate", "samp_rate">> \in FftShown
      /\ <<"wxgui_scopesink2_0", "sample_rate", "samp_rate">> \in FftShown
      /\ <<"_lo_locked_probe_static_text", "value", "lo_locked_probe">> \in FftShown
      /\ <<"fft", "sample_rate", "samp_rate">> \in FftShown
  BY DEF FftClasses, FftShown
<1>2. /\ Fits(Make("wxgui_waterfallsink2_0", "waterfall_sink_c", [sample_rate |-> "samp_rate"]),
           FftClasses, FftShown)
      /\ Fits(Make("wxgui_scopesink2_0", "scope_sink_c", [sample_rate |-> "samp_rate"]),
           FftClasses, FftShown)
      /\ Fits(Make("_lo_locked_probe_static_text", "static_text", [value |-> "lo_locked_probe"]),
           FftClasses, FftShown)
      /\ Fits(Make("fft", "fft_sink_c", [sample_rate |-> "samp_rate"]), FftClasses, FftShown)
  BY <1>1, RateFits, ValueFits
<1>3. /\ IsSeq(FftSinks)
      /\ Range(FftSinks) = {Make("wxgui_waterfallsink2_0", "waterfall_sink_c",
           [sample_rate |-> "samp_rate"]),
           Make("wxgui_scopesink2_0", "scope_sink_c", [sample_rate |-> "samp_rate"]),
           Make("_lo_locked_probe_static_text", "static_text", [value |-> "lo_locked_probe"]),
           Make("fft", "fft_sink_c", [sample_rate |-> "samp_rate"])}
  BY DEF FftSinks, Range, IsSeq
<1> QED
  BY <1>2, <1>3, MakeMade DEF Planned

LEMMA FftSettersAre ==
  /\ DOMAIN FftSetters = {"samp_rate", "lo_locked_probe", "gain", "freq", "ant"}
  /\ \A q \in DOMAIN FftSetters : IsSeq(FftSetters[q])
  /\ Range(FftSetters["samp_rate"]) = {Call("wxgui_scopesink2_0", "sample_rate", "samp_rate"),
       Call("fft", "sample_rate", "samp_rate"),
       Call("wxgui_waterfallsink2_0", "sample_rate", "samp_rate"),
       Call("_samp_rate_text_box", "value", "samp_rate"),
       Call("uhd_usrp_source_0", "samp_rate", "samp_rate"),
       Call("uhd_usrp_source_0", "bandwidth", "samp_rate")}
  /\ Range(FftSetters["lo_locked_probe"]) = {Call("_lo_locked_probe_static_text", "value",
       "lo_locked_probe")}
  /\ Range(FftSetters["gain"]) = {Call("_gain_slider", "value", "gain"),
       Call("_gain_text_box", "value", "gain"),
       Call("uhd_usrp_source_0", "gain", "gain")}
  /\ Range(FftSetters["freq"]) = {Call("_freq_slider", "value", "freq"),
       Call("_freq_text_box", "value", "freq"),
       Call("uhd_usrp_source_0", "center_freq", "freq")}
  /\ Range(FftSetters["ant"]) = {Call("uhd_usrp_source_0", "antenna", "ant"),
       Call("_ant_chooser", "value", "ant")}
<1>1. DOMAIN FftSetters = {"samp_rate", "lo_locked_probe", "gain", "freq", "ant"}
  BY DEF FftSetters
<1>2. /\ IsSeq(FftSetters["samp_rate"])
      /\ Range(FftSetters["samp_rate"]) = {Call("wxgui_scopesink2_0", "sample_rate", "samp_rate"),
           Call("fft", "sample_rate", "samp_rate"),
           Call("wxgui_waterfallsink2_0", "sample_rate", "samp_rate"),
           Call("_samp_rate_text_box", "value", "samp_rate"),
           Call("uhd_usrp_source_0", "samp_rate", "samp_rate"),
           Call("uhd_usrp_source_0", "bandwidth", "samp_rate")}
  BY DEF FftSetters, IsSeq, Range
<1>3. /\ IsSeq(FftSetters["lo_locked_probe"])
      /\ Range(FftSetters["lo_locked_probe"]) = {Call("_lo_locked_probe_static_text", "value",
           "lo_locked_probe")}
  BY DEF FftSetters, IsSeq, Range
<1>4. /\ IsSeq(FftSetters["gain"])
      /\ Range(FftSetters["gain"]) = {Call("_gain_slider", "value", "gain"),
           Call("_gain_text_box", "value", "gain"),
           Call("uhd_usrp_source_0", "gain", "gain")}
  BY DEF FftSetters, IsSeq, Range
<1>5. /\ IsSeq(FftSetters["freq"])
      /\ Range(FftSetters["freq"]) = {Call("_freq_slider", "value", "freq"),
           Call("_freq_text_box", "value", "freq"),
           Call("uhd_usrp_source_0", "center_freq", "freq")}
  BY DEF FftSetters, IsSeq, Range
<1>6. /\ IsSeq(FftSetters["ant"])
      /\ Range(FftSetters["ant"]) = {Call("uhd_usrp_source_0", "antenna", "ant"),
           Call("_ant_chooser", "value", "ant")}
  BY DEF FftSetters, IsSeq, Range
<1> QED
  BY <1>1, <1>2, <1>3, <1>4, <1>5, <1>6

LEMMA FftSourcePlan ==
  ASSUME NEW c
  PROVE  Planned(FftSource(c), FftClasses, FftShown) /\ "uhd_usrp_source_0" \in Made(FftSource(c))
<1> DEFINE x == <<Make("uhd_usrp_source_0", "usrp_source_1", <<>>),
                  Call("uhd_usrp_source_0", "samp_rate", "samp_rate"),
                  Call("uhd_usrp_source_0", "center_freq", "freq"),
                  Call("uhd_usrp_source_0", "gain", "gain"),
                  Call("uhd_usrp_source_0", "antenna", "ant"),
                  Call("uhd_usrp_source_0", "bandwidth", "samp_rate")>>
           y == <<File("logfile0", "file_sink", "usrp_fft_iq.dat"),
                  Wire("uhd_usrp_source_0", 0, "logfile0", 0)>>
<1>1. /\ <<"uhd_usrp_source_0", "usrp_source_1">> \in FftClasses
      /\ <<"logfile0", "file_sink">> \in FftClasses
      /\ <<"uhd_usrp_source_0", "samp_rate", "samp_rate">> \in FftShown
      /\ <<"uhd_usrp_source_0", "center_freq", "freq">> \in FftShown
      /\ <<"uhd_usrp_source_0", "gain", "gain">> \in FftShown
      /\ <<"uhd_usrp_source_0", "antenna", "ant">> \in FftShown
      /\ <<"uhd_usrp_source_0", "bandwidth", "samp_rate">> \in FftShown
  BY DEF FftClasses, FftShown
<1>2. /\ Fits(Make("uhd_usrp_source_0", "usrp_source_1", <<>>), FftClasses, FftShown)
      /\ Fits(Call("uhd_usrp_source_0", "samp_rate", "samp_rate"), FftClasses, FftShown)
      /\ Fits(Call("uhd_usrp_source_0", "center_freq", "freq"), FftClasses, FftShown)
      /\ Fits(Call("uhd_usrp_source_0", "gain", "gain"), FftClasses, FftShown)
      /\ Fits(Call("uhd_usrp_source_0", "antenna", "ant"), FftClasses, FftShown)
      /\ Fits(Call("uhd_usrp_source_0", "bandwidth", "samp_rate"), FftClasses, FftShown)
      /\ Fits(File("logfile0", "file_sink", "usrp_fft_iq.dat"), FftClasses, FftShown)
      /\ Fits(Wire("uhd_usrp_source_0", 0, "logfile0", 0), FftClasses, FftShown)
  BY <1>1, CallFits, FileFits, MakeFits, WireFits
<1>3. /\ IsSeq(x) /\ Range(x) = {Make("uhd_usrp_source_0", "usrp_source_1", <<>>),
           Call("uhd_usrp_source_0", "samp_rate", "samp_rate"),
           Call("uhd_usrp_source_0", "center_freq", "freq"),
           Call("uhd_usrp_source_0", "gain", "gain"),
           Call("uhd_usrp_source_0", "antenna", "ant"),
           Call("uhd_usrp_source_0", "bandwidth", "samp_rate")}
      /\ IsSeq(y) /\ Range(y) = {File("logfile0", "file_sink", "usrp_fft_iq.dat"),
           Wire("uhd_usrp_source_0", 0, "logfile0", 0)}
  BY DEF IsSeq, Range
<1>4. "uhd_usrp_source_0" \in Made(x)
  BY <1>3, MakeMade
<1>5. FftSource(c) = x \o When(c.tofile, y)
  BY DEF FftSource
<1> HIDE DEF x, y
<1>6. Planned(x, FftClasses, FftShown) /\ Planned(y, FftClasses, FftShown)
  BY <1>2, <1>3 DEF Planned
<1>7. Planned(When(c.tofile, y), FftClasses, FftShown)
  BY <1>6, PlanWhen
<1>8. /\ Planned(x \o When(c.tofile, y), FftClasses, FftShown)
      /\ Made(x \o When(c.tofile, y)) = Made(x) \union Made(When(c.tofile, y))
  BY <1>6, <1>7, PlansJoin
<1> QED
  BY <1>4, <1>5, <1>8

LEMMA FftRules ==
  ASSUME NEW c PROVE Rules("fft", c)
<1> DEFINE s == "fft"
           first == [p \in Variables |-> 0]
           x == FftWidgets
           y == FftSource(c)
           z == FftSinks
           before == (x \o y) \o z
           rest == (before \o <<Thread>>) \o FftWiring
<1>1. /\ Setters(s) = FftSetters
      /\ Follower(s) = [param_samp_rate |-> "samp_rate", param_freq |-> "freq",
                        param_gain |-> "gain", chan0_lo_locked |-> "lo_locked_probe"]
  BY DEF Setters, Follower
<1>2. /\ Planned(before, FftClasses, FftShown)
      /\ Made(before) = Made(x) \union Made(y) \union Made(z)
  <2>1. Planned(x \o y, FftClasses, FftShown) /\ Made(x \o y) = Made(x) \union Made(y)
    BY FftWidgetsPlan, FftSourcePlan, PlansJoin
  <2> HIDE DEF x, y, z
  <2> QED
    BY <2>1, FftSinksPlan, PlansJoin DEF z
<1>3. IsSeq(FftWiring) /\ \A m \in Range(FftWiring) : m.do = "wire"
  BY DEF FftWiring, IsSeq, Range, Wire
<1>4. Planned(FftWiring, FftClasses, FftShown)
  BY <1>3, WiresPlan
<1>5. IsSeq(<<Thread>>) /\ Range(<<Thread>>) = {Thread} /\ Len(<<Thread>>) = 1
      /\ Thread.do = "thread"
  BY DEF IsSeq, Range, Thread
<1>6. IsSeq(before) /\ \A m \in Range(before) : Fits(m, FftClasses, FftShown)
  BY <1>2 DEF Planned
<1> HIDE DEF before
<1>7. /\ IsSeq(before \o <<Thread>>) /\ Len(before \o <<Thread>>) = Len(before) + 1
      /\ Range(before \o <<Thread>>) = Range(before) \union {Thread}
      /\ \A n \in 1 .. Len(before) : (before \o <<Thread>>)[n] = before[n]
  BY <1>5, <1>6, CatFacts
<1>8. /\ IsSeq(rest) /\ Range(rest) = Range(before \o <<Thread>>) \union Range(FftWiring)
      /\ Len(rest) = Len(before \o <<Thread>>) + Len(FftWiring)
      /\ \A n \in 1 .. Len(before \o <<Thread>>) : rest[n] = (before \o <<Thread>>)[n]
      /\ \A n \in 1 .. Len(FftWiring) : rest[Len(before \o <<Thread>>) + n] = FftWiring[n]
  BY <1>3, <1>7, CatFacts
<1>9. Construct(s, c) = <<Keep(first)>> \o rest
  <2>1. Construct(s, c) = ((((<<First(Variables)>> \o x) \o y) \o z) \o <<Thread>>) \o FftWiring
    BY DEF Construct, Fft, FftVariables
  <2>2. First(Variables) = Keep(first)
    BY DEF First
  <2>3. IsSeq(x) /\ IsSeq(y) /\ IsSeq(z)
    BY FftWidgetsPlan, FftSourcePlan, FftSinksPlan DEF Planned
  <2> HIDE DEF x, y, z, first
  <2>4. IsSeq(x \o y)
    BY <2>3, CatFacts
  <2>5. (((<<Keep(first)>> \o x) \o y) \o z) = <<Keep(first)>> \o ((x \o y) \o z)
    BY <2>3, <2>4, ConsJoin
  <2>6. (<<Keep(first)>> \o before) \o <<Thread>> = <<Keep(first)>> \o (before \o <<Thread>>)
    BY <1>5, <1>6, ConsJoin
  <2>7. (<<Keep(first)>> \o (before \o <<Thread>>)) \o FftWiring = <<Keep(first)>> \o rest
    BY <1>3, <1>7, ConsJoin
  <2> QED
    BY <2>1, <2>2, <2>5, <2>6, <2>7 DEF before
<1>10. Made(before) \subseteq Made(rest)
  <2> HIDE DEF rest
  <2> QED
    BY <1>7, <1>8 DEF Made
<1> HIDE DEF rest, x, y, z
<1>11. \A m \in Range(rest) : m.do = "thread" \/ Fits(m, FftClasses, FftShown)
  BY <1>4, <1>5, <1>6, <1>7, <1>8 DEF Planned
<1>12. SettersCall(s)
  <2>1. \A q \in DOMAIN FftSetters : \A m \in Range(FftSetters[q]) : m = Call(m.attr, m.setting, q)
    BY FftSettersAre DEF Call
  <2> QED
    BY <1>1, <2>1, FftSettersAre DEF SettersCall, Calls
<1>13. /\ DOMAIN first = Variables
       /\ DOMAIN Setters(s) = {"samp_rate", "lo_locked_probe", "gain", "freq", "ant"}
       /\ DOMAIN Follower(s) = {"param_samp_rate", "param_freq", "param_gain", "chan0_lo_locked"}
       /\ Follower(s)["param_samp_rate"] = "samp_rate" /\ Follower(s)["param_freq"] = "freq"
       /\ Follower(s)["param_gain"] = "gain" /\ Follower(s)["chan0_lo_locked"] = "lo_locked_probe"
  BY <1>1, FftSettersAre
<1>14. ASSUME NEW a, NEW k, NEW q, <<a, k, q>> \in FftShown
       PROVE  q \in DOMAIN Setters(s) /\ Call(a, k, q) \in Calls(s, q)
  BY <1>1, <1>13, <1>14, FftSettersAre DEF FftShown, Calls
<1>15. ASSUME NEW q \in DOMAIN Setters(s), NEW n \in Calls(s, q)
       PROVE  /\ n.attr \in Made(before)
              /\ \A cls : <<n.attr, cls>> \in FftClasses => n.setting \in Classes[cls].sets
  <2>1. n.attr \in Made(before)
    BY <1>1, <1>2, <1>13, <1>15, FftSettersAre, FftWidgetsPlan, FftSourcePlan, FftSinksPlan
    DEF Calls, Call, x, y, z
  <2>2. ASSUME NEW cls, <<n.attr, cls>> \in FftClasses PROVE n.setting \in Classes[cls].sets
    BY <1>1, <1>13, <1>15, <2>2, FftSettersAre, ClassSets DEF Calls, Call, FftClasses, UsrpSets
  <2> QED
    BY <2>1, <2>2
<1>16. \A p \in Settables(s) : Target(s, p) \in DOMAIN Setters(s)
  BY <1>13 DEF Settables, Target
<1>17. Len(before) \in Nat /\ Len(rest) \in Nat
  BY <1>6, <1>8, SeqFacts
<1>22. ASSUME NEW m \in Len(before) + 2 .. Len(rest) PROVE rest[m].do = "wire"
  <2> DEFINE j == m - (Len(before) + 1)
  <2>1. Len(FftWiring) \in Nat /\ \A i \in 1 .. Len(FftWiring) : FftWiring[i] \in Range(FftWiring)
    BY <1>3, SeqFacts
  <2>2. j \in 1 .. Len(FftWiring) /\ (Len(before) + 1) + j = m
    BY <1>7, <1>8, <1>17, <1>22, <2>1
  <2>3. rest[m] = FftWiring[j]
    BY <1>7, <1>8, <2>2
  <2> QED
    BY <1>3, <2>1, <2>2, <2>3
<1>18. ThreadsLate(s, c)
  <2> DEFINE all == Construct(s, c)
  <2>1. /\ IsSeq(all) /\ Len(all) = 1 + Len(rest) /\ all[1] = Keep(first)
        /\ \A n \in 1 .. Len(rest) : all[1 + n] = rest[n]
    <3> HIDE DEF first
    <3>1. IsSeq(rest)
      BY <1>8
    <3>2. /\ IsSeq(<<Keep(first)>> \o rest) /\ Len(<<Keep(first)>> \o rest) = 1 + Len(rest)
          /\ (<<Keep(first)>> \o rest)[1] = Keep(first)
          /\ \A n \in 1 .. Len(rest) : (<<Keep(first)>> \o rest)[1 + n] = rest[n]
      BY <3>1, ConsFacts
    <3> QED
      BY <1>9, <3>2
  <2> HIDE DEF all
  <2>2. ASSUME NEW n \in DOMAIN all, all[n].do = "thread" PROVE n = Len(before) + 2
    <3>1. n \in 1 .. Len(rest) + 1
      BY <1>17, <2>1, <2>2, SeqFacts
    <3>2. n # 1
      BY <2>1, <2>2 DEF Keep
    <3>3. n - 1 \in 1 .. Len(rest) /\ 1 + (n - 1) = n
      BY <1>17, <3>1, <3>2
    <3>4. rest[n - 1].do = "thread"
      BY <2>1, <2>2, <3>3
    <3>5. n - 1 \notin 1 .. Len(before)
      <4> SUFFICES ASSUME n - 1 \in 1 .. Len(before) PROVE FALSE
        OBVIOUS
      <4>1. n - 1 \in 1 .. Len(before \o <<Thread>>)
        BY <1>7, <1>17
      <4>2. rest[n - 1] = before[n - 1] /\ before[n - 1] \in Range(before)
        BY <1>6, <1>7, <1>8, <4>1, SeqFacts
      <4> QED
        BY <1>6, <3>4, <4>2 DEF Fits
    <3>6. ~(n - 1 > Len(before) + 1)
      <4> SUFFICES ASSUME n - 1 > Len(before) + 1 PROVE FALSE
        OBVIOUS
      <4>1. n - 1 \in Len(before) + 2 .. Len(rest)
        BY <1>17, <3>3
      <4>2. rest[n - 1].do = "wire"
        BY <1>22, <4>1
      <4> QED
        BY <3>4, <4>2
    <3> QED
      BY <1>17, <3>3, <3>5, <3>6
  <2>3. ASSUME NEW a \in Made(before)
        PROVE  \E k \in 1 .. (Len(before) + 2) - 1 : all[k].do = "make" /\ all[k].attr = a
    <3>1. PICK m \in Range(before) : m.do = "make" /\ m.attr = a
      BY <2>3 DEF Made
    <3>2. PICK i \in 1 .. Len(before) : before[i] = m
      BY <1>6, SeqFacts
    <3>3. i \in 1 .. Len(before \o <<Thread>>)
      BY <1>7, <1>17
    <3>4. rest[i] = m /\ i \in 1 .. Len(rest)
      <4>1. Len(FftWiring) \in Nat
        BY <1>3, SeqFacts
      <4> QED
        BY <1>7, <1>8, <1>17, <3>2, <3>3, <4>1
    <3>5. all[1 + i] = m /\ 1 + i \in 1 .. (Len(before) + 2) - 1
      BY <1>17, <2>1, <3>4
    <3> QED
      BY <3>1, <3>5
  <2>4. \A m \in Calls(s, Probed(s)) : m.attr \in Made(before)
    BY <1>13, <1>15 DEF Probed
  <2>5. "chan0_lo_locked" \in DOMAIN Follower(s) /\ s # "demo" /\ s # "mrfm_fft"
    BY <1>13
  <2>6. ASSUME NEW k \in (Len(before) + 2) + 1 .. Len(all) PROVE all[k].do # "call"
    <3>1. k - 1 \in Len(before) + 2 .. Len(rest) /\ 1 + (k - 1) = k /\ k - 1 \in 1 .. Len(rest)
      BY <1>17, <2>1
    <3>2. all[k] = rest[k - 1]
      BY <2>1, <3>1
    <3> QED
      BY <1>22, <3>1, <3>2
  <2>7. Len(before) + 2 \in Nat
    BY <1>17
  <2> HIDE DEF s
  <2> DEFINE late == Len(before) + 2
  <2>8. /\ \A n \in DOMAIN all : all[n].do = "thread" => n = late
        /\ \A m \in Calls(s, Probed(s)) :
             \E k \in 1 .. late - 1 : all[k].do = "make" /\ all[k].attr = m.attr
        /\ \A k \in late + 1 .. Len(all) : all[k].do # "call"
    BY <2>2, <2>3, <2>4, <2>6
  <2> HIDE DEF late
  <2>9. /\ \A n \in DOMAIN all : all[n].do = "thread" =>
             /\ "chan0_lo_locked" \in DOMAIN Follower(s) /\ s # "demo" /\ s # "mrfm_fft"
             /\ \A m \in Calls(s, Probed(s)) :
                  \E k \in 1 .. n - 1 : all[k].do = "make" /\ all[k].attr = m.attr
             /\ \A k \in n + 1 .. Len(all) : all[k].do # "call"
    BY <2>5, <2>8
  <2> QED
    BY <2>9 DEF ThreadsLate, all
<1>19. DOMAIN Setters(s) \subseteq DOMAIN first
       /\ \A p \in DOMAIN Follower(s) :
            p \in DOMAIN first /\ p \notin DOMAIN Setters(s) /\ Follower(s)[p] \in DOMAIN Setters(s)
  BY <1>13 DEF Variables
<1> HIDE DEF first, s
<1>20. NoStages(FftClasses)
  BY DEF NoStages, Stages, FftClasses
<1>21. Rules(s, c)
  BY <1>8, <1>9, <1>10, <1>11, <1>12, <1>14, <1>15, <1>16, <1>18, <1>19, <1>20, RulesFromPlan
<1> QED
  BY <1>21 DEF s

-----------------------------------------------------------------------------
(* fast_square_demo.py, whose setters call what it does not have *)

DemoParts == {<<"_gain_text_box", "text_box">>, <<"_gain_slider", "slider">>,
  <<"scopesink_0", "fft_sink_c">>, <<"scopesink_1", "scope_sink_c">>,
  <<"scopesink_2", "scope_sink_c">>, <<"multiply_0", "multiply_vcc">>,
  <<"multiply_1", "multiply_vcc">>, <<"carrier_est", "sig_source_c">>,
  <<"subcarrier_est", "sig_source_c">>, <<"carrier_tracking_filter", "one_to_one">>,
  <<"carrier_tracking", "one_to_one">>, <<"carrier_tracking_conj", "one_to_one">>,
  <<"subcarrier_tracking_filter", "one_to_one">>, <<"subcarrier_tracking", "one_to_one">>,
  <<"stitcher", "freq_stitcher">>, <<"logfile0", "file_sink">>, <<"logfile1", "file_sink">>}

TestParts == {<<"source_pre", "file_source">>, <<"source", "throttle">>,
  <<"source_freqs_pre", "file_source">>, <<"source_freqs", "throttle">>}

BoardParts == {<<"source", "usrp_source">>}

TestRates == {<<"source", "sample_rate", "samp_rate">>,
  <<"source_freqs", "sample_rate", "samp_rate">>}

DemoClasses(c) == DemoParts \union (IF c.test THEN TestParts ELSE BoardParts)

DemoShown == {<<"_gain_text_box", "value", "gain">>, <<"_gain_slider", "value", "gain">>,
  <<"source", "sample_rate", "samp_rate">>, <<"source_freqs", "sample_rate", "samp_rate">>,
  <<"source", "center_freq", "freq">>, <<"source", "gain", "gain">>,
  <<"source", "antenna", "ant">>, <<"source", "bandwidth", "samp_rate">>,
  <<"source", "samp_rate", "samp_rate">>, <<"scopesink_0", "sample_rate", "samp_rate">>,
  <<"scopesink_1", "sample_rate", "samp_rate">>,
  <<"scopesink_2", "sample_rate", "samp_rate">>,
  <<"carrier_est", "sampling_freq", "samp_rate">>,
  <<"subcarrier_est", "sampling_freq", "samp_rate">>}

LEMMA FromTestFilesPlan ==
  ASSUME NEW M, NEW T, TestParts \subseteq M, TestRates \subseteq T
  PROVE  Planned(FromTestFiles, M, T)
<1>1. /\ <<"source_pre", "file_source">> \in M /\ <<"source", "throttle">> \in M
      /\ <<"source_freqs_pre", "file_source">> \in M /\ <<"source_freqs", "throttle">> \in M
      /\ <<"source", "sample_rate", "samp_rate">> \in T
      /\ <<"source_freqs", "sample_rate", "samp_rate">> \in T
  BY DEF TestParts, TestRates
<1>2. /\ Fits(File("source_pre", "file_source", "test.dat"), M, T)
      /\ Fits(Make("source", "throttle", [sample_rate |-> "samp_rate"]), M, T)
      /\ Fits(Wire("source_pre", 0, "source", 0), M, T)
      /\ Fits(File("source_freqs_pre", "file_source", "test_freqs.dat"), M, T)
      /\ Fits(Make("source_freqs", "throttle", [sample_rate |-> "samp_rate"]), M, T)
      /\ Fits(Wire("source_freqs_pre", 0, "source_freqs", 0), M, T)
  BY <1>1, FileFits, RateFits, WireFits
<1>3. /\ IsSeq(FromTestFiles)
      /\ Range(FromTestFiles) = {File("source_pre", "file_source", "test.dat"),
           Make("source", "throttle", [sample_rate |-> "samp_rate"]),
           Wire("source_pre", 0, "source", 0),
           File("source_freqs_pre", "file_source", "test_freqs.dat"),
           Make("source_freqs", "throttle", [sample_rate |-> "samp_rate"]),
           Wire("source_freqs_pre", 0, "source_freqs", 0)}
  BY DEF FromTestFiles, Range, IsSeq
<1> QED
  BY <1>2, <1>3 DEF Planned

LEMMA DemoSinksPlan ==
  ASSUME NEW c
  PROVE  Planned(DemoSinks, DemoClasses(c), DemoShown)
<1>1. /\ <<"scopesink_0", "fft_sink_c">> \in DemoClasses(c)
      /\ <<"scopesink_1", "scope_sink_c">> \in DemoClasses(c)
      /\ <<"scopesink_2", "scope_sink_c">> \in DemoClasses(c)
      /\ <<"scopesink_0", "sample_rate", "samp_rate">> \in DemoShown
      /\ <<"scopesink_1", "sample_rate", "samp_rate">> \in DemoShown
      /\ <<"scopesink_2", "sample_rate", "samp_rate">> \in DemoShown
  BY DEF DemoClasses, DemoParts, DemoShown
<1>2. /\ Fits(Make("scopesink_0", "fft_sink_c", [sample_rate |-> "samp_rate"]), DemoClasses(c),
           DemoShown)
      /\ Fits(Make("scopesink_1", "scope_sink_c", [sample_rate |-> "samp_rate"]), DemoClasses(c),
           DemoShown)
      /\ Fits(Make("scopesink_2", "scope_sink_c", [sample_rate |-> "samp_rate"]), DemoClasses(c),
           DemoShown)
  BY <1>1, RateFits
<1>3. /\ IsSeq(DemoSinks)
      /\ Range(DemoSinks) = {Make("scopesink_0", "fft_sink_c", [sample_rate |-> "samp_rate"]),
           Make("scopesink_1", "scope_sink_c", [sample_rate |-> "samp_rate"]),
           Make("scopesink_2", "scope_sink_c", [sample_rate |-> "samp_rate"])}
  BY DEF DemoSinks, Range, IsSeq
<1> QED
  BY <1>2, <1>3 DEF Planned

LEMMA DemoBlocksPlan ==
  ASSUME NEW c
  PROVE  Planned(DemoBlocks, DemoClasses(c), DemoShown)
<1>1. /\ <<"multiply_0", "multiply_vcc">> \in DemoClasses(c)
      /\ <<"multiply_1", "multiply_vcc">> \in DemoClasses(c)
      /\ <<"carrier_est", "sig_source_c">> \in DemoClasses(c)
      /\ <<"subcarrier_est", "sig_source_c">> \in DemoClasses(c)
      /\ <<"carrier_tracking_filter", "one_to_one">> \in DemoClasses(c)
      /\ <<"carrier_tracking", "one_to_one">> \in DemoClasses(c)
      /\ <<"carrier_tracking_conj", "one_to_one">> \in DemoClasses(c)
      /\ <<"subcarrier_tracking_filter", "one_to_one">> \in DemoClasses(c)
      /\ <<"subcarrier_tracking", "one_to_one">> \in DemoClasses(c)
      /\ <<"stitcher", "freq_stitcher">> \in DemoClasses(c)
      /\ <<"carrier_est", "sampling_freq", "samp_rate">> \in DemoShown
      /\ <<"subcarrier_est", "sampling_freq", "samp_rate">> \in DemoShown
  BY DEF DemoClasses, DemoParts, DemoShown
<1>2. /\ Fits(Make("multiply_0", "multiply_vcc", <<>>), DemoClasses(c), DemoShown)
      /\ Fits(Make("multiply_1", "multiply_vcc", <<>>), DemoClasses(c), DemoShown)
      /\ Fits(Make("carrier_est", "sig_source_c", [sampling_freq |-> "samp_rate"]),
           DemoClasses(c), DemoShown)
      /\ Fits(Make("subcarrier_est", "sig_source_c", [sampling_freq |-> "samp_rate"]),
           DemoClasses(c), DemoShown)
      /\ Fits(Make("carrier_tracking_filter", "one_to_one", <<>>), DemoClasses(c), DemoShown)
      /\ Fits(Make("carrier_tracking", "one_to_one", <<>>), DemoClasses(c), DemoShown)
      /\ Fits(Make("carrier_tracking_conj", "one_to_one", <<>>), DemoClasses(c), DemoShown)
      /\ Fits(Make("subcarrier_tracking_filter", "one_to_one", <<>>), DemoClasses(c), DemoShown)
      /\ Fits(Make("subcarrier_tracking", "one_to_one", <<>>), DemoClasses(c), DemoShown)
      /\ Fits(File("stitcher", "freq_stitcher", "cal.dat"), DemoClasses(c), DemoShown)
  BY <1>1, CarrierFits, FileFits, MakeFits
<1>3. /\ IsSeq(DemoBlocks)
      /\ Range(DemoBlocks) = {Make("multiply_0", "multiply_vcc", <<>>),
           Make("multiply_1", "multiply_vcc", <<>>),
           Make("carrier_est", "sig_source_c", [sampling_freq |-> "samp_rate"]),
           Make("subcarrier_est", "sig_source_c", [sampling_freq |-> "samp_rate"]),
           Make("carrier_tracking_filter", "one_to_one", <<>>),
           Make("carrier_tracking", "one_to_one", <<>>),
           Make("carrier_tracking_conj", "one_to_one", <<>>),
           Make("subcarrier_tracking_filter", "one_to_one", <<>>),
           Make("subcarrier_tracking", "one_to_one", <<>>),
           File("stitcher", "freq_stitcher", "cal.dat")}
  BY DEF DemoBlocks, Range, IsSeq
<1> QED
  BY <1>2, <1>3 DEF Planned

LEMMA DemoSettersAre ==
  /\ DOMAIN DemoSetters = {"samp_rate", "lo_locked_probe", "gain", "freq", "ant"}
  /\ \A q \in DOMAIN DemoSetters : IsSeq(DemoSetters[q])
  /\ Range(DemoSetters["samp_rate"]) = {Call("wxgui_scopesink2_0", "sample_rate", "samp_rate"),
       Call("fft", "sample_rate", "samp_rate"),
       Call("wxgui_waterfallsink2_0", "sample_rate", "samp_rate"),
       Call("_samp_rate_text_box", "value", "samp_rate"),
       Call("source", "samp_rate", "samp_rate"),
       Call("source", "bandwidth", "samp_rate")}
  /\ Range(DemoSetters["lo_locked_probe"]) = {Call("_lo_locked_probe_static_text", "value",
       "lo_locked_probe")}
  /\ Range(DemoSetters["gain"]) = {Call("_gain_slider", "value", "gain"),
       Call("_gain_text_box", "value", "gain"), Call("source", "gain", "gain")}
  /\ Range(DemoSetters["freq"]) = {Call("fft", "baseband_freq", "freq"),
       Call("_freq_slider", "value", "freq"), Call("_freq_text_box", "value", "freq"),
       Call("source", "center_freq", "freq")}
  /\ Range(DemoSetters["ant"]) = {Call("source", "antenna", "ant"),
       Call("_ant_chooser", "value", "ant")}
<1>1. DOMAIN DemoSetters = {"samp_rate", "lo_locked_probe", "gain", "freq", "ant"}
  BY DEF DemoSetters
<1>2. /\ IsSeq(DemoSetters["samp_rate"])
      /\ Range(DemoSetters["samp_rate"]) = {Call("wxgui_scopesink2_0", "sample_rate", "samp_rate"),
           Call("fft", "sample_rate", "samp_rate"),
           Call("wxgui_waterfallsink2_0", "sample_rate", "samp_rate"),
           Call("_samp_rate_text_box", "value", "samp_rate"),
           Call("source", "samp_rate", "samp_rate"),
           Call("source", "bandwidth", "samp_rate")}
  BY DEF DemoSetters, IsSeq, Range
<1>3. /\ IsSeq(DemoSetters["lo_locked_probe"])
      /\ Range(DemoSetters["lo_locked_probe"]) = {Call("_lo_locked_probe_static_text", "value",
           "lo_locked_probe")}
  BY DEF DemoSetters, IsSeq, Range
<1>4. /\ IsSeq(DemoSetters["gain"])
      /\ Range(DemoSetters["gain"]) = {Call("_gain_slider", "value", "gain"),
           Call("_gain_text_box", "value", "gain"), Call("source", "gain", "gain")}
  BY DEF DemoSetters, IsSeq, Range
<1>5. /\ IsSeq(DemoSetters["freq"])
      /\ Range(DemoSetters["freq"]) = {Call("fft", "baseband_freq", "freq"),
           Call("_freq_slider", "value", "freq"),
           Call("_freq_text_box", "value", "freq"),
           Call("source", "center_freq", "freq")}
  BY DEF DemoSetters, IsSeq, Range
<1>6. /\ IsSeq(DemoSetters["ant"])
      /\ Range(DemoSetters["ant"]) = {Call("source", "antenna", "ant"),
           Call("_ant_chooser", "value", "ant")}
  BY DEF DemoSetters, IsSeq, Range
<1> QED
  BY <1>1, <1>2, <1>3, <1>4, <1>5, <1>6

LEMMA DemoSourcePlan ==
  ASSUME NEW c
  PROVE  /\ Planned(DemoSource(c), DemoClasses(c), DemoShown)
         /\ ~c.test => "source" \in Made(DemoSource(c))
<1>1. CASE c.test
  <2>1. TestParts \subseteq DemoClasses(c) /\ TestRates \subseteq DemoShown
    BY <1>1 DEF DemoClasses, TestRates, DemoShown
  <2> QED
    BY <1>1, <2>1, FromTestFilesPlan DEF DemoSource
<1>2. CASE ~c.test
  <2> DEFINE t == DemoSource(c)
  <2>1. /\ <<"source", "usrp_source">> \in DemoClasses(c)
        /\ <<"source", "center_freq", "freq">> \in DemoShown
        /\ <<"source", "gain", "gain">> \in DemoShown
        /\ <<"source", "antenna", "ant">> \in DemoShown
        /\ <<"source", "bandwidth", "samp_rate">> \in DemoShown
        /\ <<"source", "samp_rate", "samp_rate">> \in DemoShown
    BY <1>2 DEF DemoClasses, BoardParts, DemoShown
  <2>2. /\ Fits(Make("source", "usrp_source", <<>>), DemoClasses(c), DemoShown)
        /\ Fits(Call("source", "center_freq", "freq"), DemoClasses(c), DemoShown)
        /\ Fits(Call("source", "gain", "gain"), DemoClasses(c), DemoShown)
        /\ Fits(Call("source", "antenna", "ant"), DemoClasses(c), DemoShown)
        /\ Fits(Call("source", "bandwidth", "samp_rate"), DemoClasses(c), DemoShown)
        /\ Fits(Call("source", "samp_rate", "samp_rate"), DemoClasses(c), DemoShown)
    BY <2>1, CallFits, MakeFits
  <2>3. /\ IsSeq(t)
        /\ Range(t) = {Make("source", "usrp_source", <<>>), Call("source", "center_freq", "freq"),
             Call("source", "gain", "gain"), Call("source", "antenna", "ant"),
             Call("source", "bandwidth", "samp_rate"), Call("source", "samp_rate", "samp_rate")}
    BY <1>2 DEF DemoSource, IsSeq, Range
  <2>4. "source" \in Made(t)
    <3> HIDE DEF t
    <3> QED
      BY <2>3, MakeMade
  <2> QED
    BY <2>2, <2>3, <2>4 DEF Planned
<1> QED
  BY <1>1, <1>2

LEMMA DemoWiringPlan ==
  ASSUME NEW c
  PROVE  Planned(DemoWiring(c), DemoClasses(c), DemoShown)
<1> DEFINE logs == <<File("logfile0", "file_sink", "usrp_chan0.dat"), Wire("source", 0,
                     "logfile0", 0),
                     File("logfile1", "file_sink", "usrp_chan1.dat"), Wire("source", 1,
                       "logfile1", 0)>>
           freqs == <<Wire("source_freqs", 0, "stitcher", 0)>>
           board == <<Wire("source", 1, "stitcher", 0)>>
           from == IF c.test THEN freqs ELSE When(c.tofile, logs) \o board
           x == <<Wire("source", 0, "multiply_0", 0), Wire("carrier_est", 0, "multiply_0", 1)>>
           a == <<"multiply_0", "carrier_tracking_filter", "carrier_tracking",
                  "carrier_tracking_conj", "multiply_1">>
           y == <<Wire("source", 0, "multiply_1", 1), Wire("subcarrier_est", 0, "multiply_1", 2)>>
           b == <<"multiply_1", "subcarrier_tracking_filter", "subcarrier_tracking", "scopesink_1">>
           z == <<Wire("multiply_1", 0, "scopesink_0", 0)>>
           Good(t) == Planned(t, DemoClasses(c), DemoShown)
<1>1. Good(logs)
  <2>1. <<"logfile0", "file_sink">> \in DemoClasses(c)
        /\ <<"logfile1", "file_sink">> \in DemoClasses(c)
    BY DEF DemoClasses, DemoParts
  <2>2. /\ Fits(File("logfile0", "file_sink", "usrp_chan0.dat"), DemoClasses(c), DemoShown)
        /\ Fits(File("logfile1", "file_sink", "usrp_chan1.dat"), DemoClasses(c), DemoShown)
        /\ Fits(Wire("source", 0, "logfile0", 0), DemoClasses(c), DemoShown)
        /\ Fits(Wire("source", 1, "logfile1", 0), DemoClasses(c), DemoShown)
    BY <2>1, FileFits, WireFits
  <2>3. /\ IsSeq(logs)
        /\ Range(logs) = {File("logfile0", "file_sink", "usrp_chan0.dat"),
             Wire("source", 0, "logfile0", 0), File("logfile1", "file_sink", "usrp_chan1.dat"),
             Wire("source", 1, "logfile1", 0)}
    BY DEF IsSeq, Range
  <2> QED
    BY <2>2, <2>3 DEF Planned
<1>2. /\ IsSeq(freqs) /\ \A m \in Range(freqs) : m.do = "wire"
      /\ IsSeq(board) /\ \A m \in Range(board) : m.do = "wire"
      /\ IsSeq(x) /\ \A m \in Range(x) : m.do = "wire"
      /\ IsSeq(y) /\ \A m \in Range(y) : m.do = "wire"
      /\ IsSeq(z) /\ \A m \in Range(z) : m.do = "wire"
  BY DEF IsSeq, Range, Wire
<1>3. Len(a) \in Nat /\ Len(b) \in Nat
  OBVIOUS
<1>4. DemoWiring(c) = ((((from \o x) \o Chain(a)) \o y) \o Chain(b)) \o z
  BY DEF DemoWiring
<1> HIDE DEF logs, freqs, board, x, y, z, a, b
<1>5. Good(freqs) /\ Good(board) /\ Good(x) /\ Good(y) /\ Good(z)
  BY <1>2, WiresPlan
<1>6. Good(Chain(a)) /\ Good(Chain(b))
  BY <1>3, ChainPlan
<1>7. Good(When(c.tofile, logs))
  BY <1>1, PlanWhen
<1> HIDE DEF Good
<1>8. \A t, u : Good(t) /\ Good(u) => Good(t \o u)
  BY PlansJoin DEF Good
<1>9. Good(from)
  BY <1>5, <1>7, <1>8
<1> HIDE DEF from
<1>10. Good(from \o x)
  BY <1>5, <1>8, <1>9
<1>11. Good((from \o x) \o Chain(a))
  BY <1>6, <1>8, <1>10
<1>12. Good(((from \o x) \o Chain(a)) \o y)
  BY <1>5, <1>8, <1>11
<1>13. Good((((from \o x) \o Chain(a)) \o y) \o Chain(b))
  BY <1>6, <1>8, <1>12
<1>14. Good(((((from \o x) \o Chain(a)) \o y) \o Chain(b)) \o z)
  BY <1>5, <1>8, <1>13
<1> QED
  BY <1>4, <1>14 DEF Good

LEMMA DemoRules ==
  ASSUME NEW c PROVE Rules("demo", c)
<1> DEFINE s == "demo"
           M == DemoClasses(c)
           first == [p \in Variables |-> 0]
           v == DemoGain
           w == DemoSource(c)
           x == DemoSinks
           y == DemoBlocks
           z == DemoWiring(c)
           rest == (((v \o w) \o x) \o y) \o z
<1>1. /\ Setters(s) = DemoSetters
      /\ Follower(s) = [param_samp_rate |-> "samp_rate", param_freq |-> "freq",
                        param_gain |-> "gain", chan0_lo_locked |-> "lo_locked_probe"]
  BY DEF Setters, Follower
<1>2. Planned(v, M, DemoShown) /\ {"_gain_text_box", "_gain_slider"} \subseteq Made(v)
  <2>1. /\ <<"_gain_text_box", "text_box">> \in M /\ <<"_gain_slider", "slider">> \in M
        /\ <<"_gain_text_box", "value", "gain">> \in DemoShown
        /\ <<"_gain_slider", "value", "gain">> \in DemoShown
    BY DEF DemoClasses, DemoParts, DemoShown
  <2> HIDE DEF M
  <2> QED
    BY <2>1, BoxAndSliderPlan DEF DemoGain
<1>3. /\ Planned(w, M, DemoShown) /\ Planned(x, M, DemoShown) /\ Planned(y, M, DemoShown)
      /\ Planned(z, M, DemoShown) /\ (~c.test => "source" \in Made(w))
  BY DemoSourcePlan, DemoSinksPlan, DemoBlocksPlan, DemoWiringPlan
<1>4. Construct(s, c) = ((((<<Keep(first)>> \o v) \o w) \o x) \o y) \o z
  BY DEF Construct, Demo, DemoVariables, First
<1> HIDE DEF M, first, v, w, x, y, z
<1>5. Planned(v \o w, M, DemoShown) /\ Made(v \o w) = Made(v) \union Made(w)
  BY <1>2, <1>3, PlansJoin
<1>6. /\ Planned((v \o w) \o x, M, DemoShown)
      /\ Made((v \o w) \o x) = Made(v \o w) \union Made(x)
  BY <1>3, <1>5, PlansJoin
<1>7. /\ Planned(((v \o w) \o x) \o y, M, DemoShown)
      /\ Made(((v \o w) \o x) \o y) = Made((v \o w) \o x) \union Made(y)
  BY <1>3, <1>6, PlansJoin
<1>8. /\ Planned(rest, M, DemoShown)
      /\ Made(rest) = Made(((v \o w) \o x) \o y) \union Made(z)
  BY <1>3, <1>7, PlansJoin
<1>9. Construct(s, c) = <<Keep(first)>> \o rest
  <2>1. /\ IsSeq(v) /\ IsSeq(w) /\ IsSeq(x) /\ IsSeq(y) /\ IsSeq(z)
        /\ IsSeq(v \o w) /\ IsSeq((v \o w) \o x) /\ IsSeq(((v \o w) \o x) \o y)
    BY <1>2, <1>3, <1>5, <1>6, <1>7 DEF Planned
  <2>2. (<<Keep(first)>> \o v) \o w = <<Keep(first)>> \o (v \o w)
    BY <2>1, ConsJoin
  <2>3. (<<Keep(first)>> \o (v \o w)) \o x = <<Keep(first)>> \o ((v \o w) \o x)
    BY <2>1, ConsJoin
  <2>4. (<<Keep(first)>> \o ((v \o w) \o x)) \o y = <<Keep(first)>> \o (((v \o w) \o x) \o y)
    BY <2>1, ConsJoin
  <2>5. (<<Keep(first)>> \o (((v \o w) \o x) \o y)) \o z = <<Keep(first)>> \o rest
    BY <2>1, ConsJoin
  <2> QED
    BY <1>4, <2>2, <2>3, <2>4, <2>5
<1> HIDE DEF rest
<1>10. IsSeq(rest) /\ \A m \in Range(rest) : Fits(m, M, DemoShown)
  BY <1>8 DEF Planned
<1>11. ThreadsLate(s, c)
  <2>1. \A m \in Range(rest) : m.do # "thread"
    BY <1>10 DEF Fits
  <2> QED
    BY <1>9, <1>10, <2>1, NoThread
<1>12. SettersCall(s)
  <2>1. \A q \in DOMAIN DemoSetters : \A m \in Range(DemoSetters[q]) : m = Call(m.attr, m.setting,
          q)
    BY DemoSettersAre DEF Call
  <2> QED
    BY <1>1, <2>1, DemoSettersAre DEF SettersCall, Calls
<1>13. /\ DOMAIN first = Variables
       /\ DOMAIN Setters(s) = {"samp_rate", "lo_locked_probe", "gain", "freq", "ant"}
       /\ DOMAIN Follower(s) = {"param_samp_rate", "param_freq", "param_gain", "chan0_lo_locked"}
       /\ Follower(s)["param_samp_rate"] = "samp_rate" /\ Follower(s)["param_freq"] = "freq"
       /\ Follower(s)["param_gain"] = "gain" /\ Follower(s)["chan0_lo_locked"] = "lo_locked_probe"
  BY <1>1, DemoSettersAre DEF first
<1>14. ASSUME NEW a, NEW k, NEW q, <<a, k, q>> \in DemoShown
       PROVE  /\ q \in DOMAIN Setters(s)
              /\ \/ Call(a, k, q) \in Calls(s, q)
                 \/ \E m \in Calls(s, q) : \A cls : <<m.attr, cls>> \notin M
  <2>1. q \in {"gain", "samp_rate", "freq", "ant"}
    BY <1>14 DEF DemoShown
  <2>2. CASE q = "gain"
    <3>1. Call(a, k, q) \in Calls(s, q)
      BY <1>1, <1>14, <2>2, DemoSettersAre DEF DemoShown, Calls
    <3> QED
      BY <1>13, <2>2, <3>1
  <2>3. CASE q # "gain"
    <3>1. \A d \in {"fft", "_ant_chooser"} : \A cls : <<d, cls>> \notin M
      BY DEF M, DemoClasses, DemoParts, TestParts, BoardParts
    <3>2. \E m \in Calls(s, q) : m.attr \in {"fft", "_ant_chooser"}
      <4>1. /\ Call("fft", "sample_rate", "samp_rate") \in Range(DemoSetters["samp_rate"])
            /\ Call("fft", "baseband_freq", "freq") \in Range(DemoSetters["freq"])
            /\ Call("_ant_chooser", "value", "ant") \in Range(DemoSetters["ant"])
        BY DemoSettersAre
      <4>2. /\ Call("fft", "sample_rate", "samp_rate").attr = "fft"
            /\ Call("fft", "baseband_freq", "freq").attr = "fft"
            /\ Call("_ant_chooser", "value", "ant").attr = "_ant_chooser"
        BY DEF Call
      <4> QED
        BY <1>1, <2>1, <2>3, <4>1, <4>2 DEF Calls
    <3> QED
      BY <1>13, <2>1, <3>1, <3>2
  <2> QED
    BY <2>2, <2>3
<1>15. ASSUME NEW p \in Settables(s), Sound(s, c, p), NEW n \in Calls(s, Target(s, p))
       PROVE  /\ n.attr \in Made(rest)
              /\ \A cls : <<n.attr, cls>> \in M => n.setting \in Classes[cls].sets
  <2>1. ~c.test /\ Target(s, p) = "gain"
    BY <1>13, <1>15 DEF Sound, Target
  <2>2. n \in {Call("_gain_slider", "value", "gain"), Call("_gain_text_box", "value", "gain"),
               Call("source", "gain", "gain")}
    BY <1>1, <1>15, <2>1, DemoSettersAre DEF Calls
  <2>3. n.attr \in Made(rest)
    BY <1>2, <1>3, <1>5, <1>6, <1>7, <1>8, <2>1, <2>2 DEF Call
  <2>4. ASSUME NEW cls, <<n.attr, cls>> \in M PROVE n.setting \in Classes[cls].sets
    BY <2>1, <2>2, <2>4, ClassSets DEF Call, M, DemoClasses, DemoParts, BoardParts, UsrpSets
  <2> QED
    BY <2>3, <2>4
<1>16. DOMAIN Setters(s) \subseteq DOMAIN first
       /\ \A p \in DOMAIN Follower(s) :
            p \in DOMAIN first /\ p \notin DOMAIN Setters(s) /\ Follower(s)[p] \in DOMAIN Setters(s)
  BY <1>13 DEF Variables
<1>17. NoStages(M)
  BY DEF NoStages, Stages, M, DemoClasses, DemoParts, TestParts, BoardParts
<1> HIDE DEF s
<1>18. Rules(s, c)
  BY <1>9, <1>10, <1>11, <1>12, <1>14, <1>15, <1>16, <1>17, RulesFromPlan
<1> QED
  BY <1>18 DEF s

-----------------------------------------------------------------------------
(* The steps of the scripts for two boards *)

LEMMA TwoBoardsAre ==
  /\ IsSeq(TwoBoards)
  /\ Range(TwoBoards) = {Make("source", "usrp_source", <<>>), Call("source", "gain", "gain"),
       Make("source2", "usrp_source", <<>>), Call("source2", "gain", "gain")}
BY DEF TwoBoards, IsSeq, Range

LEMMA HsSourcesAre ==
  /\ IsSeq(HsSources)
  /\ Range(HsSources) = {Make("source", "usrp_source", <<>>),
       Call("source", "samp_rate", "samp_rate"), Make("source2", "usrp_source", <<>>),
       Call("source2", "samp_rate", "samp_rate")}
BY DEF HsSources, IsSeq, Range

LEMMA ToFilesAre ==
  /\ IsSeq(ToFiles)
  /\ Range(ToFiles) = {File("logfile0", "file_sink", "usrp_chan0.dat"),
       Wire("source", 0, "logfile0", 0), File("logfile1", "file_sink", "usrp_chan1.dat"),
       Wire("source", 1, "logfile1", 0), File("logfile2", "file_sink", "usrp_chan2.dat"),
       Wire("source2", 0, "logfile2", 0), File("logfile3", "file_sink", "usrp_chan3.dat"),
       Wire("source2", 1, "logfile3", 0)}
BY DEF ToFiles, IsSeq, Range

LEMMA FromFilesAre ==
  /\ IsSeq(FromFiles)
  /\ Range(FromFiles) = {File("logfile0", "file_source", "usrp_chan0.dat"),
       File("logfile1", "file_source", "usrp_chan1.dat"),
       File("logfile2", "file_source", "usrp_chan2.dat"),
       File("logfile3", "file_source", "usrp_chan3.dat"), Wire("logfile0", 0, "parser", 0),
       Wire("logfile1", 0, "parser", 1), Wire("logfile2", 0, "parser", 2),
       Wire("logfile3", 0, "parser", 3)}
BY DEF FromFiles, IsSeq, Range

LEMMA ToParserAre ==
  /\ IsSeq(ToParser)
  /\ Range(ToParser) = {Wire("source", 0, "parser", 0), Wire("source", 1, "parser", 1),
       Wire("source2", 0, "parser", 2), Wire("source2", 1, "parser", 3)}
BY DEF ToParser, IsSeq, Range

LEMMA FourWiresAre ==
  ASSUME NEW a, NEW b
  PROVE  /\ IsSeq(FourWires(a, b))
         /\ Range(FourWires(a, b)) = {Wire(a, i, b, i) : i \in 0 .. 3}
<1> DEFINE f(i) == Wire(a, i - 1, b, i - 1)
           g(i) == Wire(a, i, b, i)
           t == [i \in 1 .. 4 |-> f(i)]
<1>1. FourWires(a, b) = t
  BY DEF FourWires
<1>2. \A i \in 1 .. 4 : i - 1 \in 0 .. 3 /\ f(i) = g(i - 1)
  OBVIOUS
<1>3. \A i \in 0 .. 3 : i + 1 \in 1 .. 4 /\ (i + 1) - 1 = i
  OBVIOUS
<1> HIDE DEF f, g
<1>4. t \in Seq({g(i) : i \in 0 .. 3})
  BY <1>2
<1>5. {g(i) : i \in 0 .. 3} \subseteq Range(t)
  <2> SUFFICES ASSUME NEW i \in 0 .. 3 PROVE g(i) \in Range(t)
    OBVIOUS
  <2>1. t[i + 1] = g(i) /\ i + 1 \in DOMAIN t
    BY <1>2, <1>3
  <2> QED
    BY <2>1 DEF Range
<1> HIDE DEF t
<1>6. IsSeq(t) /\ Range(t) \subseteq {g(i) : i \in 0 .. 3}
  BY <1>4, SeqIn
<1> QED
  BY <1>1, <1>5, <1>6 DEF g

BoardClasses == {<<"source", "usrp_source">>, <<"source2", "usrp_source">>,
  <<"logfile0", "file_sink">>, <<"logfile1", "file_sink">>, <<"logfile2", "file_sink">>,
  <<"logfile3", "file_sink">>} \union TestParts

BoardShown == {<<"source", "gain", "gain">>, <<"source2", "gain", "gain">>,
  <<"source", "samp_rate", "samp_rate">>, <<"source2", "samp_rate", "samp_rate">>} \union TestRates

AnchorClasses == BoardClasses \union {<<"parser", "stream_parser">>, <<"prf_est", "four_to_four">>,
  <<"h_extract", "four_to_four">>, <<"h_locate", "harmonic_localizer">>,
  <<"ws_port", "ws_sink_c">>, <<"logfile0", "file_source">>, <<"logfile1", "file_source">>,
  <<"logfile2", "file_source">>, <<"logfile3", "file_source">>}

LEMMA TwoBoardsPlan ==
  Planned(TwoBoards, BoardClasses, BoardShown)
<1>1. /\ <<"source", "usrp_source">> \in BoardClasses
      /\ <<"source2", "usrp_source">> \in BoardClasses
      /\ <<"source", "gain", "gain">> \in BoardShown
      /\ <<"source2", "gain", "gain">> \in BoardShown
  BY DEF BoardClasses, BoardShown
<1>2. /\ Fits(Make("source", "usrp_source", <<>>), BoardClasses, BoardShown)
      /\ Fits(Call("source", "gain", "gain"), BoardClasses, BoardShown)
      /\ Fits(Make("source2", "usrp_source", <<>>), BoardClasses, BoardShown)
      /\ Fits(Call("source2", "gain", "gain"), BoardClasses, BoardShown)
  BY <1>1, CallFits, MakeFits
<1> QED
  BY <1>2, TwoBoardsAre DEF Planned

LEMMA HsSourcesPlan ==
  Planned(HsSources, BoardClasses, BoardShown)
<1>1. /\ <<"source", "usrp_source">> \in BoardClasses
      /\ <<"source2", "usrp_source">> \in BoardClasses
      /\ <<"source", "samp_rate", "samp_rate">> \in BoardShown
      /\ <<"source2", "samp_rate", "samp_rate">> \in BoardShown
  BY DEF BoardClasses, BoardShown
<1>2. /\ Fits(Make("source", "usrp_source", <<>>), BoardClasses, BoardShown)
      /\ Fits(Call("source", "samp_rate", "samp_rate"), BoardClasses, BoardShown)
      /\ Fits(Make("source2", "usrp_source", <<>>), BoardClasses, BoardShown)
      /\ Fits(Call("source2", "samp_rate", "samp_rate"), BoardClasses, BoardShown)
  BY <1>1, CallFits, MakeFits
<1> QED
  BY <1>2, HsSourcesAre DEF Planned

LEMMA ToFilesPlan ==
  Planned(ToFiles, BoardClasses, BoardShown)
<1>1. /\ <<"logfile0", "file_sink">> \in BoardClasses
      /\ <<"logfile1", "file_sink">> \in BoardClasses
      /\ <<"logfile2", "file_sink">> \in BoardClasses
      /\ <<"logfile3", "file_sink">> \in BoardClasses
  BY DEF BoardClasses, BoardShown
<1>2. /\ Fits(File("logfile0", "file_sink", "usrp_chan0.dat"), BoardClasses, BoardShown)
      /\ Fits(Wire("source", 0, "logfile0", 0), BoardClasses, BoardShown)
      /\ Fits(File("logfile1", "file_sink", "usrp_chan1.dat"), BoardClasses, BoardShown)
      /\ Fits(Wire("source", 1, "logfile1", 0), BoardClasses, BoardShown)
      /\ Fits(File("logfile2", "file_sink", "usrp_chan2.dat"), BoardClasses, BoardShown)
      /\ Fits(Wire("source2", 0, "logfile2", 0), BoardClasses, BoardShown)
      /\ Fits(File("logfile3", "file_sink", "usrp_chan3.dat"), BoardClasses, BoardShown)
      /\ Fits(Wire("source2", 1, "logfile3", 0), BoardClasses, BoardShown)
  BY <1>1, FileFits, WireFits
<1> QED
  BY <1>2, ToFilesAre DEF Planned

LEMMA FromFilesPlan ==
  Planned(FromFiles, AnchorClasses, BoardShown)
<1>1. /\ <<"logfile0", "file_source">> \in AnchorClasses
      /\ <<"logfile1", "file_source">> \in AnchorClasses
      /\ <<"logfile2", "file_source">> \in AnchorClasses
      /\ <<"logfile3", "file_source">> \in AnchorClasses
  BY DEF AnchorClasses
<1>2. /\ Fits(File("logfile0", "file_source", "usrp_chan0.dat"), AnchorClasses, BoardShown)
      /\ Fits(File("logfile1", "file_source", "usrp_chan1.dat"), AnchorClasses, BoardShown)
      /\ Fits(File("logfile2", "file_source", "usrp_chan2.dat"), AnchorClasses, BoardShown)
      /\ Fits(File("logfile3", "file_source", "usrp_chan3.dat"), AnchorClasses, BoardShown)
      /\ Fits(Wire("logfile0", 0, "parser", 0), AnchorClasses, BoardShown)
      /\ Fits(Wire("logfile1", 0, "parser", 1), AnchorClasses, BoardShown)
      /\ Fits(Wire("logfile2", 0, "parser", 2), AnchorClasses, BoardShown)
      /\ Fits(Wire("logfile3", 0, "parser", 3), AnchorClasses, BoardShown)
  BY <1>1, FileFits, WireFits
<1> QED
  BY <1>2, FromFilesAre DEF Planned

LEMMA PlanGrows ==
  ASSUME NEW t, NEW M, NEW N, NEW T, M \subseteq N, Planned(t, M, T)
  PROVE  Planned(t, N, T)
BY DEF Planned, Fits

LEMMA FromTestToStitcherPlan ==
  Planned(FromTestToStitcher, BoardClasses, BoardShown)
<1> DEFINE t == <<Wire("source_freqs", 0, "stitcher", 0)>>
<1>1. IsSeq(t) /\ \A m \in Range(t) : m.do = "wire"
  BY DEF IsSeq, Range, Wire
<1>2. FromTestToStitcher = FromTestFiles \o t
  BY DEF FromTestToStitcher
<1> HIDE DEF t
<1>3. Planned(t, BoardClasses, BoardShown)
  BY <1>1, WiresPlan
<1>4. TestParts \subseteq BoardClasses /\ TestRates \subseteq BoardShown
  BY DEF BoardClasses, BoardShown
<1>5. Planned(FromTestFiles, BoardClasses, BoardShown)
  BY <1>4, FromTestFilesPlan
<1> QED
  BY <1>2, <1>3, <1>5, PlansJoin

(* The scripts without setters *)
BoardVariables == Variables \union {"address2"}

LEMMA NoSetters ==
  ASSUME NEW s \in {"bb_comb", "hs", "rt_harmonia"}, NEW c, NEW rest, NEW M,
         Construct(s, c) = HarmoniaVariables \o rest, Planned(rest, M, BoardShown),
         s # "rt_harmonia" => NoStages(M)
  PROVE  Rules(s, c)
<1> DEFINE first == [p \in BoardVariables |-> 0]
<1>1. Setters(s) = <<>> /\ Follower(s) = <<>>
  BY DEF Setters, Follower
<1>2. DOMAIN Setters(s) = {} /\ DOMAIN Follower(s) = {} /\ Settables(s) = {}
  <2>1. DOMAIN <<>> = {}
    OBVIOUS
  <2> QED
    BY <1>1, <2>1 DEF Settables
<1>3. Construct(s, c) = <<Keep(first)>> \o rest
  BY DEF HarmoniaVariables, First, BoardVariables
<1>4. IsSeq(rest) /\ \A m \in Range(rest) : Fits(m, M, BoardShown)
  BY DEF Planned
<1>5. DOMAIN first = BoardVariables
  OBVIOUS
<1> HIDE DEF first
<1>6. ThreadsLate(s, c)
  <2>1. \A m \in Range(rest) : m.do # "thread"
    BY <1>4 DEF Fits
  <2> QED
    BY <1>3, <1>4, <2>1, NoThread
<1>7. \A a, k, q : <<a, k, q>> \in BoardShown => q \in DOMAIN first
  BY <1>5 DEF BoardShown, TestRates, BoardVariables, Variables
<1>8. SettersCall(s)
  BY <1>2 DEF SettersCall
<1> QED
  BY <1>2, <1>3, <1>4, <1>6, <1>7, <1>8, RulesFromPlan

BoardPlan(s, c) ==
  IF c.test THEN FromTestToStitcher
  ELSE (IF s = "hs" THEN HsSources ELSE TwoBoards) \o When(c.tofile, ToFiles)

LEMMA BoardScripts ==
  ASSUME NEW s \in {"bb_comb", "hs"}, NEW c
  PROVE  /\ Construct(s, c) = HarmoniaVariables \o BoardPlan(s, c)
         /\ Planned(BoardPlan(s, c), BoardClasses, BoardShown)
<1>1. CASE s = "bb_comb"
  <2>1. Construct(s, c) = HarmoniaVariables \o BoardPlan(s, c)
    BY <1>1 DEF Construct, BbComb, BbCombSources, BoardPlan
  <2>2. Planned(When(c.tofile, ToFiles), BoardClasses, BoardShown)
    BY ToFilesPlan, PlanWhen
  <2>3. Planned(TwoBoards \o When(c.tofile, ToFiles), BoardClasses, BoardShown)
    BY <2>2, TwoBoardsPlan, PlansJoin
  <2> QED
    BY <1>1, <2>1, <2>3, FromTestToStitcherPlan DEF BoardPlan
<1>2. CASE s = "hs"
  <2>1. Construct(s, c) = HarmoniaVariables \o BoardPlan(s, c)
    BY <1>2 DEF Construct, Hs, HsWiring, BoardPlan
  <2>2. Planned(When(c.tofile, ToFiles), BoardClasses, BoardShown)
    BY ToFilesPlan, PlanWhen
  <2>3. Planned(HsSources \o When(c.tofile, ToFiles), BoardClasses, BoardShown)
    BY <2>2, HsSourcesPlan, PlansJoin
  <2> QED
    BY <1>2, <2>1, <2>3, FromTestToStitcherPlan DEF BoardPlan
<1> QED
  BY <1>1, <1>2

LEMMA BoardRules ==
  ASSUME NEW s \in {"bb_comb", "hs"}, NEW c PROVE Rules(s, c)
<1>1. NoStages(BoardClasses)
  BY DEF NoStages, Stages, BoardClasses, TestParts
<1> QED
  BY <1>1, BoardScripts, NoSetters

-----------------------------------------------------------------------------
(* rt_harmonia.py *)

LEMMA ChainedAre ==
  /\ IsSeq(Chained)
  /\ Range(Chained) =
       {Make("prf_est", "four_to_four", <<>>), Make("h_extract", "four_to_four", <<>>),
        Make("h_locate", "harmonic_localizer", <<>>), Make("ws_port", "ws_sink_c", <<>>)}
       \union Range(FourWires("parser", "prf_est")) \union Range(FourWires("prf_est", "h_extract"))
       \union Range(FourWires("h_extract", "h_locate"))
<1> DEFINE a == Make("prf_est", "four_to_four", <<>>)
           b == Make("h_extract", "four_to_four", <<>>)
           d == Make("h_locate", "harmonic_localizer", <<>>)
           e == Make("ws_port", "ws_sink_c", <<>>)
           x == FourWires("parser", "prf_est")
           y == FourWires("prf_est", "h_extract")
           z == FourWires("h_extract", "h_locate")
<1>1. Chained = (((((<<a>> \o x) \o <<b>>) \o y) \o <<d>>) \o z) \o <<e>>
  BY DEF Chained
<1>2. IsSeq(x) /\ IsSeq(y) /\ IsSeq(z)
  BY FourWiresAre
<1> HIDE DEF a, b, d, e, x, y, z
<1>3. IsSeq(<<a>> \o x) /\ Range(<<a>> \o x) = {a} \union Range(x)
  BY <1>2, ConsFacts
<1>4. /\ IsSeq((<<a>> \o x) \o <<b>>)
      /\ Range((<<a>> \o x) \o <<b>>) = {a} \union Range(x) \union {b}
  BY <1>3, SnocFacts
<1>5. /\ IsSeq(((<<a>> \o x) \o <<b>>) \o y)
      /\ Range(((<<a>> \o x) \o <<b>>) \o y) = {a} \union Range(x) \union {b} \union Range(y)
  BY <1>2, <1>4, CatFacts
<1>6. /\ IsSeq((((<<a>> \o x) \o <<b>>) \o y) \o <<d>>)
      /\ Range((((<<a>> \o x) \o <<b>>) \o y) \o <<d>>)
           = {a} \union Range(x) \union {b} \union Range(y) \union {d}
  BY <1>5, SnocFacts
<1>7. /\ IsSeq(((((<<a>> \o x) \o <<b>>) \o y) \o <<d>>) \o z)
      /\ Range(((((<<a>> \o x) \o <<b>>) \o y) \o <<d>>) \o z)
           = {a} \union Range(x) \union {b} \union Range(y) \union {d} \union Range(z)
  BY <1>2, <1>6, CatFacts
<1>8. /\ IsSeq(Chained)
      /\ Range(Chained) = {a} \union Range(x) \union {b} \union Range(y) \union {d} \union Range(z)
                          \union {e}
  BY <1>1, <1>7, SnocFacts
<1>9. Range(Chained) = {a, b, d, e} \union Range(x) \union Range(y) \union Range(z)
  BY <1>8
<1> QED
  BY <1>8, <1>9 DEF a, b, d, e, x, y, z

HarmoniaPlan(c) == When(~c.fromfile, TwoBoards) \o HarmoniaWiring(c)
Wired(c) ==
  IF c.tofile THEN Range(ToFiles) \union Range(ToParser)
  ELSE (IF c.fromfile THEN Range(FromFiles) ELSE Range(ToParser)) \union Range(Chained)

LEMMA HarmoniaAre ==
  ASSUME NEW c
  PROVE  /\ Construct("rt_harmonia", c) = HarmoniaVariables \o HarmoniaPlan(c)
         /\ IsSeq(HarmoniaPlan(c))
         /\ Range(HarmoniaPlan(c)) = (IF c.fromfile THEN {} ELSE Range(TwoBoards))
              \union {Make("parser", "stream_parser", <<>>)} \union Wired(c)
<1> DEFINE p == Make("parser", "stream_parser", <<>>)
           v == When(~c.fromfile, TwoBoards)
           w == HarmoniaWiring(c)
<1>1. IsSeq(v) /\ Range(v) = IF c.fromfile THEN {} ELSE Range(TwoBoards)
  <2>1. IsSeq(<<>>) /\ Range(<<>>) = {}
    BY EmptyPlan, NothingIn DEF Planned
  <2> QED
    BY <2>1, TwoBoardsAre DEF When
<1>2. IsSeq(w) /\ Range(w) = {p} \union Wired(c)
  <2>1. CASE c.tofile
    <3>1. w = (ToFiles \o <<p>>) \o ToParser
      BY <2>1 DEF HarmoniaWiring
    <3> HIDE DEF p, w
    <3>2. IsSeq(ToFiles \o <<p>>) /\ Range(ToFiles \o <<p>>) = Range(ToFiles) \union {p}
      BY ToFilesAre, SnocFacts
    <3>3. /\ IsSeq((ToFiles \o <<p>>) \o ToParser)
          /\ Range((ToFiles \o <<p>>) \o ToParser)
               = Range(ToFiles) \union {p} \union Range(ToParser)
      BY <3>2, ToParserAre, CatFacts
    <3>4. Wired(c) = Range(ToFiles) \union Range(ToParser)
      BY <2>1 DEF Wired
    <3> QED
      BY <3>1, <3>3, <3>4
  <2>2. CASE ~c.tofile
    <3> DEFINE x == IF c.fromfile THEN FromFiles ELSE ToParser
    <3>1. w = (<<p>> \o x) \o Chained
      BY <2>2 DEF HarmoniaWiring
    <3>2. IsSeq(x) /\ Range(x) = IF c.fromfile THEN Range(FromFiles) ELSE Range(ToParser)
      BY FromFilesAre, ToParserAre
    <3> HIDE DEF p, w, x
    <3>3. IsSeq(<<p>> \o x) /\ Range(<<p>> \o x) = {p} \union Range(x)
      BY <3>2, ConsFacts
    <3>4. /\ IsSeq((<<p>> \o x) \o Chained)
          /\ Range((<<p>> \o x) \o Chained) = {p} \union Range(x) \union Range(Chained)
      BY <3>3, ChainedAre, CatFacts
    <3>5. Wired(c) = Range(x) \union Range(Chained)
      BY <2>2, <3>2 DEF Wired
    <3> QED
      BY <3>1, <3>4, <3>5
  <2> QED
    BY <2>1, <2>2
<1>3. Construct("rt_harmonia", c) = (HarmoniaVariables \o v) \o w
  BY DEF Construct, Harmonia
<1> HIDE DEF v, w, p
<1>4. IsSeq(v \o w) /\ Range(v \o w) = Range(v) \union Range(w)
  <2>1. IsSeq(v) /\ IsSeq(w)
    BY <1>1, <1>2
  <2> QED
    BY <2>1, CatFacts
<1>5. (HarmoniaVariables \o v) \o w = HarmoniaVariables \o (v \o w)
  <2>1. IsSeq(v) /\ IsSeq(w)
    BY <1>1, <1>2
  <2> QED
    BY <2>1, ConsJoin DEF HarmoniaVariables
<1>6. v \o w = HarmoniaPlan(c)
  BY DEF v, w, HarmoniaPlan
<1>7. IsSeq(HarmoniaPlan(c)) /\ Construct("rt_harmonia", c) = HarmoniaVariables \o HarmoniaPlan(c)
  BY <1>3, <1>4, <1>5, <1>6
<1>8. Range(HarmoniaPlan(c)) = (IF c.fromfile THEN {} ELSE Range(TwoBoards))
        \union {p} \union Wired(c)
  BY <1>1, <1>2, <1>4, <1>6
<1> QED
  BY <1>7, <1>8 DEF p

LEMMA HarmoniaPlanned ==
  ASSUME NEW c
  PROVE  Planned(HarmoniaPlan(c), AnchorClasses, BoardShown)
<1>1. BoardClasses \subseteq AnchorClasses
  BY DEF AnchorClasses
<1>2. Planned(TwoBoards, AnchorClasses, BoardShown) /\ Planned(ToFiles, AnchorClasses, BoardShown)
  BY <1>1, PlanGrows, TwoBoardsPlan, ToFilesPlan
<1>3. /\ <<"parser", "stream_parser">> \in AnchorClasses
      /\ <<"prf_est", "four_to_four">> \in AnchorClasses
      /\ <<"h_extract", "four_to_four">> \in AnchorClasses
      /\ <<"h_locate", "harmonic_localizer">> \in AnchorClasses
      /\ <<"ws_port", "ws_sink_c">> \in AnchorClasses
  BY DEF AnchorClasses
<1>4. /\ Fits(Make("parser", "stream_parser", <<>>), AnchorClasses, BoardShown)
      /\ Fits(Make("prf_est", "four_to_four", <<>>), AnchorClasses, BoardShown)
      /\ Fits(Make("h_extract", "four_to_four", <<>>), AnchorClasses, BoardShown)
      /\ Fits(Make("h_locate", "harmonic_localizer", <<>>), AnchorClasses, BoardShown)
      /\ Fits(Make("ws_port", "ws_sink_c", <<>>), AnchorClasses, BoardShown)
  BY <1>3, MakeFits
<1>5. \A m \in Range(ToParser) : Fits(m, AnchorClasses, BoardShown)
  BY ToParserAre, WireFits
<1>6. \A a, b : \A m \in Range(FourWires(a, b)) : Fits(m, AnchorClasses, BoardShown)
  BY FourWiresAre, WireFits
<1>7. \A m \in Range(Chained) : Fits(m, AnchorClasses, BoardShown)
  BY <1>4, <1>6, ChainedAre
<1>8. \A m \in Wired(c) : Fits(m, AnchorClasses, BoardShown)
  BY <1>2, <1>5, <1>7, FromFilesPlan DEF Wired, Planned
<1> QED
  BY <1>2, <1>4, <1>8, HarmoniaAre DEF Planned

LEMMA HarmoniaRules ==
  ASSUME NEW c PROVE Rules("rt_harmonia", c)
BY HarmoniaAre, HarmoniaPlanned, NoSetters

-----------------------------------------------------------------------------
(* mrfm_fft.py, which shows the decimation that the register holds *)

LEMMA LeastIs ==
  ASSUME NEW S, S \subseteq Nat, S # {}
  PROVE  Min(S) \in S
<1> DEFINE T == {n \in Nat : (\E x \in S : x <= n) => (\E m \in S : \A y \in S : m <= y)}
<1>1. 0 \in T
  OBVIOUS
<1>2. ASSUME NEW n \in Nat, n \in T PROVE n + 1 \in T
  <2> SUFFICES ASSUME NEW x \in S, x <= n + 1, ~(\E y \in S : y <= n)
               PROVE  \A y \in S : x <= y
    BY <1>2
  <2> QED
    OBVIOUS
<1> HIDE DEF T
<1>3. \A n \in Nat : n \in T
  BY <1>1, <1>2, SetInduction
<1>4. PICK x \in S : x \in Nat
  OBVIOUS
<1>5. \E m \in S : \A y \in S : m <= y
  BY <1>3, <1>4 DEF T
<1> QED
  BY <1>5 DEF Min

(* Dealing a factor to a half keeps the product of both and of what is left. *)
DealState == [rate : Nat \ {0}, turn : {0, 1}, a : 1 .. MaxFactor - 1, b : 1 .. MaxFactor - 1]

LEMMA TimesOut ==
  ASSUME NEW i \in Nat, NEW r \in Nat, NEW a \in Nat, NEW b \in Nat
  PROVE  /\ (a * i) * b * r = a * b * (i * r)
         /\ a * (b * i) * r = a * b * (i * r)
BY SMT

LEMMA DealKeeps ==
  ASSUME NEW s \in DealState
  PROVE  /\ Deal(s) \in DealState
         /\ Deal(s).a * Deal(s).b * Deal(s).rate = s.a * s.b * s.rate
<1> DEFINE i == Min(Factors(s.rate))
           r == s.rate \div i
           dealt == [s EXCEPT !.rate = r, !.turn = 1 - s.turn]
<1>0. MaxFactor \in 2 .. 257
  BY DecimAssumption
<1>1. CASE s.rate <= 1 \/ Factors(s.rate) = {}
  BY <1>1 DEF Deal
<1>2. CASE ~(s.rate <= 1 \/ Factors(s.rate) = {})
  <2>1. s.rate \in Nat \ {0} /\ s.turn \in {0, 1} /\ s.a \in 1 .. MaxFactor - 1
        /\ s.b \in 1 .. MaxFactor - 1
    BY DEF DealState
  <2>2. Factors(s.rate) \subseteq Nat
    BY <1>0 DEF Factors
  <2>3. i \in Factors(s.rate)
    BY <1>2, <2>2, LeastIs
  <2>4. i \in 2 .. MaxFactor - 1 /\ s.rate % i = 0
    BY <2>3 DEF Factors
  <2> HIDE DEF i
  <2>5. r \in Int /\ s.rate = i * r
    <3>1. i \in Nat \ {0} /\ s.rate \in Int
      BY <1>0, <2>1, <2>4
    <3> DEFINE n == s.rate
    <3> HIDE DEF n, r
    <3>2. n \div i \in Int /\ n = i * (n \div i) + (n % i) /\ n % i = 0
      BY <2>4, <3>1, DivMod DEF n
    <3>3. n = i * (n \div i)
      BY <3>1, <3>2
    <3> QED
      BY <3>2, <3>3 DEF n, r
  <2>6. s.rate = i * r
    BY <2>5
  <2>7. r \in Nat \ {0}
    <3> HIDE DEF r
    <3> QED
      BY <1>0, <2>1, <2>4, <2>5, <2>6, SMT
  <2>8. \A x \in 1 .. MaxFactor - 1 : x * i \in Nat \ {0}
    BY <1>0, <2>4, SMT
  <2>9. dealt.rate = r /\ dealt.turn = 1 - s.turn /\ dealt.a = s.a /\ dealt.b = s.b
        /\ dealt \in DealState
    <3> DEFINE t == 1 - s.turn
    <3>1. dealt = [s EXCEPT !.rate = r, !.turn = t] /\ t \in {0, 1}
      BY <2>1
    <3> HIDE DEF r, t, dealt
    <3>2. dealt.rate = r /\ dealt.turn = t /\ dealt.a = s.a /\ dealt.b = s.b
      BY <3>1 DEF DealState
    <3>3. dealt \in DealState
      BY <2>7, <3>1 DEF DealState
    <3> QED
      BY <3>2, <3>3 DEF t
  <2>10. \/ Deal(s) = [dealt EXCEPT !.a = s.a * i] /\ s.a * i < MaxFactor
         \/ Deal(s) = [dealt EXCEPT !.b = s.b * i] /\ s.b * i < MaxFactor
         \/ Deal(s) = s
    BY <1>2 DEF Deal, i
  <2> HIDE DEF r, dealt
  <2>11. CASE Deal(s) = [dealt EXCEPT !.a = s.a * i] /\ s.a * i < MaxFactor
    <3>1. s.a * i \in 1 .. MaxFactor - 1
      BY <1>0, <2>1, <2>8, <2>11
    <3>2. Deal(s) \in DealState /\ Deal(s).a = s.a * i /\ Deal(s).b = s.b /\ Deal(s).rate = r
      BY <2>9, <2>11, <3>1 DEF DealState
    <3>3. (s.a * i) * s.b * r = s.a * s.b * (i * r)
      BY <1>0, <2>1, <2>4, <2>7, TimesOut
    <3> QED
      BY <2>6, <3>2, <3>3
  <2>12. CASE Deal(s) = [dealt EXCEPT !.b = s.b * i] /\ s.b * i < MaxFactor
    <3>1. s.b * i \in 1 .. MaxFactor - 1
      BY <1>0, <2>1, <2>8, <2>12
    <3>2. Deal(s) \in DealState /\ Deal(s).a = s.a /\ Deal(s).b = s.b * i /\ Deal(s).rate = r
      BY <2>9, <2>12, <3>1 DEF DealState
    <3>3. s.a * (s.b * i) * r = s.a * s.b * (i * r)
      BY <1>0, <2>1, <2>4, <2>7, TimesOut
    <3> QED
      BY <2>6, <3>2, <3>3
  <2> QED
    BY <2>10, <2>11, <2>12
<1> QED
  BY <1>1, <1>2

DealtTo(rate, m, f) ==
  f = [n \in 0 .. m |-> IF n = 0 THEN [rate |-> rate, turn |-> 1, a |-> 1, b |-> 1]
                        ELSE Deal(f[n - 1])]

LEMMA DealtExists ==
  ASSUME NEW rate
  PROVE  \A m \in Nat : \E f : DealtTo(rate, m, f)
<1> DEFINE S == {m \in Nat : \E f : DealtTo(rate, m, f)}
           z == [rate |-> rate, turn |-> 1, a |-> 1, b |-> 1]
<1>1. 0 \in S
  <2>1. DealtTo(rate, 0, [n \in 0 .. 0 |-> z])
    BY DEF DealtTo
  <2> QED
    BY <2>1
<1>2. ASSUME NEW m \in Nat, m \in S PROVE m + 1 \in S
  <2>1. PICK f : DealtTo(rate, m, f)
    BY <1>2
  <2> DEFINE g == [n \in 0 .. m + 1 |-> IF n = m + 1 THEN Deal(f[m]) ELSE f[n]]
  <2>2. \A n \in 0 .. m : f[n] = IF n = 0 THEN z ELSE Deal(f[n - 1])
    BY <2>1 DEF DealtTo
  <2> HIDE DEF z
  <2>3. \A n \in 0 .. m + 1 : g[n] = IF n = 0 THEN z ELSE Deal(g[n - 1])
    BY <2>2
  <2>4. DealtTo(rate, m + 1, g)
    BY <2>3 DEF DealtTo, z
  <2> QED
    BY <2>4
<1> HIDE DEF S
<1>3. \A m \in Nat : m \in S
  BY <1>1, <1>2, SetInduction
<1> QED
  BY <1>3 DEF S

LEMMA DealtKeeps ==
  ASSUME NEW rate \in Nat \ {0}
  PROVE  /\ Dealt(rate) \in DealState
         /\ Dealt(rate).a * Dealt(rate).b * Dealt(rate).rate = rate
<1> DEFINE f == CHOOSE f : DealtTo(rate, MaxRounds, f)
           Good(s) == s \in DealState /\ s.a * s.b * s.rate = rate
<1>0. MaxRounds \in Nat
  BY DEF MaxRounds
<1>1. DealtTo(rate, MaxRounds, f)
  BY <1>0, DealtExists
<1>2. Dealt(rate) = f[MaxRounds]
  BY DEF Dealt, DealtTo
<1> HIDE DEF f
<1>3. \A n \in 0 .. MaxRounds :
        f[n] = IF n = 0 THEN [rate |-> rate, turn |-> 1, a |-> 1, b |-> 1] ELSE Deal(f[n - 1])
  BY <1>1 DEF DealtTo
<1> DEFINE S == {n \in Nat : n <= MaxRounds => Good(f[n])}
<1>4. 0 \in S
  <2>1. f[0] = [rate |-> rate, turn |-> 1, a |-> 1, b |-> 1]
    BY <1>0, <1>3
  <2>2. 1 \in 1 .. MaxFactor - 1
    BY DecimAssumption
  <2> QED
    BY <2>1, <2>2 DEF DealState
<1>5. ASSUME NEW n \in Nat, n \in S PROVE n + 1 \in S
  <2> SUFFICES ASSUME n + 1 <= MaxRounds PROVE Good(f[n + 1])
    OBVIOUS
  <2>1. f[n + 1] = Deal(f[n]) /\ Good(f[n])
    BY <1>0, <1>3, <1>5
  <2> QED
    BY <2>1, DealKeeps
<1> HIDE DEF S
<1>6. \A n \in Nat : n \in S
  BY <1>4, <1>5, SetInduction
<1>7. Good(f[MaxRounds])
  BY <1>0, <1>6 DEF S
<1> QED
  BY <1>2, <1>7

(* What the register holds of a rate that has halves is the rate. *)
LEMMA DecimationIs ==
  ASSUME NEW rate \in Nat \ {0}, Settable(rate)
  PROVE  decimation(rate) = rate
<1> DEFINE d == Dealt(rate)
           h == halves(rate)
           register == (h[1] - 1) * 256 + (h[2] - 1)
<1>1. d \in DealState /\ d.a * d.b * d.rate = rate
  BY DealtKeeps
<1>2. d.rate <= 1 /\ h = <<d.a, d.b>>
  BY DEF Settable, halves
<1> HIDE DEF d
<1>3. d.rate = 1 /\ d.a \in 1 .. 256 /\ d.b \in 1 .. 256
  BY <1>1, <1>2, DecimAssumption DEF DealState
<1>4. d.a * d.b = rate
  <2> DEFINE a == d.a
             b == d.b
  <2> HIDE DEF a, b
  <2>1. a * b * 1 = rate /\ a \in 1 .. 256 /\ b \in 1 .. 256
    BY <1>1, <1>3 DEF a, b
  <2>2. a * b = rate
    BY <2>1
  <2> QED
    BY <2>2 DEF a, b
<1>5. h[1] = d.a /\ h[2] = d.b
  BY <1>2
<1>6. register = 256 * (d.a - 1) + (d.b - 1)
  BY <1>3, <1>5
<1>7. d.a - 1 \in Int /\ d.b - 1 \in 0 .. 256 - 1 /\ 256 \in Nat \ {0}
  BY <1>3
<1>8. (256 * (d.a - 1) + (d.b - 1)) \div 256 = d.a - 1
  BY <1>7, DivIs
<1>9. (256 * (d.a - 1) + (d.b - 1)) % 256 = d.b - 1
  BY <1>7, ModIs
<1>10. decimation(rate) = (register \div 256 + 1) * ((register % 256) + 1)
  BY DEF decimation
<1> HIDE DEF register
<1>11. register \div 256 = d.a - 1 /\ register % 256 = d.b - 1
  BY <1>6, <1>8, <1>9
<1>12. register \div 256 + 1 = d.a /\ (register % 256) + 1 = d.b
  BY <1>3, <1>11
<1> QED
  BY <1>4, <1>10, <1>12

MrfmClasses == {<<"u", "mrfm_source_c">>, <<"subdev", "subdev">>, <<"deint", "deinterleave">>,
  <<"scope1", "fft_sink_c">>, <<"scope2", "fft_sink_c">>, <<"form_freq", "field">>,
  <<"form_gain", "field">>, <<"form_decim", "field">>}
MrfmShown == {<<"u", "center_freq", "first_freq">>, <<"u", "decim", "decim">>,
  <<"scope1", "sample_rate", "decim">>, <<"scope2", "sample_rate", "decim">>,
  <<"form_decim", "value", "decim">>, <<"u", "tune", "freq">>, <<"form_freq", "value", "freq">>,
  <<"form_gain", "value", "gain">>, <<"subdev", "gain", "gain">>}

LEMMA MrfmSettersAre ==
  /\ DOMAIN MrfmSetters = {"freq", "gain"}
  /\ \A q \in DOMAIN MrfmSetters : IsSeq(MrfmSetters[q])
  /\ Range(MrfmSetters["freq"]) = {Call("u", "tune", "freq"), Call("form_freq", "value", "freq")}
  /\ Range(MrfmSetters["gain"]) = {Call("form_gain", "value", "gain"), Call("subdev", "gain",
       "gain")}
<1>1. DOMAIN MrfmSetters = {"freq", "gain"}
  BY DEF MrfmSetters
<1>2. /\ IsSeq(MrfmSetters["freq"])
      /\ Range(MrfmSetters["freq"]) = {Call("u", "tune", "freq"), Call("form_freq", "value",
           "freq")}
  BY DEF MrfmSetters, IsSeq, Range
<1>3. /\ IsSeq(MrfmSetters["gain"])
      /\ Range(MrfmSetters["gain"])
           = {Call("form_gain", "value", "gain"), Call("subdev", "gain", "gain")}
  BY DEF MrfmSetters, IsSeq, Range
<1> QED
  BY <1>1, <1>2, <1>3

LEMMA MrfmWidgetsPlan ==
  /\ Planned(MrfmWidgets, MrfmClasses, MrfmShown)
  /\ {"form_freq", "form_gain", "form_decim"} \subseteq Made(MrfmWidgets)
<1>1. /\ IsSeq(MrfmWidgets)
      /\ Range(MrfmWidgets) = {Make("form_freq", "field", <<>>), Make("form_gain", "field", <<>>),
                               Make("form_decim", "field", <<>>)}
  BY DEF MrfmWidgets, IsSeq, Range
<1>2. /\ <<"form_freq", "field">> \in MrfmClasses /\ <<"form_gain", "field">> \in MrfmClasses
      /\ <<"form_decim", "field">> \in MrfmClasses
  BY DEF MrfmClasses
<1>3. /\ Fits(Make("form_freq", "field", <<>>), MrfmClasses, MrfmShown)
      /\ Fits(Make("form_gain", "field", <<>>), MrfmClasses, MrfmShown)
      /\ Fits(Make("form_decim", "field", <<>>), MrfmClasses, MrfmShown)
  BY <1>2, MakeFits
<1>4. {"form_freq", "form_gain", "form_decim"} \subseteq Made(MrfmWidgets)
  BY <1>1, MakeMade
<1> QED
  BY <1>1, <1>3, <1>4 DEF Planned

\* The board of the daughter card, and the displays.
MrfmBlocks ==
  <<Make("subdev", "subdev", <<>>), Make("deint", "deinterleave", <<>>),
    Wire("u", 0, "deint", 0), Make("scope1", "fft_sink_c", [sample_rate |-> "decim"]),
    Make("scope2", "fft_sink_c", [sample_rate |-> "decim"]),
    Wire("deint", 0, "scope1", 0), Wire("deint", 1, "scope2", 0)>>

LEMMA MrfmBlocksPlan ==
  Planned(MrfmBlocks, MrfmClasses, MrfmShown) /\ "subdev" \in Made(MrfmBlocks)
<1>1. /\ IsSeq(MrfmBlocks)
      /\ Range(MrfmBlocks) =
           {Make("subdev", "subdev", <<>>), Make("deint", "deinterleave", <<>>),
            Wire("u", 0, "deint", 0), Make("scope1", "fft_sink_c", [sample_rate |-> "decim"]),
            Make("scope2", "fft_sink_c", [sample_rate |-> "decim"]),
            Wire("deint", 0, "scope1", 0), Wire("deint", 1, "scope2", 0)}
  BY DEF MrfmBlocks, IsSeq, Range
<1>2. /\ <<"subdev", "subdev">> \in MrfmClasses /\ <<"deint", "deinterleave">> \in MrfmClasses
      /\ <<"scope1", "fft_sink_c">> \in MrfmClasses /\ <<"scope2", "fft_sink_c">> \in MrfmClasses
      /\ <<"scope1", "sample_rate", "decim">> \in MrfmShown
      /\ <<"scope2", "sample_rate", "decim">> \in MrfmShown
  BY DEF MrfmClasses, MrfmShown
<1>3. /\ Fits(Make("subdev", "subdev", <<>>), MrfmClasses, MrfmShown)
      /\ Fits(Make("deint", "deinterleave", <<>>), MrfmClasses, MrfmShown)
      /\ Fits(Make("scope1", "fft_sink_c", [sample_rate |-> "decim"]), MrfmClasses, MrfmShown)
      /\ Fits(Make("scope2", "fft_sink_c", [sample_rate |-> "decim"]), MrfmClasses, MrfmShown)
  BY <1>2, MakeFits, RateFits
<1>4. /\ Fits(Wire("u", 0, "deint", 0), MrfmClasses, MrfmShown)
      /\ Fits(Wire("deint", 0, "scope1", 0), MrfmClasses, MrfmShown)
      /\ Fits(Wire("deint", 1, "scope2", 0), MrfmClasses, MrfmShown)
  BY WireFits
<1>5. "subdev" \in Made(MrfmBlocks)
  BY <1>1, MakeMade
<1> QED
  BY <1>1, <1>3, <1>4, <1>5 DEF Planned

LEMMA MrfmSettersPlan ==
  ASSUME NEW q \in {"freq", "gain"}
  PROVE  Planned(MrfmSetters[q], MrfmClasses, MrfmShown)
<1>1. /\ <<"u", "tune", "freq">> \in MrfmShown /\ <<"form_freq", "value", "freq">> \in MrfmShown
      /\ <<"form_gain", "value", "gain">> \in MrfmShown
      /\ <<"subdev", "gain", "gain">> \in MrfmShown
  BY DEF MrfmShown
<1>2. /\ Fits(Call("u", "tune", "freq"), MrfmClasses, MrfmShown)
      /\ Fits(Call("form_freq", "value", "freq"), MrfmClasses, MrfmShown)
      /\ Fits(Call("form_gain", "value", "gain"), MrfmClasses, MrfmShown)
      /\ Fits(Call("subdev", "gain", "gain"), MrfmClasses, MrfmShown)
  BY <1>1, CallFits
<1> QED
  BY <1>2, MrfmSettersAre DEF Planned

LEMMA MrfmRules ==
  ASSUME NEW c, c.decim \in Nat \ {0} PROVE Rules("mrfm_fft", c)
<1> DEFINE s == "mrfm_fft"
           first == [freq |-> 0, gain |-> 0, first_freq |-> 0, decim |-> c.decim]
           k == Keep(first)
           u == <<Make("u", "mrfm_source_c", <<>>)>>
           v == When(Settable(c.decim), <<Set("u", "decim", "decim", decimation(c.decim))>>)
           w == IF c.freq THEN <<Call("u", "center_freq", "first_freq")>> ELSE <<Raise>>
           x == MrfmBlocks
           y == MrfmWidgets
           g == MrfmSetters["gain"]
           f == MrfmSetters["freq"]
           z == IF Settable(c.decim)
                THEN <<Set("form_decim", "value", "decim", decimation(c.decim))>> ELSE <<Raise>>
           rest == ((((((u \o v) \o w) \o x) \o y) \o g) \o f) \o z
           Fine(m) ==
             \/ m.do = "thread" \/ Fits(m, MrfmClasses, MrfmShown)
             \/ /\ m.do = "set" /\ <<m.attr, m.setting, m.par>> \in MrfmShown
                /\ m.par \notin Settables(s) /\ m.par \in DOMAIN first /\ m.val = first[m.par]
           Good(t) == IsSeq(t) /\ (\A m \in Range(t) : Fine(m) /\ m.do # "thread")
<1>1. Setters(s) = MrfmSetters /\ Follower(s) = <<>>
  BY DEF Setters, Follower
<1>2. /\ DOMAIN first = {"freq", "gain", "first_freq", "decim"} /\ first["decim"] = c.decim
      /\ DOMAIN Setters(s) = {"freq", "gain"} /\ DOMAIN Follower(s) = {}
      /\ Settables(s) = {"freq", "gain"}
  <2>1. DOMAIN <<>> = {}
    OBVIOUS
  <2> QED
    BY <1>1, <2>1, MrfmSettersAre DEF Settables
<1>3. Construct(s, c) = (((((((<<k>> \o u) \o v) \o w) \o x) \o y) \o g) \o f) \o z
  <2>1. <<k, Make("u", "mrfm_source_c", <<>>)>> = <<k>> \o u
    OBVIOUS
  <2>2. Construct(s, c) =
          (((((((<<k, Make("u", "mrfm_source_c", <<>>)>>) \o v) \o w) \o x) \o y) \o g) \o f) \o z
    BY DEF Construct, Mrfm, MrfmBlocks
  <2> QED
    BY <2>1, <2>2
<1>4. Good(u) /\ "u" \in Made(u)
  <2>1. IsSeq(u) /\ Range(u) = {Make("u", "mrfm_source_c", <<>>)}
    BY DEF IsSeq, Range
  <2>2. <<"u", "mrfm_source_c">> \in MrfmClasses
    BY DEF MrfmClasses
  <2>3. Fits(Make("u", "mrfm_source_c", <<>>), MrfmClasses, MrfmShown)
    BY <2>2, MakeFits
  <2> HIDE DEF u
  <2>4. "u" \in Made(u)
    BY <2>1, MakeMade
  <2> QED
    BY <2>1, <2>3, <2>4 DEF Fits
<1>5. ASSUME NEW a, NEW i, <<a, i, "decim">> \in MrfmShown, Settable(c.decim)
      PROVE  Good(<<Set(a, i, "decim", decimation(c.decim))>>)
  <2> DEFINE m == Set(a, i, "decim", decimation(c.decim))
  <2>1. m.do = "set" /\ m.attr = a /\ m.setting = i /\ m.par = "decim"
        /\ m.val = decimation(c.decim)
    BY DEF Set
  <2>2. decimation(c.decim) = c.decim
    BY <1>5, DecimationIs
  <2> HIDE DEF m
  <2>3. Fine(m)
    BY <1>2, <1>5, <2>1, <2>2
  <2>4. IsSeq(<<m>>) /\ Range(<<m>>) = {m}
    BY OneStep
  <2> QED
    BY <2>1, <2>3, <2>4 DEF m
<1>6. Good(<<Raise>>)
  <2>1. IsSeq(<<Raise>>) /\ Range(<<Raise>>) = {Raise}
    BY OneStep
  <2>2. Fits(Raise, MrfmClasses, MrfmShown)
    BY RaiseFits
  <2> QED
    BY <2>1, <2>2 DEF Raise
<1>7. Good(v)
  <2>1. <<"u", "decim", "decim">> \in MrfmShown
    BY DEF MrfmShown
  <2>2. Good(<<>>)
    BY EmptyPlan, NothingIn DEF Planned
  <2> HIDE DEF Good
  <2> QED
    BY <1>5, <2>1, <2>2 DEF When
<1>8. Good(w)
  <2>1. <<"u", "center_freq", "first_freq">> \in MrfmShown
    BY DEF MrfmShown
  <2> DEFINE m == Call("u", "center_freq", "first_freq")
  <2>2. Fits(m, MrfmClasses, MrfmShown) /\ m.do # "thread"
    <3>1. Fits(m, MrfmClasses, MrfmShown)
      BY <2>1, CallFits
    <3> QED
      BY <3>1 DEF Fits
  <2> HIDE DEF m
  <2>3. IsSeq(<<m>>) /\ Range(<<m>>) = {m}
    BY OneStep
  <2>4. Good(<<m>>)
    BY <2>2, <2>3
  <2> HIDE DEF Good
  <2> QED
    BY <1>6, <2>4 DEF m
<1>9. Good(z)
  <2>1. <<"form_decim", "value", "decim">> \in MrfmShown
    BY DEF MrfmShown
  <2> HIDE DEF Good
  <2> QED
    BY <1>5, <1>6, <2>1
<1>10. \A t : Planned(t, MrfmClasses, MrfmShown) => Good(t)
  BY DEF Planned, Fits
<1>11. Good(x) /\ Good(y) /\ Good(g) /\ Good(f) /\ "subdev" \in Made(x)
       /\ {"form_freq", "form_gain"} \subseteq Made(y)
  <2>1. Planned(x, MrfmClasses, MrfmShown) /\ Planned(y, MrfmClasses, MrfmShown)
        /\ Planned(g, MrfmClasses, MrfmShown) /\ Planned(f, MrfmClasses, MrfmShown)
    BY MrfmBlocksPlan, MrfmWidgetsPlan, MrfmSettersPlan
  <2> HIDE DEF Good
  <2> QED
    BY <1>10, <2>1, MrfmBlocksPlan, MrfmWidgetsPlan
<1> HIDE DEF u, v, w, x, y, g, f, z, k, first, Fine
<1>12. ASSUME NEW t, NEW r, Good(t), Good(r)
       PROVE  Good(t \o r) /\ Made(t) \subseteq Made(t \o r) /\ Made(r) \subseteq Made(t \o r)
  <2>1. IsSeq(t \o r) /\ Range(t \o r) = Range(t) \union Range(r)
    BY <1>12, CatFacts
  <2> QED
    BY <1>12, <2>1 DEF Made
<1>13. /\ IsSeq(u) /\ IsSeq(v) /\ IsSeq(w) /\ IsSeq(x) /\ IsSeq(y) /\ IsSeq(g) /\ IsSeq(f)
       /\ IsSeq(z)
  BY <1>4, <1>7, <1>8, <1>9, <1>11
<1> HIDE DEF Good
<1> DEFINE r1 == u \o v
           r2 == r1 \o w
           r3 == r2 \o x
           r4 == r3 \o y
           r5 == r4 \o g
           r6 == r5 \o f
<1>14. Good(r1) /\ Made(u) \subseteq Made(r1)
  BY <1>4, <1>7, <1>12
<1> HIDE DEF r1
<1>15. Good(r2) /\ Made(r1) \subseteq Made(r2)
  BY <1>8, <1>12, <1>14
<1> HIDE DEF r2
<1>16. Good(r3) /\ Made(r2) \subseteq Made(r3) /\ Made(x) \subseteq Made(r3)
  BY <1>11, <1>12, <1>15
<1> HIDE DEF r3
<1>17. Good(r4) /\ Made(r3) \subseteq Made(r4) /\ Made(y) \subseteq Made(r4)
  BY <1>11, <1>12, <1>16
<1> HIDE DEF r4
<1>18. Good(r5) /\ Made(r4) \subseteq Made(r5)
  BY <1>11, <1>12, <1>17
<1> HIDE DEF r5
<1>19. Good(r6) /\ Made(r5) \subseteq Made(r6)
  BY <1>11, <1>12, <1>18
<1> HIDE DEF r6
<1>20. rest = r6 \o z /\ Good(rest) /\ Made(r6) \subseteq Made(rest)
  <2>1. rest = r6 \o z
    BY DEF r6, r5, r4, r3, r2, r1
  <2> HIDE DEF rest
  <2> QED
    BY <1>9, <1>12, <1>19, <2>1
<1> HIDE DEF rest
<1>21. {"u", "subdev", "form_freq", "form_gain"} \subseteq Made(rest)
  BY <1>4, <1>11, <1>14, <1>15, <1>16, <1>17, <1>18, <1>19, <1>20
<1>22. Construct(s, c) = <<k>> \o rest
  <2>1. /\ IsSeq(r1) /\ IsSeq(r2) /\ IsSeq(r3) /\ IsSeq(r4) /\ IsSeq(r5) /\ IsSeq(r6)
    BY <1>14, <1>15, <1>16, <1>17, <1>18, <1>19 DEF Good
  <2> DEFINE Join(t, r) == (<<k>> \o t) \o r = <<k>> \o (t \o r)
  <2>0. \A t, r : IsSeq(t) /\ IsSeq(r) => Join(t, r)
    BY ConsJoin
  <2> HIDE DEF Join
  <2>9. Join(u, v) /\ Join(r1, w) /\ Join(r2, x) /\ Join(r3, y) /\ Join(r4, g) /\ Join(r5, f)
        /\ Join(r6, z)
    BY <1>13, <2>0, <2>1
  <2>2. (<<k>> \o u) \o v = <<k>> \o r1
    BY <2>9 DEF Join, r1
  <2>3. (<<k>> \o r1) \o w = <<k>> \o r2
    BY <2>9 DEF Join, r2
  <2>4. (<<k>> \o r2) \o x = <<k>> \o r3
    BY <2>9 DEF Join, r3
  <2>5. (<<k>> \o r3) \o y = <<k>> \o r4
    BY <2>9 DEF Join, r4
  <2>6. (<<k>> \o r4) \o g = <<k>> \o r5
    BY <2>9 DEF Join, r5
  <2>7. (<<k>> \o r5) \o f = <<k>> \o r6
    BY <2>9 DEF Join, r6
  <2>8. (<<k>> \o r6) \o z = <<k>> \o rest
    BY <1>20, <2>9 DEF Join
  <2> QED
    BY <1>3, <2>2, <2>3, <2>4, <2>5, <2>6, <2>7, <2>8
<1>23. IsSeq(rest) /\ \A m \in Range(rest) : Fine(m) /\ m.do # "thread"
  BY <1>20 DEF Good
<1>24. Construct(s, c) = <<Keep(first)>> \o rest
  BY <1>22 DEF k
<1>25. ThreadsLate(s, c)
  BY <1>23, <1>24, NoThread
<1>26. SettersCall(s)
  <2>1. \A q \in DOMAIN MrfmSetters : \A m \in Range(MrfmSetters[q]) : m = Call(m.attr, m.setting,
          q)
    BY MrfmSettersAre DEF Call
  <2> QED
    BY <1>1, <2>1, MrfmSettersAre DEF SettersCall, Calls
<1>27. ASSUME NEW a, NEW i, NEW q, <<a, i, q>> \in MrfmShown
       PROVE  /\ q \in DOMAIN first /\ q \notin DOMAIN Follower(s)
              /\ q \in DOMAIN Setters(s) => Call(a, i, q) \in Calls(s, q)
  <2>1. q \in DOMAIN first /\ q \notin DOMAIN Follower(s)
    BY <1>2, <1>27 DEF MrfmShown
  <2>2. ASSUME q \in DOMAIN Setters(s) PROVE Call(a, i, q) \in Calls(s, q)
    BY <1>1, <1>2, <1>27, <2>2, MrfmSettersAre DEF MrfmShown, Calls
  <2> QED
    BY <2>1, <2>2
<1>28. ASSUME NEW p \in Settables(s), NEW n \in Calls(s, Target(s, p))
       PROVE  /\ n.attr \in Made(rest)
              /\ \A cls : <<n.attr, cls>> \in MrfmClasses => n.setting \in Classes[cls].sets
  <2>1. p \in {"freq", "gain"} /\ Target(s, p) = p
    BY <1>2 DEF Target
  <2>2. n \in {Call("u", "tune", "freq"), Call("form_freq", "value", "freq"),
               Call("form_gain", "value", "gain"), Call("subdev", "gain", "gain")}
    BY <1>1, <1>28, <2>1, MrfmSettersAre DEF Calls
  <2>3. n.attr \in Made(rest)
    BY <1>21, <2>2 DEF Call
  <2>4. ASSUME NEW cls, <<n.attr, cls>> \in MrfmClasses PROVE n.setting \in Classes[cls].sets
    BY <2>2, <2>4, ClassSets DEF Call, MrfmClasses
  <2> QED
    BY <2>3, <2>4
<1>29. DOMAIN Setters(s) \subseteq DOMAIN first
       /\ \A p \in DOMAIN Follower(s) :
            p \in DOMAIN first /\ p \notin DOMAIN Setters(s) /\ Follower(s)[p] \in DOMAIN Setters(s)
  BY <1>2
<1>30. NoStages(MrfmClasses)
  BY DEF NoStages, Stages, MrfmClasses
<1> HIDE DEF s
<1>31. Rules(s, c)
  BY <1>23, <1>24, <1>25, <1>26, <1>27, <1>28, <1>29, <1>30, RulesFromPlan DEF Fine
<1> QED
  BY <1>31 DEF s

-----------------------------------------------------------------------------
(* The anchors.  The boards and the recordings have four channels; channel i *)
(* comes from a port of a board, and is recorded in a file.                  *)

Board(i) == IF i < 2 THEN "source" ELSE "source2"
Channel(i) == IF i < 2 THEN i ELSE i - 2
Log(i) ==
  IF i = 0 THEN "logfile0" ELSE IF i = 1 THEN "logfile1" ELSE IF i
    = 2 THEN "logfile2" ELSE "logfile3"
Tape(i) ==
  IF i = 0 THEN "usrp_chan0.dat" ELSE IF i = 1 THEN "usrp_chan1.dat"
  ELSE IF i = 2 THEN "usrp_chan2.dat" ELSE "usrp_chan3.dat"
FileWires == {Wire(Board(i), Channel(i), Log(i), 0) : i \in 0 .. 3}
BoardWires == {Wire(Board(i), Channel(i), "parser", i) : i \in 0 .. 3}
TapeWires == {Wire(Log(i), 0, "parser", i) : i \in 0 .. 3}
StageWires(a, b) == {Wire(a, i, b, i) : i \in 0 .. 3}
Tapes(cls) == {File(Log(i), cls, Tape(i)) : i \in 0 .. 3}

LEMMA FourAre ==
  /\ 0 .. 3 = {0, 1, 2, 3}
  /\ Board(0) = "source" /\ Board(1) = "source" /\ Board(2) = "source2" /\ Board(3) = "source2"
  /\ Channel(0) = 0 /\ Channel(1) = 1 /\ Channel(2) = 0 /\ Channel(3) = 1
  /\ Log(0) = "logfile0" /\ Log(1) = "logfile1" /\ Log(2) = "logfile2" /\ Log(3) = "logfile3"
  /\ Tape(0) = "usrp_chan0.dat" /\ Tape(1) = "usrp_chan1.dat" /\ Tape(2) = "usrp_chan2.dat"
  /\ Tape(3) = "usrp_chan3.dat"
  /\ \A s : s # "hs" => \A i \in 0 .. 3 : Anchor(Addresses(s)[Board(i)], Channel(i)) = i
  /\ \A i, j \in 0 .. 3 : i # j => Log(i) # Log(j) /\ Tape(i) # Tape(j)
  /\ \A i \in 0 .. 3 : Log(i) \notin {"source", "source2"} \union Stages /\ Tape(i) # "none"
BY DEF Board, Channel, Log, Tape, Addresses, Anchor, Stages

LEMMA ListsAre ==
  /\ Range(ToFiles) = Tapes("file_sink") \union FileWires
  /\ Range(FromFiles) = Tapes("file_source") \union TapeWires
  /\ Range(ToParser) = BoardWires
  /\ \A a, b : Range(FourWires(a, b)) = StageWires(a, b)
<1>1. Range(ToFiles) = Tapes("file_sink") \union FileWires
  BY FourAre, ToFilesAre DEF Tapes, FileWires
<1>2. Range(FromFiles) = Tapes("file_source") \union TapeWires
  BY FourAre, FromFilesAre DEF Tapes, TapeWires
<1>3. Range(ToParser) = BoardWires
  BY FourAre, ToParserAre DEF BoardWires
<1>4. \A a, b : Range(FourWires(a, b)) = StageWires(a, b)
  BY FourWiresAre DEF StageWires
<1> QED
  BY <1>1, <1>2, <1>3, <1>4

(* What the parser is fed from, and the connections of a graph that runs. *)
FeedFrom(c, i) == IF c.fromfile THEN Log(i) ELSE Board(i)
FeedOut(c, i) == IF c.fromfile THEN 0 ELSE Channel(i)
FeedWires(c) == {Wire(FeedFrom(c, i), FeedOut(c, i), "parser", i) : i \in 0 .. 3}
AnchorWires(c) ==
  FeedWires(c)
    \union (IF c.tofile THEN FileWires
            ELSE StageWires("parser", "prf_est") \union StageWires("prf_est", "h_extract")
                 \union StageWires("h_extract", "h_locate"))
AnchorMakes(c) ==
  (IF c.fromfile THEN {}
   ELSE {Make("source", "usrp_source", <<>>), Make("source2", "usrp_source", <<>>)})
    \union {Make("parser", "stream_parser", <<>>)}
    \union (IF c.tofile THEN Tapes("file_sink")
            ELSE (IF c.fromfile THEN Tapes("file_source") ELSE {})
                   \union {Make("prf_est", "four_to_four", <<>>),
                           Make("h_extract", "four_to_four", <<>>),
                           Make("h_locate", "harmonic_localizer", <<>>),
                           Make("ws_port", "ws_sink_c", <<>>)})
BoardGains ==
  {Call("source", "gain", "gain"), Call("source2", "gain", "gain")}

LEMMA StepsDo ==
  /\ \A cls : \A m \in Tapes(cls) : m.do = "make"
  /\ \A m \in FileWires \union BoardWires \union TapeWires : m.do = "wire"
  /\ \A a, b : \A m \in StageWires(a, b) : m.do = "wire"
  /\ \A c : \A m \in AnchorMakes(c) : m.do = "make"
  /\ \A m \in BoardGains : m.do = "call"
BY DEF Tapes, FileWires, BoardWires, TapeWires, StageWires, AnchorMakes, BoardGains, File, Wire,
       Make, Call

LEMMA AnchorSteps ==
  ASSUME NEW c, ~(c.tofile /\ c.fromfile)
  PROVE  Range(Construct("rt_harmonia", c)) \subseteq
           {Keep([p \in BoardVariables |-> 0])} \union BoardGains \union AnchorMakes(c)
             \union AnchorWires(c)
         /\ AnchorMakes(c) \union AnchorWires(c) \subseteq Range(Construct("rt_harmonia", c))
<1> DEFINE k == Keep([p \in BoardVariables |-> 0])
           all == Range(Construct("rt_harmonia", c))
<1>1. HarmoniaVariables = <<k>>
  BY DEF HarmoniaVariables, First, BoardVariables
<1> HIDE DEF k
<1>2. IsSeq(<<k>>) /\ Range(<<k>>) = {k}
  BY OneStep
<1>3. all = {k} \union Range(HarmoniaPlan(c))
  <2>1. IsSeq(HarmoniaVariables) /\ IsSeq(HarmoniaPlan(c))
    BY <1>1, <1>2, HarmoniaAre
  <2>2. Range(HarmoniaVariables \o HarmoniaPlan(c))
          = Range(HarmoniaVariables) \union Range(HarmoniaPlan(c))
    BY <2>1, CatFacts
  <2> QED
    BY <1>1, <1>2, <2>2, HarmoniaAre
<1>4. Range(HarmoniaPlan(c)) = (IF c.fromfile THEN {} ELSE Range(TwoBoards))
        \union {Make("parser", "stream_parser", <<>>)} \union Wired(c)
  BY HarmoniaAre
<1>5. c.fromfile => FeedWires(c) = TapeWires
  BY DEF FeedWires, FeedFrom, FeedOut, TapeWires
<1>6. ~c.fromfile => FeedWires(c) = BoardWires
  BY DEF FeedWires, FeedFrom, FeedOut, BoardWires
<1>7. Wired(c) = IF c.tofile THEN Tapes("file_sink") \union FileWires \union BoardWires
        ELSE (IF c.fromfile THEN Tapes("file_source") \union TapeWires ELSE BoardWires)
               \union Range(Chained)
  BY ListsAre DEF Wired
<1>8. Range(Chained) =
        {Make("prf_est", "four_to_four", <<>>), Make("h_extract", "four_to_four", <<>>),
         Make("h_locate", "harmonic_localizer", <<>>), Make("ws_port", "ws_sink_c", <<>>)}
          \union StageWires("parser", "prf_est") \union StageWires("prf_est", "h_extract")
          \union StageWires("h_extract", "h_locate")
  BY ListsAre, ChainedAre
<1>9. Range(TwoBoards) =
        {Make("source", "usrp_source", <<>>), Make("source2", "usrp_source", <<>>)}
          \union BoardGains
  BY TwoBoardsAre DEF BoardGains
<1>10. CASE c.tofile
  BY <1>3, <1>4, <1>6, <1>7, <1>9, <1>10 DEF AnchorMakes, AnchorWires, k
<1>11. CASE ~c.tofile /\ c.fromfile
  BY <1>3, <1>4, <1>5, <1>7, <1>8, <1>11 DEF AnchorMakes, AnchorWires, k
<1>12. CASE ~c.tofile /\ ~c.fromfile
  BY <1>3, <1>4, <1>6, <1>7, <1>8, <1>9, <1>12 DEF AnchorMakes, AnchorWires, k
<1> QED
  BY <1>10, <1>11, <1>12


(* A graph that runs has no connection from what was not made. *)
LEMMA AnchorsRun ==
  ASSUME NEW c, MadeInv("rt_harmonia", c), WireInv("rt_harmonia", c), phase = "running"
  PROVE  /\ ~(c.tofile /\ c.fromfile)
         /\ edges = AnchorWires(c)
         /\ \A e \in edges : e.from \in DOMAIN objs
         /\ \A a \in DOMAIN objs : \E m \in AnchorMakes(c) :
              m.attr = a /\ objs[a].cls = m.cls /\ objs[a].file = m.file
<1> DEFINE s == "rt_harmonia"
           all == Range(Construct(s, c))
<1>1. /\ \A a \in DOMAIN objs : \E m \in Makes(s, c, a) :
           objs[a].cls = m.cls /\ objs[a].file = m.file
      /\ \A e \in edges : e \in all /\ e.do = "wire" /\ {e.from, e.to} \subseteq DOMAIN objs
      /\ \A m \in all : m.do = "wire" => m \in edges
  BY DEF MadeInv, WireInv, Alive
<1>2. ~(c.tofile /\ c.fromfile)
  <2> SUFFICES ASSUME c.tofile, c.fromfile PROVE FALSE
    OBVIOUS
  <2> DEFINE k == Keep([p \in BoardVariables |-> 0])
             w == Wire("source", 0, "logfile0", 0)
  <2>1. HarmoniaVariables = <<k>> /\ k.do = "keep"
    BY DEF HarmoniaVariables, First, BoardVariables, Keep
  <2> HIDE DEF k
  <2>2. IsSeq(<<k>>) /\ Range(<<k>>) = {k}
    BY OneStep
  <2>3. Range(HarmoniaVariables \o HarmoniaPlan(c)) = {k} \union Range(HarmoniaPlan(c))
    <3>1. IsSeq(HarmoniaVariables) /\ IsSeq(HarmoniaPlan(c))
      BY <2>1, <2>2, HarmoniaAre
    <3>2. Range(HarmoniaVariables \o HarmoniaPlan(c))
            = Range(HarmoniaVariables) \union Range(HarmoniaPlan(c))
      BY <3>1, CatFacts
    <3> QED
      BY <2>1, <2>2, <3>2
  <2>4. all = {k} \union {Make("parser", "stream_parser", <<>>)} \union Tapes("file_sink")
                \union FileWires \union BoardWires
    BY <2>3, HarmoniaAre, ListsAre DEF Wired
  <2>5. w \in all /\ w.do = "wire" /\ w.from = "source"
    <3>1. w \in FileWires
      BY FourAre DEF FileWires
    <3> QED
      BY <2>4, <3>1 DEF Wire
  <2>6. PICK m \in Makes(s, c, "source") : TRUE
    BY <1>1, <2>5
  <2>7. m \in all /\ m.do = "make" /\ m.attr = "source"
    BY DEF Makes
  <2>8. m = Make("parser", "stream_parser", <<>>) \/ m \in Tapes("file_sink")
    BY <2>1, <2>4, <2>7, StepsDo
  <2> QED
    BY <2>7, <2>8, FourAre DEF Make, Tapes, File
<1>3. /\ all \subseteq {Keep([p \in BoardVariables |-> 0])} \union BoardGains
                         \union AnchorMakes(c) \union AnchorWires(c)
      /\ AnchorMakes(c) \union AnchorWires(c) \subseteq all
  BY <1>2, AnchorSteps
<1>4. Keep([p \in BoardVariables |-> 0]).do = "keep"
  BY DEF Keep
<1>5. \A m \in AnchorWires(c) : m.do = "wire"
  BY StepsDo DEF AnchorWires, FeedWires, Wire
<1>6. edges = AnchorWires(c)
  BY <1>1, <1>3, <1>4, <1>5, StepsDo
<1>7. ASSUME NEW a \in DOMAIN objs
      PROVE  \E m \in AnchorMakes(c) : m.attr = a /\ objs[a].cls = m.cls /\ objs[a].file = m.file
  <2>1. PICK m \in Makes(s, c, a) : objs[a].cls = m.cls /\ objs[a].file = m.file
    BY <1>1
  <2>2. m \in all /\ m.do = "make" /\ m.attr = a
    BY DEF Makes
  <2>3. m \in AnchorMakes(c)
    BY <1>3, <1>4, <1>5, <2>2, StepsDo
  <2> QED
    BY <2>1, <2>2, <2>3
<1> QED
  BY <1>1, <1>2, <1>6, <1>7

(* One connection back *)
LEMMA BackFrom ==
  ASSUME NEW c, edges = AnchorWires(c), ~(c.tofile /\ c.fromfile), NEW i \in 0 .. 3
  PROVE  /\ Back({<<"parser", i>>}) = {<<FeedFrom(c, i), FeedOut(c, i)>>}
         /\ Back({<<FeedFrom(c, i), FeedOut(c, i)>>}) = {}
         /\ ~c.tofile => /\ Back({<<"prf_est", i>>}) = {<<"parser", i>>}
                         /\ Back({<<"h_extract", i>>}) = {<<"prf_est", i>>}
                         /\ Back({<<"h_locate", i>>}) = {<<"h_extract", i>>}
<1>1. \A a, k, b, j : /\ Wire(a, k, b, j).from = a /\ Wire(a, k, b, j).out = k
                      /\ Wire(a, k, b, j).to = b /\ Wire(a, k, b, j).in = j
  BY DEF Wire
<1>3. ASSUME NEW b, NEW j, NEW x, NEW y,
             \A e \in edges : e.to = b /\ e.in = j => e.from = x /\ e.out = y,
             \E e \in edges : e.to = b /\ e.in = j /\ e.from = x /\ e.out = y
      PROVE  Back({<<b, j>>}) = {<<x, y>>}
  <2> DEFINE came == {d \in edges : d.to = b /\ d.in = j}
             p == <<x, y>>
  <2>1. \A e \in came : <<e.from, e.out>> = p
    BY <1>3
  <2>2. \E e \in came : TRUE
    BY <1>3
  <2>3. Back({<<b, j>>}) = {<<e.from, e.out>> : e \in came}
    <3>1. {d \in edges : <<d.to, d.in>> \in {<<b, j>>}} = came
      OBVIOUS
    <3> QED
      BY <3>1 DEF Back
  <2> HIDE DEF came, p
  <2>4. {<<e.from, e.out>> : e \in came} = {p}
    BY <2>1, <2>2
  <2> QED
    BY <2>3, <2>4 DEF p
<1>4. ASSUME NEW b, NEW j, \A e \in edges : e.to # b
      PROVE  Back({<<b, j>>}) = {}
  <2> DEFINE came == {d \in edges : d.to = b /\ d.in = j}
  <2>1. came = {}
    BY <1>4
  <2>2. Back({<<b, j>>}) = {<<e.from, e.out>> : e \in came}
    <3>1. {d \in edges : <<d.to, d.in>> \in {<<b, j>>}} = came
      OBVIOUS
    <3> QED
      BY <3>1 DEF Back
  <2> HIDE DEF came
  <2> QED
    BY <2>1, <2>2
<1>5. \A e \in FeedWires(c) : e.to = "parser" /\ \E j \in 0 .. 3 :
        e.in = j /\ e.from = FeedFrom(c, j) /\ e.out = FeedOut(c, j)
  BY <1>1 DEF FeedWires
<1>6. \A a, b : \A e \in StageWires(a, b) : e.to = b /\ \E j \in 0 .. 3 :
        e.in = j /\ e.from = a /\ e.out = j
  BY <1>1 DEF StageWires
<1>7. \A e \in FileWires : \E j \in 0 .. 3 : e.to = Log(j)
  BY <1>1 DEF FileWires
<1>8. FeedFrom(c, i) \notin Stages /\ (c.tofile => \A j \in 0 .. 3 : FeedFrom(c, i) # Log(j))
  <2>1. Board(i) \in {"source", "source2"} /\ Board(i) \notin Stages
    BY DEF Board, Stages
  <2> QED
    BY <2>1, FourAre DEF FeedFrom
<1>9. \A j \in 0 .. 3 : Log(j) \notin Stages
  BY FourAre
<1>10. Back({<<"parser", i>>}) = {<<FeedFrom(c, i), FeedOut(c, i)>>}
  <2>1. ASSUME NEW e \in edges, e.to = "parser", e.in = i
        PROVE  e.from = FeedFrom(c, i) /\ e.out = FeedOut(c, i)
    <3>1. e \in FeedWires(c)
      BY <1>6, <1>7, <1>9, <2>1 DEF AnchorWires, Stages
    <3> QED
      BY <1>5, <2>1, <3>1
  <2>2. \E e \in edges : /\ e.to = "parser" /\ e.in = i
                         /\ e.from = FeedFrom(c, i) /\ e.out = FeedOut(c, i)
    <3>1. Wire(FeedFrom(c, i), FeedOut(c, i), "parser", i) \in edges
      BY DEF AnchorWires, FeedWires
    <3> QED
      BY <1>1, <3>1
  <2> QED
    BY <1>3, <2>1, <2>2
<1>11. Back({<<FeedFrom(c, i), FeedOut(c, i)>>}) = {}
  <2>1. ASSUME NEW e \in edges PROVE e.to # FeedFrom(c, i)
    BY <1>5, <1>6, <1>7, <1>8 DEF AnchorWires, Stages
  <2> QED
    BY <1>4, <2>1
<1>12. ASSUME ~c.tofile,
              NEW a, NEW b, <<a, b>> \in {<<"parser", "prf_est">>, <<"prf_est", "h_extract">>,
                                          <<"h_extract", "h_locate">>}
       PROVE  Back({<<b, i>>}) = {<<a, i>>}
  <2>1. ASSUME NEW e \in edges, e.to = b, e.in = i PROVE e.from = a /\ e.out = i
    <3>1. e \in StageWires(a, b)
      BY <1>5, <1>6, <1>12, <2>1 DEF AnchorWires
    <3> QED
      BY <1>6, <2>1, <3>1
  <2>2. \E e \in edges : e.to = b /\ e.in = i /\ e.from = a /\ e.out = i
    <3>1. Wire(a, i, b, i) \in edges
      BY <1>12 DEF AnchorWires, StageWires
    <3> QED
      BY <1>1, <3>1
  <2> QED
    BY <1>3, <2>1, <2>2
<1>13. ASSUME ~c.tofile
       PROVE  /\ Back({<<"prf_est", i>>}) = {<<"parser", i>>}
              /\ Back({<<"h_extract", i>>}) = {<<"prf_est", i>>}
              /\ Back({<<"h_locate", i>>}) = {<<"h_extract", i>>}
  <2>1. Back({<<"prf_est", i>>}) = {<<"parser", i>>}
    BY <1>12, <1>13
  <2>2. Back({<<"h_extract", i>>}) = {<<"prf_est", i>>}
    BY <1>12, <1>13
  <2>3. Back({<<"h_locate", i>>}) = {<<"h_extract", i>>}
    BY <1>12, <1>13
  <2> QED
    BY <2>1, <2>2, <2>3
<1> QED
  BY <1>10, <1>11, <1>13

LEMMA BehindIs ==
  ASSUME NEW b, NEW port
  PROVE  /\ Behind(b, port)[1] = Back({<<b, port>>})
         /\ \A n \in {2, 3, 4} : Behind(b, port)[n] = Back(Behind(b, port)[n - 1])
<1> DEFINE Goes(f) ==
             f = [n \in 0 .. Hops |-> IF n = 0 THEN {<<b, port>>} ELSE Back(f[n - 1])]
           h0 == {<<b, port>>}
           h1 == Back(h0)
           h2 == Back(h1)
           h3 == Back(h2)
           h4 == Back(h3)
           h == [n \in 0 .. Hops |-> IF n = 0 THEN h0 ELSE IF n = 1 THEN h1
                                     ELSE IF n = 2 THEN h2 ELSE IF n = 3 THEN h3 ELSE h4]
<1>1. 0 .. Hops = {0, 1, 2, 3, 4}
  BY DEF Hops
<1>2. h[0] = h0 /\ h[1] = h1 /\ h[2] = h2 /\ h[3] = h3 /\ h[4] = h4
  BY <1>1
<1>3. \A n \in 0 .. Hops : h[n] = IF n = 0 THEN h0 ELSE Back(h[n - 1])
  <2> HIDE DEF h0
  <2>1. h[1] = Back(h[0]) /\ h[2] = Back(h[1]) /\ h[3] = Back(h[2]) /\ h[4] = Back(h[3])
    BY <1>2
  <2> HIDE DEF h
  <2>2. ASSUME NEW n \in 0 .. Hops PROVE h[n] = IF n = 0 THEN h0 ELSE Back(h[n - 1])
    <3>1. n \in {0, 1, 2, 3, 4}
      BY <1>1
    <3>2. CASE n = 0
      BY <1>2, <3>2
    <3>3. CASE n = 1
      BY <2>1, <3>3
    <3>4. CASE n = 2
      BY <2>1, <3>4
    <3>5. CASE n = 3
      BY <2>1, <3>5
    <3>6. CASE n = 4
      BY <2>1, <3>6
    <3> QED
      BY <3>1, <3>2, <3>3, <3>4, <3>5, <3>6
  <2> QED
    BY <2>2
<1>4. Goes(h)
  <2>1. h = [n \in 0 .. Hops |-> h[n]]
    OBVIOUS
  <2> HIDE DEF h
  <2>2. [n \in 0 .. Hops |-> h[n]] = [n \in 0 .. Hops |-> IF n = 0 THEN h0 ELSE Back(h[n - 1])]
    BY <1>3
  <2> QED
    BY <2>1, <2>2
<1> HIDE DEF h
<1> DEFINE f == CHOOSE f : Goes(f)
<1>5. Goes(f)
  BY <1>4
<1>6. Behind(b, port) = f
  BY DEF Behind
<1> HIDE DEF f
<1>7. \A n \in 0 .. Hops : f[n] = IF n = 0 THEN h0 ELSE Back(f[n - 1])
  BY <1>5
<1>8. f[0] = h0 /\ f[1] = Back(f[0])
  BY <1>1, <1>7
<1>9. f[2] = Back(f[1]) /\ f[3] = Back(f[2]) /\ f[4] = Back(f[3])
  BY <1>1, <1>7
<1>10. \A n \in {2, 3, 4} : f[n] = Back(f[n - 1])
  BY <1>9
<1> QED
  BY <1>6, <1>8, <1>10


(* The anchors behind a file that steps of a script write. *)
Traced(s, list, f) ==
  {Anchor(Addresses(s)[w.from], w.out) : w \in {x \in list : x.do = "wire" /\
     x.to \in {m.attr : m \in {n \in list : n.do = "make" /\ n.file = f}}}}

(* What a recording holds: the anchor of its number. *)
LEMMA RecordingIs ==
  ASSUME NEW s \in {"rt_harmonia", "bb_comb"},
         NEW list, Range(ToFiles) \subseteq list,
         \A m \in list \ Range(ToFiles) :
           (m.do = "make" => m.file = "none") /\ (m.do = "wire" => m.to = "parser"),
         NEW i \in 0 .. 3
  PROVE  Traced(s, list, Tape(i)) = {i}
<1> DEFINE tapes == {n \in list : n.do = "make" /\ n.file = Tape(i)}
           sinks == {m.attr : m \in tapes}
           wires == {x \in list : x.do = "wire" /\ x.to \in sinks}
           file == File(Log(i), "file_sink", Tape(i))
           wire == Wire(Board(i), Channel(i), Log(i), 0)
<1>1. /\ \A j \in 0 .. 3 : LET m == File(Log(j), "file_sink", Tape(j))
                           IN m.do = "make" /\ m.attr = Log(j) /\ m.file = Tape(j)
      /\ \A j \in 0 .. 3 : LET m == Wire(Board(j), Channel(j), Log(j), 0)
                           IN /\ m.do = "wire" /\ m.to = Log(j)
                              /\ m.from = Board(j) /\ m.out = Channel(j)
  BY DEF File, Wire
<1>2. file \in Tapes("file_sink") /\ wire \in FileWires
  BY DEF Tapes, FileWires
<1>3. tapes = {file}
  <2>1. file \in tapes
    BY <1>1, <1>2, ListsAre
  <2>2. ASSUME NEW m \in tapes PROVE m = file
    <3>1. m \in Tapes("file_sink") \union FileWires
      BY <2>2, FourAre, ListsAre
    <3>2. m \in Tapes("file_sink")
      BY <2>2, <3>1, StepsDo
    <3>3. PICK j \in 0 .. 3 : m = File(Log(j), "file_sink", Tape(j))
      BY <3>2 DEF Tapes
    <3>4. j = i
      BY <1>1, <2>2, <3>3, FourAre
    <3> QED
      BY <3>3, <3>4
  <2> HIDE DEF tapes, file
  <2> QED
    BY <2>1, <2>2
<1>4. sinks = {Log(i)}
  BY <1>1, <1>3
<1> HIDE DEF tapes, sinks
<1>5. wires = {wire}
  <2>1. wire \in wires
    BY <1>1, <1>2, <1>4, ListsAre
  <2>2. ASSUME NEW m \in wires PROVE m = wire
    <3>1. m \in Tapes("file_sink") \union FileWires
      BY <1>4, <2>2, FourAre, ListsAre DEF Stages
    <3>2. m \in FileWires
      BY <2>2, <3>1, StepsDo
    <3>3. PICK j \in 0 .. 3 : m = Wire(Board(j), Channel(j), Log(j), 0)
      BY <3>2 DEF FileWires
    <3>4. j = i
      BY <1>1, <1>4, <2>2, <3>3, FourAre
    <3> QED
      BY <3>3, <3>4
  <2> HIDE DEF wires, wire
  <2> QED
    BY <2>1, <2>2
<1>6. {Anchor(Addresses(s)[w.from], w.out) : w \in wires} = {i}
  <2> HIDE DEF wires
  <2> QED
    BY <1>1, <1>5, FourAre
<1> QED
  BY <1>6 DEF tapes, sinks, Traced

Recording(s) ==
  [CHOOSE c \in OptionsOf(s) : TRUE EXCEPT !.tofile = TRUE, !.test = FALSE, !.fromfile = FALSE]

LEMMA RecordingAsks ==
  ASSUME NEW s \in {"rt_harmonia", "bb_comb"}
  PROVE  Recording(s).tofile = TRUE /\ Recording(s).test = FALSE /\ Recording(s).fromfile = FALSE
<1> DEFINE first == CHOOSE d \in Decims : TRUE
           none == [test |-> FALSE, tofile |-> FALSE, fromfile |-> FALSE, freq |-> FALSE,
                    decim |-> first]
           c == CHOOSE c \in OptionsOf(s) : TRUE
<1>1. first \in Decims
  BY DecimAssumption
<1>2. none \in OptionsOf(s)
  <2> HIDE DEF first
  <2>1. none \in Options
    BY <1>1 DEF Options
  <2>2. ~none.test /\ ~none.tofile /\ ~none.fromfile /\ ~none.freq /\ none.decim = first
    OBVIOUS
  <2>3. \A n \in {"test", "tofile", "fromfile", "freq"} : ~none[n]
    BY <2>2
  <2> HIDE DEF none
  <2> QED
    BY <2>1, <2>2, <2>3 DEF OptionsOf, first
<1> HIDE DEF none
<1>3. c \in OptionsOf(s)
  BY <1>2
<1> HIDE DEF c
<1>4. c \in Options
  BY <1>3 DEF OptionsOf
<1>5. Recording(s) = [c EXCEPT !.tofile = TRUE, !.test = FALSE, !.fromfile = FALSE]
  BY DEF Recording, c
<1> QED
  BY <1>4, <1>5 DEF Options

LEMMA RecordedIs ==
  ASSUME NEW s \in {"rt_harmonia", "bb_comb"}, NEW i \in 0 .. 3
  PROVE  Recorded(s, Tape(i)) = {i}
<1> DEFINE list == Range(Construct(s, Recording(s)))
           k == Keep([p \in BoardVariables |-> 0])
<1>1. k.do = "keep"
  BY DEF Keep
<1>2. HarmoniaVariables = <<k>>
  BY DEF HarmoniaVariables, First, BoardVariables
<1> HIDE DEF k
<1>3. IsSeq(HarmoniaVariables) /\ Range(HarmoniaVariables) = {k}
  BY <1>2, OneStep
<1>4. ASSUME s = "bb_comb"
      PROVE  list = {k} \union Range(TwoBoards) \union Range(ToFiles)
  <2>1. BoardPlan(s, Recording(s)) = TwoBoards \o ToFiles
    BY <1>4, RecordingAsks DEF BoardPlan, When
  <2>2. IsSeq(TwoBoards) /\ IsSeq(ToFiles)
    BY TwoBoardsAre, ToFilesAre
  <2>3. /\ IsSeq(TwoBoards \o ToFiles)
        /\ Range(TwoBoards \o ToFiles) = Range(TwoBoards) \union Range(ToFiles)
    BY <2>2, CatFacts
  <2>4. IsSeq(HarmoniaVariables) /\ IsSeq(TwoBoards \o ToFiles)
    BY <1>3, <2>3
  <2>5. Range(HarmoniaVariables \o (TwoBoards \o ToFiles))
          = Range(HarmoniaVariables) \union Range(TwoBoards \o ToFiles)
    BY <2>4, CatFacts
  <2>6. Construct(s, Recording(s)) = HarmoniaVariables \o (TwoBoards \o ToFiles)
    BY <1>4, <2>1, BoardScripts
  <2> QED
    BY <1>3, <2>3, <2>5, <2>6
<1>5. \A m \in Range(TwoBoards) : (m.do = "make" => m.file = "none") /\ m.do # "wire"
  BY TwoBoardsAre DEF Make, Call
<1>6. /\ Range(ToFiles) \subseteq list
      /\ \A m \in list \ Range(ToFiles) :
           (m.do = "make" => m.file = "none") /\ (m.do = "wire" => m.to = "parser")
  <2>1. CASE s = "rt_harmonia"
    <3> DEFINE c == Recording(s)
    <3>1. c.tofile /\ ~c.fromfile
      BY <2>1, RecordingAsks
    <3> HIDE DEF c
    <3>2. Range(ToFiles) = Tapes("file_sink") \union FileWires
      BY ListsAre
    <3>3. /\ list \subseteq {k} \union BoardGains \union AnchorMakes(c) \union AnchorWires(c)
          /\ AnchorMakes(c) \union AnchorWires(c) \subseteq list
      BY <2>1, <3>1, AnchorSteps DEF c, k
    <3>4. Tapes("file_sink") \subseteq AnchorMakes(c) /\ FileWires \subseteq AnchorWires(c)
      BY <3>1 DEF AnchorMakes, AnchorWires
    <3>5. \A m \in AnchorMakes(c) \ Tapes("file_sink") : m.do = "make" /\ m.file = "none"
      BY <3>1 DEF AnchorMakes, Make
    <3>6. \A m \in AnchorWires(c) \ FileWires : m.do = "wire" /\ m.to = "parser"
      BY <3>1 DEF AnchorWires, FeedWires, Wire
    <3> HIDE DEF list
    <3> QED
      BY <1>1, <3>2, <3>3, <3>4, <3>5, <3>6, StepsDo
  <2>2. CASE s = "bb_comb"
    <3> HIDE DEF list
    <3> QED
      BY <1>1, <1>4, <1>5, <2>2
  <2> QED
    BY <2>1, <2>2
<1>7. Recorded(s, Tape(i)) = Traced(s, list, Tape(i))
  BY DEF Recorded, Recording, Traced
<1> HIDE DEF list
<1> QED
  BY <1>6, <1>7, RecordingIs


LEMMA BroughtIs ==
  ASSUME NEW c, ~(c.tofile /\ c.fromfile), script = "rt_harmonia",
         NEW recorder \in {"rt_harmonia", "bb_comb"},
         \A a \in DOMAIN objs : \E m \in AnchorMakes(c) :
           m.attr = a /\ objs[a].cls = m.cls /\ objs[a].file = m.file,
         NEW i \in 0 .. 3
  PROVE  /\ FeedFrom(c, i) \in DOMAIN objs
              => Brought(FeedFrom(c, i), FeedOut(c, i), recorder) = {i}
         /\ \A b \in Stages \intersect DOMAIN objs : \A port : Brought(b, port, recorder) = {}
         /\ c.tofile => Stages \intersect DOMAIN objs \subseteq {"parser"}
<1>1. \A j \in 0 .. 3 : \A cls : /\ File(Log(j), cls, Tape(j)).attr = Log(j)
                                 /\ File(Log(j), cls, Tape(j)).cls = cls
                                 /\ File(Log(j), cls, Tape(j)).file = Tape(j)
  BY DEF File
<1>2. ASSUME NEW m \in AnchorMakes(c), m.attr = FeedFrom(c, i)
      PROVE  /\ c.fromfile => m.cls = "file_source" /\ m.file = Tape(i)
             /\ ~c.fromfile => m.cls = "usrp_source"
  <2>1. CASE c.fromfile
    <3>1. m.attr = Log(i)
      BY <1>2, <2>1 DEF FeedFrom
    <3>2. m \in Tapes("file_source")
      <4>1. Log(i) # "parser" /\ Log(i) # "prf_est" /\ Log(i) # "h_extract" /\ Log(i) # "h_locate"
            /\ Log(i) # "ws_port"
        BY DEF Log
      <4> QED
        BY <2>1, <3>1, <4>1 DEF AnchorMakes, Make
    <3>3. PICK j \in 0 .. 3 : m = File(Log(j), "file_source", Tape(j))
      BY <3>2 DEF Tapes
    <3>4. j = i
      BY <1>1, <3>1, <3>3, FourAre
    <3> QED
      BY <1>1, <2>1, <3>3, <3>4
  <2>2. CASE ~c.fromfile
    <3>1. m.attr \in {"source", "source2"}
      BY <1>2, <2>2 DEF FeedFrom, Board
    <3>2. \A cls : m \notin Tapes(cls)
      BY <1>1, <3>1, FourAre DEF Tapes
    <3>3. m \in {Make("source", "usrp_source", <<>>), Make("source2", "usrp_source", <<>>)}
      BY <2>2, <3>1, <3>2 DEF AnchorMakes, Make
    <3> QED
      BY <2>2, <3>3 DEF Make
  <2> QED
    BY <2>1, <2>2
<1>3. ASSUME FeedFrom(c, i) \in DOMAIN objs
      PROVE  Brought(FeedFrom(c, i), FeedOut(c, i), recorder) = {i}
  <2> DEFINE a == FeedFrom(c, i)
  <2>1. PICK m \in AnchorMakes(c) : m.attr = a /\ objs[a].cls = m.cls /\ objs[a].file = m.file
    BY <1>3
  <2>2. CASE c.fromfile
    <3>1. objs[a].cls = "file_source" /\ objs[a].file = Tape(i)
      BY <1>2, <2>1, <2>2
    <3> HIDE DEF a
    <3> QED
      BY <3>1, RecordedIs DEF Brought, a
  <2>3. CASE ~c.fromfile
    <3>1. objs[a].cls = "usrp_source"
      BY <1>2, <2>1, <2>3
    <3>2. Anchor(Addresses(script)[a], FeedOut(c, i)) = i
      BY <2>3, FourAre DEF FeedFrom, FeedOut
    <3> HIDE DEF a
    <3> QED
      BY <3>1, <3>2 DEF Brought, a
  <2> QED
    BY <2>2, <2>3
<1>4. ASSUME NEW b \in Stages \intersect DOMAIN objs
      PROVE  /\ objs[b].cls \notin {"usrp_source", "file_source"}
             /\ c.tofile => b = "parser"
  <2>1. PICK m \in AnchorMakes(c) : m.attr = b /\ objs[b].cls = m.cls
    BY <1>4
  <2>2. \A cls : m \notin Tapes(cls)
    BY <1>1, <2>1, FourAre DEF Tapes
  <2>3. m.cls \notin {"usrp_source", "file_source"} /\ (c.tofile => m.attr = "parser")
    BY <2>1, <2>2 DEF AnchorMakes, Make, Stages
  <2> QED
    BY <2>1, <2>3
<1>5. \A b \in Stages \intersect DOMAIN objs : \A port : Brought(b, port, recorder) = {}
  BY <1>4 DEF Brought
<1> QED
  BY <1>3, <1>4, <1>5

(* Every input of a block of the anchors has its own channel behind it. *)
LEMMA OriginsAre ==
  ASSUME NEW c, MadeInv("rt_harmonia", c), WireInv("rt_harmonia", c), phase = "running",
         script = "rt_harmonia", NEW recorder \in {"rt_harmonia", "bb_comb"},
         NEW b \in Stages \intersect DOMAIN objs, NEW port \in 0 .. 3
  PROVE  Origins(b, port, recorder) = {port}
<1> DEFINE feed == <<FeedFrom(c, port), FeedOut(c, port)>>
           B(n) == Behind(b, port)[n]
           inside == {<<a, port>> : a \in Stages \intersect DOMAIN objs}
<1>1. /\ ~(c.tofile /\ c.fromfile) /\ edges = AnchorWires(c)
      /\ \A e \in edges : e.from \in DOMAIN objs
      /\ \A a \in DOMAIN objs : \E m \in AnchorMakes(c) :
           m.attr = a /\ objs[a].cls = m.cls /\ objs[a].file = m.file
  BY AnchorsRun
<1>2. FeedFrom(c, port) \in DOMAIN objs
  <2>1. Wire(FeedFrom(c, port), FeedOut(c, port), "parser", port) \in edges
    BY <1>1 DEF AnchorWires, FeedWires
  <2> QED
    BY <1>1, <2>1 DEF Wire
<1>3. ~c.tofile => {"parser", "prf_est", "h_extract"} \subseteq DOMAIN objs
  <2>1. ASSUME ~c.tofile
        PROVE  /\ Wire("parser", port, "prf_est", port) \in edges
               /\ Wire("prf_est", port, "h_extract", port) \in edges
               /\ Wire("h_extract", port, "h_locate", port) \in edges
    BY <1>1, <2>1 DEF AnchorWires, StageWires
  <2>2. \A a, d : Wire(a, port, d, port).from = a
    BY DEF Wire
  <2> QED
    BY <1>1, <2>1, <2>2
<1>4. /\ Brought(feed[1], feed[2], recorder) = {port}
      /\ \A p \in inside : Brought(p[1], p[2], recorder) = {}
      /\ c.tofile => b = "parser"
  BY <1>1, <1>2, BroughtIs
<1>5. /\ Back({<<"parser", port>>}) = {feed} /\ Back({feed}) = {}
      /\ ~c.tofile => /\ Back({<<"prf_est", port>>}) = {<<"parser", port>>}
                      /\ Back({<<"h_extract", port>>}) = {<<"prf_est", port>>}
                      /\ Back({<<"h_locate", port>>}) = {<<"h_extract", port>>}
  BY <1>1, BackFrom
<1>6. Back({}) = {}
  BY DEF Back
<1>7. /\ B(1) = Back({<<b, port>>}) /\ B(2) = Back(B(1)) /\ B(3) = Back(B(2)) /\ B(4) = Back(B(3))
  BY BehindIs
<1>8. Origins(b, port, recorder) = UNION {Brought(p[1], p[2], recorder) :
        p \in B(1) \union B(2) \union B(3) \union B(4)}
  <2>1. 1 .. Hops = {1, 2, 3, 4}
    BY DEF Hops
  <2>2. UNION {B(n) : n \in 1 .. Hops} = B(1) \union B(2) \union B(3) \union B(4)
    <3> HIDE DEF B
    <3> QED
      BY <2>1
  <2> QED
    BY <2>2 DEF Origins
<1> HIDE DEF B, feed
<1>9. ASSUME B(1) \union B(2) \union B(3) \union B(4) \subseteq {feed} \union inside,
             feed \in B(1) \union B(2) \union B(3) \union B(4)
      PROVE  Origins(b, port, recorder) = {port}
  <2> HIDE DEF inside
  <2> DEFINE ports == B(1) \union B(2) \union B(3) \union B(4)
  <2>1. ports \subseteq {feed} \union inside /\ feed \in ports
    BY <1>9
  <2>2. Origins(b, port, recorder) = UNION {Brought(p[1], p[2], recorder) : p \in ports}
    BY <1>8
  <2> HIDE DEF ports
  <2> QED
    BY <1>4, <2>1, <2>2
<1>10. CASE b = "parser"
  <2>1. B(1) = {feed} /\ B(2) = {} /\ B(3) = {} /\ B(4) = {}
    BY <1>5, <1>6, <1>7, <1>10
  <2> QED
    BY <1>9, <2>1
<1>11. ASSUME b # "parser"
       PROVE  ~c.tofile
       /\ {<<"parser", port>>, <<"prf_est", port>>, <<"h_extract", port>>} \subseteq inside
  BY <1>3, <1>4, <1>11 DEF Stages
<1>12. CASE b = "prf_est"
  <2>1. B(1) = {<<"parser", port>>} /\ B(2) = {feed} /\ B(3) = {} /\ B(4) = {}
    BY <1>5, <1>6, <1>7, <1>11, <1>12
  <2> QED
    BY <1>9, <1>11, <1>12, <2>1
<1>13. CASE b = "h_extract"
  <2>1. B(1) = {<<"prf_est", port>>} /\ B(2) = {<<"parser", port>>} /\ B(3) = {feed} /\ B(4) = {}
    BY <1>5, <1>6, <1>7, <1>11, <1>13
  <2> QED
    BY <1>9, <1>11, <1>13, <2>1
<1>14. CASE b = "h_locate"
  <2>1. /\ B(1) = {<<"h_extract", port>>} /\ B(2) = {<<"prf_est", port>>}
        /\ B(3) = {<<"parser", port>>} /\ B(4) = {feed}
    BY <1>5, <1>7, <1>11, <1>14
  <2> QED
    BY <1>9, <1>11, <1>14, <2>1
<1> QED
  BY <1>10, <1>12, <1>13, <1>14 DEF Stages

LEMMA InvKeepsPorts ==
  ASSUME AppInv, AllRules PROVE AnchorKeepsItsPort
<1> SUFFICES ASSUME phase = "running", NEW recorder \in {"rt_harmonia", "bb_comb"},
                    NEW b \in Stages \intersect DOMAIN objs, NEW port \in 0 .. 3
             PROVE  Origins(b, port, recorder) = {port}
  BY DEF AnchorKeepsItsPort, Stages
<1>1. MadeInv(script, o) /\ WireInv(script, o) /\ Rules(script, o)
  BY DEF AppInv, ScriptInv, AllRules
<1>2. CASE script = "rt_harmonia"
  BY <1>1, <1>2, OriginsAre
<1>3. CASE script # "rt_harmonia"
  <2>1. Makes(script, o, b) = {}
    BY <1>1, <1>3 DEF Rules, StagesAnchor
  <2>2. \E m \in Makes(script, o, b) : TRUE
    BY <1>1 DEF MadeInv, Alive
  <2> QED
    BY <2>1, <2>2
<1> QED
  BY <1>2, <1>3

-----------------------------------------------------------------------------
(* All scripts, whatever their options *)

LEMMA RulesKept == AllRules
<1> SUFFICES ASSUME NEW s \in Scripts, NEW c \in OptionsOf(s) PROVE Rules(s, c)
  BY DEF AllRules
<1>1. c.decim \in Nat \ {0}
  BY DecimAssumption DEF OptionsOf, Options
<1>2. s \in {"demo", "fft", "bb_comb", "hs", "rt_harmonia", "tx", "cal_tx", "mrfm_fft"}
  BY ScriptAssumption
<1> QED
  BY <1>1, <1>2, BoardRules, DemoRules, FftRules, HarmoniaRules, MrfmRules, TxRules

LEMMA AppInvHolds ==
  AppInit /\ [][AppNext]_appVars => []AppInv
<1>1. AppInit => AppInv
  BY RulesKept, AppInitHolds
<1>2. AppInv /\ [AppNext]_appVars => AppInv'
  BY RulesKept, AppStepHolds
<1> QED
  BY <1>1, <1>2, PTL

(* Whatever setters are called, and whatever the second thread reads meanwhile,
   in any of the eight scripts and with any options: when nothing is under way
   and no setter has raised an exception, every widget, display and board has
   the value of the parameter that it was made or set from. *)
THEOREM SettingsAgreeHolds ==
  AppInit /\ [][AppNext]_appVars => []SettingsAgree
BY AppInvHolds, InvAgrees, PTL

(* Only the setters that fast_square_demo.py took over from another script stop
   half-way, in every run of every script. *)
THEOREM OnlyDemoSettersRaiseHolds ==
  AppInit /\ [][AppNext]_appVars => []OnlyDemoSettersRaise
BY AppInvHolds, InvRaises, PTL

(* In every run of every script, what comes to input i of a block that knows an
   anchor by its number comes from anchor i: from the boards, through the parser,
   the estimator and the extractor, and from the recordings that any of the scripts
   for two boards makes. *)
THEOREM AnchorKeepsItsPortHolds ==
  AppInit /\ [][AppNext]_appVars => []AnchorKeepsItsPort
<1>1. AppInv => AnchorKeepsItsPort
  BY RulesKept, InvKeepsPorts
<1> QED
  BY <1>1, AppInvHolds, PTL

-----------------------------------------------------------------------------
(* The receiver that fast_square_demo.py tunes, for any number of            *)
(* subcarriers, steps, words of calibration and rounds, and any resets.      *)
(* First its registers: the thread of the script is the only one that writes *)
(* them, in order, so that those below next are of its round and the others  *)
(* of the round before.                                                      *)

RegisterInv ==
  /\ round \in Nat \ {0} /\ next \in 0 .. 3
  /\ reg \in [Registers -> Nat]
  /\ \A r \in Registers : reg[r] = IF r < next THEN round ELSE round - 1
  /\ latched \in [Registers -> Nat]
  /\ RegistersOfAdjacentRounds

(* What Latch copies is such a picture of the registers. *)
LEMMA LatchKeepsRegisters == RegisterInv /\ Latch => RegisterInv'
<1> SUFFICES ASSUME RegisterInv, Latch PROVE RegisterInv'
  OBVIOUS
<1>1. latched' = reg
  BY DEF Latch
<1>2. UNCHANGED <<round, next, reg>>
  BY DEF Latch
<1>3. latched' \in [Registers -> Nat]
  BY <1>1 DEF RegisterInv
<1>4. RegistersOfAdjacentRounds'
  BY <1>1 DEF RegisterInv, RegistersOfAdjacentRounds, Registers
<1> QED
  BY <1>2, <1>3, <1>4 DEF RegisterInv

LEMMA RegisterInvInductive == RegisterInv /\ [ReceiverNext]_receiverVars => RegisterInv'
<1> SUFFICES ASSUME RegisterInv, [ReceiverNext]_receiverVars PROVE RegisterInv'
  OBVIOUS
<1>1. CASE Track
  <2>1. /\ next \in Registers /\ next' = next + 1 /\ round' = round
        /\ reg' = [reg EXCEPT ![next] = round] /\ latched' = latched
    BY <1>1 DEF Track, fsrVars
  <2>2. next' \in 0 .. 3
    BY <2>1 DEF Registers
  <2>3. reg' \in [Registers -> Nat]
    BY <2>1 DEF RegisterInv
  <2>4. \A r \in Registers : reg'[r] = IF r < next' THEN round' ELSE round' - 1
    BY <2>1 DEF RegisterInv, Registers
  <2> QED
    BY <2>1, <2>2, <2>3, <2>4 DEF RegisterInv, RegistersOfAdjacentRounds
<1>2. CASE Wake
  <2>1. /\ next = 3 /\ next' = 0 /\ round' = round + 1
        /\ reg' = reg /\ latched' = latched
    BY <1>2 DEF Wake, Asleep, fsrVars
  <2>2. \A r \in Registers : reg'[r] = IF r < next' THEN round' ELSE round' - 1
    BY <2>1 DEF RegisterInv, Registers
  <2> QED
    BY <2>1, <2>2 DEF RegisterInv, RegistersOfAdjacentRounds
<1>3. CASE SweepStarts \/ ResetPin
  BY <1>3, LatchKeepsRegisters DEF SweepStarts, ResetPin
<1>4. CASE FreqStep \/ Strobe
  BY <1>4 DEF FreqStep, Strobe, RegisterInv, RegistersOfAdjacentRounds
<1>5. CASE UNCHANGED receiverVars
  BY <1>5 DEF receiverVars, fsrVars, RegisterInv, RegistersOfAdjacentRounds
<1> QED
  BY <1>1, <1>2, <1>3, <1>4, <1>5 DEF ReceiverNext

(* fast_square_rx.v takes over registers of one round of the thread or of two
   that follow one another, whenever it is reset. *)
THEOREM RegistersHold == ReceiverSpec => []RegistersOfAdjacentRounds
<1>1. ReceiverInit => RegisterInv
  BY DEF ReceiverInit, RegisterInv, RegistersOfAdjacentRounds, Registers
<1>2. RegisterInv => RegistersOfAdjacentRounds
  BY DEF RegisterInv
<1> QED
  BY <1>1, <1>2, RegisterInvInductive, PTL DEF ReceiverSpec

-----------------------------------------------------------------------------
(* The stitcher.  Each sweep starts with words that end the one before and,   *)
(* after them, with words it waits for the end of.                            *)

FlagsOK == restart_data \in BOOLEAN /\ new_data \in BOOLEAN /\ spoilt \in BOOLEAN
StitchTypeOK ==
  /\ steps \in 0 .. NumSteps /\ new_data_ctr \in 0 .. StepWords
  /\ filler \in Nat /\ sent \in Nat /\ subfreq_idx \in Nat

\* Where the FPGA is in its sweep: before the first step, in the words of a
\* step, or in the gap after them.
SweepInv ==
  /\ restart_data => steps = 0
  /\ ~restart_data => steps > 0
  /\ new_data => ~restart_data /\ filler = 0
  /\ ~new_data => restart_data \/ filler > 0
  /\ sent = (IF new_data THEN (steps - 1) * StepWords + new_data_ctr ELSE steps * StepWords)

\* Where the stitcher is while the sweep has not begun: the first word ends the
\* sweep before, the second makes it wait for the next.
BeforeSweep ==
  \/ state \in {"RESET", "ended"}
  \/ state = "RCV" /\ subfreq_idx >= NumFreqs /\ filler = 0
  \/ state = "DONE" /\ filler = 1
\* And in the sweep: it has taken every word of data, and others.
InSweep ==
  \/ state = "ended"
  \/ state = "RESET" /\ sent = 0
  \/ /\ state = "RCV" /\ subfreq_idx >= sent
     /\ steps = 1 /\ new_data => subfreq_idx = sent
PlaceInv ==
  ~spoilt => /\ restart_data => BeforeSweep
             /\ ~restart_data => InSweep

StitchInv == FlagsOK /\ StitchTypeOK /\ SweepInv /\ PlaceInv

LEMMA Parameters ==
  /\ StepWords \in Nat /\ StepWords > 0
  /\ NumFreqs \in Nat /\ NumFreqs > 0
  /\ NumSteps \in Nat /\ NumSteps > 0
  /\ NumSteps * StepWords >= NumFreqs
BY ReceiverAssumption DEF StepWords

LEMMA Product == \A n, w \in Nat : n * w \in Nat /\ (n > 0 => n * w >= w)
<1> SUFFICES ASSUME NEW n \in Nat, NEW w \in Nat
             PROVE  n * w \in Nat /\ (n > 0 => n * w >= w)
  OBVIOUS
<1>1. n * w \in Nat
  OBVIOUS
<1>2. n > 0 => n * w = (n - 1) * w + w
  OBVIOUS
<1>3. n > 0 => (n - 1) * w \in Nat
  OBVIOUS
<1> QED
  BY <1>1, <1>2, <1>3

LEMMA InitStitchInv == ReceiverInit => StitchInv
<1> SUFFICES ASSUME ReceiverInit PROVE StitchInv
  OBVIOUS
<1>1. FlagsOK
  BY Zenon DEF ReceiverInit, FlagsOK
<1>2. /\ restart_data = TRUE /\ new_data = FALSE /\ new_data_ctr = 0 /\ steps = 0
      /\ filler = 0 /\ state = "RESET" /\ subfreq_idx = 0 /\ sent = 0
  BY Zenon DEF ReceiverInit
<1>3. StitchTypeOK /\ SweepInv
  BY <1>2, Parameters DEF StitchTypeOK, SweepInv
<1>4. PlaceInv
  BY <1>2 DEF PlaceInv, BeforeSweep
<1> QED
  BY <1>1, <1>3, <1>4 DEF StitchInv

LEMMA Dispatching ==
  FlagsOK /\ Dispatch =>
    /\ new_data /\ new_data_ctr # StepWords => new_data' = TRUE /\ new_data_ctr' = new_data_ctr + 1
    /\ new_data /\ new_data_ctr = StepWords => new_data' = FALSE /\ new_data_ctr' = 0
    /\ ~new_data => new_data' = FALSE /\ new_data_ctr' = new_data_ctr
BY Zenon DEF FlagsOK, Dispatch

LEMMA IndexStays == ASSUME subfreq_idx \in Nat, NEW word, Stitch(word)
                    PROVE  subfreq_idx' \in Nat
BY DEF Stitch, Receive, stitcherVars

LEMMA SentByNow ==
  ASSUME StitchInv
  PROVE  /\ restart_data => sent = 0
         /\ ~restart_data /\ ~new_data => sent = steps * StepWords /\ sent > 0
<1>1. steps \in Nat /\ steps * StepWords \in Nat
  BY Parameters, Product DEF StitchInv, StitchTypeOK
<1>2. restart_data => sent = 0
  BY Parameters DEF StitchInv, SweepInv
<1>3. ASSUME ~restart_data, ~new_data PROVE sent = steps * StepWords /\ sent > 0
  BY <1>1, <1>3, Product, Parameters DEF StitchInv, SweepInv
<1> QED
  BY <1>2, <1>3

(* A sweep that is complete has sent as many words as the calibration has, and
   the stitcher has taken them all. *)
LEMMA TakenAtEnd ==
  ASSUME StitchInv, steps = NumSteps, Spaced, ~spoilt
  PROVE  state = "ended" \/ (state = "RCV" /\ subfreq_idx >= NumFreqs)
<1>1. ~restart_data /\ ~new_data
  BY Parameters DEF StitchInv, SweepInv, Spaced
<1>2. sent >= NumFreqs /\ sent > 0
  BY <1>1, SentByNow, Parameters
<1>3. InSweep
  BY <1>1 DEF StitchInv, PlaceInv
<1> QED
  BY <1>2, <1>3, Parameters DEF InSweep, StitchInv, StitchTypeOK

LEMMA LatchKeepsStitch ==
  ASSUME StitchInv, Latch, spoilt' \in BOOLEAN,
         ~spoilt' => state = "ended" \/ (state = "RCV" /\ subfreq_idx >= NumFreqs)
  PROVE  StitchInv'
<1>1. /\ restart_data' = TRUE /\ new_data' = FALSE /\ new_data_ctr' = 0
      /\ steps' = 0 /\ filler' = 0 /\ sent' = 0
      /\ state' = state /\ subfreq_idx' = subfreq_idx
  BY DEF Latch, stitcherVars
<1>2. FlagsOK'
  BY <1>1, Zenon DEF FlagsOK
<1>3. StitchTypeOK' /\ SweepInv'
  BY <1>1, Parameters DEF StitchInv, StitchTypeOK, SweepInv
<1>4. PlaceInv'
  BY <1>1 DEF PlaceInv, BeforeSweep
<1> QED
  BY <1>2, <1>3, <1>4 DEF StitchInv

(* When the first step is over, the stitcher waits for its words. *)
LEMMA StepKeepsStitch == StitchInv /\ FreqStep => StitchInv'
<1> SUFFICES ASSUME StitchInv, FreqStep PROVE StitchInv'
  OBVIOUS
<1>1. /\ steps < NumSteps /\ filler >= 2
      /\ restart_data' = FALSE /\ new_data' = TRUE /\ new_data_ctr' = 0
      /\ steps' = steps + 1 /\ filler' = 0
      /\ state' = state /\ subfreq_idx' = subfreq_idx /\ sent' = sent /\ spoilt' = spoilt
  BY DEF FreqStep, Spaced, stitcherVars
<1>2. FlagsOK'
  BY <1>1, Zenon DEF StitchInv, FlagsOK
<1>3. StitchTypeOK'
  BY <1>1, Parameters DEF StitchInv, StitchTypeOK
<1>4. sent = steps * StepWords /\ ~new_data
  BY <1>1 DEF StitchInv, StitchTypeOK, SweepInv
<1>5. steps' - 1 = steps
  BY <1>1 DEF StitchInv, StitchTypeOK
<1>6. sent' = (steps' - 1) * StepWords + new_data_ctr'
  BY <1>1, <1>4, <1>5 DEF StitchInv, StitchTypeOK
<1>7. SweepInv'
  BY <1>1, <1>6 DEF StitchInv, StitchTypeOK, SweepInv
<1>8. ASSUME ~spoilt PROVE InSweep'
  <2>1. CASE restart_data
    <3>1. state \in {"RESET", "ended"} /\ sent = 0
      BY <1>1, <1>8, <2>1, SentByNow DEF StitchInv, PlaceInv, BeforeSweep
    <3> QED
      BY <1>1, <3>1 DEF InSweep
  <2>2. CASE ~restart_data
    <3>1. steps > 0 /\ steps' # 1
      BY <1>1, <2>2 DEF StitchInv, SweepInv, StitchTypeOK
    <3>2. InSweep
      BY <1>8, <2>2 DEF StitchInv, PlaceInv
    <3> QED
      BY <1>1, <3>1, <3>2 DEF InSweep
  <2> QED
    BY <2>1, <2>2
<1>9. PlaceInv'
  BY <1>1, <1>8 DEF PlaceInv
<1> QED
  BY <1>2, <1>3, <1>7, <1>9 DEF StitchInv

(* A word of data is one of a step; the stitcher takes it unless it looks like
   filler. *)
LEMMA DataKeepsStitch == StitchInv /\ Strobe /\ SendData => StitchInv'
<1> SUFFICES ASSUME StitchInv, Strobe, SendData PROVE StitchInv'
  OBVIOUS
<1>1. ~restart_data /\ new_data /\ filler = 0 /\ new_data_ctr < StepWords
  BY DEF SendData, SendsData, StitchInv, SweepInv
<1>2. /\ new_data' = TRUE /\ new_data_ctr' = new_data_ctr + 1
  BY <1>1, Dispatching DEF Strobe, StitchInv, StitchTypeOK
<1>3. /\ sent' = sent + 1 /\ filler' = filler
      /\ restart_data' = restart_data /\ steps' = steps
  BY DEF Strobe, SendData
<1>4. PICK word \in Data : Stitch(word) /\ spoilt' = (spoilt \/ IsFiller(word))
  BY DEF SendData
<1>5. FlagsOK'
  <2>1. spoilt' \in BOOLEAN
    BY <1>4
  <2> QED
    BY <1>2, <1>3, <2>1, Zenon DEF StitchInv, FlagsOK
<1>6. StitchTypeOK'
  BY <1>1, <1>2, <1>3, <1>4, IndexStays, Parameters DEF StitchInv, StitchTypeOK
<1>7. SweepInv'
  <2>1. (steps - 1) * StepWords \in Int
    BY Parameters DEF StitchInv, StitchTypeOK
  <2>2. sent' = (steps' - 1) * StepWords + new_data_ctr'
    BY <1>1, <1>2, <1>3, <2>1 DEF StitchInv, StitchTypeOK, SweepInv
  <2> QED
    BY <1>1, <1>2, <1>3, <2>2 DEF StitchInv, SweepInv
<1>8. ASSUME ~spoilt' PROVE InSweep'
  <2>1. ~IsFiller(word) /\ ~IsRestart(word) /\ ~spoilt
    BY <1>4, <1>8 DEF IsFiller, IsRestart
  <2>2. InSweep
    BY <1>1, <2>1 DEF StitchInv, PlaceInv
  <2>3. \/ state = "ended" /\ state' = "ended"
        \/ state = "RESET" /\ sent = 0 /\ state' = "RCV" /\ subfreq_idx' = 1
        \/ state = "RCV" /\ state' = "RCV" /\ subfreq_idx' = subfreq_idx + 1
        \/ state' = "ended"
    BY <1>4, <2>1, <2>2 DEF InSweep, Stitch, Receive, stitcherVars
  <2> QED
    BY <1>1, <1>3, <2>2, <2>3 DEF InSweep, StitchInv, StitchTypeOK
<1>9. PlaceInv'
  BY <1>1, <1>3, <1>8 DEF PlaceInv
<1> QED
  BY <1>5, <1>6, <1>7, <1>9 DEF StitchInv

(* What filler does to the FPGA's side. *)
LEMMA Filling ==
  ASSUME StitchInv, Strobe, SendFiller
  PROVE  /\ restart_data' = restart_data /\ steps' = steps
         /\ sent' = sent /\ spoilt' = spoilt /\ filler' = filler + 1
         /\ new_data' = FALSE /\ Stitch(Filler)
         /\ FlagsOK' /\ StitchTypeOK' /\ SweepInv'
<1>1. ~restart_data /\ new_data => new_data_ctr = StepWords
  BY Parameters DEF SendFiller, SendsData, StitchInv, StitchTypeOK
<1>2. new_data => ~restart_data
  BY DEF StitchInv, SweepInv
<1>3. new_data' = FALSE /\ new_data_ctr' \in 0 .. StepWords
  BY <1>1, <1>2, Dispatching, Parameters DEF Strobe, StitchInv, StitchTypeOK
<1>4. /\ restart_data' = restart_data /\ steps' = steps
      /\ sent' = sent /\ spoilt' = spoilt /\ filler' = filler + 1 /\ Stitch(Filler)
  BY DEF Strobe, SendFiller
<1>5. FlagsOK'
  BY <1>3, <1>4, Zenon DEF StitchInv, FlagsOK
<1>6. StitchTypeOK'
  BY <1>3, <1>4, IndexStays DEF StitchInv, StitchTypeOK
<1>7. sent = steps * StepWords
  <2>1. steps * StepWords = (steps - 1) * StepWords + StepWords
    BY Parameters DEF StitchInv, StitchTypeOK
  <2> QED
    BY <1>1, <1>2, <2>1, Parameters DEF StitchInv, SweepInv
<1>8. SweepInv'
  BY <1>3, <1>4, <1>7 DEF StitchInv, StitchTypeOK, SweepInv
<1> QED
  BY <1>3, <1>4, <1>5, <1>6, <1>8

(* The words before the first step end the sweep before. *)
LEMMA RestartKeepsStitch == StitchInv /\ Strobe /\ SendFiller /\ restart_data => StitchInv'
<1> SUFFICES ASSUME StitchInv, Strobe, SendFiller, restart_data PROVE StitchInv'
  OBVIOUS
<1>1. ASSUME ~spoilt' PROVE BeforeSweep'
  <2>1. BeforeSweep /\ filler \in Nat /\ filler' = filler + 1
    BY <1>1, Filling DEF StitchInv, PlaceInv, StitchTypeOK
  <2>2. IsRestart(Filler) /\ IsFiller(Filler)
    BY DEF Filler, IsRestart, IsFiller
  <2>3. Stitch(Filler)
    BY Filling
  <2>4. \/ state \in {"RESET", "ended"} /\ state' = state
        \/ state = "RCV" /\ subfreq_idx >= NumFreqs /\ filler = 0 /\ state' = "DONE"
        \/ state = "DONE" /\ filler = 1 /\ state' = "RESET"
    BY <2>1, <2>2, <2>3 DEF BeforeSweep, Stitch, Receive, stitcherVars
  <2> QED
    BY <2>1, <2>4 DEF BeforeSweep
<1>2. PlaceInv'
  BY <1>1, Filling DEF PlaceInv
<1> QED
  BY <1>2, Filling DEF StitchInv

(* The stitcher takes the words of a gap for data, too. *)
LEMMA GapKeepsStitch == StitchInv /\ Strobe /\ SendFiller /\ ~restart_data => StitchInv'
<1> SUFFICES ASSUME StitchInv, Strobe, SendFiller, ~restart_data PROVE StitchInv'
  OBVIOUS
<1>1. ASSUME ~spoilt' PROVE InSweep'
  <2>1. InSweep /\ sent' = sent /\ ~new_data'
    BY <1>1, Filling DEF StitchInv, PlaceInv
  <2>2. ~IsRestart(Filler) /\ ~IsFiller(Filler)
    BY DEF Filler, IsRestart, IsFiller
  <2>3. Stitch(Filler)
    BY Filling
  <2>4. sent' > 0
    BY Filling, Product, Parameters DEF SweepInv, StitchTypeOK
  <2>5. \/ state' = "ended"
        \/ state = "RCV" /\ state' = "RCV" /\ subfreq_idx' = subfreq_idx + 1
    BY <2>1, <2>2, <2>3, <2>4 DEF InSweep, Stitch, Receive, stitcherVars
  <2> QED
    BY <2>1, <2>5 DEF InSweep, StitchInv, StitchTypeOK
<1>2. PlaceInv'
  BY <1>1, Filling DEF PlaceInv
<1> QED
  BY <1>2, Filling DEF StitchInv

LEMMA StitchInvInductive == StitchInv /\ [ReceiverNext]_receiverVars => StitchInv'
<1> SUFFICES ASSUME StitchInv, [ReceiverNext]_receiverVars PROVE StitchInv'
  OBVIOUS
<1>1. CASE Track \/ Wake \/ UNCHANGED receiverVars
  <2>1. UNCHANGED <<fsrVars, stitcherVars, sent, spoilt>>
    BY <1>1 DEF Track, Wake, receiverVars
  <2> QED
    BY <2>1 DEF fsrVars, stitcherVars, StitchInv, FlagsOK, StitchTypeOK, SweepInv, PlaceInv,
                BeforeSweep, InSweep
<1>2. CASE SweepStarts
  BY <1>2, TakenAtEnd, LatchKeepsStitch DEF SweepStarts, StitchInv, FlagsOK
<1>3. CASE ResetPin
  BY <1>3, LatchKeepsStitch DEF ResetPin
<1>4. CASE FreqStep
  BY <1>4, StepKeepsStitch
<1>5. CASE Strobe
  BY <1>5, DataKeepsStitch, RestartKeepsStitch, GapKeepsStitch DEF Strobe
<1> QED
  BY <1>1, <1>2, <1>3, <1>4, <1>5 DEF ReceiverNext

(* freq_stitcher takes the words of the first step of every sweep for the first
   of the calibration, in their order, although it counts the words of the gaps
   too and goes past the end of the calibration with them; unless a sweep was
   cut short, or a sum looked like filler. *)
THEOREM StitchedHolds == ReceiverSpec => []StitchedInPlace
<1>1. StitchInv => StitchedInPlace
  <2> SUFFICES ASSUME StitchInv, state = "RCV", steps = 1, new_data, ~spoilt
               PROVE  subfreq_idx = sent
    BY DEF StitchedInPlace
  <2>1. InSweep
    BY DEF StitchInv, SweepInv, PlaceInv
  <2> QED
    BY <2>1 DEF InSweep
<1> QED
  BY <1>1, InitStitchInv, StitchInvInductive, PTL DEF ReceiverSpec

=============================================================================
