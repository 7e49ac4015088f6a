---------------------------- MODULE NumberLemmas ----------------------------
(***************************************************************************)
(* Facts about numbers that the proofs of several components rest on:      *)
(* induction, and remainders.                                              *)
(***************************************************************************)
EXTENDS Integers, FiniteSetTheorems, TLAPS

-----------------------------------------------------------------------------
(* Induction, for a set of numbers: an inductive set that lacked n would    *)
(* lack all numbers below it, and k - 1 for each k that it lacks would      *)
(* bring those it lacks up to n into one place less.                        *)

LEMMA SetInduction ==
  ASSUME NEW S, 0 \in S, \A n \in Nat : n \in S => n + 1 \in S
  PROVE  \A n \in Nat : n \in S
<1> SUFFICES ASSUME NEW n \in Nat, n \notin S PROVE FALSE
  OBVIOUS
<1> DEFINE T == {k \in 0 .. n : k \notin S}
           U == T \ {n}
           pred == [k \in T |-> k - 1]
<1>1. IsFiniteSet(T) /\ IsFiniteSet(U) /\ Cardinality(U) < Cardinality(T)
  <2>1. IsFiniteSet(0 .. n)
    BY FS_Interval, 0 \in Int
  <2>2. T \in SUBSET (0 .. n) /\ n \in T
    OBVIOUS
  <2> HIDE DEF T
  <2>3. IsFiniteSet(T)
    BY <2>1, <2>2, FS_Subset
  <2>4. IsFiniteSet(U) /\ Cardinality(U) = Cardinality(T) - 1
    BY <2>2, <2>3, FS_RemoveElement
  <2>5. Cardinality(T) \in Nat
    BY <2>3, FS_CardinalityType
  <2> QED
    BY <2>3, <2>4, <2>5
<1>2. \A k \in T : k \in Int /\ k - 1 \in U
  OBVIOUS
<1>3. pred \in [T -> U]
  BY <1>2
<1>4. PICK k, l \in T : k # l /\ pred[k] = pred[l]
  <2> HIDE DEF T, U, pred
  <2> QED
    BY <1>1, <1>3, FS_PigeonHole
<1> QED
  BY <1>2, <1>4

-----------------------------------------------------------------------------
(* Remainders *)

LEMMA DivMod ==
  ASSUME NEW c \in Nat \ {0}, NEW n \in Int
  PROVE  n % c \in 0 .. c - 1 /\ n \div c \in Int /\ n = c * (n \div c) + (n % c)
BY SMT

LEMMA OneRemainder ==
  ASSUME NEW c \in Nat \ {0}, NEW q \in Int, NEW r \in 0 .. c - 1,
         NEW p \in Int, NEW s \in 0 .. c - 1, c * q + r = c * p + s
  PROVE  r = s
BY SMT

LEMMA ModIs ==
  ASSUME NEW c \in Nat \ {0}, NEW q \in Int, NEW r \in 0 .. c - 1
  PROVE  (c * q + r) % c = r
<1> DEFINE n == c * q + r
<1>1. n \in Int
  OBVIOUS
<1>2. n % c \in 0 .. c - 1 /\ n \div c \in Int /\ n = c * (n \div c) + (n % c)
  BY <1>1, DivMod
<1> QED
  BY <1>2, OneRemainder

LEMMA ModPlus ==
  ASSUME NEW c \in Nat \ {0}, NEW m \in Int, NEW n \in Int
  PROVE  ((m % c) + n) % c = (m + n) % c
<1> DEFINE u == (m % c) + n
           a == m \div c
           b == u \div c
           r == u % c
<1>1. m = c * a + (m % c) /\ a \in Int /\ m % c \in Int
  BY DivMod
<1>2. u = c * b + r /\ b \in Int /\ r \in 0 .. c - 1
  <2>1. u \in Int
    BY <1>1
  <2> HIDE DEF u
  <2> QED
    BY <2>1, DivMod
<1>3. m + n = c * (a + b) + r
  <2>1. c * (a + b) = c * a + c * b
    BY <1>1, <1>2
  <2> QED
    BY <1>1, <1>2, <2>1
<1> QED
  BY <1>1, <1>2, <1>3, ModIs, a + b \in Int

LEMMA ModOfSmall ==
  ASSUME NEW c \in Nat \ {0}, NEW n \in 0 .. c - 1
  PROVE  n % c = n
BY SMT

LEMMA ModTurn ==
  ASSUME NEW c \in Nat \ {0}, NEW n \in Int, NEW q \in Int
  PROVE  (n + c * q) % c = n % c
<1>1. n = c * (n \div c) + (n % c) /\ n \div c \in Int /\ n % c \in 0 .. c - 1
  BY DivMod
<1>2. n + c * q = c * ((n \div c) + q) + (n % c)
  <2> DEFINE d == n \div c
             r == n % c
  <2>1. c * (d + q) = c * d + c * q
    BY <1>1
  <2> HIDE DEF d, r
  <2>2. n = c * d + r /\ d \in Int /\ r \in Int
    BY <1>1 DEF d, r
  <2> QED
    BY <2>1, <2>2 DEF d, r
<1> QED
  BY <1>1, <1>2, ModIs, (n \div c) + q \in Int

LEMMA DivIs ==
  ASSUME NEW c \in Nat \ {0}, NEW q \in Int, NEW r \in 0 .. c - 1
  PROVE  (c * q + r) \div c = q
<1> DEFINE n == c * q + r
           p == n \div c
<1>1. n \in Int
  OBVIOUS
<1>2. n % c = r /\ p \in Int /\ n = c * p + (n % c)
  BY <1>1, DivMod, ModIs
<1>3. c * q = c * p
  BY <1>2
<1> HIDE DEF p
<1>4. c * (q - p) = 0
  BY <1>2, <1>3
<1>5. q - p = 0
  BY <1>2, <1>4, q - p \in Int
<1> QED
  BY <1>2, <1>5 DEF p

LEMMA DivPlus ==
  ASSUME NEW c \in Nat \ {0}, NEW m \in Int, NEW n \in Int
  PROVE  (m + n) \div c = (m \div c) + (((m % c) + n) \div c)
<1> DEFINE u == (m % c) + n
           a == m \div c
           b == u \div c
           r == u % c
<1>1. m = c * a + (m % c) /\ a \in Int /\ m % c \in Int
  BY DivMod
<1>2. u = c * b + r /\ b \in Int /\ r \in 0 .. c - 1
  <2>1. u \in Int
    BY <1>1
  <2> HIDE DEF u
  <2> QED
    BY <2>1, DivMod
<1>3. m + n = c * (a + b) + r
  <2>1. c * (a + b) = c * a + c * b
    BY <1>1, <1>2
  <2> QED
    BY <1>1, <1>2, <2>1
<1> QED
  BY <1>1, <1>2, <1>3, DivIs, a + b \in Int

LEMMA TimesLess ==
  ASSUME NEW c \in Nat \ {0}, NEW p \in Int, NEW q \in Int, c * p < c * q
  PROVE  p < q
BY SMT

=============================================================================
