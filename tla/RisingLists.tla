----------------------------- MODULE RisingLists -----------------------------
(***************************************************************************)
(* Induction over numbers, and the lists that proofs about streams and     *)
(* pages speak of: some numbers, in their order.                           *)
(***************************************************************************)
EXTENDS Integers, FiniteSets, FiniteSetTheorems, TLAPS

-------------------------------------------------------------------------------
(* Induction, with a set for the predicate.                                *)

\* The least number principle and induction, with a set for the predicate.
LEMMA Least ==
    ASSUME NEW T, T \subseteq Nat, T # {}
    PROVE  \E m \in T : \A n \in T : m <= n
<1>. PICK t \in T : TRUE
  OBVIOUS
<1>. PICK R, A : /\ R = StrictSubsetOrdering(0 .. t)
                 /\ A = {B \in SUBSET (0 .. t) : \E m \in T : m <= t /\ B = 0 .. m}
  OBVIOUS
<1>1. IsFiniteSet(0 .. t)
  BY FS_Interval
<1>2. IsWellFoundedOn(R, FiniteSubsetsOf(0 .. t))
  BY <1>1, FS_StrictSubsetOrderingWellFounded
<1>3. A \subseteq FiniteSubsetsOf(0 .. t)
  <2>1. \A B \in A : IsFiniteSet(B)
    BY <1>1, FS_Subset
  <2>. QED  BY <2>1 DEF FiniteSubsetsOf
<1>4. 0 .. t \in A
  OBVIOUS
<1>5. PICK B \in A : \A C \in A : <<C, B>> \notin R
  BY <1>2, <1>3, <1>4, WFMin
<1>6. PICK m \in T : m <= t /\ B = 0 .. m
  OBVIOUS
<1>7. ASSUME NEW n \in T, n < m PROVE FALSE
  <2>1. 0 .. n \in A
    BY <1>6, <1>7
  <2>2. m \in B /\ m \notin 0 .. n /\ 0 .. n \subseteq B
    BY <1>6, <1>7
  <2>3. <<0 .. n, B>> \in R
    BY <2>1, <2>2 DEF StrictSubsetOrdering
  <2>. QED  BY <1>5, <2>1, <2>3
<1>. QED  BY <1>6, <1>7

LEMMA Induct ==
    ASSUME NEW S, 0 \in S, \A n \in Nat : n \in S => n + 1 \in S
    PROVE  Nat \subseteq S
<1>. PICK T : T = {n \in Nat : n \notin S}
  OBVIOUS
<1>1. SUFFICES ASSUME T # {} PROVE FALSE
  OBVIOUS
<1>2. PICK m \in T : \A n \in T : m <= n
  BY <1>1, Least
<1>3. m # 0
  OBVIOUS
<1>4. m - 1 \in Nat /\ m - 1 + 1 = m /\ ~ (m <= m - 1)
  BY <1>3
<1>5. m - 1 \in S
  BY <1>2, <1>4
<1>. QED  BY <1>4, <1>5

-------------------------------------------------------------------------------
(* Places in a list, in their order.                                       *)

\* Numbers of at most n are finitely many.
LEMMA FinitePlaces ==
    ASSUME NEW n \in Nat, NEW P \in SUBSET (1 .. n)
    PROVE  IsFiniteSet(P) /\ Cardinality(P) \in Nat
<1>1. IsFiniteSet(1 .. n)
  <2>1. 1 \in Int /\ n \in Int
    OBVIOUS
  <2>. QED  BY <2>1, FS_Interval
<1>2. IsFiniteSet(P)
  BY <1>1, FS_Subset
<1>3. Cardinality(P) \in Nat
  BY <1>2, FS_CardinalityType
<1>. QED  BY <1>2, <1>3

Up(g) == \A i, j \in DOMAIN g : i < j => g[i] < g[j]

LEMMA OneMore ==
    ASSUME NEW c \in Nat
    PROVE  /\ \A i \in 1 .. c + 1 : i \in 1 .. c \/ i = c + 1
           /\ \A i \in 1 .. c : i \in 1 .. c + 1 /\ i < c + 1 /\ i # c + 1
           /\ c + 1 \in 1 .. c + 1
OBVIOUS

\* Places can be put in order ...
LEMMA Orderable ==
    ASSUME NEW n \in Nat, NEW P \in SUBSET (1 .. n)
    PROVE  \E g \in [1 .. Cardinality(P) -> P] : Up(g)
<1> DEFINE S == {k \in Nat : \A Q \in SUBSET (1 .. k) :
                                 \E g \in [1 .. Cardinality(Q) -> Q] : Up(g)}
<1>1. 0 \in S
  <2>1. SUFFICES ASSUME NEW Q \in SUBSET (1 .. 0)
                 PROVE  \E g \in [1 .. Cardinality(Q) -> Q] : Up(g)
    OBVIOUS
  <2>2. Q = {} /\ Cardinality({}) = 0
    BY FS_EmptySet
  <2>3. [i \in 1 .. 0 |-> 0] \in [1 .. Cardinality(Q) -> Q] /\ Up([i \in 1 .. 0 |-> 0])
    BY <2>2 DEF Up
  <2>. QED  BY <2>3
<1>2. ASSUME NEW k \in Nat, k \in S PROVE k + 1 \in S
  <2>1. SUFFICES ASSUME NEW Q \in SUBSET (1 .. k + 1)
                 PROVE  \E g \in [1 .. Cardinality(Q) -> Q] : Up(g)
    OBVIOUS
  <2>2. CASE k + 1 \notin Q
    <3>1. Q \in SUBSET (1 .. k)
      BY <2>2
    <3>. QED  BY <1>2, <3>1
  <2>3. CASE k + 1 \in Q
    <3>. PICK R : R = Q \ {k + 1}
      OBVIOUS
    <3>1. R \in SUBSET (1 .. k)
      OBVIOUS
    <3>. PICK c : c = Cardinality(R)
      OBVIOUS
    <3>2. PICK g \in [1 .. c -> R] : Up(g)
      BY <1>2, <3>1
    <3>3. IsFiniteSet(R) /\ c \in Nat
      BY <3>1, FinitePlaces
    <3>4. Cardinality(Q) = c + 1
      <4>1. Q = R \cup {k + 1} /\ k + 1 \notin R
        BY <2>3
      <4>. QED  BY <3>3, <4>1, FS_AddElement
    <3>7. /\ \A i \in 1 .. c + 1 : i \in 1 .. c \/ i = c + 1
          /\ \A i \in 1 .. c : i \in 1 .. c + 1 /\ i < c + 1 /\ i # c + 1
          /\ c + 1 \in 1 .. c + 1
      BY <3>3, OneMore
    <3>10. \A i \in 1 .. c : g[i] \in R /\ g[i] \in Q /\ g[i] < k + 1
      <4>1. \A p \in R : p \in Q /\ p < k + 1
        BY <3>1
      <4>. QED  BY <4>1
    <3>11. PICK h : h = [i \in 1 .. c + 1 |-> IF i = c + 1 THEN k + 1 ELSE g[i]]
      OBVIOUS
    <3>5. \A i \in 1 .. c : h[i] = g[i] /\ h[i] \in Q /\ h[i] < k + 1
      BY <3>7, <3>10, <3>11
    <3>6. h[c + 1] = k + 1
      BY <3>7, <3>11
    <3>8. h \in [1 .. c + 1 -> Q]
      BY <2>3, <3>5, <3>6, <3>7, <3>11
    <3>9. Up(h)
      <4>1. SUFFICES ASSUME NEW i \in 1 .. c + 1, NEW j \in 1 .. c + 1, i < j
                     PROVE  h[i] < h[j]
        BY <3>11 DEF Up
      <4>2. i \in 1 .. c
        BY <3>3, <4>1
      <4>3. CASE j = c + 1
        BY <3>5, <3>6, <4>2, <4>3
      <4>4. CASE j \in 1 .. c
        BY <3>2, <3>5, <4>1, <4>2, <4>4 DEF Up
      <4>. QED  BY <3>7, <4>3, <4>4
    <3>. QED  BY <3>4, <3>8, <3>9
  <2>. QED  BY <2>2, <2>3
<1>3. n \in S
  <2>. HIDE DEF S
  <2>. QED  BY <1>1, <1>2, Induct
<1>. QED  BY <1>3

\* ... and a list of that length that rises has each of them.
LEMMA RisingIsOnto ==
    ASSUME NEW n \in Nat, NEW P \in SUBSET (1 .. n),
           NEW g \in [1 .. Cardinality(P) -> P], Up(g)
    PROVE  \A p \in P : \E i \in 1 .. Cardinality(P) : g[i] = p
<1>. PICK c, Q : c = Cardinality(P) /\ Q = {g[i] : i \in 1 .. c}
  OBVIOUS
<1>1. IsFiniteSet(P) /\ c \in Nat
  BY FinitePlaces
<1>2. Q \subseteq P
  OBVIOUS
<1>3. IsFiniteSet(1 .. c) /\ Cardinality(1 .. c) = c
  BY <1>1, FS_Interval
<1>4. g \in Bijection(1 .. c, Q)
  <2>1. \A i, j \in 1 .. c : g[i] = g[j] => i = j
    <3>1. \A i, j \in 1 .. c : i = j \/ i < j \/ j < i
      BY <1>1
    <3>2. \A i \in 1 .. c : g[i] \in Nat
      <4>1. \A p \in P : p \in Nat
        OBVIOUS
      <4>. QED  BY <4>1
    <3>3. \A i, j \in 1 .. c : i < j => g[i] < g[j]
      BY DEF Up
    <3>. QED  BY <3>1, <3>2, <3>3
  <2>. QED  BY <2>1 DEF Bijection, Injection, Surjection, IsInjective
<1>5. Cardinality(Q) = c
  BY <1>3, <1>4, FS_Bijection DEF ExistsBijection
<1>6. Q = P
  BY <1>1, <1>2, <1>5, FS_Subset
<1>. QED  BY <1>6

\* g lists the numbers in P, of which there are n, in their order.
Lists(g, n, P) == /\ n \in Nat /\ g \in [1 .. n -> P] /\ Up(g)
                  /\ \A p \in P : \E i \in 1 .. n : g[i] = p

\* Where two such lists are the same up to a place of one, the other has that place ...
LEMMA ListsAlike ==
    ASSUME NEW n, NEW k, NEW P \in SUBSET Nat, NEW g, NEW h, Lists(g, n, P), Lists(h, k, P),
           NEW d, d \in 1 .. n, \A e \in 1 .. n : e < d => e \in 1 .. k /\ h[e] = g[e]
    PROVE  d \in 1 .. k /\ h[d] <= g[d]
<1>. n \in Nat /\ k \in Nat /\ g \in [1 .. n -> P] /\ h \in [1 .. k -> P]
  BY DEF Lists
<1>1. PICK e \in 1 .. k : h[e] = g[d]
  BY DEF Lists
<1>2. ~(e < d)
  <2>1. SUFFICES ASSUME e < d PROVE FALSE
    OBVIOUS
  <2>2. e \in 1 .. n /\ g[e] = g[d]
    <3>1. e \in 1 .. n
      BY <2>1
    <3>. QED  BY <1>1, <2>1, <3>1
  <2>3. g[e] < g[d]
    BY <2>1, <2>2 DEF Lists, Up
  <2>4. g[d] \in Nat
    OBVIOUS
  <2>. QED  BY <2>2, <2>3, <2>4
<1>3. d \in 1 .. k /\ (d = e \/ d < e)
  BY <1>2
<1>4. h[d] \in Nat /\ h[e] \in Nat
  BY <1>3
<1>5. h[d] = h[e] \/ h[d] < h[e]
  BY <1>3 DEF Lists, Up
<1>. QED  BY <1>1, <1>3, <1>4, <1>5

\* ... and they are the same list.
LEMMA ListsEqual ==
    ASSUME NEW n, NEW k, NEW P \in SUBSET Nat, NEW g, NEW h, Lists(g, n, P), Lists(h, k, P)
    PROVE  n = k /\ g = h
<1> DEFINE Odd == {d \in Nat : \/ d \in 1 .. n /\ ~(d \in 1 .. k /\ g[d] = h[d])
                               \/ d \in 1 .. k /\ ~(d \in 1 .. n /\ g[d] = h[d])}
<1>. n \in Nat /\ k \in Nat /\ g \in [1 .. n -> P] /\ h \in [1 .. k -> P]
  BY DEF Lists
<1>1. ASSUME Odd # {} PROVE FALSE
  <2>1. PICK d \in Odd : \A e \in Odd : d <= e
    BY <1>1, Least
  <2>2. \A e \in Nat : e < d => e \notin Odd
    BY <2>1
  <2>3. /\ \A e \in 1 .. n : e < d => e \in 1 .. k /\ h[e] = g[e]
        /\ \A e \in 1 .. k : e < d => e \in 1 .. n /\ g[e] = h[e]
    BY <2>2
  <2>4. d \in 1 .. n => d \in 1 .. k /\ h[d] <= g[d]
    BY <2>3, ListsAlike
  <2>5. d \in 1 .. k => d \in 1 .. n /\ g[d] <= h[d]
    BY <2>3, ListsAlike
  <2>6. d \in 1 .. n /\ d \in 1 .. k /\ h[d] <= g[d] /\ g[d] <= h[d]
    BY <2>4, <2>5
  <2>7. g[d] = h[d]
    <3>1. g[d] \in Nat /\ h[d] \in Nat
      BY <2>6
    <3>. QED  BY <2>6, <3>1
  <2>. QED  BY <2>6, <2>7
<1>2. \A d \in 1 .. n : d \in 1 .. k /\ g[d] = h[d]
  BY <1>1
<1>3. \A d \in 1 .. k : d \in 1 .. n
  BY <1>1
<1>4. n = k
  <2>1. n # 0 => n <= k
    BY <1>2
  <2>2. k # 0 => k <= n
    BY <1>3
  <2>. QED  BY <2>1, <2>2
<1>. QED  BY <1>2, <1>4

\* Every set of numbers of at most m has such a list, no longer than m.
LEMMA ListsExist ==
    ASSUME NEW m \in Nat, NEW P \in SUBSET (1 .. m)
    PROVE  \E n \in 0 .. m : \E g : Lists(g, n, P)
<1>1. IsFiniteSet(P) /\ Cardinality(P) \in Nat
  BY FinitePlaces
<1>2. PICK g \in [1 .. Cardinality(P) -> P] : Up(g)
  BY Orderable
<1>3. Cardinality(P) <= m
  <2>1. IsFiniteSet(1 .. m) /\ Cardinality(1 .. m) = m
    BY FS_Interval
  <2>2. Cardinality(P) <= Cardinality(1 .. m)
    BY <2>1, FS_Subset
  <2>. QED  BY <2>1, <2>2
<1>4. Lists(g, Cardinality(P), P)
  BY <1>1, <1>2, RisingIsOnto DEF Lists
<1>5. Cardinality(P) \in 0 .. m
  BY <1>1, <1>3
<1>. QED  BY <1>4, <1>5

\* Numbers that rise and leave no gap up to m are the last ones.
LEMMA RisingToEnd ==
    ASSUME NEW c \in Nat, NEW m \in Nat, NEW h \in [1 .. c -> 1 .. m], Up(h),
           \A i \in 1 .. c : \A k \in h[i] .. m : \E j \in 1 .. c : h[j] = k
    PROVE  c <= m /\ \A i \in 1 .. c : h[i] = m - c + i
<1> DEFINE S == {d \in Nat : d < c => h[c - d] = m - d}
<1>1. 0 \in S
  <2>1. SUFFICES ASSUME 0 < c PROVE h[c] = m
    OBVIOUS
  <2>2. c \in 1 .. c /\ h[c] \in 1 .. m /\ m \in h[c] .. m
    BY <2>1
  <2>3. PICK j \in 1 .. c : h[j] = m
    BY <2>2
  <2>4. j = c \/ j < c
    OBVIOUS
  <2>. QED  BY <2>2, <2>3, <2>4 DEF Up
<1>2. ASSUME NEW d \in Nat, d \in S PROVE d + 1 \in S
  <2>1. SUFFICES ASSUME d + 1 < c PROVE h[c - (d + 1)] = m - (d + 1)
    OBVIOUS
  <2>. PICK a, b : a = c - (d + 1) /\ b = c - d
    OBVIOUS
  <2>2. a \in 1 .. c /\ b \in 1 .. c /\ a < b /\ b = a + 1
    BY <2>1
  <2>3. h[b] = m - d
    BY <1>2, <2>1
  <2>4. h[a] < h[b] /\ h[a] \in 1 .. m /\ h[b] \in 1 .. m
    BY <2>2 DEF Up
  <2>5. PICK j \in 1 .. c : h[j] = h[a] + 1
    <3>1. h[a] + 1 \in h[a] .. m
      BY <2>4
    <3>. QED  BY <2>2, <3>1
  <2>6. a < j
    <3>1. j \in Nat /\ a \in Nat /\ (j = a \/ j < a \/ a < j)
      BY <2>2
    <3>2. j # a
      <4>1. h[a] \in Int
        BY <2>4
      <4>2. h[j] # h[a]
        BY <2>5, <4>1
      <4>. QED  BY <4>2
    <3>3. ~(j < a)
      BY <2>2, <2>4, <2>5 DEF Up
    <3>. QED  BY <3>1, <3>2, <3>3
  <2>7. j = b
    <3>1. j = b \/ b < j
      BY <2>2, <2>6
    <3>2. CASE b < j
      <4>1. h[b] < h[j]
        BY <2>2, <3>2 DEF Up
      <4>. QED  BY <2>4, <2>5, <4>1
    <3>. QED  BY <3>1, <3>2
  <2>8. h[a] + 1 = m - d /\ h[a] \in Int
    BY <2>3, <2>4, <2>5, <2>7
  <2>9. h[a] = m - (d + 1)
    BY <2>8
  <2>. QED  BY <2>9
<1>3. \A d \in Nat : d < c => h[c - d] = m - d
  <2>1. Nat \subseteq S
    <3>. HIDE DEF S
    <3>. QED  BY <1>1, <1>2, Induct
  <2>. QED  BY <2>1
<1>4. ASSUME NEW i \in 1 .. c PROVE h[i] = m - c + i
  <2>1. c - i \in Nat /\ c - i < c /\ c - (c - i) = i /\ m - (c - i) = m - c + i
    OBVIOUS
  <2>. QED  BY <1>3, <2>1
<1>5. c <= m
  <2>1. CASE c = 0
    BY <2>1
  <2>2. CASE c # 0
    <3>1. h[1] = m - c + 1 /\ h[1] \in 1 .. m
      BY <1>4, <2>2
    <3>. QED  BY <3>1
  <2>. QED  BY <2>1, <2>2
<1>. QED  BY <1>4, <1>5
===============================================================================
