---------------------------- MODULE ParentsProofs ---------------------------
(***************************************************************************)
(* Proofs about Parents, for every document and every size.  The argument: *)
(* every letter that is kept has a place, that of the document or, in the  *)
(* title of the preamble, one above all others.  At every step the parents *)
(* there are, what has not been through the cap, the pieces of the parent  *)
(* that is split, the buffer and what has not been read follow each other: *)
(* each has the letters of an interval of places, all of them, in their    *)
(* order.  And what is too long at a tier has no cut of the tier left, so  *)
(* that the last tier leaves nothing too long.                             *)
(***************************************************************************)
EXTENDS Parents, SequenceTheorems, FiniteSetTheorems, WellFoundedInduction, TLAPS

LEMMA SeqDomain == ASSUME NEW S, NEW s \in Seq(S)
                   PROVE  Len(s) \in Nat /\ DOMAIN s = 1 .. Len(s) /\ s \in [1 .. Len(s) -> S]
BY LenProperties

LEMMA LeastExists ==
    ASSUME NEW S \in SUBSET Int, NEW a \in Int, \A i \in S : a <= i, S # {}
    PROVE  \E i \in S : \A j \in S : i <= j
<1> DEFINE R == {i - a : i \in S}
<1>1. R # {} /\ R \subseteq Nat
  <2>1. \A i \in S : i - a \in Nat
    OBVIOUS
  <2>2. PICK i \in S : TRUE
    OBVIOUS
  <2>3. i - a \in R
    BY <2>2
  <2>4. QED
    BY <2>1, <2>3
<1>2. IsWellFoundedOn(OpToRel(<, Nat), Nat)
  BY NatLessThanWellFounded
<1>3. PICK x \in R : \A y \in R : ~(<<y, x>> \in OpToRel(<, Nat))
  BY <1>1, <1>2, WFMin
<1>4. \A y \in R : ~(y < x)
  BY <1>1, <1>3 DEF OpToRel
<1>5. PICK i \in S : x = i - a
  BY <1>3
<1>6. \A j \in S : ~(j - a < i - a)
  BY <1>4, <1>5
<1>7. \A j \in S : i <= j
  BY <1>6
<1>8. QED
  BY <1>7

-----------------------------------------------------------------------------
\* A text has the letters of K with a place above a and up to b, in the order
\* of their places.
Holds(K, P, t, a, b) ==
    /\ t \in Seq(Nat) /\ a \in Int /\ b \in Int /\ a <= b
    /\ \A k \in 1 .. Len(t) : t[k] # 0 => t[k] \in K /\ a < P[t[k]] /\ P[t[k]] <= b
    /\ \A k, l \in 1 .. Len(t) : k < l /\ t[k] # 0 /\ t[l] # 0 => P[t[k]] < P[t[l]]
    /\ \A p \in K : a < P[p] /\ P[p] <= b => \E k \in 1 .. Len(t) : t[k] = p

\* So have the texts of a list, one after the other.
HoldsAll(K, P, s, a, b) ==
    /\ s \in Seq(Seq(Nat)) /\ a \in Int /\ b \in Int /\ a <= b
    /\ \A i \in 1 .. Len(s) : \A k \in 1 .. Len(s[i]) :
          s[i][k] # 0 => s[i][k] \in K /\ a < P[s[i][k]] /\ P[s[i][k]] <= b
    /\ \A i, j \in 1 .. Len(s) : \A k \in 1 .. Len(s[i]), l \in 1 .. Len(s[j]) :
          (i < j \/ (i = j /\ k < l)) /\ s[i][k] # 0 /\ s[j][l] # 0 => P[s[i][k]] < P[s[j][l]]
    /\ \A p \in K : a < P[p] /\ P[p] <= b =>
          \E i \in 1 .. Len(s) : \E k \in 1 .. Len(s[i]) : s[i][k] = p

LEMMA SubText ==
    ASSUME NEW S, NEW t \in Seq(S), NEW m \in Nat, NEW n \in Nat, 1 <= m, m <= n + 1, n <= Len(t)
    PROVE  /\ SubSeq(t, m, n) \in Seq(S) /\ Len(SubSeq(t, m, n)) = n - m + 1
           /\ \A k \in 1 .. n - m + 1 : SubSeq(t, m, n)[k] = t[m + k - 1]
<1>1. Len(t) \in Nat /\ DOMAIN t = 1 .. Len(t)
  BY SeqDomain
<1>2. m \in 1 .. n + 1 /\ n \in m - 1 .. Len(t)
  BY <1>1
<1>3. \A i \in m .. n : t[i] \in S
  BY <1>1, SeqDomain
<1>4. QED
  BY <1>1, <1>2, <1>3, SubSeqProperties

LEMMA GreatestExists ==
    ASSUME NEW S \in SUBSET Int, NEW b \in Int, \A i \in S : i <= b, S # {}
    PROVE  \E i \in S : \A j \in S : j <= i
<1> DEFINE R == {b - i : i \in S}
<1>1. R # {} /\ R \in SUBSET Int /\ (\A x \in R : 0 <= x) /\ 0 \in Int
  <2>1. \A i \in S : b - i \in Int /\ 0 <= b - i
    OBVIOUS
  <2>2. PICK i \in S : TRUE
    OBVIOUS
  <2>3. b - i \in R
    BY <2>2
  <2>4. QED
    BY <2>1, <2>3
<1> HIDE DEF R
<1>2. PICK x \in R : \A y \in R : x <= y
  BY <1>1, LeastExists
<1>3. PICK i \in S : x = b - i
  BY <1>2 DEF R
<1>4. \A j \in S : b - j \in R
  BY DEF R
<1>5. \A j \in S : j <= i
  BY <1>2, <1>3, <1>4
<1>6. QED
  BY <1>5

\* The letters of a text up to a position are those up to some place.
LEMMA Watershed ==
    ASSUME NEW K \in SUBSET (Nat \ {0}), NEW P \in [K -> Int], NEW t, NEW a, NEW b, Holds(K, P, t, a, b),
           NEW m \in Nat, m <= Len(t)
    PROVE  \E c \in a .. b : \A k \in 1 .. Len(t) : t[k] # 0 => (k <= m <=> P[t[k]] <= c)
<1> DEFINE S == {k \in 1 .. m : t[k] # 0}
<1>1. Len(t) \in Nat /\ a \in Int /\ b \in Int /\ a <= b
  BY SeqDomain DEF Holds
<1>2. \A k \in 1 .. Len(t) : t[k] # 0 => t[k] \in K /\ P[t[k]] \in Int /\ a < P[t[k]] /\ P[t[k]] <= b
  BY DEF Holds
<1>3. CASE S = {}
  <2>1. \A k \in 1 .. Len(t) : t[k] # 0 => (k <= m <=> P[t[k]] <= a)
    <3> SUFFICES ASSUME NEW k \in 1 .. Len(t), t[k] # 0 PROVE ~(k <= m) /\ ~(P[t[k]] <= a)
      OBVIOUS
    <3>1. k \notin S
      BY <1>3
    <3>2. ~(k <= m)
      BY <1>1, <3>1
    <3>3. QED
      BY <1>1, <1>2, <3>2
  <2>2. a \in a .. b
    BY <1>1
  <2>3. QED
    BY <2>1, <2>2
<1>4. CASE S # {}
  <2>1. S \in SUBSET Int /\ (\A i \in S : i <= m) /\ m \in Int
    BY <1>1
  <2>2. PICK i \in S : \A j \in S : j <= i
    <3> HIDE DEF S
    <3>1. QED
      BY <1>4, <2>1, GreatestExists
  <2>3. i \in 1 .. m /\ i \in 1 .. Len(t) /\ t[i] # 0
    BY <1>1, <2>2
  <2>4. P[t[i]] \in a .. b
    BY <1>1, <1>2, <2>3
  <2>5. ASSUME NEW k \in 1 .. Len(t), t[k] # 0 PROVE k <= m <=> P[t[k]] <= P[t[i]]
    <3>1. P[t[k]] \in Int /\ P[t[i]] \in Int
      BY <1>2, <2>3, <2>5
    <3>2. k < i => P[t[k]] < P[t[i]]
      BY <2>3, <2>5 DEF Holds
    <3>3. i < k => P[t[i]] < P[t[k]]
      BY <2>3, <2>5 DEF Holds
    <3>4. k <= m => k <= i
      <4>1. SUFFICES ASSUME k <= m PROVE k <= i
        OBVIOUS
      <4>2. k \in S
        BY <1>1, <2>5, <4>1
      <4>3. QED
        BY <2>2, <4>2
    <3>5. k < i \/ k = i \/ i < k
      BY <1>1, <2>3
    <3>6. CASE k < i
      BY <3>1, <3>2, <3>6, <2>3, <1>1
    <3>7. CASE k = i
      BY <3>1, <3>7, <2>3, <1>1
    <3>8. CASE i < k
      <4>1. ~(k <= m)
        BY <3>4, <3>8, <2>3, <1>1
      <4>2. QED
        BY <3>1, <3>3, <3>8, <4>1
    <3>9. QED
      BY <3>5, <3>6, <3>7, <3>8
  <2>6. QED
    BY <2>4, <2>5
<1>5. QED
  BY <1>3, <1>4

\* What stands between two positions, when all of it and nothing else has a
\* place between c and d.
LEMMA PartHolds ==
    ASSUME NEW K \in SUBSET (Nat \ {0}), NEW P \in [K -> Int], NEW t, NEW a, NEW b, Holds(K, P, t, a, b),
           NEW m \in Nat, NEW n \in Nat, 1 <= m, m <= n + 1, n <= Len(t),
           NEW c \in a .. b, NEW d \in a .. b, c <= d,
           \A k \in 1 .. Len(t) : t[k] # 0 => (k \in m .. n <=> c < P[t[k]] /\ P[t[k]] <= d)
    PROVE  Holds(K, P, SubSeq(t, m, n), c, d)
<1> DEFINE u == SubSeq(t, m, n)
           z == n - m + 1
<1>1. /\ t \in Seq(Nat) /\ Len(t) \in Nat /\ a \in Int /\ b \in Int
      /\ \A p \in K : P[p] \in Int
  BY SeqDomain DEF Holds
<1>2. u \in Seq(Nat) /\ Len(u) = z /\ \A k \in 1 .. z : u[k] = t[m + k - 1]
  BY <1>1, SubText
<1>3. \A k \in 1 .. z : m + k - 1 \in 1 .. Len(t) /\ m + k - 1 \in m .. n
  BY <1>1
<1> HIDE DEF u
<1>4. c \in Int /\ d \in Int
  BY <1>1
<1>5. \A k \in 1 .. z : u[k] # 0 => u[k] \in K /\ c < P[u[k]] /\ P[u[k]] <= d
  BY <1>2, <1>3 DEF Holds
<1>6. \A k, l \in 1 .. z : k < l /\ u[k] # 0 /\ u[l] # 0 => P[u[k]] < P[u[l]]
  <2> SUFFICES ASSUME NEW k \in 1 .. z, NEW l \in 1 .. z, k < l, u[k] # 0, u[l] # 0
               PROVE  P[u[k]] < P[u[l]]
    OBVIOUS
  <2>1. m + k - 1 < m + l - 1
    BY <1>1
  <2>2. QED
    BY <1>2, <1>3, <2>1 DEF Holds
<1>7. \A p \in K : c < P[p] /\ P[p] <= d => \E k \in 1 .. z : u[k] = p
  <2> SUFFICES ASSUME NEW p \in K, c < P[p], P[p] <= d PROVE \E k \in 1 .. z : u[k] = p
    OBVIOUS
  <2>1. a < P[p] /\ P[p] <= b
    BY <1>1, <1>4
  <2>2. PICK k \in 1 .. Len(t) : t[k] = p
    BY <2>1 DEF Holds
  <2>3. t[k] # 0
    BY <2>2
  <2>4. k \in m .. n
    BY <2>2, <2>3
  <2>5. k - m + 1 \in 1 .. z /\ m + (k - m + 1) - 1 = k
    BY <1>1, <2>4
  <2>6. u[k - m + 1] = p
    BY <1>2, <2>2, <2>5
  <2>7. QED
    BY <2>5, <2>6
<1>8. QED
  BY <1>2, <1>4, <1>5, <1>6, <1>7 DEF Holds, u

LEMMA EmptyHolds ==
    ASSUME NEW K \in SUBSET (Nat \ {0}), NEW P \in [K -> Int], NEW a \in Int
    PROVE  Holds(K, P, <<>>, a, a) /\ HoldsAll(K, P, <<>>, a, a)
<1>1. \A p \in K : ~(a < P[p] /\ P[p] <= a)
  OBVIOUS
<1>2. <<>> \in Seq(Nat) /\ <<>> \in Seq(Seq(Nat)) /\ Len(<<>>) = 0 /\ 1 .. 0 = {}
  OBVIOUS
<1>3. QED
  BY <1>1, <1>2 DEF Holds, HoldsAll

\* A text cut in two, where newlines may go with the cut.
LEMMA CutHolds ==
    ASSUME NEW K \in SUBSET (Nat \ {0}), NEW P \in [K -> Int], NEW t, NEW a, NEW b, Holds(K, P, t, a, b),
           NEW m \in Nat, NEW n \in Nat, m < n, n <= Len(t) + 1,
           \A k \in m + 1 .. n - 1 : t[k] = 0
    PROVE  \E c \in a .. b : /\ Holds(K, P, SubSeq(t, 1, m), a, c)
                             /\ Holds(K, P, SubSeq(t, n, Len(t)), c, b)
<1>1. Len(t) \in Nat /\ a \in Int /\ b \in Int /\ a <= b
  BY SeqDomain DEF Holds
<1>2. PICK c \in a .. b : \A k \in 1 .. Len(t) : t[k] # 0 => (k <= m <=> P[t[k]] <= c)
  <2>1. m <= Len(t)
    BY <1>1
  <2>2. QED
    BY <2>1, Watershed
<1>3. \A k \in 1 .. Len(t) : t[k] # 0 => P[t[k]] \in Int /\ a < P[t[k]] /\ P[t[k]] <= b
  BY DEF Holds
<1>4. Holds(K, P, SubSeq(t, 1, m), a, c)
  <2>1. \A k \in 1 .. Len(t) : t[k] # 0 => (k \in 1 .. m <=> a < P[t[k]] /\ P[t[k]] <= c)
    BY <1>1, <1>2, <1>3
  <2>2. a \in a .. b /\ a <= c /\ 1 <= m + 1 /\ m <= Len(t)
    BY <1>1
  <2>3. QED
    BY <1>2, <2>1, <2>2, PartHolds
<1>5. Holds(K, P, SubSeq(t, n, Len(t)), c, b)
  <2>1. \A k \in 1 .. Len(t) : t[k] # 0 => (k \in n .. Len(t) <=> c < P[t[k]] /\ P[t[k]] <= b)
    <3> SUFFICES ASSUME NEW k \in 1 .. Len(t), t[k] # 0
                 PROVE  k \in n .. Len(t) <=> c < P[t[k]] /\ P[t[k]] <= b
      OBVIOUS
    <3>1. k \notin m + 1 .. n - 1
      OBVIOUS
    <3>2. k <= m \/ n <= k
      BY <1>1, <3>1
    <3>3. QED
      BY <1>1, <1>2, <1>3, <3>2
  <2>2. b \in a .. b /\ c <= b /\ 1 <= n
    BY <1>1, <1>2
  <2>3. QED
    BY <1>1, <1>2, <2>1, <2>2, PartHolds
<1>6. QED
  BY <1>2, <1>4, <1>5

\* Newlines may go at both ends of a text.
LEMMA BareHolds ==
    ASSUME NEW K \in SUBSET (Nat \ {0}), NEW P \in [K -> Int], NEW t, NEW a, NEW b, Holds(K, P, t, a, b),
           NEW m \in Nat, NEW n \in Nat, 1 <= m, m <= n + 1, n <= Len(t),
           \A k \in 1 .. Len(t) : k \notin m .. n => t[k] = 0
    PROVE  Holds(K, P, SubSeq(t, m, n), a, b)
<1>1. \A k \in 1 .. Len(t) : t[k] # 0 => (k \in m .. n <=> a < P[t[k]] /\ P[t[k]] <= b)
  BY DEF Holds
<1>2. a \in a .. b /\ b \in a .. b /\ a <= b
  BY DEF Holds
<1>3. QED
  BY <1>1, <1>2, PartHolds

Newlines == {<<>>, <<0>>, <<0, 0>>}

LEMMA JoinedText ==
    ASSUME NEW t \in Seq(Nat), NEW u \in Seq(Nat), NEW z \in Newlines
    PROVE  LET v == t \o z \o u
               x == Len(t)
               y == Len(z)
           IN  /\ v \in Seq(Nat) /\ x \in Nat /\ y \in 0 .. 2 /\ Len(u) \in Nat /\ Len(v) = x + y + Len(u)
               /\ \A k \in 1 .. x : v[k] = t[k]
               /\ \A k \in x + 1 .. x + y : v[k] = 0
               /\ \A k \in 1 .. Len(u) : v[x + y + k] = u[k]
<1> DEFINE x == Len(t)
           y == Len(z)
           w == t \o z
           v == w \o u
<1>1. z \in Seq(Nat) /\ y \in 0 .. 2 /\ \A k \in 1 .. y : z[k] = 0
  <2>1. CASE z = <<>>
    BY <2>1
  <2>2. CASE z = <<0>>
    BY <2>2
  <2>3. CASE z = <<0, 0>>
    BY <2>3
  <2>4. QED
    BY <2>1, <2>2, <2>3 DEF Newlines
<1>2. x \in Nat /\ Len(u) \in Nat
  BY SeqDomain
<1>3. w \in Seq(Nat) /\ Len(w) = x + y /\ \A k \in 1 .. x + y : w[k] = IF k <= x THEN t[k] ELSE z[k - x]
  <2>1. Len(w) = x + y /\ w \in Seq(Nat)
    BY <1>1, ConcatProperties
  <2>2. \A k \in 1 .. Len(w) : w[k] = IF k <= x THEN t[k] ELSE z[k - x]
    BY <1>1, ConcatProperties
  <2>3. QED
    BY <2>1, <2>2
<1> HIDE DEF w
<1>4. v \in Seq(Nat) /\ Len(v) = x + y + Len(u)
      /\ \A k \in 1 .. x + y + Len(u) : v[k] = IF k <= x + y THEN w[k] ELSE u[k - (x + y)]
  <2>1. Len(v) = Len(w) + Len(u) /\ v \in Seq(Nat)
    BY <1>3, ConcatProperties
  <2>2. \A k \in 1 .. Len(w) + Len(u) : v[k] = IF k <= Len(w) THEN w[k] ELSE u[k - Len(w)]
    BY <1>3, ConcatProperties
  <2> HIDE DEF v
  <2>3. QED
    BY <1>3, <2>1, <2>2
<1> HIDE DEF v
<1>5. \A k \in 1 .. x : v[k] = t[k]
  <2> SUFFICES ASSUME NEW k \in 1 .. x PROVE v[k] = t[k]
    OBVIOUS
  <2>1. k \in 1 .. x + y + Len(u) /\ k <= x + y /\ k \in 1 .. x + y /\ k <= x
    BY <1>1, <1>2
  <2>2. QED
    BY <1>3, <1>4, <2>1
<1>6. \A k \in x + 1 .. x + y : v[k] = 0
  <2> SUFFICES ASSUME NEW k \in x + 1 .. x + y PROVE v[k] = 0
    OBVIOUS
  <2>1. k \in 1 .. x + y + Len(u) /\ k <= x + y /\ k \in 1 .. x + y /\ ~(k <= x) /\ k - x \in 1 .. y
    BY <1>1, <1>2
  <2>2. QED
    BY <1>1, <1>3, <1>4, <2>1
<1>7. \A k \in 1 .. Len(u) : v[x + y + k] = u[k]
  <2> SUFFICES ASSUME NEW k \in 1 .. Len(u) PROVE v[x + y + k] = u[k]
    OBVIOUS
  <2>1. x + y + k \in 1 .. x + y + Len(u) /\ ~(x + y + k <= x + y) /\ (x + y + k) - (x + y) = k
    BY <1>1, <1>2
  <2>2. QED
    BY <1>4, <2>1
<1>8. QED
  BY <1>1, <1>2, <1>4, <1>5, <1>6, <1>7 DEF v, w

LEMMA JoinHolds ==
    ASSUME NEW K \in SUBSET (Nat \ {0}), NEW P \in [K -> Int], NEW a, NEW b, NEW c,
           NEW t, Holds(K, P, t, a, b), NEW u, Holds(K, P, u, b, c), NEW z \in Newlines
    PROVE  Holds(K, P, t \o z \o u, a, c)
<1> DEFINE v == t \o z \o u
           x == Len(t)
           y == Len(z)
           q == x + y
<1>1. /\ t \in Seq(Nat) /\ u \in Seq(Nat) /\ a \in Int /\ b \in Int /\ c \in Int /\ a <= b /\ b <= c
      /\ \A p \in K : P[p] \in Int
  BY DEF Holds
<1>2. /\ v \in Seq(Nat) /\ x \in Nat /\ y \in 0 .. 2 /\ q \in Nat /\ Len(u) \in Nat /\ Len(v) = q + Len(u)
      /\ \A k \in 1 .. x : v[k] = t[k]
      /\ \A k \in x + 1 .. q : v[k] = 0
      /\ \A k \in 1 .. Len(u) : v[q + k] = u[k]
  BY <1>1, JoinedText
<1> HIDE DEF v
<1>3. \A k \in 1 .. Len(v) : v[k] # 0 =>
          \/ k \in 1 .. x /\ v[k] = t[k] /\ t[k] \in K /\ a < P[t[k]] /\ P[t[k]] <= b
          \/ /\ k > q /\ k - q \in 1 .. Len(u) /\ v[k] = u[k - q]
             /\ u[k - q] \in K /\ b < P[u[k - q]] /\ P[u[k - q]] <= c
  <2> SUFFICES ASSUME NEW k \in 1 .. Len(v), v[k] # 0
               PROVE  \/ k \in 1 .. x /\ v[k] = t[k] /\ t[k] \in K /\ a < P[t[k]] /\ P[t[k]] <= b
                      \/ /\ k > q /\ k - q \in 1 .. Len(u) /\ v[k] = u[k - q]
                         /\ u[k - q] \in K /\ b < P[u[k - q]] /\ P[u[k - q]] <= c
    OBVIOUS
  <2>1. CASE k <= x
    <3>1. k \in 1 .. x /\ v[k] = t[k]
      BY <1>2, <2>1
    <3>2. QED
      BY <3>1 DEF Holds
  <2>2. CASE k > q
    <3>1. k - q \in 1 .. Len(u) /\ q + (k - q) = k
      BY <1>2, <2>2
    <3>2. v[k] = u[k - q]
      BY <1>2, <3>1
    <3>3. QED
      BY <2>2, <3>1, <3>2 DEF Holds
  <2>3. CASE x < k /\ k <= q
    BY <1>2, <2>3
  <2>4. QED
    BY <1>2, <2>1, <2>2, <2>3
<1>4. \A k \in 1 .. Len(v) : v[k] # 0 => v[k] \in K /\ a < P[v[k]] /\ P[v[k]] <= c
  <2> SUFFICES ASSUME NEW k \in 1 .. Len(v), v[k] # 0
               PROVE  v[k] \in K /\ a < P[v[k]] /\ P[v[k]] <= c
    OBVIOUS
  <2>1. v[k] \in K /\ ((a < P[v[k]] /\ P[v[k]] <= b) \/ (b < P[v[k]] /\ P[v[k]] <= c))
    BY <1>3
  <2>2. P[v[k]] \in Int
    BY <2>1
  <2>3. QED
    BY <1>1, <2>1, <2>2
<1>5. \A k, l \in 1 .. Len(v) : k < l /\ v[k] # 0 /\ v[l] # 0 => P[v[k]] < P[v[l]]
  <2> SUFFICES ASSUME NEW k \in 1 .. Len(v), NEW l \in 1 .. Len(v), k < l, v[k] # 0, v[l] # 0
               PROVE  P[v[k]] < P[v[l]]
    OBVIOUS
  <2>1. CASE l \in 1 .. x
    <3>1. k \in 1 .. x
      BY <1>2, <2>1
    <3>2. QED
      BY <1>2, <2>1, <3>1 DEF Holds
  <2>2. CASE k > q
    <3>1. k - q \in 1 .. Len(u) /\ l - q \in 1 .. Len(u) /\ v[k] = u[k - q] /\ v[l] = u[l - q] /\ k - q < l - q
      BY <1>2, <1>3, <2>2
    <3>2. QED
      BY <3>1 DEF Holds
  <2>3. CASE k \in 1 .. x /\ l > q
    <3>1. ~(k > q) /\ l \notin 1 .. x
      BY <1>2, <2>3
    <3>2. v[k] \in K /\ P[v[k]] <= b
      BY <1>3, <3>1
    <3>3. v[l] \in K /\ b < P[v[l]]
      BY <1>3, <3>1
    <3>4. P[v[k]] \in Int /\ P[v[l]] \in Int
      BY <3>2, <3>3
    <3>5. QED
      BY <1>1, <3>2, <3>3, <3>4
  <2>4. QED
    BY <1>2, <1>3, <2>1, <2>2, <2>3
<1>6. \A p \in K : a < P[p] /\ P[p] <= c => \E k \in 1 .. Len(v) : v[k] = p
  <2> SUFFICES ASSUME NEW p \in K, a < P[p], P[p] <= c PROVE \E k \in 1 .. Len(v) : v[k] = p
    OBVIOUS
  <2>1. CASE P[p] <= b
    <3>1. PICK k \in 1 .. x : t[k] = p
      BY <2>1 DEF Holds
    <3>2. k \in 1 .. Len(v) /\ v[k] = p
      BY <1>2, <3>1
    <3>3. QED
      BY <3>2
  <2>2. CASE b < P[p]
    <3>1. PICK k \in 1 .. Len(u) : u[k] = p
      BY <2>2 DEF Holds
    <3>2. q + k \in 1 .. Len(v)
      BY <1>2, <3>1
    <3>3. v[q + k] = p
      BY <1>2, <3>1
    <3>4. QED
      BY <3>2, <3>3
  <2>3. QED
    BY <1>1, <2>1, <2>2
<1>7. a <= c
  BY <1>1
<1>8. QED
  BY <1>1, <1>2, <1>4, <1>5, <1>6, <1>7 DEF Holds, v

LEMMA ConcatHolds ==
    ASSUME NEW K \in SUBSET (Nat \ {0}), NEW P \in [K -> Int], NEW a, NEW b, NEW c,
           NEW r, HoldsAll(K, P, r, a, b), NEW s, HoldsAll(K, P, s, b, c)
    PROVE  HoldsAll(K, P, r \o s, a, c)
<1> DEFINE q == r \o s
           x == Len(r)
           y == Len(s)
<1>1. /\ r \in Seq(Seq(Nat)) /\ s \in Seq(Seq(Nat)) /\ x \in Nat /\ y \in Nat
      /\ a \in Int /\ b \in Int /\ c \in Int /\ a <= b /\ b <= c
      /\ \A p \in K : P[p] \in Int
  BY SeqDomain DEF HoldsAll
<1>2. q \in Seq(Seq(Nat)) /\ Len(q) = x + y
  BY <1>1, ConcatProperties
<1>3. \A i \in 1 .. x + y : q[i] = IF i <= x THEN r[i] ELSE s[i - x]
  BY <1>1, ConcatProperties
<1> HIDE DEF q
<1>4. \A i \in 1 .. x : i \in 1 .. x + y /\ q[i] = r[i]
  BY <1>1, <1>3
<1>5. \A i \in 1 .. y : x + i \in 1 .. x + y /\ q[x + i] = s[i]
  <2> SUFFICES ASSUME NEW i \in 1 .. y PROVE x + i \in 1 .. x + y /\ q[x + i] = s[i]
    OBVIOUS
  <2>1. x + i \in 1 .. x + y /\ ~(x + i <= x) /\ (x + i) - x = i
    BY <1>1
  <2>2. QED
    BY <1>3, <2>1
<1>6. \A i \in 1 .. x + y : i \in 1 .. x \/ (i > x /\ i - x \in 1 .. y /\ q[i] = s[i - x])
  <2> SUFFICES ASSUME NEW i \in 1 .. x + y, i \notin 1 .. x PROVE i > x /\ i - x \in 1 .. y /\ q[i] = s[i - x]
    OBVIOUS
  <2>1. i > x /\ i - x \in 1 .. y /\ x + (i - x) = i
    BY <1>1
  <2>2. QED
    BY <1>5, <2>1
<1>7. \A i \in 1 .. x : \A k \in 1 .. Len(q[i]) :
          q[i][k] # 0 => q[i][k] \in K /\ a < P[q[i][k]] /\ P[q[i][k]] <= b
  BY <1>4 DEF HoldsAll
<1>8. \A i \in 1 .. x + y : i \notin 1 .. x => \A k \in 1 .. Len(q[i]) :
          q[i][k] # 0 => q[i][k] \in K /\ b < P[q[i][k]] /\ P[q[i][k]] <= c
  <2> SUFFICES ASSUME NEW i \in 1 .. x + y, i \notin 1 .. x
               PROVE  \A k \in 1 .. Len(q[i]) :
                          q[i][k] # 0 => q[i][k] \in K /\ b < P[q[i][k]] /\ P[q[i][k]] <= c
    OBVIOUS
  <2>1. i - x \in 1 .. y /\ q[i] = s[i - x]
    BY <1>6
  <2>2. QED
    BY <2>1 DEF HoldsAll
<1>9. \A i \in 1 .. x + y : \A k \in 1 .. Len(q[i]) :
          q[i][k] # 0 => q[i][k] \in K /\ a < P[q[i][k]] /\ P[q[i][k]] <= c
  <2> SUFFICES ASSUME NEW i \in 1 .. x + y, NEW k \in 1 .. Len(q[i]), q[i][k] # 0
               PROVE  q[i][k] \in K /\ a < P[q[i][k]] /\ P[q[i][k]] <= c
    OBVIOUS
  <2>1. CASE i \in 1 .. x
    <3>1. q[i][k] \in K /\ a < P[q[i][k]] /\ P[q[i][k]] <= b
      BY <1>7, <2>1
    <3>2. P[q[i][k]] \in Int
      BY <3>1
    <3>3. QED
      BY <1>1, <3>1, <3>2
  <2>2. CASE i \notin 1 .. x
    <3>1. q[i][k] \in K /\ b < P[q[i][k]] /\ P[q[i][k]] <= c
      BY <1>8, <2>2
    <3>2. P[q[i][k]] \in Int
      BY <3>1
    <3>3. QED
      BY <1>1, <3>1, <3>2
  <2>3. QED
    BY <2>1, <2>2
<1>10. \A i, j \in 1 .. x + y : \A k \in 1 .. Len(q[i]), l \in 1 .. Len(q[j]) :
          (i < j \/ (i = j /\ k < l)) /\ q[i][k] # 0 /\ q[j][l] # 0 => P[q[i][k]] < P[q[j][l]]
  <2> SUFFICES ASSUME NEW i \in 1 .. x + y, NEW j \in 1 .. x + y,
                      NEW k \in 1 .. Len(q[i]), NEW l \in 1 .. Len(q[j]),
                      i < j \/ (i = j /\ k < l), q[i][k] # 0, q[j][l] # 0
               PROVE  P[q[i][k]] < P[q[j][l]]
    OBVIOUS
  <2>1. CASE j \in 1 .. x
    <3>1. i \in 1 .. x
      BY <1>1, <2>1
    <3>2. q[i] = r[i] /\ q[j] = r[j]
      BY <1>4, <2>1, <3>1
    <3>3. QED
      BY <2>1, <3>1, <3>2 DEF HoldsAll
  <2>2. CASE i \notin 1 .. x
    <3>1. j \notin 1 .. x
      <4>1. x \in Nat /\ i \in Int /\ j \in Int /\ i > x
        BY <1>1, <2>2
      <4>2. i <= j
        BY <4>1
      <4>3. QED
        BY <4>1, <4>2
    <3>2. i - x \in 1 .. y /\ q[i] = s[i - x] /\ j - x \in 1 .. y /\ q[j] = s[j - x]
      BY <1>6, <2>2, <3>1
    <3>3. i - x < j - x \/ (i - x = j - x /\ k < l)
      BY <1>1
    <3>4. k \in 1 .. Len(s[i - x]) /\ l \in 1 .. Len(s[j - x]) /\ s[i - x][k] # 0 /\ s[j - x][l] # 0
      BY <3>2
    <3>5. P[s[i - x][k]] < P[s[j - x][l]]
      BY <3>2, <3>3, <3>4 DEF HoldsAll
    <3>6. QED
      BY <3>2, <3>5
  <2>3. CASE i \in 1 .. x /\ j \notin 1 .. x
    <3>1. q[i][k] \in K /\ P[q[i][k]] <= b
      BY <1>7, <2>3
    <3>2. q[j][l] \in K /\ b < P[q[j][l]]
      BY <1>8, <2>3
    <3>3. P[q[i][k]] \in Int /\ P[q[j][l]] \in Int
      BY <3>1, <3>2
    <3>4. b \in Int
      BY <1>1
    <3>5. QED
      BY <3>1, <3>2, <3>3, <3>4
  <2>4. QED
    BY <2>1, <2>2, <2>3
<1>11. \A p \in K : a < P[p] /\ P[p] <= c => \E i \in 1 .. x + y : \E k \in 1 .. Len(q[i]) : q[i][k] = p
  <2> SUFFICES ASSUME NEW p \in K, a < P[p], P[p] <= c
               PROVE  \E i \in 1 .. x + y : \E k \in 1 .. Len(q[i]) : q[i][k] = p
    OBVIOUS
  <2>1. CASE P[p] <= b
    <3>1. PICK i \in 1 .. x : \E k \in 1 .. Len(r[i]) : r[i][k] = p
      BY <2>1 DEF HoldsAll
    <3>2. QED
      BY <1>4, <3>1
  <2>2. CASE b < P[p]
    <3>1. PICK i \in 1 .. y : \E k \in 1 .. Len(s[i]) : s[i][k] = p
      BY <2>2 DEF HoldsAll
    <3>2. QED
      BY <1>5, <3>1
  <2>3. QED
    BY <1>1, <2>1, <2>2
<1>12. a <= c
  BY <1>1
<1>13. QED
  BY <1>1, <1>2, <1>9, <1>10, <1>11, <1>12 DEF HoldsAll, q

LEMMA OneHolds ==
    ASSUME NEW K, NEW P, NEW a, NEW b, NEW t, Holds(K, P, t, a, b)
    PROVE  HoldsAll(K, P, <<t>>, a, b)
<1> DEFINE s == <<t>>
<1>1. t \in Seq(Nat) /\ Len(t) \in Nat
  BY SeqDomain DEF Holds
<1>2. s \in Seq(Seq(Nat)) /\ Len(s) = 1 /\ s[1] = t
  BY <1>1
<1> HIDE DEF s
<1>3. \A i \in 1 .. 1 : i = 1
  OBVIOUS
<1>4. \A i \in 1 .. Len(s) : \A k \in 1 .. Len(s[i]) :
          s[i][k] # 0 => s[i][k] \in K /\ a < P[s[i][k]] /\ P[s[i][k]] <= b
  BY <1>2, <1>3 DEF Holds
<1>5. \A i, j \in 1 .. Len(s) : \A k \in 1 .. Len(s[i]), l \in 1 .. Len(s[j]) :
          (i < j \/ (i = j /\ k < l)) /\ s[i][k] # 0 /\ s[j][l] # 0 => P[s[i][k]] < P[s[j][l]]
  <2> SUFFICES ASSUME NEW i \in 1 .. Len(s), NEW j \in 1 .. Len(s),
                      NEW k \in 1 .. Len(s[i]), NEW l \in 1 .. Len(s[j]),
                      i < j \/ (i = j /\ k < l), s[i][k] # 0, s[j][l] # 0
               PROVE  P[s[i][k]] < P[s[j][l]]
    OBVIOUS
  <2>1. i = 1 /\ j = 1 /\ s[i] = t /\ s[j] = t /\ k < l
    BY <1>2, <1>3
  <2>2. QED
    BY <2>1 DEF Holds
<1>6. \A p \in K : a < P[p] /\ P[p] <= b => \E i \in 1 .. Len(s) : \E k \in 1 .. Len(s[i]) : s[i][k] = p
  <2> SUFFICES ASSUME NEW p \in K, a < P[p], P[p] <= b
               PROVE  \E i \in 1 .. Len(s) : \E k \in 1 .. Len(s[i]) : s[i][k] = p
    OBVIOUS
  <2>1. PICK k \in 1 .. Len(t) : t[k] = p
    BY DEF Holds
  <2>2. 1 \in 1 .. Len(s)
    BY <1>2
  <2>3. QED
    BY <1>2, <2>1, <2>2
<1>7. QED
  BY <1>2, <1>4, <1>5, <1>6 DEF Holds, HoldsAll, s

LEMMA AppendHolds ==
    ASSUME NEW K \in SUBSET (Nat \ {0}), NEW P \in [K -> Int], NEW a, NEW b, NEW c,
           NEW s, HoldsAll(K, P, s, a, b), NEW t, Holds(K, P, t, b, c)
    PROVE  HoldsAll(K, P, Append(s, t), a, c)
<1>1. HoldsAll(K, P, <<t>>, b, c)
  BY OneHolds
<1>2. HoldsAll(K, P, s \o <<t>>, a, c)
  BY <1>1, ConcatHolds
<1>3. s \in Seq(Seq(Nat)) /\ t \in Seq(Nat)
  BY DEF Holds, HoldsAll
<1>4. Append(s, t) = s \o <<t>>
  BY <1>3
<1>5. QED
  BY <1>2, <1>4

\* The letters of the first text are those up to c.
FirstUpTo(P, s, c) ==
    \A i \in 1 .. Len(s) : \A k \in 1 .. Len(s[i]) : s[i][k] # 0 => (i = 1 <=> P[s[i][k]] <= c)

LEMMA HeadWatershed ==
    ASSUME NEW K \in SUBSET (Nat \ {0}), NEW P \in [K -> Int], NEW a, NEW b,
           NEW s, HoldsAll(K, P, s, a, b), s # <<>>
    PROVE  \E c \in a .. b : FirstUpTo(P, s, c)
<1> DEFINE t == s[1]
           S == {k \in 1 .. Len(t) : t[k] # 0}
<1>1. /\ s \in Seq(Seq(Nat)) /\ Len(s) \in Nat /\ 1 \in 1 .. Len(s) /\ t \in Seq(Nat) /\ Len(t) \in Nat
      /\ a \in Int /\ b \in Int /\ a <= b
  <2>1. s \in Seq(Seq(Nat)) /\ Len(s) \in Nat /\ a \in Int /\ b \in Int /\ a <= b
    BY SeqDomain DEF HoldsAll
  <2>2. 1 \in 1 .. Len(s)
    BY <2>1, EmptySeq
  <2>3. t \in Seq(Nat)
    BY <2>1, <2>2, SeqDomain
  <2>4. QED
    BY <2>1, <2>2, <2>3, SeqDomain
<1>2. \A i \in 1 .. Len(s) : \A k \in 1 .. Len(s[i]) :
          s[i][k] # 0 => s[i][k] \in K /\ P[s[i][k]] \in Int /\ a < P[s[i][k]] /\ P[s[i][k]] <= b
  BY DEF HoldsAll
<1>3. CASE S = {}
  <2>1. \A i \in 1 .. Len(s) : \A k \in 1 .. Len(s[i]) : s[i][k] # 0 => (i = 1 <=> P[s[i][k]] <= a)
    <3> SUFFICES ASSUME NEW i \in 1 .. Len(s), NEW k \in 1 .. Len(s[i]), s[i][k] # 0
                 PROVE  i # 1 /\ ~(P[s[i][k]] <= a)
      OBVIOUS
    <3>1. i # 1
      BY <1>3
    <3>2. P[s[i][k]] \in Int /\ a < P[s[i][k]]
      BY <1>2
    <3>3. QED
      BY <1>1, <3>1, <3>2
  <2>2. a \in a .. b
    BY <1>1
  <2>3. QED
    BY <2>1, <2>2 DEF FirstUpTo
<1>4. CASE S # {}
  <2>1. S \in SUBSET Int /\ (\A i \in S : i <= Len(t)) /\ Len(t) \in Int
    BY <1>1
  <2>2. PICK g \in S : \A j \in S : j <= g
    <3> HIDE DEF S
    <3>1. QED
      BY <1>4, <2>1, GreatestExists
  <2>3. g \in 1 .. Len(s[1]) /\ s[1][g] # 0
    BY <2>2
  <2>4. P[t[g]] \in Int /\ a < P[t[g]] /\ P[t[g]] <= b
    BY <1>1, <1>2, <2>3
  <2>5. ASSUME NEW i \in 1 .. Len(s), NEW k \in 1 .. Len(s[i]), s[i][k] # 0
        PROVE  i = 1 <=> P[s[i][k]] <= P[t[g]]
    <3>1. P[s[i][k]] \in Int
      BY <1>2, <2>5
    <3>2. CASE i # 1
      <4>1. 1 < i
        BY <1>1, <3>2
      <4>2. P[s[1][g]] < P[s[i][k]]
        BY <1>1, <2>3, <2>5, <4>1 DEF HoldsAll
      <4>3. QED
        BY <2>4, <3>1, <3>2, <4>2
    <3>3. CASE i = 1 /\ k = g
      BY <2>4, <3>3
    <3>4. CASE i = 1 /\ k # g
      <4>1. k \in S
        BY <2>5, <3>4
      <4>2. k < g
        BY <1>1, <2>2, <2>3, <3>4, <4>1
      <4>3. P[s[1][k]] < P[s[1][g]]
        BY <1>1, <2>3, <2>5, <3>4, <4>2 DEF HoldsAll
      <4>4. QED
        BY <2>4, <3>1, <3>4, <4>3
    <3>5. QED
      BY <3>2, <3>3, <3>4
  <2>6. P[t[g]] \in a .. b
    BY <1>1, <2>4
  <2>7. FirstUpTo(P, s, P[t[g]])
    BY <2>5 DEF FirstUpTo
  <2>8. QED
    BY <2>6, <2>7
<1>5. QED
  BY <1>3, <1>4

LEMMA HeadHolds ==
    ASSUME NEW K \in SUBSET (Nat \ {0}), NEW P \in [K -> Int], NEW a, NEW b,
           NEW s, HoldsAll(K, P, s, a, b), s # <<>>
    PROVE  \E c \in a .. b : Holds(K, P, s[1], a, c) /\ HoldsAll(K, P, Tail(s), c, b)
<1>0. \E c \in a .. b : FirstUpTo(P, s, c)
  BY HeadWatershed
<1> DEFINE t == s[1]
           r == Tail(s)
           z == Len(s) - 1
<1>1. /\ s \in Seq(Seq(Nat)) /\ Len(s) \in Nat /\ 1 \in 1 .. Len(s) /\ t \in Seq(Nat) /\ Len(t) \in Nat
      /\ a \in Int /\ b \in Int /\ a <= b
  <2>1. s \in Seq(Seq(Nat)) /\ Len(s) \in Nat /\ a \in Int /\ b \in Int /\ a <= b
    BY SeqDomain DEF HoldsAll
  <2>2. 1 \in 1 .. Len(s)
    BY <2>1, EmptySeq
  <2>3. t \in Seq(Nat)
    BY <2>1, <2>2, SeqDomain
  <2>4. QED
    BY <2>1, <2>2, <2>3, SeqDomain
<1>2. PICK c \in a .. b : FirstUpTo(P, s, c)
  BY <1>0
<1>3. c \in Int /\ a <= c /\ c <= b
  BY <1>1, <1>2
<1>4. \A i \in 1 .. Len(s) : \A k \in 1 .. Len(s[i]) :
          s[i][k] # 0 => s[i][k] \in K /\ P[s[i][k]] \in Int /\ a < P[s[i][k]] /\ P[s[i][k]] <= b
  BY DEF HoldsAll
<1>5. r \in Seq(Seq(Nat)) /\ Len(r) = z /\ z \in Nat /\ \A i \in 1 .. z : i + 1 \in 1 .. Len(s) /\ i + 1 # 1 /\ r[i] = s[i + 1]
  <2>1. r \in Seq(Seq(Nat)) /\ Len(r) = z /\ \A i \in 1 .. Len(r) : r[i] = s[i + 1]
    BY <1>1, HeadTailProperties
  <2> HIDE DEF r
  <2>2. QED
    BY <1>1, <2>1
<1> HIDE DEF r
<1>6. Holds(K, P, t, a, c)
  <2>1. \A k \in 1 .. Len(t) : t[k] # 0 => t[k] \in K /\ a < P[t[k]] /\ P[t[k]] <= c
    BY <1>1, <1>2, <1>4 DEF FirstUpTo
  <2>2. \A k, l \in 1 .. Len(t) : k < l /\ t[k] # 0 /\ t[l] # 0 => P[t[k]] < P[t[l]]
    BY <1>1 DEF HoldsAll
  <2>3. \A p \in K : a < P[p] /\ P[p] <= c => \E k \in 1 .. Len(t) : t[k] = p
    <3> SUFFICES ASSUME NEW p \in K, a < P[p], P[p] <= c PROVE \E k \in 1 .. Len(t) : t[k] = p
      OBVIOUS
    <3>1. P[p] <= b
      BY <1>1, <1>3
    <3>2. PICK i \in 1 .. Len(s) : \E k \in 1 .. Len(s[i]) : s[i][k] = p
      BY <3>1 DEF HoldsAll
    <3>3. PICK k \in 1 .. Len(s[i]) : s[i][k] = p
      BY <3>2
    <3>4. s[i][k] # 0
      BY <3>3
    <3>5. i = 1
      BY <1>2, <3>3, <3>4 DEF FirstUpTo
    <3>6. QED
      BY <3>3, <3>5
  <2>4. QED
    BY <1>1, <1>3, <2>1, <2>2, <2>3 DEF Holds
<1>7. HoldsAll(K, P, r, c, b)
  <2>1. \A i \in 1 .. z : \A k \in 1 .. Len(r[i]) : r[i][k] # 0 => r[i][k] \in K /\ c < P[r[i][k]] /\ P[r[i][k]] <= b
    <3> SUFFICES ASSUME NEW i \in 1 .. z, NEW k \in 1 .. Len(r[i]), r[i][k] # 0
                 PROVE  r[i][k] \in K /\ c < P[r[i][k]] /\ P[r[i][k]] <= b
      OBVIOUS
    <3>1. /\ r[i][k] \in K /\ P[r[i][k]] \in Int /\ P[r[i][k]] <= b /\ ~(P[r[i][k]] <= c)
      <4>1. i + 1 \in 1 .. Len(s) /\ i + 1 # 1 /\ r[i] = s[i + 1] /\ k \in 1 .. Len(s[i + 1]) /\ s[i + 1][k] # 0
        BY <1>5
      <4>2. s[i + 1][k] \in K /\ P[s[i + 1][k]] \in Int /\ P[s[i + 1][k]] <= b
        BY <1>4, <4>1
      <4>3. ~(P[s[i + 1][k]] <= c)
        BY <1>2, <4>1 DEF FirstUpTo
      <4>4. QED
        BY <4>1, <4>2, <4>3
    <3>2. QED
      BY <1>3, <3>1
  <2>2. \A i, j \in 1 .. z : \A k \in 1 .. Len(r[i]), l \in 1 .. Len(r[j]) :
          (i < j \/ (i = j /\ k < l)) /\ r[i][k] # 0 /\ r[j][l] # 0 => P[r[i][k]] < P[r[j][l]]
    <3> SUFFICES ASSUME NEW i \in 1 .. z, NEW j \in 1 .. z,
                        NEW k \in 1 .. Len(r[i]), NEW l \in 1 .. Len(r[j]),
                        i < j \/ (i = j /\ k < l), r[i][k] # 0, r[j][l] # 0
                 PROVE  P[r[i][k]] < P[r[j][l]]
      OBVIOUS
    <3>1. i + 1 < j + 1 \/ (i + 1 = j + 1 /\ k < l)
      BY <1>5
    <3>2. r[i] = s[i + 1] /\ r[j] = s[j + 1] /\ i + 1 \in 1 .. Len(s) /\ j + 1 \in 1 .. Len(s)
      BY <1>5
    <3>3. k \in 1 .. Len(s[i + 1]) /\ l \in 1 .. Len(s[j + 1]) /\ s[i + 1][k] # 0 /\ s[j + 1][l] # 0
      BY <3>2
    <3>4. P[s[i + 1][k]] < P[s[j + 1][l]]
      BY <3>1, <3>2, <3>3 DEF HoldsAll
    <3>5. QED
      BY <3>2, <3>4
  <2>3. \A p \in K : c < P[p] /\ P[p] <= b => \E i \in 1 .. z : \E k \in 1 .. Len(r[i]) : r[i][k] = p
    <3> SUFFICES ASSUME NEW p \in K, c < P[p], P[p] <= b
                 PROVE  \E i \in 1 .. z : \E k \in 1 .. Len(r[i]) : r[i][k] = p
      OBVIOUS
    <3>1. a < P[p] /\ P[p] \in Int
      BY <1>1, <1>3
    <3>2. PICK i \in 1 .. Len(s) : \E k \in 1 .. Len(s[i]) : s[i][k] = p
      BY <3>1 DEF HoldsAll
    <3>3. PICK k \in 1 .. Len(s[i]) : s[i][k] = p
      BY <3>2
    <3>4. s[i][k] # 0
      BY <3>3
    <3>5. i # 1
      BY <1>2, <1>3, <3>1, <3>3, <3>4 DEF FirstUpTo
    <3>6. i - 1 \in 1 .. z /\ (i - 1) + 1 = i
      BY <1>1, <3>5
    <3>7. r[i - 1] = s[i]
      BY <1>5, <3>6
    <3>8. k \in 1 .. Len(r[i - 1]) /\ r[i - 1][k] = p
      BY <3>3, <3>7
    <3>9. QED
      BY <3>6, <3>8
  <2>4. QED
    BY <1>1, <1>3, <1>5, <2>1, <2>2, <2>3 DEF HoldsAll
<1>8. QED
  BY <1>2, <1>6, <1>7 DEF r

-----------------------------------------------------------------------------
\* Cutting texts.
LEMMA ParentNumbers ==
    /\ MaxParent \in Nat /\ MaxParent >= 1 /\ Target \in Nat /\ PreambleMin \in Nat /\ PreambleMin >= 1
    /\ MaxLetters \in Nat
BY ParentSizesAssumption

LEMMA MinIs ==
    ASSUME NEW S \in SUBSET Int, NEW a \in Int, \A i \in S : a <= i, S # {}
    PROVE  Min(S) \in S /\ \A i \in S : Min(S) <= i
<1>1. \E i \in S : \A j \in S : i <= j
  BY LeastExists
<1>2. QED
  BY <1>1 DEF Min

LEMMA MaxIs ==
    ASSUME NEW S \in SUBSET Int, NEW b \in Int, \A i \in S : i <= b, S # {}
    PROVE  Max(S) \in S /\ \A i \in S : i <= Max(S)
<1>1. \E i \in S : \A j \in S : j <= i
  BY GreatestExists
<1>2. \E i \in S : \A j \in S : i >= j
  BY <1>1
<1>3. Max(S) \in S /\ \A i \in S : Max(S) >= i
  BY <1>2 DEF Max
<1>4. QED
  BY <1>3

LEMMA FirstInIs ==
    ASSUME NEW t \in Seq(Nat), NEW S \in SUBSET (1 .. Len(t))
    PROVE  /\ FirstIn(S, t) \in 1 .. Len(t) + 1
           /\ FirstIn(S, t) <= Len(t) => FirstIn(S, t) \in S
           /\ \A i \in S : FirstIn(S, t) <= i
<1> DEFINE R == S \cup {Len(t) + 1}
<1>1. Len(t) \in Nat
  BY SeqDomain
<1>2. R \in SUBSET Int /\ (\A i \in R : 1 <= i /\ i <= Len(t) + 1) /\ R # {} /\ 1 \in Int
  <2>1. \A i \in S : i \in Int /\ 1 <= i /\ i <= Len(t) + 1
    BY <1>1
  <2>2. Len(t) + 1 \in Int /\ 1 <= Len(t) + 1
    BY <1>1
  <2>3. \A i \in R : i \in Int /\ 1 <= i /\ i <= Len(t) + 1
    BY <1>1, <2>1, <2>2
  <2>4. Len(t) + 1 \in R
    OBVIOUS
  <2> HIDE DEF R
  <2>5. QED
    BY <2>3, <2>4
<1>3. FirstIn(S, t) = Min(R)
  BY DEF FirstIn
<1> HIDE DEF R
<1>4. Min(R) \in R /\ \A i \in R : Min(R) <= i
  BY <1>2, MinIs
<1>5. Min(R) \in Int /\ 1 <= Min(R) /\ Min(R) <= Len(t) + 1
  BY <1>2, <1>4
<1>6. Min(R) <= Len(t) => Min(R) \in S
  BY <1>1, <1>4 DEF R
<1>7. \A i \in S : Min(R) <= i
  BY <1>4 DEF R
<1>8. QED
  BY <1>1, <1>3, <1>5, <1>6, <1>7

\* A text is left as it is from its first to its last word.
LEMMA StripIs ==
    ASSUME NEW t \in Seq(Nat)
    PROVE  \/ (\A k \in 1 .. Len(t) : t[k] = 0) /\ Strip(t) = <<>>
           \/ \E m, n \in 1 .. Len(t) :
                 /\ m <= n /\ t[m] # 0 /\ t[n] # 0 /\ Strip(t) = SubSeq(t, m, n)
                 /\ \A k \in 1 .. Len(t) : k \notin m .. n => t[k] = 0
<1> DEFINE W == {i \in DOMAIN t : t[i] # 0}
           m == FirstIn(W, t)
           n == Max(W \cup {0})
<1>1. Len(t) \in Nat /\ DOMAIN t = 1 .. Len(t)
  BY SeqDomain
<1>2. Strip(t) = SubSeq(t, m, n)
  BY DEF Strip
<1>3. W \in SUBSET (1 .. Len(t)) /\ \A i \in 1 .. Len(t) : i \in W <=> t[i] # 0
  BY <1>1
<1> HIDE DEF W
<1>4. m \in 1 .. Len(t) + 1 /\ (m <= Len(t) => m \in W) /\ \A i \in W : m <= i
  BY <1>3, FirstInIs
<1>5. n \in W \cup {0} /\ \A i \in W \cup {0} : i <= n
  <2> DEFINE R == W \cup {0}
  <2>1. R \in SUBSET Int /\ (\A i \in R : i <= Len(t)) /\ R # {} /\ Len(t) \in Int
    BY <1>1, <1>3
  <2> HIDE DEF R
  <2>2. Max(R) \in R /\ \A i \in R : i <= Max(R)
    BY <2>1, MaxIs
  <2>3. QED
    BY <2>2 DEF R
<1>6. CASE W = {}
  <2>1. m = Len(t) + 1 /\ n = 0
    BY <1>1, <1>4, <1>5, <1>6
  <2>2. CASE Len(t) = 0
    <3>1. t = <<>>
      BY <2>2, EmptySeq
    <3>2. SubSeq(<<>>, 1, 0) = <<>>
      OBVIOUS
    <3>3. QED
      BY <1>2, <1>3, <1>6, <2>1, <2>2, <3>1, <3>2
  <2>3. CASE Len(t) # 0
    <3>1. SubSeq(t, Len(t) + 1, 0) = <<>>
      BY <1>1, <2>3
    <3>2. QED
      BY <1>2, <1>3, <1>6, <2>1, <3>1
  <2>4. QED
    BY <2>2, <2>3
<1>7. CASE W # {}
  <2>1. PICK w \in W : TRUE
    BY <1>7
  <2>2. w \in 1 .. Len(t) /\ m <= w /\ w <= n
    BY <1>3, <1>4, <1>5, <2>1
  <2>3. m \in 1 .. Len(t) /\ m \in W
    BY <1>1, <1>4, <2>2
  <2>4. n \in W /\ n \in 1 .. Len(t)
    <3>1. n # 0
      BY <1>5, <2>2
    <3>2. QED
      BY <1>3, <1>5, <3>1
  <2>5. \A k \in 1 .. Len(t) : k \notin m .. n => t[k] = 0
    <3> SUFFICES ASSUME NEW k \in 1 .. Len(t), t[k] # 0 PROVE k \in m .. n
      OBVIOUS
    <3>1. k \in W
      BY <1>3
    <3>2. m <= k /\ k <= n
      BY <1>4, <1>5, <3>1
    <3>3. QED
      BY <2>3, <2>4, <3>2
  <2>6. m <= n /\ t[m] # 0 /\ t[n] # 0
    BY <1>3, <2>2, <2>3, <2>4
  <2>7. QED
    BY <1>2, <2>3, <2>4, <2>5, <2>6
<1>8. QED
  BY <1>6, <1>7

\* A text that begins and ends with a word.
Trim(t) == t \in Seq(Nat) /\ Len(t) >= 1 /\ t[1] # 0 /\ t[Len(t)] # 0

OneLine(t) == \A k \in 1 .. Len(t) : t[k] # 0

LEMMA SubTrim ==
    ASSUME NEW t \in Seq(Nat), NEW m \in 1 .. Len(t), NEW n \in 1 .. Len(t), m <= n, t[m] # 0, t[n] # 0
    PROVE  Trim(SubSeq(t, m, n))
<1>1. Len(t) \in Nat
  BY SeqDomain
<1>2. m \in Nat /\ n \in Nat /\ 1 <= m /\ m <= n + 1 /\ n <= Len(t)
  BY <1>1
<1>3. /\ SubSeq(t, m, n) \in Seq(Nat) /\ Len(SubSeq(t, m, n)) = n - m + 1
      /\ \A k \in 1 .. n - m + 1 : SubSeq(t, m, n)[k] = t[m + k - 1]
  BY <1>2, SubText
<1>4. 1 \in 1 .. n - m + 1 /\ n - m + 1 \in 1 .. n - m + 1 /\ m + 1 - 1 = m /\ m + (n - m + 1) - 1 = n
  BY <1>2
<1>5. SubSeq(t, m, n)[1] = t[m] /\ SubSeq(t, m, n)[n - m + 1] = t[n]
  BY <1>3, <1>4
<1>6. QED
  BY <1>2, <1>3, <1>5 DEF Trim

LEMMA SubParagraph ==
    ASSUME NEW t \in Seq(Nat), NEW m \in Nat, NEW n \in Nat, 1 <= m, m <= n + 1, n <= Len(t)
    PROVE  /\ OneParagraph(t) => OneParagraph(SubSeq(t, m, n))
           /\ OneLine(t) => OneLine(SubSeq(t, m, n))
<1> DEFINE u == SubSeq(t, m, n)
<1>1. Len(u) = n - m + 1 /\ Len(t) \in Nat /\ \A k \in 1 .. n - m + 1 : u[k] = t[m + k - 1]
  BY SubText, SeqDomain
<1> HIDE DEF u
<1>2. ASSUME OneParagraph(t) PROVE OneParagraph(u)
  <2> SUFFICES ASSUME NEW k \in 1 .. Len(u) - 1 PROVE u[k] # 0 \/ u[k + 1] # 0
    BY DEF OneParagraph
  <2>1. k \in 1 .. n - m + 1 /\ k + 1 \in 1 .. n - m + 1 /\ m + (k + 1) - 1 = (m + k - 1) + 1
    BY <1>1
  <2>2. m + k - 1 \in 1 .. Len(t) - 1
    BY <1>1, <2>1
  <2>3. t[m + k - 1] # 0 \/ t[(m + k - 1) + 1] # 0
    BY <1>2, <2>2 DEF OneParagraph
  <2>4. QED
    BY <1>1, <2>1, <2>3
<1>3. ASSUME OneLine(t) PROVE OneLine(u)
  <2> SUFFICES ASSUME NEW k \in 1 .. Len(u) PROVE u[k] # 0
    BY DEF OneLine
  <2>1. k \in 1 .. n - m + 1 /\ m + k - 1 \in 1 .. Len(t)
    BY <1>1
  <2>2. QED
    BY <1>1, <1>3, <2>1 DEF OneLine
<1>4. QED
  BY <1>2, <1>3 DEF u

\* What a stripped text keeps.
LEMMA StripKeeps ==
    ASSUME NEW t \in Seq(Nat)
    PROVE  /\ Strip(t) \in Seq(Nat) /\ Len(Strip(t)) <= Len(t)
           /\ Strip(t) = <<>> <=> \A k \in 1 .. Len(t) : t[k] = 0
           /\ Strip(t) # <<>> => Trim(Strip(t))
           /\ OneParagraph(t) => OneParagraph(Strip(t))
<1>1. Len(t) \in Nat
  BY SeqDomain
<1>2. CASE (\A k \in 1 .. Len(t) : t[k] = 0) /\ Strip(t) = <<>>
  <2>1. <<>> \in Seq(Nat) /\ Len(<<>>) = 0 /\ OneParagraph(<<>>)
    BY DEF OneParagraph
  <2>2. QED
    BY <1>1, <1>2, <2>1
<1>3. ASSUME NEW m \in 1 .. Len(t), NEW n \in 1 .. Len(t), m <= n, t[m] # 0, t[n] # 0, Strip(t) = SubSeq(t, m, n)
      PROVE  /\ Strip(t) \in Seq(Nat) /\ Len(Strip(t)) <= Len(t)
             /\ Strip(t) # <<>> /\ ~(\A k \in 1 .. Len(t) : t[k] = 0)
             /\ Trim(Strip(t))
             /\ OneParagraph(t) => OneParagraph(Strip(t))
  <2>1. Trim(Strip(t))
    BY <1>3, SubTrim
  <2>2. m \in Nat /\ n \in Nat /\ 1 <= m /\ m <= n + 1 /\ n <= Len(t)
    BY <1>1, <1>3
  <2>3. Strip(t) \in Seq(Nat) /\ Len(Strip(t)) = n - m + 1
    <3>1. SubSeq(t, m, n) \in Seq(Nat) /\ Len(SubSeq(t, m, n)) = n - m + 1
      BY <2>2, SubText
    <3>2. QED
      BY <1>3, <3>1
  <2>4. OneParagraph(t) => OneParagraph(Strip(t))
    BY <1>3, <2>2, SubParagraph
  <2>5. Strip(t) # <<>>
    BY <2>1, <2>3, EmptySeq DEF Trim
  <2>6. Len(Strip(t)) <= Len(t)
    BY <1>1, <2>2, <2>3
  <2>7. QED
    BY <1>3, <2>1, <2>3, <2>4, <2>5, <2>6
<1>4. QED
  BY <1>2, <1>3, StripIs

LEMMA StripHolds ==
    ASSUME NEW K \in SUBSET (Nat \ {0}), NEW P \in [K -> Int], NEW a, NEW b, NEW t, Holds(K, P, t, a, b)
    PROVE  Holds(K, P, Strip(t), a, b)
<1>1. t \in Seq(Nat) /\ Len(t) \in Nat
  BY SeqDomain DEF Holds
<1>2. CASE (\A k \in 1 .. Len(t) : t[k] = 0) /\ Strip(t) = <<>>
  <2>1. SubSeq(t, 1, 0) = <<>>
    BY <1>1
  <2>2. Holds(K, P, SubSeq(t, 1, 0), a, b)
    <3>1. 1 \in Nat /\ 0 \in Nat /\ 1 <= 1 /\ 1 <= 0 + 1 /\ 0 <= Len(t)
      BY <1>1
    <3>2. QED
      BY <1>2, <3>1, BareHolds
  <2>3. QED
    BY <1>2, <2>1, <2>2
<1>3. ASSUME NEW m \in 1 .. Len(t), NEW n \in 1 .. Len(t), m <= n, Strip(t) = SubSeq(t, m, n),
             \A k \in 1 .. Len(t) : k \notin m .. n => t[k] = 0
      PROVE  Holds(K, P, Strip(t), a, b)
  <2>1. m \in Nat /\ n \in Nat /\ 1 <= m /\ m <= n + 1 /\ n <= Len(t)
    BY <1>1, <1>3
  <2>2. QED
    BY <1>3, <2>1, BareHolds
<1>4. QED
  BY <1>1, <1>2, <1>3, StripIs

-----------------------------------------------------------------------------
\* What the running loop reads next.
Steps == {"sections", "groups"} \cup Tiers

LEMMA CutIs ==
    ASSUME rest \in Seq(Nat), step \in Steps
    PROVE  /\ Len(rest) \in Nat /\ CutAt \in 1 .. Len(rest) + 1
           /\ CutAt <= Len(rest) => CutAt \in Cuts
           /\ \A i \in Cuts : CutAt <= i
           /\ RestAt \in CutAt .. Len(rest) + 1
           /\ RestAt <= Len(rest) => rest[RestAt] # 0
           /\ \A k \in CutAt .. RestAt - 1 : rest[k] = 0 \/ k > Len(rest)
<1>1. Len(rest) \in Nat /\ DOMAIN rest = 1 .. Len(rest)
  BY SeqDomain
<1>2. Cuts \in SUBSET (1 .. Len(rest))
  <2>1. CASE step = "sections"
    BY <1>1, <2>1 DEF Cuts
  <2>2. CASE step \in {"groups", "paragraphs"}
    BY <1>1, <2>2 DEF Cuts
  <2>3. CASE step = "lines"
    BY <1>1, <2>3 DEF Cuts
  <2>4. CASE step = "slices"
    BY <1>1, <2>4 DEF Cuts
  <2>5. QED
    BY <2>1, <2>2, <2>3, <2>4 DEF Steps, Tiers
<1>3. /\ CutAt \in 1 .. Len(rest) + 1
      /\ CutAt <= Len(rest) => CutAt \in Cuts
      /\ \A i \in Cuts : CutAt <= i
  BY <1>2, FirstInIs DEF CutAt
<1> DEFINE S == {i \in CutAt .. Len(rest) : rest[i] # 0}
<1>4. S \in SUBSET (1 .. Len(rest))
  BY <1>1, <1>3
<1>5. RestAt = FirstIn(S, rest)
  BY DEF RestAt
<1> HIDE DEF S
<1>6. /\ RestAt \in 1 .. Len(rest) + 1
      /\ RestAt <= Len(rest) => RestAt \in S
      /\ \A i \in S : RestAt <= i
  BY <1>4, <1>5, FirstInIs
<1>7. RestAt >= CutAt /\ (RestAt <= Len(rest) => rest[RestAt] # 0)
  BY <1>1, <1>3, <1>6 DEF S
<1>8. \A k \in CutAt .. RestAt - 1 : rest[k] = 0 \/ k > Len(rest)
  <2> SUFFICES ASSUME NEW k \in CutAt .. RestAt - 1, rest[k] # 0, ~(k > Len(rest)) PROVE FALSE
    OBVIOUS
  <2>1. k \in S
    BY <1>1, <1>3, <1>6 DEF S
  <2>2. RestAt <= k
    BY <1>6, <2>1
  <2>3. QED
    BY <1>3, <1>6, <2>2
<1>9. QED
  BY <1>1, <1>3, <1>6, <1>7, <1>8

LEMMA PartIs ==
    ASSUME rest \in Seq(Nat), step \in Steps
    PROVE  /\ Part \in Seq(Nat) /\ Remains \in Seq(Nat)
           /\ Len(Part) = CutAt - 1 /\ Len(Remains) = Len(rest) - RestAt + 1
           /\ \A k \in 1 .. Len(Part) : Part[k] = rest[k]
           /\ \A k \in 1 .. Len(Remains) : RestAt + k - 1 \in RestAt .. Len(rest) /\ Remains[k] = rest[RestAt + k - 1]
<1>1. Len(rest) \in Nat /\ CutAt \in 1 .. Len(rest) + 1 /\ RestAt \in CutAt .. Len(rest) + 1
  BY CutIs
<1>2. CutAt - 1 \in Nat /\ 1 \in Nat /\ 1 <= (CutAt - 1) + 1 /\ CutAt - 1 <= Len(rest)
  BY <1>1
<1>3. /\ Part \in Seq(Nat) /\ Len(Part) = (CutAt - 1) - 1 + 1
      /\ \A k \in 1 .. (CutAt - 1) - 1 + 1 : Part[k] = rest[1 + k - 1]
  BY <1>2, SubText DEF Part
<1>4. RestAt \in Nat /\ 1 <= RestAt /\ RestAt <= Len(rest) + 1 /\ Len(rest) <= Len(rest)
  BY <1>1
<1>5. /\ Remains \in Seq(Nat) /\ Len(Remains) = Len(rest) - RestAt + 1
      /\ \A k \in 1 .. Len(rest) - RestAt + 1 : Remains[k] = rest[RestAt + k - 1]
  BY <1>1, <1>4, SubText DEF Remains
<1>6. (CutAt - 1) - 1 + 1 = CutAt - 1 /\ \A k \in 1 .. CutAt - 1 : 1 + k - 1 = k
  BY <1>1
<1>7. \A k \in 1 .. Len(rest) - RestAt + 1 : RestAt + k - 1 \in RestAt .. Len(rest)
  BY <1>1
<1>8. Part \in Seq(Nat) /\ Len(Part) = CutAt - 1 /\ \A k \in 1 .. CutAt - 1 : Part[k] = rest[k]
  BY <1>3, <1>6
<1>9. QED
  BY <1>5, <1>7, <1>8

LEMMA RestIsCut ==
    ASSUME NEW K \in SUBSET (Nat \ {0}), NEW P \in [K -> Int], NEW a, NEW b, Holds(K, P, rest, a, b),
           step \in Steps
    PROVE  \E c \in a .. b : Holds(K, P, Part, a, c) /\ Holds(K, P, Remains, c, b)
<1>1. rest \in Seq(Nat)
  BY DEF Holds
<1>2. /\ Len(rest) \in Nat /\ CutAt \in 1 .. Len(rest) + 1 /\ RestAt \in CutAt .. Len(rest) + 1
      /\ \A k \in CutAt .. RestAt - 1 : rest[k] = 0 \/ k > Len(rest)
  BY <1>1, CutIs
<1> DEFINE m == CutAt - 1
<1>3. m \in Nat /\ RestAt \in Nat /\ m < RestAt /\ RestAt <= Len(rest) + 1
  BY <1>2
<1>4. \A k \in m + 1 .. RestAt - 1 : rest[k] = 0
  BY <1>2
<1>5. Part = SubSeq(rest, 1, m) /\ Remains = SubSeq(rest, RestAt, Len(rest))
  BY DEF Part, Remains
<1> HIDE DEF m
<1>6. \E c \in a .. b : Holds(K, P, SubSeq(rest, 1, m), a, c) /\ Holds(K, P, SubSeq(rest, RestAt, Len(rest)), c, b)
  BY <1>3, <1>4, CutHolds
<1>7. QED
  BY <1>5, <1>6

\* What is cut at a tier, and what is still too long behind it.
Fresh(s, t) == (s = "lines" => OneParagraph(t)) /\ (s = "slices" => OneLine(t))

Spent(s, t) == (s = "paragraphs" => OneParagraph(t)) /\ (s = "lines" => OneLine(t)) /\ s # "slices"

\* There is no cut in the part.
LEMMA PartIsUncut ==
    ASSUME rest \in Seq(Nat), step \in Steps
    PROVE  /\ step \in {"groups", "paragraphs"} => OneParagraph(Part)
           /\ step = "lines" => OneLine(Part)
           /\ step = "slices" => Len(Part) <= MaxParent
<1>1. /\ Len(rest) \in Nat /\ CutAt \in 1 .. Len(rest) + 1
      /\ \A i \in Cuts : CutAt <= i
  BY CutIs
<1>2. Len(Part) = CutAt - 1 /\ \A k \in 1 .. Len(Part) : Part[k] = rest[k]
  BY PartIs
<1>3. DOMAIN rest = 1 .. Len(rest)
  BY SeqDomain
<1>4. ASSUME step \in {"groups", "paragraphs"} PROVE OneParagraph(Part)
  <2> SUFFICES ASSUME NEW k \in 1 .. Len(Part) - 1, Part[k] = 0, Part[k + 1] = 0 PROVE FALSE
    BY DEF OneParagraph
  <2>1. k \in 1 .. Len(Part) /\ k + 1 \in 1 .. Len(Part) /\ k \in 1 .. Len(rest) - 1 /\ k < CutAt
    BY <1>1, <1>2
  <2>2. rest[k] = 0 /\ rest[k + 1] = 0
    BY <1>2, <2>1
  <2>3. k \in Cuts
    BY <1>4, <2>1, <2>2 DEF Cuts
  <2>4. QED
    BY <1>1, <2>1, <2>3
<1>5. ASSUME step = "lines" PROVE OneLine(Part)
  <2> SUFFICES ASSUME NEW k \in 1 .. Len(Part), Part[k] = 0 PROVE FALSE
    BY DEF OneLine
  <2>1. k \in 1 .. Len(rest) /\ k < CutAt
    BY <1>1, <1>2
  <2>2. k \in Cuts
    BY <1>2, <1>3, <1>5, <2>1 DEF Cuts
  <2>3. QED
    BY <1>1, <2>1, <2>2
<1>6. ASSUME step = "slices" PROVE Len(Part) <= MaxParent
  <2>1. CASE MaxParent + 1 <= Len(rest)
    <3>1. MaxParent + 1 \in 1 .. Len(rest)
      BY <1>1, <2>1, ParentNumbers
    <3>2. MaxParent + 1 \in Cuts
      BY <1>3, <1>6, <3>1 DEF Cuts
    <3>3. QED
      BY <1>1, <1>2, <3>2, ParentNumbers
  <2>2. CASE ~(MaxParent + 1 <= Len(rest))
    BY <1>1, <1>2, <2>2, ParentNumbers
  <2>3. QED
    BY <2>1, <2>2
<1>7. QED
  BY <1>4, <1>5, <1>6

\* Nothing is empty or begins or ends with a newline on the way through the
\* tiers, and what remains has only cuts that are left for this tier.
LEMMA TierPart ==
    ASSUME step \in Tiers, Trim(rest), Fresh(step, rest)
    PROVE  /\ Trim(Part) /\ (Len(Part) > MaxParent => Spent(step, Part))
           /\ Remains # <<>> => Trim(Remains) /\ Fresh(step, Remains)
           /\ OneParagraph(rest) =>
                 OneParagraph(Part) /\ OneParagraph(Remains) /\ (step = "paragraphs" => Remains = <<>>)
<1>1. step \in Steps /\ rest \in Seq(Nat) /\ Len(rest) \in Nat /\ Len(rest) >= 1
      /\ rest[1] # 0 /\ rest[Len(rest)] # 0 /\ DOMAIN rest = 1 .. Len(rest)
  BY SeqDomain DEF Steps, Trim
<1>2. /\ CutAt \in 1 .. Len(rest) + 1 /\ (CutAt <= Len(rest) => CutAt \in Cuts)
      /\ \A i \in Cuts : CutAt <= i
      /\ RestAt \in CutAt .. Len(rest) + 1 /\ (RestAt <= Len(rest) => rest[RestAt] # 0)
  BY <1>1, CutIs
<1>3. Part = SubSeq(rest, 1, CutAt - 1) /\ Remains = SubSeq(rest, RestAt, Len(rest))
  BY DEF Part, Remains
<1>4. step \in {"paragraphs", "lines", "slices"}
  BY DEF Tiers
<1>5. CutAt # 1
  <2> SUFFICES ASSUME CutAt = 1 PROVE FALSE
    OBVIOUS
  <2>1. 1 \in Cuts
    BY <1>1, <1>2
  <2>2. CASE step = "paragraphs"
    BY <1>1, <2>1, <2>2 DEF Cuts
  <2>3. CASE step = "lines"
    BY <1>1, <2>1, <2>3 DEF Cuts
  <2>4. CASE step = "slices"
    BY <2>1, <2>4, ParentNumbers DEF Cuts
  <2>5. QED
    BY <1>4, <2>2, <2>3, <2>4
<1>6. CutAt - 1 \in 1 .. Len(rest) /\ 1 \in 1 .. Len(rest) /\ 1 <= CutAt - 1
  BY <1>1, <1>2, <1>5
<1>7. rest[CutAt - 1] # 0
  <2>1. CASE CutAt = Len(rest) + 1
    BY <1>1, <2>1
  <2>2. CASE CutAt <= Len(rest)
    <3> SUFFICES ASSUME rest[CutAt - 1] = 0 PROVE FALSE
      OBVIOUS
    <3>1. CutAt \in Cuts /\ CutAt - 1 \notin Cuts
      BY <1>2, <2>2
    <3>2. CASE step = "paragraphs"
      <4>1. rest[CutAt] = 0
        BY <3>1, <3>2 DEF Cuts
      <4>2. CutAt - 1 \in 1 .. Len(rest) - 1 /\ (CutAt - 1) + 1 = CutAt
        BY <1>1, <1>2, <1>6, <2>2
      <4>3. CutAt - 1 \in Cuts
        BY <3>2, <4>1, <4>2 DEF Cuts
      <4>4. QED
        BY <3>1, <4>3
    <3>3. CASE step = "lines"
      BY <1>1, <1>6, <3>1, <3>3 DEF Cuts
    <3>4. CASE step = "slices"
      BY <1>6, <3>4 DEF Fresh, OneLine
    <3>5. QED
      BY <1>4, <3>2, <3>3, <3>4
  <2>3. QED
    BY <1>1, <1>2, <2>1, <2>2
<1>8. Trim(Part)
  BY <1>1, <1>3, <1>6, <1>7, SubTrim
<1>9. Len(Part) > MaxParent => Spent(step, Part)
  <2>1. Len(Part) = CutAt - 1
    BY <1>1, PartIs
  <2>2. QED
    BY <1>1, <1>2, <1>4, <2>1, PartIsUncut, ParentNumbers DEF Spent
<1>10. RestAt \in Nat /\ 1 <= RestAt /\ RestAt <= Len(rest) + 1 /\ Len(rest) <= Len(rest)
  BY <1>1, <1>2
<1>11. ASSUME Remains # <<>> PROVE Trim(Remains) /\ Fresh(step, Remains)
  <2>1. RestAt \in 1 .. Len(rest) /\ RestAt <= Len(rest)
    <3>1. ~(RestAt > Len(rest))
      <4> SUFFICES ASSUME RestAt > Len(rest) PROVE FALSE
        OBVIOUS
      <4>1. Remains = <<>>
        BY <1>1, <1>2, <1>3, SubSeqEmpty
      <4>2. QED
        BY <1>11, <4>1
    <3>2. QED
      BY <1>1, <1>10, <3>1
  <2>2. Len(rest) \in 1 .. Len(rest) /\ rest[RestAt] # 0
    BY <1>1, <1>2, <2>1
  <2>3. Trim(Remains)
    BY <1>1, <1>3, <2>1, <2>2, SubTrim
  <2>4. Fresh(step, Remains)
    BY <1>1, <1>3, <1>10, SubParagraph DEF Fresh
  <2>5. QED
    BY <2>3, <2>4
<1>12. ASSUME OneParagraph(rest)
       PROVE  OneParagraph(Part) /\ OneParagraph(Remains) /\ (step = "paragraphs" => Remains = <<>>)
  <2>1. OneParagraph(Remains)
    BY <1>1, <1>3, <1>10, <1>12, SubParagraph
  <2>2. OneParagraph(Part)
    <3>1. CutAt - 1 \in Nat /\ 1 \in Nat /\ 1 <= (CutAt - 1) + 1 /\ CutAt - 1 <= Len(rest)
      BY <1>1, <1>2
    <3>2. QED
      BY <1>1, <1>3, <1>12, <3>1, SubParagraph
  <2>3. ASSUME step = "paragraphs" PROVE Remains = <<>>
    <3>1. Cuts = {}
      BY <1>12, <2>3 DEF Cuts, OneParagraph
    <3>2. RestAt > Len(rest)
      BY <1>1, <1>2, <3>1
    <3>3. QED
      BY <1>1, <1>2, <1>3, <3>2, SubSeqEmpty
  <2>4. QED
    BY <2>1, <2>2, <2>3
<1>13. QED
  BY <1>8, <1>9, <1>11, <1>12

LEMMA JoinTrims ==
    ASSUME NEW t, Trim(t), NEW u, Trim(u), NEW z \in Newlines
    PROVE  /\ Trim(t \o z \o u)
           /\ OneParagraph(t) /\ OneParagraph(u) /\ z # <<0, 0>> => OneParagraph(t \o z \o u)
<1> DEFINE v == t \o z \o u
           x == Len(t)
           y == Len(z)
<1>1. t \in Seq(Nat) /\ u \in Seq(Nat) /\ x >= 1 /\ Len(u) >= 1 /\ t[1] # 0 /\ t[x] # 0 /\ u[1] # 0 /\ u[Len(u)] # 0
  BY DEF Trim
<1>2. /\ v \in Seq(Nat) /\ x \in Nat /\ y \in 0 .. 2 /\ Len(u) \in Nat /\ Len(v) = x + y + Len(u)
      /\ \A k \in 1 .. x : v[k] = t[k]
      /\ \A k \in x + 1 .. x + y : v[k] = 0
      /\ \A k \in 1 .. Len(u) : v[x + y + k] = u[k]
  BY <1>1, JoinedText
<1>3. z # <<0, 0>> => y <= 1
  BY DEF Newlines
<1> HIDE DEF v, x, y
<1>4. Trim(v)
  <2>1. 1 \in 1 .. x /\ Len(u) \in 1 .. Len(u)
    BY <1>1, <1>2 DEF x
  <2>2. v[1] = t[1] /\ v[x + y + Len(u)] = u[Len(u)]
    BY <1>2, <2>1
  <2>3. v[1] # 0 /\ v[Len(v)] # 0 /\ Len(v) >= 1
    BY <1>1, <1>2, <2>1, <2>2
  <2>4. QED
    BY <1>2, <2>3 DEF Trim
<1>5. ASSUME OneParagraph(t), OneParagraph(u), y <= 1 PROVE OneParagraph(v)
  <2> SUFFICES ASSUME NEW k \in 1 .. Len(v) - 1 PROVE v[k] # 0 \/ v[k + 1] # 0
    BY DEF OneParagraph
  <2>1. k \in Nat /\ k >= 1 /\ k + 1 <= x + y + Len(u)
    BY <1>2
  <2>2. CASE k < x
    <3>1. k \in 1 .. x - 1 /\ k \in 1 .. x /\ k + 1 \in 1 .. x
      BY <1>2, <2>1, <2>2
    <3>2. t[k] # 0 \/ t[k + 1] # 0
      BY <1>5, <3>1 DEF OneParagraph, x
    <3>3. QED
      BY <1>2, <3>1, <3>2
  <2>3. CASE k = x
    <3>1. x \in 1 .. x
      BY <1>1, <1>2
    <3>2. v[x] = t[x]
      BY <1>2, <3>1
    <3>3. QED
      BY <1>1, <2>3, <3>2
  <2>4. CASE k = x + y
    <3>1. 1 \in 1 .. Len(u)
      BY <1>1, <1>2
    <3>2. v[x + y + 1] = u[1]
      BY <1>2, <3>1
    <3>3. QED
      BY <1>1, <2>4, <3>2
  <2>5. CASE k > x + y
    <3> DEFINE l == k - (x + y)
    <3>1. l \in 1 .. Len(u) - 1 /\ l \in 1 .. Len(u) /\ l + 1 \in 1 .. Len(u) /\ x + y + l = k /\ x + y + (l + 1) = k + 1
      BY <1>2, <2>1, <2>5
    <3> HIDE DEF l
    <3>2. u[l] # 0 \/ u[l + 1] # 0
      BY <1>5, <3>1 DEF OneParagraph
    <3>3. v[x + y + l] = u[l] /\ v[x + y + (l + 1)] = u[l + 1]
      BY <1>2, <3>1
    <3>4. QED
      BY <3>1, <3>2, <3>3
  <2>6. QED
    BY <1>2, <1>5, <2>1, <2>2, <2>3, <2>4, <2>5
<1>6. QED
  BY <1>3, <1>4, <1>5 DEF v

-----------------------------------------------------------------------------
\* The inductive invariant.  The letters that get into a parent are those that
\* are no newline and stand in a section, or in the preamble if it is kept;
\* without a section they all do.  Their places are those of the document, but
\* for the title of the preamble, which is lifted above it.
Kept == {p \in DOMAIN document :
            document[p] # "\n" /\ (start <= p \/ \E i \in DOMAIN preamble : p \in ToSet(preamble[i].text))}

Place == [p \in Kept |-> IF Lifted(p) THEN p - Len(document) ELSE p]

Lowest == 0 - Len(document)

Highest == Len(document)

TextsOf(ps) == [i \in DOMAIN ps |-> ps[i].text]

TextHolds(text, a, b) == Holds(Kept, Place, text, a, b)

TextsHold(texts, a, b) == HoldsAll(Kept, Place, texts, a, b)

ParentSet == [kind : {"preamble", "section", "paragraph_group"}, title : Seq(Nat), text : Seq(Nat)]

Grouped(kind, text) == kind = "paragraph_group" /\ Len(text) > Target => OneParagraph(text)

\* No heading is between the title of a section and a letter of it.
Under(headings, title, c) == c # 0 => title[1] <= c /\ \A h \in title[1] + 1 .. c : h \notin headings

GoodParent(headings, p) ==
    /\ p \in ParentSet /\ Trim(p.text) /\ Grouped(p.kind, p.text)
    /\ p.kind = "section" => \A k \in 1 .. Len(p.text) : Under(headings, p.title, p.text[k])

\* What is before the first section is lost only when it is too little.
SourceInv ==
    /\ document \in Seq(Letters) /\ document # <<>>
    /\ start \in 0 .. Len(document)
    /\ \A i \in DOMAIN preamble : \A c \in ToSet(preamble[i].title) : c \in Nat /\ c < start
    /\ \A p \in 1 .. start - 1 :
         \/ document[p] = "\n" \/ MarksTitle(p)
         \/ \E i \in DOMAIN preamble : p \in ToSet(preamble[i].text)
         \/ preamble = <<>> /\ Cardinality(Intro) < PreambleMin

AtRestInv == rest = <<>> /\ buf = <<>> /\ todo = <<>> /\ done = <<>>

\* The document has been read up to rest.
ExtractInv ==
    /\ parents = <<>> /\ todo = <<>> /\ done = <<>>
    /\ \E b \in Int : TextsHold(TextsOf(raw), Lowest, b) /\
       \E c \in Int : TextHolds(buf, b, c) /\ TextHolds(rest, c, Highest)
    /\ step = "sections" =>
          /\ buf = <<>>
          /\ rest # <<>> => rest[1] \in Headings("##")
          /\ \A k \in 1 .. Len(rest) : rest[k] # 0 => start <= rest[k]
    /\ step = "groups" =>
          /\ preamble = <<>>
          /\ buf # <<>> => \E k \in 1 .. Len(buf) : buf[k] # 0
          /\ Len(buf) <= bufLen
          /\ OneParagraph(buf) \/ bufLen <= Target

CapInv ==
    /\ AtRestInv
    /\ \E a \in Int : TextsHold(TextsOf(parents), Lowest, a) /\ TextsHold(TextsOf(raw), a, Highest)

\* The text of the parent that is split is in done, buf, rest and todo; what is
\* left of an empty line or a newline in one that is too long is still cut.
SplitShape ==
    /\ step = "paragraphs" => todo = <<>>
    /\ rest # <<>> => Trim(rest) /\ Fresh(step, rest)
    /\ buf # <<>> => Trim(buf) /\ (Len(buf) > MaxParent => Spent(step, buf))
    /\ \A i \in 1 .. Len(done) : Trim(done[i]) /\ (Len(done[i]) > MaxParent => Spent(step, done[i]))
    /\ \A i \in 1 .. Len(todo) : Trim(todo[i]) /\ (Len(todo[i]) > MaxParent => Fresh(step, todo[i]))

WholeParagraph ==
    /\ step = "paragraphs" => rest = <<>> \/ buf = <<>>
    /\ OneParagraph(rest) /\ OneParagraph(buf)
    /\ \A i \in 1 .. Len(done) : OneParagraph(done[i])
    /\ \A i \in 1 .. Len(todo) : OneParagraph(todo[i])

TierHolds(a, e) ==
    \E b \in Int : TextsHold(done, a, b) /\
    \E c \in Int : TextHolds(buf, b, c) /\
    \E d \in Int : TextHolds(rest, c, d) /\ TextsHold(todo, d, e)

Splits(text) ==
    \E a, e \in Int :
        /\ TextsHold(TextsOf(parents), Lowest, a) /\ TextHolds(text, a, e)
        /\ TextsHold(TextsOf(Tail(raw)), e, Highest)
        /\ TierHolds(a, e)

CascadeInv ==
    /\ raw # <<>> /\ Len(raw[1].text) > MaxParent
    /\ SplitShape
    /\ OneParagraph(raw[1].text) => WholeParagraph
    /\ Splits(raw[1].text)

ParentLists ==
    /\ \A i \in 1 .. Len(raw) : GoodParent(Headings("##"), raw[i])
    /\ \A i \in 1 .. Len(parents) :
          GoodParent(Headings("##"), parents[i]) /\ Len(parents[i].text) <= MaxParent

ParentTypes ==
    /\ rest \in Seq(Nat) /\ buf \in Seq(Nat) /\ bufLen \in Nat
    /\ raw \in Seq(ParentSet) /\ parents \in Seq(ParentSet)
    /\ todo \in Seq(Seq(Nat)) /\ done \in Seq(Seq(Nat))

ParentInv ==
    /\ ParentTypes
    /\ ParentLists
    /\ step \in {"idle", "sections", "groups", "cap"} \cup Tiers
    /\ step = "idle" => ParentInit
    /\ step # "idle" => SourceInv
    /\ step \in {"sections", "groups"} => ExtractInv
    /\ step = "cap" => CapInv
    /\ step \in Tiers => CascadeInv

LEMMA PlacesAreNumbers ==
    ASSUME document \in Seq(Letters)
    PROVE  /\ Kept \in SUBSET (Nat \ {0}) /\ Place \in [Kept -> Int]
           /\ Highest \in Nat /\ Lowest \in Int /\ Lowest <= Highest
           /\ DOMAIN document = 1 .. Highest
<1>1. DOMAIN document = 1 .. Len(document) /\ Len(document) \in Nat
  BY SeqDomain
<1>2. Kept \in SUBSET (Nat \ {0}) /\ \A p \in Kept : p \in Int
  BY <1>1 DEF Kept
<1>3. \A p \in Kept : (IF Lifted(p) THEN p - Len(document) ELSE p) \in Int
  BY <1>1, <1>2
<1>4. QED
  BY <1>1, <1>2, <1>3 DEF Place, Highest, Lowest

\* Nothing but ExtractDocument changes what is said of the document.
LEMMA SourceStays ==
    ASSUME UNCHANGED sourceVars
    PROVE  /\ SourceInv => SourceInv'
           /\ Kept' = Kept /\ Place' = Place /\ Lowest' = Lowest /\ Highest' = Highest
           /\ Headings("##")' = Headings("##")
<1>1. document' = document /\ start' = start /\ preamble' = preamble
  BY DEF sourceVars
<1>2. Headings("##")' = Headings("##") /\ Headings("#")' = Headings("#")
  BY <1>1 DEF Headings
<1>3. Lowest' = Lowest /\ Highest' = Highest
  BY <1>1 DEF Lowest, Highest
<1>4. Kept' = Kept
  BY <1>1 DEF Kept
<1>5. Place' = Place
  BY <1>1, <1>4 DEF Place, Lifted
<1>6. Intro' = Intro
  <2>1. Tops' = Tops
    BY <1>1, <1>2 DEF Tops, WordAfter
  <2>2. TitleAt' = TitleAt
    BY <1>1, <2>1 DEF TitleAt, WordAfter
  <2>3. TitleEnd' = TitleEnd
    BY <1>1, <2>2 DEF TitleEnd
  <2>4. QED
    BY <1>1, <2>1, <2>3 DEF Intro
<1>7. SourceInv => SourceInv'
  BY <1>1, <1>6 DEF SourceInv, MarksTitle
<1>8. QED
  BY <1>2, <1>3, <1>4, <1>5, <1>7

LEMMA ParentIs ==
    ASSUME NEW p \in ParentSet
    PROVE  p.kind \in {"preamble", "section", "paragraph_group"} /\ p.title \in Seq(Nat) /\ p.text \in Seq(Nat)
BY DEF ParentSet

LEMMA TextsAre ==
    ASSUME NEW ps \in Seq(ParentSet)
    PROVE  /\ TextsOf(ps) \in Seq(Seq(Nat)) /\ Len(TextsOf(ps)) = Len(ps) /\ Len(ps) \in Nat
           /\ \A i \in 1 .. Len(ps) : TextsOf(ps)[i] = ps[i].text
<1>1. Len(ps) \in Nat /\ DOMAIN ps = 1 .. Len(ps) /\ \A i \in 1 .. Len(ps) : ps[i] \in ParentSet
  BY SeqDomain
<1>2. TextsOf(ps) = [i \in 1 .. Len(ps) |-> ps[i].text]
  BY <1>1 DEF TextsOf
<1>3. \A i \in 1 .. Len(ps) : ps[i].text \in Seq(Nat)
  BY <1>1, ParentIs
<1>4. TextsOf(ps) \in [1 .. Len(ps) -> Seq(Nat)]
  BY <1>2, <1>3
<1>5. TextsOf(ps) \in Seq(Seq(Nat))
  BY <1>1, <1>4, SeqDef
<1>6. DOMAIN TextsOf(ps) = 1 .. Len(TextsOf(ps)) /\ DOMAIN TextsOf(ps) = 1 .. Len(ps) /\ Len(TextsOf(ps)) \in Nat
  BY <1>2, <1>5, SeqDomain
<1>7. Len(TextsOf(ps)) = Len(ps)
  <2>1. \A i \in Int : i \in 1 .. Len(TextsOf(ps)) <=> i \in 1 .. Len(ps)
    BY <1>6
  <2>2. Len(ps) >= 1 => Len(ps) \in 1 .. Len(TextsOf(ps))
    BY <1>1, <2>1
  <2>3. Len(TextsOf(ps)) >= 1 => Len(TextsOf(ps)) \in 1 .. Len(ps)
    BY <1>6, <2>1
  <2> DEFINE m == Len(TextsOf(ps))
             n == Len(ps)
  <2>4. m \in Nat /\ n \in Nat /\ (n >= 1 => n \in 1 .. m) /\ (m >= 1 => m \in 1 .. n)
    BY <1>1, <1>6, <2>2, <2>3
  <2> HIDE DEF m, n
  <2>5. m = n
    BY <2>4
  <2>6. QED
    BY <2>5 DEF m, n
<1>8. QED
  BY <1>1, <1>2, <1>5, <1>7

LEMMA TextsOfEmpty == TextsOf(<<>>) = <<>>
<1>1. <<>> \in Seq(ParentSet) /\ Len(<<>>) = 0
  OBVIOUS
<1>2. TextsOf(<<>>) \in Seq(Seq(Nat)) /\ Len(TextsOf(<<>>)) = 0
  BY <1>1, TextsAre
<1>3. QED
  BY <1>2, EmptySeq

LEMMA TextsOfAppend ==
    ASSUME NEW ps \in Seq(ParentSet), NEW p \in ParentSet
    PROVE  TextsOf(Append(ps, p)) = Append(TextsOf(ps), p.text)
<1> DEFINE qs == Append(ps, p)
           ts == Append(TextsOf(ps), p.text)
<1>1. /\ qs \in Seq(ParentSet) /\ Len(qs) = Len(ps) + 1 /\ qs[Len(ps) + 1] = p
      /\ \A i \in 1 .. Len(ps) : qs[i] = ps[i]
  BY AppendProperties
<1>2. /\ TextsOf(ps) \in Seq(Seq(Nat)) /\ Len(TextsOf(ps)) = Len(ps) /\ Len(ps) \in Nat
      /\ \A i \in 1 .. Len(ps) : TextsOf(ps)[i] = ps[i].text
  BY TextsAre
<1>3. p.text \in Seq(Nat)
  BY ParentIs
<1>4. /\ ts \in Seq(Seq(Nat)) /\ Len(ts) = Len(ps) + 1 /\ ts[Len(ps) + 1] = p.text
      /\ \A i \in 1 .. Len(ps) : ts[i] = TextsOf(ps)[i]
  BY <1>2, <1>3, AppendProperties
<1> HIDE DEF qs, ts
<1>5. /\ TextsOf(qs) \in Seq(Seq(Nat)) /\ Len(TextsOf(qs)) = Len(ps) + 1
      /\ \A i \in 1 .. Len(ps) + 1 : TextsOf(qs)[i] = qs[i].text
  BY <1>1, TextsAre
<1>6. \A i \in 1 .. Len(ps) + 1 : TextsOf(qs)[i] = ts[i]
  <2> SUFFICES ASSUME NEW i \in 1 .. Len(ps) + 1 PROVE TextsOf(qs)[i] = ts[i]
    OBVIOUS
  <2>1. i = Len(ps) + 1 \/ i \in 1 .. Len(ps)
    BY <1>2
  <2>2. QED
    BY <1>1, <1>2, <1>4, <1>5, <2>1
<1>7. TextsOf(qs) = ts
  BY <1>4, <1>5, <1>6, SeqEqual
<1>8. QED
  BY <1>7 DEF qs, ts

LEMMA TextsOfTail ==
    ASSUME NEW ps \in Seq(ParentSet), ps # <<>>
    PROVE  /\ Head(ps) = ps[1] /\ ps[1] \in ParentSet /\ Tail(ps) \in Seq(ParentSet)
           /\ Len(Tail(ps)) = Len(ps) - 1 /\ \A i \in 1 .. Len(Tail(ps)) : i + 1 \in 1 .. Len(ps) /\ Tail(ps)[i] = ps[i + 1]
           /\ TextsOf(ps) # <<>> /\ TextsOf(ps)[1] = ps[1].text
           /\ TextsOf(Tail(ps)) = Tail(TextsOf(ps))
<1>1. Len(ps) \in Nat /\ Len(ps) >= 1 /\ 1 \in 1 .. Len(ps)
  BY EmptySeq
<1>2. /\ Head(ps) = ps[1] /\ ps[1] \in ParentSet /\ Tail(ps) \in Seq(ParentSet) /\ Len(Tail(ps)) = Len(ps) - 1
      /\ \A i \in 1 .. Len(Tail(ps)) : i + 1 \in 1 .. Len(ps) /\ Tail(ps)[i] = ps[i + 1]
  BY <1>1, HeadTailProperties
<1>3. /\ TextsOf(ps) \in Seq(Seq(Nat)) /\ Len(TextsOf(ps)) = Len(ps)
      /\ \A i \in 1 .. Len(ps) : TextsOf(ps)[i] = ps[i].text
  BY TextsAre
<1>4. /\ TextsOf(Tail(ps)) \in Seq(Seq(Nat)) /\ Len(TextsOf(Tail(ps))) = Len(ps) - 1
      /\ \A i \in 1 .. Len(ps) - 1 : TextsOf(Tail(ps))[i] = Tail(ps)[i].text
  BY <1>2, TextsAre
<1>5. TextsOf(ps) # <<>>
  BY <1>1, <1>3, EmptySeq
<1>6. /\ Tail(TextsOf(ps)) \in Seq(Seq(Nat)) /\ Len(Tail(TextsOf(ps))) = Len(ps) - 1
      /\ \A i \in 1 .. Len(ps) - 1 : Tail(TextsOf(ps))[i] = TextsOf(ps)[i + 1]
  BY <1>3, <1>5, HeadTailProperties
<1>7. \A i \in 1 .. Len(ps) - 1 : TextsOf(Tail(ps))[i] = Tail(TextsOf(ps))[i]
  BY <1>2, <1>3, <1>4, <1>6
<1>8. TextsOf(Tail(ps)) = Tail(TextsOf(ps))
  BY <1>4, <1>6, <1>7, SeqEqual
<1>9. QED
  BY <1>1, <1>2, <1>3, <1>5, <1>8

-----------------------------------------------------------------------------
\* An empty text is a stretch without letters.
LEMMA EmptyTextHolds ==
    ASSUME SourceInv, NEW a, NEW b, TextHolds(<<>>, a, b)
    PROVE  /\ TextsHold(<<>>, a, b)
           /\ \A c : TextsHold(todo, b, c) => TextsHold(todo, a, c)
<1>1. Kept \in SUBSET (Nat \ {0}) /\ Place \in [Kept -> Int]
  BY PlacesAreNumbers DEF SourceInv
<1>2. HoldsAll(Kept, Place, <<>>, a, b)
  BY DEF TextHolds, Holds, HoldsAll
<1>3. ASSUME NEW c, TextsHold(todo, b, c) PROVE TextsHold(todo, a, c)
  <2>1. HoldsAll(Kept, Place, <<>> \o todo, a, c)
    BY <1>1, <1>2, <1>3, ConcatHolds DEF TextsHold
  <2>2. todo \in Seq(Seq(Nat))
    BY <1>3 DEF TextsHold, HoldsAll
  <2>3. <<>> \o todo = todo
    BY <2>2, ConcatEmptySeq
  <2>4. QED
    BY <2>1, <2>3 DEF TextsHold
<1>4. QED
  BY <1>2, <1>3 DEF TextsHold

LEMMA WithBufferHolds ==
    ASSUME SourceInv, NEW a, NEW b, NEW c, TextsHold(done, a, b), TextHolds(buf, b, c)
    PROVE  TextsHold(WithBuffer, a, c)
<1>1. Kept \in SUBSET (Nat \ {0}) /\ Place \in [Kept -> Int]
  BY PlacesAreNumbers DEF SourceInv
<1>2. CASE buf = <<>>
  <2>1. HoldsAll(Kept, Place, <<>>, b, c)
    BY <1>2, EmptyTextHolds DEF TextsHold
  <2>2. HoldsAll(Kept, Place, done \o <<>>, a, c)
    BY <1>1, <2>1, ConcatHolds DEF TextsHold
  <2>3. done \in Seq(Seq(Nat))
    BY DEF TextsHold, HoldsAll
  <2>4. done \o <<>> = done
    BY <2>3, ConcatEmptySeq
  <2>5. QED
    BY <1>2, <2>2, <2>4 DEF TextsHold, WithBuffer
<1>3. CASE buf # <<>>
  <2>1. HoldsAll(Kept, Place, Append(done, buf), a, c)
    BY <1>1, AppendHolds DEF TextsHold, TextHolds
  <2>2. QED
    BY <1>3, <2>1 DEF TextsHold, WithBuffer
<1>4. QED
  BY <1>2, <1>3

LEMMA JoinerIs ==
    /\ Joiner \in Newlines
    /\ step \in {"lines", "slices"} => Joiner # <<0, 0>>
BY DEF Joiner, Newlines

LEMMA GrownHolds ==
    ASSUME SourceInv, NEW a, NEW b, NEW c, TextHolds(buf, a, b), TextHolds(Part, b, c)
    PROVE  TextHolds(Grown, a, c)
<1>1. Kept \in SUBSET (Nat \ {0}) /\ Place \in [Kept -> Int]
  BY PlacesAreNumbers DEF SourceInv
<1>2. CASE buf = <<>>
  <2>1. <<>> \in Newlines
    BY DEF Newlines
  <2>2. Holds(Kept, Place, <<>> \o <<>> \o Part, a, c)
    BY <1>1, <1>2, <2>1, JoinHolds DEF TextHolds
  <2>3. Part \in Seq(Nat)
    BY DEF TextHolds, Holds
  <2>4. <<>> \o <<>> \o Part = Part
    BY <2>3, ConcatEmptySeq
  <2>5. QED
    BY <1>2, <2>2, <2>4 DEF TextHolds, Grown
<1>3. CASE buf # <<>>
  <2>1. Holds(Kept, Place, buf \o Joiner \o Part, a, c)
    BY <1>1, JoinerIs, JoinHolds DEF TextHolds
  <2>2. QED
    BY <1>3, <2>1 DEF TextHolds, Grown
<1>4. QED
  BY <1>2, <1>3

LEMMA WithBufferShape ==
    ASSUME ParentTypes, SplitShape
    PROVE  /\ WithBuffer \in Seq(Seq(Nat))
           /\ \A i \in 1 .. Len(WithBuffer) :
                 Trim(WithBuffer[i]) /\ (Len(WithBuffer[i]) > MaxParent => Spent(step, WithBuffer[i]))
           /\ WholeParagraph => \A i \in 1 .. Len(WithBuffer) : OneParagraph(WithBuffer[i])
<1>1. CASE buf = <<>>
  BY <1>1 DEF WithBuffer, SplitShape, ParentTypes, WholeParagraph
<1>2. CASE buf # <<>>
  <2>1. WithBuffer = Append(done, buf) /\ buf \in Seq(Nat) /\ done \in Seq(Seq(Nat)) /\ Len(done) \in Nat
    BY <1>2, SeqDomain DEF WithBuffer, ParentTypes
  <2>2. /\ WithBuffer \in Seq(Seq(Nat)) /\ Len(WithBuffer) = Len(done) + 1 /\ WithBuffer[Len(done) + 1] = buf
        /\ \A i \in 1 .. Len(done) : WithBuffer[i] = done[i]
    BY <2>1, AppendProperties
  <2>3. \A i \in 1 .. Len(WithBuffer) : i \in 1 .. Len(done) \/ i = Len(done) + 1
    BY <2>1, <2>2
  <2>4. \A i \in 1 .. Len(WithBuffer) :
           Trim(WithBuffer[i]) /\ (Len(WithBuffer[i]) > MaxParent => Spent(step, WithBuffer[i]))
    BY <1>2, <2>2, <2>3 DEF SplitShape
  <2>5. WholeParagraph => \A i \in 1 .. Len(WithBuffer) : OneParagraph(WithBuffer[i])
    BY <2>2, <2>3 DEF WholeParagraph
  <2>6. QED
    BY <2>2, <2>4, <2>5
<1>3. QED
  BY <1>1, <1>2

LEMMA GrownShape ==
    ASSUME step \in Tiers, buf # <<>> => Trim(buf), Trim(Part)
    PROVE  /\ Trim(Grown)
           /\ OneParagraph(buf) /\ OneParagraph(Part) /\ (step = "paragraphs" => buf = <<>>) => OneParagraph(Grown)
<1>1. CASE buf = <<>>
  BY <1>1 DEF Grown
<1>2. CASE buf # <<>>
  <2>1. Grown = buf \o Joiner \o Part /\ Trim(buf) /\ Joiner \in Newlines
    BY <1>2, JoinerIs DEF Grown
  <2>2. Trim(Grown) /\ (OneParagraph(buf) /\ OneParagraph(Part) /\ Joiner # <<0, 0>> => OneParagraph(Grown))
    BY <2>1, JoinTrims
  <2>3. step # "paragraphs" => Joiner # <<0, 0>>
    BY JoinerIs DEF Tiers
  <2>4. QED
    BY <1>2, <2>2, <2>3
<1>3. QED
  BY <1>1, <1>2

\* A step within the cascade keeps the invariant if the text of the parent
\* that is split stays in the pieces.
LEMMA CascadeStep ==
    ASSUME ParentInv, step \in Tiers, step' \in Tiers, UNCHANGED <<sourceVars, bufLen, raw, parents>>,
           rest' \in Seq(Nat), buf' \in Seq(Nat), todo' \in Seq(Seq(Nat)), done' \in Seq(Seq(Nat)),
           SplitShape', OneParagraph(raw[1].text) => WholeParagraph',
           \A a, e \in Int : TierHolds(a, e) => TierHolds(a, e)'
    PROVE  ParentInv'
<1>1. CascadeInv /\ SourceInv /\ ParentTypes /\ ParentLists
  BY DEF ParentInv, Tiers
<1>2. /\ SourceInv' /\ Kept' = Kept /\ Place' = Place /\ Lowest' = Lowest /\ Highest' = Highest
      /\ Headings("##")' = Headings("##")
  BY <1>1, SourceStays
<1>3. ParentTypes'
  BY <1>1 DEF ParentTypes
<1>4. ParentLists'
  BY <1>1, <1>2 DEF ParentLists
<1>5. Splits(raw[1].text)'
  <2>1. PICK a \in Int, e \in Int :
           /\ TextsHold(TextsOf(parents), Lowest, a) /\ TextHolds(raw[1].text, a, e)
           /\ TextsHold(TextsOf(Tail(raw)), e, Highest)
           /\ TierHolds(a, e)
    BY <1>1 DEF CascadeInv, Splits
  <2>2. /\ TextsHold(TextsOf(parents), Lowest, a)' /\ TextHolds(raw[1].text, a, e)'
        /\ TextsHold(TextsOf(Tail(raw)), e, Highest)'
    BY <1>2, <2>1 DEF TextsHold, TextHolds
  <2>3. TierHolds(a, e)'
    BY <2>1
  <2>4. QED
    BY <2>2, <2>3 DEF Splits
<1>6. CascadeInv'
  BY <1>1, <1>5 DEF CascadeInv
<1>7. QED
  BY <1>2, <1>3, <1>4, <1>6 DEF ParentInv, Tiers

LEMMA PackPartKeeps == ASSUME ParentInv, PackPart PROVE ParentInv'
<1>1. /\ step \in Tiers /\ step' = step /\ rest # <<>> /\ Len(Grown) <= MaxParent
      /\ buf' = Grown /\ rest' = Remains /\ todo' = todo /\ done' = done
      /\ UNCHANGED <<sourceVars, bufLen, raw, parents>>
  BY DEF PackPart
<1>2. CascadeInv /\ SplitShape /\ SourceInv /\ ParentTypes
  BY <1>1 DEF ParentInv, CascadeInv, Tiers
<1>3. Trim(rest) /\ Fresh(step, rest) /\ (buf # <<>> => Trim(buf))
  BY <1>1, <1>2 DEF SplitShape
<1>4. /\ Trim(Part)
      /\ Remains # <<>> => Trim(Remains) /\ Fresh(step, Remains)
      /\ OneParagraph(rest) => OneParagraph(Part) /\ OneParagraph(Remains) /\ (step = "paragraphs" => Remains = <<>>)
  BY <1>1, <1>3, TierPart
<1>5. step \in Steps /\ rest \in Seq(Nat)
  BY <1>1, <1>2 DEF Steps, ParentTypes
<1>6. Remains \in Seq(Nat)
  BY <1>5, PartIs
<1>7. Trim(Grown) /\ Grown \in Seq(Nat)
  BY <1>1, <1>3, <1>4, GrownShape DEF Trim
<1>8. SplitShape'
  <2>1. Len(Grown) \in Nat /\ ~(Len(Grown) > MaxParent)
    BY <1>1, <1>7, SeqDomain, ParentNumbers
  <2>2. QED
    BY <1>1, <1>2, <1>4, <1>7, <2>1 DEF SplitShape
<1>9. WholeParagraph => WholeParagraph'
  <2> SUFFICES ASSUME WholeParagraph PROVE WholeParagraph'
    OBVIOUS
  <2>1. OneParagraph(buf) /\ OneParagraph(rest) /\ (step = "paragraphs" => buf = <<>>)
    BY <1>1 DEF WholeParagraph
  <2>2. OneParagraph(Grown)
    BY <1>1, <1>3, <1>4, <2>1, GrownShape
  <2>3. QED
    BY <1>1, <1>4, <2>1, <2>2 DEF WholeParagraph
<1>10. \A a, e \in Int : TierHolds(a, e) => TierHolds(a, e)'
  <2> SUFFICES ASSUME NEW a \in Int, NEW e \in Int, TierHolds(a, e) PROVE TierHolds(a, e)'
    OBVIOUS
  <2>1. PICK b \in Int, c \in Int, d \in Int :
           TextsHold(done, a, b) /\ TextHolds(buf, b, c) /\ TextHolds(rest, c, d) /\ TextsHold(todo, d, e)
    BY DEF TierHolds
  <2>2. Kept \in SUBSET (Nat \ {0}) /\ Place \in [Kept -> Int]
    BY <1>2, PlacesAreNumbers DEF SourceInv
  <2>3. PICK x \in c .. d : Holds(Kept, Place, Part, c, x) /\ Holds(Kept, Place, Remains, x, d)
    BY <1>5, <2>1, <2>2, RestIsCut DEF TextHolds
  <2>4. x \in Int
    BY <2>1, <2>3
  <2>5. TextHolds(Grown, b, x)
    BY <1>2, <2>1, <2>3, GrownHolds DEF TextHolds
  <2>6. Kept' = Kept /\ Place' = Place
    BY <1>1, SourceStays
  <2>7. TextsHold(done, a, b)' /\ TextHolds(buf, b, x)' /\ TextHolds(rest, x, d)' /\ TextsHold(todo, d, e)'
    BY <1>1, <2>1, <2>3, <2>5, <2>6 DEF TextHolds, TextsHold
  <2>8. QED
    BY <2>4, <2>7 DEF TierHolds
<1>11. QED
  BY <1>1, <1>2, <1>6, <1>7, <1>8, <1>9, <1>10, CascadeStep DEF CascadeInv, ParentTypes

LEMMA StartPieceKeeps == ASSUME ParentInv, StartPiece PROVE ParentInv'
<1>1. /\ step \in Tiers /\ step' = step /\ rest # <<>>
      /\ done' = WithBuffer /\ buf' = Part /\ rest' = Remains /\ todo' = todo
      /\ UNCHANGED <<sourceVars, bufLen, raw, parents>>
  BY DEF StartPiece
<1>2. CascadeInv /\ SplitShape /\ SourceInv /\ ParentTypes
  BY <1>1 DEF ParentInv, CascadeInv, Tiers
<1>3. Trim(rest) /\ Fresh(step, rest)
  BY <1>1, <1>2 DEF SplitShape
<1>4. /\ Trim(Part) /\ (Len(Part) > MaxParent => Spent(step, Part))
      /\ Remains # <<>> => Trim(Remains) /\ Fresh(step, Remains)
      /\ OneParagraph(rest) => OneParagraph(Part) /\ OneParagraph(Remains) /\ (step = "paragraphs" => Remains = <<>>)
  BY <1>1, <1>3, TierPart
<1>5. step \in Steps /\ rest \in Seq(Nat)
  BY <1>1, <1>2 DEF Steps, ParentTypes
<1>6. Remains \in Seq(Nat) /\ Part \in Seq(Nat)
  BY <1>5, PartIs
<1>7. /\ WithBuffer \in Seq(Seq(Nat))
      /\ \A i \in 1 .. Len(WithBuffer) :
            Trim(WithBuffer[i]) /\ (Len(WithBuffer[i]) > MaxParent => Spent(step, WithBuffer[i]))
      /\ WholeParagraph => \A i \in 1 .. Len(WithBuffer) : OneParagraph(WithBuffer[i])
  BY <1>2, WithBufferShape
<1>8. SplitShape'
  BY <1>1, <1>2, <1>4, <1>7 DEF SplitShape
<1>9. WholeParagraph => WholeParagraph'
  BY <1>1, <1>4, <1>7 DEF WholeParagraph
<1>10. \A a, e \in Int : TierHolds(a, e) => TierHolds(a, e)'
  <2> SUFFICES ASSUME NEW a \in Int, NEW e \in Int, TierHolds(a, e) PROVE TierHolds(a, e)'
    OBVIOUS
  <2>1. PICK b \in Int, c \in Int, d \in Int :
           TextsHold(done, a, b) /\ TextHolds(buf, b, c) /\ TextHolds(rest, c, d) /\ TextsHold(todo, d, e)
    BY DEF TierHolds
  <2>2. Kept \in SUBSET (Nat \ {0}) /\ Place \in [Kept -> Int]
    BY <1>2, PlacesAreNumbers DEF SourceInv
  <2>3. PICK x \in c .. d : Holds(Kept, Place, Part, c, x) /\ Holds(Kept, Place, Remains, x, d)
    BY <1>5, <2>1, <2>2, RestIsCut DEF TextHolds
  <2>4. x \in Int
    BY <2>1, <2>3
  <2>5. TextsHold(WithBuffer, a, c)
    BY <1>2, <2>1, WithBufferHolds
  <2>6. Kept' = Kept /\ Place' = Place
    BY <1>1, SourceStays
  <2>7. TextsHold(done, a, c)' /\ TextHolds(buf, c, x)' /\ TextHolds(rest, x, d)' /\ TextsHold(todo, d, e)'
    BY <1>1, <2>1, <2>3, <2>5, <2>6 DEF TextHolds, TextsHold
  <2>8. QED
    BY <2>4, <2>7 DEF TierHolds
<1>11. QED
  BY <1>1, <1>2, <1>6, <1>7, <1>8, <1>9, <1>10, CascadeStep DEF CascadeInv, ParentTypes

LEMMA NextPieceKeeps == ASSUME ParentInv, NextPiece PROVE ParentInv'
<1> DEFINE h == todo[1]
<1>1. /\ step \in Tiers /\ step' = step /\ rest = <<>> /\ todo # <<>>
      /\ buf' = <<>> /\ todo' = Tail(todo)
      /\ UNCHANGED <<sourceVars, bufLen, raw, parents>>
  BY DEF NextPiece
<1>2. CascadeInv /\ SplitShape /\ SourceInv /\ ParentTypes
  BY <1>1 DEF ParentInv, CascadeInv, Tiers
<1>3. /\ todo \in Seq(Seq(Nat)) /\ Len(todo) \in Nat /\ Len(todo) >= 1 /\ 1 \in 1 .. Len(todo)
      /\ Head(todo) = h /\ h \in Seq(Nat) /\ Tail(todo) \in Seq(Seq(Nat)) /\ Len(Tail(todo)) = Len(todo) - 1
      /\ \A i \in 1 .. Len(Tail(todo)) : Tail(todo)[i] = todo[i + 1] /\ i + 1 \in 1 .. Len(todo)
  <2>1. todo \in Seq(Seq(Nat)) /\ Len(todo) \in Nat /\ Len(todo) >= 1 /\ 1 \in 1 .. Len(todo)
    BY <1>1, <1>2, EmptySeq DEF ParentTypes
  <2>2. /\ Head(todo) = h /\ h \in Seq(Nat) /\ Tail(todo) \in Seq(Seq(Nat)) /\ Len(Tail(todo)) = Len(todo) - 1
        /\ \A i \in 1 .. Len(Tail(todo)) : Tail(todo)[i] = todo[i + 1]
    BY <1>1, <2>1, HeadTailProperties
  <2>3. QED
    BY <2>1, <2>2
<1> HIDE DEF h
<1>4. Trim(h) /\ (Len(h) > MaxParent => Fresh(step, h)) /\ (WholeParagraph => OneParagraph(h))
  BY <1>2, <1>3 DEF SplitShape, WholeParagraph, h
<1>5. /\ WithBuffer \in Seq(Seq(Nat)) /\ Len(WithBuffer) \in Nat
      /\ \A i \in 1 .. Len(WithBuffer) :
            Trim(WithBuffer[i]) /\ (Len(WithBuffer[i]) > MaxParent => Spent(step, WithBuffer[i]))
      /\ WholeParagraph => \A i \in 1 .. Len(WithBuffer) : OneParagraph(WithBuffer[i])
  BY <1>2, WithBufferShape, SeqDomain
<1>6. step # "paragraphs"
  BY <1>1, <1>2 DEF SplitShape
<1>7. OneParagraph(<<>>) /\ <<>> \in Seq(Nat)
  BY DEF OneParagraph
<1>8. /\ \A i \in 1 .. Len(todo') : Trim(todo'[i]) /\ (Len(todo'[i]) > MaxParent => Fresh(step, todo'[i]))
      /\ WholeParagraph => \A i \in 1 .. Len(todo') : OneParagraph(todo'[i])
  BY <1>1, <1>2, <1>3 DEF SplitShape, WholeParagraph
<1>9. Kept \in SUBSET (Nat \ {0}) /\ Place \in [Kept -> Int] /\ Kept' = Kept /\ Place' = Place
  BY <1>1, <1>2, PlacesAreNumbers, SourceStays DEF SourceInv
<1>10. ASSUME NEW a \in Int, NEW e \in Int, TierHolds(a, e)
       PROVE  \E c, x \in Int : TextsHold(WithBuffer, a, c) /\ TextHolds(h, c, x) /\ TextsHold(Tail(todo), x, e)
  <2>1. PICK b \in Int, c \in Int, d \in Int :
           TextsHold(done, a, b) /\ TextHolds(buf, b, c) /\ TextHolds(rest, c, d) /\ TextsHold(todo, d, e)
    BY <1>10 DEF TierHolds
  <2>2. TextsHold(todo, c, e)
    BY <1>1, <1>2, <2>1, EmptyTextHolds
  <2>3. PICK x \in c .. e : Holds(Kept, Place, todo[1], c, x) /\ HoldsAll(Kept, Place, Tail(todo), x, e)
    BY <1>1, <1>9, <2>2, HeadHolds DEF TextsHold
  <2>4. x \in Int
    BY <1>10, <2>1, <2>3
  <2>5. TextsHold(WithBuffer, a, c)
    BY <1>2, <2>1, WithBufferHolds
  <2>6. QED
    BY <2>1, <2>3, <2>4, <2>5 DEF TextsHold, TextHolds, h
<1>11. CASE Len(h) > MaxParent
  <2>1. rest' = h /\ done' = WithBuffer
    BY <1>3, <1>11 DEF NextPiece
  <2>2. SplitShape'
    BY <1>1, <1>4, <1>5, <1>6, <1>8, <1>11, <2>1 DEF SplitShape
  <2>3. WholeParagraph => WholeParagraph'
    BY <1>1, <1>4, <1>5, <1>6, <1>7, <1>8, <2>1 DEF WholeParagraph
  <2>4. ASSUME NEW a \in Int, NEW e \in Int, TierHolds(a, e) PROVE TierHolds(a, e)'
    <3>1. PICK c \in Int, x \in Int : TextsHold(WithBuffer, a, c) /\ TextHolds(h, c, x) /\ TextsHold(Tail(todo), x, e)
      BY <1>10, <2>4
    <3>2. Holds(Kept, Place, <<>>, c, c)
      BY <1>9, EmptyHolds
    <3>3. TextsHold(done, a, c)' /\ TextHolds(buf, c, c)' /\ TextHolds(rest, c, x)' /\ TextsHold(todo, x, e)'
      BY <1>1, <1>9, <2>1, <3>1, <3>2 DEF TextHolds, TextsHold
    <3>4. QED
      BY <3>3 DEF TierHolds
  <2>5. QED
    BY <1>1, <1>2, <1>3, <1>5, <1>7, <2>1, <2>2, <2>3, <2>4, CascadeStep DEF CascadeInv
<1>12. CASE ~(Len(h) > MaxParent)
  <2> DEFINE s == Append(WithBuffer, h)
  <2>1. rest' = <<>> /\ done' = s
    BY <1>1, <1>3, <1>12 DEF NextPiece
  <2>2. /\ s \in Seq(Seq(Nat)) /\ Len(s) = Len(WithBuffer) + 1 /\ s[Len(WithBuffer) + 1] = h
        /\ \A i \in 1 .. Len(WithBuffer) : s[i] = WithBuffer[i]
    BY <1>3, <1>5, AppendProperties
  <2> HIDE DEF s
  <2>3. \A i \in 1 .. Len(s) : i \in 1 .. Len(WithBuffer) \/ i = Len(WithBuffer) + 1
    BY <1>5, <2>2
  <2>4. /\ \A i \in 1 .. Len(s) : Trim(s[i]) /\ (Len(s[i]) > MaxParent => Spent(step, s[i]))
        /\ WholeParagraph => \A i \in 1 .. Len(s) : OneParagraph(s[i])
    BY <1>4, <1>5, <1>12, <2>2, <2>3
  <2>5. SplitShape'
    BY <1>1, <1>6, <1>8, <2>1, <2>4 DEF SplitShape
  <2>6. WholeParagraph => WholeParagraph'
    BY <1>1, <1>6, <1>7, <1>8, <2>1, <2>4 DEF WholeParagraph
  <2>7. ASSUME NEW a \in Int, NEW e \in Int, TierHolds(a, e) PROVE TierHolds(a, e)'
    <3>1. PICK c \in Int, x \in Int : TextsHold(WithBuffer, a, c) /\ TextHolds(h, c, x) /\ TextsHold(Tail(todo), x, e)
      BY <1>10, <2>7
    <3>2. Holds(Kept, Place, <<>>, x, x)
      BY <1>9, EmptyHolds
    <3>3. HoldsAll(Kept, Place, s, a, x)
      BY <1>9, <3>1, AppendHolds DEF TextsHold, TextHolds, s
    <3>4. TextsHold(done, a, x)' /\ TextHolds(buf, x, x)' /\ TextHolds(rest, x, x)' /\ TextsHold(todo, x, e)'
      BY <1>1, <1>9, <2>1, <3>1, <3>2, <3>3 DEF TextHolds, TextsHold
    <3>5. QED
      BY <3>4 DEF TierHolds
  <2>8. QED
    BY <1>1, <1>2, <1>3, <1>7, <2>1, <2>2, <2>5, <2>6, <2>7, CascadeStep DEF CascadeInv
<1>13. QED
  BY <1>11, <1>12

LEMMA NextTierKeeps == ASSUME ParentInv, NextTier PROVE ParentInv'
<1>1. /\ step \in {"paragraphs", "lines"} /\ rest = <<>> /\ todo = <<>>
      /\ step' = IF step = "paragraphs" THEN "lines" ELSE "slices"
      /\ todo' = WithBuffer /\ buf' = <<>> /\ done' = <<>> /\ rest' = rest
      /\ UNCHANGED <<sourceVars, bufLen, raw, parents>>
  BY DEF NextTier
<1>2. step \in Tiers /\ step' \in Tiers /\ step' # "paragraphs"
  BY <1>1 DEF Tiers
<1>3. CascadeInv /\ SplitShape /\ SourceInv /\ ParentTypes
  BY <1>2 DEF ParentInv, CascadeInv, Tiers
<1>4. /\ WithBuffer \in Seq(Seq(Nat))
      /\ \A i \in 1 .. Len(WithBuffer) :
            Trim(WithBuffer[i]) /\ (Len(WithBuffer[i]) > MaxParent => Spent(step, WithBuffer[i]))
      /\ WholeParagraph => \A i \in 1 .. Len(WithBuffer) : OneParagraph(WithBuffer[i])
  BY <1>3, WithBufferShape
<1>5. \A t : Spent(step, t) => Fresh(step', t)
  BY <1>1 DEF Spent, Fresh
<1>6. <<>> \in Seq(Nat) /\ <<>> \in Seq(Seq(Nat)) /\ Len(<<>>) = 0 /\ OneParagraph(<<>>)
  BY DEF OneParagraph
<1>7. SplitShape'
  BY <1>1, <1>2, <1>4, <1>5, <1>6 DEF SplitShape
<1>8. WholeParagraph => WholeParagraph'
  BY <1>1, <1>2, <1>4, <1>6 DEF WholeParagraph
<1>9. ASSUME NEW a \in Int, NEW e \in Int, TierHolds(a, e) PROVE TierHolds(a, e)'
  <2>1. PICK b \in Int, c \in Int, d \in Int :
           TextsHold(done, a, b) /\ TextHolds(buf, b, c) /\ TextHolds(rest, c, d) /\ TextsHold(todo, d, e)
    BY <1>9 DEF TierHolds
  <2>2. Kept \in SUBSET (Nat \ {0}) /\ Place \in [Kept -> Int] /\ Kept' = Kept /\ Place' = Place
    BY <1>1, <1>3, PlacesAreNumbers, SourceStays DEF SourceInv
  <2>3. TextsHold(WithBuffer, a, c)
    BY <1>3, <2>1, WithBufferHolds
  <2>4. HoldsAll(Kept, Place, <<>>, d, e)
    BY <1>1, <2>1 DEF TextsHold
  <2>5. TextsHold(WithBuffer, a, e)
    <3>1. HoldsAll(Kept, Place, <<>>, c, d)
      BY <1>1, <1>3, <2>1, EmptyTextHolds DEF TextsHold
    <3>2. HoldsAll(Kept, Place, <<>> \o <<>>, c, e)
      BY <2>2, <2>4, <3>1, ConcatHolds
    <3>3. HoldsAll(Kept, Place, WithBuffer \o (<<>> \o <<>>), a, e)
      BY <2>2, <2>3, <3>2, ConcatHolds DEF TextsHold
    <3>4. <<>> \o <<>> = <<>>
      BY <1>6, ConcatEmptySeq
    <3>5. WithBuffer \o <<>> = WithBuffer
      BY <1>4, ConcatEmptySeq
    <3>6. QED
      BY <3>3, <3>4, <3>5 DEF TextsHold
  <2>6. Holds(Kept, Place, <<>>, a, a) /\ HoldsAll(Kept, Place, <<>>, a, a)
    BY <2>2, EmptyHolds
  <2>7. TextsHold(done, a, a)' /\ TextHolds(buf, a, a)' /\ TextHolds(rest, a, a)' /\ TextsHold(todo, a, e)'
    BY <1>1, <2>2, <2>5, <2>6 DEF TextHolds, TextsHold
  <2>8. QED
    BY <2>7 DEF TierHolds
<1>10. QED
  BY <1>1, <1>2, <1>3, <1>4, <1>6, <1>7, <1>8, <1>9, CascadeStep DEF CascadeInv, ParentTypes

-----------------------------------------------------------------------------
LEMMA KeepParentKeeps == ASSUME ParentInv, KeepParent PROVE ParentInv'
<1>1. /\ step = "cap" /\ step' = "cap" /\ raw # <<>> /\ Len(Head(raw).text) <= MaxParent
      /\ parents' = Append(parents, Head(raw)) /\ raw' = Tail(raw)
      /\ UNCHANGED <<sourceVars, rest, buf, bufLen, todo, done>>
  BY DEF KeepParent
<1>2. CapInv /\ SourceInv /\ ParentTypes /\ ParentLists /\ step \notin Tiers
  BY <1>1 DEF ParentInv, Tiers
<1>3. raw \in Seq(ParentSet) /\ parents \in Seq(ParentSet) /\ Len(parents) \in Nat
  BY <1>2, SeqDomain DEF ParentTypes
<1>4. /\ Head(raw) = raw[1] /\ raw[1] \in ParentSet /\ Tail(raw) \in Seq(ParentSet)
      /\ Len(Tail(raw)) = Len(raw) - 1 /\ \A i \in 1 .. Len(Tail(raw)) : i + 1 \in 1 .. Len(raw) /\ Tail(raw)[i] = raw[i + 1]
      /\ TextsOf(raw) # <<>> /\ TextsOf(raw)[1] = raw[1].text
      /\ TextsOf(Tail(raw)) = Tail(TextsOf(raw))
  BY <1>1, <1>3, TextsOfTail
<1>5. 1 \in 1 .. Len(raw)
  BY <1>1, <1>3, EmptySeq
<1>6. /\ SourceInv' /\ Kept' = Kept /\ Place' = Place /\ Lowest' = Lowest /\ Highest' = Highest
      /\ Headings("##")' = Headings("##")
  BY <1>1, <1>2, SourceStays
<1>7. /\ parents' \in Seq(ParentSet) /\ Len(parents') = Len(parents) + 1 /\ parents'[Len(parents) + 1] = raw[1]
      /\ \A i \in 1 .. Len(parents) : parents'[i] = parents[i]
  BY <1>1, <1>3, <1>4, AppendProperties
<1>8. ParentTypes'
  BY <1>1, <1>2, <1>4, <1>7 DEF ParentTypes
<1>9. ParentLists'
  <2>1. \A i \in 1 .. Len(raw') : GoodParent(Headings("##"), raw'[i])
    BY <1>1, <1>2, <1>4 DEF ParentLists
  <2>2. GoodParent(Headings("##"), raw[1]) /\ Len(raw[1].text) <= MaxParent
    BY <1>1, <1>2, <1>4, <1>5 DEF ParentLists
  <2>3. \A i \in 1 .. Len(parents') : i \in 1 .. Len(parents) \/ i = Len(parents) + 1
    BY <1>3, <1>7
  <2>4. \A i \in 1 .. Len(parents') : GoodParent(Headings("##"), parents'[i]) /\ Len(parents'[i].text) <= MaxParent
    BY <1>2, <1>7, <2>2, <2>3 DEF ParentLists
  <2>5. QED
    BY <1>6, <2>1, <2>4 DEF ParentLists
<1>10. CapInv'
  <2>1. PICK a \in Int : TextsHold(TextsOf(parents), Lowest, a) /\ TextsHold(TextsOf(raw), a, Highest)
    BY <1>2 DEF CapInv
  <2>2. Kept \in SUBSET (Nat \ {0}) /\ Place \in [Kept -> Int] /\ Highest \in Int
    BY <1>2, PlacesAreNumbers DEF SourceInv
  <2>3. PICK c \in a .. Highest :
           Holds(Kept, Place, TextsOf(raw)[1], a, c) /\ HoldsAll(Kept, Place, Tail(TextsOf(raw)), c, Highest)
    BY <1>4, <2>1, <2>2, HeadHolds DEF TextsHold
  <2>4. c \in Int
    BY <2>1, <2>2, <2>3
  <2>5. HoldsAll(Kept, Place, Append(TextsOf(parents), raw[1].text), Lowest, c)
    BY <1>4, <2>1, <2>2, <2>3, AppendHolds DEF TextsHold
  <2>6. TextsOf(parents') = Append(TextsOf(parents), raw[1].text)
    BY <1>1, <1>3, <1>4, TextsOfAppend
  <2>7. HoldsAll(Kept, Place, TextsOf(parents'), Lowest, c) /\ HoldsAll(Kept, Place, TextsOf(raw'), c, Highest)
    BY <1>1, <1>4, <2>3, <2>5, <2>6
  <2>8. \E x \in Int : TextsHold(TextsOf(parents), Lowest, x)' /\ TextsHold(TextsOf(raw), x, Highest)'
    BY <1>6, <2>4, <2>7 DEF TextsHold
  <2>9. QED
    BY <1>1, <1>2, <2>8 DEF CapInv, AtRestInv
<1>11. QED
  BY <1>1, <1>2, <1>6, <1>8, <1>9, <1>10 DEF ParentInv, Tiers

LEMMA SplitOversizedKeeps == ASSUME ParentInv, SplitOversized PROVE ParentInv'
<1>1. /\ step = "cap" /\ step' = "paragraphs" /\ raw # <<>> /\ Len(Head(raw).text) > MaxParent
      /\ rest' = Head(raw).text
      /\ UNCHANGED <<sourceVars, buf, bufLen, raw, todo, done, parents>>
  BY DEF SplitOversized
<1>2. CapInv /\ SourceInv /\ ParentTypes /\ ParentLists /\ AtRestInv
  BY <1>1 DEF ParentInv, CapInv, Tiers
<1>3. raw \in Seq(ParentSet)
  BY <1>2 DEF ParentTypes
<1>4. /\ Head(raw) = raw[1] /\ raw[1] \in ParentSet
      /\ TextsOf(raw) # <<>> /\ TextsOf(raw)[1] = raw[1].text
      /\ TextsOf(Tail(raw)) = Tail(TextsOf(raw))
  BY <1>1, <1>3, TextsOfTail
<1>5. 1 \in 1 .. Len(raw)
  BY <1>1, <1>3, EmptySeq
<1>6. /\ SourceInv' /\ Kept' = Kept /\ Place' = Place /\ Lowest' = Lowest /\ Highest' = Highest
      /\ Headings("##")' = Headings("##")
  BY <1>1, <1>2, SourceStays
<1>7. raw[1].text \in Seq(Nat) /\ Trim(raw[1].text)
  BY <1>2, <1>4, <1>5, ParentIs DEF ParentLists, GoodParent
<1>8. ParentTypes' /\ ParentLists'
  BY <1>1, <1>2, <1>4, <1>6, <1>7 DEF ParentTypes, ParentLists
<1>9. buf = <<>> /\ done = <<>> /\ todo = <<>> /\ Len(<<>>) = 0 /\ OneParagraph(<<>>)
  BY <1>2 DEF AtRestInv, OneParagraph
<1>10. SplitShape'
  BY <1>1, <1>4, <1>7, <1>9 DEF SplitShape, Fresh
<1>11. OneParagraph(raw[1].text) => WholeParagraph'
  BY <1>1, <1>4, <1>9 DEF WholeParagraph
<1>12. Splits(raw[1].text)'
  <2>1. PICK a \in Int : TextsHold(TextsOf(parents), Lowest, a) /\ TextsHold(TextsOf(raw), a, Highest)
    BY <1>2 DEF CapInv
  <2>2. Kept \in SUBSET (Nat \ {0}) /\ Place \in [Kept -> Int] /\ Highest \in Int
    BY <1>2, PlacesAreNumbers DEF SourceInv
  <2>3. PICK e \in a .. Highest :
           Holds(Kept, Place, TextsOf(raw)[1], a, e) /\ HoldsAll(Kept, Place, Tail(TextsOf(raw)), e, Highest)
    BY <1>4, <2>1, <2>2, HeadHolds DEF TextsHold
  <2>4. e \in Int
    BY <2>1, <2>2, <2>3
  <2>5. /\ Holds(Kept, Place, <<>>, a, a) /\ HoldsAll(Kept, Place, <<>>, a, a)
        /\ Holds(Kept, Place, <<>>, e, e) /\ HoldsAll(Kept, Place, <<>>, e, e)
    BY <2>1, <2>2, <2>4, EmptyHolds
  <2>6. TextsHold(done, a, a)' /\ TextHolds(buf, a, a)' /\ TextHolds(rest, a, e)' /\ TextsHold(todo, e, e)'
    BY <1>1, <1>4, <1>6, <1>9, <2>3, <2>5 DEF TextHolds, TextsHold
  <2>7. TierHolds(a, e)'
    BY <2>4, <2>6 DEF TierHolds
  <2>8. /\ TextsHold(TextsOf(parents), Lowest, a)' /\ TextHolds(raw[1].text, a, e)'
        /\ TextsHold(TextsOf(Tail(raw)), e, Highest)'
    BY <1>1, <1>4, <1>6, <2>1, <2>3 DEF TextHolds, TextsHold
  <2>9. QED
    BY <2>4, <2>7, <2>8 DEF Splits
<1>13. CascadeInv'
  BY <1>1, <1>4, <1>10, <1>11, <1>12 DEF CascadeInv
<1>14. QED
  BY <1>1, <1>6, <1>8, <1>13 DEF ParentInv, Tiers

LEMMA TextsOfConcat ==
    ASSUME NEW ps \in Seq(ParentSet), NEW qs \in Seq(ParentSet)
    PROVE  TextsOf(ps \o qs) = TextsOf(ps) \o TextsOf(qs)
<1> DEFINE x == Len(ps)
           y == Len(qs)
           rs == ps \o qs
           us == TextsOf(ps)
           vs == TextsOf(qs)
           ws == us \o vs
<1>1. /\ us \in Seq(Seq(Nat)) /\ Len(us) = x /\ x \in Nat /\ \A i \in 1 .. x : us[i] = ps[i].text
      /\ vs \in Seq(Seq(Nat)) /\ Len(vs) = y /\ y \in Nat /\ \A i \in 1 .. y : vs[i] = qs[i].text
  BY TextsAre
<1>2. /\ rs \in Seq(ParentSet) /\ Len(rs) = x + y
      /\ \A i \in 1 .. x + y : rs[i] = IF i <= x THEN ps[i] ELSE qs[i - x]
  BY ConcatProperties
<1> HIDE DEF us, vs
<1>3. /\ ws \in Seq(Seq(Nat)) /\ Len(ws) = x + y
      /\ \A i \in 1 .. x + y : ws[i] = IF i <= x THEN us[i] ELSE vs[i - x]
  <2>1. /\ ws \in Seq(Seq(Nat)) /\ Len(ws) = Len(us) + Len(vs)
        /\ \A i \in 1 .. Len(us) + Len(vs) : ws[i] = IF i <= Len(us) THEN us[i] ELSE vs[i - Len(us)]
    BY <1>1, ConcatProperties
  <2> HIDE DEF ws, x, y
  <2>2. QED
    BY <1>1, <2>1
<1> HIDE DEF rs, ws, x, y
<1>4. /\ TextsOf(rs) \in Seq(Seq(Nat)) /\ Len(TextsOf(rs)) = x + y
      /\ \A i \in 1 .. x + y : TextsOf(rs)[i] = rs[i].text
  BY <1>2, TextsAre
<1>5. ASSUME NEW i \in 1 .. x + y PROVE TextsOf(rs)[i] = ws[i]
  <2>1. CASE i <= x
    <3>1. i \in 1 .. x
      BY <1>1, <2>1
    <3>2. rs[i] = ps[i] /\ ws[i] = us[i]
      BY <1>2, <1>3, <2>1
    <3>3. QED
      BY <1>1, <1>4, <3>1, <3>2
  <2>2. CASE ~(i <= x)
    <3>1. i - x \in 1 .. y
      BY <1>1, <2>2
    <3>2. rs[i] = qs[i - x] /\ ws[i] = vs[i - x]
      BY <1>2, <1>3, <2>2
    <3>3. QED
      BY <1>1, <1>4, <3>1, <3>2
  <2>3. QED
    BY <2>1, <2>2
<1>6. TextsOf(rs) = ws
  BY <1>3, <1>4, <1>5, SeqEqual
<1>7. QED
  BY <1>6 DEF rs, ws, us, vs

\* What has its place in the text of a parent, has its heading.
LEMMA PartIsUnder ==
    ASSUME NEW K \in SUBSET (Nat \ {0}), NEW P \in [K -> Int], NEW a \in Int, NEW e \in Int,
           NEW headings, NEW title, NEW text, Holds(K, P, text, a, e),
           \A k \in 1 .. Len(text) : Under(headings, title, text[k]),
           NEW pieces, HoldsAll(K, P, pieces, a, e)
    PROVE  \A i \in 1 .. Len(pieces) : \A k \in 1 .. Len(pieces[i]) : Under(headings, title, pieces[i][k])
<1> SUFFICES ASSUME NEW i \in 1 .. Len(pieces), NEW k \in 1 .. Len(pieces[i])
             PROVE  Under(headings, title, pieces[i][k])
  OBVIOUS
<1>1. CASE pieces[i][k] = 0
  BY <1>1 DEF Under
<1>2. CASE pieces[i][k] # 0
  <2>1. pieces[i][k] \in K /\ a < P[pieces[i][k]] /\ P[pieces[i][k]] <= e
    BY <1>2 DEF HoldsAll
  <2>2. PICK l \in 1 .. Len(text) : text[l] = pieces[i][k]
    BY <2>1 DEF Holds
  <2>3. QED
    BY <2>2
<1>3. QED
  BY <1>1, <1>2

LEMMA WrapAsPartsKeeps == ASSUME ParentInv, WrapAsParts PROVE ParentInv'
<1> DEFINE p == raw[1]
           w == WithBuffer
           n == Len(w)
           pieces == [i \in DOMAIN w |-> [Head(raw) EXCEPT !.text = w[i]]]
<1>1. /\ step = "slices" /\ step' = "cap" /\ rest = <<>> /\ todo = <<>>
      /\ parents' = parents \o pieces /\ raw' = Tail(raw) /\ buf' = <<>> /\ done' = <<>>
      /\ rest' = rest /\ todo' = todo /\ UNCHANGED <<sourceVars, bufLen>>
  BY DEF WrapAsParts
<1>2. CascadeInv /\ SplitShape /\ SourceInv /\ ParentTypes /\ ParentLists /\ raw # <<>> /\ Len(p.text) > MaxParent
  BY <1>1 DEF ParentInv, CascadeInv, Tiers
<1>3. raw \in Seq(ParentSet) /\ parents \in Seq(ParentSet) /\ Len(parents) \in Nat
  BY <1>2, SeqDomain DEF ParentTypes
<1>4. /\ Head(raw) = p /\ p \in ParentSet /\ Tail(raw) \in Seq(ParentSet)
      /\ \A i \in 1 .. Len(Tail(raw)) : i + 1 \in 1 .. Len(raw) /\ Tail(raw)[i] = raw[i + 1]
  BY <1>2, <1>3, TextsOfTail
<1>5. GoodParent(Headings("##"), p)
  <2>1. 1 \in 1 .. Len(raw)
    BY <1>2, <1>3, EmptySeq
  <2>2. QED
    BY <1>2, <2>1 DEF ParentLists
<1>6. /\ SourceInv' /\ Kept' = Kept /\ Place' = Place /\ Lowest' = Lowest /\ Highest' = Highest
      /\ Headings("##")' = Headings("##")
  BY <1>1, <1>2, SourceStays
<1>7. /\ w \in Seq(Seq(Nat)) /\ n \in Nat /\ DOMAIN w = 1 .. n
      /\ \A i \in 1 .. n : w[i] \in Seq(Nat) /\ Len(w[i]) \in Nat
      /\ \A i \in 1 .. n : Trim(w[i]) /\ ~(Len(w[i]) > MaxParent)
      /\ OneParagraph(p.text) => \A i \in 1 .. n : OneParagraph(w[i])
  <2>1. /\ w \in Seq(Seq(Nat))
        /\ \A i \in 1 .. n : Trim(w[i]) /\ (Len(w[i]) > MaxParent => Spent(step, w[i]))
        /\ WholeParagraph => \A i \in 1 .. n : OneParagraph(w[i])
    BY <1>2, WithBufferShape
  <2>2. n \in Nat /\ DOMAIN w = 1 .. n /\ \A i \in 1 .. n : w[i] \in Seq(Nat)
    BY <2>1, SeqDomain
  <2>3. \A i \in 1 .. n : Len(w[i]) \in Nat
    BY <2>2, SeqDomain
  <2>4. \A i \in 1 .. n : ~(Len(w[i]) > MaxParent)
    BY <1>1, <2>1 DEF Spent
  <2>5. OneParagraph(p.text) => WholeParagraph
    BY <1>2 DEF CascadeInv
  <2>6. QED
    BY <2>1, <2>2, <2>3, <2>4, <2>5
<1>8. PICK a \in Int, e \in Int :
         /\ TextsHold(TextsOf(parents), Lowest, a) /\ TextHolds(p.text, a, e)
         /\ TextsHold(TextsOf(Tail(raw)), e, Highest)
         /\ TierHolds(a, e)
  BY <1>2 DEF CascadeInv, Splits
<1>9. HoldsAll(Kept, Place, w, a, e)
  <2>1. PICK b \in Int, c \in Int, d \in Int :
           TextsHold(done, a, b) /\ TextHolds(buf, b, c) /\ TextHolds(rest, c, d) /\ TextsHold(todo, d, e)
    BY <1>8 DEF TierHolds
  <2>2. Kept \in SUBSET (Nat \ {0}) /\ Place \in [Kept -> Int]
    BY <1>2, PlacesAreNumbers DEF SourceInv
  <2>3. TextsHold(w, a, c)
    BY <1>2, <2>1, WithBufferHolds
  <2>4. HoldsAll(Kept, Place, <<>>, c, d) /\ HoldsAll(Kept, Place, <<>>, d, e)
    BY <1>1, <1>2, <2>1, EmptyTextHolds DEF TextsHold
  <2>5. HoldsAll(Kept, Place, w \o <<>>, a, d)
    BY <2>2, <2>3, <2>4, ConcatHolds DEF TextsHold
  <2>6. w \o <<>> = w
    BY <1>7, ConcatEmptySeq
  <2>7. HoldsAll(Kept, Place, w \o <<>>, a, e)
    BY <2>2, <2>4, <2>5, <2>6, ConcatHolds
  <2>8. QED
    BY <2>6, <2>7
<1> HIDE DEF w, n
<1>10. /\ pieces \in Seq(ParentSet) /\ Len(pieces) = n
       /\ \A i \in 1 .. n : /\ pieces[i] \in ParentSet /\ pieces[i].text = w[i]
                            /\ pieces[i].kind = p.kind /\ pieces[i].title = p.title
  <2>1. \A i \in 1 .. n : pieces[i] = [p EXCEPT !.text = w[i]]
    BY <1>4, <1>7
  <2>2. \A i \in 1 .. n : /\ [p EXCEPT !.text = w[i]] \in ParentSet /\ [p EXCEPT !.text = w[i]].text = w[i]
                          /\ [p EXCEPT !.text = w[i]].kind = p.kind /\ [p EXCEPT !.text = w[i]].title = p.title
    BY <1>4, <1>7 DEF ParentSet
  <2>3. pieces \in [1 .. n -> ParentSet]
    <3>1. pieces = [i \in 1 .. n |-> [p EXCEPT !.text = w[i]]]
      BY <1>4, <1>7
    <3>2. QED
      BY <2>2, <3>1
  <2>4. DOMAIN pieces = 1 .. n
    BY <1>7
  <2> HIDE DEF pieces
  <2>5. pieces \in Seq(ParentSet)
    BY <1>7, <2>3, SeqDef
  <2> DEFINE m == Len(pieces)
  <2>6. m \in Nat /\ 1 .. m = 1 .. n
    BY <2>4, <2>5, SeqDomain
  <2> HIDE DEF m
  <2>7. m = n
    <3>1. \A i \in Int : i \in 1 .. m <=> i \in 1 .. n
      BY <2>6
    <3>2. n >= 1 => n \in 1 .. m
      BY <1>7, <3>1
    <3>3. m >= 1 => m \in 1 .. n
      BY <2>6, <3>1
    <3>4. QED
      BY <1>7, <2>6, <3>2, <3>3
  <2>8. QED
    BY <2>1, <2>2, <2>5, <2>7 DEF m
<1> HIDE DEF pieces
<1>11. TextsOf(pieces) = w
  <2>1. /\ TextsOf(pieces) \in Seq(Seq(Nat)) /\ Len(TextsOf(pieces)) = Len(pieces)
        /\ \A i \in 1 .. Len(pieces) : TextsOf(pieces)[i] = pieces[i].text
    BY <1>10, TextsAre
  <2>2. Len(w) = Len(TextsOf(pieces)) /\ \A i \in 1 .. Len(TextsOf(pieces)) : TextsOf(pieces)[i] = w[i]
    BY <1>10, <2>1 DEF n
  <2>3. QED
    BY <1>7, <2>1, <2>2, SeqEqual
<1>12. \A i \in 1 .. n : GoodParent(Headings("##"), pieces[i]) /\ Len(pieces[i].text) <= MaxParent
  <2> SUFFICES ASSUME NEW i \in 1 .. n
               PROVE  GoodParent(Headings("##"), pieces[i]) /\ Len(pieces[i].text) <= MaxParent
    OBVIOUS
  <2>1. pieces[i] \in ParentSet /\ pieces[i].text = w[i] /\ pieces[i].kind = p.kind /\ pieces[i].title = p.title
    BY <1>10
  <2>2. Trim(w[i]) /\ Len(w[i]) \in Nat /\ Len(w[i]) <= MaxParent
    BY <1>7, ParentNumbers
  <2>3. Grouped(p.kind, w[i])
    <3> SUFFICES ASSUME p.kind = "paragraph_group", Len(w[i]) > Target PROVE OneParagraph(w[i])
      BY DEF Grouped
    <3>1. p.text \in Seq(Nat) /\ Len(p.text) \in Nat /\ Len(p.text) > Target
      <4>1. p.text \in Seq(Nat)
        BY <1>4, ParentIs
      <4>2. Len(p.text) \in Nat
        BY <4>1, SeqDomain
      <4>3. QED
        BY <1>2, <2>2, <4>1, <4>2, ParentNumbers
    <3>2. OneParagraph(p.text)
      BY <1>5, <3>1 DEF GoodParent, Grouped
    <3>3. QED
      BY <1>7, <3>2
  <2>4. ASSUME p.kind = "section" PROVE \A k \in 1 .. Len(w[i]) : Under(Headings("##"), p.title, w[i][k])
    <3>1. Kept \in SUBSET (Nat \ {0}) /\ Place \in [Kept -> Int]
      BY <1>2, PlacesAreNumbers DEF SourceInv
    <3>2. \A k \in 1 .. Len(p.text) : Under(Headings("##"), p.title, p.text[k])
      BY <1>5, <2>4 DEF GoodParent
    <3>3. \A j \in 1 .. Len(w) : \A k \in 1 .. Len(w[j]) : Under(Headings("##"), p.title, w[j][k])
      BY <1>8, <1>9, <3>1, <3>2, PartIsUnder DEF TextHolds
    <3>4. QED
      BY <3>3 DEF n
  <2>5. QED
    BY <2>1, <2>2, <2>3, <2>4 DEF GoodParent
<1>13. /\ parents' \in Seq(ParentSet) /\ Len(parents') = Len(parents) + n
       /\ \A i \in 1 .. Len(parents) : parents'[i] = parents[i]
       /\ \A i \in 1 .. Len(parents) + n : i \notin 1 .. Len(parents) =>
             i - Len(parents) \in 1 .. n /\ parents'[i] = pieces[i - Len(parents)]
  <2>1. /\ parents' \in Seq(ParentSet) /\ Len(parents') = Len(parents) + Len(pieces)
        /\ \A i \in 1 .. Len(parents) + Len(pieces) :
              parents'[i] = IF i <= Len(parents) THEN parents[i] ELSE pieces[i - Len(parents)]
    BY <1>1, <1>3, <1>10, ConcatProperties
  <2> DEFINE x == Len(parents)
             q == parents'
  <2>2. x \in Nat /\ n \in Nat /\ \A i \in 1 .. x + n : q[i] = IF i <= x THEN parents[i] ELSE pieces[i - x]
    BY <1>3, <1>7, <1>10, <2>1
  <2> HIDE DEF x, q
  <2>3. \A i \in 1 .. x : q[i] = parents[i]
    BY <2>2
  <2>4. \A i \in 1 .. x + n : i \notin 1 .. x => i - x \in 1 .. n /\ q[i] = pieces[i - x]
    BY <2>2
  <2>5. QED
    BY <1>10, <2>1, <2>3, <2>4 DEF x, q
<1>14. ParentTypes'
  BY <1>1, <1>2, <1>4, <1>13 DEF ParentTypes
<1>15. ParentLists'
  <2>1. \A i \in 1 .. Len(raw') : GoodParent(Headings("##"), raw'[i])
    BY <1>1, <1>2, <1>4 DEF ParentLists
  <2>2. ASSUME NEW i \in 1 .. Len(parents')
        PROVE  GoodParent(Headings("##"), parents'[i]) /\ Len(parents'[i].text) <= MaxParent
    <3>1. CASE i \in 1 .. Len(parents)
      BY <1>2, <1>13, <3>1 DEF ParentLists
    <3>2. CASE i \notin 1 .. Len(parents)
      <4>1. i - Len(parents) \in 1 .. n /\ parents'[i] = pieces[i - Len(parents)]
        BY <1>13, <3>2
      <4>2. QED
        BY <1>12, <4>1
    <3>3. QED
      BY <3>1, <3>2
  <2>3. QED
    BY <1>6, <2>1, <2>2 DEF ParentLists
<1>16. CapInv'
  <2>1. Kept \in SUBSET (Nat \ {0}) /\ Place \in [Kept -> Int]
    BY <1>2, PlacesAreNumbers DEF SourceInv
  <2>2. HoldsAll(Kept, Place, TextsOf(parents) \o w, Lowest, e)
    BY <1>8, <1>9, <2>1, ConcatHolds DEF TextsHold
  <2>3. TextsOf(parents') = TextsOf(parents) \o w
    BY <1>1, <1>3, <1>10, <1>11, TextsOfConcat
  <2>4. HoldsAll(Kept, Place, TextsOf(parents'), Lowest, e) /\ HoldsAll(Kept, Place, TextsOf(raw'), e, Highest)
    BY <1>1, <1>8, <2>2, <2>3 DEF TextsHold
  <2>5. \E x \in Int : TextsHold(TextsOf(parents), Lowest, x)' /\ TextsHold(TextsOf(raw), x, Highest)'
    BY <1>6, <2>4 DEF TextsHold
  <2>6. QED
    BY <1>1, <2>5 DEF CapInv, AtRestInv
<1>17. QED
  BY <1>1, <1>6, <1>14, <1>15, <1>16 DEF ParentInv, Tiers

-----------------------------------------------------------------------------
LEMMA TextsHoldOn ==
    ASSUME SourceInv, NEW s, NEW a, NEW b, NEW c, TextsHold(s, a, b), TextHolds(<<>>, b, c)
    PROVE  TextsHold(s, a, c)
<1>1. Kept \in SUBSET (Nat \ {0}) /\ Place \in [Kept -> Int]
  BY PlacesAreNumbers DEF SourceInv
<1>2. HoldsAll(Kept, Place, <<>>, b, c)
  BY EmptyTextHolds DEF TextsHold
<1>3. HoldsAll(Kept, Place, s \o <<>>, a, c)
  BY <1>1, <1>2, ConcatHolds DEF TextsHold
<1>4. s \in Seq(Seq(Nat))
  BY DEF TextsHold, HoldsAll
<1>5. s \o <<>> = s
  BY <1>4, ConcatEmptySeq
<1>6. QED
  BY <1>3, <1>5 DEF TextsHold

LEMMA RawAdded ==
    ASSUME SourceInv, ParentTypes, ParentLists, NEW p \in ParentSet, GoodParent(Headings("##"), p),
           NEW b, NEW c, TextsHold(TextsOf(raw), Lowest, b), TextHolds(p.text, b, c)
    PROVE  /\ Append(raw, p) \in Seq(ParentSet)
           /\ \A i \in 1 .. Len(Append(raw, p)) : GoodParent(Headings("##"), Append(raw, p)[i])
           /\ TextsHold(TextsOf(Append(raw, p)), Lowest, c)
<1> DEFINE r == Append(raw, p)
<1>1. raw \in Seq(ParentSet) /\ Len(raw) \in Nat
  BY SeqDomain DEF ParentTypes
<1>2. /\ r \in Seq(ParentSet) /\ Len(r) = Len(raw) + 1 /\ r[Len(raw) + 1] = p
      /\ \A i \in 1 .. Len(raw) : r[i] = raw[i]
  BY <1>1, AppendProperties
<1>3. TextsOf(r) = Append(TextsOf(raw), p.text)
  BY <1>1, TextsOfAppend
<1> HIDE DEF r
<1>4. \A i \in 1 .. Len(r) : i \in 1 .. Len(raw) \/ i = Len(raw) + 1
  BY <1>1, <1>2
<1>5. \A i \in 1 .. Len(r) : GoodParent(Headings("##"), r[i])
  BY <1>2, <1>4 DEF ParentLists
<1>6. Kept \in SUBSET (Nat \ {0}) /\ Place \in [Kept -> Int]
  BY PlacesAreNumbers DEF SourceInv
<1>7. HoldsAll(Kept, Place, Append(TextsOf(raw), p.text), Lowest, c)
  BY <1>6, AppendHolds DEF TextsHold, TextHolds
<1>8. QED
  BY <1>2, <1>3, <1>5, <1>7 DEF r, TextsHold

\* A section begins with its heading and ends before the next one.
LEMMA SectionIs ==
    ASSUME SourceInv, ParentTypes, ExtractInv, step = "sections", rest # <<>>,
           NEW c, TextHolds(rest, c, Highest)
    PROVE  Section \in ParentSet /\ GoodParent(Headings("##"), Section)
<1> DEFINE t == Strip(Part)
           h == rest[1]
           z == FirstIn({i \in DOMAIN t : t[i] = 0}, t)
<1>1. rest \in Seq(Nat) /\ Len(rest) \in Nat /\ Len(rest) >= 1 /\ 1 \in 1 .. Len(rest) /\ step \in Steps
  BY EmptySeq DEF ParentTypes, Steps
<1>2. /\ Kept \in SUBSET (Nat \ {0}) /\ Place \in [Kept -> Int] /\ Highest \in Nat
      /\ DOMAIN document = 1 .. Highest /\ start \in Nat
  BY PlacesAreNumbers DEF SourceInv
<1>3. h \in Headings("##") /\ h # 0 /\ start <= h /\ h \in Nat
  <2>1. h \in Headings("##")
    BY <1>1 DEF ExtractInv
  <2>2. h \in 1 .. Highest
    BY <1>2, <2>1 DEF Headings
  <2>3. QED
    BY <1>1, <1>2, <2>1, <2>2 DEF ExtractInv
<1>4. \A i \in Cuts : i \in 2 .. Len(rest)
  BY DEF Cuts
<1>5. /\ CutAt \in 1 .. Len(rest) + 1 /\ (CutAt <= Len(rest) => CutAt \in Cuts)
      /\ \A i \in Cuts : CutAt <= i
  BY <1>1, CutIs
<1>6. CutAt >= 2
  BY <1>1, <1>4, <1>5
<1>7. /\ Part \in Seq(Nat) /\ Len(Part) = CutAt - 1
      /\ \A k \in 1 .. Len(Part) : Part[k] = rest[k]
  BY <1>1, PartIs
<1>8. 1 \in 1 .. Len(Part) /\ Part[1] = h
  BY <1>5, <1>6, <1>7
<1>9. PICK m \in 1 .. Len(Part), n \in 1 .. Len(Part) :
         /\ m <= n /\ t = SubSeq(Part, m, n)
         /\ \A k \in 1 .. Len(Part) : k \notin m .. n => Part[k] = 0
  <2>1. ~\A k \in 1 .. Len(Part) : Part[k] = 0
    BY <1>3, <1>8
  <2>2. Part \in Seq(Nat)
    BY <1>7
  <2>3. QED
    BY <2>1, <2>2, StripIs
<1>10. m = 1
  BY <1>3, <1>5, <1>7, <1>8, <1>9
<1>11. t \in Seq(Nat) /\ Trim(t)
  BY <1>3, <1>7, <1>8, StripKeeps
<1>12. Len(t) = n /\ n \in Nat /\ \A k \in 1 .. n : t[k] = rest[k] /\ k < CutAt /\ k \in 1 .. Len(rest)
  <2>1. n \in Nat /\ 1 \in Nat /\ 1 <= n + 1 /\ n <= Len(Part) /\ Len(Part) \in Nat
    BY <1>5, <1>7
  <2>2. Len(t) = n - 1 + 1 /\ \A k \in 1 .. n - 1 + 1 : t[k] = Part[1 + k - 1]
    BY <1>7, <1>9, <1>10, <2>1, SubText
  <2> HIDE DEF t
  <2>3. n - 1 + 1 = n /\ \A k \in 1 .. n : 1 + k - 1 = k /\ k \in 1 .. Len(Part) /\ k < CutAt /\ k \in 1 .. Len(rest)
    BY <1>5, <1>7, <2>1
  <2>4. QED
    BY <1>7, <2>1, <2>2, <2>3
<1> HIDE DEF t
<1>13. Len(t) >= 1 /\ 1 \in 1 .. Len(t) /\ t[1] = h
  <2>1. Len(t) >= 1
    BY <1>11 DEF Trim
  <2>2. QED
    BY <1>12, <2>1
<1>14. FirstLine(t) \in Seq(Nat) /\ FirstLine(t)[1] = h
  <2> DEFINE Z == {i \in DOMAIN t : t[i] = 0}
  <2>1. Z \in SUBSET (1 .. Len(t)) /\ 1 \notin Z
    BY <1>3, <1>11, <1>13, SeqDomain
  <2> HIDE DEF Z
  <2>2. FirstIn(Z, t) \in 1 .. Len(t) + 1 /\ (FirstIn(Z, t) <= Len(t) => FirstIn(Z, t) \in Z)
    BY <1>11, <2>1, FirstInIs
  <2>3. FirstIn(Z, t) \in 2 .. Len(t) + 1
    BY <1>12, <1>13, <2>1, <2>2
  <2>4. FirstLine(t) = SubSeq(t, 1, FirstIn(Z, t) - 1)
    BY DEF FirstLine, Z
  <2> DEFINE y == FirstIn(Z, t) - 1
  <2>5. y \in Nat /\ 1 \in Nat /\ 1 <= y + 1 /\ y <= Len(t) /\ y >= 1 /\ 1 \in 1 .. y - 1 + 1 /\ 1 + 1 - 1 = 1
    BY <1>12, <2>3
  <2> HIDE DEF y
  <2>6. SubSeq(t, 1, y) \in Seq(Nat) /\ \A k \in 1 .. y - 1 + 1 : SubSeq(t, 1, y)[k] = t[1 + k - 1]
    BY <1>11, <2>5, SubText
  <2>7. SubSeq(t, 1, y)[1] = t[1]
    BY <2>5, <2>6
  <2>8. QED
    BY <1>13, <2>4, <2>6, <2>7 DEF y
<1>15. Section = [kind |-> "section", title |-> FirstLine(t), text |-> t]
  BY DEF Section, t
<1>16. Section \in ParentSet /\ Section.kind = "section" /\ Section.title[1] = h /\ Section.text = t
  BY <1>11, <1>14, <1>15 DEF ParentSet
<1>17. \A p \in Kept : start <= p => Place[p] = p
  <2> SUFFICES ASSUME NEW p \in Kept, start <= p PROVE ~Lifted(p)
    BY DEF Place
  <2>1. \A i \in DOMAIN preamble : p \notin ToSet(preamble[i].title)
    BY <1>2 DEF SourceInv
  <2>2. QED
    BY <2>1 DEF Lifted
<1>18. \A j \in 1 .. Len(rest) : rest[j] # 0 =>
          rest[j] \in Kept /\ Place[rest[j]] = rest[j] /\ rest[j] \in Nat /\ rest[j] <= Highest
  <2> SUFFICES ASSUME NEW j \in 1 .. Len(rest), rest[j] # 0
               PROVE  rest[j] \in Kept /\ Place[rest[j]] = rest[j] /\ rest[j] \in Nat /\ rest[j] <= Highest
    OBVIOUS
  <2>1. rest[j] \in Kept /\ Place[rest[j]] <= Highest
    BY DEF TextHolds, Holds
  <2>2. start <= rest[j]
    BY DEF ExtractInv
  <2>3. QED
    BY <1>1, <1>17, <2>1, <2>2
<1>19. \A j, l \in 1 .. Len(rest) : j < l /\ rest[j] # 0 /\ rest[l] # 0 => rest[j] < rest[l]
  BY <1>18 DEF TextHolds, Holds
<1>20. ASSUME NEW k \in 1 .. Len(t), t[k] # 0
       PROVE  h <= t[k] /\ \A g \in h + 1 .. t[k] : g \notin Headings("##")
  <2>1. k \in 1 .. Len(rest) /\ t[k] = rest[k] /\ rest[k] # 0 /\ k < CutAt
    BY <1>12, <1>20
  <2>2. h <= rest[k]
    <3>1. rest[k] \in Nat
      BY <1>18, <2>1
    <3>2. k # 1 => 1 < k
      BY <1>1, <2>1
    <3>3. k # 1 => rest[1] < rest[k]
      BY <1>1, <1>3, <1>19, <2>1, <3>2
    <3>4. QED
      BY <1>3, <3>1, <3>3
  <2>3. ASSUME NEW g \in h + 1 .. rest[k], g \in Headings("##") PROVE FALSE
    <3>1. g \in Nat /\ h < g /\ g <= rest[k] /\ g <= Highest /\ start <= g /\ rest[k] \in Nat
      <4>1. rest[k] \in Nat /\ rest[k] <= Highest
        BY <1>18, <2>1
      <4>2. g \in Int /\ h < g /\ g <= rest[k]
        BY <1>3, <2>3, <4>1
      <4>3. QED
        BY <1>2, <1>3, <4>1, <4>2
    <3>2. document[g] = "##" /\ g \in DOMAIN document
      BY <2>3 DEF Headings
    <3>3. g \in Kept /\ Place[g] = g
      BY <1>17, <3>1, <3>2 DEF Kept
    <3>4. c < Place[h] /\ Place[h] = h /\ c \in Int
      BY <1>1, <1>3, <1>18 DEF TextHolds, Holds
    <3>5. c < Place[g] /\ Place[g] <= Highest
      BY <1>3, <3>1, <3>3, <3>4
    <3>6. PICK l \in 1 .. Len(rest) : rest[l] = g
      BY <3>3, <3>5 DEF TextHolds, Holds
    <3>7. l # 1
      BY <1>3, <3>1, <3>6
    <3>8. l \in 2 .. Len(rest)
      BY <1>1, <3>6, <3>7
    <3>9. l \in Cuts
      BY <2>3, <3>6, <3>8 DEF Cuts
    <3>10. CutAt <= l
      BY <1>5, <3>9
    <3>11. k < l
      BY <1>1, <1>5, <2>1, <3>8, <3>10
    <3>12. rest[l] # 0
      BY <1>3, <3>1, <3>6
    <3>13. rest[k] < rest[l]
      BY <1>19, <2>1, <3>6, <3>11, <3>12
    <3>14. QED
      BY <3>1, <3>6, <3>13
  <2>4. QED
    BY <2>1, <2>2, <2>3
<1>21. \A k \in 1 .. Len(t) : Under(Headings("##"), Section.title, t[k])
  BY <1>16, <1>20 DEF Under
<1>22. QED
  BY <1>11, <1>16, <1>21 DEF GoodParent, Grouped

LEMMA TakeSectionKeeps == ASSUME ParentInv, TakeSection PROVE ParentInv'
<1>1. /\ step = "sections" /\ step' = "sections" /\ rest # <<>> /\ raw' = Append(raw, Section) /\ rest' = Remains
      /\ UNCHANGED <<sourceVars, buf, bufLen, todo, done, parents>>
  BY DEF TakeSection
<1>2. ExtractInv /\ SourceInv /\ ParentTypes /\ ParentLists
  BY <1>1 DEF ParentInv
<1>3. /\ SourceInv' /\ Kept' = Kept /\ Place' = Place /\ Lowest' = Lowest /\ Highest' = Highest
      /\ Headings("##")' = Headings("##")
  BY <1>1, <1>2, SourceStays
<1>4. PICK b \in Int : TextsHold(TextsOf(raw), Lowest, b) /\
         \E c \in Int : TextHolds(buf, b, c) /\ TextHolds(rest, c, Highest)
  BY <1>2 DEF ExtractInv
<1>5. PICK c \in Int : TextHolds(buf, b, c) /\ TextHolds(rest, c, Highest)
  BY <1>4
<1>6. Kept \in SUBSET (Nat \ {0}) /\ Place \in [Kept -> Int] /\ Highest \in Nat
  BY <1>2, PlacesAreNumbers DEF SourceInv
<1>7. buf = <<>> /\ step \in Steps /\ rest \in Seq(Nat)
  BY <1>1, <1>2 DEF ExtractInv, Steps, ParentTypes
<1>8. PICK x \in c .. Highest : Holds(Kept, Place, Part, c, x) /\ Holds(Kept, Place, Remains, x, Highest)
  BY <1>5, <1>6, <1>7, RestIsCut DEF TextHolds
<1>9. Section \in ParentSet /\ GoodParent(Headings("##"), Section)
  BY <1>1, <1>2, <1>5, SectionIs
<1>10. TextHolds(Section.text, c, x)
  BY <1>6, <1>8, StripHolds DEF TextHolds, Section
<1>11. TextsHold(TextsOf(raw), Lowest, c)
  BY <1>2, <1>4, <1>5, <1>7, TextsHoldOn
<1>12. /\ raw' \in Seq(ParentSet)
       /\ \A i \in 1 .. Len(raw') : GoodParent(Headings("##"), raw'[i])
       /\ TextsHold(TextsOf(raw'), Lowest, x)
  BY <1>1, <1>2, <1>9, <1>10, <1>11, RawAdded DEF TextsHold
<1>13. /\ CutAt \in 1 .. Len(rest) + 1 /\ (CutAt <= Len(rest) => CutAt \in Cuts)
       /\ RestAt \in CutAt .. Len(rest) + 1 /\ Len(rest) \in Nat
       /\ \A k \in CutAt .. RestAt - 1 : rest[k] = 0 \/ k > Len(rest)
  BY <1>7, CutIs
<1>14. /\ Remains \in Seq(Nat) /\ Len(Remains) = Len(rest) - RestAt + 1
       /\ \A k \in 1 .. Len(Remains) : RestAt + k - 1 \in RestAt .. Len(rest) /\ Remains[k] = rest[RestAt + k - 1]
  BY <1>7, PartIs
<1>15. ASSUME Remains # <<>> PROVE Remains[1] \in Headings("##")
  <2>1. Len(Remains) >= 1 /\ 1 \in 1 .. Len(Remains)
    BY <1>14, <1>15, EmptySeq
  <2>2. RestAt <= Len(rest) /\ Remains[1] = rest[RestAt]
    <3>1. RestAt + 1 - 1 = RestAt
      BY <1>13
    <3>2. QED
      BY <1>13, <1>14, <2>1, <3>1
  <2>3. CutAt \in Cuts
    BY <1>13, <2>2
  <2>4. rest[CutAt] \in Headings("##")
    BY <1>1, <2>3 DEF Cuts
  <2>5. rest[CutAt] # 0
    <3>1. 0 \notin DOMAIN document
      BY <1>2, <1>6, PlacesAreNumbers DEF SourceInv
    <3>2. QED
      BY <2>4, <3>1 DEF Headings
  <2>6. CutAt = RestAt
    BY <1>13, <2>2, <2>5
  <2>7. QED
    BY <2>2, <2>4, <2>6
<1>16. \A k \in 1 .. Len(Remains) : Remains[k] # 0 => start <= Remains[k]
  <2> SUFFICES ASSUME NEW k \in 1 .. Len(Remains), Remains[k] # 0 PROVE start <= Remains[k]
    OBVIOUS
  <2>1. RestAt + k - 1 \in 1 .. Len(rest) /\ Remains[k] = rest[RestAt + k - 1]
    BY <1>13, <1>14
  <2>2. QED
    BY <1>1, <1>2, <2>1 DEF ExtractInv
<1>17. ParentTypes'
  BY <1>1, <1>2, <1>12, <1>14 DEF ParentTypes
<1>18. ParentLists'
  BY <1>1, <1>2, <1>3, <1>12 DEF ParentLists
<1>19. ExtractInv'
  <2>1. x \in Int
    BY <1>5, <1>6, <1>8
  <2>2. Holds(Kept, Place, <<>>, x, x)
    BY <1>6, <2>1, EmptyHolds
  <2>3. TextsHold(TextsOf(raw), Lowest, x)' /\ TextHolds(buf, x, x)' /\ TextHolds(rest, x, Highest)'
    BY <1>1, <1>3, <1>7, <1>8, <1>12, <2>2 DEF TextHolds, TextsHold
  <2>4. start' = start
    BY <1>1 DEF sourceVars
  <2>5. QED
    BY <1>1, <1>2, <1>3, <1>7, <1>15, <1>16, <2>1, <2>3, <2>4 DEF ExtractInv
<1>20. QED
  BY <1>1, <1>3, <1>17, <1>18, <1>19 DEF ParentInv, Tiers

LEMMA GroupIs ==
    ASSUME SourceInv, ParentTypes, ParentLists, ExtractInv, step = "groups", buf # <<>>,
           NEW b, NEW c, TextsHold(TextsOf(raw), Lowest, b), TextHolds(buf, b, c)
    PROVE  /\ GroupAdded \in Seq(ParentSet)
           /\ \A i \in 1 .. Len(GroupAdded) : GoodParent(Headings("##"), GroupAdded[i])
           /\ TextsHold(TextsOf(GroupAdded), Lowest, c)
<1> DEFINE p == [kind |-> "paragraph_group", title |-> <<>>, text |-> Strip(buf)]
<1>1. Kept \in SUBSET (Nat \ {0}) /\ Place \in [Kept -> Int]
  BY PlacesAreNumbers DEF SourceInv
<1>2. buf \in Seq(Nat) /\ Len(buf) \in Nat /\ bufLen \in Nat /\ Len(buf) <= bufLen
      /\ (OneParagraph(buf) \/ bufLen <= Target) /\ \E k \in 1 .. Len(buf) : buf[k] # 0
  BY SeqDomain DEF ParentTypes, ExtractInv
<1>3. /\ Strip(buf) \in Seq(Nat) /\ Len(Strip(buf)) <= Len(buf) /\ Strip(buf) # <<>> /\ Trim(Strip(buf))
      /\ OneParagraph(buf) => OneParagraph(Strip(buf))
  BY <1>2, StripKeeps
<1>4. Len(Strip(buf)) \in Nat
  BY <1>3, SeqDomain
<1>5. Grouped("paragraph_group", Strip(buf))
  BY <1>2, <1>3, <1>4, ParentNumbers DEF Grouped
<1>6. p \in ParentSet /\ p.kind = "paragraph_group" /\ p.text = Strip(buf)
  BY <1>3 DEF ParentSet
<1>7. GroupAdded = Append(raw, p)
  BY DEF GroupAdded
<1> HIDE DEF p
<1>8. GoodParent(Headings("##"), p)
  BY <1>3, <1>5, <1>6 DEF GoodParent
<1>9. TextHolds(p.text, b, c)
  BY <1>1, <1>6, StripHolds DEF TextHolds
<1>10. QED
  BY <1>6, <1>7, <1>8, <1>9, RawAdded

\* A blank part has no letters.
LEMMA BlankPart ==
    ASSUME SourceInv, NEW a, NEW b, NEW c, TextHolds(buf, a, b), TextHolds(Part, b, c), Strip(Part) = <<>>
    PROVE  TextHolds(buf, a, c)
<1>1. Kept \in SUBSET (Nat \ {0}) /\ Place \in [Kept -> Int]
  BY PlacesAreNumbers DEF SourceInv
<1>2. Holds(Kept, Place, <<>>, b, c)
  BY <1>1, StripHolds DEF TextHolds
<1>3. <<>> \in Newlines
  BY DEF Newlines
<1>4. Holds(Kept, Place, buf \o <<>> \o <<>>, a, c)
  BY <1>1, <1>2, <1>3, JoinHolds DEF TextHolds
<1>5. buf \in Seq(Nat)
  BY DEF TextHolds, Holds
<1>6. buf \o <<>> \o <<>> = buf
  BY <1>5, ConcatEmptySeq
<1>7. QED
  BY <1>4, <1>6 DEF TextHolds

LEMMA PackParagraphKeeps == ASSUME ParentInv, PackParagraph PROVE ParentInv'
<1>1. /\ step = "groups" /\ step' = "groups" /\ rest # <<>> /\ rest' = Remains
      /\ UNCHANGED <<sourceVars, raw, todo, done, parents>>
  BY DEF PackParagraph
<1>2. ExtractInv /\ SourceInv /\ ParentTypes /\ ParentLists
  BY <1>1 DEF ParentInv
<1>3. /\ SourceInv' /\ Kept' = Kept /\ Place' = Place /\ Lowest' = Lowest /\ Highest' = Highest
      /\ Headings("##")' = Headings("##")
  BY <1>1, <1>2, SourceStays
<1>4. PICK b \in Int : TextsHold(TextsOf(raw), Lowest, b) /\
         \E c \in Int : TextHolds(buf, b, c) /\ TextHolds(rest, c, Highest)
  BY <1>2 DEF ExtractInv
<1>5. PICK c \in Int : TextHolds(buf, b, c) /\ TextHolds(rest, c, Highest)
  BY <1>4
<1>6. Kept \in SUBSET (Nat \ {0}) /\ Place \in [Kept -> Int] /\ Highest \in Nat
  BY <1>2, PlacesAreNumbers DEF SourceInv
<1>7. /\ step \in Steps /\ rest \in Seq(Nat) /\ buf \in Seq(Nat) /\ bufLen \in Nat /\ Len(buf) \in Nat
      /\ Len(buf) <= bufLen /\ preamble' = preamble
  BY <1>1, <1>2, SeqDomain DEF ExtractInv, Steps, ParentTypes, sourceVars
<1>8. PICK x \in c .. Highest : Holds(Kept, Place, Part, c, x) /\ Holds(Kept, Place, Remains, x, Highest)
  BY <1>5, <1>6, <1>7, RestIsCut DEF TextHolds
<1>9. x \in Int /\ TextHolds(Part, c, x)
  BY <1>5, <1>6, <1>8 DEF TextHolds
<1>10. Remains \in Seq(Nat) /\ Part \in Seq(Nat) /\ Len(Part) \in Nat /\ OneParagraph(Part)
  BY <1>1, <1>7, PartIs, PartIsUncut, SeqDomain
<1>11. ParentLists'
  BY <1>1, <1>2, <1>3 DEF ParentLists
<1>12. CASE Strip(Part) = <<>>
  <2>1. buf' = buf /\ bufLen' = bufLen
    BY <1>12 DEF PackParagraph
  <2>2. ParentTypes'
    BY <1>1, <1>2, <1>10, <2>1 DEF ParentTypes
  <2>3. TextHolds(buf, b, x)
    BY <1>2, <1>5, <1>9, <1>12, BlankPart
  <2>4. TextsHold(TextsOf(raw), Lowest, b)' /\ TextHolds(buf, b, x)' /\ TextHolds(rest, x, Highest)'
    BY <1>1, <1>3, <1>4, <1>8, <2>1, <2>3 DEF TextHolds, TextsHold
  <2>5. ExtractInv'
    BY <1>1, <1>2, <1>7, <1>9, <2>1, <2>4 DEF ExtractInv
  <2>6. QED
    BY <1>1, <1>3, <1>11, <2>2, <2>5 DEF ParentInv, Tiers
<1>13. CASE Strip(Part) # <<>>
  <2>1. /\ buf = <<>> \/ bufLen + Len(Part) + 2 <= Target
        /\ buf' = Grown /\ bufLen' = bufLen + Len(Part) + 2
    BY <1>13 DEF PackParagraph
  <2>2. TextHolds(Grown, b, x)
    BY <1>2, <1>5, <1>9, GrownHolds
  <2>3. Grown \in Seq(Nat)
    BY <2>2 DEF TextHolds, Holds
  <2>4. PICK k \in 1 .. Len(Part) : Part[k] # 0
    BY <1>10, <1>13, StripKeeps
  <2>5. /\ Len(Grown) <= bufLen + Len(Part) + 2
        /\ \E l \in 1 .. Len(Grown) : Grown[l] # 0
        /\ OneParagraph(Grown) \/ bufLen + Len(Part) + 2 <= Target
    <3>1. CASE buf = <<>>
      BY <1>7, <1>10, <2>4, <3>1 DEF Grown
    <3>2. CASE buf # <<>>
      <4>1. Grown = buf \o <<0, 0>> \o Part /\ <<0, 0>> \in Newlines /\ Len(<<0, 0>>) = 2
        BY <1>1, <3>2 DEF Grown, Joiner, Newlines
      <4>2. /\ Len(Grown) = Len(buf) + 2 + Len(Part)
            /\ \A l \in 1 .. Len(Part) : Grown[Len(buf) + 2 + l] = Part[l]
        <5> DEFINE u == Part
                   z == <<0, 0>>
        <5>1. buf \in Seq(Nat) /\ u \in Seq(Nat) /\ z \in Newlines
          BY <1>7, <1>10, <4>1
        <5> HIDE DEF u, z
        <5>2. /\ Len(buf \o z \o u) = Len(buf) + Len(z) + Len(u)
              /\ \A l \in 1 .. Len(u) : (buf \o z \o u)[Len(buf) + Len(z) + l] = u[l]
          BY <5>1, JoinedText
        <5>3. Grown = buf \o z \o u /\ Len(z) = 2
          BY <4>1 DEF u, z
        <5>4. QED
          BY <5>2, <5>3 DEF u
      <4>3. Len(buf) + 2 + k \in 1 .. Len(Grown) /\ Grown[Len(buf) + 2 + k] # 0
        BY <1>7, <1>10, <2>4, <4>2
      <4>4. \E l \in 1 .. Len(Grown) : Grown[l] # 0
        BY <4>3
      <4>5. Len(Grown) <= bufLen + Len(Part) + 2
        BY <1>7, <1>10, <4>2
      <4>6. QED
        BY <2>1, <3>2, <4>4, <4>5
    <3>3. QED
      BY <3>1, <3>2
  <2>6. ParentTypes'
    BY <1>1, <1>2, <1>7, <1>10, <2>1, <2>3 DEF ParentTypes
  <2>7. TextsHold(TextsOf(raw), Lowest, b)' /\ TextHolds(buf, b, x)' /\ TextHolds(rest, x, Highest)'
    BY <1>1, <1>3, <1>4, <1>8, <2>1, <2>2 DEF TextHolds, TextsHold
  <2>8. ExtractInv'
    BY <1>1, <1>2, <1>7, <1>9, <2>1, <2>5, <2>7 DEF ExtractInv
  <2>9. QED
    BY <1>1, <1>3, <1>11, <2>6, <2>8 DEF ParentInv, Tiers
<1>14. QED
  BY <1>12, <1>13

LEMMA StartGroupKeeps == ASSUME ParentInv, StartGroup PROVE ParentInv'
<1>1. /\ step = "groups" /\ step' = "groups" /\ rest # <<>> /\ Strip(Part) # <<>> /\ buf # <<>>
      /\ raw' = GroupAdded /\ buf' = Part /\ bufLen' = Len(Part) /\ rest' = Remains
      /\ UNCHANGED <<sourceVars, todo, done, parents>>
  BY DEF StartGroup
<1>2. ExtractInv /\ SourceInv /\ ParentTypes /\ ParentLists
  BY <1>1 DEF ParentInv
<1>3. /\ SourceInv' /\ Kept' = Kept /\ Place' = Place /\ Lowest' = Lowest /\ Highest' = Highest
      /\ Headings("##")' = Headings("##")
  BY <1>1, <1>2, SourceStays
<1>4. PICK b \in Int : TextsHold(TextsOf(raw), Lowest, b) /\
         \E c \in Int : TextHolds(buf, b, c) /\ TextHolds(rest, c, Highest)
  BY <1>2 DEF ExtractInv
<1>5. PICK c \in Int : TextHolds(buf, b, c) /\ TextHolds(rest, c, Highest)
  BY <1>4
<1>6. Kept \in SUBSET (Nat \ {0}) /\ Place \in [Kept -> Int] /\ Highest \in Nat
  BY <1>2, PlacesAreNumbers DEF SourceInv
<1>7. step \in Steps /\ rest \in Seq(Nat) /\ preamble' = preamble
  BY <1>1, <1>2 DEF Steps, ParentTypes, sourceVars
<1>8. PICK x \in c .. Highest : Holds(Kept, Place, Part, c, x) /\ Holds(Kept, Place, Remains, x, Highest)
  BY <1>5, <1>6, <1>7, RestIsCut DEF TextHolds
<1>9. x \in Int
  BY <1>5, <1>6, <1>8
<1>10. Remains \in Seq(Nat) /\ Part \in Seq(Nat) /\ Len(Part) \in Nat /\ OneParagraph(Part)
  BY <1>1, <1>7, PartIs, PartIsUncut, SeqDomain
<1>11. \E k \in 1 .. Len(Part) : Part[k] # 0
  BY <1>1, <1>10, StripKeeps
<1>12. /\ GroupAdded \in Seq(ParentSet)
       /\ \A i \in 1 .. Len(GroupAdded) : GoodParent(Headings("##"), GroupAdded[i])
       /\ TextsHold(TextsOf(GroupAdded), Lowest, c)
  BY <1>1, <1>2, <1>4, <1>5, GroupIs
<1>13. ParentTypes' /\ ParentLists'
  BY <1>1, <1>2, <1>3, <1>10, <1>12 DEF ParentTypes, ParentLists
<1>14. TextsHold(TextsOf(raw), Lowest, c)' /\ TextHolds(buf, c, x)' /\ TextHolds(rest, x, Highest)'
  BY <1>1, <1>3, <1>8, <1>12 DEF TextHolds, TextsHold
<1>15. Len(Part) <= Len(Part)
  BY <1>10
<1>16. ExtractInv'
  BY <1>1, <1>2, <1>7, <1>9, <1>10, <1>11, <1>14, <1>15 DEF ExtractInv
<1>17. QED
  BY <1>1, <1>3, <1>13, <1>16 DEF ParentInv, Tiers

LEMMA EndOfTextKeeps == ASSUME ParentInv, EndOfText PROVE ParentInv'
<1>1. /\ step \in {"sections", "groups"} /\ step' = "cap" /\ rest = <<>>
      /\ raw' = IF buf = <<>> THEN raw ELSE GroupAdded
      /\ buf' = <<>> /\ bufLen' = 0 /\ UNCHANGED <<sourceVars, rest, todo, done, parents>>
  BY DEF EndOfText
<1>2. ExtractInv /\ SourceInv /\ ParentTypes /\ ParentLists
  BY <1>1 DEF ParentInv
<1>3. /\ SourceInv' /\ Kept' = Kept /\ Place' = Place /\ Lowest' = Lowest /\ Highest' = Highest
      /\ Headings("##")' = Headings("##")
  BY <1>1, <1>2, SourceStays
<1>4. PICK b \in Int : TextsHold(TextsOf(raw), Lowest, b) /\
         \E c \in Int : TextHolds(buf, b, c) /\ TextHolds(rest, c, Highest)
  BY <1>2 DEF ExtractInv
<1>5. PICK c \in Int : TextHolds(buf, b, c) /\ TextHolds(rest, c, Highest)
  BY <1>4
<1>6. /\ raw' \in Seq(ParentSet)
      /\ \A i \in 1 .. Len(raw') : GoodParent(Headings("##"), raw'[i])
      /\ TextsHold(TextsOf(raw'), Lowest, c)
  <2>1. CASE buf = <<>>
    <3>1. TextsHold(TextsOf(raw), Lowest, c)
      BY <1>2, <1>4, <1>5, <2>1, TextsHoldOn
    <3>2. QED
      BY <1>1, <1>2, <2>1, <3>1 DEF ParentTypes, ParentLists
  <2>2. CASE buf # <<>>
    <3>1. step = "groups"
      BY <1>1, <1>2, <2>2 DEF ExtractInv
    <3>2. QED
      BY <1>1, <1>2, <1>4, <1>5, <2>2, <3>1, GroupIs
  <2>3. QED
    BY <2>1, <2>2
<1>7. TextsHold(TextsOf(raw'), Lowest, Highest)
  BY <1>1, <1>2, <1>5, <1>6, TextsHoldOn
<1>8. Kept \in SUBSET (Nat \ {0}) /\ Place \in [Kept -> Int] /\ Lowest \in Int
  BY <1>2, PlacesAreNumbers DEF SourceInv
<1>9. ParentTypes' /\ ParentLists'
  <2>1. <<>> \in Seq(Nat) /\ 0 \in Nat
    OBVIOUS
  <2>2. QED
    BY <1>1, <1>2, <1>3, <1>6, <2>1 DEF ParentTypes, ParentLists
<1>10. CapInv'
  <2>1. HoldsAll(Kept, Place, TextsOf(parents), Lowest, Lowest)
    BY <1>2, <1>8, TextsOfEmpty, EmptyHolds DEF ExtractInv
  <2>2. TextsHold(TextsOf(parents), Lowest, Lowest)' /\ TextsHold(TextsOf(raw), Lowest, Highest)'
    BY <1>1, <1>3, <1>7, <2>1 DEF TextsHold
  <2>3. AtRestInv'
    BY <1>1, <1>2 DEF AtRestInv, ExtractInv
  <2>4. \E a \in Int : TextsHold(TextsOf(parents), Lowest, a)' /\ TextsHold(TextsOf(raw), a, Highest)'
    BY <1>3, <1>8, <2>2
  <2>5. QED
    BY <2>3, <2>4 DEF CapInv
<1>11. QED
  BY <1>1, <1>3, <1>9, <1>10 DEF ParentInv, Tiers

-----------------------------------------------------------------------------
LEMMA TextIs ==
    ASSUME document \in Seq(Letters), NEW a \in Nat, NEW b \in Nat, 1 <= a, a <= b + 1, b <= Len(document)
    PROVE  /\ Text(a, b) \in Seq(Nat) /\ Len(Text(a, b)) = b - a + 1
           /\ \A k \in 1 .. b - a + 1 : Text(a, b)[k] = IF document[a + k - 1] = "\n" THEN 0 ELSE a + k - 1
<1> DEFINE t == Text(a, b)
           n == b - a + 1
           m == Len(t)
<1>1. n \in Nat
  OBVIOUS
<1>2. t = [i \in 1 .. n |-> IF document[a + i - 1] = "\n" THEN 0 ELSE a + i - 1]
  BY DEF Text
<1> HIDE DEF n, t
<1>3. \A i \in 1 .. n : (IF document[a + i - 1] = "\n" THEN 0 ELSE a + i - 1) \in Nat
  BY <1>1
<1>4. t \in [1 .. n -> Nat] /\ DOMAIN t = 1 .. n
  BY <1>2, <1>3
<1>5. t \in Seq(Nat)
  BY <1>1, <1>4, SeqDef
<1>6. m \in Nat /\ 1 .. m = 1 .. n
  BY <1>4, <1>5, SeqDomain
<1> HIDE DEF m
<1>7. m = n
  <2>1. \A i \in Int : i \in 1 .. m <=> i \in 1 .. n
    BY <1>6
  <2>2. (n >= 1 => n \in 1 .. m) /\ (m >= 1 => m \in 1 .. n)
    BY <1>1, <1>6, <2>1
  <2>3. QED
    BY <1>1, <1>6, <2>2
<1>8. QED
  BY <1>2, <1>5, <1>7 DEF m, n, t

\* A stretch of the document, whose letters are in the order of their places.
LEMMA TextIsHeld ==
    ASSUME document \in Seq(Letters), NEW K \in SUBSET (Nat \ {0}), NEW P \in [K -> Int],
           NEW a \in Nat, NEW b \in Nat, 1 <= a, a <= b + 1, b <= Len(document),
           NEW x \in Int, NEW y \in Int, x <= y,
           \A p \in a .. b : document[p] # "\n" => p \in K /\ x < P[p] /\ P[p] <= y,
           \A p, q \in a .. b : p < q /\ document[p] # "\n" /\ document[q] # "\n" => P[p] < P[q],
           \A p \in K : x < P[p] /\ P[p] <= y => p \in a .. b /\ document[p] # "\n"
    PROVE  Holds(K, P, Text(a, b), x, y)
<1> DEFINE t == Text(a, b)
<1>1. /\ t \in Seq(Nat) /\ Len(t) = b - a + 1
      /\ \A k \in 1 .. b - a + 1 : t[k] = IF document[a + k - 1] = "\n" THEN 0 ELSE a + k - 1
  BY TextIs
<1> HIDE DEF t
<1>2. \A k \in 1 .. Len(t) : t[k] # 0 => t[k] = a + k - 1 /\ t[k] \in a .. b /\ document[t[k]] # "\n"
  <2> SUFFICES ASSUME NEW k \in 1 .. Len(t), t[k] # 0
               PROVE  t[k] = a + k - 1 /\ t[k] \in a .. b /\ document[t[k]] # "\n"
    OBVIOUS
  <2>1. k \in 1 .. b - a + 1 /\ a + k - 1 \in a .. b
    BY <1>1
  <2>2. t[k] = IF document[a + k - 1] = "\n" THEN 0 ELSE a + k - 1
    BY <1>1, <2>1
  <2>3. QED
    BY <2>1, <2>2
<1>3. \A k \in 1 .. Len(t) : t[k] # 0 => t[k] \in K /\ x < P[t[k]] /\ P[t[k]] <= y
  BY <1>2
<1>4. \A k, l \in 1 .. Len(t) : k < l /\ t[k] # 0 /\ t[l] # 0 => P[t[k]] < P[t[l]]
  <2> SUFFICES ASSUME NEW k \in 1 .. Len(t), NEW l \in 1 .. Len(t), k < l, t[k] # 0, t[l] # 0
               PROVE  P[t[k]] < P[t[l]]
    OBVIOUS
  <2>1. t[k] = a + k - 1 /\ t[l] = a + l - 1
    BY <1>2
  <2>2. k \in Int /\ l \in Int
    BY <1>1
  <2>3. t[k] < t[l]
    BY <2>1, <2>2
  <2>4. QED
    BY <1>2, <2>3
<1>5. \A p \in K : x < P[p] /\ P[p] <= y => \E k \in 1 .. Len(t) : t[k] = p
  <2> SUFFICES ASSUME NEW p \in K, x < P[p], P[p] <= y PROVE \E k \in 1 .. Len(t) : t[k] = p
    OBVIOUS
  <2>1. p \in a .. b /\ document[p] # "\n"
    OBVIOUS
  <2>2. p - a + 1 \in 1 .. b - a + 1 /\ a + (p - a + 1) - 1 = p
    BY <2>1
  <2>3. t[p - a + 1] = p
    BY <1>1, <2>1, <2>2
  <2>4. QED
    BY <1>1, <2>2, <2>3
<1>6. QED
  BY <1>1, <1>3, <1>4, <1>5 DEF Holds, t

\* The first word behind the mark is in the title, which ends with its line.
LEMMA TitleIs ==
    ASSUME document \in Seq(Letters), start \in 1 .. Len(document), Tops # {}
    PROVE  /\ Min(Tops) \in 1 .. start - 1 /\ document[Min(Tops)] = "#"
           /\ TitleAt \in Min(Tops) + 1 .. start - 1
           /\ \A q \in Min(Tops) + 1 .. TitleAt - 1 : document[q] = "\n"
           /\ TitleEnd \in TitleAt .. start - 1
           /\ \A q \in TitleAt .. TitleEnd : document[q] # "\n"
<1> DEFINE top == Min(Tops)
<1>1. Len(document) \in Nat /\ DOMAIN document = 1 .. Len(document) /\ start \in Nat
  BY SeqDomain
<1>2. top \in Tops
  <2>1. Tops \in SUBSET Int /\ 1 \in Int /\ \A p \in Tops : 1 <= p
    BY <1>1 DEF Tops, Headings
  <2>2. QED
    BY <2>1, MinIs
<1> HIDE DEF top
<1>3. top \in 1 .. Len(document) /\ document[top] = "#" /\ WordAfter(top) < start
  BY <1>1, <1>2 DEF Tops, Headings
<1>4. /\ WordAfter(top) \in top + 1 .. start - 1
      /\ document[WordAfter(top)] # "\n"
      /\ \A q \in top + 1 .. WordAfter(top) - 1 : document[q] = "\n"
  <2> DEFINE S == {q \in top + 1 .. start - 1 : document[q] # "\n"}
             R == S \cup {start}
             w == WordAfter(top)
  <2>1. w = Min(R)
    BY DEF WordAfter
  <2>2. R \in SUBSET Int /\ R # {} /\ 0 \in Int /\ \A i \in R : 0 <= i
    BY <1>1, <1>3
  <2> HIDE DEF R, w
  <2>3. w \in R /\ \A i \in R : w <= i
    BY <2>1, <2>2, MinIs
  <2>4. w \in S
    BY <1>1, <1>3, <2>3 DEF R, w
  <2>5. w \in top + 1 .. start - 1 /\ document[w] # "\n"
    BY <2>4
  <2>6. ASSUME NEW q \in top + 1 .. w - 1, document[q] # "\n" PROVE FALSE
    <3>1. q \in S
      BY <1>1, <1>3, <2>5, <2>6
    <3>2. w <= q
      BY <2>3, <3>1 DEF R
    <3>3. QED
      BY <1>3, <2>5, <2>6, <3>2
  <2>7. QED
    BY <2>5, <2>6 DEF w
<1>5. TitleAt = WordAfter(top)
  BY DEF TitleAt, top
<1>6. TitleEnd \in TitleAt .. start - 1 /\ \A q \in TitleAt .. TitleEnd : document[q] # "\n"
  <2> DEFINE S == {q \in TitleAt .. start - 1 : document[q] = "\n"}
             R == S \cup {start}
             e == Min(R)
             A == TitleAt
  <2>1. A \in Int /\ A >= 1 /\ A <= start - 1 /\ document[A] # "\n"
    BY <1>1, <1>3, <1>4, <1>5
  <2>2. TitleEnd = e - 1
    BY DEF TitleEnd
  <2>3. R \in SUBSET Int /\ R # {} /\ 1 \in Int /\ \A i \in R : 1 <= i
    BY <1>1, <2>1
  <2> HIDE DEF R
  <2>4. e \in R /\ \A i \in R : e <= i
    BY <2>3, MinIs
  <2> HIDE DEF e, A
  <2>5. e \in A + 1 .. start
    <3>1. e = start \/ (e \in A .. start - 1 /\ document[e] = "\n")
      BY <2>4 DEF R, A
    <3>2. QED
      BY <1>1, <2>1, <3>1
  <2>6. e - 1 \in A .. start - 1
    BY <1>1, <2>1, <2>5
  <2>7. ASSUME NEW q \in A .. e - 1, document[q] = "\n" PROVE FALSE
    <3>1. q \in A .. start - 1 /\ q < e
      BY <1>1, <2>1, <2>5, <2>7
    <3>2. q \in S
      BY <2>7, <3>1 DEF A
    <3>3. e <= q
      BY <2>4, <3>2 DEF R
    <3>4. QED
      BY <2>1, <2>5, <3>1, <3>3
  <2>8. QED
    BY <2>2, <2>6, <2>7 DEF A
<1>7. top \in 1 .. start - 1
  BY <1>1, <1>3, <1>4
<1>8. QED
  BY <1>3, <1>4, <1>5, <1>6, <1>7 DEF top

\* The letters that a preamble and the sections have, and their places.
Worth == {p \in DOMAIN document : document[p] # "\n" /\ (Tops = {} \/ p # Min(Tops))}

Lift == [p \in Worth |-> IF Tops # {} /\ p \in TitleAt .. TitleEnd THEN p - Len(document) ELSE p]

TitleText == IF Tops = {} THEN <<>> ELSE Text(TitleAt, TitleEnd)

PreambleText == IF TitleText = <<>> THEN Body ELSE TitleText \o <<0>> \o Body

LEMMA LiftIs ==
    ASSUME document \in Seq(Letters), start \in 1 .. Len(document)
    PROVE  /\ Worth \in SUBSET (Nat \ {0}) /\ Lift \in [Worth -> Int] /\ Worth \subseteq 1 .. Len(document)
           /\ Len(document) \in Nat /\ DOMAIN document = 1 .. Len(document)
           /\ \A p \in Worth : /\ Tops # {} /\ p \in TitleAt .. TitleEnd => Lift[p] = p - Len(document)
                               /\ Tops = {} \/ p \notin TitleAt .. TitleEnd => Lift[p] = p
           /\ \A p \in Worth : p < start => 0 - Len(document) < Lift[p] /\ Lift[p] <= start - 1
<1>1. DOMAIN document = 1 .. Len(document) /\ Len(document) \in Nat
  BY SeqDomain
<1>2. Worth \in SUBSET (Nat \ {0}) /\ Worth \subseteq 1 .. Len(document) /\ \A p \in Worth : p \in Int
  BY <1>1 DEF Worth
<1>3. Lift \in [Worth -> Int]
  BY <1>1, <1>2 DEF Lift
<1>4. \A p \in Worth : /\ Tops # {} /\ p \in TitleAt .. TitleEnd => Lift[p] = p - Len(document)
                       /\ Tops = {} \/ p \notin TitleAt .. TitleEnd => Lift[p] = p
  BY DEF Lift
<1>5. \A p \in Worth : Lift[p] = p \/ Lift[p] = p - Len(document)
  BY <1>4
<1>6. \A p \in Worth : p < start => 0 - Len(document) < Lift[p] /\ Lift[p] <= start - 1
  BY <1>1, <1>2, <1>5
<1>7. QED
  BY <1>1, <1>2, <1>3, <1>4, <1>6

LEMMA BodyHolds ==
    ASSUME document \in Seq(Letters), start \in 1 .. Len(document)
    PROVE  /\ Holds(Worth, Lift, TitleText, 0 - Len(document), 0)
           /\ Holds(Worth, Lift, Body, 0, start - 1)
<1> DEFINE n == Len(document)
           top == Min(Tops)
<1>1. /\ Worth \in SUBSET (Nat \ {0}) /\ Lift \in [Worth -> Int] /\ Worth \subseteq 1 .. n
      /\ n \in Nat /\ DOMAIN document = 1 .. n
      /\ \A p \in Worth : /\ Tops # {} /\ p \in TitleAt .. TitleEnd => Lift[p] = p - n
                          /\ Tops = {} \/ p \notin TitleAt .. TitleEnd => Lift[p] = p
  BY LiftIs
<1>2. start \in Nat /\ start >= 1 /\ start <= n
  BY <1>1
<1>3. CASE Tops = {}
  <2>1. \A p \in 1 .. n : document[p] # "\n" => p \in Worth /\ Lift[p] = p
    BY <1>1, <1>3 DEF Worth
  <2>2. \A p \in Worth : Lift[p] = p /\ p \in 1 .. n /\ document[p] # "\n"
    BY <1>1, <1>3 DEF Worth
  <2>3. Holds(Worth, Lift, Text(1, start - 1), 0, start - 1)
    <3> DEFINE b == start - 1
    <3>1. 1 \in Nat /\ b \in Nat /\ 1 <= 1 /\ 1 <= b + 1 /\ b <= Len(document) /\ 0 \in Int /\ b \in Int /\ 0 <= b
      BY <1>2
    <3>2. \A p \in 1 .. b : document[p] # "\n" => p \in Worth /\ Lift[p] = p /\ 0 < Lift[p] /\ Lift[p] <= b
      BY <1>2, <2>1
    <3>3. \A p \in Worth : 0 < Lift[p] /\ Lift[p] <= b => p \in 1 .. b /\ document[p] # "\n"
      BY <1>2, <2>2
    <3>4. \A p, q \in 1 .. b : p < q /\ document[p] # "\n" /\ document[q] # "\n" => Lift[p] < Lift[q]
      BY <3>2
    <3> HIDE DEF b
    <3>5. Holds(Worth, Lift, Text(1, b), 0, b)
      BY <1>1, <3>1, <3>2, <3>3, <3>4, TextIsHeld
    <3>6. QED
      BY <3>5 DEF b
  <2>4. Body = Strip(Text(1, start - 1))
    BY <1>3 DEF Body
  <2>5. Holds(Worth, Lift, Body, 0, start - 1)
    BY <1>1, <2>3, <2>4, StripHolds
  <2>6. Holds(Worth, Lift, <<>>, 0 - n, 0)
    <3>1. \A p \in Worth : ~(Lift[p] <= 0)
      BY <2>2
    <3>2. <<>> \in Seq(Nat) /\ 0 - n \in Int /\ 0 \in Int /\ 0 - n <= 0 /\ Len(<<>>) = 0
      BY <1>1
    <3>3. QED
      BY <3>1, <3>2 DEF Holds
  <2>7. QED
    BY <1>3, <2>5, <2>6 DEF TitleText
<1>4. CASE Tops # {}
  <2> DEFINE A == TitleAt
             E == TitleEnd
  <2>1. /\ top \in 1 .. start - 1 /\ document[top] = "#" /\ A \in top + 1 .. start - 1
        /\ \A q \in top + 1 .. A - 1 : document[q] = "\n"
        /\ E \in A .. start - 1
        /\ \A q \in A .. E : document[q] # "\n"
    BY <1>4, TitleIs
  <2>2. /\ top \in Nat /\ 1 <= top /\ A \in Nat /\ top < A /\ E \in Nat /\ A <= E /\ E <= start - 1 /\ E < n
    BY <1>1, <1>2, <2>1
  <2>3. \A p \in 1 .. n : document[p] # "\n" /\ p # top => p \in Worth
    BY <1>1 DEF Worth
  <2>4. \A p \in Worth : p \in 1 .. n /\ document[p] # "\n" /\ p # top
    BY <1>1, <1>4 DEF Worth
  <2>5. \A p \in Worth : (p \in A .. E => Lift[p] = p - n) /\ (p \notin A .. E => Lift[p] = p)
    BY <1>1, <1>4
  <2>6. \A p \in Worth : Lift[p] <= 0 <=> p \in A .. E
    BY <1>1, <2>2, <2>4, <2>5
  <2> HIDE DEF A, E, top
  <2>7. Holds(Worth, Lift, Text(A, E), 0 - n, 0)
    <3>1. A \in Nat /\ E \in Nat /\ 1 <= A /\ A <= E + 1 /\ E <= Len(document) /\ 0 - n \in Int /\ 0 \in Int /\ 0 - n <= 0
      BY <1>1, <2>2
    <3>2. \A p \in A .. E : document[p] # "\n" =>
             p \in Worth /\ Lift[p] = p - n /\ 0 - n < Lift[p] /\ Lift[p] <= 0
      BY <1>1, <2>2, <2>3, <2>5
    <3>3. \A p \in Worth : 0 - n < Lift[p] /\ Lift[p] <= 0 => p \in A .. E /\ document[p] # "\n"
      BY <2>4, <2>6
    <3>4. \A p, q \in A .. E : p < q /\ document[p] # "\n" /\ document[q] # "\n" => Lift[p] < Lift[q]
      BY <1>1, <2>2, <3>2
    <3> DEFINE x == 0 - n
    <3>5. /\ x \in Int /\ x <= 0
          /\ \A p \in A .. E : document[p] # "\n" => p \in Worth /\ x < Lift[p] /\ Lift[p] <= 0
          /\ \A p \in Worth : x < Lift[p] /\ Lift[p] <= 0 => p \in A .. E /\ document[p] # "\n"
      BY <3>1, <3>2, <3>3
    <3> HIDE DEF x
    <3>6. Holds(Worth, Lift, Text(A, E), x, 0)
      BY <1>1, <3>1, <3>4, <3>5, TextIsHeld
    <3>7. QED
      BY <3>6 DEF x
  <2>8. Holds(Worth, Lift, Text(1, top - 1), 0, top - 1)
    <3> DEFINE b == top - 1
    <3>1. 1 \in Nat /\ b \in Nat /\ 1 <= 1 /\ 1 <= b + 1 /\ b <= Len(document) /\ 0 \in Int /\ b \in Int /\ 0 <= b
      BY <1>1, <1>2, <2>2
    <3>2. \A p \in 1 .. b : document[p] # "\n" => p \in Worth /\ Lift[p] = p /\ 0 < Lift[p] /\ Lift[p] <= b
      BY <1>1, <1>2, <2>2, <2>3, <2>5
    <3>3. \A p \in Worth : 0 < Lift[p] /\ Lift[p] <= b => p \in 1 .. b /\ document[p] # "\n"
      BY <1>1, <2>2, <2>4, <2>5, <2>6
    <3>4. \A p, q \in 1 .. b : p < q /\ document[p] # "\n" /\ document[q] # "\n" => Lift[p] < Lift[q]
      BY <3>2
    <3> HIDE DEF b
    <3>5. Holds(Worth, Lift, Text(1, b), 0, b)
      BY <1>1, <3>1, <3>2, <3>3, <3>4, TextIsHeld
    <3>6. QED
      BY <3>5 DEF b
  <2>9. Holds(Worth, Lift, Text(E + 1, start - 1), top - 1, start - 1)
    <3> DEFINE a == E + 1
               b == start - 1
               x == top - 1
    <3>1. /\ a \in Nat /\ b \in Nat /\ 1 <= a /\ a <= b + 1 /\ b <= Len(document) /\ x \in Int /\ b \in Int /\ x <= b
      BY <1>1, <1>2, <2>2
    <3>2. \A p \in a .. b : document[p] # "\n" => p \in Worth /\ Lift[p] = p /\ x < Lift[p] /\ Lift[p] <= b
      BY <1>1, <1>2, <2>2, <2>3, <2>5
    <3>3. \A p \in Worth : x < Lift[p] /\ Lift[p] <= b => p \in a .. b /\ document[p] # "\n"
      <4> SUFFICES ASSUME NEW p \in Worth, x < Lift[p], Lift[p] <= b PROVE p \in a .. b
        BY <2>4
      <4>1. p \in 1 .. n /\ document[p] # "\n" /\ p # top /\ p \in Int
        BY <1>1, <2>4
      <4>2. p \notin A .. E
        <5>1. Lift[p] \in Int
          BY <1>1
        <5>2. ~(Lift[p] <= 0)
          BY <2>2, <5>1
        <5>3. QED
          BY <2>6, <5>2
      <4>3. Lift[p] = p
        BY <2>5, <4>2
      <4>4. p > top /\ p <= b
        BY <2>2, <4>1, <4>3
      <4>5. p \notin top + 1 .. A - 1
        BY <2>1, <4>1 DEF A, top
      <4>6. QED
        BY <2>2, <4>1, <4>2, <4>4, <4>5
    <3>4. \A p, q \in a .. b : p < q /\ document[p] # "\n" /\ document[q] # "\n" => Lift[p] < Lift[q]
      BY <3>2
    <3> HIDE DEF a, b, x
    <3>5. Holds(Worth, Lift, Text(a, b), x, b)
      BY <1>1, <3>1, <3>2, <3>3, <3>4, TextIsHeld
    <3>6. QED
      BY <3>5 DEF a, b, x
  <2>10. Holds(Worth, Lift, Strip(Text(E + 1, start - 1)), top - 1, start - 1)
    BY <1>1, <2>9, StripHolds
  <2>11. Holds(Worth, Lift, Text(1, top - 1) \o <<0>> \o Strip(Text(E + 1, start - 1)), 0, start - 1)
    <3>1. <<0>> \in Newlines
      BY DEF Newlines
    <3>2. QED
      BY <1>1, <2>8, <2>10, <3>1, JoinHolds
  <2>12. Body = Strip(Text(1, top - 1) \o <<0>> \o Strip(Text(E + 1, start - 1)))
    BY <1>4 DEF Body, E, top
  <2>13. Holds(Worth, Lift, Body, 0, start - 1)
    BY <1>1, <2>11, <2>12, StripHolds
  <2>14. QED
    BY <1>4, <2>7, <2>13 DEF TitleText, A, E
<1>5. QED
  BY <1>3, <1>4

\* A title has a letter of the document at each of its positions.
LEMMA TitleTextIs ==
    ASSUME document \in Seq(Letters), start \in 1 .. Len(document)
    PROVE  /\ TitleText \in Seq(Nat)
           /\ Tops = {} => TitleText = <<>>
           /\ Tops # {} => TitleText # <<>> /\ Trim(TitleText) /\ TitleText[1] = TitleAt
           /\ \A c : c \in ToSet(TitleText) <=> Tops # {} /\ c \in TitleAt .. TitleEnd
<1> DEFINE t == TitleText
           A == TitleAt
           E == TitleEnd
<1>1. CASE Tops = {}
  <2>1. t = <<>> /\ <<>> \in Seq(Nat) /\ ToSet(<<>>) = {}
    BY <1>1 DEF TitleText, ToSet
  <2>2. QED
    BY <1>1, <2>1
<1>2. CASE Tops # {}
  <2>1. Len(document) \in Nat /\ start \in Nat /\ start <= Len(document)
    BY SeqDomain
  <2>2. /\ A \in Nat /\ 1 <= A /\ E \in Nat /\ A <= E /\ E <= Len(document)
        /\ \A q \in A .. E : document[q] # "\n"
    BY <1>2, <2>1, TitleIs
  <2> HIDE DEF A, E
  <2>3. /\ Text(A, E) \in Seq(Nat) /\ Len(Text(A, E)) = E - A + 1
        /\ \A k \in 1 .. E - A + 1 : Text(A, E)[k] = IF document[A + k - 1] = "\n" THEN 0 ELSE A + k - 1
    <3>1. A <= E + 1
      BY <2>2
    <3>2. QED
      BY <2>2, <3>1, TextIs
  <2>4. t = Text(A, E)
    BY <1>2 DEF TitleText, A, E
  <2> HIDE DEF t
  <2>5. \A k \in 1 .. E - A + 1 : A + k - 1 \in A .. E
    BY <2>2
  <2>6. t \in Seq(Nat) /\ Len(t) = E - A + 1 /\ \A k \in 1 .. E - A + 1 : t[k] = A + k - 1
    BY <2>2, <2>3, <2>4, <2>5
  <2>7. DOMAIN t = 1 .. E - A + 1
    BY <2>6, SeqDomain
  <2>8. Len(t) >= 1 /\ 1 \in 1 .. E - A + 1 /\ E - A + 1 \in 1 .. E - A + 1
    BY <2>2, <2>6
  <2>9. t[1] = A /\ t[Len(t)] = E
    BY <2>2, <2>6, <2>8
  <2>10. Trim(t) /\ t # <<>>
    <3>1. A # 0 /\ E # 0
      BY <2>2
    <3>2. t # <<>>
      BY <2>6, <2>8, EmptySeq
    <3>3. QED
      BY <2>6, <2>8, <2>9, <3>1, <3>2 DEF Trim
  <2>11. ASSUME NEW c, c \in ToSet(t) PROVE c \in A .. E
    <3>1. PICK k \in 1 .. E - A + 1 : c = t[k]
      BY <2>7, <2>11 DEF ToSet
    <3>2. QED
      BY <2>5, <2>6, <3>1
  <2>12. ASSUME NEW c, c \in A .. E PROVE c \in ToSet(t)
    <3>1. c - A + 1 \in 1 .. E - A + 1 /\ A + (c - A + 1) - 1 = c
      BY <2>2, <2>12
    <3>2. t[c - A + 1] = c
      BY <2>6, <3>1
    <3>3. QED
      BY <2>7, <3>1, <3>2 DEF ToSet
  <2>13. QED
    BY <1>2, <2>6, <2>9, <2>10, <2>11, <2>12 DEF t, A, E
<1>3. QED
  BY <1>1, <1>2

\* The preamble that is kept.
LEMMA PreambleIs ==
    ASSUME document \in Seq(Letters), start \in 1 .. Len(document), preamble = BuildPreamble,
           ~(Len(Body) < PreambleMin)
    PROVE  /\ preamble = <<[kind |-> "preamble", title |-> TitleText, text |-> PreambleText]>>
           /\ Trim(PreambleText)
           /\ Holds(Worth, Lift, PreambleText, Lowest, start - 1)
           /\ Kept = Worth /\ Place = Lift
<1> DEFINE r == [kind |-> "preamble", title |-> TitleText, text |-> PreambleText]
           u == PreambleText
<1>1. preamble = <<r>>
  BY DEF BuildPreamble, TitleText, PreambleText
<1>2. /\ Worth \in SUBSET (Nat \ {0}) /\ Lift \in [Worth -> Int] /\ Worth \subseteq 1 .. Len(document)
      /\ Len(document) \in Nat /\ DOMAIN document = 1 .. Len(document)
      /\ \A p \in Worth : /\ Tops # {} /\ p \in TitleAt .. TitleEnd => Lift[p] = p - Len(document)
                          /\ Tops = {} \/ p \notin TitleAt .. TitleEnd => Lift[p] = p
      /\ \A p \in Worth : p < start => 0 - Len(document) < Lift[p] /\ Lift[p] <= start - 1
  BY LiftIs
<1>3. Lowest = 0 - Len(document)
  BY DEF Lowest
<1>4. Holds(Worth, Lift, TitleText, Lowest, 0) /\ Holds(Worth, Lift, Body, 0, start - 1)
  BY <1>3, BodyHolds
<1>5. /\ TitleText \in Seq(Nat)
      /\ Tops = {} => TitleText = <<>>
      /\ Tops # {} => TitleText # <<>> /\ Trim(TitleText) /\ TitleText[1] = TitleAt
      /\ \A c : c \in ToSet(TitleText) <=> Tops # {} /\ c \in TitleAt .. TitleEnd
  BY TitleTextIs
<1>6. Body \in Seq(Nat) /\ Len(Body) \in Nat
  BY <1>4, SeqDomain DEF Holds
<1>7. Body # <<>>
  <2>1. Len(<<>>) = 0
    OBVIOUS
  <2>2. QED
    BY <1>6, <2>1, ParentNumbers
<1>8. Trim(Body)
  <2>1. \E t \in Seq(Nat) : Body = Strip(t)
    <3>1. CASE Tops = {}
      <4>1. start - 1 \in Nat /\ 1 \in Nat /\ 1 <= 1 /\ 1 <= (start - 1) + 1 /\ start - 1 <= Len(document)
        BY <1>2
      <4>2. Text(1, start - 1) \in Seq(Nat)
        BY <4>1, TextIs
      <4>3. QED
        BY <3>1, <4>2 DEF Body
    <3>2. CASE Tops # {}
      <4> DEFINE top == Min(Tops)
                 s == Strip(Text(TitleEnd + 1, start - 1))
      <4>1. top \in 1 .. start - 1 /\ TitleAt \in top + 1 .. start - 1 /\ TitleEnd \in TitleAt .. start - 1
        BY <3>2, TitleIs
      <4>2. Body = Strip(Text(1, top - 1) \o <<0>> \o s)
        BY <3>2 DEF Body
      <4> HIDE DEF top
      <4>3. Text(1, top - 1) \in Seq(Nat)
        <5>1. top - 1 \in Nat /\ 1 \in Nat /\ 1 <= 1 /\ 1 <= (top - 1) + 1 /\ top - 1 <= Len(document)
          BY <1>2, <4>1
        <5>2. QED
          BY <5>1, TextIs
      <4>4. Text(TitleEnd + 1, start - 1) \in Seq(Nat)
        <5>1. /\ TitleEnd + 1 \in Nat /\ start - 1 \in Nat /\ 1 <= TitleEnd + 1 /\ TitleEnd + 1 <= (start - 1) + 1
              /\ start - 1 <= Len(document)
          BY <1>2, <4>1
        <5>2. QED
          BY <5>1, TextIs
      <4>5. s \in Seq(Nat)
        BY <4>4, StripKeeps
      <4> HIDE DEF s
      <4>6. <<0>> \in Newlines
        BY DEF Newlines
      <4>7. Text(1, top - 1) \o <<0>> \o s \in Seq(Nat)
        BY <4>3, <4>5, <4>6, JoinedText
      <4>8. QED
        BY <4>2, <4>7
    <3>3. QED
      BY <3>1, <3>2
  <2>2. QED
    BY <1>7, <2>1, StripKeeps
<1>9. <<0>> \in Newlines /\ <<>> \in Newlines
  BY DEF Newlines
<1>10. Trim(u)
  <2>1. CASE TitleText = <<>>
    BY <1>8, <2>1 DEF PreambleText
  <2>2. CASE TitleText # <<>>
    <3>1. Trim(TitleText)
      BY <1>5, <2>2
    <3>2. Trim(TitleText \o <<0>> \o Body)
      BY <1>8, <1>9, <3>1, JoinTrims
    <3>3. QED
      BY <2>2, <3>2 DEF PreambleText
  <2>3. QED
    BY <2>1, <2>2
<1>11. Holds(Worth, Lift, u, Lowest, start - 1)
  <2>1. CASE TitleText = <<>>
    <3>1. Holds(Worth, Lift, <<>> \o <<>> \o Body, Lowest, start - 1)
      BY <1>2, <1>4, <1>9, <2>1, JoinHolds
    <3>2. <<>> \o <<>> \o Body = Body
      BY <1>6, ConcatEmptySeq
    <3>3. QED
      BY <2>1, <3>1, <3>2 DEF PreambleText
  <2>2. CASE TitleText # <<>>
    <3>1. Holds(Worth, Lift, TitleText \o <<0>> \o Body, Lowest, start - 1)
      BY <1>2, <1>4, <1>9, JoinHolds
    <3>2. QED
      BY <2>2, <3>1 DEF PreambleText
  <2>3. QED
    BY <2>1, <2>2
<1> HIDE DEF u
<1>12. DOMAIN preamble = {1} /\ preamble[1].text = u /\ preamble[1].title = TitleText
  BY <1>1 DEF u
<1>13. DOMAIN u = 1 .. Len(u)
  BY <1>10, SeqDomain DEF Trim
<1>14. \A p \in 1 .. Len(document) : p \in Kept <=> document[p] # "\n" /\ (start <= p \/ p \in ToSet(u))
  BY <1>2, <1>12 DEF Kept
<1>15. \A p \in Worth : p \in Kept
  <2> SUFFICES ASSUME NEW p \in Worth, ~(start <= p) PROVE p \in ToSet(u)
    BY <1>2, <1>14 DEF Worth
  <2>1. Lowest < Lift[p] /\ Lift[p] <= start - 1
    BY <1>2, <1>3
  <2>2. PICK k \in 1 .. Len(u) : u[k] = p
    BY <1>11, <2>1 DEF Holds
  <2>3. QED
    BY <1>13, <2>2 DEF ToSet
<1>16. \A p \in Kept : p \in Worth
  <2> SUFFICES ASSUME NEW p \in Kept PROVE p \in Worth
    OBVIOUS
  <2>1. p \in 1 .. Len(document) /\ document[p] # "\n" /\ (start <= p \/ p \in ToSet(u))
    <3>1. p \in 1 .. Len(document)
      BY <1>2 DEF Kept
    <3>2. QED
      BY <1>14, <3>1
  <2>2. CASE start <= p
    <3>1. Tops # {} => p # Min(Tops)
      <4>1. Tops # {} => Min(Tops) \in 1 .. start - 1
        BY TitleIs
      <4>2. QED
        BY <2>1, <2>2, <4>1
    <3>2. QED
      BY <1>2, <2>1, <3>1 DEF Worth
  <2>3. CASE p \in ToSet(u)
    <3>1. PICK k \in 1 .. Len(u) : u[k] = p
      BY <1>13, <2>3 DEF ToSet
    <3>2. QED
      BY <1>11, <2>1, <3>1 DEF Holds
  <2>4. QED
    BY <2>1, <2>2, <2>3
<1>17. Kept = Worth
  BY <1>15, <1>16
<1>18. \A p : Lifted(p) <=> Tops # {} /\ p \in TitleAt .. TitleEnd
  BY <1>5, <1>12 DEF Lifted
<1>19. Place = Lift
  BY <1>17, <1>18 DEF Place, Lift
<1>20. QED
  BY <1>1, <1>10, <1>11, <1>17, <1>19 DEF u

\* A body has every letter of what is before the first section and outside the
\* line of the title.
LEMMA IntroIsCounted ==
    ASSUME document \in Seq(Letters), start \in 1 .. Len(document)
    PROVE  Cardinality(Intro) <= Len(Body)
<1> DEFINE S == Intro
           n == Len(Body)
<1>1. /\ Worth \in SUBSET (Nat \ {0}) /\ Lift \in [Worth -> Int] /\ Worth \subseteq 1 .. Len(document)
      /\ Len(document) \in Nat /\ DOMAIN document = 1 .. Len(document)
      /\ \A p \in Worth : Tops = {} \/ p \notin TitleAt .. TitleEnd => Lift[p] = p
  BY LiftIs
<1>2. Holds(Worth, Lift, Body, 0, start - 1)
  BY BodyHolds
<1>3. Body \in Seq(Nat) /\ n \in Nat
  BY <1>2, SeqDomain DEF Holds
<1>4. Tops # {} => /\ Min(Tops) \in 1 .. start - 1 /\ TitleAt \in Min(Tops) + 1 .. start - 1
                   /\ TitleEnd \in TitleAt .. start - 1
  BY TitleIs
<1>5. \A p \in S : \E k \in 1 .. n : Body[k] = p
  <2> SUFFICES ASSUME NEW p \in S PROVE \E k \in 1 .. n : Body[k] = p
    OBVIOUS
  <2>1. p \in 1 .. start - 1 /\ document[p] # "\n" /\ (Tops # {} => p \notin Min(Tops) .. TitleEnd)
    BY DEF Intro
  <2>2. start \in Nat /\ start <= Len(document)
    BY <1>1
  <2>3. p \in Worth /\ Lift[p] = p
    <3>1. p \in 1 .. Len(document)
      BY <2>1, <2>2
    <3>2. Tops # {} => p # Min(Tops) /\ p \notin TitleAt .. TitleEnd
      BY <1>4, <2>1, <2>2
    <3>3. p \in Worth
      BY <1>1, <2>1, <3>1, <3>2 DEF Worth
    <3>4. QED
      BY <1>1, <3>2, <3>3
  <2>4. 0 < Lift[p] /\ Lift[p] <= start - 1
    BY <2>1, <2>2, <2>3
  <2>5. QED
    BY <1>2, <2>3, <2>4 DEF Holds
<1> DEFINE f == [p \in S |-> CHOOSE k \in 1 .. n : Body[k] = p]
<1>6. \A p \in S : f[p] \in 1 .. n /\ Body[f[p]] = p
  BY <1>5
<1>7. f \in [S -> 1 .. n]
  BY <1>6
<1> HIDE DEF f
<1>8. IsInjective(f)
  <2>1. \A p, q \in S : f[p] = f[q] => p = q
    BY <1>6
  <2>2. DOMAIN f = S
    BY <1>7
  <2>3. QED
    BY <2>1, <2>2 DEF IsInjective
<1>9. f \in Injection(S, 1 .. n)
  BY <1>7, <1>8 DEF Injection
<1> HIDE DEF n
<1>10. IsFiniteSet(1 .. n) /\ Cardinality(1 .. n) = n
  <2>1. 1 \in Int /\ n \in Int
    BY <1>3
  <2>2. IsFiniteSet(1 .. n) /\ Cardinality(1 .. n) = IF 1 > n THEN 0 ELSE n - 1 + 1
    BY <2>1, FS_Interval
  <2>3. QED
    BY <1>3, <2>2
<1>11. Cardinality(S) <= Cardinality(1 .. n)
  BY <1>9, <1>10, FS_Injection
<1>12. QED
  BY <1>10, <1>11 DEF n

AtStart ==
    /\ document \in Seq(Letters) /\ document # <<>>
    /\ raw = preamble /\ buf = <<>> /\ bufLen = 0 /\ todo = <<>> /\ done = <<>> /\ parents = <<>>

\* What ExtractDocument leaves behind.
AsMarkdown ==
    /\ AtStart /\ Headings("##") # {} /\ start = Min(Headings("##")) /\ preamble = BuildPreamble
    /\ step = "sections" /\ rest = Text(start, Len(document))

AsText ==
    /\ AtStart /\ start = 0 /\ preamble = <<>>
    /\ step = "groups"
    /\ rest = IF \A p \in DOMAIN document : document[p] = "\n" THEN <<>> ELSE Text(1, Len(document))

LEMMA FirstSection ==
    ASSUME document \in Seq(Letters), Headings("##") # {}, start = Min(Headings("##"))
    PROVE  /\ start \in 1 .. Len(document) /\ start \in Headings("##") /\ document[start] = "##"
           /\ Len(document) \in Nat /\ DOMAIN document = 1 .. Len(document)
<1> DEFINE H == Headings("##")
<1>1. Len(document) \in Nat /\ DOMAIN document = 1 .. Len(document)
  BY SeqDomain
<1>2. H \in SUBSET (1 .. Len(document)) /\ \A h \in H : document[h] = "##"
  BY <1>1 DEF Headings
<1> HIDE DEF H
<1>3. H \in SUBSET Int /\ 1 \in Int /\ \A h \in H : 1 <= h
  BY <1>2
<1>4. Min(H) \in H
  BY <1>3, MinIs DEF H
<1>5. QED
  BY <1>1, <1>2, <1>4 DEF H

LEMMA PreambleStarts ==
    ASSUME AsMarkdown
    PROVE  /\ SourceInv
           /\ preamble \in Seq(ParentSet) /\ \A i \in 1 .. Len(preamble) : GoodParent(Headings("##"), preamble[i])
           /\ TextsHold(TextsOf(preamble), Lowest, start - 1)
<1>1. /\ document \in Seq(Letters) /\ document # <<>> /\ preamble = BuildPreamble
      /\ start \in 1 .. Len(document) /\ Len(document) \in Nat /\ DOMAIN document = 1 .. Len(document)
  BY FirstSection DEF AsMarkdown, AtStart
<1>2. start \in Nat /\ start >= 1 /\ start \in 0 .. Len(document) /\ Lowest \in Int /\ Lowest <= start - 1 /\ start - 1 \in Int
  BY <1>1 DEF Lowest
<1>3. CASE Len(Body) < PreambleMin
  <2>1. preamble = <<>> /\ DOMAIN preamble = {}
    BY <1>1, <1>3 DEF BuildPreamble
  <2>2. Cardinality(Intro) < PreambleMin
    <3>1. Body \in Seq(Nat) /\ Len(Body) \in Nat
      BY <1>1, BodyHolds, SeqDomain DEF Holds
    <3>2. Cardinality(Intro) <= Len(Body)
      BY <1>1, IntroIsCounted
    <3>3. IsFiniteSet(Intro)
      <4>1. IsFiniteSet(1 .. start - 1)
        BY <1>2, FS_Interval
      <4>2. Intro \subseteq 1 .. start - 1
        BY DEF Intro
      <4>3. QED
        BY <4>1, <4>2, FS_Subset
    <3>4. Cardinality(Intro) \in Nat
      BY <3>3, FS_CardinalityType
    <3>5. QED
      BY <1>3, <3>1, <3>2, <3>4, ParentNumbers
  <2>3. SourceInv
    BY <1>1, <1>2, <2>1, <2>2 DEF SourceInv
  <2>4. TextsHold(TextsOf(preamble), Lowest, start - 1)
    <3>1. \A p \in Kept : Place[p] = p /\ p \in 1 .. Len(document) /\ start <= p
      BY <1>1, <2>1 DEF Place, Kept, Lifted
    <3>2. \A p \in Kept : ~(Place[p] <= start - 1)
      BY <1>1, <1>2, <3>1
    <3>3. TextsOf(preamble) = <<>> /\ <<>> \in Seq(Seq(Nat)) /\ Len(<<>>) = 0
      BY <2>1, TextsOfEmpty
    <3>4. HoldsAll(Kept, Place, <<>>, Lowest, start - 1)
      BY <1>2, <3>2, <3>3 DEF HoldsAll
    <3>5. QED
      BY <3>3, <3>4 DEF TextsHold
  <2>5. preamble \in Seq(ParentSet) /\ Len(preamble) = 0
    BY <2>1
  <2>6. QED
    BY <2>3, <2>4, <2>5
<1>4. CASE ~(Len(Body) < PreambleMin)
  <2> DEFINE r == [kind |-> "preamble", title |-> TitleText, text |-> PreambleText]
  <2>1. /\ preamble = <<r>> /\ Trim(PreambleText)
        /\ Holds(Worth, Lift, PreambleText, Lowest, start - 1)
        /\ Kept = Worth /\ Place = Lift
    BY <1>1, <1>4, PreambleIs
  <2>2. /\ TitleText \in Seq(Nat)
        /\ Tops # {} => TitleText # <<>> /\ TitleText[1] = TitleAt
        /\ \A c : c \in ToSet(TitleText) <=> Tops # {} /\ c \in TitleAt .. TitleEnd
    BY <1>1, TitleTextIs
  <2>3. r \in ParentSet /\ r.kind = "preamble" /\ r.title = TitleText /\ r.text = PreambleText
    BY <2>1, <2>2 DEF ParentSet, Trim
  <2>4. GoodParent(Headings("##"), r)
    BY <2>1, <2>3 DEF GoodParent, Grouped
  <2> HIDE DEF r
  <2>5. preamble \in Seq(ParentSet) /\ Len(preamble) = 1 /\ preamble[1] = r /\ DOMAIN preamble = {1}
    BY <2>1, <2>3
  <2>6. \A i \in 1 .. Len(preamble) : GoodParent(Headings("##"), preamble[i])
    BY <2>4, <2>5
  <2>7. TextsHold(TextsOf(preamble), Lowest, start - 1)
    <3>1. TextsOf(preamble) = <<PreambleText>>
      BY <2>1, <2>3, <2>5 DEF TextsOf
    <3>2. HoldsAll(Kept, Place, <<PreambleText>>, Lowest, start - 1)
      BY <2>1, OneHolds
    <3>3. QED
      BY <3>1, <3>2 DEF TextsHold
  <2>8. Tops # {} => /\ Min(Tops) \in 1 .. start - 1 /\ document[Min(Tops)] = "#"
                     /\ TitleAt \in Min(Tops) + 1 .. start - 1
                     /\ \A q \in Min(Tops) + 1 .. TitleAt - 1 : document[q] = "\n"
                     /\ TitleEnd \in TitleAt .. start - 1
    BY <1>1, TitleIs
  <2>9. \A i \in DOMAIN preamble : \A c \in ToSet(preamble[i].title) : c \in Nat /\ c < start
    <3> SUFFICES ASSUME NEW c \in ToSet(TitleText) PROVE c \in Nat /\ c < start
      BY <2>3, <2>5
    <3>1. Tops # {} /\ c \in TitleAt .. TitleEnd
      BY <2>2
    <3>2. QED
      BY <1>2, <2>8, <3>1
  <2>10. ASSUME NEW p \in 1 .. start - 1, document[p] # "\n"
         PROVE  MarksTitle(p) \/ \E i \in DOMAIN preamble : p \in ToSet(preamble[i].text)
    <3>1. p \in 1 .. Len(document) /\ p < start
      BY <1>1, <1>2
    <3>2. CASE p \in Worth
      <4>1. Lowest < Lift[p] /\ Lift[p] <= start - 1
        BY <1>1, <3>1, <3>2, LiftIs DEF Lowest
      <4>2. PICK k \in 1 .. Len(PreambleText) : PreambleText[k] = p
        BY <2>1, <3>2, <4>1 DEF Holds
      <4>3. DOMAIN PreambleText = 1 .. Len(PreambleText)
        BY <2>1, SeqDomain DEF Trim
      <4>4. p \in ToSet(preamble[1].text)
        BY <2>3, <2>5, <4>2, <4>3 DEF ToSet
      <4>5. QED
        BY <2>5, <4>4
    <3>3. CASE p \notin Worth
      <4>1. Tops # {} /\ p = Min(Tops)
        BY <1>1, <2>10, <3>1, <3>3 DEF Worth
      <4>2. p < TitleAt
        BY <1>2, <2>8, <4>1
      <4>3. MarksTitle(p)
        BY <2>2, <2>3, <2>5, <2>8, <4>1, <4>2 DEF MarksTitle
      <4>4. QED
        BY <4>3
    <3>4. QED
      BY <3>2, <3>3
  <2>11. SourceInv
    BY <1>1, <1>2, <2>9, <2>10 DEF SourceInv
  <2>12. QED
    BY <2>5, <2>6, <2>7, <2>11
<1>5. QED
  BY <1>3, <1>4

\* The sections are read from the first heading on.
LEMMA MarkdownStarts == AsMarkdown => ParentInv
<1> SUFFICES ASSUME AsMarkdown PROVE ParentInv
  OBVIOUS
<1>1. /\ document \in Seq(Letters) /\ step = "sections" /\ raw = preamble /\ buf = <<>> /\ bufLen = 0
      /\ todo = <<>> /\ done = <<>> /\ parents = <<>> /\ rest = Text(start, Len(document))
  BY DEF AsMarkdown, AtStart
<1>2. /\ start \in 1 .. Len(document) /\ start \in Headings("##") /\ document[start] = "##"
      /\ Len(document) \in Nat /\ DOMAIN document = 1 .. Len(document)
  BY <1>1, FirstSection DEF AsMarkdown
<1>3. /\ SourceInv /\ preamble \in Seq(ParentSet)
      /\ \A i \in 1 .. Len(preamble) : GoodParent(Headings("##"), preamble[i])
      /\ TextsHold(TextsOf(preamble), Lowest, start - 1)
  BY PreambleStarts
<1>4. Kept \in SUBSET (Nat \ {0}) /\ Place \in [Kept -> Int] /\ Highest = Len(document) /\ Highest \in Nat
  BY <1>1, PlacesAreNumbers DEF Highest
<1> DEFINE n == Highest
<1>5. start \in Nat /\ 1 <= start /\ start <= n /\ start - 1 \in Int /\ n \in Nat /\ start - 1 <= n
  BY <1>2, <1>4
<1>6. \A p \in Kept : p \in 1 .. n /\ document[p] # "\n" /\ (start <= p => Place[p] = p) /\ (~(start <= p) => Place[p] < start)
  <2> SUFFICES ASSUME NEW p \in Kept
               PROVE  p \in 1 .. n /\ document[p] # "\n" /\ (start <= p => Place[p] = p) /\ (~(start <= p) => Place[p] < start)
    OBVIOUS
  <2>1. p \in 1 .. n /\ document[p] # "\n"
    BY <1>2, <1>4 DEF Kept
  <2>2. start <= p => ~Lifted(p)
    <3>1. start <= p => \A i \in DOMAIN preamble : p \notin ToSet(preamble[i].title)
      <4> SUFFICES ASSUME start <= p, NEW i \in DOMAIN preamble, p \in ToSet(preamble[i].title) PROVE FALSE
        OBVIOUS
      <4>1. p < start
        BY <1>3 DEF SourceInv
      <4>2. QED
        BY <1>5, <2>1, <4>1
    <3>2. QED
      BY <3>1 DEF Lifted
  <2>3. Place[p] = IF Lifted(p) THEN p - n ELSE p
    BY <1>4 DEF Place
  <2>4. QED
    BY <1>5, <2>1, <2>2, <2>3
<1>7. TextHolds(rest, start - 1, n)
  <2> DEFINE x == start - 1
  <2>1. x \in Int /\ x <= n /\ start \in Nat /\ n \in Nat /\ 1 <= start /\ start <= n + 1 /\ n <= Len(document) /\ 0 \in Int
    BY <1>4, <1>5
  <2>2. \A p \in start .. n : document[p] # "\n" => p \in Kept /\ Place[p] = p /\ x < Place[p] /\ Place[p] <= n
    <3> SUFFICES ASSUME NEW p \in start .. n, document[p] # "\n"
                 PROVE  p \in Kept /\ Place[p] = p /\ x < Place[p] /\ Place[p] <= n
      OBVIOUS
    <3>1. p \in Kept
      BY <1>2, <1>4, <1>5 DEF Kept
    <3>2. QED
      BY <1>5, <1>6, <3>1
  <2>3. \A p, q \in start .. n : p < q /\ document[p] # "\n" /\ document[q] # "\n" => Place[p] < Place[q]
    BY <2>2
  <2>4. \A p \in Kept : x < Place[p] /\ Place[p] <= n => p \in start .. n /\ document[p] # "\n"
    <3> SUFFICES ASSUME NEW p \in Kept, x < Place[p], Place[p] <= n PROVE p \in start .. n /\ document[p] # "\n"
      OBVIOUS
    <3>1. p \in Int /\ Place[p] \in Int
      BY <1>4
    <3>2. start <= p
      BY <1>5, <1>6, <3>1
    <3>3. QED
      BY <1>5, <1>6, <3>2
  <2>5. document \in Seq(Letters) /\ Kept \in SUBSET (Nat \ {0}) /\ Place \in [Kept -> Int]
    BY <1>1, <1>4
  <2> HIDE DEF x, n
  <2>6. Holds(Kept, Place, Text(start, n), x, n)
    BY <2>1, <2>2, <2>3, <2>4, <2>5, TextIsHeld
  <2>7. QED
    BY <1>1, <1>4, <2>6 DEF TextHolds, x, n
<1>8. /\ rest \in Seq(Nat) /\ Len(rest) = n - start + 1
      /\ \A k \in 1 .. n - start + 1 : rest[k] = IF document[start + k - 1] = "\n" THEN 0 ELSE start + k - 1
  <2>1. start \in Nat /\ n \in Nat /\ 1 <= start /\ start <= n + 1 /\ n <= Len(document)
    BY <1>4, <1>5
  <2> HIDE DEF n
  <2>2. rest = Text(start, n)
    BY <1>1, <1>4 DEF n
  <2>3. QED
    BY <1>1, <2>1, <2>2, TextIs
<1>9. rest[1] \in Headings("##")
  <2>1. 1 \in 1 .. n - start + 1 /\ start + 1 - 1 = start
    BY <1>5
  <2>2. rest[1] = start
    BY <1>2, <1>8, <2>1
  <2>3. QED
    BY <1>2, <2>2
<1>10. \A k \in 1 .. Len(rest) : rest[k] # 0 => start <= rest[k]
  BY <1>5, <1>8
<1>11. Holds(Kept, Place, <<>>, start - 1, start - 1)
  BY <1>4, <1>5, EmptyHolds
<1>12. ExtractInv
  <2>1. TextsHold(TextsOf(raw), Lowest, start - 1) /\ TextHolds(buf, start - 1, start - 1) /\ TextHolds(rest, start - 1, Highest)
    BY <1>1, <1>3, <1>7, <1>11 DEF TextHolds
  <2>2. QED
    BY <1>1, <1>5, <1>9, <1>10, <2>1 DEF ExtractInv
<1>13. ParentTypes
  <2>1. <<>> \in Seq(Nat) /\ 0 \in Nat /\ <<>> \in Seq(ParentSet) /\ <<>> \in Seq(Seq(Nat))
    OBVIOUS
  <2>2. QED
    BY <1>1, <1>3, <1>8, <2>1 DEF ParentTypes
<1>14. ParentLists
  <2>1. Len(parents) = 0
    BY <1>1
  <2>2. QED
    BY <1>1, <1>3, <2>1 DEF ParentLists
<1>15. QED
  BY <1>1, <1>3, <1>12, <1>13, <1>14 DEF ParentInv, Tiers

LEMMA TextStarts == AsText => ParentInv
<1> SUFFICES ASSUME AsText PROVE ParentInv
  OBVIOUS
<1>1. /\ document \in Seq(Letters) /\ document # <<>> /\ step = "groups" /\ raw = <<>> /\ buf = <<>> /\ bufLen = 0
      /\ todo = <<>> /\ done = <<>> /\ parents = <<>> /\ start = 0 /\ preamble = <<>> /\ DOMAIN preamble = {}
  BY DEF AsText, AtStart
<1>2. /\ Kept \in SUBSET (Nat \ {0}) /\ Place \in [Kept -> Int] /\ Highest = Len(document) /\ Highest \in Nat
      /\ Lowest \in Int /\ Lowest <= 0 /\ Lowest <= Highest /\ DOMAIN document = 1 .. Highest
  BY <1>1, PlacesAreNumbers DEF Highest, Lowest
<1> DEFINE n == Highest
<1>3. \A p \in 1 .. n : p \in Kept <=> document[p] # "\n"
  BY <1>1, <1>2 DEF Kept
<1>4. \A p \in Kept : Place[p] = p /\ p \in 1 .. n /\ document[p] # "\n"
  BY <1>1, <1>2 DEF Place, Lifted, Kept
<1>5. TextHolds(rest, Lowest, n)
  <2>1. CASE \A p \in DOMAIN document : document[p] = "\n"
    <3>1. rest = <<>> /\ Kept = {} /\ <<>> \in Seq(Nat) /\ Len(<<>>) = 0
      BY <1>2, <1>4, <2>1 DEF AsText
    <3>2. QED
      BY <1>2, <3>1 DEF TextHolds, Holds
  <2>2. CASE ~\A p \in DOMAIN document : document[p] = "\n"
    <3>1. rest = Text(1, n)
      BY <1>2, <2>2 DEF AsText
    <3> DEFINE x == Lowest
    <3>2. 1 \in Nat /\ n \in Nat /\ 1 <= 1 /\ 1 <= n + 1 /\ n <= Len(document) /\ x \in Int /\ x <= n /\ 0 \in Int
      BY <1>2
    <3>3. \A p \in 1 .. n : document[p] # "\n" => p \in Kept /\ Place[p] = p /\ x < Place[p] /\ Place[p] <= n
      BY <1>2, <1>3, <1>4
    <3>4. \A p, q \in 1 .. n : p < q /\ document[p] # "\n" /\ document[q] # "\n" => Place[p] < Place[q]
      BY <3>3
    <3>5. \A p \in Kept : x < Place[p] /\ Place[p] <= n => p \in 1 .. n /\ document[p] # "\n"
      BY <1>4
    <3>6. document \in Seq(Letters) /\ Kept \in SUBSET (Nat \ {0}) /\ Place \in [Kept -> Int]
      BY <1>1, <1>2
    <3> HIDE DEF n, x
    <3>7. Holds(Kept, Place, Text(1, n), x, n)
      BY <3>2, <3>3, <3>4, <3>5, <3>6, TextIsHeld
    <3>8. QED
      BY <3>1, <3>7 DEF TextHolds, x
  <2>3. QED
    BY <2>1, <2>2
<1>6. rest \in Seq(Nat)
  BY <1>5 DEF TextHolds, Holds
<1>7. Holds(Kept, Place, <<>>, Lowest, Lowest) /\ HoldsAll(Kept, Place, <<>>, Lowest, Lowest)
  BY <1>2, EmptyHolds
<1>8. ExtractInv
  <2>1. TextsHold(TextsOf(raw), Lowest, Lowest) /\ TextHolds(buf, Lowest, Lowest) /\ TextHolds(rest, Lowest, Highest)
    BY <1>1, <1>5, <1>7, TextsOfEmpty DEF TextHolds, TextsHold
  <2>2. OneParagraph(<<>>) /\ Len(<<>>) <= 0
    BY DEF OneParagraph
  <2>3. QED
    BY <1>1, <1>2, <2>1, <2>2 DEF ExtractInv
<1>9. ParentTypes /\ ParentLists
  <2>1. <<>> \in Seq(Nat) /\ 0 \in Nat /\ <<>> \in Seq(ParentSet) /\ <<>> \in Seq(Seq(Nat)) /\ Len(<<>>) = 0
    OBVIOUS
  <2>2. QED
    BY <1>1, <1>6, <2>1 DEF ParentTypes, ParentLists
<1>10. SourceInv
  <2>1. start \in 0 .. Len(document) /\ 1 .. start - 1 = {}
    BY <1>1, <1>2
  <2>2. QED
    BY <1>1, <2>1 DEF SourceInv
<1>11. QED
  BY <1>1, <1>8, <1>9, <1>10 DEF ParentInv, Tiers

LEMMA ExtractDocumentKeeps == ASSUME ParentInv, ExtractDocument PROVE ParentInv'
<1>1. ParentInit
  BY DEF ParentInv, SourceInv, ExtractDocument
<1>2. /\ buf' = <<>> /\ bufLen' = 0 /\ todo' = <<>> /\ done' = <<>> /\ parents' = <<>> /\ raw' = preamble'
  BY <1>1 DEF ParentInit, ExtractDocument
<1>3. document' \in Seq(Letters) /\ document' # <<>>
  <2>1. PICK n \in 1 .. MaxLetters : document' \in [1 .. n -> Letters]
    BY DEF ExtractDocument
  <2>2. n \in Nat /\ n >= 1
    BY <2>1, ParentNumbers
  <2>3. document' \in Seq(Letters)
    BY <2>1, <2>2, SeqDef
  <2>4. 1 \in DOMAIN document'
    BY <2>1, <2>2
  <2>5. QED
    BY <2>3, <2>4
<1>4. AtStart'
  BY <1>2, <1>3 DEF AtStart
<1>5. AsMarkdown' \/ AsText'
  BY <1>4 DEF ExtractDocument, AsMarkdown, AsText
<1>6. (AsMarkdown => ParentInv)' /\ (AsText => ParentInv)'
  BY MarkdownStarts, TextStarts, PTL
<1>7. QED
  BY <1>5, <1>6

LEMMA ParentStarts == ParentInit => ParentInv
<1> SUFFICES ASSUME ParentInit PROVE ParentInv
  OBVIOUS
<1>1. <<>> \in Seq(Nat) /\ 0 \in Nat /\ <<>> \in Seq(ParentSet) /\ <<>> \in Seq(Seq(Nat)) /\ Len(<<>>) = 0
  OBVIOUS
<1>2. ParentTypes /\ ParentLists
  BY <1>1 DEF ParentInit, ParentTypes, ParentLists
<1>3. QED
  BY <1>2 DEF ParentInit, ParentInv, Tiers

LEMMA ParentStays == ASSUME ParentInv, UNCHANGED parentVars PROVE ParentInv'
<1>1. /\ UNCHANGED sourceVars /\ step' = step /\ rest' = rest /\ buf' = buf /\ bufLen' = bufLen
      /\ raw' = raw /\ todo' = todo /\ done' = done /\ parents' = parents
  BY DEF parentVars
<1>2. document' = document /\ start' = start /\ preamble' = preamble
  BY <1>1 DEF sourceVars
<1>3. /\ SourceInv => SourceInv'
      /\ Kept' = Kept /\ Place' = Place /\ Lowest' = Lowest /\ Highest' = Highest
      /\ Headings("##")' = Headings("##")
  BY <1>1, SourceStays
<1>4. ParentTypes' /\ ParentLists'
  BY <1>1, <1>3 DEF ParentInv, ParentTypes, ParentLists
<1>5. ParentInit => ParentInit'
  BY <1>1, <1>2 DEF ParentInit
<1>6. ExtractInv => ExtractInv'
  BY <1>1, <1>2, <1>3 DEF ExtractInv, TextHolds, TextsHold
<1>7. CapInv => CapInv'
  BY <1>1, <1>3 DEF CapInv, AtRestInv, TextsHold
<1>8. CascadeInv => CascadeInv'
  <2>1. SplitShape => SplitShape'
    BY <1>1 DEF SplitShape
  <2>2. WholeParagraph => WholeParagraph'
    BY <1>1 DEF WholeParagraph
  <2>3. Splits(raw[1].text) => Splits(raw[1].text)'
    BY <1>1, <1>3 DEF Splits, TierHolds, TextHolds, TextsHold
  <2>4. QED
    BY <1>1, <2>1, <2>2, <2>3 DEF CascadeInv
<1>9. QED
  BY <1>1, <1>3, <1>4, <1>5, <1>6, <1>7, <1>8 DEF ParentInv

LEMMA ParentStep == ParentInv /\ [ParentNext]_parentVars => ParentInv'
<1> SUFFICES ASSUME ParentInv, [ParentNext]_parentVars PROVE ParentInv'
  OBVIOUS
<1>1. CASE UNCHANGED parentVars
  BY <1>1, ParentStays
<1>2. CASE ExtractDocument \/ TakeSection \/ PackParagraph \/ StartGroup \/ EndOfText
  BY <1>2, ExtractDocumentKeeps, TakeSectionKeeps, PackParagraphKeeps, StartGroupKeeps, EndOfTextKeeps
<1>3. CASE KeepParent \/ SplitOversized \/ WrapAsParts
  BY <1>3, KeepParentKeeps, SplitOversizedKeeps, WrapAsPartsKeeps
<1>4. CASE PackPart \/ StartPiece \/ NextPiece \/ NextTier
  BY <1>4, PackPartKeeps, StartPieceKeeps, NextPieceKeeps, NextTierKeeps
<1>5. QED
  BY <1>1, <1>2, <1>3, <1>4 DEF ParentNext

LEMMA ParentAlways == ParentSpec => []ParentInv
BY ParentStarts, ParentStep, PTL DEF ParentSpec

-----------------------------------------------------------------------------
\* The order of the places is the order of the letters in the parents.
LEMMA PlacesPrecede ==
    ASSUME SourceInv, NEW c \in Kept, NEW d \in Kept, Place[c] < Place[d]
    PROVE  Precedes(c, d)
<1> DEFINE n == Len(document)
<1>1. n \in Nat /\ c \in 1 .. n /\ d \in 1 .. n
  BY SeqDomain DEF SourceInv, Kept
<1>2. /\ Place[c] = IF Lifted(c) THEN c - n ELSE c
      /\ Place[d] = IF Lifted(d) THEN d - n ELSE d
  BY DEF Place
<1> HIDE DEF n
<1>3. CASE Lifted(c) /\ Lifted(d)
  <2>1. c - n < d - n
    BY <1>2, <1>3
  <2>2. c < d
    BY <1>1, <2>1
  <2>3. Lifted(c) = Lifted(d)
    BY <1>3 DEF Lifted
  <2>4. QED
    BY <2>2, <2>3 DEF Precedes
<1>4. CASE ~Lifted(c) /\ ~Lifted(d)
  <2>1. c < d
    BY <1>2, <1>4
  <2>2. Lifted(c) = Lifted(d)
    BY <1>4 DEF Lifted
  <2>3. QED
    BY <2>1, <2>2 DEF Precedes
<1>5. CASE Lifted(c) /\ ~Lifted(d)
  BY <1>5 DEF Precedes
<1>6. CASE ~Lifted(c) /\ Lifted(d)
  <2>1. c < d - n
    BY <1>2, <1>6
  <2>2. QED
    BY <1>1, <2>1
<1>7. QED
  BY <1>3, <1>4, <1>5, <1>6

\* The parents hold a part of the text, and when there is nothing left, the text.
LEMMA ParentsHold ==
    ASSUME ParentInv, parents # <<>>
    PROVE  SourceInv /\ \E a \in Int : TextsHold(TextsOf(parents), Lowest, a)
<1>1. step \in {"cap"} \cup Tiers
  BY DEF ParentInv, ParentInit, ExtractInv
<1>2. SourceInv
  BY <1>1 DEF ParentInv, Tiers
<1>3. CASE step = "cap"
  BY <1>2, <1>3 DEF ParentInv, CapInv
<1>4. CASE step \in Tiers
  BY <1>2, <1>4 DEF ParentInv, CascadeInv, Splits
<1>5. QED
  BY <1>1, <1>3, <1>4

LEMMA ParentsHaveAll ==
    ASSUME ParentInv, step = "cap", raw = <<>>, NEW p \in Kept
    PROVE  \E i \in 1 .. Len(parents) : \E k \in 1 .. Len(parents[i].text) : parents[i].text[k] = p
<1>1. SourceInv /\ CapInv /\ parents \in Seq(ParentSet)
  BY DEF ParentInv, ParentTypes
<1>2. PICK a \in Int : TextsHold(TextsOf(parents), Lowest, a) /\ TextsHold(TextsOf(raw), a, Highest)
  BY <1>1 DEF CapInv
<1>3. Lowest < Place[p] /\ Place[p] <= Highest /\ Place[p] \in Int
  <2> DEFINE n == Len(document)
  <2>1. n \in Nat /\ p \in 1 .. n
    BY <1>1, SeqDomain DEF SourceInv, Kept
  <2>2. Place[p] = p \/ Place[p] = p - n
    BY DEF Place
  <2>3. Lowest = 0 - n /\ Highest = n
    BY DEF Lowest, Highest
  <2> HIDE DEF n
  <2>4. QED
    BY <2>1, <2>2, <2>3
<1>4. ~(a < Place[p])
  <2>1. TextsOf(raw) = <<>> /\ Len(<<>>) = 0 /\ 1 .. 0 = {}
    BY TextsOfEmpty
  <2>2. HoldsAll(Kept, Place, <<>>, a, Highest)
    BY <1>2, <2>1 DEF TextsHold
  <2>3. QED
    BY <1>3, <2>1, <2>2 DEF HoldsAll
<1> DEFINE ts == TextsOf(parents)
<1>5. Len(ts) = Len(parents) /\ \A i \in 1 .. Len(parents) : ts[i] = parents[i].text
  BY <1>1, TextsAre
<1> HIDE DEF ts
<1>6. HoldsAll(Kept, Place, ts, Lowest, a)
  BY <1>2 DEF TextsHold, ts
<1>7. Lowest < Place[p] /\ Place[p] <= a
  BY <1>2, <1>3, <1>4
<1>8. \E i \in 1 .. Len(ts) : \E k \in 1 .. Len(ts[i]) : ts[i][k] = p
  BY <1>6, <1>7 DEF HoldsAll
<1>9. QED
  BY <1>5, <1>8

LEMMA LettersAreKept ==
    ASSUME ParentInv, step = "cap", raw = <<>>, NEW p \in DOMAIN document
    PROVE  \/ document[p] = "\n" \/ MarksTitle(p)
           \/ \E i \in DOMAIN parents : p \in ToSet(parents[i].text)
           \/ p < start /\ preamble = <<>> /\ Cardinality(Intro) < PreambleMin
<1>1. SourceInv /\ parents \in Seq(ParentSet)
  BY DEF ParentInv, ParentTypes
<1>2. start \in Nat /\ p \in Nat /\ p >= 1
  BY <1>1, SeqDomain DEF SourceInv
<1>3. CASE p \in Kept
  <2>1. PICK i \in 1 .. Len(parents) : \E k \in 1 .. Len(parents[i].text) : parents[i].text[k] = p
    BY <1>3, ParentsHaveAll
  <2>2. i \in DOMAIN parents /\ parents[i].text \in Seq(Nat)
    BY <1>1, SeqDomain, ParentIs
  <2>3. p \in ToSet(parents[i].text)
    BY <2>1, <2>2, SeqDomain DEF ToSet
  <2>4. QED
    BY <2>2, <2>3
<1>4. CASE p \notin Kept
  <2>1. \/ document[p] = "\n"
        \/ p < start /\ \A i \in DOMAIN preamble : p \notin ToSet(preamble[i].text)
    BY <1>2, <1>4 DEF Kept
  <2>2. p < start => p \in 1 .. start - 1
    BY <1>2
  <2>3. QED
    BY <1>1, <2>1, <2>2 DEF SourceInv
<1>5. QED
  BY <1>3, <1>4

\* Every parent, whole or a part of a longer one, is at most MAX_PARENT_CHARS
\* long and not empty, and what extract_txt groups is at most target_chars
\* long unless it is one paragraph: _enforce_parent_cap leaves nothing over the
\* limit, whatever the paragraphs and the lines of the document are.
THEOREM ParentsAlwaysFit == ParentSpec => []ParentsFit
<1>1. ParentInv => ParentsFit
  <2> SUFFICES ASSUME ParentInv, NEW i \in DOMAIN parents
               PROVE  /\ Len(parents[i].text) \in 1 .. MaxParent
                      /\ parents[i].kind = "paragraph_group" /\ Len(parents[i].text) > Target
                            => OneParagraph(parents[i].text)
    BY DEF ParentsFit
  <2>1. i \in 1 .. Len(parents)
    BY SeqDomain DEF ParentInv, ParentTypes
  <2>2. GoodParent(Headings("##"), parents[i]) /\ Len(parents[i].text) <= MaxParent
    BY <2>1 DEF ParentInv, ParentLists
  <2>3. Trim(parents[i].text) /\ Grouped(parents[i].kind, parents[i].text)
    BY <2>2 DEF GoodParent
  <2>4. Len(parents[i].text) \in Nat /\ Len(parents[i].text) >= 1
    BY <2>3, SeqDomain DEF Trim
  <2>5. QED
    BY <2>2, <2>3, <2>4, ParentNumbers DEF Grouped
<1>2. QED
  BY <1>1, ParentAlways, PTL

\* When the document is split, every letter of it is in a parent, but for the
\* mark of the title and for what stands before the first heading and is less
\* than PREAMBLE_MIN_CHARS.  The parents have the letters in the order of the
\* document and none twice, at every step of extract_md, extract_txt and the
\* split of a long parent; what a section says stands under its own heading.
THEOREM TextIsAlwaysKept == ParentSpec => []TextIsKept
<1>1. ParentInv => TextIsKept
  <2> SUFFICES ASSUME ParentInv PROVE TextIsKept
    OBVIOUS
  <2>1. parents \in Seq(ParentSet) /\ Len(parents) \in Nat /\ DOMAIN parents = 1 .. Len(parents)
        /\ \A i \in DOMAIN parents : DOMAIN parents[i].text = 1 .. Len(parents[i].text)
    <3>1. parents \in Seq(ParentSet)
      BY DEF ParentInv, ParentTypes
    <3>2. \A i \in DOMAIN parents : parents[i].text \in Seq(Nat)
      BY <3>1, SeqDomain, ParentIs
    <3>3. QED
      BY <3>1, <3>2, SeqDomain
  <2>2. ASSUME NEW i \in DOMAIN parents, NEW j \in DOMAIN parents,
               NEW k \in DOMAIN parents[i].text, NEW l \in DOMAIN parents[j].text,
               i < j \/ (i = j /\ k < l), parents[i].text[k] # 0, parents[j].text[l] # 0
        PROVE  Precedes(parents[i].text[k], parents[j].text[l])
    <3>1. parents # <<>>
      <4>1. Len(parents) # 0
        BY <2>1
      <4>2. QED
        BY <4>1
    <3>2. SourceInv /\ \E a \in Int : TextsHold(TextsOf(parents), Lowest, a)
      BY <3>1, ParentsHold
    <3>3. PICK a \in Int : HoldsAll(Kept, Place, TextsOf(parents), Lowest, a)
      BY <3>2 DEF TextsHold
    <3> DEFINE ts == TextsOf(parents)
    <3>4. /\ Len(ts) = Len(parents) /\ ts[i] = parents[i].text /\ ts[j] = parents[j].text
          /\ i \in 1 .. Len(ts) /\ j \in 1 .. Len(ts)
      BY <2>1, TextsAre
    <3>5. k \in 1 .. Len(ts[i]) /\ l \in 1 .. Len(ts[j])
      BY <2>1, <3>4
    <3> HIDE DEF ts
    <3>6. ts[i][k] # 0 /\ ts[j][l] # 0
      BY <2>2, <3>4
    <3>7. ts[i][k] \in Kept /\ ts[j][l] \in Kept
      BY <3>3, <3>4, <3>5, <3>6 DEF HoldsAll, ts
    <3>8. Place[ts[i][k]] < Place[ts[j][l]]
      BY <2>2, <3>3, <3>4, <3>5, <3>6 DEF HoldsAll, ts
    <3>9. Precedes(ts[i][k], ts[j][l])
      BY <3>2, <3>7, <3>8, PlacesPrecede
    <3>10. QED
      BY <3>4, <3>9
  <2>3. ASSUME NEW i \in DOMAIN parents, parents[i].kind = "section", NEW c \in ToSet(parents[i].text)
        PROVE  \/ c = 0
               \/ /\ parents[i].title[1] <= c
                  /\ \A h \in parents[i].title[1] + 1 .. c : h \notin Headings("##")
    <3>1. PICK k \in 1 .. Len(parents[i].text) : c = parents[i].text[k]
      BY <2>1, <2>3 DEF ToSet
    <3>2. GoodParent(Headings("##"), parents[i])
      BY <2>1 DEF ParentInv, ParentLists
    <3>3. QED
      BY <2>3, <3>1, <3>2 DEF GoodParent, Under
  <2>4. QED
    BY <2>2, <2>3, LettersAreKept DEF TextIsKept
<1>2. QED
  BY <1>1, ParentAlways, PTL

=============================================================================
