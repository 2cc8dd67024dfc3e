------------------------- MODULE ConvoMemoryProofs --------------------------
(***************************************************************************)
(* Proofs about ConvoMemory, for any number of turns, sessions, vectors    *)
(* and rings of any size: the ring of a session is the end of its log,     *)
(* what a turn mixes in is of its own session and older than the turn, and *)
(* a session is evicted under a turn only when enough others are used.     *)
(***************************************************************************)
EXTENDS ConvoMemory, SequenceTheorems, FiniteSetTheorems, TLAPS

Pending(t) == turn[t].step # "idle"

ConvoShapes ==
    /\ ring \in [Sessions -> Seq(Nat)]
    /\ log \in [Sessions -> Seq(Nat)]
    /\ turn \in [Turns -> [session : Sessions \cup {NoSession}, step : {"idle", "mix", "push"},
                           vec : Nat, snapshot : Seq(Nat), mixed : Seq(Nat),
                           rivals : SUBSET Sessions]]
    /\ begun \in Nat

\* A vector is in one log, and there once.
Logged ==
    /\ \A s \in Sessions : IsInjective(log[s]) /\ \A v \in ToSet(log[s]) : v <= begun
    /\ \A r, s \in Sessions : r # s => ToSet(log[r]) \cap ToSet(log[s]) = {}

\* The vector of a turn that has not pushed it is nowhere else.
OwnVectors ==
    /\ \A t \in Turns : Pending(t) => /\ turn[t].session \in Sessions
                                      /\ turn[t].vec <= begun
                                      /\ \A s \in Sessions : turn[t].vec \notin ToSet(log[s])
    /\ \A t, u \in Turns : Pending(t) /\ Pending(u) =>
          /\ turn[t].vec \notin ToSet(turn[u].snapshot)
          /\ t # u => turn[t].vec # turn[u].vec

\* A snapshot is older than its turn and keeps to its session.
Snapshots ==
    \A t \in Turns : Pending(t) =>
        /\ IsInjective(turn[t].snapshot)
        /\ \A v \in ToSet(turn[t].snapshot) : v < turn[t].vec
        /\ \A s \in Sessions \ {turn[t].session} :
              ToSet(turn[t].snapshot) \cap ToSet(log[s]) = {}

Mixed ==
    \A t \in Turns : turn[t].step = "push" =>
        turn[t].mixed = <<turn[t].vec>> \o Newest(turn[t].snapshot, RingSize - 1)

ConvoIInv == ConvoShapes /\ Logged /\ OwnVectors /\ Snapshots /\ Mixed /\ RingIsLatest

-----------------------------------------------------------------------------
(* Sequences of vectors *)

\* The first n elements.
LEMMA NewestProperties ==
    ASSUME NEW x \in Seq(Nat), NEW n \in Nat
    PROVE  /\ Newest(x, n) \in Seq(Nat)
           /\ Len(Newest(x, n)) = IF n <= Len(x) THEN n ELSE Len(x)
           /\ \A i \in 1 .. Len(Newest(x, n)) : Newest(x, n)[i] = x[i]
<1> DEFINE m == IF n <= Len(x) THEN n ELSE Len(x)
<1>1. m \in Nat /\ m <= Len(x) /\ Len(x) \in Nat
  BY LenProperties
<1>2. \A i \in 1 .. m : x[i] \in Nat
  BY <1>1, ElementOfSeq
<1>3. Newest(x, n) = SubSeq(x, 1, m)
  BY DEF Newest
<1> HIDE DEF m
<1>4. /\ SubSeq(x, 1, m) \in Seq(Nat)
      /\ Len(SubSeq(x, 1, m)) = IF 1 <= m THEN m - 1 + 1 ELSE 0
      /\ \A i \in 1 .. m - 1 + 1 : SubSeq(x, 1, m)[i] = x[1 + i - 1]
  BY <1>1, <1>2, SubSeqProperties
<1>5. Len(SubSeq(x, 1, m)) = m /\ \A i \in 1 .. m : SubSeq(x, 1, m)[i] = x[i]
  BY <1>1, <1>4
<1>6. QED
  BY <1>3, <1>4, <1>5 DEF m

\* A vector put in front.
LEMMA InFront ==
    ASSUME NEW x \in Seq(Nat), NEW v \in Nat
    PROVE  /\ <<v>> \o x \in Seq(Nat)
           /\ Len(<<v>> \o x) = Len(x) + 1
           /\ (<<v>> \o x)[1] = v
           /\ \A i \in 2 .. Len(x) + 1 : (<<v>> \o x)[i] = x[i - 1]
<1>1. <<v>> \in Seq(Nat) /\ Len(<<v>>) = 1 /\ <<v>>[1] = v /\ Len(x) \in Nat
  OBVIOUS
<1>2. /\ <<v>> \o x \in Seq(Nat)
      /\ Len(<<v>> \o x) = Len(<<v>>) + Len(x)
      /\ \A i \in 1 .. Len(<<v>>) + Len(x) :
            (<<v>> \o x)[i] = IF i <= Len(<<v>>) THEN <<v>>[i] ELSE x[i - Len(<<v>>)]
  BY <1>1, ConcatProperties
<1>3. QED
  BY <1>1, <1>2

LEMMA ElementsOfSeq ==
    ASSUME NEW x \in Seq(Nat)
    PROVE  /\ DOMAIN x = 1 .. Len(x) /\ Len(x) \in Nat
           /\ ToSet(x) = {x[i] : i \in 1 .. Len(x)}
BY LenProperties DEF ToSet

\* The newest vectors are among the vectors, each once if it was there once.
LEMMA NewestElements ==
    ASSUME NEW x \in Seq(Nat), NEW n \in Nat
    PROVE  /\ ToSet(Newest(x, n)) \subseteq ToSet(x)
           /\ IsInjective(x) => IsInjective(Newest(x, n))
<1> DEFINE y == Newest(x, n)
<1>1. y \in Seq(Nat) /\ Len(y) <= Len(x) /\ \A i \in 1 .. Len(y) : y[i] = x[i]
  BY NewestProperties, LenProperties
<1>2. /\ DOMAIN x = 1 .. Len(x) /\ DOMAIN y = 1 .. Len(y) /\ Len(x) \in Nat /\ Len(y) \in Nat
      /\ ToSet(x) = {x[i] : i \in 1 .. Len(x)} /\ ToSet(y) = {y[i] : i \in 1 .. Len(y)}
  BY <1>1, ElementsOfSeq
<1> HIDE DEF y
<1>3. \A i \in 1 .. Len(y) : i \in 1 .. Len(x)
  BY <1>1, <1>2
<1>4. ToSet(y) \subseteq ToSet(x)
  BY <1>1, <1>2, <1>3
<1>5. IsInjective(x) => IsInjective(y)
  BY <1>1, <1>2, <1>3 DEF IsInjective
<1>6. QED
  BY <1>4, <1>5 DEF y

\* A new vector in front is the only one that is added.
LEMMA InFrontElements ==
    ASSUME NEW x \in Seq(Nat), NEW v \in Nat
    PROVE  /\ ToSet(<<v>> \o x) = ToSet(x) \cup {v}
           /\ IsInjective(x) /\ v \notin ToSet(x) => IsInjective(<<v>> \o x)
<1> DEFINE y == <<v>> \o x
<1>1. /\ y \in Seq(Nat) /\ Len(y) = Len(x) + 1 /\ y[1] = v
      /\ \A i \in 2 .. Len(x) + 1 : y[i] = x[i - 1]
  BY InFront
<1>2. /\ DOMAIN x = 1 .. Len(x) /\ DOMAIN y = 1 .. Len(y) /\ Len(x) \in Nat /\ Len(y) \in Nat
      /\ ToSet(x) = {x[i] : i \in 1 .. Len(x)} /\ ToSet(y) = {y[i] : i \in 1 .. Len(y)}
  BY <1>1, ElementsOfSeq
<1> HIDE DEF y
<1>3. ASSUME NEW i \in 1 .. Len(y), i # 1
      PROVE  /\ i \in 2 .. Len(x) + 1
             /\ i - 1 \in 1 .. Len(x)
             /\ y[i] = x[i - 1]
  <2>1. i \in Int /\ 2 <= i /\ i <= Len(x) + 1
    BY <1>1, <1>2, <1>3
  <2>2. i \in 2 .. Len(x) + 1
    BY <1>2, <2>1
  <2>3. i - 1 \in 1 .. Len(x)
    BY <1>2, <2>1
  <2>4. QED
    BY <1>1, <2>2, <2>3
<1>4. \A i \in 1 .. Len(y) : i # 1 => y[i] \in ToSet(x)
  BY <1>2, <1>3
<1>a. ToSet(y) \subseteq ToSet(x) \cup {v}
  BY <1>1, <1>2, <1>4
<1>5. ToSet(x) \subseteq ToSet(y)
  <2> SUFFICES ASSUME NEW i \in 1 .. Len(x) PROVE x[i] \in ToSet(y)
    BY <1>2
  <2>1. i + 1 \in 2 .. Len(x) + 1 /\ i + 1 \in 1 .. Len(y) /\ (i + 1) - 1 = i
    BY <1>1, <1>2
  <2>2. y[i + 1] = x[i]
    BY <1>1, <2>1
  <2>3. QED
    BY <1>2, <2>1, <2>2
<1>6. v \in ToSet(y)
  BY <1>1, <1>2
<1>7. IsInjective(x) /\ v \notin ToSet(x) => IsInjective(y)
  <2> SUFFICES ASSUME IsInjective(x), v \notin ToSet(x),
                      NEW i \in 1 .. Len(y), NEW j \in 1 .. Len(y), y[i] = y[j]
               PROVE  i = j
    BY <1>2 DEF IsInjective
  <2>1. CASE i = 1 \/ j = 1
    BY <1>1, <1>4, <2>1
  <2>2. CASE i # 1 /\ j # 1
    <3>1. i - 1 \in 1 .. Len(x) /\ j - 1 \in 1 .. Len(x) /\ x[i - 1] = x[j - 1]
      BY <1>3, <2>2
    <3>2. i - 1 = j - 1
      BY <1>2, <3>1 DEF IsInjective
    <3>3. i \in Int /\ j \in Int
      OBVIOUS
    <3>4. QED
      BY <3>2, <3>3
  <2>3. QED
    BY <2>1, <2>2
<1>8. QED
  BY <1>a, <1>5, <1>6, <1>7 DEF y

\* Cutting before a vector goes in changes nothing, if it is cut again.
LEMMA NewestOfNewest ==
    ASSUME NEW x \in Seq(Nat), NEW v \in Nat, NEW n \in Nat \ {0}
    PROVE  Newest(<<v>> \o Newest(x, n), n) = Newest(<<v>> \o x, n)
<1> DEFINE c == Newest(x, n)
           a == Newest(<<v>> \o c, n)
           b == Newest(<<v>> \o x, n)
<1>1. /\ c \in Seq(Nat)
      /\ Len(c) = IF n <= Len(x) THEN n ELSE Len(x)
      /\ \A i \in 1 .. Len(c) : c[i] = x[i]
  BY NewestProperties
<1> HIDE DEF c
<1>2. /\ <<v>> \o c \in Seq(Nat)
      /\ Len(<<v>> \o c) = Len(c) + 1
      /\ (<<v>> \o c)[1] = v
      /\ \A i \in 2 .. Len(c) + 1 : (<<v>> \o c)[i] = c[i - 1]
  BY <1>1, InFront
<1>3. /\ <<v>> \o x \in Seq(Nat)
      /\ Len(<<v>> \o x) = Len(x) + 1
      /\ (<<v>> \o x)[1] = v
      /\ \A i \in 2 .. Len(x) + 1 : (<<v>> \o x)[i] = x[i - 1]
  BY InFront
<1>4. Len(x) \in Nat /\ Len(c) \in Nat /\ n \in Nat /\ 1 <= n
  BY <1>1, LenProperties
<1>5. /\ a \in Seq(Nat)
      /\ Len(a) = IF n <= Len(<<v>> \o c) THEN n ELSE Len(<<v>> \o c)
      /\ \A i \in 1 .. Len(a) : a[i] = (<<v>> \o c)[i]
  BY <1>2, <1>4, NewestProperties
<1>6. /\ b \in Seq(Nat)
      /\ Len(b) = IF n <= Len(<<v>> \o x) THEN n ELSE Len(<<v>> \o x)
      /\ \A i \in 1 .. Len(b) : b[i] = (<<v>> \o x)[i]
  BY <1>3, <1>4, NewestProperties
<1> HIDE DEF a, b
<1>7. Len(a) = IF n <= Len(x) THEN n ELSE Len(x) + 1
  BY <1>1, <1>2, <1>4, <1>5
<1>8. Len(b) = IF n <= Len(x) THEN n ELSE Len(x) + 1
  BY <1>3, <1>4, <1>6
<1>9. ASSUME NEW i \in 1 .. Len(a) PROVE a[i] = b[i]
  <2>1. i \in Int /\ 1 <= i /\ i <= n /\ i <= Len(x) + 1
    BY <1>4, <1>7
  <2>2. i \in 1 .. Len(b)
    BY <1>7, <1>8
  <2>3. a[i] = (<<v>> \o c)[i] /\ b[i] = (<<v>> \o x)[i]
    BY <1>5, <1>6, <2>2
  <2>4. CASE i = 1
    BY <1>2, <1>3, <2>3, <2>4
  <2>5. CASE i # 1
    <3>1. i \in 2 .. Len(x) + 1
      BY <1>4, <2>1, <2>5
    <3>2. i - 1 \in 1 .. Len(c)
      BY <1>1, <1>4, <2>1, <2>5
    <3>3. i \in 2 .. Len(c) + 1
      BY <1>4, <3>1, <3>2
    <3>4. QED
      BY <1>1, <1>2, <1>3, <2>3, <3>1, <3>2, <3>3
  <2>6. QED
    BY <2>4, <2>5
<1>10. a = b
  BY <1>5, <1>6, <1>7, <1>8, <1>9, SeqEqual
<1>11. QED
  BY <1>10 DEF a, b, c

LEMMA InsertedProperties ==
    ASSUME NEW x \in Seq(Nat), NEW v \in Nat
    PROVE  /\ Inserted(v, x) \in Seq(Nat)
           /\ Inserted(v, Newest(x, RingSize)) = Newest(<<v>> \o x, RingSize)
<1>1. RingSize \in Nat \ {0} /\ RingSize \in Nat
  BY RingsAssumption
<1>2. Inserted(v, x) \in Seq(Nat)
  BY <1>1, InFront, NewestProperties DEF Inserted
<1>3. QED
  BY <1>1, <1>2, NewestOfNewest DEF Inserted

LEMMA NewestOfNothing == Newest(<<>>, RingSize) = <<>>
<1>1. RingSize \in Nat /\ RingSize # 0 /\ Len(<<>>) = 0 /\ <<>> \in Seq(Nat)
  BY RingsAssumption
<1>2. /\ Newest(<<>>, RingSize) \in Seq(Nat)
      /\ Len(Newest(<<>>, RingSize)) = IF RingSize <= Len(<<>>) THEN RingSize ELSE Len(<<>>)
  BY <1>1, NewestProperties
<1>3. QED
  BY <1>1, <1>2, EmptySeq

-----------------------------------------------------------------------------
LEMMA ConvoStarts == ConvoInit => ConvoIInv
<1> SUFFICES ASSUME ConvoInit PROVE ConvoIInv
  OBVIOUS
<1>1. <<>> \in Seq(Nat) /\ ToSet(<<>>) = {} /\ IsInjective(<<>>)
  BY DEF ToSet, IsInjective
<1>2. Newest(<<>>, RingSize) = <<>>
  BY NewestOfNothing
<1>3. ConvoShapes
  BY DEF ConvoInit, ConvoShapes, NoTurn
<1>4. \A t \in Turns : turn[t].step = "idle"
  BY DEF ConvoInit, NoTurn
<1>5. Logged
  BY <1>1 DEF ConvoInit, Logged
<1>6. OwnVectors /\ Snapshots /\ Mixed
  BY <1>4 DEF OwnVectors, Snapshots, Mixed, Pending
<1>7. RingIsLatest
  BY <1>2 DEF ConvoInit, RingIsLatest
<1>8. QED
  BY <1>3, <1>5, <1>6, <1>7 DEF ConvoIInv

\* A use that is noted changes nothing but the rivals.
LEMMA NotingKeeps ==
    ASSUME ConvoShapes, NEW s \in Sessions
    PROVE  /\ Noting(s) \in [Turns -> [session : Sessions \cup {NoSession},
                                       step : {"idle", "mix", "push"}, vec : Nat,
                                       snapshot : Seq(Nat), mixed : Seq(Nat),
                                       rivals : SUBSET Sessions]]
           /\ \A u \in Turns : /\ Noting(s)[u].session = turn[u].session
                               /\ Noting(s)[u].step = turn[u].step
                               /\ Noting(s)[u].vec = turn[u].vec
                               /\ Noting(s)[u].snapshot = turn[u].snapshot
                               /\ Noting(s)[u].mixed = turn[u].mixed
BY DEF ConvoShapes, Noting

\* The newest vectors of a session are of its log.
LEMMA RingElements ==
    ASSUME ConvoIInv, NEW s \in Sessions
    PROVE  /\ ring[s] \in Seq(Nat)
           /\ ToSet(ring[s]) \subseteq ToSet(log[s])
           /\ IsInjective(ring[s])
<1>1. log[s] \in Seq(Nat) /\ ring[s] \in Seq(Nat) /\ ring[s] = Newest(log[s], RingSize)
      /\ IsInjective(log[s])
  BY DEF ConvoIInv, ConvoShapes, Logged, RingIsLatest
<1>2. RingSize \in Nat
  BY RingsAssumption
<1>3. QED
  BY <1>1, <1>2, NewestElements

LEMMA GetRingKeeps ==
    ASSUME ConvoIInv, NEW t \in Turns, NEW s \in Sessions, GetRing(t, s)
    PROVE  ConvoIInv'
<1> DEFINE new == [NoTurn EXCEPT !.session = s, !.step = "mix",
                                 !.vec = begun + 1, !.snapshot = ring[s]]
<1>1. /\ turn[t].step = "idle" /\ begun' = begun + 1 /\ UNCHANGED <<ring, log>>
      /\ turn' = [(IF Tracked(s) THEN Noting(s) ELSE turn) EXCEPT ![t] = new]
  BY DEF GetRing
<1>2. ConvoShapes /\ begun \in Nat
  BY DEF ConvoIInv, ConvoShapes
<1>3. /\ ring[s] \in Seq(Nat) /\ IsInjective(ring[s])
      /\ ToSet(ring[s]) \subseteq ToSet(log[s])
  BY RingElements
<1>h. begun + 1 \in Nat /\ <<>> \in Seq(Nat) /\ ~(begun + 1 <= begun)
  BY <1>2
<1>4. /\ new \in [session : Sessions \cup {NoSession}, step : {"idle", "mix", "push"}, vec : Nat,
                  snapshot : Seq(Nat), mixed : Seq(Nat), rivals : SUBSET Sessions]
      /\ new.session = s /\ new.step = "mix" /\ new.vec = begun + 1 /\ new.snapshot = ring[s]
  BY <1>2, <1>3, <1>h DEF NoTurn
<1> HIDE DEF new
<1>5. /\ turn' \in [Turns -> [session : Sessions \cup {NoSession},
                              step : {"idle", "mix", "push"}, vec : Nat,
                              snapshot : Seq(Nat), mixed : Seq(Nat),
                              rivals : SUBSET Sessions]]
      /\ turn'[t] = new
      /\ \A u \in Turns \ {t} : /\ turn'[u].session = turn[u].session
                                /\ turn'[u].step = turn[u].step
                                /\ turn'[u].vec = turn[u].vec
                                /\ turn'[u].snapshot = turn[u].snapshot
                                /\ turn'[u].mixed = turn[u].mixed
  <2>1. CASE Tracked(s)
    BY <1>1, <1>2, <1>4, <2>1, NotingKeeps
  <2>2. CASE ~Tracked(s)
    BY <1>1, <1>2, <1>4, <2>2 DEF ConvoShapes
  <2>3. QED
    BY <2>1, <2>2
<1>6. \A r \in Sessions : ToSet(log[r]) \subseteq Int /\ \A v \in ToSet(log[r]) : v <= begun
  <2> SUFFICES ASSUME NEW r \in Sessions
               PROVE  ToSet(log[r]) \subseteq Int /\ \A v \in ToSet(log[r]) : v <= begun
    OBVIOUS
  <2>1. log[r] \in Seq(Nat)
    BY <1>2 DEF ConvoShapes
  <2>2. QED
    BY <2>1, ElementsOfSeq, ElementOfSeq DEF ConvoIInv, Logged
<1>i. \A r \in Sessions : begun + 1 \notin ToSet(log[r])
  BY <1>6, <1>h
<1>7. \A u \in Turns : Pending(u) => /\ turn[u].vec \in Int /\ turn[u].vec <= begun
                                     /\ ToSet(turn[u].snapshot) \subseteq Int
                                     /\ \A v \in ToSet(turn[u].snapshot) : v < turn[u].vec
  <2> SUFFICES ASSUME NEW u \in Turns, Pending(u)
               PROVE  /\ turn[u].vec \in Int /\ turn[u].vec <= begun
                      /\ ToSet(turn[u].snapshot) \subseteq Int
                      /\ \A v \in ToSet(turn[u].snapshot) : v < turn[u].vec
    OBVIOUS
  <2>1. turn[u].snapshot \in Seq(Nat) /\ turn[u].vec \in Nat
    BY <1>2 DEF ConvoShapes
  <2>2. ToSet(turn[u].snapshot) \subseteq Int
    BY <2>1, ElementsOfSeq, ElementOfSeq
  <2>3. QED
    BY <2>1, <2>2 DEF ConvoIInv, OwnVectors, Snapshots
<1>a. ConvoShapes'
  BY <1>1, <1>2, <1>5 DEF ConvoShapes
<1>b. Logged'
  <2>1. \A r \in Sessions : IsInjective(log'[r]) /\ \A v \in ToSet(log'[r]) : v <= begun'
    BY <1>1, <1>2, <1>6 DEF ConvoIInv, Logged
  <2>2. QED
    BY <1>1, <2>1 DEF ConvoIInv, Logged
<1>c. OwnVectors'
  <2>1. ASSUME NEW u \in Turns, Pending(u)'
        PROVE /\ turn'[u].session \in Sessions
              /\ turn'[u].vec <= begun'
              /\ \A r \in Sessions : turn'[u].vec \notin ToSet(log'[r])
    <3>1. CASE u = t
      <4>1. turn'[u].session = s /\ turn'[u].vec = begun + 1
        BY <1>4, <1>5, <3>1
      <4>2. QED
        BY <1>1, <1>2, <1>i, <4>1
    <3>2. CASE u # t
      <4>1. Pending(u) /\ turn'[u].vec = turn[u].vec /\ turn'[u].session = turn[u].session
        BY <1>5, <2>1, <3>2 DEF Pending
      <4>2. turn[u].vec <= begun + 1
        BY <1>2, <1>7, <4>1
      <4>3. QED
        BY <1>1, <4>1, <4>2 DEF ConvoIInv, OwnVectors
    <3>3. QED
      BY <3>1, <3>2
  <2>2. ASSUME NEW u \in Turns, NEW w \in Turns, Pending(u)', Pending(w)'
        PROVE /\ turn'[u].vec \notin ToSet(turn'[w].snapshot)
              /\ u # w => turn'[u].vec # turn'[w].vec
    <3>1. CASE u = t
      <4>1. turn'[u].vec = begun + 1
        BY <1>4, <1>5, <3>1
      <4>2. CASE w = t
        <5>1. turn'[w].snapshot = ring[s]
          BY <1>4, <1>5, <4>2
        <5>2. QED
          BY <1>3, <1>i, <3>1, <4>1, <4>2, <5>1
      <4>3. CASE w # t
        <5>1. Pending(w) /\ turn'[w].vec = turn[w].vec /\ turn'[w].snapshot = turn[w].snapshot
          BY <1>5, <2>2, <4>3 DEF Pending
        <5>2. turn[w].vec \in Int /\ turn[w].vec <= begun
              /\ ToSet(turn[w].snapshot) \subseteq Int
              /\ \A v \in ToSet(turn[w].snapshot) : v < turn[w].vec
          BY <1>7, <5>1
        <5>3. QED
          BY <1>2, <4>1, <5>1, <5>2
      <4>4. QED
        BY <4>2, <4>3
    <3>2. CASE u # t
      <4>1. Pending(u) /\ turn'[u].vec = turn[u].vec
        BY <1>5, <2>2, <3>2 DEF Pending
      <4>2. CASE w = t
        <5>1. turn'[w].vec = begun + 1 /\ turn'[w].snapshot = ring[s]
          BY <1>4, <1>5, <4>2
        <5>2. turn[u].vec \notin ToSet(log[s])
          BY <4>1 DEF ConvoIInv, OwnVectors
        <5>3. turn[u].vec # begun + 1
          BY <1>2, <1>7, <4>1
        <5>4. QED
          BY <1>3, <4>1, <5>1, <5>2, <5>3
      <4>3. CASE w # t
        <5>1. Pending(w) /\ turn'[w].vec = turn[w].vec /\ turn'[w].snapshot = turn[w].snapshot
          BY <1>5, <2>2, <4>3 DEF Pending
        <5>2. QED
          BY <4>1, <5>1 DEF ConvoIInv, OwnVectors
      <4>4. QED
        BY <4>2, <4>3
    <3>3. QED
      BY <3>1, <3>2
  <2>3. QED
    BY <2>1, <2>2 DEF OwnVectors
<1>d. Snapshots'
  <2> SUFFICES ASSUME NEW u \in Turns, Pending(u)'
               PROVE  /\ IsInjective(turn'[u].snapshot)
                      /\ \A v \in ToSet(turn'[u].snapshot) : v < turn'[u].vec
                      /\ \A r \in Sessions \ {turn'[u].session} :
                            ToSet(turn'[u].snapshot) \cap ToSet(log'[r]) = {}
    BY DEF Snapshots
  <2>1. CASE u = t
    <3>1. turn'[u].session = s /\ turn'[u].vec = begun + 1 /\ turn'[u].snapshot = ring[s]
      BY <1>4, <1>5, <2>1
    <3>2. \A v \in ToSet(ring[s]) : v < begun + 1
      <4> SUFFICES ASSUME NEW v \in ToSet(ring[s]) PROVE v < begun + 1
        OBVIOUS
      <4>1. v \in Int /\ v <= begun
        BY <1>3, <1>6
      <4>2. QED
        BY <1>2, <4>1
    <3>3. \A r \in Sessions \ {s} : ToSet(ring[s]) \cap ToSet(log[r]) = {}
      BY <1>3 DEF ConvoIInv, Logged
    <3>4. QED
      BY <1>1, <1>3, <3>1, <3>2, <3>3
  <2>2. CASE u # t
    <3>1. Pending(u)
      BY <1>5, <2>2 DEF Pending
    <3>2. QED
      BY <1>1, <1>5, <2>2, <3>1 DEF ConvoIInv, Snapshots
  <2>3. QED
    BY <2>1, <2>2
<1>e. Mixed'
  <2> SUFFICES ASSUME NEW u \in Turns, turn'[u].step = "push"
               PROVE  turn'[u].mixed = <<turn'[u].vec>> \o Newest(turn'[u].snapshot, RingSize - 1)
    BY DEF Mixed, Newest
  <2>1. u # t
    BY <1>4, <1>5
  <2>2. QED
    BY <1>5, <2>1 DEF ConvoIInv, Mixed
<1>f. RingIsLatest'
  BY <1>1 DEF ConvoIInv, RingIsLatest, Newest
<1>g. QED
  BY <1>a, <1>b, <1>c, <1>d, <1>e, <1>f DEF ConvoIInv

LEMMA MixKeeps ==
    ASSUME ConvoIInv, NEW t \in Turns, Mix(t)
    PROVE  ConvoIInv'
<1> DEFINE m == <<turn[t].vec>> \o Newest(turn[t].snapshot, RingSize - 1)
<1>1. /\ turn[t].step = "mix" /\ UNCHANGED <<ring, log, begun>>
      /\ turn' = [turn EXCEPT ![t].step = "push", ![t].mixed = m]
  BY DEF Mix
<1>2. ConvoShapes /\ turn[t].vec \in Nat /\ turn[t].snapshot \in Seq(Nat)
  BY DEF ConvoIInv, ConvoShapes
<1>3. m \in Seq(Nat)
  <2>1. RingSize - 1 \in Nat
    BY RingsAssumption
  <2>2. QED
    BY <1>2, <2>1, NewestProperties, InFront
<1>4. m = <<turn[t].vec>> \o Newest(turn[t].snapshot, RingSize - 1)
  OBVIOUS
<1> HIDE DEF m
<1>5. /\ turn' \in [Turns -> [session : Sessions \cup {NoSession},
                              step : {"idle", "mix", "push"}, vec : Nat,
                              snapshot : Seq(Nat), mixed : Seq(Nat),
                              rivals : SUBSET Sessions]]
      /\ turn'[t].step = "push" /\ turn'[t].mixed = m
      /\ \A u \in Turns \ {t} : turn'[u] = turn[u]
      /\ \A u \in Turns : /\ turn'[u].session = turn[u].session
                          /\ turn'[u].vec = turn[u].vec
                          /\ turn'[u].snapshot = turn[u].snapshot
  BY <1>1, <1>2, <1>3 DEF ConvoShapes
<1>6. \A u \in Turns : Pending(u)' <=> Pending(u)
  BY <1>1, <1>5 DEF Pending
<1>a. ConvoShapes'
  BY <1>1, <1>2, <1>5 DEF ConvoShapes
<1>b. Logged'
  BY <1>1 DEF ConvoIInv, Logged
<1>c. OwnVectors'
  BY <1>1, <1>5, <1>6 DEF ConvoIInv, OwnVectors
<1>d. Snapshots'
  BY <1>1, <1>5, <1>6 DEF ConvoIInv, Snapshots
<1>e. Mixed'
  <2> SUFFICES ASSUME NEW u \in Turns, turn'[u].step = "push"
               PROVE  turn'[u].mixed = <<turn'[u].vec>> \o Newest(turn'[u].snapshot, RingSize - 1)
    BY DEF Mixed, Newest
  <2>1. CASE u = t
    BY <1>4, <1>5, <2>1
  <2>2. CASE u # t
    BY <1>5, <2>2 DEF ConvoIInv, Mixed
  <2>3. QED
    BY <2>1, <2>2
<1>f. RingIsLatest'
  BY <1>1 DEF ConvoIInv, RingIsLatest, Newest
<1>g. QED
  BY <1>a, <1>b, <1>c, <1>d, <1>e, <1>f DEF ConvoIInv

LEMMA PushKeeps ==
    ASSUME ConvoIInv, NEW t \in Turns, Push(t)
    PROVE  ConvoIInv'
<1> DEFINE s == turn[t].session
           v == turn[t].vec
<1>1. PICK E : /\ ring' = [r \in Sessions |->
                      IF r \in E THEN <<>>
                      ELSE IF r = s THEN Inserted(v, ring[s]) ELSE ring[r]]
               /\ log' = [r \in Sessions |->
                      IF r \in E THEN <<>>
                      ELSE IF r = s THEN <<v>> \o log[s] ELSE log[r]]
  BY DEF Push
<1>2. /\ turn[t].step = "push" /\ begun' = begun
      /\ turn' = [Noting(s) EXCEPT ![t] = NoTurn]
  BY DEF Push
<1>3. Pending(t) /\ s \in Sessions
  BY <1>2 DEF ConvoIInv, OwnVectors, Pending
<1>4. /\ ConvoShapes /\ v \in Nat /\ begun \in Nat
      /\ ring \in [Sessions -> Seq(Nat)] /\ log \in [Sessions -> Seq(Nat)]
  BY DEF ConvoIInv, ConvoShapes
<1>5. /\ v <= begun /\ \A r \in Sessions : v \notin ToSet(log[r])
  BY <1>3 DEF ConvoIInv, OwnVectors
<1>6. /\ <<>> \in Seq(Nat) /\ ToSet(<<>>) = {} /\ IsInjective(<<>>)
  BY DEF ToSet, IsInjective
<1>7. /\ <<v>> \o log[s] \in Seq(Nat)
      /\ ToSet(<<v>> \o log[s]) = ToSet(log[s]) \cup {v}
      /\ IsInjective(<<v>> \o log[s])
  <2>1. log[s] \in Seq(Nat) /\ IsInjective(log[s]) /\ v \notin ToSet(log[s])
    BY <1>3, <1>4, <1>5 DEF ConvoIInv, Logged
  <2>2. QED
    BY <1>4, <2>1, InFront, InFrontElements
<1>8. /\ Inserted(v, ring[s]) \in Seq(Nat)
      /\ Inserted(v, ring[s]) = Newest(<<v>> \o log[s], RingSize)
  BY <1>3, <1>4, InsertedProperties DEF ConvoIInv, RingIsLatest
<1>9. NoTurn \in [session : Sessions \cup {NoSession}, step : {"idle", "mix", "push"}, vec : Nat,
                  snapshot : Seq(Nat), mixed : Seq(Nat), rivals : SUBSET Sessions]
      /\ NoTurn.step = "idle"
  BY <1>6 DEF NoTurn
<1>10. /\ turn' \in [Turns -> [session : Sessions \cup {NoSession},
                               step : {"idle", "mix", "push"}, vec : Nat,
                               snapshot : Seq(Nat), mixed : Seq(Nat),
                               rivals : SUBSET Sessions]]
       /\ turn'[t].step = "idle"
       /\ \A u \in Turns \ {t} : /\ turn'[u].session = turn[u].session
                                 /\ turn'[u].step = turn[u].step
                                 /\ turn'[u].vec = turn[u].vec
                                 /\ turn'[u].snapshot = turn[u].snapshot
                                 /\ turn'[u].mixed = turn[u].mixed
  BY <1>2, <1>3, <1>4, <1>9, NotingKeeps
<1> HIDE DEF s, v
<1>11. \A r \in Sessions : /\ r # s => ToSet(log'[r]) \subseteq ToSet(log[r])
                           /\ ToSet(log'[s]) \subseteq ToSet(log[s]) \cup {v}
                           /\ IsInjective(log'[r])
  BY <1>1, <1>3, <1>6, <1>7 DEF ConvoIInv, Logged
<1>12. \A u \in Turns : Pending(u)' => u # t /\ Pending(u)
  BY <1>10 DEF Pending
<1>a. ConvoShapes'
  <2>1. ring' \in [Sessions -> Seq(Nat)]
    BY <1>1, <1>4, <1>6, <1>8
  <2>2. log' \in [Sessions -> Seq(Nat)]
    BY <1>1, <1>4, <1>6, <1>7
  <2>3. QED
    BY <1>2, <1>4, <1>10, <2>1, <2>2 DEF ConvoShapes
<1>b. Logged'
  <2>1. ASSUME NEW r \in Sessions
        PROVE  IsInjective(log'[r]) /\ \A w \in ToSet(log'[r]) : w <= begun
    <3>1. \A w \in ToSet(log[r]) : w <= begun
      BY DEF ConvoIInv, Logged
    <3>2. CASE r = s
      BY <1>5, <1>11, <3>1, <3>2
    <3>3. CASE r # s
      BY <1>11, <3>1, <3>3
    <3>4. QED
      BY <3>2, <3>3
  <2>2. ASSUME NEW r \in Sessions, NEW q \in Sessions, r # q
        PROVE  ToSet(log'[r]) \cap ToSet(log'[q]) = {}
    <3>1. ToSet(log[r]) \cap ToSet(log[q]) = {}
      BY <2>2 DEF ConvoIInv, Logged
    <3>2. QED
      BY <1>5, <1>11, <2>2, <3>1
  <2>3. QED
    BY <1>2, <2>1, <2>2 DEF Logged
<1>c. OwnVectors'
  <2>1. ASSUME NEW u \in Turns, Pending(u)'
        PROVE /\ turn'[u].session \in Sessions
              /\ turn'[u].vec <= begun'
              /\ \A r \in Sessions : turn'[u].vec \notin ToSet(log'[r])
    <3>1. u # t /\ Pending(u) /\ turn'[u].vec = turn[u].vec /\ turn'[u].session = turn[u].session
      BY <1>10, <1>12, <2>1
    <3>2. turn[u].vec # v
      BY <1>3, <3>1 DEF ConvoIInv, OwnVectors, v
    <3>3. \A r \in Sessions : turn[u].vec \notin ToSet(log[r])
      BY <3>1 DEF ConvoIInv, OwnVectors
    <3>4. \A r \in Sessions : turn[u].vec \notin ToSet(log'[r])
      BY <1>3, <1>11, <3>2, <3>3
    <3>5. QED
      BY <1>2, <3>1, <3>4 DEF ConvoIInv, OwnVectors
  <2>2. ASSUME NEW u \in Turns, NEW w \in Turns, Pending(u)', Pending(w)'
        PROVE /\ turn'[u].vec \notin ToSet(turn'[w].snapshot)
              /\ u # w => turn'[u].vec # turn'[w].vec
    <3>1. /\ Pending(u) /\ turn'[u].vec = turn[u].vec
          /\ Pending(w) /\ turn'[w].vec = turn[w].vec /\ turn'[w].snapshot = turn[w].snapshot
      BY <1>10, <1>12, <2>2
    <3>2. QED
      BY <3>1 DEF ConvoIInv, OwnVectors
  <2>3. QED
    BY <2>1, <2>2 DEF OwnVectors
<1>d. Snapshots'
  <2> SUFFICES ASSUME NEW u \in Turns, Pending(u)'
               PROVE  /\ IsInjective(turn'[u].snapshot)
                      /\ \A w \in ToSet(turn'[u].snapshot) : w < turn'[u].vec
                      /\ \A r \in Sessions \ {turn'[u].session} :
                            ToSet(turn'[u].snapshot) \cap ToSet(log'[r]) = {}
    BY DEF Snapshots
  <2>1. /\ Pending(u) /\ turn'[u].vec = turn[u].vec /\ turn'[u].snapshot = turn[u].snapshot
        /\ turn'[u].session = turn[u].session
    BY <1>10, <1>12
  <2>2. v \notin ToSet(turn[u].snapshot)
    BY <1>3, <2>1 DEF ConvoIInv, OwnVectors, v
  <2>3. /\ IsInjective(turn[u].snapshot)
        /\ \A w \in ToSet(turn[u].snapshot) : w < turn[u].vec
        /\ \A r \in Sessions \ {turn[u].session} :
              ToSet(turn[u].snapshot) \cap ToSet(log[r]) = {}
    BY <2>1 DEF ConvoIInv, Snapshots
  <2>4. ASSUME NEW r \in Sessions \ {turn[u].session}
        PROVE  ToSet(turn[u].snapshot) \cap ToSet(log'[r]) = {}
    <3>1. ToSet(log'[r]) \subseteq ToSet(log[r]) \cup {v}
      BY <1>11
    <3>2. QED
      BY <2>2, <2>3, <3>1
  <2>5. QED
    BY <2>1, <2>3, <2>4
<1>e. Mixed'
  <2> SUFFICES ASSUME NEW u \in Turns, turn'[u].step = "push"
               PROVE  turn'[u].mixed = <<turn'[u].vec>> \o Newest(turn'[u].snapshot, RingSize - 1)
    BY DEF Mixed, Newest
  <2>1. u # t
    BY <1>10
  <2>2. QED
    BY <1>10, <2>1 DEF ConvoIInv, Mixed
<1>f. RingIsLatest'
  <2> SUFFICES ASSUME NEW r \in Sessions PROVE ring'[r] = Newest(log'[r], RingSize)
    BY DEF RingIsLatest, Newest
  <2>1. CASE r \in E
    BY <1>1, <2>1, NewestOfNothing
  <2>2. CASE r \notin E /\ r = s
    BY <1>1, <1>8, <2>2
  <2>3. CASE r \notin E /\ r # s
    BY <1>1, <2>3 DEF ConvoIInv, RingIsLatest
  <2>4. QED
    BY <2>1, <2>2, <2>3
<1>g. QED
  BY <1>a, <1>b, <1>c, <1>d, <1>e, <1>f DEF ConvoIInv

LEMMA ConvoStep == ConvoIInv /\ [ConvoNext]_convoVars => ConvoIInv'
<1> SUFFICES ASSUME ConvoIInv, [ConvoNext]_convoVars PROVE ConvoIInv'
  OBVIOUS
<1>1. CASE UNCHANGED convoVars
  BY <1>1 DEF convoVars, ConvoIInv, ConvoShapes, Logged, OwnVectors, Snapshots, Mixed, Pending,
     RingIsLatest, Newest
<1>2. QED
  BY <1>1, GetRingKeeps, MixKeeps, PushKeeps DEF ConvoNext

LEMMA ConvoAlways == ConvoSpec => []ConvoIInv
BY ConvoStarts, ConvoStep, PTL DEF ConvoSpec

\* However turns of one session and of others interleave, a ring is the newest
\* vectors of its session.
THEOREM RingsAreLatest == ConvoSpec => []RingIsLatest
<1>1. ConvoIInv => RingIsLatest
  BY DEF ConvoIInv
<1>2. QED
  BY <1>1, ConvoAlways, PTL

\* What is mixed into a query is older than its turn, of the same session, and
\* in the mixture once.
THEOREM HistoryIsPast == ConvoSpec => []MixesOnlyThePast
<1>1. ConvoIInv => MixesOnlyThePast
  <2> SUFFICES ASSUME ConvoIInv, NEW t \in Turns, turn[t].step = "push"
               PROVE  LET m == turn[t].mixed
                      IN  /\ Len(m) <= RingSize
                          /\ \A i \in 2 .. Len(m) :
                                /\ m[i] < turn[t].vec
                                /\ \A s \in Sessions \ {turn[t].session} : m[i] \notin ToSet(log[s])
                          /\ IsInjective(m)
    BY DEF MixesOnlyThePast
  <2> DEFINE x == turn[t].snapshot
             v == turn[t].vec
             y == Newest(x, RingSize - 1)
             m == <<v>> \o y
  <2>1. turn[t].mixed = m /\ Pending(t)
    BY DEF ConvoIInv, Mixed, Pending
  <2>2. x \in Seq(Nat) /\ v \in Nat
    BY DEF ConvoIInv, ConvoShapes
  <2>3. RingSize - 1 \in Nat /\ RingSize \in Nat
    BY RingsAssumption
  <2>4. /\ IsInjective(x) /\ v \notin ToSet(x)
        /\ \A w \in ToSet(x) : w < v
        /\ \A s \in Sessions \ {turn[t].session} : ToSet(x) \cap ToSet(log[s]) = {}
    BY <2>1 DEF ConvoIInv, OwnVectors, Snapshots
  <2> HIDE DEF x, v
  <2>5. y \in Seq(Nat) /\ Len(y) = IF RingSize - 1 <= Len(x) THEN RingSize - 1 ELSE Len(x)
    BY <2>2, <2>3, NewestProperties
  <2>6. ToSet(y) \subseteq ToSet(x) /\ IsInjective(y)
    BY <2>2, <2>3, <2>4, NewestElements
  <2> HIDE DEF y
  <2>7. /\ Len(m) = Len(y) + 1
        /\ \A i \in 2 .. Len(y) + 1 : m[i] = y[i - 1]
    BY <2>2, <2>5, InFront
  <2>8. IsInjective(m)
    BY <2>2, <2>4, <2>5, <2>6, InFrontElements
  <2>9. DOMAIN y = 1 .. Len(y) /\ Len(y) \in Nat /\ Len(x) \in Nat
    BY <2>2, <2>5, ElementsOfSeq
  <2> HIDE DEF m
  <2>10. Len(m) <= RingSize
    BY <2>3, <2>5, <2>7, <2>9
  <2>11. ASSUME NEW i \in 2 .. Len(m) PROVE m[i] \in ToSet(x)
    <3>1. i - 1 \in 1 .. Len(y) /\ i \in 2 .. Len(y) + 1
      BY <2>7, <2>9
    <3>2. y[i - 1] \in ToSet(y)
      BY <2>9, <3>1 DEF ToSet
    <3>3. QED
      BY <2>6, <2>7, <3>1, <3>2
  <2>12. QED
    BY <2>1, <2>4, <2>8, <2>10, <2>11 DEF v
<1>2. QED
  BY <1>1, ConvoAlways, PTL

(***************************************************************************)
(* Eviction.  A session moves towards the front of the order only past     *)
(* sessions that are used, and a turn in progress counts those as its      *)
(* rivals: by the time its session is in front of a full order, all the    *)
(* others are rivals.                                                      *)
(***************************************************************************)

\* The sessions used since r was.
Behind(order, r) == {order[j] : j \in {k \in 1 .. Len(order) :
                                          \E i \in 1 .. Len(order) : i < k /\ order[i] = r}}

\* A session without two places.
Order(x) == /\ x \in Seq(Sessions)
            /\ \A i, j \in 1 .. Len(x) : x[i] = x[j] => i = j

Kept(t) ==
    /\ IsFiniteSet(turn[t].rivals)
    /\ Pending(t) => turn[t].vec \in 1 .. begun
    /\ Pending(t) /\ turn[t].snapshot # <<>> =>
          \/ Cardinality(turn[t].rivals) >= MaxRings
          \/ /\ Tracked(turn[t].session)
             /\ Behind(lru, turn[t].session) \subseteq turn[t].rivals

LruInv ==
    /\ Order(lru) /\ Len(lru) <= MaxRings
    /\ \A s \in Sessions : ring[s] \in Seq(1 .. begun) /\ (ring[s] # <<>> <=> Tracked(s))
    /\ \A t \in Turns : Kept(t)
    /\ begun \in 0 .. MaxPushes

LEMMA OrderDomain ==
    ASSUME NEW x \in Seq(Sessions)
    PROVE  /\ DOMAIN x = 1 .. Len(x) /\ Len(x) \in Nat
           /\ ToSet(x) = {x[i] : i \in 1 .. Len(x)}
           /\ \A i \in 1 .. Len(x) : x[i] \in Sessions
BY LenProperties, ElementOfSeq DEF ToSet

\* One place less.
LEMMA RemoveAtProperties ==
    ASSUME NEW x \in Seq(Sessions), NEW p \in 1 .. Len(x)
    PROVE  /\ RemoveAt(x, p) \in Seq(Sessions)
           /\ Len(RemoveAt(x, p)) = Len(x) - 1
           /\ \A k \in 1 .. Len(x) - 1 :
                 RemoveAt(x, p)[k] = x[IF k < p THEN k ELSE k + 1]
<1> DEFINE n == Len(x)
           u == SubSeq(x, 1, p - 1)
           w == SubSeq(x, p + 1, n)
<1>1. n \in Nat /\ p \in Int /\ 1 <= p /\ p <= n /\ \A i \in 1 .. n : x[i] \in Sessions
  BY OrderDomain
<1> HIDE DEF n
<1>2. /\ u \in Seq(Sessions)
      /\ Len(u) = IF 1 <= p - 1 THEN p - 1 - 1 + 1 ELSE 0
      /\ \A i \in 1 .. p - 1 - 1 + 1 : u[i] = x[1 + i - 1]
  <2>1. \A i \in 1 .. p - 1 : x[i] \in Sessions
    BY <1>1
  <2>2. 1 \in Int /\ p - 1 \in Int
    BY <1>1
  <2>3. QED
    BY <2>1, <2>2, SubSeqProperties
<1>3. /\ w \in Seq(Sessions)
      /\ Len(w) = IF p + 1 <= n THEN n - (p + 1) + 1 ELSE 0
      /\ \A i \in 1 .. n - (p + 1) + 1 : w[i] = x[p + 1 + i - 1]
  <2>1. \A i \in p + 1 .. n : x[i] \in Sessions
    BY <1>1
  <2>2. p + 1 \in Int /\ n \in Int
    BY <1>1
  <2>3. QED
    BY <2>1, <2>2, SubSeqProperties
<1>4. Len(u) = p - 1 /\ Len(w) = n - p
  BY <1>1, <1>2, <1>3
<1>5. /\ \A i \in 1 .. p - 1 : u[i] = x[i]
      /\ \A i \in 1 .. n - p : w[i] = x[p + i]
  BY <1>1, <1>2, <1>3
<1> HIDE DEF u, w
<1>6. /\ u \o w \in Seq(Sessions)
      /\ Len(u \o w) = Len(u) + Len(w)
      /\ \A i \in 1 .. Len(u) + Len(w) :
            (u \o w)[i] = IF i <= Len(u) THEN u[i] ELSE w[i - Len(u)]
  BY <1>2, <1>3, ConcatProperties
<1>7. ASSUME NEW k \in 1 .. n - 1 PROVE (u \o w)[k] = x[IF k < p THEN k ELSE k + 1]
  <2>1. k \in Int /\ 1 <= k /\ k <= n - 1 /\ k \in 1 .. Len(u) + Len(w)
    BY <1>1, <1>4
  <2>2. CASE k < p
    <3>1. k \in 1 .. p - 1 /\ k <= Len(u)
      BY <1>1, <1>4, <2>1, <2>2
    <3>2. QED
      BY <1>5, <1>6, <2>1, <2>2, <3>1
  <2>3. CASE ~(k < p)
    <3>1. k - (p - 1) \in 1 .. n - p /\ ~(k <= Len(u)) /\ p + (k - (p - 1)) = k + 1
      BY <1>1, <1>4, <2>1, <2>3
    <3>2. (u \o w)[k] = w[k - (p - 1)]
      BY <1>4, <1>6, <2>1, <3>1
    <3>3. QED
      BY <1>5, <2>3, <3>1, <3>2
  <2>4. QED
    BY <2>2, <2>3
<1>8. /\ u \o w \in Seq(Sessions) /\ Len(u \o w) = n - 1
  BY <1>1, <1>4, <1>6
<1>9. QED
  BY <1>7, <1>8 DEF RemoveAt, u, w, n

\* A session that is used leaves its place and takes the last one: the others
\* keep their order.
LEMMA TouchedPlaces ==
    ASSUME Order(lru), NEW s \in Sessions
    PROVE  LET o == Touched(s)
               n == Len(o)
           IN  /\ o \in Seq(Sessions) /\ n \in Nat \ {0} /\ o[n] = s
               /\ n = IF Tracked(s) THEN Len(lru) ELSE Len(lru) + 1
               /\ \E p \in 1 .. n :
                     /\ \A k \in 1 .. n - 1 : o[k] = lru[IF k < p THEN k ELSE k + 1]
                     /\ Tracked(s) => lru[p] = s
                     /\ ~Tracked(s) => p = n
<1> DEFINE o == Touched(s)
<1>1. lru \in Seq(Sessions) /\ Len(lru) \in Nat /\ DOMAIN lru = 1 .. Len(lru)
      /\ ToSet(lru) = {lru[i] : i \in 1 .. Len(lru)}
  BY OrderDomain DEF Order
<1>2. CASE Tracked(s)
  <2> DEFINE p == Place(s)
             y == RemoveAt(lru, p)
  <2>1. p \in 1 .. Len(lru) /\ lru[p] = s
    BY <1>1, <1>2 DEF Tracked, Place
  <2> HIDE DEF p
  <2>2. /\ y \in Seq(Sessions)
        /\ Len(y) = Len(lru) - 1
        /\ \A k \in 1 .. Len(lru) - 1 : y[k] = lru[IF k < p THEN k ELSE k + 1]
    BY <1>1, <2>1, RemoveAtProperties
  <2> HIDE DEF y
  <2>3. o = Append(y, s)
    BY <1>2 DEF Touched, p, y
  <2>4. /\ Append(y, s) \in Seq(Sessions)
        /\ Len(Append(y, s)) = Len(y) + 1
        /\ \A k \in 1 .. Len(y) : Append(y, s)[k] = y[k]
        /\ Append(y, s)[Len(y) + 1] = s
    BY <2>2, AppendProperties
  <2>5. Len(o) = Len(lru) /\ Len(lru) \in Nat \ {0} /\ Len(y) = Len(o) - 1
    BY <1>1, <2>1, <2>2, <2>3, <2>4
  <2>6. /\ o \in Seq(Sessions) /\ o[Len(o)] = s
        /\ \A k \in 1 .. Len(o) - 1 : o[k] = lru[IF k < p THEN k ELSE k + 1]
    <3>1. Len(y) + 1 = Len(o)
      BY <2>3, <2>4
    <3>2. QED
      BY <2>2, <2>3, <2>4, <2>5, <3>1
  <2> HIDE DEF o
  <2>7. QED
    BY <1>2, <2>1, <2>5, <2>6 DEF o
<1>3. CASE ~Tracked(s)
  <2>1. o = Append(lru, s)
    BY <1>3 DEF Touched
  <2>2. /\ Append(lru, s) \in Seq(Sessions)
        /\ Len(Append(lru, s)) = Len(lru) + 1
        /\ \A k \in 1 .. Len(lru) : Append(lru, s)[k] = lru[k]
        /\ Append(lru, s)[Len(lru) + 1] = s
    BY <1>1, AppendProperties
  <2> HIDE DEF o
  <2>3. Len(o) = Len(lru) + 1 /\ Len(o) \in Nat \ {0} /\ Len(o) - 1 = Len(lru)
    BY <1>1, <2>1, <2>2
  <2>4. /\ o \in Seq(Sessions) /\ o[Len(o)] = s
        /\ \A k \in 1 .. Len(o) - 1 : o[k] = lru[IF k < Len(o) THEN k ELSE k + 1]
    BY <2>1, <2>2, <2>3
  <2>5. Len(o) \in 1 .. Len(o)
    BY <2>3
  <2>6. QED
    BY <1>3, <2>3, <2>4, <2>5 DEF o
<1>4. QED
  BY <1>2, <1>3

\* What follows from the places.
LEMMA TouchedOrder ==
    ASSUME Order(lru), NEW s \in Sessions
    PROVE  LET o == Touched(s)
           IN  /\ Order(o) /\ Len(o) \in Nat \ {0} /\ o[Len(o)] = s
               /\ Len(o) <= Len(lru) + 1
               /\ Tracked(s) => Len(o) = Len(lru)
               /\ ToSet(o) = ToSet(lru) \cup {s}
               /\ Behind(o, s) = {}
               /\ \A r \in Sessions \ {s} : Behind(o, r) \subseteq Behind(lru, r) \cup {s}
<1> DEFINE o == Touched(s)
           n == Len(o)
           m == Len(lru)
<1>1. /\ o \in Seq(Sessions) /\ n \in Nat \ {0} /\ o[n] = s
      /\ n = IF Tracked(s) THEN m ELSE m + 1
  BY TouchedPlaces
<1>2. PICK p \in 1 .. n :
         /\ \A k \in 1 .. n - 1 : o[k] = lru[IF k < p THEN k ELSE k + 1]
         /\ Tracked(s) => lru[p] = s
         /\ ~Tracked(s) => p = n
  BY TouchedPlaces
<1>3. /\ lru \in Seq(Sessions) /\ m \in Nat
      /\ ToSet(lru) = {lru[i] : i \in 1 .. m}
      /\ ToSet(o) = {o[i] : i \in 1 .. n}
      /\ \A i, j \in 1 .. m : lru[i] = lru[j] => i = j
      /\ Tracked(s) <=> s \in ToSet(lru)
  BY <1>1, OrderDomain DEF Order, Tracked
<1> HIDE DEF o, n, m
<1> DEFINE at(k) == IF k < p THEN k ELSE k + 1
<1>4. ASSUME NEW k \in 1 .. n - 1
      PROVE  /\ at(k) \in 1 .. m /\ at(k) # p /\ k \in 1 .. n /\ k # n
             /\ o[k] = lru[at(k)] /\ o[k] # s
  <2>1. k \in Int /\ 1 <= k /\ k <= n - 1 /\ p \in Int /\ 1 <= p /\ p <= n
    BY <1>1
  <2>2. at(k) \in 1 .. m /\ at(k) # p /\ k \in 1 .. n /\ k # n
    BY <1>1, <1>2, <1>3, <2>1
  <2>3. o[k] = lru[at(k)]
    BY <1>2
  <2>4. o[k] # s
    <3>1. CASE Tracked(s)
      <4>1. p \in 1 .. m /\ lru[p] = s
        BY <1>1, <1>2, <3>1
      <4>2. QED
        BY <1>3, <2>2, <2>3, <4>1
    <3>2. CASE ~Tracked(s)
      BY <1>3, <2>2, <2>3, <3>2
    <3>3. QED
      BY <3>1, <3>2
  <2>5. QED
    BY <2>2, <2>3, <2>4
<1>5. ASSUME NEW i \in 1 .. n, NEW j \in 1 .. n, o[i] = o[j]
      PROVE  i = j
  <2>1. i \in 1 .. n - 1 \/ i = n
    BY <1>1
  <2>2. j \in 1 .. n - 1 \/ j = n
    BY <1>1
  <2>3. CASE i \in 1 .. n - 1 /\ j \in 1 .. n - 1
    <3>1. lru[at(i)] = lru[at(j)] /\ at(i) \in 1 .. m /\ at(j) \in 1 .. m
      BY <1>4, <1>5, <2>3
    <3>2. at(i) = at(j)
      BY <1>3, <3>1
    <3>3. i \in Int /\ j \in Int /\ p \in Int
      BY <1>1
    <3>4. QED
      BY <3>2, <3>3
  <2>4. QED
    BY <1>1, <1>4, <1>5, <2>1, <2>2, <2>3
<1>6. Order(o)
  BY <1>1, <1>5 DEF Order, n
<1>7. ToSet(o) \subseteq ToSet(lru) \cup {s}
  <2> SUFFICES ASSUME NEW i \in 1 .. n PROVE o[i] \in ToSet(lru) \cup {s}
    BY <1>3
  <2>1. i \in 1 .. n - 1 \/ i = n
    BY <1>1
  <2>2. QED
    BY <1>1, <1>3, <1>4, <2>1
<1>8. s \in ToSet(o)
  BY <1>1, <1>3
<1>9. ASSUME NEW j \in 1 .. m, lru[j] # s PROVE lru[j] \in ToSet(o)
  <2> DEFINE k == IF j < p THEN j ELSE j - 1
  <2>1. j \in Int /\ 1 <= j /\ j <= m /\ p \in Int /\ 1 <= p /\ p <= n /\ n \in Int /\ m \in Int
    BY <1>1, <1>3
  <2>2. j # p
    <3>1. CASE Tracked(s)
      BY <1>2, <1>9, <3>1
    <3>2. CASE ~Tracked(s)
      BY <1>1, <1>2, <2>1, <3>2
    <3>3. QED
      BY <3>1, <3>2
  <2>3. k \in 1 .. n - 1 /\ at(k) = j
    <3>1. CASE Tracked(s)
      BY <1>1, <2>1, <2>2, <3>1
    <3>2. CASE ~Tracked(s)
      BY <1>1, <1>2, <2>1, <2>2, <3>2
    <3>3. QED
      BY <3>1, <3>2
  <2>4. QED
    BY <1>3, <1>4, <2>3
<1>a. ToSet(lru) \subseteq ToSet(o)
  <2> SUFFICES ASSUME NEW j \in 1 .. m PROVE lru[j] \in ToSet(o)
    BY <1>3
  <2>1. QED
    BY <1>8, <1>9
<1>10. ToSet(o) = ToSet(lru) \cup {s}
  BY <1>7, <1>8, <1>a
<1>11. Behind(o, s) = {}
  <2> SUFFICES ASSUME NEW k \in 1 .. n, NEW i \in 1 .. n, i < k, o[i] = s PROVE FALSE
    BY DEF Behind, n
  <2>1. i \in 1 .. n - 1
    BY <1>1
  <2>2. QED
    BY <1>4, <2>1
<1>12. ASSUME NEW r \in Sessions \ {s} PROVE Behind(o, r) \subseteq Behind(lru, r) \cup {s}
  <2> SUFFICES ASSUME NEW k \in 1 .. n, NEW i \in 1 .. n, i < k, o[i] = r, o[k] # s
               PROVE  o[k] \in Behind(lru, r)
    BY DEF Behind, n
  <2>1. k \in 1 .. n - 1 /\ i \in 1 .. n - 1
    BY <1>1
  <2>2. /\ o[k] = lru[at(k)] /\ at(k) \in 1 .. m
        /\ o[i] = lru[at(i)] /\ at(i) \in 1 .. m
    BY <1>4, <2>1
  <2>3. at(i) < at(k)
    <3>1. i \in Int /\ k \in Int /\ p \in Int
      BY <1>1
    <3>2. QED
      BY <3>1
  <2> HIDE DEF at
  <2>4. QED
    BY <2>2, <2>3 DEF Behind, m
<1>13. Len(o) <= m + 1 /\ (Tracked(s) => Len(o) = m)
  BY <1>1, <1>3 DEF n
<1>14. QED
  BY <1>1, <1>6, <1>10, <1>11, <1>12, <1>13 DEF o, n, m


\* Without its first place.
LEMMA TailOrder ==
    ASSUME NEW o, Order(o), o # <<>>
    PROVE  /\ Order(Tail(o)) /\ Len(Tail(o)) = Len(o) - 1
           /\ ToSet(Tail(o)) = ToSet(o) \ {o[1]}
           /\ \A r : Behind(Tail(o), r) \subseteq Behind(o, r)
<1> DEFINE x == Tail(o)
           n == Len(o)
<1>1. o \in Seq(Sessions) /\ \A i, j \in 1 .. n : o[i] = o[j] => i = j
  BY DEF Order
<1>2. /\ x \in Seq(Sessions) /\ Len(x) = n - 1
      /\ \A i \in 1 .. Len(x) : x[i] = o[i + 1]
  BY <1>1, HeadTailProperties
<1>3. n \in Nat \ {0} /\ ToSet(o) = {o[i] : i \in 1 .. n}
  BY <1>1, OrderDomain, EmptySeq
<1>4. ToSet(x) = {x[i] : i \in 1 .. n - 1}
  BY <1>2, OrderDomain
<1> HIDE DEF x, n
<1>5. ASSUME NEW i \in 1 .. n - 1
      PROVE  x[i] = o[i + 1] /\ i + 1 \in 1 .. n /\ x[i] # o[1]
  <2>1. i \in Int /\ 1 <= i /\ i + 1 \in 1 .. n /\ 1 \in 1 .. n /\ i + 1 # 1 /\ i \in 1 .. Len(x)
    BY <1>2, <1>3
  <2>2. x[i] = o[i + 1]
    BY <1>2, <2>1
  <2>3. QED
    BY <1>1, <2>1, <2>2
<1>6. Order(x)
  <2> SUFFICES ASSUME NEW i \in 1 .. n - 1, NEW j \in 1 .. n - 1, x[i] = x[j] PROVE i = j
    BY <1>2 DEF Order
  <2>1. i + 1 = j + 1
    BY <1>1, <1>5
  <2>2. QED
    BY <2>1
<1>7. ToSet(x) \subseteq ToSet(o) \ {o[1]}
  BY <1>3, <1>4, <1>5
<1>8. ToSet(o) \ {o[1]} \subseteq ToSet(x)
  <2> SUFFICES ASSUME NEW k \in 1 .. n, k # 1 PROVE o[k] \in ToSet(x)
    BY <1>3
  <2>1. k - 1 \in 1 .. n - 1 /\ (k - 1) + 1 = k
    BY <1>3
  <2>2. x[k - 1] = o[k]
    BY <1>5, <2>1
  <2>3. QED
    BY <1>4, <2>1, <2>2
<1>9. ASSUME NEW r PROVE Behind(x, r) \subseteq Behind(o, r)
  <2> SUFFICES ASSUME NEW k \in 1 .. n - 1, NEW i \in 1 .. n - 1, i < k, x[i] = r
               PROVE  x[k] \in Behind(o, r)
    BY <1>2 DEF Behind
  <2>1. /\ x[k] = o[k + 1] /\ k + 1 \in 1 .. n
        /\ x[i] = o[i + 1] /\ i + 1 \in 1 .. n /\ i + 1 < k + 1
    BY <1>5
  <2>2. QED
    BY <2>1 DEF Behind, n
<1>10. QED
  BY <1>2, <1>6, <1>7, <1>8, <1>9 DEF x, n

\* Whoever is first in an order that is too long has MaxRings others behind it.
LEMMA FirstIsOutlived ==
    ASSUME NEW o, Order(o), Len(o) > MaxRings,
           NEW R, IsFiniteSet(R), Behind(o, o[1]) \subseteq R
    PROVE  Cardinality(R) >= MaxRings
<1> DEFINE n == Len(o)
           f == [k \in 2 .. n |-> o[k]]
<1>1. /\ n \in Nat /\ MaxRings \in Nat \ {0} /\ n > MaxRings
      /\ \A i, j \in 1 .. n : o[i] = o[j] => i = j
  BY RingsAssumption, OrderDomain DEF Order
<1> HIDE DEF n
<1>2. ASSUME NEW k \in 2 .. n PROVE k \in 1 .. n /\ f[k] = o[k] /\ f[k] \in R
  <2>1. k \in 1 .. n /\ 1 \in 1 .. n /\ 1 < k
    BY <1>1
  <2>2. o[k] \in Behind(o, o[1])
    BY <2>1 DEF Behind, n
  <2>3. QED
    BY <2>1, <2>2
<1>3. f \in Injection(2 .. n, R)
  <2>1. f \in [2 .. n -> R]
    BY <1>2
  <2>2. IsInjective(f)
    BY <1>1, <1>2 DEF IsInjective
  <2>3. QED
    BY <2>1, <2>2 DEF Injection
<1>4. Cardinality(2 .. n) <= Cardinality(R)
  BY <1>3, FS_Injection
<1>5. Cardinality(2 .. n) = n - 1
  <2>1. 2 \in Int /\ n \in Int
    BY <1>1
  <2>2. QED
    BY <1>1, <2>1, FS_Interval
<1>6. Cardinality(R) \in Nat
  BY FS_CardinalityType
<1>7. QED
  BY <1>1, <1>4, <1>5, <1>6

\* What goes into a ring are vectors, and it is not empty then.
LEMMA InsertedRange ==
    ASSUME NEW b \in Nat, NEW x \in Seq(1 .. b), NEW v \in 1 .. b
    PROVE  Inserted(v, x) \in Seq(1 .. b) /\ Inserted(v, x) # <<>>
<1> DEFINE y == <<v>> \o x
           m == IF RingSize <= Len(y) THEN RingSize ELSE Len(y)
<1>1. <<v>> \in Seq(1 .. b) /\ Len(<<v>>) = 1 /\ Len(x) \in Nat
  BY LenProperties
<1>2. y \in Seq(1 .. b) /\ Len(y) = 1 + Len(x)
  BY <1>1, ConcatProperties
<1> HIDE DEF y
<1>3. RingSize \in Nat \ {0}
  BY RingsAssumption
<1>4. m \in Nat \ {0} /\ m <= Len(y) /\ Len(y) \in Nat
  BY <1>1, <1>2, <1>3
<1>5. Inserted(v, x) = SubSeq(y, 1, m)
  BY DEF Inserted, Newest, y
<1> HIDE DEF m
<1>6. \A i \in 1 .. m : y[i] \in 1 .. b
  <2> SUFFICES ASSUME NEW i \in 1 .. m PROVE y[i] \in 1 .. b
    OBVIOUS
  <2>1. i \in 1 .. Len(y)
    BY <1>4
  <2>2. QED
    BY <1>2, <2>1, ElementOfSeq
<1>7. m \in Int /\ 1 \in Int
  BY <1>4
<1>8. /\ SubSeq(y, 1, m) \in Seq(1 .. b)
      /\ Len(SubSeq(y, 1, m)) = IF 1 <= m THEN m - 1 + 1 ELSE 0
  BY <1>6, <1>7, SubSeqProperties
<1>9. Len(SubSeq(y, 1, m)) # 0
  BY <1>4, <1>8
<1>10. QED
  BY <1>5, <1>8, <1>9, EmptySeq

\* A use that is noted adds the session to the rivals of the turns of others.
LEMMA NotingRivals ==
    ASSUME ConvoShapes, NEW s \in Sessions, NEW u \in Turns, IsFiniteSet(turn[u].rivals)
    PROVE  LET R == Noting(s)[u].rivals
           IN  /\ IsFiniteSet(R) /\ turn[u].rivals \subseteq R
               /\ Cardinality(turn[u].rivals) \in Nat /\ Cardinality(R) \in Nat
               /\ Cardinality(turn[u].rivals) <= Cardinality(R)
               /\ Pending(u) /\ turn[u].session # s => s \in R
<1> DEFINE Q == turn[u].rivals
           R == Noting(s)[u].rivals
<1>1. /\ R = Q \cup {s} \/ R = Q
      /\ Pending(u) /\ turn[u].session # s => R = Q \cup {s}
  BY DEF Noting, ConvoShapes, Pending
<1> HIDE DEF Q, R
<1>2. IsFiniteSet(Q)
  BY DEF Q
<1>3. IsFiniteSet(R) /\ Q \subseteq R
  BY <1>1, <1>2, FS_AddElement
<1>4. Cardinality(Q) <= Cardinality(R) /\ Cardinality(Q) \in Nat /\ Cardinality(R) \in Nat
  BY <1>2, <1>3, FS_Subset, FS_CardinalityType
<1>5. QED
  BY <1>1, <1>3, <1>4 DEF Q, R

\* The session of a turn in progress, when any session is used.
LEMMA UsedKeeps ==
    ASSUME ConvoIInv, LruInv, NEW s \in Sessions, NEW u \in Turns,
           Pending(u), turn[u].snapshot # <<>>
    PROVE  LET R == Noting(s)[u].rivals
           IN  \/ Cardinality(R) >= MaxRings
               \/ /\ turn[u].session \in ToSet(Touched(s))
                  /\ Behind(Touched(s), turn[u].session) \subseteq R
<1> DEFINE R == Noting(s)[u].rivals
           r == turn[u].session
<1>1. ConvoShapes /\ Kept(u) /\ Order(lru) /\ r \in Sessions /\ MaxRings \in Nat
  BY RingsAssumption DEF ConvoIInv, LruInv, OwnVectors
<1>2. /\ turn[u].rivals \subseteq R
      /\ Cardinality(turn[u].rivals) \in Nat /\ Cardinality(R) \in Nat
      /\ Cardinality(turn[u].rivals) <= Cardinality(R)
      /\ r # s => s \in R
  BY <1>1, NotingRivals DEF Kept
<1>3. /\ ToSet(Touched(s)) = ToSet(lru) \cup {s}
      /\ Behind(Touched(s), s) = {}
      /\ r # s => Behind(Touched(s), r) \subseteq Behind(lru, r) \cup {s}
  BY <1>1, TouchedOrder
<1> HIDE DEF R
<1>4. CASE Cardinality(turn[u].rivals) >= MaxRings
  BY <1>1, <1>2, <1>4 DEF R
<1>5. CASE r \in ToSet(lru) /\ Behind(lru, r) \subseteq turn[u].rivals
  BY <1>2, <1>3, <1>5 DEF R
<1>6. QED
  BY <1>1, <1>4, <1>5 DEF Kept, Tracked

-----------------------------------------------------------------------------
LEMMA LruStarts == ConvoInit => LruInv
<1> SUFFICES ASSUME ConvoInit PROVE LruInv
  OBVIOUS
<1>1. lru = <<>> /\ Order(lru) /\ Len(lru) <= MaxRings /\ ToSet(lru) = {}
  BY RingsAssumption DEF ConvoInit, Order, ToSet
<1>2. \A s \in Sessions : ring[s] \in Seq(1 .. begun) /\ (ring[s] # <<>> <=> Tracked(s))
  BY <1>1 DEF ConvoInit, Tracked
<1>3. \A t \in Turns : Kept(t)
  BY FS_EmptySet DEF ConvoInit, NoTurn, Kept, Pending
<1>4. begun \in 0 .. MaxPushes
  BY RingsAssumption DEF ConvoInit
<1>5. QED
  BY <1>1, <1>2, <1>3, <1>4 DEF LruInv

\* A new turn finds its session at the end of the order.
LEMMA GetRingOrders ==
    ASSUME ConvoIInv, LruInv, NEW t \in Turns, NEW s \in Sessions, GetRing(t, s)
    PROVE  LruInv'
<1> DEFINE new == [NoTurn EXCEPT !.session = s, !.step = "mix",
                                 !.vec = begun + 1, !.snapshot = ring[s]]
<1>1. /\ begun < MaxPushes /\ begun' = begun + 1 /\ UNCHANGED ring
      /\ turn' = [(IF Tracked(s) THEN Noting(s) ELSE turn) EXCEPT ![t] = new]
      /\ lru' = IF Tracked(s) THEN Touched(s) ELSE lru
  BY DEF GetRing
<1>2. /\ new.session = s /\ new.step = "mix" /\ new.vec = begun + 1 /\ new.snapshot = ring[s]
      /\ new.rivals = {}
  BY DEF NoTurn
<1> HIDE DEF new
<1>3. /\ ConvoShapes /\ Order(lru) /\ Len(lru) <= MaxRings /\ begun \in Nat /\ MaxPushes \in Nat
      /\ \A r \in Sessions : ring[r] \in Seq(1 .. begun) /\ (ring[r] # <<>> <=> Tracked(r))
      /\ \A u \in Turns : Kept(u)
  BY RingsAssumption DEF ConvoIInv, LruInv
<1>4. /\ turn'[t] = new
      /\ \A u \in Turns \ {t} : turn'[u] = IF Tracked(s) THEN Noting(s)[u] ELSE turn[u]
  BY <1>1, <1>3, NotingKeeps DEF ConvoShapes
<1>5. Order(lru') /\ Len(lru') <= MaxRings /\ ToSet(lru') = ToSet(lru)
  <2>1. CASE Tracked(s)
    <3>1. /\ Order(Touched(s)) /\ Len(Touched(s)) = Len(lru)
          /\ ToSet(Touched(s)) = ToSet(lru) \cup {s}
      BY <1>3, <2>1, TouchedOrder
    <3>2. s \in ToSet(lru)
      BY <2>1 DEF Tracked
    <3>3. lru' = Touched(s)
      BY <1>1, <2>1
    <3>4. QED
      BY <1>3, <3>1, <3>2, <3>3
  <2>2. CASE ~Tracked(s)
    BY <1>1, <1>3, <2>2
  <2>3. QED
    BY <2>1, <2>2
<1>a. Order(lru)' /\ (Len(lru) <= MaxRings)'
  BY <1>5 DEF Order
<1>b. \A r \in Sessions : ring'[r] \in Seq(1 .. begun') /\ (ring'[r] # <<>> <=> Tracked(r)')
  <2> SUFFICES ASSUME NEW r \in Sessions
               PROVE  ring'[r] \in Seq(1 .. begun') /\ (ring'[r] # <<>> <=> Tracked(r)')
    OBVIOUS
  <2>1. 1 .. begun \subseteq 1 .. begun'
    BY <1>1, <1>3
  <2>2. Tracked(r)' <=> Tracked(r)
    BY <1>5 DEF Tracked
  <2>3. QED
    BY <1>1, <1>3, <2>1, <2>2
<1>c. \A u \in Turns : Kept(u)'
  <2> SUFFICES ASSUME NEW u \in Turns PROVE Kept(u)'
    OBVIOUS
  <2>1. CASE u = t
    <3>1. IsFiniteSet(turn'[u].rivals) /\ turn'[u].vec \in 1 .. begun'
      <4>1. turn'[u].rivals = {} /\ turn'[u].vec = begun + 1
        BY <1>2, <1>4, <2>1
      <4>2. begun + 1 \in 1 .. begun'
        BY <1>1, <1>3
      <4>3. QED
        BY <4>1, <4>2, FS_EmptySet
    <3>2. turn'[u].session = s /\ turn'[u].snapshot = ring[s]
      BY <1>2, <1>4, <2>1
    <3>3. CASE Tracked(s)
      <4>1. lru' = Touched(s) /\ Behind(lru', s) = {} /\ s \in ToSet(lru')
        BY <1>1, <1>3, <3>3, TouchedOrder
      <4>2. Tracked(turn[u].session)' /\ Behind(lru', turn'[u].session) \subseteq turn'[u].rivals
        BY <3>2, <4>1 DEF Tracked
      <4>3. QED
        BY <3>1, <4>2 DEF Kept, Pending, Behind
    <3>4. CASE ~Tracked(s)
      BY <1>3, <3>1, <3>2, <3>4 DEF Kept
    <3>5. QED
      BY <3>3, <3>4
  <2>2. CASE u # t /\ Tracked(s)
    <3>1. turn'[u] = Noting(s)[u] /\ lru' = Touched(s)
      BY <1>1, <1>4, <2>2
    <3>2. /\ turn'[u].session = turn[u].session /\ turn'[u].step = turn[u].step
          /\ turn'[u].vec = turn[u].vec /\ turn'[u].snapshot = turn[u].snapshot
      BY <1>3, <3>1, NotingKeeps
    <3>3. IsFiniteSet(turn'[u].rivals)
      BY <1>3, <3>1, NotingRivals DEF Kept
    <3>4. Pending(u)' => turn'[u].vec \in 1 .. begun'
      BY <1>1, <1>3, <3>2 DEF Kept, Pending
    <3>5. ASSUME Pending(u)', turn'[u].snapshot # <<>>
          PROVE  \/ Cardinality(turn'[u].rivals) >= MaxRings
                 \/ /\ Tracked(turn[u].session)'
                    /\ Behind(lru', turn'[u].session) \subseteq turn'[u].rivals
      <4>1. Pending(u) /\ turn[u].snapshot # <<>>
        BY <3>2, <3>5 DEF Pending
      <4>2. QED
        BY <3>1, <3>2, <4>1, UsedKeeps DEF Tracked
    <3>6. QED
      BY <3>3, <3>4, <3>5 DEF Kept, Behind
  <2>3. CASE u # t /\ ~Tracked(s)
    <3>1. turn'[u] = turn[u] /\ lru' = lru
      BY <1>1, <1>4, <2>3
    <3>2. Kept(u)
      BY <1>3
    <3>3. Pending(u) => turn[u].vec \in 1 .. begun'
      BY <1>1, <1>3, <3>2 DEF Kept
    <3>4. QED
      BY <3>1, <3>2, <3>3 DEF Kept, Pending, Behind, Tracked
  <2>4. QED
    BY <2>1, <2>2, <2>3
<1>d. (begun \in 0 .. MaxPushes)'
  BY <1>1, <1>3
<1>e. QED
  BY <1>a, <1>b, <1>c, <1>d DEF LruInv

LEMMA MixOrders ==
    ASSUME ConvoIInv, LruInv, NEW t \in Turns, Mix(t)
    PROVE  LruInv'
<1>1. /\ turn[t].step = "mix" /\ UNCHANGED <<lru, ring, begun>>
      /\ turn' = [turn EXCEPT ![t].step = "push",
                              ![t].mixed = <<turn[t].vec>> \o Newest(turn[t].snapshot, RingSize - 1)]
  BY DEF Mix
<1>2. ConvoShapes /\ Order(lru)
  BY DEF ConvoIInv, LruInv
<1>3. \A u \in Turns : /\ turn'[u].session = turn[u].session /\ turn'[u].vec = turn[u].vec
                       /\ turn'[u].snapshot = turn[u].snapshot
                       /\ turn'[u].rivals = turn[u].rivals
                       /\ Pending(u)' <=> Pending(u)
  BY <1>1, <1>2 DEF ConvoShapes, Pending
<1>4. \A u \in Turns : Kept(u)'
  <2> SUFFICES ASSUME NEW u \in Turns PROVE Kept(u)'
    OBVIOUS
  <2>1. Kept(u)
    BY DEF LruInv
  <2>2. lru' = lru /\ begun' = begun /\ turn'[u].session = turn[u].session
    BY <1>1, <1>3
  <2>3. Behind(lru', turn'[u].session) = Behind(lru, turn[u].session)
    BY <2>2
  <2>4. Tracked(turn[u].session)' <=> Tracked(turn[u].session)
    BY <2>2 DEF Tracked
  <2>5. (Behind(lru, turn[u].session) \subseteq turn[u].rivals)'
           <=> Behind(lru, turn[u].session) \subseteq turn[u].rivals
    <3>1. turn'[u].rivals = turn[u].rivals
      BY <1>3
    <3>2. QED
      BY <2>3, <3>1 DEF Behind
  <2>6. QED
    BY <1>3, <2>1, <2>2, <2>4, <2>5 DEF Kept
<1>5. Order(lru)'
  BY <1>1, <1>2 DEF Order
<1>6. QED
  BY <1>1, <1>4, <1>5 DEF LruInv, Tracked

\* The session that is evicted is not the one that pushes, and a turn in
\* progress loses its session only to MaxRings rivals.
LEMMA PushOrders ==
    ASSUME ConvoIInv, LruInv, NEW t \in Turns, Push(t)
    PROVE  LruInv'
<1> DEFINE s == turn[t].session
           v == turn[t].vec
           o == Touched(s)
           E == IF Len(o) > MaxRings THEN {o[1]} ELSE {}
<1>1. /\ lru' = IF E = {} THEN o ELSE Tail(o)
      /\ ring' = [r \in Sessions |->
             IF r \in E THEN <<>> ELSE IF r = s THEN Inserted(v, ring[s]) ELSE ring[r]]
      /\ turn' = [Noting(s) EXCEPT ![t] = NoTurn]
      /\ turn[t].step = "push" /\ begun' = begun
  BY DEF Push
<1>2. Pending(t) /\ s \in Sessions
  BY <1>1 DEF ConvoIInv, OwnVectors, Pending
<1>3. /\ ConvoShapes /\ Order(lru) /\ Len(lru) <= MaxRings /\ begun \in Nat
      /\ MaxRings \in Nat \ {0} /\ Len(lru) \in Nat
      /\ \A r \in Sessions : ring[r] \in Seq(1 .. begun) /\ (ring[r] # <<>> <=> Tracked(r))
      /\ \A u \in Turns : Kept(u)
      /\ v \in 1 .. begun
  BY <1>2, RingsAssumption, OrderDomain DEF ConvoIInv, LruInv, Order, Kept
<1>4. /\ Order(o) /\ Len(o) \in Nat \ {0} /\ o[Len(o)] = s /\ Len(o) <= Len(lru) + 1
      /\ ToSet(o) = ToSet(lru) \cup {s}
  BY <1>2, <1>3, TouchedOrder
<1>5. /\ turn'[t].step = "idle" /\ turn'[t].rivals = {}
      /\ \A u \in Turns \ {t} : turn'[u] = Noting(s)[u]
  BY <1>1, <1>2, <1>3, NotingKeeps DEF NoTurn
<1>u. \A u \in Turns : Pending(u) /\ turn[u].snapshot # <<>> =>
          \/ Cardinality(Noting(s)[u].rivals) >= MaxRings
          \/ /\ turn[u].session \in ToSet(o)
             /\ Behind(o, turn[u].session) \subseteq Noting(s)[u].rivals
  BY <1>2, UsedKeeps
<1> HIDE DEF o, v, s
<1>6. /\ o # <<>>
      /\ Order(lru') /\ Len(lru') <= MaxRings
      /\ ToSet(lru') = (ToSet(lru) \cup {s}) \ E
      /\ \A r : Behind(lru', r) \subseteq Behind(o, r)
      /\ s \notin E
  <2>1. o # <<>>
    BY <1>4, EmptySeq
  <2>2. CASE Len(o) > MaxRings
    <3>1. lru' = Tail(o) /\ E = {o[1]}
      BY <1>1, <2>2
    <3>2. o[1] # s
      <4>1. 1 \in 1 .. Len(o) /\ Len(o) \in 1 .. Len(o) /\ 1 # Len(o)
        BY <1>3, <1>4, <2>2
      <4>2. QED
        BY <1>4, <4>1 DEF Order
    <3>3. /\ Order(Tail(o)) /\ Len(Tail(o)) = Len(o) - 1
          /\ ToSet(Tail(o)) = ToSet(o) \ {o[1]}
          /\ \A r : Behind(Tail(o), r) \subseteq Behind(o, r)
      BY <1>4, <2>1, TailOrder
    <3>4. Len(o) - 1 <= MaxRings
      BY <1>3, <1>4
    <3>5. QED
      BY <1>4, <2>1, <3>1, <3>2, <3>3, <3>4
  <2>3. CASE ~(Len(o) > MaxRings)
    <3>1. lru' = o /\ E = {} /\ Len(o) <= MaxRings
      BY <1>1, <1>3, <1>4, <2>3
    <3>2. QED
      BY <1>4, <2>1, <3>1
  <2>4. QED
    BY <2>2, <2>3
<1>a. Order(lru)' /\ (Len(lru) <= MaxRings)'
  BY <1>6 DEF Order
<1>b. \A r \in Sessions : ring'[r] \in Seq(1 .. begun') /\ (ring'[r] # <<>> <=> Tracked(r)')
  <2> SUFFICES ASSUME NEW r \in Sessions
               PROVE  ring'[r] \in Seq(1 .. begun') /\ (ring'[r] # <<>> <=> Tracked(r)')
    OBVIOUS
  <2>1. /\ ring'[r] = IF r \in E THEN <<>> ELSE IF r = s THEN Inserted(v, ring[s]) ELSE ring[r]
        /\ Tracked(r)' <=> r \in (ToSet(lru) \cup {s}) \ E
    BY <1>1, <1>6 DEF Tracked
  <2> HIDE DEF E
  <2>2. CASE r \in E
    BY <2>1, <2>2
  <2>3. CASE r \notin E /\ r = s
    <3>1. Inserted(v, ring[s]) \in Seq(1 .. begun) /\ Inserted(v, ring[s]) # <<>>
      BY <1>2, <1>3, InsertedRange
    <3>2. QED
      BY <1>1, <2>1, <2>3, <3>1
  <2>4. CASE r \notin E /\ r # s
    BY <1>1, <1>3, <2>1, <2>4 DEF Tracked
  <2>5. QED
    BY <2>2, <2>3, <2>4
<1>c. \A u \in Turns : Kept(u)'
  <2> SUFFICES ASSUME NEW u \in Turns PROVE Kept(u)'
    OBVIOUS
  <2>1. CASE u = t
    BY <1>5, <2>1, FS_EmptySet DEF Kept, Pending
  <2>2. CASE u # t
    <3> DEFINE R == Noting(s)[u].rivals
               r == turn[u].session
    <3>1. /\ turn'[u].session = r /\ turn'[u].step = turn[u].step
          /\ turn'[u].vec = turn[u].vec /\ turn'[u].snapshot = turn[u].snapshot
          /\ turn'[u].rivals = R
      BY <1>2, <1>3, <1>5, <2>2, NotingKeeps
    <3>2. IsFiniteSet(R)
      BY <1>2, <1>3, NotingRivals DEF Kept
    <3>3. Pending(u)' => turn'[u].vec \in 1 .. begun'
      BY <1>1, <1>3, <3>1 DEF Kept, Pending
    <3>4. ASSUME Pending(u)', turn'[u].snapshot # <<>>
          PROVE  \/ Cardinality(R) >= MaxRings
                 \/ Tracked(turn[u].session)' /\ Behind(lru', r) \subseteq R
      <4>1. Pending(u) /\ turn[u].snapshot # <<>>
        BY <3>1, <3>4 DEF Pending
      <4>2. \/ Cardinality(R) >= MaxRings
            \/ r \in ToSet(o) /\ Behind(o, r) \subseteq R
        BY <1>u, <4>1
      <4> HIDE DEF R, r
      <4>3. ASSUME r \in ToSet(o), Behind(o, r) \subseteq R, r \in E
            PROVE  Cardinality(R) >= MaxRings
        <5>1. Len(o) > MaxRings /\ r = o[1]
          BY <4>3
        <5>2. QED
          BY <1>4, <3>2, <4>3, <5>1, FirstIsOutlived
      <4>4. ASSUME r \in ToSet(o), Behind(o, r) \subseteq R, r \notin E
            PROVE  r \in ToSet(lru') /\ Behind(lru', r) \subseteq R
        BY <1>4, <1>6, <4>4
      <4>5. QED
        BY <3>1, <4>2, <4>3, <4>4 DEF Tracked
    <3> HIDE DEF R
    <3>5. QED
      BY <3>1, <3>2, <3>3, <3>4 DEF Kept, Behind
  <2>3. QED
    BY <2>1, <2>2
<1>d. (begun \in 0 .. MaxPushes)'
  BY <1>1 DEF LruInv
<1>e. QED
  BY <1>a, <1>b, <1>c, <1>d DEF LruInv

LEMMA LruStep == ConvoIInv /\ LruInv /\ [ConvoNext]_convoVars => LruInv'
<1> SUFFICES ASSUME ConvoIInv, LruInv, [ConvoNext]_convoVars PROVE LruInv'
  OBVIOUS
<1>1. CASE UNCHANGED convoVars
  BY <1>1 DEF convoVars, LruInv, Order, Kept, Pending, Tracked, Behind
<1>2. QED
  BY <1>1, GetRingOrders, MixOrders, PushOrders DEF ConvoNext

LEMMA LruAlways == ConvoSpec => []LruInv
BY ConvoAlways, LruStarts, LruStep, PTL DEF ConvoSpec

\* Every variable keeps its type; no more than MaxRings sessions are tracked,
\* and a session is tracked exactly as long as its ring holds a vector.
THEOREM ConvoTypeCorrect == ConvoSpec => []ConvoTypeOK
<1>1. ConvoIInv /\ LruInv => ConvoTypeOK
  <2> SUFFICES ASSUME ConvoIInv, LruInv PROVE ConvoTypeOK
    OBVIOUS
  <2>1. lru \in Seq(Sessions) /\ DOMAIN lru = 1 .. Len(lru)
    BY OrderDomain DEF LruInv, Order
  <2>2. \A t \in Turns : /\ turn[t].session \in Sessions \cup {NoSession}
                         /\ turn[t].step \in {"idle", "mix", "push"}
    BY DEF ConvoIInv, ConvoShapes
  <2>3. QED
    BY <2>1, <2>2 DEF ConvoTypeOK, LruInv, Order
<1>2. QED
  BY <1>1, ConvoAlways, LruAlways, PTL

\* A session is not evicted between get_ring and push, unless MaxRings other
\* sessions are used in between.
THEOREM PendingTurnsKeepRings == ConvoSpec => []PendingTurnKeepsRing
<1>1. ConvoIInv /\ LruInv => PendingTurnKeepsRing
  <2> SUFFICES ASSUME LruInv, NEW t \in Turns, Pending(t), turn[t].snapshot # <<>>,
                      Cardinality(turn[t].rivals) < MaxRings
               PROVE  Tracked(turn[t].session)
    BY DEF PendingTurnKeepsRing, Pending
  <2>1. Kept(t) /\ Cardinality(turn[t].rivals) \in Nat /\ MaxRings \in Nat
    BY FS_CardinalityType, RingsAssumption DEF LruInv, Kept
  <2>2. ~(Cardinality(turn[t].rivals) >= MaxRings)
    BY <2>1
  <2>3. QED
    BY <2>1, <2>2 DEF Kept
<1>2. QED
  BY <1>1, ConvoAlways, LruAlways, PTL

=============================================================================
