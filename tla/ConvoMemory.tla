----------------------------- MODULE ConvoMemory ----------------------------
(***************************************************************************)
(* Conversational memory: the ambient pipeline reads the ring of a session *)
(* (get_ring), mixes the current query vector with the older ones of the   *)
(* snapshot, and puts the current vector into the ring (push).  The two    *)
(* calls lock _RINGS one at a time, so turns of the same and of other      *)
(* sessions come between them.                                             *)
(***************************************************************************)
EXTENDS Integers, FiniteSets, SequencesExt

CONSTANTS
    Turns,      \* threads that serve turns
    Sessions,
    NoSession,
    RingSize,   \* _RING_SIZE
    MaxRings,   \* _MAX_RINGS
    MaxPushes   \* bound: turns begun

ASSUME SessionsAssumption == NoSession \notin Sessions
ASSUME RingsAssumption == RingSize \in Nat \ {0} /\ MaxRings \in Nat \ {0} /\ MaxPushes \in Nat

VARIABLES
    lru,        \* the sessions in _RINGS, least recently used first
    ring,       \* the vectors of each, newest first
    turn,       \* per thread: session, step, query vector, snapshot, mixture
    begun,      \* query vectors so far; they are numbered
    log         \* history: what each session has pushed since it is tracked, newest first

convoVars == <<lru, ring, turn, begun, log>>

NoTurn == [session |-> NoSession, step |-> "idle", vec |-> 0,
           snapshot |-> <<>>, mixed |-> <<>>, rivals |-> {}]

ConvoInit ==
    /\ lru = <<>>
    /\ ring = [s \in Sessions |-> <<>>]
    /\ turn = [t \in Turns |-> NoTurn]
    /\ begun = 0
    /\ log = [s \in Sessions |-> <<>>]

-----------------------------------------------------------------------------
Newest(s, n) == SubSeq(s, 1, IF n <= Len(s) THEN n ELSE Len(s))

Tracked(s) == s \in ToSet(lru)

\* Mutant: a session that is used again is not taken from its old place.
TouchedTwice(s) == Append(lru, s)

Place(s) == CHOOSE i \in DOMAIN lru : lru[i] = s

\* move_to_end, or the insertion of a new key.
Touched(s) == Append(IF Tracked(s) THEN RemoveAt(lru, Place(s)) ELSE lru, s)

\* History: turns between get_ring and push note which other sessions are used.
Noting(s) == [t \in Turns |-> IF turn[t].step # "idle" /\ turn[t].session # s
                              THEN [turn[t] EXCEPT !.rivals = @ \cup {s}] ELSE turn[t]]

\* Mutant: reading a ring does not count as using it.
GetRingNoTouch(t, s) ==
    /\ turn[t].step = "idle"
    /\ begun < MaxPushes
    /\ begun' = begun + 1
    /\ turn' = [Noting(s) EXCEPT ![t] = [NoTurn EXCEPT !.session = s, !.step = "mix",
                                             !.vec = begun + 1, !.snapshot = ring[s]]]
    /\ UNCHANGED <<lru, ring, log>>

\* The query is encoded, and the ring of its session copied if there is one.
GetRing(t, s) ==
    /\ turn[t].step = "idle"
    /\ begun < MaxPushes
    /\ begun' = begun + 1
    /\ turn' = [(IF Tracked(s) THEN Noting(s) ELSE turn)
                    EXCEPT ![t] = [NoTurn EXCEPT !.session = s, !.step = "mix",
                                                 !.vec = begun + 1, !.snapshot = ring[s]]]
    /\ lru' = IF Tracked(s) THEN Touched(s) ELSE lru
    /\ UNCHANGED <<ring, log>>

\* Mutant: get_ring returns the list itself.
MixLive(t) ==
    /\ turn[t].step = "mix"
    /\ turn' = [turn EXCEPT ![t].step = "push",
                            ![t].mixed = <<turn[t].vec>> \o Newest(ring[turn[t].session], RingSize - 1)]
    /\ UNCHANGED <<lru, ring, begun, log>>

\* mix_with_history: the current vector and as many older ones as have weights.
Mix(t) ==
    /\ turn[t].step = "mix"
    /\ turn' = [turn EXCEPT ![t].step = "push",
                            ![t].mixed = <<turn[t].vec>> \o Newest(turn[t].snapshot, RingSize - 1)]
    /\ UNCHANGED <<lru, ring, begun, log>>

\* Mutant: the ring is cut before the vector goes in.
InsertedCutFirst(vec, vecs) == <<vec>> \o Newest(vecs, RingSize)

\* The vector goes in front, and the oldest one drops off.
Inserted(vec, vecs) == Newest(<<vec>> \o vecs, RingSize)

\* The session becomes the last one to be evicted; when it is one too many,
\* the first one is.
Push(t) ==
    /\ turn[t].step = "push"
    /\ LET s       == turn[t].session
           order   == Touched(s)
           evicted == IF Len(order) > MaxRings THEN {order[1]} ELSE {}
       IN  /\ lru' = IF evicted = {} THEN order ELSE Tail(order)
           /\ ring' = [r \in Sessions |->
                  IF r \in evicted THEN <<>>
                  ELSE IF r = s THEN Inserted(turn[t].vec, ring[s]) ELSE ring[r]]
           /\ log' = [r \in Sessions |->
                  IF r \in evicted THEN <<>>
                  ELSE IF r = s THEN <<turn[t].vec>> \o log[s] ELSE log[r]]
           /\ turn' = [Noting(s) EXCEPT ![t] = NoTurn]
    /\ UNCHANGED begun

ConvoNext == \E t \in Turns : \/ \E s \in Sessions : GetRing(t, s)
                              \/ Mix(t) \/ Push(t)

ConvoSpec == ConvoInit /\ [][ConvoNext]_convoVars

-----------------------------------------------------------------------------
\* Every variable has its type; _RINGS is bounded.
ConvoTypeOK ==
    /\ lru \in Seq(Sessions) /\ Len(lru) <= MaxRings
    /\ \A i, j \in DOMAIN lru : lru[i] = lru[j] => i = j
    /\ \A s \in Sessions : ring[s] \in Seq(1 .. begun) /\ (ring[s] # <<>> <=> Tracked(s))
    /\ \A t \in Turns : /\ turn[t].session \in Sessions \cup {NoSession}
                        /\ turn[t].step \in {"idle", "mix", "push"}
    /\ begun \in 0 .. MaxPushes

\* However the turns of a session interleave, its ring holds the last vectors
\* pushed since the session is tracked, the newest in front.
RingIsLatest == \A s \in Sessions : ring[s] = Newest(log[s], RingSize)

\* What is mixed into a query are at most RingSize vectors, none twice, and all
\* but its own of turns that began before it; none of them is in what another
\* session has pushed since it is tracked.
MixesOnlyThePast ==
    \A t \in Turns : turn[t].step = "push" =>
        LET m == turn[t].mixed
        IN  /\ Len(m) <= RingSize
            /\ \A i \in 2 .. Len(m) :
                  /\ m[i] < turn[t].vec
                  /\ \A s \in Sessions \ {turn[t].session} : m[i] \notin ToSet(log[s])
            /\ IsInjective(m)

\* "So an actively-read session isn't evicted out from under a pending push":
\* between get_ring and push a session with a ring keeps it unless MaxRings
\* other sessions are used in the meantime.
PendingTurnKeepsRing ==
    \A t \in Turns :
        /\ turn[t].step # "idle" /\ turn[t].snapshot # <<>>
        /\ Cardinality(turn[t].rivals) < MaxRings
        => Tracked(turn[t].session)

=============================================================================
