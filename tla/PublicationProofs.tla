------------------------- MODULE PublicationProofs --------------------------
(***************************************************************************)
(* What follows from Publication alone.  The argument is about the two     *)
(* sides and not about their actions: the writer never leaves an index at  *)
(* rest without a new version (WriterAnnounces), the reader takes up       *)
(* nothing but newer versions (ReaderAdvances), and whatever it does it    *)
(* ends with a view that is right for the last one (ReaderEndsFresh).      *)
(***************************************************************************)
EXTENDS Publication, TLAPS

\* A step of the directory's side, and one of the engine's.
WriterStep == Write \/ Publish
ReaderStep == Load \/ \E v \in 0 .. version : Serve(v)

\* Every step is one of the writer, one of the reader, or leaves all as it is.
LEMMA SidesTakeTurns == [Next]_vars <=> WriterStep \/ ReaderStep \/ UNCHANGED vars
BY DEF Next, WriterStep, ReaderStep

\* The writer touches nothing of the reader's, never lowers the version, and
\* an index comes to rest only with a version nobody has seen.
LEMMA WriterAnnounces ==
    ASSUME PublicationTypeOK, WriterStep
    PROVE  /\ UNCHANGED <<serving, served, view>>
           /\ rest' \in BOOLEAN
           /\ version' \in Nat
           /\ version <= version'
           /\ rest' => version < version'
<1>kept. UNCHANGED <<serving, served, view>>
  BY DEF WriterStep, Write, Publish
<1>a. CASE Write
  <2> ~rest' /\ rest' \in BOOLEAN /\ version' = version
    BY <1>a DEF Write
  <2> QED
    BY <1>kept DEF PublicationTypeOK
<1>b. CASE Publish
  <2> rest' \in BOOLEAN /\ version' = version + 1
    BY <1>b DEF Publish
  <2> QED
    BY <1>kept DEF PublicationTypeOK
<1> QED
  BY <1>a, <1>b DEF WriterStep

\* The reader touches nothing of the writer's, and it adds to what it has
\* served at most a published version above all the others.
LEMMA ReaderAdvances ==
    ASSUME PublicationTypeOK, ReaderStep
    PROVE  /\ UNCHANGED <<version, rest, index>>
           /\ served' \subseteq 0 .. version
           /\ serving' \in served' \cup {None}
           /\ \A new \in served' \ served, old \in served : old < new
<1>a. CASE Load
  BY <1>a DEF Load, PublicationTypeOK
<1>b. CASE \E v \in 0 .. version : Serve(v)
  <2>pick. PICK v \in 0 .. version : Serve(v)
    BY <1>b
  <2>added. /\ served' = served \cup {v}
            /\ serving' = v
            /\ \A old \in served : old < v
            /\ UNCHANGED <<version, rest, index>>
    BY <2>pick DEF Serve
  <2> QED
    BY <2>added DEF PublicationTypeOK
<1> QED
  BY <1>a, <1>b DEF ReaderStep

\* A load gives up the version it serves or keeps an old one; a version taken
\* up while it is the last brings the index with it.  The view before the step
\* plays no part in this.
LEMMA ReaderEndsFresh ==
    ASSUME None \notin Nat, PublicationTypeOK, ReaderStep
    PROVE  rest /\ serving' = version => view' = index
<1>a. CASE Load
  <2> serving' # version
    BY <1>a DEF Load, PublicationTypeOK
  <2> QED
    OBVIOUS
<1>b. CASE \E v \in 0 .. version : Serve(v)
  BY <1>b DEF Serve
<1> QED
  BY <1>a, <1>b DEF ReaderStep

LEMMA PublicationTyped == Spec => []PublicationTypeOK
<1>start. Init => PublicationTypeOK
  BY DEF Init, PublicationTypeOK
<1>step. ASSUME PublicationTypeOK, [Next]_vars PROVE PublicationTypeOK'
  <2>w. ASSUME WriterStep PROVE PublicationTypeOK'
    <3>up. version' \in Nat /\ version <= version' /\ rest' \in BOOLEAN
      BY <1>step, <2>w, WriterAnnounces
    <3>kept. served' = served /\ serving' = serving
      BY <1>step, <2>w, WriterAnnounces
    <3>wider. 0 .. version \subseteq 0 .. version'
      BY <1>step, <3>up DEF PublicationTypeOK
    <3> QED
      BY <1>step, <3>up, <3>kept, <3>wider DEF PublicationTypeOK
  <2>r. ReaderStep => PublicationTypeOK'
    BY <1>step, ReaderAdvances DEF PublicationTypeOK
  <2>s. UNCHANGED vars => PublicationTypeOK'
    BY <1>step DEF PublicationTypeOK, vars
  <2> QED
    BY <1>step, <2>w, <2>r, <2>s, SidesTakeTurns
<1> QED
  BY <1>start, <1>step, PTL DEF Spec

\* A reader that follows Publication answers from the index whenever the last
\* version is the one it serves.
THEOREM PublicationIsFresh == ASSUME None \notin Nat PROVE Spec => []Fresh
<1>start. Init => Fresh
  BY DEF Init, Fresh
<1>step. ASSUME PublicationTypeOK, Fresh, [Next]_vars PROVE Fresh'
  \* What the reader serves is a version that is out, so it cannot be the one
  \* that has just announced the index.
  <2>w. ASSUME WriterStep, rest' PROVE serving' # version'
    <3>out. serving \in 0 .. version \/ serving = None
      BY <1>step DEF PublicationTypeOK
    <3>new. serving' = serving /\ version < version' /\ version' \in Nat
      BY <1>step, <2>w, WriterAnnounces
    <3> QED
      BY <1>step, <3>out, <3>new DEF PublicationTypeOK
  <2>r. ReaderStep => Fresh'
    BY <1>step, ReaderAdvances, ReaderEndsFresh DEF Fresh
  <2>s. UNCHANGED vars => Fresh'
    BY <1>step DEF Fresh, vars
  <2> QED
    BY <1>step, <2>w, <2>r, <2>s, SidesTakeTurns DEF Fresh
<1> QED
  BY <1>start, <1>step, PublicationTyped, PTL DEF Spec

\* Versions are served in the order they are published, and never again.
THEOREM PublicationServesInOrder ==
    Spec => [][\A v \in served' \ served, u \in served : u < v]_vars
<1>step. ASSUME PublicationTypeOK, [Next]_vars
         PROVE  [\A v \in served' \ served, u \in served : u < v]_vars
  BY <1>step, SidesTakeTurns, WriterAnnounces, ReaderAdvances
<1> QED
  BY <1>step, PublicationTyped, PTL DEF Spec

=============================================================================
