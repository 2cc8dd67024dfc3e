------------------------------- MODULE Fusion -------------------------------
(***************************************************************************)
(* The two algorithms in front of the rollup: expand_query makes variants  *)
(* of a query out of what a model answers, and hybrid_search_chunk_ids     *)
(* ranks chunks by the reciprocal ranks (RRF) they have in two lists, by   *)
(* BM25 and by cosine.                                                     *)
(*                                                                         *)
(* A string is what it reads when it is stripped and lowercased.  Scores   *)
(* are small numbers; a reciprocal rank is multiplied by Scale, so that    *)
(* sums of them are exact.                                                 *)
(***************************************************************************)
EXTENDS Integers, FiniteSets, SequencesExt

CONSTANTS
    Chunks,         \* rows of the index
    Scores,         \* scores a chunk can get
    LegPool,        \* 2 * k_pool
    FusedPool,      \* k_pool
    RRFK,           \* RRF_K
    Scale,          \* a common multiple of RRFK + 1 .. RRFK + LegPool
    Texts,          \* what a model can write
    Query,          \* the text of the query
    NoText,         \* blank, or not a string
    MaxParaphrases, \* 3
    MaxWritten      \* bound: paraphrases a model writes

ASSUME ChunksAssumption == IsFiniteSet(Chunks) /\ Scores \subseteq Nat
ASSUME FusionPoolsAssumption == {LegPool, FusedPool, RRFK} \subseteq Nat \ {0}

\* 60 and 60 in the code.
ASSUME PoolWithinK == LegPool <= RRFK + 1

ASSUME ScaleAssumption == Scale \in Nat \ {0} /\ \A r \in 1 .. LegPool : Scale % (RRFK + r) = 0
ASSUME TextsAssumption == Query \in Texts /\ NoText \notin Texts
ASSUME ParaphrasesAssumption == MaxParaphrases \in Nat /\ MaxWritten \in Nat

VARIABLES
    expansion,  \* how far expand_query is: "idle", "reading", "done"
    reply,      \* what the model has written: paraphrases and a HyDE text
    unread,     \* paraphrases the loop has not come to
    variants,   \* what expand_query returns
    legs,       \* the rankings by BM25 and by cosine, as far as they are there
    fused       \* the ranking they are fused into

expansionVars == <<expansion, reply, unread, variants>>
legVars == <<legs, fused>>
fusionVars == <<expansionVars, legVars>>

Nothing == [paraphrases |-> <<>>, hyde |-> NoText]

FusionInit ==
    /\ expansion = "idle"
    /\ reply = Nothing
    /\ unread = <<>>
    /\ variants = <<>>
    /\ legs = <<>>
    /\ fused = <<>>

-----------------------------------------------------------------------------
(* expand_query *)

Strings == Texts \cup {NoText}

Idle == expansion = "idle" /\ legs = <<>>

\* Mutant: the paraphrases are counted before the duplicates are dropped.
AskModelCapFirst ==
    /\ Idle
    /\ \E n \in 0 .. MaxWritten, hyde \in Strings : \E ps \in [1 .. n -> Strings] :
          /\ reply' = [paraphrases |-> ps, hyde |-> hyde]
          /\ unread' = SubSeq(ps, 1, IF n <= MaxParaphrases THEN n ELSE MaxParaphrases)
    /\ variants' = <<Query>>
    /\ expansion' = "reading"
    /\ UNCHANGED legVars

\* The model answers, and the query is the first variant.
AskModel ==
    /\ Idle
    /\ \E n \in 0 .. MaxWritten, hyde \in Strings : \E ps \in [1 .. n -> Strings] :
          /\ reply' = [paraphrases |-> ps, hyde |-> hyde]
          /\ unread' = ps
    /\ variants' = <<Query>>
    /\ expansion' = "reading"
    /\ UNCHANGED legVars

\* Without a client, or when the call or the parsing raises, there is the
\* query only.
NoModel ==
    /\ Idle
    /\ variants' = <<Query>>
    /\ expansion' = "done"
    /\ UNCHANGED <<reply, unread, legVars>>

Useful(p) == p # NoText /\ p \notin ToSet(variants)

WithUseful(p) == IF Useful(p) THEN Append(variants, p) ELSE variants

\* kept: the query is not counted.
EnoughKept == Len(variants) > MaxParaphrases

\* A paraphrase is a variant when it is a text that is none yet.
ReadParaphrase ==
    /\ expansion = "reading" /\ unread # <<>> /\ ~EnoughKept
    /\ variants' = WithUseful(Head(unread))
    /\ unread' = Tail(unread)
    /\ UNCHANGED <<expansion, reply, legVars>>

\* So is the HyDE text, after the paraphrases.
ReadHyde ==
    /\ expansion = "reading" /\ (unread = <<>> \/ EnoughKept)
    /\ variants' = WithUseful(reply.hyde)
    /\ expansion' = "done"
    /\ UNCHANGED <<reply, unread, legVars>>

-----------------------------------------------------------------------------
(* hybrid_search_chunk_ids *)

AtTop(s, n) == SubSeq(s, 1, IF n <= Len(s) THEN n ELSE Len(s))

\* _top_k_descending: the k best, equal ones in any order.
TopK(S, score, k) ==
    {order \in UNION {SetToSeqs(T) : T \in kSubset(IF k <= Cardinality(S) THEN k ELSE Cardinality(S), S)} :
        /\ \A i, j \in DOMAIN order : i < j => score[order[i]] >= score[order[j]]
        /\ \A c \in S \ ToSet(order), d \in ToSet(order) : score[d] >= score[c]}

Position(ranking, c) == CHOOSE i \in DOMAIN ranking : ranking[i] = c

Share(c, ranking) == IF c \in ToSet(ranking) THEN Scale \div (RRFK + Position(ranking, c)) ELSE 0

\* Mutant: ranks are added up as they are.
ReciprocalSumOfRanks(c, rankings) ==
    LET share(r) == IF c \in ToSet(r) THEN LegPool + 1 - Position(r, c) ELSE 0
    IN  share(rankings[1]) + share(rankings[2])

\* rrf_fuse, of the two rankings.
Reciprocal(c, rankings) == Share(c, rankings[1]) + Share(c, rankings[2])

Met(rankings) == ToSet(rankings[1]) \cup ToSet(rankings[2])

\* Where in the map a chunk is: the map is filled ranking by ranking.
FirstMet(c, rankings) ==
    IF c \in ToSet(rankings[1]) THEN Position(rankings[1], c)
    ELSE Len(rankings[1]) + Position(rankings[2], c)

\* heapq.nlargest: of equal ones, the one that was met first.
Best(order, rankings) ==
    LET score == [c \in Met(rankings) |-> Reciprocal(c, rankings)]
        met   == [c \in Met(rankings) |-> FirstMet(c, rankings)]
    IN  \A i, j \in DOMAIN order : i < j =>
            \/ score[order[i]] > score[order[j]]
            \/ score[order[i]] = score[order[j]] /\ met[order[i]] < met[order[j]]

\* _bm25_topk leaves out what no token of the query is in: the last ones.
BM25Leg(order, score) == AtTop(order, Cardinality({i \in DOMAIN order : score[order[i]] > 0}))

SearchBM25 ==
    /\ Idle
    /\ \E score \in [Chunks -> Scores] : \E order \in TopK(Chunks, score, LegPool) :
          legs' = <<BM25Leg(order, score)>>
    /\ UNCHANGED <<expansionVars, fused>>

\* There may be no vector for the query, or one of another dimension.
SearchDense ==
    /\ Len(legs) = 1
    /\ \/ \E score \in [Chunks -> Scores] : \E order \in TopK(Chunks, score, LegPool) :
             legs' = Append(legs, order)
       \/ legs' = Append(legs, <<>>)
    /\ UNCHANGED <<expansionVars, fused>>

FuseLegs ==
    /\ Len(legs) = 2 /\ fused = <<>>
    /\ \E order \in SetToSeqs(Met(legs)) :
          Best(order, legs) /\ fused' = AtTop(order, FusedPool)
    /\ UNCHANGED <<expansionVars, legs>>

FusionNext == \/ AskModel \/ NoModel \/ ReadParaphrase \/ ReadHyde
              \/ SearchBM25 \/ SearchDense \/ FuseLegs

FusionSpec == FusionInit /\ [][FusionNext]_fusionVars

-----------------------------------------------------------------------------
\* Every search round of an expanded query is for another text, the first for
\* the query itself, and no duplicate costs one: a model that repeats itself
\* still contributes as many paraphrases as it has written different ones, up
\* to the cap.
VariantsAreUseful ==
    LET useful == ToSet(reply.paraphrases) \ {Query, NoText}
        used   == useful \cap ToSet(variants)
    IN  expansion = "done" =>
           /\ variants[1] = Query
           /\ Len(variants) <= MaxParaphrases + 2
           /\ IsInjective(variants)
           /\ Cardinality(used) >= IF Cardinality(useful) <= MaxParaphrases
                                   THEN Cardinality(useful) ELSE MaxParaphrases

Ahead(c, d, r) == c \in ToSet(r) /\ (d \in ToSet(r) => Position(r, c) < Position(r, d))

\* A chunk that both legs rank above another one is above it in the result.
AgreementIsKept ==
    \A c, d \in Chunks :
        /\ fused # <<>> /\ c # d /\ d \in ToSet(fused)
        /\ \A i \in 1 .. 2 : Ahead(c, d, legs[i])
        => Ahead(c, d, fused)

\* A chunk that both legs have found is above every chunk that only one has,
\* wherever they are in the lists: the pools are not longer than RRF_K + 1.
BothLegsBeatOne ==
    \A c, d \in Chunks :
        /\ fused # <<>> /\ c \in ToSet(legs[1]) \cap ToSet(legs[2])
        /\ d \in ToSet(fused) /\ d \notin ToSet(legs[1]) \cap ToSet(legs[2])
        => Ahead(c, d, fused)

=============================================================================
