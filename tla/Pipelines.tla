----------------------------- MODULE Pipelines ------------------------------
(***************************************************************************)
(* One query on its way through rag_search (ExplicitPipeline) or through   *)
(* the hook before an LLM call (AmbientPipeline), over a catalog that an   *)
(* indexer goes on changing.  The engine ranks the chunk ids it has        *)
(* loaded; what a chunk id and a parent id stand for is asked of SQLite    *)
(* later, in three reads with ranking and reranking between them.          *)
(*                                                                         *)
(* Rankings and scores are arbitrary, but for their order.  What models,   *)
(* HTTP services and the LLM answer is arbitrary, and they do answer.      *)
(***************************************************************************)
EXTENDS Integers, FiniteSets, SequencesExt

CONSTANTS
    Files,        \* the files that are indexed
    Layout,       \* per file, the ordinal of the parent of each of its chunks
    Ks,           \* the values of k that are asked for
    ChunkPool,    \* RAG_SEARCH_CHUNK_POOL, k_pool
    ParentPool,   \* RAG_SEARCH_PARENT_POOL, AMBIENT_RERANK_POOL
    TopParents,   \* AMBIENT_TOP_PARENTS
    MaxVariants,  \* variants expand_query makes of a query
    MaxIndices,   \* bound: indices in range a reranking service sends
    MaxCommits    \* bound: transactions of the indexer

ASSUME LayoutAssumption == Layout \in [Files -> Seq(Nat \ {0})]
ASSUME KsAssumption == Ks \subseteq Int
ASSUME PoolsAssumption == {ChunkPool, ParentPool, TopParents, MaxVariants} \subseteq Nat \ {0}
ASSUME CommitsAssumption == MaxCommits \in Nat
ASSUME IndicesAssumption == MaxIndices \in Nat

VARIABLES
    db,         \* the catalog: parent rows, and the parent of each chunk
    commits,    \* how many transactions made it
    ids,        \* the chunk ids the engine has loaded
    idsOf,      \* history: the number of commits they were read after
    pc,         \* the next step of the query, "idle" when it is answered
    call,       \* which pipeline, with what k and top, in which pass
    todo,       \* variants not yet searched
    legIds,     \* chunk ids loaded when the BM25 leg of a variant looked its up
    found,      \* chunk ids in the rankings so far
    ranked,     \* the fused ranking
    owners,     \* ids of the parents that own the ranked chunks, best first
    ownersAt,   \* history: the number of commits they were read after
    parents,    \* their ParentResults, best first
    ranker,     \* what has ordered them last
    first,      \* parents of the first pass, when there is a second one
    answer,     \* how the query ended and with which parents
    obeyed,     \* history: no service has ranked parents twice or too many
    clean,      \* history: the ids of this pass were current and still are
    during      \* history: parent rows committed at some time in this query

indexVars == <<db, commits, ids, idsOf>>
searchVars == <<todo, legIds, found>>
queryVars == <<pc, call, searchVars, ranked, owners, ownersAt, parents, ranker, first, answer,
               obeyed>>
vars == <<indexVars, queryVars, clean, during>>

AtMost(a, b) == IF a <= b THEN a ELSE b

Take(s, n) == SubSeq(s, 1, AtMost(n, Len(s)))

Ascending(s) == \A i, j \in DOMAIN s : i < j => s[i] < s[j]

-----------------------------------------------------------------------------
(* The indexer's transactions, and the engine's loads. *)

ParentRows == [file : Files, rev : 0 .. MaxCommits, ord : Nat]

RowsOf(catalog) == {<<p, catalog.parents[p]>> : p \in DOMAIN catalog.parents}

Catalogued == {db.parents[p].file : p \in DOMAIN db.parents}

Restricted(f, S) == [x \in S |-> f[x]]

LastId(S) == CHOOSE id \in S \cup {0} : \A other \in S : other <= id

Commit(catalog) ==
    /\ commits < MaxCommits
    /\ db' = catalog
    /\ commits' = commits + 1
    /\ clean' = FALSE
    /\ during' = IF pc = "idle" THEN during ELSE during \cup RowsOf(catalog)
    /\ UNCHANGED <<ids, idsOf, queryVars>>

\* Parents and chunks go with their files.
DeleteFiles(gone) ==
    LET kept == {p \in DOMAIN db.parents : db.parents[p].file \notin gone}
    IN  /\ gone # {} /\ gone \subseteq Catalogued
        /\ Commit([parents |-> Restricted(db.parents, kept),
                   chunks  |-> Restricted(db.chunks, {c \in DOMAIN db.chunks :
                                                        db.chunks[c] \in kept})])

\* A file comes with all its parents and chunks, under the next free ids: ids
\* at the end of a table are handed out again after a delete.
InsertFile(file) ==
    LET p0  == LastId(DOMAIN db.parents)
        c0  == LastId(DOMAIN db.chunks)
        new == {p0 + Layout[file][i] : i \in DOMAIN Layout[file]}
        end == c0 + Len(Layout[file])
    IN  /\ file \notin Catalogued
        /\ Commit([parents |-> [p \in DOMAIN db.parents \cup new |->
                      IF p \in new THEN [file |-> file, rev |-> commits, ord |-> p - p0]
                                   ELSE db.parents[p]],
                   chunks  |-> [c \in DOMAIN db.chunks \cup (c0 + 1 .. end) |->
                      IF c > c0 THEN p0 + Layout[file][c - c0] ELSE db.chunks[c]]])

\* The engine loads for whatever thread notices a new version.
Reload ==
    /\ idsOf # commits
    /\ ids' = DOMAIN db.chunks
    /\ idsOf' = commits
    /\ UNCHANGED <<db, commits, queryVars, clean, during>>

-----------------------------------------------------------------------------
(* The query *)

NoCall == [kind |-> "none", k |-> 1, top |-> 1, pass |-> 1]

Init ==
    /\ db = [parents |-> [p \in {} |-> 0], chunks |-> [c \in {} |-> 0]]
    /\ commits = 0
    /\ ids = {}
    /\ idsOf = 0
    /\ pc = "idle"
    /\ call = NoCall
    /\ todo = 0
    /\ legIds = {}
    /\ found = {}
    /\ ranked = <<>>
    /\ owners = <<>>
    /\ ownersAt = 0
    /\ parents = <<>>
    /\ ranker = "none"
    /\ first = <<>>
    /\ answer = [status |-> "none", parents |-> <<>>]
    /\ obeyed = TRUE
    /\ clean = TRUE
    /\ during = {}

\* Mutant: k is clamped from above only.
ClampedTop(k) == AtMost(k, ParentPool)

\* tool_rag_search's clamp.
Clamped(k) == IF k < 1 THEN 1 ELSE AtMost(k, ParentPool)

\* The locals of a pass with n variants to search.
Locals(n) ==
    /\ todo' = n
    /\ legIds' = {}
    /\ found' = {}
    /\ ranked' = <<>>
    /\ owners' = <<>>
    /\ ownersAt' = 0
    /\ parents' = <<>>
    /\ ranker' = "none"
    /\ clean' = TRUE

\* A pass starts with as many variants of its query as the expansion made.
StartPass(c, n) == pc' = "search" /\ call' = c /\ Locals(n)

\* Mutant: the pipeline keeps the parents of its last query.
NewQueryKeepsFirst ==
    /\ pc = "idle"
    /\ first' = first
    /\ answer' = [status |-> "none", parents |-> <<>>]
    /\ obeyed' = TRUE
    /\ during' = RowsOf(db)
    /\ UNCHANGED indexVars

NewQuery ==
    /\ pc = "idle"
    /\ first' = <<>>
    /\ answer' = [status |-> "none", parents |-> <<>>]
    /\ obeyed' = TRUE
    /\ during' = RowsOf(db)
    /\ UNCHANGED indexVars

RagSearch(k, n) ==
    /\ NewQuery
    /\ StartPass([kind |-> "explicit", k |-> Clamped(k), top |-> ParentPool, pass |-> 1], n)

\* has_embeddings, then one search for the message itself.
AmbientTurn ==
    /\ NewQuery
    /\ ids # {}
    /\ StartPass([kind |-> "ambient", k |-> TopParents, top |-> ParentPool, pass |-> 1], 1)

Move(step) == pc' = step /\ UNCHANGED <<indexVars, call, first, answer, during>>

\* The query is answered.
Finish(status, results) ==
    /\ pc' = "idle"
    /\ answer' = [status |-> status, parents |-> results]
    /\ UNCHANGED <<indexVars, call, first, during>>

\* The locals of a pass go; those of one that gives parents are kept for the
\* properties.
Forget == Locals(0) /\ UNCHANGED obeyed

\* One variant: its BM25 leg looks up what it has scored.
SearchBm25 ==
    /\ pc = "search"
    /\ todo > 0
    /\ legIds' = ids
    /\ clean' = (clean /\ idsOf = commits)
    /\ Move("dense")
    /\ UNCHANGED <<todo, found, ranked, owners, ownersAt, parents, ranker, obeyed>>

\* Then its dense leg does, and the variant has its ranking, of some of the ids
\* that were loaded at one of the two moments.
SearchDense ==
    /\ pc = "dense"
    /\ \E ranking \in SUBSET (legIds \cup ids) :
          Cardinality(ranking) <= ChunkPool /\ found' = found \cup ranking
    /\ legIds' = {}
    /\ todo' = todo - 1
    /\ clean' = (clean /\ idsOf = commits)
    /\ Move("search")
    /\ UNCHANGED <<ranked, owners, ownersAt, parents, ranker, obeyed>>

\* The index is refused, an array has been swapped under the search, or SQLite
\* raises: both callers catch it.  Reranking and judging raise nothing.
QueryRaises ==
    /\ pc \in {"search", "dense", "owners", "rows", "rehydrate"}
    /\ Finish("error", <<>>)
    /\ Forget

\* Mutant: an empty second pass is the answer.
EndPassTakesRetry(results) ==
    IF call.kind = "explicit" /\ call.pass = 1 /\ results # <<>>
    THEN \/ Finish("ok", results)
         \/ pc' = "judge" /\ first' = results /\ UNCHANGED <<indexVars, call, answer, during>>
    ELSE Finish("ok", results)

\* Mutant: the parents of the rewritten query are judged too.
EndPassAlwaysJudges(results) ==
    IF call.kind = "explicit" /\ results # <<>>
    THEN \/ Finish("ok", results)
         \/ pc' = "judge" /\ first' = results /\ UNCHANGED <<indexVars, call, answer, during>>
    ELSE Finish("ok", IF results = <<>> THEN first ELSE results)

\* What becomes of the parents of a pass: the answer, or, in the first pass
\* with CRAG on, the excerpts for the judge.  An empty second pass gives way
\* to the first one.
EndPass(results) ==
    IF call.kind = "explicit" /\ call.pass = 1 /\ results # <<>>
    THEN \/ Finish("ok", results)
         \/ pc' = "judge" /\ first' = results /\ UNCHANGED <<indexVars, call, answer, during>>
    ELSE Finish("ok", IF results = <<>> THEN first ELSE results)

\* rrf_fuse over the variants, and the best of the fused map.
Fuse ==
    /\ pc = "search"
    /\ todo = 0
    /\ IF found = {}
       THEN EndPass(<<>>) /\ UNCHANGED ranked
       ELSE /\ \E order \in SetToSeqs(found) : ranked' = Take(order, ChunkPool)
            /\ Move("owners")
    /\ UNCHANGED <<searchVars, owners, ownersAt, parents, ranker, obeyed, clean>>

\* Mutant: every chunk brings its parent along.
OwnersPerChunk ==
    /\ pc = "owners"
    /\ LET known == SelectSeq(ranked, LAMBDA c : c \in DOMAIN db.chunks)
       IN  owners' = Take([i \in DOMAIN known |-> db.chunks[known[i]]], call.top)
    /\ ownersAt' = commits
    /\ Move("rows")
    /\ UNCHANGED <<searchVars, ranked, parents, ranker, obeyed, clean>>

\* The first read, parent_ids_for_chunks, and the MAX rollup: a parent ranks
\* where its best chunk does.
BestRank(p) == CHOOSE i \in DOMAIN ranked :
                  /\ ranked[i] \in DOMAIN db.chunks /\ db.chunks[ranked[i]] = p
                  /\ \A j \in 1 .. i - 1 :
                        ranked[j] \in DOMAIN db.chunks => db.chunks[ranked[j]] # p

\* Mutant: a ranking is read up to the first chunk that has gone.
OwnersUpToVanished ==
    /\ pc = "owners"
    /\ \E order \in SetToSeqs({db.chunks[ranked[i]] : i \in
                 {j \in DOMAIN ranked : \A h \in 1 .. j : ranked[h] \in DOMAIN db.chunks}}) :
          /\ Ascending([i \in DOMAIN order |-> BestRank(order[i])])
          /\ owners' = Take(order, call.top)
    /\ ownersAt' = commits
    /\ Move("rows")
    /\ UNCHANGED <<searchVars, ranked, parents, ranker, obeyed, clean>>

Owners ==
    /\ pc = "owners"
    /\ \E order \in SetToSeqs({db.chunks[c] : c \in ToSet(ranked) \cap DOMAIN db.chunks}) :
          /\ Ascending([i \in DOMAIN order |-> BestRank(order[i])])
          /\ owners' = Take(order, call.top)
    /\ ownersAt' = commits
    /\ Move("rows")
    /\ UNCHANGED <<searchVars, ranked, parents, ranker, obeyed, clean>>

\* A ParentResult: title, kind and path are those of head, and text is that of
\* the row it was read from, cut short unless full.
Result(p, row) == [id |-> p, head |-> row, text |-> row, full |-> FALSE]

\* The second read, get_parents with the text cut short.
FetchRows ==
    LET known == {i \in DOMAIN owners : owners[i] \in DOMAIN db.parents}
    IN  /\ pc = "rows"
        /\ IF known = {}
           THEN EndPass(<<>>) /\ UNCHANGED parents
           ELSE \E kept \in SetToSeqs(known) :
                   /\ Ascending(kept)
                   /\ parents' = [i \in DOMAIN kept |->
                                     Result(owners[kept[i]], db.parents[owners[kept[i]]])]
                   /\ Move("rerank")
        /\ UNCHANGED <<searchVars, ranked, owners, ownersAt, ranker, obeyed, clean>>

Kept == AtMost(call.k, Len(parents))

\* order: the positions of the parents that stay, best first.
Reranked(by, order) ==
    /\ parents' = [i \in DOMAIN order |-> parents[order[i]]]
    /\ ranker' = by
    /\ obeyed' = (obeyed /\ IsInjective(order) /\ Len(order) <= Kept)
    /\ Move(IF call.kind = "ambient" THEN "gate" ELSE "rehydrate")
    /\ UNCHANGED <<searchVars, ranked, owners, ownersAt, clean>>

\* The service is asked for top_n = Kept indices, and whatever it sends in
\* range is taken, repeated or too many as it may be; without a single good
\* one it counts as not having answered.
CohereRanks ==
    /\ pc = "rerank"
    /\ call.kind = "explicit"
    /\ \E n \in 1 .. MaxIndices : \E order \in [1 .. n -> DOMAIN parents] :
          Reranked("cohere", order)

LocalRanks ==
    /\ pc = "rerank"
    /\ \E order \in SetToSeqs(DOMAIN parents) : Reranked("local", Take(order, Kept))

\* Neither reranker could be asked.
IdentityRanks ==
    /\ pc = "rerank"
    /\ Reranked("identity", [i \in 1 .. Kept |-> i])

\* AMBIENT_SCORE_THRESHOLD: an RRF score, of two rankings, is far below it.
Gate ==
    /\ pc = "gate"
    /\ \/ /\ ranker # "identity"
          /\ Move("rehydrate")
          /\ UNCHANGED <<searchVars, ranked, owners, ownersAt, parents, ranker, obeyed, clean>>
       \/ Finish("declined", <<>>) /\ Forget

\* Mutant: the full rows are matched up by position.
RehydrateByPosition ==
    /\ pc = "rehydrate"
    /\ LET byId == SetToSortSeq({parents[i].id : i \in DOMAIN parents}, LAMBDA p, q : p < q)
       IN  EndPass([i \in DOMAIN parents |->
               IF i \in DOMAIN byId /\ byId[i] \in DOMAIN db.parents
               THEN [parents[i] EXCEPT !.text = db.parents[byId[i]], !.full = TRUE]
               ELSE parents[i]])
    /\ UNCHANGED <<searchVars, ranked, owners, ownersAt, parents, ranker, obeyed, clean>>

\* The third read, get_parents with the whole text; a parent that has gone
\* keeps the text it has.
Rehydrate ==
    /\ pc = "rehydrate"
    /\ EndPass([i \in DOMAIN parents |->
           IF parents[i].id \in DOMAIN db.parents
           THEN [parents[i] EXCEPT !.text = db.parents[parents[i].id], !.full = TRUE]
           ELSE parents[i]])
    /\ UNCHANGED <<searchVars, ranked, owners, ownersAt, parents, ranker, obeyed, clean>>

\* Sufficient, unavailable, unreadable, or without a usable rewrite.
JudgeAccepts ==
    /\ pc = "judge"
    /\ Finish("ok", first)
    /\ UNCHANGED <<searchVars, ranked, owners, ownersAt, parents, ranker, obeyed, clean>>

\* The rewritten query gets a pass of its own, the last one.
JudgeRetries(n) ==
    /\ pc = "judge"
    /\ StartPass([call EXCEPT !.pass = 2], n)
    /\ UNCHANGED <<indexVars, first, answer, obeyed, during>>

-----------------------------------------------------------------------------
Step == \/ SearchBm25 \/ SearchDense \/ QueryRaises \/ Fuse
        \/ Owners \/ FetchRows
        \/ CohereRanks \/ LocalRanks \/ IdentityRanks
        \/ Gate \/ Rehydrate
        \/ JudgeAccepts \/ \E n \in 1 .. MaxVariants : JudgeRetries(n)

Environment == \/ \E gone \in SUBSET Files : DeleteFiles(gone)
               \/ \E file \in Files : InsertFile(file)
               \/ Reload

Ask == AmbientTurn \/ \E k \in Ks, n \in 1 .. MaxVariants : RagSearch(k, n)

Next == Environment \/ Ask \/ Step

\* A query that has been taken up goes on: what it calls returns or raises.
Spec == Init /\ [][Next]_vars /\ WF_vars(Step)

-----------------------------------------------------------------------------
Steps == {"search", "dense", "owners", "rows", "rerank", "gate", "rehydrate", "judge"}

IsResult(r) == /\ r = [id |-> r.id, head |-> r.head, text |-> r.text, full |-> r.full]
               /\ r.id \in Nat /\ r.head \in ParentRows /\ r.text \in ParentRows
               /\ r.full \in BOOLEAN

\* Every variable has its type.
TypeOK ==
    /\ \A p \in DOMAIN db.parents : p \in Nat \ {0} /\ db.parents[p] \in ParentRows
    /\ \A c \in DOMAIN db.chunks : c \in Nat \ {0} /\ db.chunks[c] \in DOMAIN db.parents
    /\ commits \in 0 .. MaxCommits /\ idsOf \in 0 .. commits
    /\ ids \subseteq Nat /\ legIds \subseteq Nat /\ found \subseteq Nat
    /\ pc \in Steps \cup {"idle"}
    /\ call.k \in 1 .. ParentPool \cup {TopParents} /\ ownersAt \in 0 .. commits
    /\ todo \in 0 .. MaxVariants
    /\ ToSet(ranked) \subseteq found
    /\ \A i \in DOMAIN first : IsResult(first[i])
    /\ \A i \in DOMAIN answer.parents : IsResult(answer.parents[i])
    /\ answer.status \in {"none", "ok", "error", "declined"}
    /\ obeyed \in BOOLEAN /\ clean \in BOOLEAN

Answered == pc = "idle" /\ answer.status = "ok"

Results == answer.parents

\* The parents a search over the catalog as it stands would have to return.
Matched == {db.chunks[c] : c \in ToSet(ranked) \cap DOMAIN db.chunks}

\* When no transaction has come between the load of the ids and the answer,
\* every result is a parent of a ranked chunk with its own head and its whole
\* text; no reranker but the service has dropped one of the k best, and the
\* service has not dropped all of them; and without a reranker the parent of
\* the best chunk leads.
QuietSearchIsExact ==
    Answered /\ clean /\ found # {} =>
        /\ Results # <<>>
        /\ \A i \in DOMAIN Results :
              LET r == Results[i]
              IN  /\ r.id \in Matched
                  /\ r.head = db.parents[r.id] /\ r.text = r.head /\ r.full
        /\ ranker # "cohere" =>
              Len(Results) = AtMost(call.k, AtMost(call.top, Cardinality(Matched)))
        /\ ranker = "identity" => Results[1].id = db.chunks[ranked[1]]

\* A parent row that was there when the owners were read, and still is.
Lasting(p) == p \in DOMAIN db.parents /\ db.parents[p].rev < ownersAt

Returned == {Results[i].id : i \in DOMAIN Results}

\* Stale ids cost only themselves: whatever versions of the index the legs and
\* the variants have ranked chunks of, and whatever has been deleted or come
\* under the same id meanwhile, a parent that lasts and owns a ranked chunk is
\* an owner, unless these are as many as they may be, and a lasting owner is
\* returned, unless k parents are or the service has left it out.
LastingParentsAreFound ==
    Answered =>
        /\ \A c \in ToSet(ranked) \cap DOMAIN db.chunks :
              Lasting(db.chunks[c]) => \/ db.chunks[c] \in ToSet(owners)
                                      \/ Len(owners) = call.top
        /\ ranker # "cohere" /\ Len(Results) # call.k =>
              \A p \in ToSet(owners) : Lasting(p) => p \in Returned

\* A second pass never costs the caller the parents of the first.
RetryNeverLosesResults == Answered /\ first # <<>> => Results # <<>>

\* Of services that send no index twice and no more than they are asked for
\* (_try_cohere checks neither), and of the code's own rankers, the caller gets
\* at most k parents, none twice: however the chunks were ranked, the owners
\* are distinct, and k is within what a call can ask for.
DistinctWithinK ==
    Answered /\ obeyed =>
        /\ Len(Results) <= call.k
        /\ \A i, j \in DOMAIN Results : Results[i].id = Results[j].id => i = j

\* However the reads fall between the transactions, nothing older than the
\* query comes back: path and text of every result were committed under its
\* id while the query was running.
AnswersAreCommitted ==
    Answered => \A i \in DOMAIN Results :
                   LET r == Results[i]
                   IN  <<r.id, r.head>> \in during /\ <<r.id, r.text>> \in during

\* Every query is answered, after one retry at most.
SearchEnds == pc # "idle" ~> pc = "idle"

-----------------------------------------------------------------------------
(* What a doc string says and the code does not do. *)

\* rehydrate_parent_text: "Replace each parent's (possibly truncated) text
\* with the full SQLite copy"; of a parent that has gone, "Keep the truncated
\* version".
TextIsOfItsFile ==
    Answered => \A i \in DOMAIN Results : Results[i].text.file = Results[i].head.file

=============================================================================
