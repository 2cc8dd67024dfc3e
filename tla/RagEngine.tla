------------------------------ MODULE RagEngine ------------------------------
(***************************************************************************)
(* The RAGEngine singleton (engine.py) of a process that answers queries   *)
(* on several threads, next to the process that runs the indexer           *)
(* (IndexStore).  The two share the data directory and nothing else: the   *)
(* engine notices a new index by the index_version row, which it caches    *)
(* for one second, and then reads the vectors, the chunk ids and the BM25  *)
(* state one after the other under its lock.  Searches read them without   *)
(* the lock.                                                               *)
(***************************************************************************)
EXTENDS IndexStore

CONSTANTS
    Threads,      \* the threads of the process that call hybrid_search
    EngineModel   \* the embedding model this process is configured with

ASSUME EngineModelAssumption == EngineModel \in Models
ASSUME ThreadsAssumption == Absent \notin Threads

VARIABLES
    loaded,         \* _loaded
    loadedVersion,  \* _loaded_version
    emb,            \* _embeddings: the embeddings.npz they were read from
    ids,            \* _chunk_ids: the chunk table whose ids they are
    bm25,           \* _bm25: the chunk table its statistics are of
    cached,         \* _version_cache
    fresh,          \* whether _version_cache_ts is less than a TTL ago
    lock,           \* the thread that holds _lock, or Absent
    tpc,            \* each thread's next step
    tver,           \* current_version, a local of _ensure_loaded
    tread,          \* what it has read and not yet cached: "none", "live",
                    \* or "late" once a TTL has passed since the clock reading
    scored,         \* rows the thread has scored and not yet mapped to ids
    loadsOf         \* history: how often each version has been loaded

engineVars == <<loaded, loadedVersion, emb, ids, bm25, cached, fresh, lock,
                tpc, tver, tread, scored, loadsOf>>

vars == <<indexVars, engineVars>>

Versions == 0 .. MaxRuns

EngineInit ==
    /\ loaded = FALSE
    /\ loadedVersion = Absent
    /\ emb = Absent
    /\ ids = NoChunks
    /\ bm25 = Absent
    /\ cached = Absent
    /\ fresh = FALSE
    /\ lock = Absent
    /\ tpc = [t \in Threads |-> "idle"]
    /\ tver = [t \in Threads |-> 0]
    /\ tread = [t \in Threads |-> "none"]
    /\ scored = [t \in Threads |-> Absent]
    /\ loadsOf = [v \in Versions |-> 0]

Goto(t, step) == tpc' = [tpc EXCEPT ![t] = step]

\* _ensure_loaded returns or raises: its local goes.
Leave(t, step) == /\ Goto(t, step)
                  /\ tver' = [tver EXCEPT ![t] = 0]

UpToDate(t) == loaded /\ tver[t] = loadedVersion

\* The steps under the lock.
LoadSteps == {"recheck", "exists", "npz", "ids", "sidecar", "texts", "validate"}

-----------------------------------------------------------------------------
(* _current_version *)

\* The SELECT of index_version; the clock has been read before it.
ReadVersion(t) == /\ tver' = [tver EXCEPT ![t] = db.version]
                  /\ tread' = [tread EXCEPT ![t] = "live"]

\* What was read goes to the cache, if anything was.
CacheRead(t) ==
    /\ cached' = IF tread[t] = "none" THEN cached ELSE tver[t]
    /\ fresh' = IF tread[t] = "none" THEN fresh ELSE tread[t] = "live"
    /\ tread' = [tread EXCEPT ![t] = "none"]

\* A second passes.
Expire ==
    /\ fresh \/ \E t \in Threads : tread[t] = "live"
    /\ fresh' = FALSE
    /\ tread' = [t \in Threads |-> IF tread[t] = "live" THEN "late" ELSE tread[t]]
    /\ UNCHANGED <<indexVars, loaded, loadedVersion, emb, ids, bm25, cached, lock, tpc,
                   tver, scored, loadsOf>>

-----------------------------------------------------------------------------
(* _ensure_loaded *)

Query(t) ==
    /\ tpc[t] = "idle"
    /\ IF fresh
       THEN tver' = [tver EXCEPT ![t] = cached] /\ UNCHANGED tread
       ELSE ReadVersion(t)
    /\ Goto(t, "compare")
    /\ UNCHANGED <<indexVars, loaded, loadedVersion, emb, ids, bm25, cached, fresh, lock,
                   scored, loadsOf>>

\* The fast path, outside the lock.
Compare(t) ==
    /\ tpc[t] = "compare"
    /\ CacheRead(t)
    /\ Leave(t, IF UpToDate(t) THEN "bm25_score" ELSE "wait")
    /\ UNCHANGED <<indexVars, loaded, loadedVersion, emb, ids, bm25, lock,
                   scored, loadsOf>>

\* Mutant: the slow path does not take the lock.
AcquireUnlocked(t) ==
    /\ tpc[t] = "wait"
    /\ lock' = t
    /\ ReadVersion(t)
    /\ Goto(t, "recheck")
    /\ UNCHANGED <<indexVars, loaded, loadedVersion, emb, ids, bm25, cached,
                   fresh, scored, loadsOf>>

\* Mutant: the slow path goes through the version cache as the fast path does.
AcquireCached(t) ==
    /\ tpc[t] = "wait"
    /\ lock = Absent
    /\ lock' = t
    /\ IF fresh
       THEN tver' = [tver EXCEPT ![t] = cached] /\ UNCHANGED tread
       ELSE ReadVersion(t)
    /\ Goto(t, "recheck")
    /\ UNCHANGED <<indexVars, loaded, loadedVersion, emb, ids, bm25, cached,
                   fresh, scored, loadsOf>>

\* The slow path reads the version again, past the cache.
Acquire(t) ==
    /\ tpc[t] = "wait"
    /\ lock = Absent
    /\ lock' = t
    /\ ReadVersion(t)
    /\ Goto(t, "recheck")
    /\ UNCHANGED <<indexVars, loaded, loadedVersion, emb, ids, bm25, cached, fresh,
                   scored, loadsOf>>

\* Mutant: a thread that has waited for the lock loads in any case.
RecheckAlwaysLoads(t) ==
    /\ tpc[t] = "recheck"
    /\ CacheRead(t)
    /\ Goto(t, "exists")
    /\ UNCHANGED <<indexVars, loaded, loadedVersion, emb, ids, bm25, lock, tver,
                   scored, loadsOf>>

Recheck(t) ==
    /\ tpc[t] = "recheck"
    /\ CacheRead(t)
    /\ IF UpToDate(t)
       THEN lock' = Absent /\ Leave(t, "bm25_score")
       ELSE UNCHANGED <<lock, tver>> /\ Goto(t, "exists")
    /\ UNCHANGED <<indexVars, loaded, loadedVersion, emb, ids, bm25, scored, loadsOf>>

NpzExists(t) ==
    /\ tpc[t] = "exists"
    /\ npz # Absent
    /\ Goto(t, "npz")
    /\ UNCHANGED <<indexVars, loaded, loadedVersion, emb, ids, bm25, cached, fresh, lock,
                   tver, tread, scored, loadsOf>>

NpzMissing(t) ==
    /\ tpc[t] = "exists"
    /\ npz = Absent
    /\ emb' = Absent
    /\ ids' = NoChunks
    /\ bm25' = Absent
    /\ Goto(t, "validate")
    /\ UNCHANGED <<indexVars, loaded, loadedVersion, cached, fresh, lock, tver, tread,
                   scored, loadsOf>>

LoadNpz(t) ==
    /\ tpc[t] = "npz"
    /\ npz # Absent
    /\ emb' = npz
    /\ Goto(t, "ids")
    /\ UNCHANGED <<indexVars, loaded, loadedVersion, ids, bm25, cached, fresh, lock, tver,
                   tread, scored, loadsOf>>

\* The file went after exists(): FileNotFoundError, past the handler.
LoadNpzRaises(t) ==
    /\ tpc[t] = "npz"
    /\ npz = Absent
    /\ lock' = Absent
    /\ Leave(t, "idle")
    /\ UNCHANGED <<indexVars, loaded, loadedVersion, emb, ids, bm25, cached, fresh, tread,
                   scored, loadsOf>>

ReadIds(t) ==
    /\ tpc[t] = "ids"
    /\ ids' = db.chunks
    /\ Goto(t, "sidecar")
    /\ UNCHANGED <<indexVars, loaded, loadedVersion, emb, bm25, cached, fresh, lock, tver,
                   tread, scored, loadsOf>>

Size(table) == Cardinality(DOMAIN table)

SidecarFits == sidecar # Absent /\ Size(sidecar.of) = Size(ids)

LoadSidecar(t) ==
    /\ tpc[t] = "sidecar"
    /\ SidecarFits
    /\ bm25' = sidecar.of
    /\ Goto(t, "validate")
    /\ UNCHANGED <<indexVars, loaded, loadedVersion, emb, ids, cached, fresh, lock, tver,
                   tread, scored, loadsOf>>

\* It is missing, of another size, or cannot be decoded.
PassSidecarOver(t) ==
    /\ tpc[t] = "sidecar"
    /\ Goto(t, "texts")
    /\ UNCHANGED <<indexVars, loaded, loadedVersion, emb, ids, bm25, cached, fresh, lock,
                   tver, tread, scored, loadsOf>>

\* The fallback: tokenize the chunk texts as they are in SQLite now.
BuildBm25(t) ==
    /\ tpc[t] = "texts"
    /\ bm25' = IF db.chunks = NoChunks THEN Absent ELSE db.chunks
    /\ Goto(t, "validate")
    /\ UNCHANGED <<indexVars, loaded, loadedVersion, emb, ids, cached, fresh, lock, tver,
                   tread, scored, loadsOf>>

\* validation.validate; the two meta reads of the dimension come last.
Valid == emb # Absent => /\ Size(emb.of) = Size(ids)
                         /\ db.dim \in {Absent, Dim[emb.model]}
                         /\ Dim[EngineModel] = Dim[emb.model]

\* Mutant: the version is the one on disk when the load ends.
PublishLate(t) ==
    /\ tpc[t] = "validate"
    /\ Valid
    /\ loaded' = TRUE
    /\ loadedVersion' = db.version
    /\ loadsOf' = [loadsOf EXCEPT ![db.version] = @ + 1]
    /\ lock' = Absent
    /\ Leave(t, "bm25_score")
    /\ UNCHANGED <<indexVars, emb, ids, bm25, cached, fresh, tread, scored>>

Publish(t) ==
    /\ tpc[t] = "validate"
    /\ Valid
    /\ loaded' = TRUE
    /\ loadedVersion' = tver[t]
    /\ loadsOf' = [loadsOf EXCEPT ![tver[t]] = @ + 1]
    /\ lock' = Absent
    /\ Leave(t, "bm25_score")
    /\ UNCHANGED <<indexVars, emb, ids, bm25, cached, fresh, tread, scored>>

\* Mutant: the exception leaves the lock taken.
RefuseKeepsLock(t) ==
    /\ tpc[t] = "validate"
    /\ ~Valid
    /\ emb' = Absent
    /\ ids' = NoChunks
    /\ bm25' = Absent
    /\ loaded' = FALSE
    /\ loadedVersion' = Absent
    /\ Leave(t, "idle")
    /\ UNCHANGED <<indexVars, cached, fresh, lock, tread, scored, loadsOf>>

Refuse(t) ==
    /\ tpc[t] = "validate"
    /\ ~Valid
    /\ emb' = Absent
    /\ ids' = NoChunks
    /\ bm25' = Absent
    /\ loaded' = FALSE
    /\ loadedVersion' = Absent
    /\ lock' = Absent
    /\ Leave(t, "idle")
    /\ UNCHANGED <<indexVars, cached, fresh, tread, scored, loadsOf>>

\* What else a load calls may raise too: the embedder, np.load, SQLite, and
\* BM25Okapi over a corpus without a single token.  The lock is let go, and
\* the arrays stay as far as they have come, under the old version.
LoadRaises(t) ==
    /\ tpc[t] \in LoadSteps \ {"sidecar"}
    /\ tpc[t] = "npz" => npz # Absent
    /\ lock' = Absent
    /\ tread' = [tread EXCEPT ![t] = "none"]
    /\ Leave(t, "idle")
    /\ UNCHANGED <<indexVars, loaded, loadedVersion, emb, ids, bm25, cached, fresh, scored,
                   loadsOf>>

-----------------------------------------------------------------------------
(* hybrid_search: the BM25 leg, then the dense leg; each scores every row of *)
(* its own table and then looks the best ones up in chunk_ids.               *)

\* scores is the table whose rows the next leg has scored, Absent for none.
Scored(t, table) ==
    scored' = [scored EXCEPT ![t] = IF table = Absent THEN Absent
                                    ELSE [of |-> table, version |-> loadedVersion]]

SearchStep(t, from, to) ==
    /\ tpc[t] = from
    /\ Goto(t, to)
    /\ UNCHANGED <<indexVars, loaded, loadedVersion, emb, ids, bm25, cached, fresh, lock,
                   tver, tread, loadsOf>>

ScoreBm25(t) == SearchStep(t, "bm25_score", "bm25_map") /\ Scored(t, bm25)

\* The lookup of the first leg and the scoring of the second share nothing
\* and are one step.
ScoreDense(t) == /\ SearchStep(t, "bm25_map", "dense_map")
                 /\ Scored(t, IF emb = Absent THEN Absent ELSE emb.of)

\* An index past the end of chunk_ids raises: either way the search is over.
MapDense(t) == SearchStep(t, "dense_map", "idle") /\ Scored(t, Absent)

Search(t) == ScoreBm25(t) \/ ScoreDense(t) \/ MapDense(t)

-----------------------------------------------------------------------------
Load(t) == \/ NpzExists(t) \/ NpzMissing(t) \/ LoadNpz(t) \/ LoadNpzRaises(t)
           \/ ReadIds(t) \/ LoadSidecar(t) \/ PassSidecarOver(t) \/ BuildBm25(t)
           \/ Publish(t) \/ Refuse(t)

ThreadStep(t) == Compare(t) \/ Acquire(t) \/ Recheck(t) \/ Load(t) \/ Search(t)

EngineNext == Expire \/ \E t \in Threads : Query(t) \/ ThreadStep(t) \/ LoadRaises(t)

RagInit == Init /\ EngineInit

IndexStep(A) == A /\ UNCHANGED engineVars

RagNext == \/ IndexStep(StartAny) \/ IndexStep(RunStep)
           \/ IndexStep(Abort)    \/ IndexStep(EditAny)
           \/ EngineNext

RagSpec == RagInit /\ [][RagNext]_vars

\* Runs go on, threads go on, the lock is handed on and seconds pass; and, as
\* the property below is about what queries get to see, queries keep coming.
RagFairSpec ==
    /\ RagSpec
    /\ WF_vars(IndexStep(RunStep))
    /\ WF_vars(Expire)
    /\ \A t \in Threads : /\ WF_vars(ThreadStep(t))
                          /\ SF_vars(Acquire(t))
                          /\ WF_vars(Query(t))

-----------------------------------------------------------------------------
SearchSteps == {"bm25_score", "bm25_map", "dense_map"}

\* Every variable of the engine has its type, and exactly the thread that
\* holds the lock is in the slow path.
EngineTypeOK ==
    /\ loaded \in BOOLEAN
    /\ loadedVersion \in Versions \cup {Absent}
    /\ emb = Absent \/ IsNpz(emb)
    /\ IsColumn(ids, ChunkRows)
    /\ bm25 = Absent \/ IsColumn(bm25, ChunkRows)
    /\ cached \in Versions \cup {Absent}
    /\ fresh \in BOOLEAN
    /\ fresh => cached \in Versions
    /\ lock \in Threads \cup {Absent}
    /\ tpc \in [Threads -> {"idle", "compare", "wait"} \cup LoadSteps \cup SearchSteps]
    /\ tver \in [Threads -> Versions]
    /\ tread \in [Threads -> {"none", "live", "late"}]
    /\ DOMAIN scored = Threads
    /\ \A t \in Threads : scored[t] = Absent \/ IsColumn(scored[t].of, ChunkRows)
    /\ loadsOf \in [Versions -> Nat]
    /\ \A t \in Threads : tpc[t] \in LoadSteps <=> lock = t

\* Nothing has been written since the last version was published.
Settled == pc = "idle" /\ exit = "ok"

\* The vectors, the ids and the BM25 state in memory are those of the index;
\* at rest the vectors are missing for the empty index alone (IndexAgrees).
ServesIndex ==
    IF npz = Absent
    THEN emb = Absent /\ ids = NoChunks /\ bm25 = Absent
    ELSE emb = npz /\ ids = db.chunks /\ bm25 = db.chunks

\* The version is read before the artifacts and published after them, so an
\* engine that has loaded the current version of an index at rest serves that
\* index, however its reads fell between the writes of earlier runs.
LoadedVersionNamesIndex ==
    Settled /\ loaded /\ loadedVersion = db.version /\ lock = Absent => ServesIndex

\* Threads that race into the slow path do not load the same version twice.
EachVersionLoadedOnce == \A v \in Versions : loadsOf[v] <= 1

\* The engine never goes back to an older index, whatever the order in which
\* threads write the version cache.
ServedVersionNeverDecreases ==
    [][(loadedVersion \in Versions /\ loadedVersion' \in Versions)
          => loadedVersion' >= loadedVersion]_vars

\* The rows of a chunk table in canonical order, without their ids.
Listing(table) ==
    [k \in 0 .. Size(table) - 1 |->
        table[CHOOSE i \in DOMAIN table : RowNumber(table, i) = k]]

\* A search over an index at rest, all of it after the load, maps every score
\* to the chunk that was scored.
SettledSearchIsAligned ==
    \A t \in Threads :
        /\ Settled /\ lock = Absent
        /\ scored[t] # Absent
        /\ scored[t].version = loadedVersion
        /\ loadedVersion = db.version
        => Listing(scored[t].of) = Listing(ids)

\* Once runs stop with an index this process can read, and what loads call
\* stops raising, the engine comes to serve it: neither the cache, nor a
\* refused load, nor a load that read half of the new index or died halfway
\* keeps it away for good.
EventuallyServesLatest ==
    /\ <>[](Settled /\ (npz # Absent => Dim[npz.model] = Dim[EngineModel]))
    /\ <>[][\A t \in Threads : ~LoadRaises(t)]_vars
    => <>[](loaded /\ loadedVersion = db.version /\ ServesIndex)

-----------------------------------------------------------------------------
(* The two processes implement Publication. *)

IndexView == IF npz = Absent THEN <<Absent, NoChunks, Absent>>
                             ELSE <<npz, db.chunks, db.chunks>>

Published == INSTANCE Publication WITH
    None    <- Absent,
    version <- db.version,
    rest    <- Settled,
    index   <- IndexView,
    serving <- loadedVersion,
    served  <- {v \in Versions : loadsOf[v] # 0},
    view    <- <<emb, ids, bm25>>

\* The steps of index_path and of _ensure_loaded, in any interleaving, publish
\* and serve versions as Publication says: each version once and in order, even
\* across refused loads, and the last one of an index at rest with its content.
ImplementsPublication == Published!Spec

-----------------------------------------------------------------------------
(* What tests and documents say of the engine and the code does not do. *)

\* test_engine.py: "a partial rebuild can never leave retrieval scoring
\* against the wrong BM25 state": with no run going on, and an engine whose
\* vectors and ids are those on disk and of the committed chunks, a sidecar it
\* has taken over holds the statistics of these chunks.
SidecarIsOfTheChunks ==
    /\ pc = "idle" /\ loaded /\ lock = Absent
    /\ emb # Absent /\ emb = npz
    /\ Listing(emb.of) = Listing(ids) /\ Listing(ids) = Listing(db.chunks)
    /\ sidecar # Absent /\ bm25 = sidecar.of
    => Listing(bm25) = Listing(ids)

\* REQUIREMENTS.md 4.5: "Mid-rebuild reads see the previous valid index until
\* the rename commits": what a search scores and the ids it then looks up
\* belong together.
SearchSeesOneIndex ==
    \A t \in Threads :
        scored[t] # Absent => Listing(scored[t].of) = Listing(ids)

=============================================================================
