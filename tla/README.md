# A verification of hybrid-rag

`hybrid_rag` is a retrieval plugin: a command line that indexes a tree of
documents, and a long-lived host process that answers searches over the index
from several threads. This directory holds TLA+ models of it, TLC
configurations that check them on small instances, and TLAPS proofs about them.
All line numbers are of `src/hybrid_rag/` unless a path says otherwise.

## 1. The system

### Components, their state and their operations

| Component | State | Operations | What makes it correct |
|---|---|---|---|
| **Store** (`storage.py`) | `catalog.db`: files, parents, chunks (with `embed_row`), meta; one lazily opened connection | delete files (cascade), bulk inserts, savepoint and transaction, canonical order, meta reads and writes | a file's rows appear and disappear together; the canonical order is the order of ids |
| **ArtifactStore** (`artifacts.py`) | `embeddings.npz`, `bm25_state.json` | atomic save, load, exists, delete | a reader sees an old or a new file, never a part |
| **Manifest** (`manifest.py`) | none | the four-bucket diff of tree and catalog | an edited file is never "unchanged" |
| **Indexer** (`indexing.py`, `cli.py`) | locals of one run | walk, diff, delete, insert file by file, rebuild the artifacts, bump `index_version` | after a run that succeeded, catalog = tree and artifacts = catalog, whatever died before |
| **RAGEngine** (`engine.py`, `validation.py`) | the loaded arrays, the loaded version, a one-second version cache, a lock | ensure_loaded, load, validate, refuse, reset | what it serves is the index whose version it carries; it loads once per version; it gets there eventually |
| **Retrieval** (`retrieval.py`) | none | BM25 and dense scoring, RRF, top-k, roll-up to parents, rehydration | a score is attributed to the chunk that was scored |
| **Pipelines** (`pipelines.py`, `rerank.py`, `crag.py`, `expansion.py`) | a thread pool per query; the shared cross-encoder | explicit search with variants, rerank and one corrective retry; ambient search | one retry at most, no result lost, fallbacks in order |
| **Toggle** (`state.py`, `slash.py`) | `toggles.json`, a one-second cache | read, read-modify-write | a toggle is not lost and is seen within a TTL |
| **Conversation memory** (`convo.py`) | an LRU map of short rings | snapshot, push | bounded; the newest turns of the sessions used last |
| **Lazy singletons** (`engine.get_engine`, `Store.connect`, `embeddings.py`, `_anthropic.py`, `rerank.py`, `adapters.py`) | one published object each | create on first use, warm-up thread | created once, published when complete |
| **Formatting, chunking, parents** (`formatting.py`, `chunking.py`, `parents.py`, `extractors.py`) | none | pure text algorithms | size bounds, no text lost |
| **Hooks, tools, contextual prefixes, configuration** | none of their own | argument checks, JSON, calls of a language model | never raise into the host |

### How they interact

The indexer is a process of its own. It shares with the host process only the
data directory: the catalog (SQLite in WAL mode), the two artifact files, and the
`index_version` row of `meta`, through which the engine learns of a new index.
There is no lock between the two. Inside the host, tool calls, the ambient hook,
the warm-up thread and the variants of one query call the same engine from
several threads; the engine's lock covers the load and not the searches.

A query takes several reads: the engine's arrays, then the parents of the ranked
chunks, then their rows, then their full texts, with ranking and reranking between
them and no transaction around them. The ambient path adds the ring of its session,
read and written in two locked steps, and the toggle, which the slash command of
any process may be writing.

### What is hard about it

- **Many commits.** A run is a sequence of commits and renames: the deletes,
  each file, `embeddings.npz`, `bm25_state.json`, `embed_row`, three meta rows. A
  reader, a crash or an edit of the tree can fall between any two.
- **Who vouches for what.** The stat and hash that make a file "unchanged" are
  not taken together with its text; the version that makes the engine's arrays
  "current" is not read together with them.
- **Unlocked readers.** Searches use arrays that a reload replaces one by one.
- **Ids are reused.** `INTEGER PRIMARY KEY` gives the ids of deleted rows to new
  ones, so an id alone never shows that it is stale.
- **Failures that leave something behind.** A failed file, a dead rebuild, a
  refused load, a constructor that raises under its lock.
- **Read, change, write.** `toggles.json` and the rings are read, changed and written
  in separate steps, by several processes or threads.
- **Arithmetic on limits.** The overlap on top of the chunk size, the budget of the
  context with its separators and its closing tag, the pool size against `RRF_K`.

`PROJECT.json` lists these hazards one by one, at the line where each bites, with
the properties that would show it going wrong.

## 2. The modules

| Module | What it is |
|---|---|
| `IndexStore` | the data directory, one indexer at a time, and the users who edit the tree |
| `RagEngine` | extends `IndexStore` with the threads of a host process that query the engine |
| `Publication` | the abstract specification: what the directory and the engine promise each other |
| `Pipelines` | one query, explicit or ambient, over a catalog that is being indexed |
| `Toggles` | `toggles.json` and the caches of several processes |
| `ConvoMemory` | the rings of the sessions and concurrent turns |
| `LazyInit` | objects created on first use, with and without a lock, and the warm-up |
| `ContextPacking` | the packing of the injected context under its budget |
| `Chunking`, `Parents`, `Fusion` | algorithms: the recursive split; the extraction and cap of parents; query variants and rank fusion |
| `MCIndexStore`, `MCRagEngine`, `MCPipelines`, `MCParts` | small instances for TLC; `MCParts` holds the parts that share no state with each other |
| `IndexStoreProofs`, `RagEngineProofs`, `PublicationProofs`, `PipelinesProofs`, `ConvoMemoryProofs`, `ParentsProofs` | TLAPS proofs, each about the module it is named after |
| `ProcessStateProofs` | TLAPS proofs about `Toggles` and `LazyInit` |
| `AlgorithmProofs` | TLAPS proofs about `ContextPacking`, `Fusion` and `Chunking` |

`RagEngine` composes the indexer and the host. `Pipelines` has the same two sides,
but sees the indexer as transactions that delete and insert whole files, which is
what `FilesAllOrNothing` shows them to be, and the engine as the ids it has loaded.
The other modules stand alone because the code does: they share neither state nor
locks with the index.

### IndexStore

A chunk row is the file it belongs to, the body it was cut from and its position;
parents are folded into their file, since the indexer inserts and deletes both
together. The canonical order, `ORDER BY parent_id, ord`, is the order of the
chunk ids: parents and chunks of a file are inserted in order and both ids are
one more than the largest in use. `NumChunks` stands for extraction and splitting.
Vectors and BM25 statistics are represented by the chunk table (and the model)
they were computed from, which is all that any property about them needs.

| Variable | Code |
|---|---|
| `disk` | the document tree, as `os.walk`, `stat` and `open` see it |
| `db` | the committed catalog: `files`, `chunks`, `chunks.embed_row`, the meta rows `embed_model`, `embed_dim`, `index_version` |
| `tx` | the catalog inside the indexer's open transaction |
| `npz`, `sidecar` | `embeddings.npz`, `bm25_state.json` |
| `pc`, `job`, `seen`, `plan`, `cur`, `rows` | where the run is; its arguments; `disk_map`; the changeset; the file in `_index_file`; `rows` of `rebuild_artifacts` |
| `exit`, `runs`, `edits`, `unsettled` | how the last run ended; the bounded counters; which paths were edited since the walk, missed by it or failed in the run |

The actions follow `index_path` in order: `StartRun` (walk and stat), `Diff` or
`DiffRaises`, `DeleteObsolete`, then per file `ExtractFile`, `StatFile`,
`PersistFileRow`, `PersistChunk`, `ReleaseSavepoint`, or `ExtractFails` /
`RollbackFile`; then `ReadRows` and either `UnlinkNpz`, `UnlinkSidecar` or `SaveNpz`, `SaveSidecar`,
`UpdateEmbedRows`, `SetModel`, `SetDim`; then `BumpVersion`. `Abort` ends a run
before any of these steps: a kill, a power cut that loses no commit, an encoder
that raises, a corpus without tokens. `Edit` changes the tree between any two.

The walk with its stats is one step, from which any files may be missing (a directory
that cannot be listed, a stat that raises: `os.walk` and `_accept_file` go on without
them). Reading file by file would show no more: edits of different files commute, and a
file edited after it was looked at is in `unsettled` in either model, as the missed ones are.

Three points need the code and its libraries to be read closely:

- `Store.savepoint` executes `SAVEPOINT` when no transaction is open. Python's
  `sqlite3` begins one only before a data-changing statement, so this savepoint is
  the outermost and its `RELEASE` commits. `ReleaseSavepoint` therefore commits
  one file, and `Abort` in the middle of a batch keeps the files before.
- `_index_file` extracts the text before `_persist_file_row` takes the stat and then the
  hash, which is why `ExtractFile`, `StatFile` and `PersistFileRow` are three steps.
- `index_version` is `time.monotonic_ns()`. Runs on one machine since its last
  boot get different, growing values, so the model counts. The host process does
  not survive a reboot, so it never compares values of two boots.

### RagEngine

Each thread runs `Query`, then `Compare` (the fast path), `Acquire` (the lock and
the uncached read of the version), `Recheck`, the load in its separate reads
(`NpzExists`/`NpzMissing`, `LoadNpz`/`LoadNpzRaises`, `ReadIds`, `LoadSidecar` or
`PassSidecarOver`, `BuildBm25`), `Publish` or `Refuse`, and the search (`ScoreBm25`, `ScoreDense`,
`MapDense`). `Expire` is the passing of the one-second TTL: it may come between
the clock reading and the write of the cache (`tread = "late"`). `LoadRaises` is any other
exception of a load (SQLite, the embedder, BM25 over a corpus without tokens): only
`IndexConsistencyError` clears the arrays, so it leaves them as far as they have been
replaced, under the old version.

`scored` holds the table whose rows a leg of the search has scored and not yet
looked up in `_chunk_ids`; the lookup of the BM25 leg and the scoring of the dense
leg touch different attributes and are one step. The three assignments of the
"no artifacts" branch, and the three of the version cache, are one step each: a
reader that comes between them sees a mixture that the steps around them already
allow (a reload writes the arrays one after the other), or takes the cache for
expired or fresh a moment later.

### Publication

One writer publishes indexes under growing versions; one reader serves a view under the
version it found. `Fresh` is the promise: whoever serves the last version of an index at
rest answers from that index. `RagEngine` implements it under the mapping in its
`Published` instance: the abstract index is `embeddings.npz` with the committed
chunks as ids and BM25 statistics, the view is the arrays in memory, `rest` says that no
run has begun since the last one that succeeded, and `serving` is `_loaded_version`.

### Pipelines

The variables are the locals of `_one_pass`, `ExplicitPipeline.run` and
`AmbientPipeline.run`: `legIds` (what the BM25 leg of a variant could see), `found` (the
rankings so far), `ranked` (`top_chunks`), `owners`
(`parent_ids_for_chunks` and the MAX rollup), `parents` (`chunks_to_parents`, then the
reranker's list), `first` (the first pass, when CRAG retries) and `answer`. Each read of
the catalog is an action: `Owners`, `FetchRows`, `Rehydrate`. Between any two the
environment may delete and insert files (`DeleteFiles`, `InsertFile`, with SQLite's
reuse of ids) or reload the engine, also between the two legs of a variant (`SearchBm25`,
`SearchDense`). Rankings, scores and verdicts are arbitrary; the
order in which the cascade asks (`CohereRanks`, `LocalRanks`, `IdentityRanks`), the
gate on ambient answers and the limits are the code's. A row is its file, the
transaction that wrote it and its position, so that every row that ever was differs.

The variants of a query run in parallel threads and are modelled one after another: a
ranking is any subset of the ids loaded when its legs looked theirs up, and the variants
share nothing but the union of their rankings, so their order does not matter. What the
reranking service sends is any list of indices in range (`_try_cohere` drops the others),
with repetitions and of any length up to `MaxIndices`; `obeyed` notes whether it sent none
twice and no more than `top_n`. `ownersAt` is the number of transactions that the read of
the owners has seen.

### Toggles, ConvoMemory, LazyInit

`Toggles` splits `_load` into the look at the cache, the read of the file and the write
of the cache stamped with the time before the read, and `_store` into the replacement of
the file and the write of the cache. `ReadFails` is a read that raises: in `read_text`, and
the cache is filled with the default (`Defaulted`), or in `exists()`, which `_load` does not
catch (`Exposed`). `calls[t].quiet` notes that the last `set_ambient` returned and the last
read failed a TTL ago, and that neither has happened during the call; `spaced` that all sets
were quiet.

`ConvoMemory` has one action per locked step of a turn: `GetRing` (copy, touch), `Mix`,
`Push` (insert, cut, touch, evict). Vectors are numbered; the arithmetic of the mixture is
left out, and a mixture is the list of the vectors that went into it.

`LazyInit` is the one pattern that `get_engine`, `Store.connect`,
`Embedder._load_model`, `get_client` and the cross-encoder share; the latter is in
`Unlocked`. Constructing (`Make`), setting up (`SetUp`) and publishing are steps, and
both of the first may raise. `ClaimWarm` and `Launch` are the session hook.

### The algorithms

`ContextPacking` works on the lengths of blocks. In `Chunking` a turn of a loop is a step:
`frames` are the calls of `recursive_split` that run, each with the pieces it has, the
beginning of its buffer and the place it has read up to. `ExtendBuffer`, `FlushBuffer` and
`SplitPart` are the three branches of the loop over parts, `ReturnPieces` and `ReturnAll` the
loop over overlaps and the `extend` of the caller, `TakePiece` the caller that drops blank
pieces. Texts are sequences of positions, so that equal characters differ.

`Fusion` has the two loops of `expand_query` as steps (`ReadParaphrase`, `ReadHyde`) after the
answer of the model, and `hybrid_search_chunk_ids` leg by leg, with any order of equal scores
and with reciprocal ranks scaled to whole numbers.

In `Parents` a turn of a loop is a step too, and `step` names the loop: `TakeSection` is that of
`extract_md`, behind `BuildPreamble`; `PackParagraph` and `StartGroup` are the branches of
`extract_txt`, with its own count `bufLen`; `KeepParent` and `SplitOversized` those of
`_enforce_parent_cap`; `PackPart` and `StartPiece` those of `_greedy_pack`, which the three
tiers of `_split_oversized` share but for where they cut (`Cuts`) and what they join with
(`Joiner`); `NextPiece` and `NextTier` take its results to the next tier, and `WrapAsParts`
gives them the title of their parent. A letter is a heading's mark, a newline or anything
else, and a text the sequence of its positions, so that one that is lost, repeated or moved
is seen. Fixed-width slices are greedy too: cut after `MaxParent`, nothing can be packed
behind a slice.

Inputs are any bounded ones, so that an invariant is a statement about all of them.

## 3. The runs

| Run | Checks | Instance |
|---|---|---|
| `index_store` | `TypeOK`, `QuiescentAgreement`, `FilesAllOrNothing`, `CatalogMatchesTree`, `ForcedRunRefreshes`, `KeptFilesUntouched`, `RunEnds` | two files, a directory and a subdirectory as roots, bodies of 0, 1 and 2 chunks, two of them with the same stat; 2 runs, 1 edit |
| `engine` | `EngineTypeOK`, `LoadedVersionNamesIndex`, `EachVersionLoadedOnce`, `SettledSearchIsAligned`, `ServedVersionNeverDecreases`, `ImplementsPublication` | one file, two bodies of one chunk and one stat; 2 runs, 1 edit, 2 threads |
| `engine_live` | `EventuallyServesLatest` | one file, two models of different dimension, 2 runs, 1 thread |
| `search` | `TypeOK`, `DistinctWithinK`, `RetryNeverLosesResults`, `QuietSearchIsExact`, `LastingParentsAreFound`, `AnswersAreCommitted`, `SearchEnds` | two files, of two parents and of one; 3 transactions, 2 variants, up to 2 indices of the service, k of -1 and 9 (1.5 million states) |
| `parts` | three properties of the toggle, four of the memory, four of the lazy objects, eight of the algorithms | one part per initial state (743 thousand states) |
| `batch`, `crash`, `skipped`, `outside_root`, `sidecar`, `mid_rebuild`, `rehydrate` | one documented claim each, which the code does not keep | see the findings |

**What they show.** A run that reports success leaves the catalog equal to the tree
it was given (for every path not missed by the walk, and not edited or failed since), whole files
only, unchanged files untouched to the row id, and all artifacts computed from
that catalog, even if the run before it died at any step. An engine that has
loaded the current version of an index at rest serves exactly that index and
attributes its scores correctly, although its reads may have overlapped earlier
runs; it loads a version once; it never returns to an older one; and it does come
to serve the last index if its model can read it.

A query that meets no transaction returns exactly the best parents of the ranked chunks,
with their whole texts. One that does meet some returns rows that were committed under
their ids while it ran, and nothing older; and stale ids cost only themselves: whatever
versions of the index the rankings are of, a parent row that outlasts the reads and owns a
ranked chunk is lost only to a limit or to the reranking service
(`LastingParentsAreFound`). An answer has at most k parents, none twice, of services that
repeat no index and send no more than they are asked for; an empty retry costs
nothing; and every query ends, after one retry at most.

A set of the toggle is what every process sees a TTL after it returned, and sets that are a
TTL apart lose none of each other's keys; nobody is told what no file has said. (Sets
that overlap, two processes within a TTL, or a set whose read of the file fails, do lose
keys: the properties say when they do not. A file that cannot be read says on.) The ring of a
session is the newest part of what it has pushed, what is mixed into a query is of its own session and older than the query, and a session between its
read and its push is evicted only when enough others are used. Locked objects exist
once, are complete when anyone sees them, and an exception keeps no lock. The context is
within its budget, and a block that is cut is cut inside its own text, so that no piece of
its closing tag stays before the one that is added (a title is not sanitized, so what it may
contain is not claimed); chunks and parents keep their bounds
and all words, in their order and under their headings; a model that repeats itself costs no
variant; fusion puts what both legs have found first.

**What the code does not keep.** The seven violation runs are short counterexamples to
statements in comments, tests and documents; `PROJECT.json` quotes each. In short:
a batch is not one transaction; a rebuild that dies leaves old vectors next to new
chunks; an edit during extraction is skipped by all later runs (until `--force`,
see `ForcedRunRefreshes`); indexing a second root deletes the rows of the first;
a stale sidecar of the right size is accepted after a dead rebuild; a load in
the middle of a run mixes two indexes until the next version is published; and a parent
whose id was handed out again between two reads gets the text of another file.

### Bounds, and why they are enough

- Two runs: every property that spans runs is about what one run (dead or not)
  leaves to the next; a third run starts from a state of the same kind. Two
  files give kept, changed, new and deleted files in one run, and ids that are
  freed below and above others; two chunks of a file give a partial file.
- One edit suffices to be lost, to be hidden by an equal stat, to delete a file
  below the indexer or to change a body between extraction and hash.
- `engine` has bodies of equal size on purpose: every size check of the load
  passes, so only the order of reads and writes is left to protect it. Its one
  file can be edited, deleted or never exist, so the empty corpus is reached.
- Two threads are enough for the race into the slow path and for a searcher that
  meets a reload; threads only interact through the lock and the shared arrays.
- `SYMMETRY` and `VIEW` are used in `engine` alone, which checks no liveness: symmetry over
  threads and the two bodies, which the model does not tell apart, and a view without
  `unsettled`, which no action reads, and without what of `job`, `seen` and `plan` no later
  step reads.
- `search`: three transactions insert both files and delete and insert one, so that an id is
  gone or means another parent between any two of the three reads. The pools are as
  small as cuts them all: three ranked chunks, two parents, and k below and above what the
  clamp allows, which makes it one and two. Two indices are a repetition for any k and too
  many for k of one.
- `parts`, toggle: two threads of one process and a third of another, two sets, TTL and
  time of one tick, which is every relation to the TTL there is; all three threads set the
  toggle, and the two of one process also read it.
  Memory: rings of two, two rings for three sessions, five turns by two threads: every
  ring overflows and every session is evicted. Lazy objects: one with a lock and one
  without, three threads, two constructions each, so one may fail.
- `parts`, algorithms: blocks whose last one fits with or without its separator, is too
  long by one character or by many and is cut, or is dropped; all passages of up to five
  characters for chunks of two, where every separator is reached and the overlap of
  one level meets that of the next; all documents of up to six letters for parents of four,
  groups of three and preambles of one, where all three tiers of the cap are reached, lines
  are packed together, a preamble has its title above or below its text, and a group is over
  three letters only as one paragraph; five chunks and lists of three, with the pool as long
  as `RRF_K + 1` as in the code. What takes longer documents was checked by itself, with seven
  letters and the same outcome: preambles that are too short and pieces that fit next to
  pieces that do not (parents of four, groups of three, preambles of two, 348 thousand states),
  two paragraphs in a group, which are six letters by the count of `extract_txt` (parents of
  seven, groups of six, 145 thousand states), and their split (parents of three, 397 thousand
  states). The proofs are for all sizes.
- `CHECK_DEADLOCK FALSE` in all runs but the two of `MCPipelines`: once the bounded runs, edits, turns or
  inputs are used up, the system rests, as the real one does.

### Fairness

`index_store` assumes weak fairness of the run's next step (`RunStep`): an indexer
that is neither killed nor finished goes on. Nothing assumes that a user starts a
run or edits a file, and `Abort` may always come instead. `engine_live` adds that
threads go on, that seconds pass (`Expire`), that the lock is handed on (strong
fairness of `Acquire`, for one thread at a time) and that queries keep coming,
since the property is about what queries get to see.

`search` assumes weak fairness of the query's next step (`Step`): what it calls returns
or raises. `parts` assumes, for `WarmUpEnds`, weak fairness of each thread's steps and
strong fairness of `Lock`: a lock that is released over and over is got in the end. No
constructor is assumed to succeed.

## 4. The proofs

Every property of the passing runs that speaks of safety is proved for all values of the
constants. Each invariant named below was an invariant of a
TLC run before its proof was written.

### The data directory

`IndexStoreProofs`, for all sets of paths, contents and models, any number of chunks per
body and any bounds, from the assumptions that `IndexStore` states about its constants:

- `TypeCorrect`: `TypeOK` is inductive by itself. The lemmas before it are about the
  catalog's operations: what an insert, a cascade or a rewrite of `embed_row` makes of a
  well-typed catalog is one (chunk tables finite, ids positive, `embed_row` on exactly the
  chunks).
- `AgreementAtRest`: the property speaks of the end of a run only; the invariant
  `RebuildInv` says what each step of the rebuild has established: the rows read are still
  the committed ones, what has been saved was computed from them, and by the time of the
  version bump everything agrees. It needs no hypothesis about the state a run starts from,
  which is the point of rebuilding everything each time.
- `WholeFiles` and `KeptFiles`: `FilesAllOrNothing` and `KeptFilesUntouched`, from `StoreInv`.
  Outside a file's savepoint the indexer sees the committed catalog; inside, it sees one that
  differs from it in a single file, which the committed one does not have and which has got
  its first `cur.done` chunks. That a file is not in the catalog when its turn comes rests on
  the deletion, which is why the invariant has to say which files wait for their insert.
- `TreeIsCatalogued`: `CatalogMatchesTree`, from `TreeInv`, for every file nobody has touched
  since the walk: from the diff on it waits for its insert, or its row is what the tree says.
  The lemma `ChangesetSettles` is where stat and hash are compared.
- `ForceRefreshes`: `ForcedRunRefreshes`, from `ForceInv`: after the deletion of a forced run
  no chunk is left of a file nobody touches but those of its present bytes. This is what an
  ordinary run does not give (run `skipped`).

### The engine

`RagStepIsIndexStep` shows that every step of indexer and host is a step or a stutter of the
data directory, so what `IndexStoreProofs` proves of each step holds next to an engine too;
`EngineOnlyReads` states it as an implementation, `RagSpec => Spec`. `RagEngineProofs` proves,
for any number of threads:

- `EngineTypeCorrect`: the last conjunct of `EngineTypeOK` is mutual exclusion: the thread in
  the slow path is the one that holds `_lock`.
- `LoadedVersionIsServed`, `LoadedOnce`, `VersionsServedInOrder`. None of the three
  properties is inductive. The invariant `EngineInv` adds what the code relies on without
  saying so. An index comes to rest only with a version nobody has read yet (`RestStep`),
  and nobody knows a version that has not been committed (`KnownVersions`); so if the
  directory is at rest and a loading thread holds its current version, the directory has
  been at rest since the thread read that version, and all it has read since is one index
  (`LoadsCurrent`). This is why the version must be read before the arrays and published
  after them. `LoadsNewer` says that a thread which decides to load under the lock does so
  for a version above the loaded one that was never loaded: the uncached second read in
  `Acquire` is what makes it true.
- `SearchesAreAligned`: `SettledSearchIsAligned`, from `ScoredInv`: what a thread has scored
  carries the version that was loaded then; a version is loaded once, so if it is still the
  loaded one no load came in between, and the ids are those of the table that was scored.
- `EngineImplementsPublication`: every step of `RagSpec` is, under the mapping, a step of
  `Publication` or none. `PublicationProofs` proves of the abstract specification alone that
  a reader is fresh and that versions are served in order, from what each side may do:
  `WriterAnnounces` (an index comes to rest only with a new version), `ReaderAdvances` (only
  newer versions are taken up) and `ReaderEndsFresh` (a step of the reader that ends at the
  last version ends with the index, whatever the view was before).

### The query

`PipelinesProofs`, for any files, pools and number of transactions:

- `AnswersWereCommitted`, `AnswersAreDistinct`, `RetryKeepsResults`. The invariant `QueryIInv`
  says what is handed from step to step: a finite set, then lists of parents, distinct from
  the rollup on and cut to k by every reranker as long as the service obeys (`obeyed`), which
  is what `AnswersAreDistinct` assumes; and everything a query holds or can still read
  is in `during`, because the catalog itself always is. The lemmas about the catalog show
  that ids stay bounded, so that a last one exists.
- `PipelinesTypeCorrect`: `TypeOK` needs finite tables and the types of every hand-over
  (`PipeTypes`).
- `QuietSearchesAreExact`: `QuietInv` follows a search that no transaction has come into. The
  rollup by the best rank puts the parent of the first chunk first and leaves as many
  parents as the limits allow; every read finds all of them; a retry cannot lose them.
- `LastingParentsAreAlwaysFound`: `LastingParentsAreFound`, from `LastingInv`. Fewer and
  fewer of the rows that were there when the owners were read last, and no new row becomes
  one of them, since its number is higher; a row that lasts keeps its id and its chunks. So
  whatever else a transaction between two reads deletes or puts in its place, each list
  still covers the lasting rows of the one before it, up to its limit.

### The parts

- `ProcessStateProofs` proves `QuietLoadIsCurrent`, `SpacedSetsAreKept` and `SeenWasWritten` for
  any processes, threads, keys and TTL. The key is `StaleIsOld`: what differs from the file,
  in a cache or in the hands of a reader about to fill one, was stamped no later than the
  last set returned or the last read failed, or a set is between its two writes. This is where stamping a cache
  with the time before the read matters.
- It also proves `LazyTypeOK` (with mutual exclusion and the single warm-up),
  `OneInstance` and `UsedWhenReady` for any threads and objects: who is between lock and
  publication holds the lock, and the global is then still empty.
- `ConvoMemoryProofs` proves `RingIsLatest` and `MixesOnlyThePast` for any number of turns,
  sessions and rings (logs of different sessions are disjoint, the vector of a pending turn
  is in no log and no other snapshot, a snapshot is older than its turn), and `ConvoTypeOK`
  and `PendingTurnKeepsRing` from `LruInv`: all sessions behind the one of a pending turn in
  the order of `_RINGS` were used since its read, so while it is not the oldest of a full map
  it stays, and it is the oldest only when all others are rivals.

### The algorithms

`AlgorithmProofs`:

- `ContextIsWithinBudget` and `CutIsInsideText` for every budget, from `OverheadAssumption`:
  the reserve for a cut block (32 characters) covers the closing tag with its newlines (23),
  the ellipsis and the newline after the opening line. As long as blocks are left none has
  been cut and the two counts agree; the count may be one above the budget, by the separator
  that `strip()` takes away.
- `VariantsStayUseful` for any reply and cap, from `ExpansionInv`: at any turn of the loops,
  what the model has written and the code has read is among the variants or the cap is used
  up, and what is among them is distinct.
- `LegsAgreementIsKept` and `TwoLegsBeatOne` for any two legs and any order of equal scores,
  from `SearchInv` (no leg is longer than its pool; the result is the top of an order of what
  both found). The first, which no run checks, is the least that fusion promises. The
  second one is arithmetic: with pools no longer than `RRF_K + 1`, two
  reciprocal ranks at the ends of both legs are at least one at the top of either (`TwoBeatOne`).
- `ChunksAlwaysFit` and `WordsAreAlwaysKept` for every text, size and overlap, from
  `SplitInv`, in place of an induction over the recursion: each running call has covered the
  text from its beginning up to its buffer (`Covers`: pieces in order, within the bound, each
  an overlap of earlier characters and a stretch of the text, with nothing but blanks between
  them), and the next call splits exactly the part its caller waits for (`Nested`). Covers of
  adjacent stretches join (`CoversBoth`), and overlaps leave a cover one (`OverlappedCovers`).
  Five separators end the recursion, as the last one cuts everywhere.

`ParentsProofs`, for every document, `MAX_PARENT_CHARS`, target and `PREAMBLE_MIN_CHARS` that
is at least one:

- Every letter that goes into a parent (`Kept`) has a place (`Place`): its own in the document
  or, in the title of the preamble, one above all others. `Holds(K, P, t, a, b)` says that a
  text has exactly the letters with a place above `a` and up to `b`, in the order of their
  places, and `HoldsAll` says it of a list of texts. The lemmas before the invariant are about
  these two: a text that is cut, with or without the newlines at the cut, holds the two sides
  of a place (`Watershed`, `CutHolds`); texts that are joined with newlines, appended,
  stripped, or taken from the head of a list hold what they should (`JoinHolds`,
  `ConcatHolds`, `StripHolds`, `HeadHolds`).
- `ParentInv` is a chain of such intervals from the first place to the last. While a document
  is extracted it goes through `raw`, `buf` and `rest`; under the cap through `parents` and
  `raw`; and while a parent is split, the one of its text goes through `done`, `buf`, `rest`
  and `todo`. No step can lose or repeat a letter without breaking the chain.
- `TextIsAlwaysKept`: at the end the chain is `parents` alone. What is dropped is dropped in
  `ExtractDocument`, and the lemmas about `Tops`, `Body` and `Intro` say what that is. That a
  letter of a section stands under its own heading is part of what the invariant says of each
  parent (`GoodParent`), and a part inherits it because its letters are letters of its parent
  (`PartIsUnder`).
- `ParentsAlwaysFit`: nothing is empty or begins or ends with a newline on the way through the
  tiers (`Trim`), and a piece that is still too long has no cut of its tier left (`Spent`): no
  empty line behind the paragraphs, no newline behind the lines; so the last tier cuts
  single lines. A group over the target is one
  paragraph because `bufLen` is at least the length of the buffer, and a part of one
  paragraph is one (`WholeParagraph`).

### Only model-checked

What happens under fairness (`RunEnds`, `EventuallyServesLatest`, `SearchEnds`, `WarmUpEnds`),
which is out of the prover's reach.

## 5. Not modelled, and the plan

Not modelled, with the reason:

- `reset()` and the same-process invalidation by `meta_write_seq`: nothing outside the tests
  resets the engine or indexes inside the host process.
- `hermes rag clear` below a running process: the host goes on with the unlinked catalog
  until it restarts, as a comment in `cli.py` says; a model would need two catalogs.
- Two indexers at once: nothing in the code starts a second one or keeps it away, and
  what happens is decided by SQLite's busy handling rather than by this code.
- The loss of commits by a power cut (`synchronous=NORMAL`) and the migration of schemas of
  older releases.
- Contextual prefixes: calls of a language model whose result is part of a chunk's text.
- `rag_drill_down`, `rag_list_sources`, `stats`: single reads without state.
- Edits of `toggles.json` by hand, and a wall clock that goes back.
- `extract_pdf`, whose pages come from another library, and `_hard_split`, which the last
  default separator (cut anywhere) keeps from ever being reached.
- The calls of encoders and rerankers (their results are choices or parameters), the
  formats of JSON and SQL, logging, and the legacy `bm25.pkl`.

What is left of the plan, if the code comes to index inside the host process: `reset()` and
`meta_write_seq`.
