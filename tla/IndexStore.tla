----------------------------- MODULE IndexStore -----------------------------
(***************************************************************************)
(* The index on disk and the process that writes it: the SQLite catalog    *)
(* (storage.py), embeddings.npz and bm25_state.json (artifacts.py), the    *)
(* manifest diff (manifest.py) and one `hermes rag index` run at a time    *)
(* (indexing.py), over a document tree that users edit at any moment.      *)
(*                                                                         *)
(* A chunk is identified by the file it belongs to, the body of the file   *)
(* it was cut from and its position; vectors and BM25 statistics are       *)
(* identified by the chunk table they were computed from.  Chunk ids are   *)
(* SQLite rowids: an insert takes the largest id in use plus one.          *)
(***************************************************************************)
EXTENDS Integers, FiniteSets

CONSTANTS
    Paths,       \* the indexable files, each the absolute path of one
    Roots,       \* arguments of `index`: the set of the paths below each
    Contents,    \* what a file can be: its stat (mtime, size) and its bytes
    Bodies,      \* the bytes a file can hold
    Stats,       \* the (mtime, size) pairs
    NumChunks,   \* chunks that extraction and splitting make of a body
    Models,      \* embedding models a run can be configured with
    Dim,         \* vector length of each model
    Absent,      \* no file, no catalog row, no artifact, no meta row
    MaxRuns,     \* bound: `index` commands issued
    MaxEdits     \* bound: changes users make to the document tree

ASSUME ContentsAssumption == Contents \subseteq [stat : Stats, body : Bodies]
ASSUME RootsAssumption == Roots \subseteq SUBSET Paths
ASSUME NumChunksAssumption == NumChunks \in [Bodies -> Nat]
ASSUME ModelsAssumption == Dim \in [Models -> Nat]
ASSUME AbsentAssumption == /\ Absent \notin [stat : Stats, body : Bodies]
                           /\ Absent \notin Models
                           /\ Absent \notin Nat
ASSUME BoundsAssumption == MaxRuns \in Nat /\ MaxEdits \in Nat

VARIABLES
    disk,        \* the document tree: path -> content or Absent
    db,          \* catalog.db as committed, what every connection reads
    tx,          \* the catalog as the indexer's own connection sees it
    npz,         \* embeddings.npz: chunk table and model it was computed from
    sidecar,     \* bm25_state.json: chunk table it was computed from
    pc,          \* the indexer's next step, "idle" when no run is going on
    job,         \* arguments of the run
    seen,        \* what the walk's stat saw below the root
    plan,        \* the changeset
    cur,         \* the file being inserted
    rows,        \* the chunk rows rebuild_artifacts has read
    exit,        \* how the last run ended
    runs,        \* runs started
    edits,       \* edits made
    unsettled    \* history: paths edited since the last walk, missed by it, or
                 \* failed in the run

indexVars == <<disk, db, tx, npz, sidecar, pc, job, seen, plan, cur, rows,
               exit, runs, edits, unsettled>>

FileSteps    == {"row", "hash", "chunks"}
InsertSteps  == {"insert", "row", "hash", "chunks"}
RebuildSteps == {"rows", "unlink_npz", "unlink_sidecar", "save_npz",
                 "save_sidecar", "embed_rows", "set_model", "set_dim", "bump"}
Steps        == {"diff", "delete"} \cup InsertSteps \cup RebuildSteps

-----------------------------------------------------------------------------
(* The chunk table: a function from ids to rows. *)

ChunkRows == [file : Paths, body : Bodies, ord : Nat]

\* f is a chunk table, or one column of it: ids are positive.
IsColumn(f, V) == /\ f = [i \in DOMAIN f |-> f[i]]
                  /\ \A i \in DOMAIN f : i \in Nat /\ i > 0 /\ f[i] \in V

NoChunks == [i \in {} |-> Absent]

\* The table, or a column of it, without the ids in Gone.
Without(col, Gone) == [i \in DOMAIN col \ Gone |-> col[i]]

With(col, id, value) == [i \in DOMAIN col \cup {id} |->
                           IF i = id THEN value ELSE col[i]]

ChunksOfFiles(table, P) == {i \in DOMAIN table : table[i].file \in P}

\* The position of an id in the canonical order, from 0.
RowNumber(table, id) == Cardinality({i \in DOMAIN table : i < id})

EmbedRows(table) == [i \in DOMAIN table |-> RowNumber(table, i)]

\* ON DELETE CASCADE: a file takes its chunks with it.
DeleteFiles(c, P) ==
    LET gone == ChunksOfFiles(c.chunks, P)
    IN  [c EXCEPT !.files    = [p \in Paths |-> IF p \in P THEN Absent ELSE @[p]],
                  !.chunks   = Without(@, gone),
                  !.embedRow = Without(@, gone)]

InsertFile(c, p, content) == [c EXCEPT !.files[p] = content]

\* Mutant: rowids are handed out by counting the rows.
CountedLastId(c, id) == id = Cardinality(DOMAIN c.chunks)

\* INTEGER PRIMARY KEY: the next rowid is one more than the largest in use.
IsLastId(c, id) == /\ id \in DOMAIN c.chunks \cup {0}
                   /\ \A i \in DOMAIN c.chunks : i <= id

\* Mutant: the new row has no embed_row.
InsertChunkNoRow(c, id, row) == [c EXCEPT !.chunks = With(@, id, row)]

InsertChunk(c, id, row) == [c EXCEPT !.chunks   = With(@, id, row),
                                     !.embedRow = With(@, id, 0)]

-----------------------------------------------------------------------------
(* The initial state: an empty data directory. *)

EmptyCatalog == [files    |-> [p \in Paths |-> Absent],
                 chunks   |-> NoChunks,
                 embedRow |-> NoChunks,
                 model    |-> Absent,
                 dim      |-> Absent,
                 version  |-> 0]

NothingSeen == [p \in Paths |-> Absent]

Init ==
    /\ disk \in [Paths -> Contents \cup {Absent}]
    /\ db = EmptyCatalog
    /\ tx = EmptyCatalog
    /\ npz = Absent
    /\ sidecar = Absent
    /\ pc = "idle"
    /\ job = Absent
    /\ seen = NothingSeen
    /\ plan = Absent
    /\ cur = Absent
    /\ rows = NoChunks
    /\ exit = "ok"
    /\ runs = 0
    /\ edits = 0
    /\ unsettled = {}

\* A user creates, rewrites, touches or removes a file, whatever the indexer
\* is doing.
Edit(p, content) ==
    /\ edits < MaxEdits
    /\ content # disk[p]
    /\ disk' = [disk EXCEPT ![p] = content]
    /\ edits' = edits + 1
    /\ unsettled' = unsettled \cup {p}
    /\ UNCHANGED <<db, tx, npz, sidecar, pc, job, seen, plan, cur, rows,
                   exit, runs>>

-----------------------------------------------------------------------------
(* index_path: walk, diff, delete, insert. *)

\* The walk and the stat of what it found.  Where listing a directory or the
\* stat of a file raises, os.walk and _accept_file go on without it.
StartRun(root, force, model) ==
    /\ pc = "idle"
    /\ runs < MaxRuns
    /\ runs' = runs + 1
    /\ job' = [root |-> root, force |-> force, model |-> model]
    /\ \E missed \in SUBSET {p \in root : disk[p] # Absent} :
          /\ seen' = [p \in Paths |-> IF p \in root \ missed THEN disk[p] ELSE Absent]
          /\ unsettled' = missed
    /\ pc' = "diff"
    /\ UNCHANGED <<disk, db, tx, npz, sidecar, plan, cur, rows, exit, edits>>

Walked     == {p \in Paths : seen[p] # Absent}
Catalogued == {p \in Paths : db.files[p] # Absent}

SameStat(p) == seen[p].stat = db.files[p].stat

\* Mutant: the content hash is never compared.
UnchangedByStat(p) == SameStat(p)

\* Only a file whose stat is unchanged is hashed.
Unchanged(p) == /\ SameStat(p)
                /\ disk[p].body = db.files[p].body

\* Mutant: --force is ignored.
DiffNoForce ==
    LET known == Walked \cap Catalogued
        same  == {p \in known : Unchanged(p)}
    IN  /\ pc = "diff"
        /\ \A p \in known : SameStat(p) => disk[p] # Absent
        /\ plan' = [keep    |-> same,
                    changed |-> known \ same,
                    new     |-> Walked \ Catalogued,
                    deleted |-> Catalogued \ Walked]
        /\ pc' = "delete"
        /\ UNCHANGED <<disk, db, tx, npz, sidecar, job, seen, cur, rows, exit,
                       runs, edits, unsettled>>

Diff ==
    LET known == Walked \cap Catalogued
        same  == {p \in known : Unchanged(p)}
    IN  /\ pc = "diff"
        /\ \A p \in known : SameStat(p) => disk[p] # Absent
        /\ plan' = [keep    |-> IF job.force THEN {} ELSE same,
                    changed |-> IF job.force THEN known ELSE known \ same,
                    new     |-> Walked \ Catalogued,
                    deleted |-> Catalogued \ Walked]
        /\ pc' = "delete"
        /\ UNCHANGED <<disk, db, tx, npz, sidecar, job, seen, cur, rows, exit, runs,
                       edits, unsettled>>

\* One statement under Python's implicit BEGIN, committed on its own.
DeleteObsolete ==
    LET obsolete == plan.deleted \cup plan.changed
    IN  /\ pc = "delete"
        /\ db' = DeleteFiles(db, obsolete)
        /\ tx' = DeleteFiles(db, obsolete)
        /\ pc' = "insert"
        /\ UNCHANGED <<disk, npz, sidecar, job, seen, plan, cur, rows, exit, runs,
                       edits, unsettled>>

\* The changed files are re-inserted first, then the new ones.
NextInserts == IF plan.changed # {} THEN plan.changed ELSE plan.new

Done(p) == [plan EXCEPT !.changed = @ \ {p}, !.new = @ \ {p}]

\* SAVEPOINT, then extraction reads the file.
ExtractFile(p) ==
    /\ pc = "insert"
    /\ p \in NextInserts
    /\ disk[p] # Absent
    /\ cur' = [path |-> p, body |-> disk[p].body, stat |-> Absent, done |-> 0]
    /\ plan' = Done(p)
    /\ pc' = "row"
    /\ UNCHANGED <<disk, db, tx, npz, sidecar, job, seen, rows, exit, runs, edits,
                   unsettled>>

\* Mutant: a file that fails stays in the list.
ExtractFailsRetries(p) ==
    /\ pc = "insert"
    /\ p \in NextInserts
    /\ unsettled' = unsettled \cup {p}
    /\ UNCHANGED <<disk, db, tx, npz, sidecar, pc, job, seen, plan, cur, rows,
                   exit, runs, edits>>

\* Extraction raises: the file is skipped with a warning.
ExtractFails(p) ==
    /\ pc = "insert"
    /\ p \in NextInserts
    /\ plan' = Done(p)
    /\ unsettled' = unsettled \cup {p}
    /\ UNCHANGED <<disk, db, tx, npz, sidecar, pc, job, seen, cur, rows, exit, runs,
                   edits>>

\* Stat and hash are read again, after the extraction, and one by one.
StatFile ==
    /\ pc = "row"
    /\ disk[cur.path] # Absent
    /\ cur' = [cur EXCEPT !.stat = disk[cur.path].stat]
    /\ pc' = "hash"
    /\ UNCHANGED <<disk, db, tx, npz, sidecar, job, seen, plan, rows, exit, runs,
                   edits, unsettled>>

PersistFileRow ==
    /\ pc = "hash"
    /\ disk[cur.path] # Absent
    /\ tx' = InsertFile(tx, cur.path, [stat |-> cur.stat, body |-> disk[cur.path].body])
    /\ pc' = "chunks"
    /\ UNCHANGED <<disk, db, npz, sidecar, job, seen, plan, cur, rows, exit, runs,
                   edits, unsettled>>

PersistChunk ==
    /\ pc = "chunks"
    /\ cur.done < NumChunks[cur.body]
    /\ \E id \in DOMAIN tx.chunks \cup {0} :
          /\ IsLastId(tx, id)
          /\ tx' = InsertChunk(tx, id + 1, [file |-> cur.path,
                                            body |-> cur.body,
                                            ord  |-> cur.done])
    /\ cur' = [cur EXCEPT !.done = @ + 1]
    /\ UNCHANGED <<disk, db, npz, sidecar, pc, job, seen, plan, rows, exit, runs,
                   edits, unsettled>>

\* RELEASE of the outermost savepoint: no BEGIN precedes it, so it commits.
ReleaseSavepoint ==
    /\ pc = "chunks"
    /\ cur.done = NumChunks[cur.body]
    /\ db' = tx
    /\ cur' = Absent
    /\ pc' = "insert"
    /\ UNCHANGED <<disk, tx, npz, sidecar, job, seen, plan, rows, exit, runs,
                   edits, unsettled>>

\* Mutant: the exception is swallowed inside the savepoint, which is released.
RollbackFileReleases ==
    /\ pc \in FileSteps
    /\ db' = tx
    /\ unsettled' = unsettled \cup {cur.path}
    /\ cur' = Absent
    /\ pc' = "insert"
    /\ UNCHANGED <<disk, tx, npz, sidecar, job, seen, plan, rows, exit, runs,
                   edits>>

\* An exception between the extraction and the release: ROLLBACK TO, RELEASE.
RollbackFile ==
    /\ pc \in FileSteps
    /\ tx' = db
    /\ unsettled' = unsettled \cup {cur.path}
    /\ cur' = Absent
    /\ pc' = "insert"
    /\ UNCHANGED <<disk, db, npz, sidecar, job, seen, plan, rows, exit, runs,
                   edits>>

InsertsDone ==
    /\ pc = "insert"
    /\ NextInserts = {}
    /\ pc' = "rows"
    /\ UNCHANGED <<disk, db, tx, npz, sidecar, job, seen, plan, cur, rows, exit,
                   runs, edits, unsettled>>

-----------------------------------------------------------------------------
(* rebuild_artifacts: each step is a rename, an unlink or a commit. *)

ReadRows ==
    /\ pc = "rows"
    /\ rows' = db.chunks
    /\ pc' = IF db.chunks = NoChunks THEN "unlink_npz" ELSE "save_npz"
    /\ UNCHANGED <<disk, db, tx, npz, sidecar, job, seen, plan, cur, exit,
                   runs, edits, unsettled>>

UnlinkNpz ==
    /\ pc = "unlink_npz"
    /\ npz' = Absent
    /\ pc' = "unlink_sidecar"
    /\ UNCHANGED <<disk, db, tx, sidecar, job, seen, plan, cur, rows, exit,
                   runs, edits, unsettled>>

\* An OSError of this unlink is swallowed.
UnlinkSidecar ==
    /\ pc = "unlink_sidecar"
    /\ sidecar' \in {sidecar, Absent}
    /\ pc' = "bump"
    /\ UNCHANGED <<disk, db, tx, npz, job, seen, plan, cur, rows, exit, runs,
                   edits, unsettled>>

\* Encode the rows, then replace embeddings.npz.
SaveNpz ==
    /\ pc = "save_npz"
    /\ npz' = [of |-> rows, model |-> job.model]
    /\ pc' = "save_sidecar"
    /\ UNCHANGED <<disk, db, tx, sidecar, job, seen, plan, cur, rows, exit,
                   runs, edits, unsettled>>

\* Mutant: a sidecar that is already there is kept.
SaveSidecarIfMissing ==
    /\ pc = "save_sidecar"
    /\ sidecar' = IF sidecar = Absent THEN [of |-> rows] ELSE sidecar
    /\ pc' = "embed_rows"
    /\ UNCHANGED <<disk, db, tx, npz, job, seen, plan, cur, rows, exit, runs,
                   edits, unsettled>>

SaveSidecar ==
    /\ pc = "save_sidecar"
    /\ sidecar' = [of |-> rows]
    /\ pc' = "embed_rows"
    /\ UNCHANGED <<disk, db, tx, npz, job, seen, plan, cur, rows, exit, runs,
                   edits, unsettled>>

Commit(catalog) == db' = catalog /\ tx' = catalog

UpdateEmbedRows ==
    /\ pc = "embed_rows"
    /\ Commit([db EXCEPT !.embedRow =
                  [i \in DOMAIN @ |-> IF i \in DOMAIN rows
                                      THEN RowNumber(rows, i) ELSE @[i]]])
    /\ pc' = "set_model"
    /\ UNCHANGED <<disk, npz, sidecar, job, seen, plan, cur, rows, exit, runs,
                   edits, unsettled>>

SetModel ==
    /\ pc = "set_model"
    /\ Commit([db EXCEPT !.model = job.model])
    /\ pc' = "set_dim"
    /\ UNCHANGED <<disk, npz, sidecar, job, seen, plan, cur, rows, exit, runs,
                   edits, unsettled>>

SetDim ==
    /\ pc = "set_dim"
    /\ Commit([db EXCEPT !.dim = Dim[job.model]])
    /\ pc' = "bump"
    /\ UNCHANGED <<disk, npz, sidecar, job, seen, plan, cur, rows, exit, runs,
                   edits, unsettled>>

\* What dies with the process of a run.
EndRun(how) ==
    /\ pc' = "idle"
    /\ exit' = how
    /\ seen' = NothingSeen
    /\ plan' = Absent
    /\ cur' = Absent
    /\ rows' = NoChunks

\* index_version becomes the clock's reading, a value never used before.
BumpVersion ==
    /\ pc = "bump"
    /\ Commit([db EXCEPT !.version = @ + 1])
    /\ EndRun("ok")
    /\ UNCHANGED <<disk, npz, sidecar, job, runs, edits, unsettled>>

\* The process is killed, or an exception leaves index_path: what its
\* connection has not committed is lost, everything else stays as it is.
Abort ==
    /\ pc # "idle"
    /\ tx' = db
    /\ EndRun(IF pc \in RebuildSteps THEN "died_rebuilding" ELSE "died")
    /\ UNCHANGED <<disk, db, npz, sidecar, job, runs, edits, unsettled>>

\* hash_fn opens a file that has gone since the walk.
DiffRaises ==
    /\ pc = "diff"
    /\ \E p \in Walked \cap Catalogued : SameStat(p) /\ disk[p] = Absent
    /\ Abort

-----------------------------------------------------------------------------
StartAny == \E root \in Roots, force \in BOOLEAN, model \in Models :
               StartRun(root, force, model)

Extract == \E p \in Paths : ExtractFile(p) \/ ExtractFails(p)

RunStep == \/ Diff \/ DiffRaises \/ DeleteObsolete
           \/ Extract \/ StatFile \/ PersistFileRow \/ PersistChunk
           \/ ReleaseSavepoint \/ RollbackFile \/ InsertsDone
           \/ ReadRows \/ UnlinkNpz \/ UnlinkSidecar
           \/ SaveNpz \/ SaveSidecar \/ UpdateEmbedRows
           \/ SetModel \/ SetDim \/ BumpVersion

EditAny == \E p \in Paths, content \in Contents \cup {Absent} : Edit(p, content)

Next == StartAny \/ RunStep \/ Abort \/ EditAny

Spec == Init /\ [][Next]_indexVars

\* A run that has been started keeps running until it ends or is killed;
\* nothing says that a user ever starts one.
FairSpec == Spec /\ WF_indexVars(RunStep)

-----------------------------------------------------------------------------
(* Types *)

\* The stat and the hash of a row need not have been of one moment.
FileRows == [stat : Stats, body : Bodies]

IsCatalog(c) ==
    /\ DOMAIN c = {"files", "chunks", "embedRow", "model", "dim", "version"}
    /\ c.files \in [Paths -> FileRows \cup {Absent}]
    /\ IsColumn(c.chunks, ChunkRows) /\ IsFiniteSet(DOMAIN c.chunks)
    /\ IsColumn(c.embedRow, Nat) /\ DOMAIN c.embedRow = DOMAIN c.chunks
    /\ c.model \in Models \cup {Absent}
    /\ c.dim \in Nat \cup {Absent}
    /\ c.version \in Nat

IsNpz(f) == /\ f = [of |-> f.of, model |-> f.model]
            /\ IsColumn(f.of, ChunkRows)
            /\ f.model \in Models

IsSidecar(f) == f = [of |-> f.of] /\ IsColumn(f.of, ChunkRows)

Jobs  == [root : Roots, force : BOOLEAN, model : Models]
Plans == [keep : SUBSET Paths, changed : SUBSET Paths, new : SUBSET Paths,
          deleted : SUBSET Paths]
Files == [path : Paths, body : Bodies, stat : Stats \cup {Absent}, done : Nat]

\* Every variable of the index has its type, and the ones that live in the
\* indexer's process are there in the steps that use them.
TypeOK ==
    /\ disk \in [Paths -> Contents \cup {Absent}]
    /\ IsCatalog(db)
    /\ IsCatalog(tx)
    /\ npz = Absent \/ IsNpz(npz)
    /\ sidecar = Absent \/ IsSidecar(sidecar)
    /\ pc \in Steps \cup {"idle"}
    /\ job \in Jobs \cup {Absent}
    /\ pc # "idle" => job \in Jobs
    /\ seen \in [Paths -> Contents \cup {Absent}]
    /\ plan \in Plans \cup {Absent}
    /\ pc \notin {"idle", "diff"} => plan \in Plans
    /\ cur \in Files \cup {Absent}
    /\ pc \in FileSteps => cur \in Files
    /\ pc = "hash" => cur.stat \in Stats
    /\ IsColumn(rows, ChunkRows) /\ IsFiniteSet(DOMAIN rows)
    /\ exit \in {"ok", "died", "died_rebuilding"}
    /\ runs \in Nat
    /\ edits \in Nat
    /\ unsettled \subseteq Paths

-----------------------------------------------------------------------------
(* What the index promises. *)

\* The files of the index belong together: embeddings.npz, the BM25 sidecar
\* and embed_row were all computed from the chunk table as it stands, with
\* the model and the dimension that meta names.
IndexAgrees ==
    IF db.chunks = NoChunks
    THEN npz = Absent
    ELSE /\ npz = [of |-> db.chunks, model |-> db.model]
         /\ sidecar = [of |-> db.chunks]
         /\ db.embedRow = EmbedRows(db.chunks)
         /\ db.dim = Dim[db.model]

\* After a run that reported success, whatever earlier runs died of and left
\* behind, the index agrees with itself until the next run starts
\* (rebuild_artifacts always rebuilds everything).
QuiescentAgreement == pc = "idle" /\ exit = "ok" => IndexAgrees

\* The committed catalog never shows part of a file: a catalogued file has
\* all the chunks of one body, in the order of their ids, and no chunk is
\* left of a file that is not catalogued (savepoint, ON DELETE CASCADE).
FilesAllOrNothing ==
    \A p \in Paths :
        LET mine == ChunksOfFiles(db.chunks, {p})
            ord(i) == db.chunks[i].ord
        IN  IF db.files[p] = Absent
            THEN mine = {}
            ELSE \E b \in Bodies :
                    /\ \A i \in mine : db.chunks[i].body = b
                    /\ {ord(i) : i \in mine} = 0 .. NumChunks[b] - 1
                    /\ \A i, j \in mine : i < j => ord(i) < ord(j)

RunSucceeded == pc = "idle" /\ exit = "ok" /\ runs > 0

\* A run that succeeded leaves exactly the tree it was given in the catalog:
\* every file that nobody touched since the walk, and that did not fail, is
\* catalogued under its current stat and hash, and nothing else is.
CatalogMatchesTree ==
    RunSucceeded =>
        \A p \in Paths \ unsettled :
            db.files[p] = IF p \in job.root THEN disk[p] ELSE Absent

\* `index --force` is the remedy for every stale row: after it the chunks of
\* a file nobody touched during the run are those of its current bytes.
ForcedRunRefreshes ==
    RunSucceeded /\ job.force =>
        \A i \in DOMAIN db.chunks :
            LET p == db.chunks[i].file
            IN  p \notin unsettled => db.chunks[i].body = disk[p].body

\* A file's row, and its chunk rows with their ids.
RowsOf(c, p) == <<c.files[p], {<<i, c.chunks[i]>> : i \in ChunksOfFiles(c.chunks, {p})}>>

\* Indexing leaves the rows of an unchanged file alone, ids included, however
\* many other files come and go in the run.
KeptFilesUntouched ==
    [][pc \notin {"idle", "diff"} =>
          \A p \in plan.keep : RowsOf(db', p) = RowsOf(db, p)]_indexVars

\* Files that fail or vanish in the middle of a run never keep it from ending.
RunEnds == pc # "idle" ~> pc = "idle"

-----------------------------------------------------------------------------
(* What comments and documents say of the index and the code does not do. *)

\* indexing.py, _apply_inserts: "Now the whole batch is one transaction":
\* nothing is committed when a file is done and others of its batch are to come.
BatchIsOneTransaction ==
    [][(pc \in FileSteps /\ pc' = "insert" /\ NextInserts' # {}) => (db' = db)]_indexVars

\* REQUIREMENTS.md: "A crashed mid-rebuild must leave the previous valid
\* index intact": where there was an index, the vectors a dead rebuild leaves
\* are those of the chunks it leaves.
CrashLeavesValidIndex ==
    pc = "idle" /\ exit = "died_rebuilding" /\ npz # Absent => npz.of = db.chunks

\* README.md, "Indexer skips a file you changed": a file is skipped only "if
\* the file is genuinely identical", otherwise reindexed: the chunks of a
\* file the index considers current are those of its bytes.
SkippedFilesAreIdentical ==
    RunSucceeded =>
        \A i \in DOMAIN db.chunks :
            LET p == db.chunks[i].file
            IN  p \notin unsettled => db.chunks[i].body = disk[p].body

\* indexing.py, _Changeset.deleted_ids: "file_ids whose paths are gone from
\* disk": the rows a run is about to delete for good are of files that have
\* gone, not of files that are only outside the root of this run.
DeletedAreGone ==
    pc = "delete" => \A p \in plan.deleted \ unsettled : disk[p] = Absent

=============================================================================
