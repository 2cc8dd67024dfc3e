-------------------------- MODULE RagEngineProofs ---------------------------
(***************************************************************************)
(* Proofs about RagEngine, for every number of threads, files, runs and    *)
(* edits.                                                                  *)
(***************************************************************************)
EXTENDS RagEngine, IndexStoreProofs

(***************************************************************************)
(* What a step of the data directory can do to a reader.                   *)
(***************************************************************************)

\* Every step of the two processes is a step, or a stutter, of the directory.
LEMMA RagStepIsIndexStep == ASSUME [RagNext]_vars PROVE [Next]_indexVars
<1>1. ASSUME NEW t \in Threads, Query(t) \/ ThreadStep(t) \/ LoadRaises(t)
      PROVE  UNCHANGED indexVars
  BY <1>1 DEF Query, ThreadStep, Compare, Acquire, Recheck, Load, Search, NpzExists,
     NpzMissing, LoadNpz, LoadNpzRaises, ReadIds, LoadSidecar, PassSidecarOver, BuildBm25,
     Publish, Refuse, LoadRaises, ScoreBm25, ScoreDense, MapDense, SearchStep
<1>2. CASE EngineNext
  BY <1>1, <1>2 DEF EngineNext, Expire
<1>3. CASE UNCHANGED vars
  BY <1>3 DEF vars
<1>4. QED
  BY <1>2, <1>3 DEF RagNext, IndexStep, Next

\* Versions are counted by the runs; a run in progress has not counted yet,
\* and its transaction never holds a version of its own.
VersionsInv ==
    /\ runs <= MaxRuns
    /\ db.version <= runs
    /\ pc # "idle" => db.version < runs
    /\ tx.version = db.version

\* The version of a catalog, through the operations of a run.
LEMMA KeptVersion ==
    ASSUME NEW c, IsCatalog(c), NEW P, NEW p, NEW content, NEW id, NEW row, NEW new
    PROVE  /\ DeleteFiles(c, P).version = c.version
           /\ InsertFile(c, p, content).version = c.version
           /\ InsertChunk(c, id, row).version = c.version
           /\ [c EXCEPT !.embedRow = new].version = c.version
           /\ [c EXCEPT !.model = new].version = c.version
           /\ [c EXCEPT !.dim = new].version = c.version
BY DEF IsCatalog, DeleteFiles, InsertFile, InsertChunk

\* The committed version grows only with the step that ends a run in success.
LEMMA VersionStep ==
    ASSUME TypeOK, VersionsInv, [Next]_indexVars
    PROVE  /\ VersionsInv'
           /\ \/ db'.version = db.version
              \/ db'.version = db.version + 1 /\ pc = "bump" /\ pc' = "idle"
<1> USE DEF VersionsInv
<1>0. /\ runs \in Nat /\ MaxRuns \in Nat
      /\ IsCatalog(db) /\ IsCatalog(tx)
      /\ db.version \in Nat /\ tx.version \in Nat
  BY BoundsAssumption DEF TypeOK, IsCatalog
<1>1. CASE StartAny
  BY <1>0, <1>1 DEF StartAny, StartRun
<1>2. CASE Diff \/ Extract \/ StatFile \/ InsertsDone \/ ReadRows \/ UnlinkNpz
           \/ UnlinkSidecar \/ SaveNpz \/ SaveSidecar
  BY <1>0, <1>2 DEF Diff, Extract, ExtractFile, ExtractFails, StatFile, InsertsDone, ReadRows,
     UnlinkNpz, UnlinkSidecar, SaveNpz, SaveSidecar
<1>3. CASE DeleteObsolete
  BY <1>0, <1>3, KeptVersion DEF DeleteObsolete
<1>4. CASE PersistFileRow
  BY <1>0, <1>4, KeptVersion DEF PersistFileRow
<1>5. CASE PersistChunk
  <2>1. PICK id, row : tx' = InsertChunk(tx, id, row)
    BY <1>5 DEF PersistChunk
  <2>2. tx'.version = tx.version
    BY <1>0, <2>1, KeptVersion
  <2>3. QED
    BY <1>0, <1>5, <2>2 DEF PersistChunk
<1>6. CASE ReleaseSavepoint \/ RollbackFile
  BY <1>0, <1>6 DEF ReleaseSavepoint, RollbackFile, FileSteps
<1>7. CASE UpdateEmbedRows \/ SetModel \/ SetDim
  <2>1. CASE UpdateEmbedRows
    BY <1>0, <2>1, KeptVersion DEF UpdateEmbedRows, Commit
  <2>2. CASE SetModel
    BY <1>0, <2>2, KeptVersion DEF SetModel, Commit
  <2>3. CASE SetDim
    BY <1>0, <2>3, KeptVersion DEF SetDim, Commit
  <2>4. QED
    BY <1>7, <2>1, <2>2, <2>3
<1>8. CASE BumpVersion
  <2>1. db'.version = db.version + 1 /\ tx' = db'
    BY <1>0, <1>8 DEF BumpVersion, Commit, IsCatalog
  <2>2. QED
    BY <1>0, <1>8, <2>1 DEF BumpVersion, EndRun
<1>9. CASE Abort
  BY <1>0, <1>9 DEF Abort, EndRun
<1>10. CASE EditAny
  BY <1>0, <1>10 DEF EditAny, Edit
<1>11. CASE UNCHANGED indexVars
  BY <1>0, <1>11 DEF indexVars
<1>12. QED
  BY <1>1, <1>2, <1>3, <1>4, <1>5, <1>6, <1>7, <1>8, <1>9, <1>10, <1>11
  DEF Next, RunStep, DiffRaises

\* An index comes to rest only with a version nobody has read yet, and at rest
\* nobody writes it.
LEMMA RestStep ==
    ASSUME TypeOK, VersionsInv, [Next]_indexVars, Settled'
    PROVE  \/ Settled /\ UNCHANGED <<db, npz, sidecar>>
           \/ db'.version > db.version
<1>1. db.version \in Nat
  BY DEF TypeOK, IsCatalog
<1>2. CASE BumpVersion
  <2>1. db'.version = db.version + 1
    BY <1>2 DEF BumpVersion, Commit, TypeOK, IsCatalog
  <2>2. QED
    BY <1>1, <2>1
<1>3. CASE StartAny
  BY <1>3 DEF StartAny, StartRun, Settled
<1>4. CASE RunStep /\ ~DiffRaises /\ ~BumpVersion
  <2>1. pc' # "idle"
    BY <1>4 DEF RunStep, Diff, DeleteObsolete, Extract, ExtractFile, ExtractFails,
       StatFile, PersistFileRow, PersistChunk, ReleaseSavepoint, RollbackFile, InsertsDone,
       ReadRows, UnlinkNpz, UnlinkSidecar, SaveNpz, SaveSidecar, UpdateEmbedRows,
       SetModel, SetDim
  <2>2. QED
    BY <2>1 DEF Settled
<1>5. CASE Abort
  BY <1>5 DEF Abort, EndRun, Settled
<1>6. CASE EditAny
  BY <1>6 DEF EditAny, Edit, Settled
<1>7. CASE UNCHANGED indexVars
  BY <1>7 DEF indexVars, Settled
<1>8. QED
  BY <1>2, <1>3, <1>4, <1>5, <1>6, <1>7 DEF Next, DiffRaises

(***************************************************************************)
(* Types and the lock.                                                     *)
(***************************************************************************)

ThreadSteps == {"idle", "compare", "wait"} \cup LoadSteps \cup SearchSteps

\* The locals of a thread that moves.
LEMMA MoveType ==
    ASSUME EngineTypeOK, NEW t \in Threads, NEW step \in ThreadSteps
    PROVE  /\ Goto(t, step) =>
                /\ tpc' \in [Threads -> ThreadSteps]
                /\ tpc'[t] = step
                /\ \A u \in Threads : u # t => tpc'[u] = tpc[u]
           /\ Leave(t, step) => tver' \in [Threads -> Versions]
<1>1. 0 \in Versions
  BY BoundsAssumption DEF Versions
<1>2. QED
  BY <1>1 DEF Goto, Leave, EngineTypeOK, ThreadSteps

\* The lock goes with the slow path, whichever way the thread moves.
LEMMA LockKept ==
    ASSUME EngineTypeOK, NEW t \in Threads, NEW step \in ThreadSteps, Goto(t, step),
           \/ /\ step \in LoadSteps
              /\ lock' = t
              /\ lock \in {Absent, t}
           \/ /\ step \notin LoadSteps
              /\ lock' = Absent
              /\ tpc[t] \in LoadSteps
           \/ /\ step \notin LoadSteps
              /\ lock' = lock
              /\ tpc[t] \notin LoadSteps
    PROVE  /\ lock' \in Threads \cup {Absent}
           /\ \A u \in Threads : tpc'[u] \in LoadSteps <=> lock' = u
<1>1. /\ tpc'[t] = step
      /\ \A u \in Threads : u # t => tpc'[u] = tpc[u]
  BY MoveType
<1>2. \A u \in Threads : u # Absent
  BY ThreadsAssumption
<1>3. QED
  BY <1>1, <1>2 DEF EngineTypeOK

LEMMA InitEngineType == ASSUME RagInit PROVE EngineTypeOK
<1>1. IsColumn(ids, ChunkRows)
  BY NoChunksIsColumn DEF RagInit, EngineInit
<1>2. 0 \in Versions
  BY BoundsAssumption DEF Versions
<1>3. QED
  BY <1>1, <1>2, ThreadsAssumption DEF RagInit, EngineInit, EngineTypeOK, LoadSteps, SearchSteps

\* The reads of the version, and its way into the cache.
LEMMA VersionReadType ==
    ASSUME TypeOK, VersionsInv, EngineTypeOK, NEW t \in Threads
    PROVE  /\ ReadVersion(t) =>
                /\ tver' \in [Threads -> Versions]
                /\ tread' \in [Threads -> {"none", "live", "late"}]
           /\ CacheRead(t) =>
                /\ cached' \in Versions \cup {Absent}
                /\ fresh' \in BOOLEAN
                /\ fresh' => cached' \in Versions
                /\ tread' \in [Threads -> {"none", "live", "late"}]
<1>1. db.version \in Versions
  BY BoundsAssumption DEF TypeOK, IsCatalog, VersionsInv, Versions
<1>2. ReadVersion(t) =>
        /\ tver' \in [Threads -> Versions]
        /\ tread' \in [Threads -> {"none", "live", "late"}]
  BY <1>1 DEF ReadVersion, EngineTypeOK
<1>3. ASSUME CacheRead(t)
      PROVE  /\ cached' \in Versions \cup {Absent}
             /\ fresh' \in BOOLEAN
             /\ fresh' => cached' \in Versions
             /\ tread' \in [Threads -> {"none", "live", "late"}]
  BY <1>3 DEF CacheRead, EngineTypeOK
<1>4. QED
  BY <1>2, <1>3

\* The directory moves, the engine stays.
LEMMA EngineTypeKept == ASSUME EngineTypeOK, UNCHANGED engineVars PROVE EngineTypeOK'
BY DEF engineVars, EngineTypeOK

\* One step of a thread.
LEMMA ThreadStepType ==
    ASSUME TypeOK, VersionsInv, EngineTypeOK, NEW t \in Threads,
           Query(t) \/ ThreadStep(t) \/ LoadRaises(t)
    PROVE  EngineTypeOK'
<1> USE DEF ThreadSteps, LoadSteps, SearchSteps
<1>0. /\ tpc[t] \in ThreadSteps
      /\ tver[t] \in Versions
      /\ tpc[t] \in LoadSteps <=> lock = t
  BY DEF EngineTypeOK
<1>1. CASE Query(t)
  <2>1. tver' \in [Threads -> Versions] /\ tread' \in [Threads -> {"none", "live", "late"}]
    BY <1>1, VersionReadType DEF Query, EngineTypeOK
  <2>2. QED
    BY <1>0, <1>1, <2>1, MoveType, LockKept DEF Query, EngineTypeOK
<1>2. CASE Compare(t)
  <2> DEFINE step == IF UpToDate(t) THEN "bm25_score" ELSE "wait"
  <2>1. step \in ThreadSteps /\ step \notin LoadSteps /\ Goto(t, step) /\ Leave(t, step)
    BY <1>2 DEF Compare, Leave
  <2>2. CacheRead(t) /\ tpc[t] = "compare" /\ lock' = lock
    BY <1>2 DEF Compare
  <2> HIDE DEF step
  <2>3. QED
    BY <1>0, <1>2, <2>1, <2>2, MoveType, LockKept, VersionReadType
    DEF Compare, EngineTypeOK
<1>3. CASE Acquire(t)
  BY <1>0, <1>3, MoveType, LockKept, VersionReadType DEF Acquire, EngineTypeOK
<1>4. CASE Recheck(t) /\ UpToDate(t)
  BY <1>0, <1>4, MoveType, LockKept, VersionReadType DEF Recheck, Leave, EngineTypeOK
<1>5. CASE Recheck(t) /\ ~UpToDate(t)
  BY <1>0, <1>5, MoveType, LockKept, VersionReadType DEF Recheck, EngineTypeOK
<1>6. CASE NpzExists(t)
  BY <1>0, <1>6, MoveType, LockKept DEF NpzExists, EngineTypeOK
<1>7. CASE NpzMissing(t)
  BY <1>0, <1>7, MoveType, LockKept, NoChunksIsColumn DEF NpzMissing, EngineTypeOK
<1>8. CASE LoadNpz(t)
  BY <1>0, <1>8, MoveType, LockKept DEF LoadNpz, EngineTypeOK, TypeOK
<1>9. CASE LoadNpzRaises(t)
  BY <1>0, <1>9, MoveType, LockKept DEF LoadNpzRaises, Leave, EngineTypeOK
<1>10. CASE ReadIds(t)
  BY <1>0, <1>10, MoveType, LockKept, CatalogColumns DEF ReadIds, EngineTypeOK, TypeOK
<1>11. CASE LoadSidecar(t)
  <2>1. bm25' = Absent \/ IsColumn(bm25', ChunkRows)
    BY <1>11 DEF LoadSidecar, SidecarFits, IsSidecar, TypeOK, EngineTypeOK
  <2>2. QED
    BY <1>0, <1>11, <2>1, MoveType, LockKept DEF LoadSidecar, EngineTypeOK
<1>12. CASE BuildBm25(t)
  <2>1. bm25' = Absent \/ IsColumn(bm25', ChunkRows)
    BY <1>12, CatalogColumns DEF BuildBm25, TypeOK
  <2>2. QED
    BY <1>0, <1>12, <2>1, MoveType, LockKept DEF BuildBm25, EngineTypeOK
<1>13. CASE Publish(t)
  <2>1. loadsOf' \in [Versions -> Nat]
    BY <1>0, <1>13 DEF Publish, EngineTypeOK
  <2>2. QED
    BY <1>0, <1>13, <2>1, MoveType, LockKept DEF Publish, Leave, EngineTypeOK
<1>14. CASE Refuse(t)
  BY <1>0, <1>14, MoveType, LockKept, NoChunksIsColumn DEF Refuse, Leave, EngineTypeOK
<1>15. ASSUME Search(t)
       PROVE  EngineTypeOK'
  <2>1. /\ DOMAIN scored' = Threads
        /\ \A u \in Threads : scored'[u] = Absent \/ IsColumn(scored'[u].of, ChunkRows)
    BY <1>15 DEF Search, ScoreBm25, ScoreDense, MapDense, Scored, EngineTypeOK, IsNpz
  <2>2. PICK step \in SearchSteps \cup {"idle"} : Goto(t, step)
    BY <1>15 DEF Search, ScoreBm25, ScoreDense, MapDense, SearchStep
  <2>3. /\ tpc[t] \in SearchSteps
        /\ UNCHANGED <<loaded, loadedVersion, emb, ids, bm25, cached, fresh, lock,
                       tver, tread, loadsOf>>
    BY <1>15 DEF Search, ScoreBm25, ScoreDense, MapDense, SearchStep
  <2>4. QED
    BY <1>0, <2>1, <2>2, <2>3, MoveType, LockKept DEF EngineTypeOK
<1>16. CASE PassSidecarOver(t)
  BY <1>0, <1>16, MoveType, LockKept DEF PassSidecarOver, EngineTypeOK
<1>17. CASE LoadRaises(t)
  <2>1. tread' \in [Threads -> {"none", "live", "late"}]
    BY <1>17 DEF LoadRaises, EngineTypeOK
  <2>2. QED
    BY <1>0, <1>17, <2>1, MoveType, LockKept DEF LoadRaises, Leave, EngineTypeOK
<1>18. QED
  BY <1>1, <1>2, <1>3, <1>4, <1>5, <1>6, <1>7, <1>8, <1>9, <1>10, <1>11, <1>12,
     <1>13, <1>14, <1>15, <1>16, <1>17 DEF ThreadStep, Load

LEMMA EngineStepType ==
    ASSUME TypeOK, VersionsInv, EngineTypeOK, [RagNext]_vars
    PROVE  EngineTypeOK'
<1>1. CASE Expire
  BY <1>1 DEF Expire, EngineTypeOK
<1>2. ASSUME NEW t \in Threads, Query(t) \/ ThreadStep(t) \/ LoadRaises(t)
      PROVE  EngineTypeOK'
  BY <1>2, ThreadStepType
<1>3. CASE UNCHANGED engineVars
  BY <1>3, EngineTypeKept
<1>4. QED
  BY <1>1, <1>2, <1>3 DEF RagNext, EngineNext, IndexStep, vars

\* What holds of the directory's types and versions holds next to an engine.
LEMMA IndexInvariants == RagSpec => [](TypeOK /\ VersionsInv)
<1>1. RagInit => TypeOK /\ VersionsInv
  BY InitType, BoundsAssumption DEF RagInit, Init, EmptyCatalog, VersionsInv
<1>2. TypeOK /\ VersionsInv /\ [RagNext]_vars => TypeOK' /\ VersionsInv'
  BY RagStepIsIndexStep, StepType, VersionStep
<1>3. QED
  BY <1>1, <1>2, PTL DEF RagSpec

\* The engine's variables have their types, and of all threads exactly the one
\* that holds _lock is in the slow path (RagEngine's EngineTypeOK).
THEOREM EngineTypeCorrect == RagSpec => []EngineTypeOK
<1>1. RagInit => EngineTypeOK
  BY InitEngineType
<1>2. TypeOK /\ VersionsInv /\ EngineTypeOK /\ [RagNext]_vars => EngineTypeOK'
  BY EngineStepType
<1>3. QED
  BY <1>1, <1>2, IndexInvariants, PTL DEF RagSpec

(***************************************************************************)
(* What a loaded version stands for.  The version is read before the rest, *)
(* so a load that overlaps a run carries a version that is out of date as  *)
(* soon as that run has succeeded; a load that does not reads the one      *)
(* index there is.                                                         *)
(***************************************************************************)

\* Nobody knows of a version that has not been committed.
KnownVersions ==
    /\ \A t \in Threads : tver[t] <= db.version
    /\ cached \in Versions => cached <= db.version
    /\ loaded => loadedVersion \in Versions
    /\ loadedVersion \in Versions => loadedVersion <= db.version

\* What the thread that loads has read so far is the index.
ReadSoFar(t) ==
    /\ tpc[t] = "npz" => npz # Absent
    /\ tpc[t] \in {"ids", "sidecar", "texts"} => npz # Absent /\ emb = npz
    /\ tpc[t] \in {"sidecar", "texts"} => ids = db.chunks
    /\ tpc[t] = "validate" => ServesIndex

LoadsCurrent ==
    \A t \in Threads : Settled /\ lock = t /\ tver[t] = db.version => ReadSoFar(t)

\* The arrays are those of the last publication.
Untouched == \A t \in Threads : lock = t => tpc[t] \in {"recheck", "exists", "npz"}

ServesCurrent ==
    Settled /\ loaded /\ loadedVersion = db.version /\ Untouched => ServesIndex

\* A thread in the slow path knows a version at least as new as the loaded
\* one, and one that loads knows a version nobody has loaded.
LoadsNewer ==
    \A t \in Threads : lock = t =>
        /\ loadedVersion \in Versions => loadedVersion <= tver[t]
        /\ tpc[t] # "recheck" /\ loaded => loadedVersion # tver[t]
        /\ tpc[t] # "recheck" \/ ~loaded =>
              \A v \in Versions : tver[t] <= v => loadsOf[v] = 0

LoadsCounted ==
    /\ EachVersionLoadedOnce
    /\ \A v \in Versions : (IF loaded THEN loadedVersion < v ELSE db.version <= v)
                             => loadsOf[v] = 0

EngineInv == /\ KnownVersions /\ LoadsCurrent /\ ServesCurrent
             /\ LoadsNewer /\ LoadsCounted

LEMMA VersionsAreNumbers == \A v \in Versions : v \in Nat /\ 0 <= v /\ v <= v
BY BoundsAssumption DEF Versions

\* What the proofs below need of the types.
LEMMA VersionTypes ==
    ASSUME TypeOK, VersionsInv, EngineTypeOK
    PROVE  /\ db.version \in Versions /\ db.version \in Nat
           /\ Versions \subseteq Nat
           /\ Absent \notin Versions
           /\ Absent \notin Threads
           /\ \A t \in Threads : tver[t] \in Versions /\ loadsOf[tver[t]] \in Nat
           /\ \A v \in Versions : loadsOf[v] \in Nat
           /\ cached \in Versions \cup {Absent}
           /\ loadedVersion \in Versions \cup {Absent}
           /\ \A t \in Threads : tpc[t] \in LoadSteps <=> lock = t
BY BoundsAssumption, AbsentAssumption, ThreadsAssumption
DEF TypeOK, IsCatalog, VersionsInv, Versions, EngineTypeOK

LEMMA InitEngineInv == ASSUME RagInit PROVE EngineInv
<1>1. /\ 0 \in Versions /\ Versions \subseteq Nat /\ Absent \notin Versions
      /\ Absent \notin Threads
  BY BoundsAssumption, AbsentAssumption, ThreadsAssumption DEF Versions
<1>2. db.version = 0 /\ ~loaded /\ loadedVersion = Absent /\ cached = Absent /\ lock = Absent
  BY DEF RagInit, Init, EngineInit, EmptyCatalog
<1>3. /\ \A t \in Threads : tver[t] = 0
      /\ \A v \in Versions : loadsOf[v] = 0
  BY DEF RagInit, EngineInit
<1>4. QED
  BY <1>1, <1>2, <1>3
  DEF EngineInv, KnownVersions, LoadsCurrent, ServesCurrent, LoadsNewer, LoadsCounted,
      EachVersionLoadedOnce

\* A step of the directory.
LEMMA IndexStepKeepsEngine ==
    ASSUME TypeOK, VersionsInv, EngineTypeOK, EngineInv,
           [Next]_indexVars, UNCHANGED engineVars
    PROVE  EngineInv'
<1>0. /\ VersionsInv'
      /\ db'.version = db.version \/ db'.version = db.version + 1
  BY VersionStep
<1>1. /\ UNCHANGED <<loaded, loadedVersion, emb, ids, bm25, cached, lock, tpc, tver, loadsOf>>
      /\ Versions' = Versions
  BY DEF engineVars, Versions
<1>2. KnownVersions'
  BY <1>0, <1>1, VersionTypes DEF EngineInv, KnownVersions
<1>3. LoadsNewer' /\ LoadsCounted'
  BY <1>0, <1>1, VersionTypes DEF EngineInv, LoadsNewer, LoadsCounted, EachVersionLoadedOnce
<1>4. CASE Settled' /\ Settled /\ UNCHANGED <<db, npz, sidecar>>
  BY <1>1, <1>2, <1>3, <1>4
  DEF EngineInv, LoadsCurrent, ServesCurrent, Untouched, ReadSoFar, ServesIndex
<1>5. CASE Settled' /\ db'.version > db.version
  <2>1. \A t \in Threads : tver'[t] # db'.version
    BY <1>0, <1>1, <1>5, VersionTypes DEF EngineInv, KnownVersions
  <2>2. loaded' => loadedVersion' # db'.version
    BY <1>0, <1>1, <1>5, VersionTypes DEF EngineInv, KnownVersions
  <2>3. QED
    BY <1>2, <1>3, <2>1, <2>2 DEF EngineInv, LoadsCurrent, ServesCurrent
<1>6. CASE ~Settled'
  BY <1>2, <1>3, <1>6 DEF EngineInv, LoadsCurrent, ServesCurrent
<1>7. QED
  BY <1>4, <1>5, <1>6, RestStep

\* A step outside the slow path touches nothing the load depends on.
LEMMA OutsideSlowPath ==
    ASSUME TypeOK, VersionsInv, EngineTypeOK, EngineInv, NEW t \in Threads,
           UNCHANGED <<indexVars, loaded, loadedVersion, emb, ids, bm25, lock, loadsOf>>,
           lock # t,
           tpc' = [tpc EXCEPT ![t] = tpc'[t]],
           tver' = [tver EXCEPT ![t] = tver'[t]],
           tver'[t] <= db.version,
           cached' \in Versions => cached' <= db.version
    PROVE  EngineInv'
<1>0. /\ UNCHANGED <<db, npz, sidecar, pc, exit>>
      /\ Versions' = Versions
  BY DEF indexVars, Versions
<1>1. \A u \in Threads : u # t => tpc'[u] = tpc[u] /\ tver'[u] = tver[u]
  BY DEF EngineTypeOK
<1>2. KnownVersions'
  BY <1>0, <1>1 DEF EngineInv, KnownVersions
<1>3. LoadsCurrent'
  BY <1>0, <1>1 DEF EngineInv, LoadsCurrent, ReadSoFar, ServesIndex, Settled
<1>4. ServesCurrent'
  BY <1>0, <1>1 DEF EngineInv, ServesCurrent, Untouched, ServesIndex, Settled
<1>5. LoadsNewer'
  BY <1>0, <1>1 DEF EngineInv, LoadsNewer
<1>6. LoadsCounted'
  BY <1>0, <1>1 DEF EngineInv, LoadsCounted, EachVersionLoadedOnce
<1>7. QED
  BY <1>2, <1>3, <1>4, <1>5, <1>6 DEF EngineInv

\* A read inside the slow path: what the thread has read so far is passed on.
LEMMA LoadReads ==
    ASSUME TypeOK, VersionsInv, EngineTypeOK, EngineInv, NEW t \in Threads,
           UNCHANGED <<indexVars, loaded, loadedVersion, cached, lock, tver, loadsOf>>,
           lock = t, tpc' = [tpc EXCEPT ![t] = tpc'[t]],
           tpc[t] # "recheck", tpc'[t] # "recheck",
           Settled /\ tver[t] = db.version => ReadSoFar(t)',
           Untouched' => Untouched /\ UNCHANGED <<emb, ids, bm25>>
    PROVE  EngineInv'
<1>0. /\ UNCHANGED <<db, npz, sidecar, pc, exit>>
      /\ Versions' = Versions
  BY DEF indexVars, Versions
<1>1. \A u \in Threads : lock' = u => u = t
  OBVIOUS
<1>2. KnownVersions'
  BY <1>0 DEF EngineInv, KnownVersions
<1>3. LoadsCurrent'
  BY <1>0, <1>1 DEF LoadsCurrent, Settled
<1>4. ServesCurrent'
  BY <1>0 DEF EngineInv, ServesCurrent, ServesIndex, Settled
<1>5. LoadsNewer'
  BY <1>0, <1>1 DEF EngineInv, LoadsNewer
<1>6. LoadsCounted'
  BY <1>0 DEF EngineInv, LoadsCounted, EachVersionLoadedOnce
<1>7. QED
  BY <1>2, <1>3, <1>4, <1>5, <1>6 DEF EngineInv

\* At rest the sidecar and the catalog are of the same chunks as the vectors.
LEMMA AtRest ==
    ASSUME QuiescentAgreement, Settled, npz # Absent
    PROVE  db.chunks # NoChunks /\ sidecar = [of |-> db.chunks]
BY DEF QuiescentAgreement, Settled, IndexAgrees

LEMMA LoadKeepsEngineInv ==
    ASSUME TypeOK, VersionsInv, EngineTypeOK, EngineInv, QuiescentAgreement,
           NEW t \in Threads, lock = t,
           \/ NpzExists(t) \/ NpzMissing(t) \/ LoadNpz(t)
           \/ ReadIds(t) \/ LoadSidecar(t) \/ PassSidecarOver(t) \/ BuildBm25(t)
    PROVE  EngineInv'
<1>0. /\ \A u \in Threads : u # t => lock # u
      /\ tpc \in [Threads -> ThreadSteps]
      /\ Settled /\ tver[t] = db.version => ReadSoFar(t)
  BY DEF EngineTypeOK, ThreadSteps, EngineInv, LoadsCurrent
<1>1. CASE NpzExists(t)
  BY <1>0, <1>1, LoadReads DEF NpzExists, Goto, ReadSoFar, Untouched, indexVars
<1>2. CASE NpzMissing(t)
  <2>1. tpc[t] = "exists" /\ tpc'[t] = "validate" /\ lock' = t
    BY <1>0, <1>2 DEF NpzMissing, Goto
  <2>2. ServesIndex'
    BY <1>2 DEF NpzMissing, ServesIndex, indexVars
  <2>3. QED
    BY <1>2, <2>1, <2>2, LoadReads DEF NpzMissing, Goto, ReadSoFar, Untouched
<1>3. CASE LoadNpz(t)
  <2>1. tpc[t] = "npz" /\ tpc'[t] = "ids" /\ lock' = t
    BY <1>0, <1>3 DEF LoadNpz, Goto
  <2>2. npz' # Absent /\ emb' = npz'
    BY <1>3 DEF LoadNpz, indexVars
  <2>3. QED
    BY <1>3, <2>1, <2>2, LoadReads DEF LoadNpz, Goto, ReadSoFar, Untouched
<1>4. CASE ReadIds(t)
  <2>1. tpc[t] = "ids" /\ tpc'[t] = "sidecar" /\ lock' = t
    BY <1>0, <1>4 DEF ReadIds, Goto
  <2>2. ids' = db'.chunks /\ UNCHANGED <<emb, npz>>
    BY <1>4 DEF ReadIds, indexVars
  <2>3. QED
    BY <1>0, <1>4, <2>1, <2>2, LoadReads DEF ReadIds, Goto, ReadSoFar, Untouched
<1>5. CASE LoadSidecar(t)
  <2>1. tpc[t] = "sidecar" /\ tpc'[t] = "validate" /\ lock' = t
    BY <1>0, <1>5 DEF LoadSidecar, Goto
  <2>2. UNCHANGED <<emb, ids, npz, db>>
    BY <1>5 DEF LoadSidecar, indexVars
  <2>3. ASSUME Settled, tver[t] = db.version
        PROVE  ReadSoFar(t)'
    <3>1. npz # Absent /\ emb = npz /\ ids = db.chunks
      BY <1>0, <2>1, <2>3 DEF ReadSoFar
    <3>2. sidecar.of = db.chunks
      BY <2>3, <3>1, AtRest
    <3>3. bm25' = sidecar.of
      BY <1>5 DEF LoadSidecar
    <3>4. ServesIndex'
      BY <2>2, <3>1, <3>2, <3>3 DEF ServesIndex
    <3>5. QED
      BY <2>1, <3>4 DEF ReadSoFar
  <2>4. QED
    BY <1>5, <2>1, <2>3, LoadReads DEF LoadSidecar, Goto, Untouched
<1>6. CASE BuildBm25(t)
  <2>1. tpc[t] = "texts" /\ tpc'[t] = "validate" /\ lock' = t
    BY <1>0, <1>6 DEF BuildBm25, Goto
  <2>2. UNCHANGED <<emb, ids, npz, db>>
    BY <1>6 DEF BuildBm25, indexVars
  <2>3. ASSUME Settled, tver[t] = db.version
        PROVE  ServesIndex'
    <3>1. npz # Absent /\ emb = npz /\ ids = db.chunks
      BY <1>0, <2>1, <2>3 DEF ReadSoFar
    <3>2. bm25' = db.chunks
      BY <1>6, <2>3, <3>1, AtRest DEF BuildBm25
    <3>3. QED
      BY <2>2, <3>1, <3>2 DEF ServesIndex
  <2>4. QED
    BY <1>6, <2>1, <2>3, LoadReads DEF BuildBm25, Goto, ReadSoFar, Untouched
<1>7. CASE PassSidecarOver(t)
  <2>1. tpc[t] = "sidecar" /\ tpc'[t] = "texts" /\ lock' = t
    BY <1>0, <1>7 DEF PassSidecarOver, Goto
  <2>2. UNCHANGED <<emb, ids, npz, db>>
    BY <1>7 DEF PassSidecarOver, indexVars
  <2>3. QED
    BY <1>0, <1>7, <2>1, <2>2, LoadReads DEF PassSidecarOver, Goto, ReadSoFar, Untouched
<1>8. QED
  BY <1>1, <1>2, <1>3, <1>4, <1>5, <1>6, <1>7

\* The steps outside the slow path.
LEMMA OutsideKeepsEngineInv ==
    ASSUME TypeOK, VersionsInv, EngineTypeOK, EngineInv, NEW t \in Threads,
           Query(t) \/ Compare(t) \/ Search(t)
    PROVE  EngineInv'
<1>0. /\ tpc \in [Threads -> ThreadSteps] /\ tver \in [Threads -> Versions]
      /\ tver[t] <= db.version
      /\ cached \in Versions => cached <= db.version
      /\ fresh => cached \in Versions
      /\ db.version \in Versions /\ db.version \in Nat
  BY VersionTypes DEF EngineTypeOK, ThreadSteps, EngineInv, KnownVersions
<1>1. CASE Query(t)
  <2>1. tpc[t] = "idle" /\ tpc' = [tpc EXCEPT ![t] = tpc'[t]]
    BY <1>0, <1>1 DEF Query, Goto
  <2>2. tver' = [tver EXCEPT ![t] = IF fresh THEN cached ELSE db.version]
    BY <1>1 DEF Query, ReadVersion
  <2>3. tver' = [tver EXCEPT ![t] = tver'[t]] /\ tver'[t] <= db.version
    <3>1. CASE fresh
      <4>1. tver' = [tver EXCEPT ![t] = cached] /\ tver'[t] = cached
        BY <1>0, <2>2, <3>1
      <4>2. QED
        BY <1>0, <3>1, <4>1
    <3>2. CASE ~fresh
      <4>1. tver' = [tver EXCEPT ![t] = db.version] /\ tver'[t] = db.version
        BY <1>0, <2>2, <3>2
      <4>2. QED
        BY <1>0, <4>1
    <3>3. QED
      BY <3>1, <3>2
  <2>4. lock # t
    BY <2>1 DEF EngineTypeOK, LoadSteps
  <2>5. QED
    BY <1>0, <1>1, <2>1, <2>3, <2>4, OutsideSlowPath DEF Query
<1>2. CASE Compare(t)
  <2>1. tpc[t] = "compare" /\ tpc' = [tpc EXCEPT ![t] = tpc'[t]]
    BY <1>0, <1>2 DEF Compare, Leave, Goto
  <2>2. tver' = [tver EXCEPT ![t] = tver'[t]] /\ tver'[t] = 0
    BY <1>0, <1>2 DEF Compare, Leave
  <2>3. cached' \in Versions => cached' <= db.version
    BY <1>0, <1>2 DEF Compare, CacheRead
  <2>4. lock # t
    BY <2>1 DEF EngineTypeOK, LoadSteps
  <2>5. tver'[t] <= db.version
    BY <1>0, <2>2
  <2>6. QED
    BY <1>2, <2>1, <2>2, <2>3, <2>4, <2>5, OutsideSlowPath DEF Compare
<1>3. CASE Search(t)
  <2>1. PICK to : SearchStep(t, tpc[t], to) /\ tpc[t] \in SearchSteps
    BY <1>3 DEF Search, ScoreBm25, ScoreDense, MapDense, SearchStep, SearchSteps
  <2>2. tpc' = [tpc EXCEPT ![t] = tpc'[t]] /\ tver' = [tver EXCEPT ![t] = tver'[t]]
    BY <1>0, <2>1 DEF SearchStep, Goto
  <2>3. lock # t
    BY <2>1 DEF EngineTypeOK, LoadSteps, SearchSteps
  <2>4. QED
    BY <1>0, <2>1, <2>2, <2>3, OutsideSlowPath DEF SearchStep
<1>4. QED
  BY <1>1, <1>2, <1>3

\* A second passes.
LEMMA ExpireKeepsEngineInv ==
    ASSUME EngineInv, Expire
    PROVE  EngineInv'
<1>1. /\ UNCHANGED <<loaded, loadedVersion, emb, ids, bm25, cached, lock, tpc, tver, loadsOf>>
      /\ UNCHANGED <<db, npz, sidecar, pc, exit>>
      /\ Versions' = Versions
  BY DEF Expire, indexVars, Versions
<1>2. KnownVersions' /\ LoadsNewer' /\ LoadsCounted'
  BY <1>1 DEF EngineInv, KnownVersions, LoadsNewer, LoadsCounted, EachVersionLoadedOnce
<1>3. LoadsCurrent' /\ ServesCurrent'
  BY <1>1 DEF EngineInv, LoadsCurrent, ServesCurrent, ReadSoFar, Untouched, ServesIndex, Settled
<1>4. QED
  BY <1>2, <1>3 DEF EngineInv

\* Into the slow path.
LEMMA AcquireKeepsEngineInv ==
    ASSUME TypeOK, VersionsInv, EngineTypeOK, EngineInv, NEW t \in Threads, Acquire(t)
    PROVE  EngineInv'
<1>0. /\ tpc \in [Threads -> ThreadSteps] /\ tver \in [Threads -> Versions]
      /\ db.version \in Versions /\ db.version \in Nat
      /\ Absent \notin Threads
  BY VersionTypes DEF EngineTypeOK, ThreadSteps
<1>1. /\ UNCHANGED <<loaded, loadedVersion, emb, ids, bm25, cached, loadsOf>>
      /\ UNCHANGED <<db, npz, sidecar, pc, exit>>
      /\ Versions' = Versions
      /\ lock = Absent /\ lock' = t
  BY DEF Acquire, indexVars, Versions
<1>2. /\ tpc'[t] = "recheck"
      /\ tver'[t] = db.version
      /\ \A u \in Threads : u # t => tver'[u] = tver[u]
  BY <1>0 DEF Acquire, Goto, ReadVersion
<1>3. KnownVersions'
  <2>1. \A u \in Threads : tver'[u] <= db'.version
    BY <1>0, <1>1, <1>2 DEF EngineInv, KnownVersions
  <2>2. QED
    BY <1>1, <2>1 DEF EngineInv, KnownVersions
<1>4. LoadsCurrent'
  BY <1>1, <1>2 DEF LoadsCurrent, ReadSoFar
<1>5. ServesCurrent'
  BY <1>0, <1>1 DEF EngineInv, ServesCurrent, Untouched, ServesIndex, Settled
<1>6. LoadsNewer'
  BY <1>1, <1>2 DEF EngineInv, KnownVersions, LoadsCounted, LoadsNewer
<1>7. LoadsCounted'
  BY <1>1 DEF EngineInv, LoadsCounted, EachVersionLoadedOnce
<1>8. QED
  BY <1>3, <1>4, <1>5, <1>6, <1>7 DEF EngineInv

\* The second look at the version, under the lock.
LEMMA RecheckKeepsEngineInv ==
    ASSUME TypeOK, VersionsInv, EngineTypeOK, EngineInv, NEW t \in Threads, Recheck(t)
    PROVE  EngineInv'
<1>0. /\ tpc \in [Threads -> ThreadSteps] /\ tver \in [Threads -> Versions]
      /\ db.version \in Versions /\ db.version \in Nat
      /\ Absent \notin Threads
      /\ tpc[t] = "recheck" /\ lock = t
      /\ \A u \in Threads : tver[u] <= db.version
  BY VersionTypes DEF EngineTypeOK, ThreadSteps, Recheck, LoadSteps, EngineInv, KnownVersions
<1>1. /\ UNCHANGED <<loaded, loadedVersion, emb, ids, bm25, loadsOf>>
      /\ UNCHANGED <<db, npz, sidecar, pc, exit>>
      /\ Versions' = Versions
  BY DEF Recheck, indexVars, Versions
<1>2. cached' \in Versions => cached' <= db.version
  BY <1>0 DEF Recheck, CacheRead, EngineInv, KnownVersions
<1>3. LoadsCounted'
  BY <1>1 DEF EngineInv, LoadsCounted, EachVersionLoadedOnce
<1>4. CASE UpToDate(t)
  <2>1. lock' = Absent /\ tver' = [tver EXCEPT ![t] = 0]
    BY <1>4 DEF Recheck, Leave
  <2>2. KnownVersions'
    <3>1. \A u \in Threads : tver'[u] <= db'.version
      BY <1>0, <1>1, <2>1
    <3>2. QED
      BY <1>1, <1>2, <3>1 DEF EngineInv, KnownVersions
  <2>3. LoadsCurrent' /\ LoadsNewer'
    BY <1>0, <2>1 DEF LoadsCurrent, LoadsNewer
  <2>4. ServesCurrent'
    BY <1>0, <1>1, <2>1 DEF EngineInv, ServesCurrent, Untouched, ServesIndex, Settled
  <2>5. QED
    BY <1>3, <2>2, <2>3, <2>4 DEF EngineInv
<1>5. CASE ~UpToDate(t)
  <2>1. lock' = lock /\ tver' = tver /\ tpc'[t] = "exists"
    BY <1>0, <1>5 DEF Recheck, Goto
  <2>2. KnownVersions'
    BY <1>0, <1>1, <1>2, <2>1 DEF EngineInv, KnownVersions
  <2>3. LoadsCurrent'
    BY <1>0, <2>1 DEF LoadsCurrent, ReadSoFar
  <2>4. ServesCurrent'
    BY <1>0, <1>1, <2>1 DEF EngineInv, ServesCurrent, Untouched, ServesIndex, Settled
  <2>5. ASSUME loaded PROVE loadedVersion \in Versions /\ loadedVersion < tver[t]
    <3>1. loadedVersion \in Versions
      BY <2>5 DEF EngineInv, KnownVersions
    <3>2. loadedVersion # tver[t]
      BY <1>5, <2>5 DEF UpToDate
    <3>3. loadedVersion <= tver[t]
      BY <1>0, <3>1 DEF EngineInv, LoadsNewer
    <3>4. loadedVersion \in Nat /\ tver[t] \in Nat
      BY <1>0, <3>1, VersionsAreNumbers
    <3>5. QED
      BY <3>1, <3>2, <3>3, <3>4
  <2>6. \A v \in Versions : tver[t] <= v => loadsOf[v] = 0
    <3>1. CASE loaded
      <4>1. loadedVersion \in Nat /\ tver[t] \in Nat /\ loadedVersion < tver[t]
        BY <1>0, <2>5, <3>1, VersionsAreNumbers
      <4>2. \A v \in Versions : tver[t] <= v => loadedVersion < v
        BY <4>1, VersionsAreNumbers
      <4>3. QED
        BY <3>1, <4>2 DEF EngineInv, LoadsCounted
    <3>2. CASE ~loaded
      BY <1>0, <3>2 DEF EngineInv, LoadsNewer
    <3>3. QED
      BY <3>1, <3>2
  <2>7. LoadsNewer'
    BY <1>0, <1>1, <1>5, <2>1, <2>6 DEF EngineInv, LoadsNewer, UpToDate
  <2>8. QED
    BY <1>3, <2>2, <2>3, <2>4, <2>7 DEF EngineInv
<1>6. QED
  BY <1>4, <1>5

\* Out of the slow path.
LEMMA EndOfLoadKeepsEngineInv ==
    ASSUME TypeOK, VersionsInv, EngineTypeOK, EngineInv, NEW t \in Threads,
           LoadNpzRaises(t) \/ Publish(t) \/ Refuse(t)
    PROVE  EngineInv'
<1>0. /\ tver \in [Threads -> Versions]
      /\ loadsOf \in [Versions -> Nat]
      /\ db.version \in Versions /\ db.version \in Nat
      /\ Absent \notin Threads /\ Absent \notin Versions
      /\ tpc[t] \in LoadSteps /\ tpc[t] # "recheck" /\ lock = t
      /\ \A u \in Threads : tver[u] <= db.version
      /\ \A v \in Versions : tver[t] <= v => loadsOf[v] = 0
  BY VersionTypes
  DEF EngineTypeOK, LoadNpzRaises, Publish, Refuse, LoadSteps, EngineInv, KnownVersions,
      LoadsNewer
<1>1. /\ UNCHANGED <<db, npz, sidecar, pc, exit, cached>>
      /\ Versions' = Versions
      /\ lock' = Absent
      /\ tver' = [tver EXCEPT ![t] = 0]
  BY DEF LoadNpzRaises, Publish, Refuse, Leave, indexVars, Versions
<1>2. LoadsCurrent' /\ LoadsNewer'
  BY <1>0, <1>1 DEF LoadsCurrent, LoadsNewer
<1>3. \A u \in Threads : tver'[u] <= db'.version
  <2>1. 0 <= db.version
    BY <1>0
  <2>2. QED
    BY <1>0, <1>1, <2>1
<1>4. CASE LoadNpzRaises(t)
  <2>1. UNCHANGED <<loaded, loadedVersion, emb, ids, bm25, loadsOf>> /\ tpc[t] = "npz"
    BY <1>4 DEF LoadNpzRaises
  <2>2. KnownVersions' /\ LoadsCounted'
    BY <1>1, <1>3, <2>1
    DEF EngineInv, KnownVersions, LoadsCounted, EachVersionLoadedOnce
  <2>3. ServesCurrent'
    BY <1>0, <1>1, <2>1 DEF EngineInv, ServesCurrent, Untouched, ServesIndex, Settled
  <2>4. QED
    BY <1>2, <2>2, <2>3 DEF EngineInv
<1>5. CASE Publish(t)
  <2>1. /\ UNCHANGED <<emb, ids, bm25>>
        /\ loaded' /\ loadedVersion' = tver[t]
        /\ loadsOf' = [loadsOf EXCEPT ![tver[t]] = @ + 1]
        /\ tpc[t] = "validate"
    BY <1>5 DEF Publish
  <2>2. KnownVersions'
    BY <1>0, <1>1, <1>3, <2>1 DEF EngineInv, KnownVersions
  <2>3. LoadsCounted'
    <3>1. \A v \in Versions :
            loadsOf'[v] = IF v = tver[t] THEN loadsOf[v] + 1 ELSE loadsOf[v]
      BY <1>0, <2>1
    <3>2. tver[t] \in Versions /\ loadsOf[tver[t]] = 0
      BY <1>0, VersionsAreNumbers
    <3>3. EachVersionLoadedOnce'
      BY <1>1, <3>1, <3>2 DEF EngineInv, LoadsCounted, EachVersionLoadedOnce
    <3>4. \A v \in Versions : tver[t] < v => loadsOf'[v] = 0
      BY <1>0, <3>1, VersionsAreNumbers
    <3>5. QED
      BY <1>1, <2>1, <3>3, <3>4 DEF LoadsCounted
  <2>4. ServesCurrent'
    BY <1>0, <1>1, <2>1
    DEF EngineInv, LoadsCurrent, ReadSoFar, ServesCurrent, ServesIndex, Settled
  <2>5. QED
    BY <1>2, <2>2, <2>3, <2>4 DEF EngineInv
<1>6. CASE Refuse(t)
  <2>1. ~loaded' /\ loadedVersion' = Absent /\ loadsOf' = loadsOf
    BY <1>6 DEF Refuse
  <2>2. KnownVersions' /\ ServesCurrent'
    BY <1>0, <1>1, <1>3, <2>1 DEF EngineInv, KnownVersions, ServesCurrent
  <2>3. LoadsCounted'
    <3>1. \A v \in Versions : db.version <= v => tver[t] <= v
      BY <1>0, VersionsAreNumbers
    <3>2. EachVersionLoadedOnce'
      BY <1>1, <2>1 DEF EngineInv, LoadsCounted, EachVersionLoadedOnce
    <3>3. QED
      BY <1>0, <1>1, <2>1, <3>1, <3>2 DEF LoadsCounted
  <2>4. QED
    BY <1>2, <2>2, <2>3 DEF EngineInv
<1>7. QED
  BY <1>4, <1>5, <1>6

\* A load that dies halfway leaves the arrays as they are, but under a version
\* older than the one it was loading, and so older than the last.
LEMMA RaiseKeepsEngineInv ==
    ASSUME TypeOK, VersionsInv, EngineTypeOK, EngineInv, NEW t \in Threads, LoadRaises(t)
    PROVE  EngineInv'
<1>0. /\ tver \in [Threads -> Versions]
      /\ db.version \in Versions /\ db.version \in Nat
      /\ Absent \notin Threads
      /\ tpc[t] \in LoadSteps /\ lock = t
      /\ \A u \in Threads : tver[u] <= db.version
      /\ tver[t] \in Nat
  BY VersionTypes, VersionsAreNumbers
  DEF EngineTypeOK, LoadRaises, LoadSteps, EngineInv, KnownVersions
<1>1. /\ UNCHANGED <<db, npz, sidecar, pc, exit, cached>>
      /\ UNCHANGED <<loaded, loadedVersion, emb, ids, bm25, loadsOf>>
      /\ Versions' = Versions
      /\ lock' = Absent
      /\ tver' = [tver EXCEPT ![t] = 0]
  BY DEF LoadRaises, Leave, indexVars, Versions
<1>2. LoadsCurrent' /\ LoadsNewer'
  BY <1>0, <1>1 DEF LoadsCurrent, LoadsNewer
<1>3. KnownVersions' /\ LoadsCounted'
  <2>1. \A u \in Threads : tver'[u] <= db'.version
    BY <1>0, <1>1
  <2>2. QED
    BY <1>1, <2>1 DEF EngineInv, KnownVersions, LoadsCounted, EachVersionLoadedOnce
<1>4. ServesCurrent'
  <2>1. CASE tpc[t] = "recheck"
    BY <1>0, <1>1, <2>1 DEF EngineInv, ServesCurrent, Untouched, ServesIndex, Settled
  <2>2. ASSUME tpc[t] # "recheck", loaded PROVE loadedVersion # db.version
    BY <1>0, <2>2, VersionsAreNumbers DEF EngineInv, LoadsNewer, KnownVersions
  <2>3. QED
    BY <1>1, <2>1, <2>2 DEF ServesCurrent
<1>5. QED
  BY <1>2, <1>3, <1>4 DEF EngineInv

LEMMA EngineStep ==
    ASSUME TypeOK, VersionsInv, EngineTypeOK, EngineInv, QuiescentAgreement, [RagNext]_vars
    PROVE  EngineInv'
<1>1. CASE UNCHANGED engineVars
  BY <1>1, RagStepIsIndexStep, IndexStepKeepsEngine
<1>2. CASE Expire
  BY <1>2, ExpireKeepsEngineInv
<1>3. ASSUME NEW t \in Threads, Query(t) \/ ThreadStep(t) \/ LoadRaises(t)
      PROVE  EngineInv'
  <2>1. CASE Query(t) \/ Compare(t) \/ Search(t)
    BY <2>1, OutsideKeepsEngineInv
  <2>2. CASE Acquire(t)
    BY <2>2, AcquireKeepsEngineInv
  <2>3. CASE Recheck(t)
    BY <2>3, RecheckKeepsEngineInv
  <2>4. CASE LoadNpzRaises(t) \/ Publish(t) \/ Refuse(t)
    BY <2>4, EndOfLoadKeepsEngineInv
  <2>5. CASE \/ NpzExists(t) \/ NpzMissing(t) \/ LoadNpz(t)
             \/ ReadIds(t) \/ LoadSidecar(t) \/ PassSidecarOver(t) \/ BuildBm25(t)
    <3>1. lock = t
      BY <2>5 DEF NpzExists, NpzMissing, LoadNpz, ReadIds, LoadSidecar, PassSidecarOver,
         BuildBm25, EngineTypeOK, LoadSteps
    <3>2. QED
      BY <2>5, <3>1, LoadKeepsEngineInv
  <2>6. CASE LoadRaises(t)
    BY <2>6, RaiseKeepsEngineInv
  <2>7. QED
    BY <1>3, <2>1, <2>2, <2>3, <2>4, <2>5, <2>6 DEF ThreadStep, Load
<1>4. QED
  BY <1>1, <1>2, <1>3 DEF RagNext, EngineNext, IndexStep, vars

\* The data directory's agreement at rest holds next to an engine.
LEMMA DirectoryAgrees == RagSpec => []QuiescentAgreement
<1>1. RagInit => RebuildInv
  BY InitAgrees DEF RagInit
<1>2. TypeOK /\ RebuildInv /\ [RagNext]_vars => RebuildInv'
  BY RagStepIsIndexStep, StepAgrees
<1>3. RebuildInv => QuiescentAgreement
  BY DEF RebuildInv
<1>4. QED
  BY <1>1, <1>2, <1>3, IndexInvariants, PTL DEF RagSpec

LEMMA EngineInvHolds == RagSpec => []EngineInv
<1>1. RagInit => EngineInv
  BY InitEngineInv
<1>2. TypeOK /\ VersionsInv /\ EngineTypeOK /\ EngineInv /\ QuiescentAgreement
        /\ [RagNext]_vars => EngineInv'
  BY EngineStep
<1>3. QED
  BY <1>1, <1>2, IndexInvariants, EngineTypeCorrect, DirectoryAgrees, PTL DEF RagSpec

\* An engine that has loaded the version of an index at rest serves that index
\* (_ensure_loaded; RagEngine's LoadedVersionNamesIndex).
THEOREM LoadedVersionIsServed == RagSpec => []LoadedVersionNamesIndex
<1>1. EngineInv => LoadedVersionNamesIndex
  <2>1. lock = Absent => Untouched
    BY ThreadsAssumption DEF Untouched
  <2>2. QED
    BY <2>1 DEF EngineInv, ServesCurrent, LoadedVersionNamesIndex
<1>2. QED
  BY <1>1, EngineInvHolds, PTL

\* However many threads race into the slow path, one loads
\* (_ensure_loaded's check under _lock; RagEngine's EachVersionLoadedOnce).
THEOREM LoadedOnce == RagSpec => []EachVersionLoadedOnce
<1>1. EngineInv => EachVersionLoadedOnce
  BY DEF EngineInv, LoadsCounted
<1>2. QED
  BY <1>1, EngineInvHolds, PTL

\* The engine goes from one index to a newer one only (_ensure_loaded;
\* RagEngine's ServedVersionNeverDecreases).
THEOREM VersionsServedInOrder == RagSpec => ServedVersionNeverDecreases
<1> DEFINE Newer == (loadedVersion \in Versions /\ loadedVersion' \in Versions)
                       => loadedVersion' >= loadedVersion
<1>1. ASSUME TypeOK, VersionsInv, EngineTypeOK, EngineInv, [RagNext]_vars
      PROVE  Newer
  <2>0. Absent \notin Versions
    BY <1>1, VersionTypes
  <2>1. CASE loadedVersion' = loadedVersion
    BY <2>1, VersionsAreNumbers
  <2>2. CASE loadedVersion' = Absent
    BY <2>0, <2>2
  <2>3. ASSUME NEW t \in Threads, Publish(t)
        PROVE  Newer
    <3>1. lock = t /\ loadedVersion' = tver[t] /\ tver[t] \in Versions
      BY <1>1, <2>3 DEF Publish, EngineTypeOK, LoadSteps
    <3>2. QED
      BY <1>1, <3>1, VersionsAreNumbers DEF EngineInv, LoadsNewer
  <2>4. \/ loadedVersion' = loadedVersion
        \/ loadedVersion' = Absent
        \/ \E t \in Threads : Publish(t)
    BY <1>1 DEF RagNext, EngineNext, IndexStep, vars, engineVars, Expire, Query, ThreadStep,
       Compare, Acquire, Recheck, Load, Search, NpzExists, NpzMissing, LoadNpz,
       LoadNpzRaises, ReadIds, LoadSidecar, PassSidecarOver, BuildBm25, Refuse, LoadRaises,
       ScoreBm25, ScoreDense, MapDense, SearchStep
  <2>5. QED
    BY <2>1, <2>2, <2>3, <2>4
<1>2. TypeOK /\ VersionsInv /\ EngineTypeOK /\ EngineInv /\ [RagNext]_vars => [Newer]_vars
  BY <1>1
<1>3. QED
  BY <1>2, IndexInvariants, EngineTypeCorrect, EngineInvHolds, PTL
  DEF RagSpec, ServedVersionNeverDecreases

(***************************************************************************)
(* The two processes implement Publication.                                *)
(***************************************************************************)

\* What is loaded has been counted.
ServedIsLoaded == loadedVersion \in Versions => loaded /\ loadsOf[loadedVersion] # 0

\* The steps of a thread that leave alone what Publication sees.
Silent(t) == \/ Query(t) \/ Compare(t) \/ Acquire(t) \/ Recheck(t) \/ Search(t)
             \/ NpzExists(t) \/ PassSidecarOver(t) \/ LoadNpzRaises(t) \/ LoadRaises(t)

Reading(t) == \/ NpzMissing(t) \/ LoadNpz(t) \/ ReadIds(t)
              \/ LoadSidecar(t) \/ BuildBm25(t)

LEMMA SilentSteps ==
    ASSUME NEW t \in Threads, Silent(t)
    PROVE  UNCHANGED <<indexVars, loaded, loadedVersion, emb, ids, bm25, loadsOf>>
BY DEF Silent, Query, Compare, Acquire, Recheck, Search, NpzExists, PassSidecarOver,
   LoadNpzRaises, LoadRaises, ScoreBm25, ScoreDense, MapDense, SearchStep

LEMMA ReadingSteps ==
    ASSUME NEW t \in Threads, Reading(t)
    PROVE  UNCHANGED <<indexVars, loaded, loadedVersion, loadsOf>>
BY DEF Reading, NpzMissing, LoadNpz, ReadIds, LoadSidecar, BuildBm25

LEMMA StepKinds ==
    ASSUME [RagNext]_vars
    PROVE  \/ UNCHANGED engineVars /\ [Next]_indexVars
           \/ UNCHANGED <<indexVars, loaded, loadedVersion, emb, ids, bm25, loadsOf>>
           \/ \E t \in Threads : Reading(t)
           \/ \E t \in Threads : Publish(t)
           \/ \E t \in Threads : Refuse(t)
<1>1. ASSUME NEW t \in Threads, Query(t) \/ ThreadStep(t) \/ LoadRaises(t)
      PROVE  Silent(t) \/ Reading(t) \/ Publish(t) \/ Refuse(t)
  BY <1>1 DEF ThreadStep, Load, Silent, Reading
<1>2. CASE Expire
  BY <1>2 DEF Expire
<1>3. CASE UNCHANGED vars \/ IndexStep(StartAny) \/ IndexStep(RunStep)
           \/ IndexStep(Abort) \/ IndexStep(EditAny)
  BY <1>3, RagStepIsIndexStep DEF vars, IndexStep
<1>4. QED
  BY <1>1, <1>2, <1>3, SilentSteps DEF RagNext, EngineNext

LEMMA ServedIsLoadedHolds == RagSpec => []ServedIsLoaded
<1>1. RagInit => ServedIsLoaded
  BY AbsentAssumption DEF RagInit, EngineInit, ServedIsLoaded, Versions
<1>2. ASSUME TypeOK, VersionsInv, EngineTypeOK, ServedIsLoaded, [RagNext]_vars
      PROVE  ServedIsLoaded'
  <2>1. CASE UNCHANGED <<loaded, loadedVersion, loadsOf>>
    BY <1>2, <2>1 DEF ServedIsLoaded, Versions
  <2>2. ASSUME NEW t \in Threads, Publish(t) PROVE ServedIsLoaded'
    <3>1. tver[t] \in Versions /\ loadsOf[tver[t]] \in Nat /\ DOMAIN loadsOf = Versions
      BY <1>2, VersionTypes DEF EngineTypeOK
    <3>2. loadsOf'[tver[t]] = loadsOf[tver[t]] + 1
      BY <2>2, <3>1 DEF Publish
    <3>3. loadsOf'[tver[t]] # 0
      BY <3>1, <3>2
    <3>4. QED
      BY <2>2, <3>3 DEF Publish, ServedIsLoaded
  <2>3. ASSUME NEW t \in Threads, Refuse(t) PROVE ServedIsLoaded'
    BY <2>3, AbsentAssumption, BoundsAssumption DEF Refuse, ServedIsLoaded, Versions
  <2>4. QED
    BY <1>2, <2>1, <2>2, <2>3, StepKinds, ReadingSteps DEF engineVars
<1>3. TypeOK /\ VersionsInv /\ EngineTypeOK /\ ServedIsLoaded /\ [RagNext]_vars
        => ServedIsLoaded'
  BY <1>2
<1>4. QED
  BY <1>1, <1>3, IndexInvariants, EngineTypeCorrect, PTL DEF RagSpec

\* A step of the indexer is a Write, a Publish or a stutter.
LEMMA IndexerRefines ==
    ASSUME TypeOK, VersionsInv, UNCHANGED engineVars, [Next]_indexVars
    PROVE  [Published!Next]_Published!vars
<1> DEFINE kept == UNCHANGED <<loadedVersion, emb, ids, bm25, loadsOf>>
<1>1. kept /\ Versions' = Versions /\ db.version \in Nat
  BY DEF engineVars, Versions, TypeOK, IsCatalog
<1>2. CASE ~Settled'
  <2>1. db'.version = db.version
    <3>1. CASE db'.version = db.version + 1 /\ pc = "bump" /\ pc' = "idle"
      <4>1. BumpVersion \/ Abort
        BY <3>1 DEF Next, RunStep, StartAny, StartRun, Diff, DiffRaises, DeleteObsolete,
           Extract, ExtractFile, ExtractFails, StatFile, PersistFileRow, PersistChunk,
           ReleaseSavepoint, RollbackFile, InsertsDone, ReadRows, UnlinkNpz,
           UnlinkSidecar, SaveNpz, SaveSidecar, UpdateEmbedRows, SetModel, SetDim,
           EditAny, Edit, indexVars
      <4>2. ~BumpVersion
        BY <1>2 DEF BumpVersion, EndRun, Settled
      <4>3. db' = db
        BY <4>1, <4>2 DEF Abort
      <4>4. QED
        BY <4>3
    <3>2. QED
      BY <3>1, VersionStep
  <2>2. Published!Write
    BY <1>1, <1>2, <2>1 DEF Published!Write
  <2>3. QED
    BY <2>2 DEF Published!Next
<1>3. CASE Settled' /\ Settled /\ UNCHANGED <<db, npz, sidecar>>
  BY <1>1, <1>3 DEF Published!vars, IndexView
<1>4. CASE Settled' /\ db'.version > db.version
  <2>1. db'.version = db.version + 1 /\ pc = "bump" /\ pc' = "idle"
    BY <1>1, <1>4, VersionStep
  <2>2. ~Settled
    BY <2>1 DEF Settled
  <2>3. BumpVersion
    <3>1. BumpVersion \/ Abort
      BY <2>1 DEF Next, RunStep, StartAny, StartRun, Diff, DiffRaises, DeleteObsolete,
         Extract, ExtractFile, ExtractFails, StatFile, PersistFileRow, PersistChunk,
         ReleaseSavepoint, RollbackFile, InsertsDone, ReadRows, UnlinkNpz,
         UnlinkSidecar, SaveNpz, SaveSidecar, UpdateEmbedRows, SetModel, SetDim,
         EditAny, Edit, indexVars
    <3>2. ~Abort
      BY <1>1, <2>1 DEF Abort
    <3>3. QED
      BY <3>1, <3>2
  <2>4. db'.chunks = db.chunks /\ npz' = npz
    BY <2>3 DEF BumpVersion, Commit, TypeOK, IsCatalog
  <2>5. Published!Publish
    BY <1>1, <1>4, <2>1, <2>2, <2>4 DEF Published!Publish, IndexView
  <2>6. QED
    BY <2>5 DEF Published!Next
<1>5. QED
  BY <1>2, <1>3, <1>4, RestStep

\* A thread that loads has seen a version that is not served.
LEMMA LoaderIsBehind ==
    ASSUME TypeOK, VersionsInv, EngineTypeOK, EngineInv, ServedIsLoaded,
           NEW t \in Threads, lock = t, tpc[t] # "recheck"
    PROVE  /\ loadedVersion # db.version
           /\ \A v \in Versions : loadsOf[v] # 0 => v < tver[t]
<1>1. /\ tver[t] \in Nat /\ tver[t] \in Versions /\ tver[t] <= db.version
      /\ db.version \in Versions /\ db.version \in Nat
  BY VersionTypes DEF EngineInv, KnownVersions
<1>2. \A v \in Versions : tver[t] <= v => loadsOf[v] = 0
  BY DEF EngineInv, LoadsNewer
<1>3. loadsOf[db.version] = 0
  BY <1>1, <1>2
<1>4. loadedVersion # db.version
  BY <1>1, <1>3 DEF ServedIsLoaded
<1>5. QED
  BY <1>1, <1>2, <1>4, VersionsAreNumbers

\* A step of the engine is a Load, a Serve or a stutter.
LEMMA EngineRefines ==
    ASSUME TypeOK, VersionsInv, EngineTypeOK, EngineInv, ServedIsLoaded,
           NEW t \in Threads, Reading(t) \/ Publish(t) \/ Refuse(t)
    PROVE  Published!Next
<1>1. /\ UNCHANGED indexVars
      /\ lock = t /\ tpc[t] # "recheck"
  BY ReadingSteps DEF Reading, NpzMissing, LoadNpz, ReadIds, LoadSidecar, BuildBm25,
     Publish, Refuse, EngineTypeOK, LoadSteps
<1>2. /\ UNCHANGED <<db, npz, pc, exit>>
      /\ Versions' = Versions
  BY <1>1 DEF indexVars, Versions
<1>3. loadedVersion # db.version /\ \A v \in Versions : loadsOf[v] # 0 => v < tver[t]
  BY <1>1, LoaderIsBehind
<1>4. CASE Reading(t) \/ Refuse(t)
  <2>1. loadsOf' = loadsOf /\ loadedVersion' \in {loadedVersion, Absent}
    BY <1>4, ReadingSteps DEF Refuse
  <2>2. Published!Load
    BY <1>2, <1>3, <2>1 DEF Published!Load, Settled, IndexView
  <2>3. QED
    BY <2>2 DEF Published!Next
<1>5. CASE Publish(t)
  <2>1. /\ tver[t] \in Versions /\ tver[t] \in 0 .. db.version
        /\ \A v \in Versions : loadsOf[v] \in Nat
        /\ DOMAIN loadsOf = Versions
    BY VersionTypes DEF EngineInv, KnownVersions, EngineTypeOK
  <2>2. Settled /\ tver[t] = db.version => <<emb, ids, bm25>> = IndexView
    BY <1>1, <1>5 DEF EngineInv, LoadsCurrent, ReadSoFar, Publish, ServesIndex, IndexView
  <2>3. {v \in Versions : loadsOf'[v] # 0} = {v \in Versions : loadsOf[v] # 0} \cup {tver[t]}
    <3>1. \A v \in Versions :
            loadsOf'[v] = IF v = tver[t] THEN loadsOf[v] + 1 ELSE loadsOf[v]
      BY <1>5, <2>1 DEF Publish
    <3>2. QED
      BY <2>1, <3>1
  <2>4. loadedVersion' = tver[t] /\ UNCHANGED <<emb, ids, bm25>>
    BY <1>5 DEF Publish
  <2>5. Published!Serve(tver[t])
    BY <1>2, <1>3, <2>2, <2>3, <2>4 DEF Published!Serve, Settled, IndexView
  <2>6. QED
    BY <2>1, <2>5 DEF Published!Next, Published!Serve
<1>6. QED
  BY <1>4, <1>5

\* Indexer and engine, over one data directory, do what Publication promises
\* (index_path, _ensure_loaded; RagEngine's ImplementsPublication).
THEOREM EngineImplementsPublication == RagSpec => ImplementsPublication
<1>1. RagInit => Published!Init
  <2>1. ASSUME RagInit PROVE Published!Init
    <3>1. db.version = 0 /\ Settled /\ loadedVersion = Absent
      BY <2>1 DEF RagInit, Init, EngineInit, EmptyCatalog, Settled
    <3>2. \A v \in Versions : loadsOf[v] = 0
      BY <2>1 DEF RagInit, EngineInit
    <3>3. QED
      BY <3>1, <3>2 DEF Published!Init
  <2>2. QED
    BY <2>1
<1>2. ASSUME TypeOK, VersionsInv, EngineTypeOK, EngineInv, ServedIsLoaded, [RagNext]_vars
      PROVE  [Published!Next]_Published!vars
  <2>1. CASE UNCHANGED engineVars /\ [Next]_indexVars
    BY <1>2, <2>1, IndexerRefines
  <2>2. CASE UNCHANGED <<indexVars, loaded, loadedVersion, emb, ids, bm25, loadsOf>>
    BY <2>2 DEF Published!vars, indexVars, IndexView, Settled, Versions
  <2>3. ASSUME NEW t \in Threads, Reading(t) \/ Publish(t) \/ Refuse(t)
        PROVE  [Published!Next]_Published!vars
    BY <1>2, <2>3, EngineRefines
  <2>4. QED
    BY <1>2, <2>1, <2>2, <2>3, StepKinds
<1>3. TypeOK /\ VersionsInv /\ EngineTypeOK /\ EngineInv /\ ServedIsLoaded /\ [RagNext]_vars
        => [Published!Next]_Published!vars
  BY <1>2
<1>4. QED
  BY <1>1, <1>3, IndexInvariants, EngineTypeCorrect, EngineInvHolds, ServedIsLoadedHolds,
     PTL DEF RagSpec, ImplementsPublication, Published!Spec

(***************************************************************************)
(* Searches.  What a thread has scored carries the version that was loaded *)
(* when it read the table.  A version is loaded once, so as long as that   *)
(* version is the loaded one nothing was loaded in between.                *)
(***************************************************************************)

\* What is scored under the version of an index at rest is that index, and it
\* is scored under versions that have been loaded.
ScoredInv ==
    \A t \in Threads : scored[t] # Absent =>
        /\ scored[t].version \in Versions => loadsOf[scored[t].version] # 0
        /\ Settled /\ scored[t].version = loadedVersion /\ loadedVersion = db.version
              => npz # Absent /\ scored[t].of = db.chunks

\* While the loaded version is the one on disk nobody is loading.
LEMMA CurrentIsServed ==
    ASSUME TypeOK, VersionsInv, EngineTypeOK, EngineInv, ServedIsLoaded,
           Settled, loadedVersion = db.version
    PROVE  ServesIndex
<1>1. loaded
  BY VersionTypes DEF ServedIsLoaded
<1>2. Untouched
  BY LoaderIsBehind DEF Untouched
<1>3. QED
  BY <1>1, <1>2 DEF EngineInv, ServesCurrent

\* A directory that moves on leaves the loaded version behind.
LEMMA IndexStepKeepsScored ==
    ASSUME TypeOK, VersionsInv, EngineTypeOK, EngineInv, ScoredInv,
           [Next]_indexVars, UNCHANGED engineVars
    PROVE  ScoredInv'
<1>1. UNCHANGED <<loadedVersion, scored, loadsOf>> /\ Versions' = Versions
  BY DEF engineVars, Versions
<1>2. CASE Settled /\ UNCHANGED <<db, npz, sidecar>>
  BY <1>1, <1>2 DEF ScoredInv
<1>3. CASE db'.version > db.version
  <2>1. loadedVersion' # db'.version
    <3>1. CASE loadedVersion \in Versions
      BY <1>1, <1>3, <3>1, VersionTypes DEF EngineInv, KnownVersions
    <3>2. CASE loadedVersion = Absent
      <4>1. db'.version \in Versions
        BY VersionStep, StepType, BoundsAssumption
        DEF TypeOK, IsCatalog, VersionsInv, Versions
      <4>2. QED
        BY <1>1, <3>2, <4>1, VersionTypes
    <3>3. QED
      BY <3>1, <3>2, VersionTypes
  <2>2. QED
    BY <1>1, <2>1 DEF ScoredInv
<1>4. CASE ~Settled'
  BY <1>1, <1>4 DEF ScoredInv
<1>5. QED
  BY <1>2, <1>3, <1>4, RestStep

\* What a leg of a search scores.
LEMMA ScoringKeepsScored ==
    ASSUME TypeOK, VersionsInv, EngineTypeOK, EngineInv, ServedIsLoaded,
           QuiescentAgreement, ScoredInv, NEW t \in Threads, Search(t)
    PROVE  ScoredInv'
<1>1. /\ UNCHANGED <<loadedVersion, loadsOf>>
      /\ UNCHANGED <<db, npz, sidecar, pc, exit>>
      /\ Versions' = Versions /\ Settled' = Settled
  BY DEF Search, ScoreBm25, ScoreDense, MapDense, SearchStep, indexVars, Versions, Settled
<1>2. PICK table : /\ Scored(t, table)
                   /\ table = Absent \/ table = bm25 \/ (emb # Absent /\ table = emb.of)
  BY DEF Search, ScoreBm25, ScoreDense, MapDense
<1>3. \A u \in Threads : u # t => scored'[u] = scored[u]
  BY <1>2 DEF Scored, EngineTypeOK
<1>4. scored'[t] = IF table = Absent THEN Absent
                   ELSE [of |-> table, version |-> loadedVersion]
  BY <1>2 DEF Scored, EngineTypeOK
<1>5. ASSUME table # Absent, loadedVersion \in Versions
      PROVE  loadsOf[loadedVersion] # 0
  BY <1>5 DEF ServedIsLoaded
<1>6. ASSUME table # Absent, Settled, loadedVersion = db.version
      PROVE  npz # Absent /\ table = db.chunks
  <2>1. ServesIndex
    BY <1>6, CurrentIsServed
  <2>2. CASE table = bm25
    BY <1>6, <2>1, <2>2 DEF ServesIndex
  <2>3. CASE emb # Absent /\ table = emb.of
    <3>1. npz # Absent /\ table = npz.of
      BY <2>1, <2>3 DEF ServesIndex
    <3>2. npz.of = db.chunks
      BY <1>6, <3>1 DEF QuiescentAgreement, Settled, IndexAgrees
    <3>3. QED
      BY <3>1, <3>2
  <2>4. QED
    BY <1>2, <1>6, <2>2, <2>3
<1>7. QED
  BY <1>1, <1>3, <1>4, <1>5, <1>6 DEF ScoredInv

\* What a load publishes nobody has scored.
LEMMA PublishKeepsScored ==
    ASSUME TypeOK, VersionsInv, EngineTypeOK, EngineInv, ScoredInv,
           NEW t \in Threads, Publish(t)
    PROVE  ScoredInv'
<1>1. /\ tpc[t] \in LoadSteps /\ tpc[t] # "recheck" /\ lock = t
      /\ tver[t] \in Versions /\ loadsOf \in [Versions -> Nat]
  BY VersionTypes DEF Publish, LoadSteps, EngineTypeOK
<1>2. loadsOf[tver[t]] = 0
  BY <1>1, VersionsAreNumbers DEF EngineInv, LoadsNewer
<1>3. /\ loadedVersion' = tver[t] /\ UNCHANGED scored /\ Versions' = Versions
      /\ \A v \in Versions :
            loadsOf'[v] = IF v = tver[t] THEN loadsOf[v] + 1 ELSE loadsOf[v]
  BY <1>1 DEF Publish, Versions
<1>4. \A v \in Versions : loadsOf[v] # 0 => loadsOf'[v] # 0
  BY <1>1, <1>2, <1>3
<1>5. \A u \in Threads : scored[u] # Absent => scored[u].version # tver[t]
  BY <1>1, <1>2 DEF ScoredInv
<1>6. QED
  BY <1>3, <1>4, <1>5 DEF ScoredInv

LEMMA ScoredInvHolds == RagSpec => []ScoredInv
<1>1. RagInit => ScoredInv
  BY DEF RagInit, EngineInit, ScoredInv
<1>2. ASSUME TypeOK, VersionsInv, EngineTypeOK, EngineInv, ServedIsLoaded,
             QuiescentAgreement, ScoredInv, [RagNext]_vars
      PROVE  ScoredInv'
  <2>1. CASE UNCHANGED engineVars /\ [Next]_indexVars
    BY <1>2, <2>1, IndexStepKeepsScored
  <2>2. ASSUME NEW t \in Threads, Search(t) PROVE ScoredInv'
    BY <1>2, <2>2, ScoringKeepsScored
  <2>3. ASSUME NEW t \in Threads, Publish(t) PROVE ScoredInv'
    BY <1>2, <2>3, PublishKeepsScored
  <2>4. ASSUME NEW t \in Threads, Refuse(t) PROVE ScoredInv'
    <3>1. loadedVersion' = Absent /\ UNCHANGED <<indexVars, scored, loadsOf>>
      BY <2>4 DEF Refuse
    <3>2. db' = db /\ Versions' = Versions /\ db.version # Absent
      BY <1>2, <3>1, VersionTypes DEF indexVars, Versions
    <3>3. QED
      BY <1>2, <3>1, <3>2 DEF ScoredInv
  <2>5. CASE UNCHANGED <<indexVars, loadedVersion, scored, loadsOf>>
    BY <1>2, <2>5 DEF ScoredInv, indexVars, Versions, Settled
  <2>6. ASSUME NEW t \in Threads, Query(t) \/ ThreadStep(t) \/ LoadRaises(t)
        PROVE  \/ Search(t) \/ Publish(t) \/ Refuse(t)
               \/ UNCHANGED <<indexVars, loadedVersion, scored, loadsOf>>
    BY <2>6 DEF ThreadStep, Load, Query, Compare, Acquire, Recheck, NpzExists,
       NpzMissing, LoadNpz, LoadNpzRaises, ReadIds, LoadSidecar, PassSidecarOver,
       BuildBm25, LoadRaises
  <2>7. CASE Expire
    BY <2>5, <2>7 DEF Expire
  <2>8. CASE UNCHANGED vars \/ IndexStep(StartAny) \/ IndexStep(RunStep)
             \/ IndexStep(Abort) \/ IndexStep(EditAny)
    BY <1>2, <2>1, <2>8, RagStepIsIndexStep DEF vars, IndexStep
  <2>9. QED
    BY <1>2, <2>2, <2>3, <2>4, <2>5, <2>6, <2>7, <2>8 DEF RagNext, EngineNext
<1>3. TypeOK /\ VersionsInv /\ EngineTypeOK /\ EngineInv /\ ServedIsLoaded
        /\ QuiescentAgreement /\ ScoredInv /\ [RagNext]_vars => ScoredInv'
  BY <1>2
<1>4. QED
  BY <1>1, <1>3, IndexInvariants, EngineTypeCorrect, EngineInvHolds, ServedIsLoadedHolds,
     DirectoryAgrees, PTL DEF RagSpec

\* A search that runs after the load of an index at rest maps every row it
\* scored to the chunk of that row, however the threads interleave
\* (hybrid_search; RagEngine's SettledSearchIsAligned).
THEOREM SearchesAreAligned == RagSpec => []SettledSearchIsAligned
<1>1. ASSUME TypeOK, VersionsInv, EngineTypeOK, EngineInv, ServedIsLoaded, ScoredInv
      PROVE  SettledSearchIsAligned
  <2>1. SUFFICES ASSUME NEW t \in Threads, Settled, scored[t] # Absent,
                        scored[t].version = loadedVersion, loadedVersion = db.version
                 PROVE  scored[t].of = ids
    BY DEF SettledSearchIsAligned
  <2>2. npz # Absent /\ scored[t].of = db.chunks
    BY <1>1, <2>1 DEF ScoredInv
  <2>3. ids = db.chunks
    BY <1>1, <2>1, <2>2, CurrentIsServed DEF ServesIndex
  <2>4. QED
    BY <2>2, <2>3
<1>2. TypeOK /\ VersionsInv /\ EngineTypeOK /\ EngineInv /\ ServedIsLoaded /\ ScoredInv
        => SettledSearchIsAligned
  BY <1>1
<1>3. QED
  BY <1>2, IndexInvariants, EngineTypeCorrect, EngineInvHolds, ServedIsLoadedHolds,
     ScoredInvHolds, PTL

\* The engine only reads the data directory: with any number of threads beside
\* it the indexer behaves as it does alone, so that every theorem about Spec is
\* one about RagSpec (engine.py).
THEOREM EngineOnlyReads == RagSpec => Spec
<1>1. RagInit => Init
  BY DEF RagInit
<1>2. [RagNext]_vars => [Next]_indexVars
  BY RagStepIsIndexStep
<1>3. QED
  BY <1>1, <1>2, PTL DEF RagSpec, Spec

=============================================================================
