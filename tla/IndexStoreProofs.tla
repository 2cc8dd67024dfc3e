-------------------------- MODULE IndexStoreProofs --------------------------
(***************************************************************************)
(* Proofs about IndexStore, for every set of files, contents and models,   *)
(* every number of chunks a body gives, and every number of runs, edits    *)
(* and aborted runs.                                                       *)
(***************************************************************************)
EXTENDS IndexStore, FiniteSetTheorems, TLAPS

(***************************************************************************)
(* Columns of the chunk table.                                             *)
(***************************************************************************)

\* The empty table is a column of anything.
LEMMA NoChunksIsColumn ==
    ASSUME NEW V
    PROVE  IsColumn(NoChunks, V) /\ IsFiniteSet(DOMAIN NoChunks)
BY FS_EmptySet DEF IsColumn, NoChunks

\* The ids that are left of a column, and those of a column with one more row.
LEMMA ColumnDomains ==
    ASSUME NEW f, NEW Gone, NEW id, NEW v
    PROVE  /\ DOMAIN Without(f, Gone) = DOMAIN f \ Gone
           /\ DOMAIN With(f, id, v) = DOMAIN f \cup {id}
BY DEF Without, With

\* Rows leave a column, and it stays one.
LEMMA WithoutIsColumn ==
    ASSUME NEW V, NEW f, NEW Gone, IsColumn(f, V)
    PROVE  IsColumn(Without(f, Gone), V)
BY DEF IsColumn, Without

\* A row with a positive id joins a column, and it stays one.
LEMMA WithIsColumn ==
    ASSUME NEW V, NEW f, NEW id \in Nat \ {0}, NEW v \in V, IsColumn(f, V)
    PROVE  IsColumn(With(f, id, v), V)
BY DEF IsColumn, With

\* The row number of an id is a number.
LEMMA RowNumberType ==
    ASSUME NEW f, NEW id, IsFiniteSet(DOMAIN f)
    PROVE  RowNumber(f, id) \in Nat
<1> DEFINE before == {i \in DOMAIN f : i < id}
<1>1. IsFiniteSet(before)
  BY FS_Subset
<1>2. QED
  BY <1>1, FS_CardinalityType DEF RowNumber

(***************************************************************************)
(* The operations of the catalog.                                          *)
(***************************************************************************)

\* A catalog put together from well-typed parts is one.
LEMMA CatalogIntro ==
    ASSUME NEW files \in [Paths -> FileRows \cup {Absent}],
           NEW chunks, IsColumn(chunks, ChunkRows), IsFiniteSet(DOMAIN chunks),
           NEW embedRow, IsColumn(embedRow, Nat), DOMAIN embedRow = DOMAIN chunks,
           NEW model \in Models \cup {Absent},
           NEW dim \in Nat \cup {Absent},
           NEW version \in Nat
    PROVE  IsCatalog([files |-> files, chunks |-> chunks, embedRow |-> embedRow,
                      model |-> model, dim |-> dim, version |-> version])
BY DEF IsCatalog

LEMMA EmptyCatalogType == IsCatalog(EmptyCatalog)
<1>1. [p \in Paths |-> Absent] \in [Paths -> FileRows \cup {Absent}]
  OBVIOUS
<1>2. QED
  BY <1>1, NoChunksIsColumn, CatalogIntro DEF EmptyCatalog

\* The chunk columns of a catalog.
LEMMA CatalogColumns ==
    ASSUME NEW c, IsCatalog(c)
    PROVE  /\ IsColumn(c.chunks, ChunkRows)
           /\ IsColumn(c.embedRow, Nat)
           /\ DOMAIN c.embedRow = DOMAIN c.chunks
           /\ IsFiniteSet(DOMAIN c.chunks)
BY DEF IsCatalog

LEMMA DeleteFilesType ==
    ASSUME NEW c, IsCatalog(c), NEW P
    PROVE  IsCatalog(DeleteFiles(c, P))
<1> DEFINE gone == ChunksOfFiles(c.chunks, P)
           left == [p \in Paths |-> IF p \in P THEN Absent ELSE c.files[p]]
           d    == DeleteFiles(c, P)
<1>1. /\ DOMAIN d = DOMAIN c
      /\ d.files = left
      /\ d.chunks = Without(c.chunks, gone)
      /\ d.embedRow = Without(c.embedRow, gone)
      /\ d.model = c.model /\ d.dim = c.dim /\ d.version = c.version
  BY DEF DeleteFiles, IsCatalog
<1>2. left \in [Paths -> FileRows \cup {Absent}]
  BY DEF IsCatalog
<1> HIDE DEF gone, left, d
<1>3. IsColumn(d.chunks, ChunkRows)
  BY <1>1, CatalogColumns, WithoutIsColumn
<1>4. IsColumn(d.embedRow, Nat)
  BY <1>1, CatalogColumns, WithoutIsColumn
<1>5. DOMAIN Without(c.chunks, gone) = DOMAIN c.chunks \ gone
  BY ColumnDomains
<1>6. DOMAIN Without(c.embedRow, gone) = DOMAIN c.embedRow \ gone
  BY ColumnDomains
<1>7. DOMAIN d.embedRow = DOMAIN d.chunks
  BY <1>1, <1>5, <1>6, CatalogColumns
<1>8. IsFiniteSet(DOMAIN c.chunks \ gone)
  BY CatalogColumns, FS_Difference
<1>9. IsFiniteSet(DOMAIN d.chunks)
  BY <1>1, <1>5, <1>8
<1>10. IsCatalog(d)
  BY <1>1, <1>2, <1>3, <1>4, <1>7, <1>9 DEF IsCatalog
<1>11. QED
  BY <1>10 DEF d

LEMMA InsertFileType ==
    ASSUME NEW c, IsCatalog(c), NEW p \in Paths, NEW content \in FileRows
    PROVE  IsCatalog(InsertFile(c, p, content))
BY DEF InsertFile, IsCatalog

LEMMA InsertChunkType ==
    ASSUME NEW c, IsCatalog(c), NEW id \in Nat \ {0}, NEW row \in ChunkRows
    PROVE  IsCatalog(InsertChunk(c, id, row))
<1> DEFINE d == InsertChunk(c, id, row)
<1>1. /\ DOMAIN d = DOMAIN c
      /\ d.chunks = With(c.chunks, id, row)
      /\ d.embedRow = With(c.embedRow, id, 0)
      /\ d.files = c.files
      /\ d.model = c.model /\ d.dim = c.dim /\ d.version = c.version
  BY DEF InsertChunk, IsCatalog
<1> HIDE DEF d
<1>2. IsColumn(d.chunks, ChunkRows)
  BY <1>1, CatalogColumns, WithIsColumn
<1>3. IsColumn(d.embedRow, Nat)
  BY <1>1, CatalogColumns, WithIsColumn, 0 \in Nat
<1>4. DOMAIN With(c.chunks, id, row) = DOMAIN c.chunks \cup {id}
  BY ColumnDomains
<1>5. DOMAIN With(c.embedRow, id, 0) = DOMAIN c.embedRow \cup {id}
  BY ColumnDomains
<1>6. DOMAIN d.embedRow = DOMAIN d.chunks
  BY <1>1, <1>4, <1>5, CatalogColumns
<1>7. IsFiniteSet(DOMAIN c.chunks \cup {id})
  BY CatalogColumns, FS_AddElement
<1>8. IsFiniteSet(DOMAIN d.chunks)
  BY <1>1, <1>4, <1>7
<1>9. IsCatalog(d)
  BY <1>1, <1>2, <1>3, <1>6, <1>8 DEF IsCatalog
<1>10. QED
  BY <1>9 DEF d

\* embed_row is rewritten for the rows of a table that has been read.
LEMMA EmbedRowType ==
    ASSUME NEW c, IsCatalog(c), NEW table, IsFiniteSet(DOMAIN table)
    PROVE  IsCatalog([c EXCEPT !.embedRow =
                        [i \in DOMAIN @ |-> IF i \in DOMAIN table
                                            THEN RowNumber(table, i) ELSE @[i]]])
<1> DEFINE new == [i \in DOMAIN c.embedRow |->
                     IF i \in DOMAIN table THEN RowNumber(table, i)
                                           ELSE c.embedRow[i]]
<1>1. \A i : RowNumber(table, i) \in Nat
  BY RowNumberType
<1>2. IsColumn(new, Nat) /\ DOMAIN new = DOMAIN c.embedRow
  BY <1>1, CatalogColumns DEF IsColumn
<1> HIDE DEF new
<1>3. IsCatalog([c EXCEPT !.embedRow = new])
  BY <1>2 DEF IsCatalog
<1>4. QED
  BY <1>3 DEF new

LEMMA MetaType ==
    ASSUME NEW c, IsCatalog(c), NEW model \in Models
    PROVE  /\ IsCatalog([c EXCEPT !.model = model])
           /\ IsCatalog([c EXCEPT !.dim = Dim[model]])
<1>1. Dim[model] \in Nat
  BY ModelsAssumption
<1>2. QED
  BY <1>1 DEF IsCatalog

LEMMA BumpType ==
    ASSUME NEW c, IsCatalog(c)
    PROVE  IsCatalog([c EXCEPT !.version = @ + 1])
BY DEF IsCatalog

(***************************************************************************)
(* Types.                                                                  *)
(***************************************************************************)

\* What a run knows when it ends, however it ends.
LEMMA EndRunType ==
    ASSUME TypeOK, NEW how \in {"ok", "died", "died_rebuilding"}, EndRun(how),
           IsCatalog(db'), IsCatalog(tx'),
           UNCHANGED <<disk, npz, sidecar, job, runs, edits, unsettled>>
    PROVE  TypeOK'
<1>1. seen' \in [Paths -> Contents \cup {Absent}]
  BY DEF EndRun, NothingSeen
<1>2. IsColumn(rows', ChunkRows) /\ IsFiniteSet(DOMAIN rows')
  BY NoChunksIsColumn DEF EndRun
<1>3. QED
  BY <1>1, <1>2 DEF EndRun, TypeOK, Steps, InsertSteps, FileSteps, RebuildSteps

LEMMA InitType == ASSUME Init PROVE TypeOK
<1>1. IsCatalog(db) /\ IsCatalog(tx)
  BY EmptyCatalogType DEF Init
<1>2. IsColumn(rows, ChunkRows) /\ IsFiniteSet(DOMAIN rows)
  BY NoChunksIsColumn DEF Init
<1>3. seen \in [Paths -> Contents \cup {Absent}]
  BY DEF Init, NothingSeen
<1>4. QED
  BY <1>1, <1>2, <1>3 DEF Init, TypeOK, FileSteps

LEMMA StepType == ASSUME TypeOK, [Next]_indexVars PROVE TypeOK'
<1> USE DEF TypeOK, FileSteps
<1>1. ASSUME NEW root \in Roots, NEW force \in BOOLEAN, NEW model \in Models,
             StartRun(root, force, model)
      PROVE  TypeOK'
  <2>1. job' \in Jobs
    BY <1>1 DEF StartRun, Jobs
  <2>2. seen' \in [Paths -> Contents \cup {Absent}]
    BY <1>1 DEF StartRun
  <2>3. unsettled' \subseteq Paths
    BY <1>1, RootsAssumption DEF StartRun
  <2>4. QED
    BY <1>1, <2>1, <2>2, <2>3 DEF StartRun, Steps
<1>2. CASE Diff
  <2>1. plan' \in Plans
    BY <1>2 DEF Diff, Plans, Walked, Catalogued
  <2>2. QED
    BY <1>2, <2>1 DEF Diff, Steps
<1>3. CASE DeleteObsolete
  <2>1. IsCatalog(db') /\ IsCatalog(tx')
    BY <1>3, DeleteFilesType DEF DeleteObsolete
  <2>2. plan \in Plans
    BY <1>3 DEF DeleteObsolete
  <2>3. QED
    BY <1>3, <2>1, <2>2 DEF DeleteObsolete, Steps, InsertSteps
<1>4. ASSUME NEW p \in Paths, ExtractFile(p)
      PROVE  TypeOK'
  <2>1. plan \in Plans /\ plan' \in Plans
    BY <1>4 DEF ExtractFile, Done, Plans
  <2>2. disk[p] \in Contents
    BY <1>4 DEF ExtractFile
  <2>3. cur' \in Files
    BY <1>4, <2>2, ContentsAssumption DEF ExtractFile, Files
  <2>4. QED
    BY <1>4, <2>1, <2>3 DEF ExtractFile, Steps, InsertSteps
<1>5. ASSUME NEW p \in Paths, ExtractFails(p)
      PROVE  TypeOK'
  <2>1. plan \in Plans /\ plan' \in Plans
    BY <1>5 DEF ExtractFails, Done, Plans
  <2>2. QED
    BY <1>5, <2>1 DEF ExtractFails
<1>a. CASE StatFile
  <2>1. cur \in Files
    BY <1>a DEF StatFile
  <2>2. disk[cur.path].stat \in Stats
    BY <1>a, <2>1, ContentsAssumption DEF StatFile, Files
  <2>3. cur' \in Files /\ cur'.stat \in Stats
    BY <1>a, <2>1, <2>2 DEF StatFile, Files
  <2>4. QED
    BY <1>a, <2>3 DEF StatFile, Steps, InsertSteps
<1>6. CASE PersistFileRow
  <2>1. cur \in Files /\ cur.stat \in Stats
    BY <1>6 DEF PersistFileRow
  <2>2. /\ cur.path \in Paths
        /\ [stat |-> cur.stat, body |-> disk[cur.path].body] \in FileRows
    BY <1>6, <2>1, ContentsAssumption DEF PersistFileRow, Files, FileRows
  <2>3. IsCatalog(tx')
    BY <1>6, <2>2, InsertFileType DEF PersistFileRow
  <2>4. QED
    BY <1>6, <2>1, <2>3 DEF PersistFileRow, Steps, InsertSteps
<1>7. CASE PersistChunk
  <2>1. cur \in Files
    BY <1>7 DEF PersistChunk
  <2> DEFINE row == [file |-> cur.path, body |-> cur.body, ord |-> cur.done]
  <2>2. row \in ChunkRows
    BY <2>1 DEF Files, ChunkRows
  <2>3. PICK id \in DOMAIN tx.chunks \cup {0} : tx' = InsertChunk(tx, id + 1, row)
    BY <1>7 DEF PersistChunk
  <2>4. id \in Nat
    <3>1. IsColumn(tx.chunks, ChunkRows)
      BY CatalogColumns
    <3>2. QED
      BY <3>1 DEF IsColumn
  <2>5. id + 1 \in Nat \ {0}
    BY <2>4
  <2> HIDE DEF row
  <2>6. IsCatalog(tx')
    BY <2>2, <2>3, <2>5, InsertChunkType
  <2>7. cur' \in Files
    BY <1>7, <2>1 DEF PersistChunk, Files
  <2>8. QED
    BY <1>7, <2>6, <2>7 DEF PersistChunk
<1>8. CASE ReleaseSavepoint
  BY <1>8 DEF ReleaseSavepoint, Steps, InsertSteps
<1>9. CASE RollbackFile
  <2>1. cur.path \in Paths
    BY <1>9 DEF RollbackFile, Files
  <2>2. QED
    BY <1>9, <2>1 DEF RollbackFile, Steps, InsertSteps
<1>10. CASE InsertsDone
  BY <1>10 DEF InsertsDone, Steps, RebuildSteps
<1>11. CASE ReadRows
  <2>1. IsColumn(rows', ChunkRows) /\ IsFiniteSet(DOMAIN rows')
    BY <1>11, CatalogColumns DEF ReadRows
  <2>2. QED
    BY <1>11, <2>1 DEF ReadRows, Steps, RebuildSteps
<1>12. CASE UnlinkNpz
  BY <1>12 DEF UnlinkNpz, Steps, RebuildSteps
<1>13. CASE UnlinkSidecar
  BY <1>13 DEF UnlinkSidecar, Steps, RebuildSteps
<1>14. CASE SaveNpz
  <2>1. IsNpz(npz')
    BY <1>14 DEF SaveNpz, IsNpz, Jobs
  <2>2. QED
    BY <1>14, <2>1 DEF SaveNpz, Steps, RebuildSteps
<1>15. CASE SaveSidecar
  <2>1. IsSidecar(sidecar')
    BY <1>15 DEF SaveSidecar, IsSidecar
  <2>2. QED
    BY <1>15, <2>1 DEF SaveSidecar, Steps, RebuildSteps
<1>16. CASE UpdateEmbedRows
  <2>1. IsCatalog(db') /\ IsCatalog(tx')
    BY <1>16, EmbedRowType DEF UpdateEmbedRows, Commit
  <2>2. QED
    BY <1>16, <2>1 DEF UpdateEmbedRows, Steps, RebuildSteps
<1>17. CASE SetModel
  <2>1. job.model \in Models
    BY <1>17 DEF SetModel, Jobs
  <2>2. IsCatalog(db') /\ IsCatalog(tx')
    BY <1>17, <2>1, MetaType DEF SetModel, Commit
  <2>3. QED
    BY <1>17, <2>2 DEF SetModel, Steps, RebuildSteps
<1>18. CASE SetDim
  <2>1. job.model \in Models
    BY <1>18 DEF SetDim, Jobs
  <2>2. IsCatalog(db') /\ IsCatalog(tx')
    BY <1>18, <2>1, MetaType DEF SetDim, Commit
  <2>3. QED
    BY <1>18, <2>2 DEF SetDim, Steps, RebuildSteps
<1>19. CASE BumpVersion
  <2>1. IsCatalog(db') /\ IsCatalog(tx')
    BY <1>19, BumpType DEF BumpVersion, Commit
  <2>2. QED
    BY <1>19, <2>1, EndRunType DEF BumpVersion
<1>20. CASE Abort
  BY <1>20, EndRunType DEF Abort
<1>21. ASSUME NEW p \in Paths, NEW content \in Contents \cup {Absent}, Edit(p, content)
       PROVE  TypeOK'
  <2>1. disk' \in [Paths -> Contents \cup {Absent}]
    BY <1>21 DEF Edit
  <2>2. QED
    BY <1>21, <2>1 DEF Edit
<1>22. CASE UNCHANGED indexVars
  BY <1>22 DEF indexVars
<1>23. QED
  BY <1>1, <1>2, <1>3, <1>4, <1>5, <1>a, <1>6, <1>7, <1>8, <1>9, <1>10, <1>11, <1>12,
     <1>13, <1>14, <1>15, <1>16, <1>17, <1>18, <1>19, <1>20, <1>21, <1>22
  DEF Next, StartAny, RunStep, DiffRaises, Extract, EditAny

\* The index, the catalog the indexer's transaction shows and the state of the
\* run have their types in every state (IndexStore's TypeOK).
THEOREM TypeCorrect == Spec => []TypeOK
<1>1. Init => TypeOK
  BY InitType
<1>2. TypeOK /\ [Next]_indexVars => TypeOK'
  BY StepType
<1>3. QED
  BY <1>1, <1>2, PTL DEF Spec

(***************************************************************************)
(* The index agrees with itself after a run that succeeded.  The argument  *)
(* follows the rebuild: what it has written so far was computed from the   *)
(* rows it read, and the committed rows stay those until it ends.  Nothing *)
(* is needed about the state a run starts from: earlier runs may have died *)
(* anywhere.                                                               *)
(***************************************************************************)

RebuildInv ==
    /\ pc \in RebuildSteps \ {"rows"} => rows = db.chunks
    /\ pc \in {"unlink_npz", "unlink_sidecar"} => rows = NoChunks
    /\ pc = "unlink_sidecar" => npz = Absent
    /\ pc \in {"save_npz", "save_sidecar", "embed_rows", "set_model", "set_dim"}
          => rows # NoChunks
    /\ pc \in {"save_sidecar", "embed_rows", "set_model", "set_dim"}
          => npz = [of |-> rows, model |-> job.model]
    /\ pc \in {"embed_rows", "set_model", "set_dim"} => sidecar = [of |-> rows]
    /\ pc \in {"set_model", "set_dim"} => db.embedRow = EmbedRows(db.chunks)
    /\ pc = "set_dim" => db.model = job.model
    /\ pc = "bump" => IndexAgrees
    /\ QuiescentAgreement

\* A run that ends without success leaves nothing to show.
LEMMA DeadRunAgrees ==
    ASSUME RebuildInv, NEW how \in {"died", "died_rebuilding"}, EndRun(how)
    PROVE  RebuildInv'
BY DEF EndRun, RebuildInv, QuiescentAgreement, RebuildSteps

LEMMA InitAgrees == ASSUME Init PROVE RebuildInv
BY DEF Init, RebuildInv, RebuildSteps, QuiescentAgreement, IndexAgrees, EmptyCatalog

\* Before the rows are read a step of a run owes nothing.
LEMMA EarlyStepAgrees ==
    ASSUME pc' \in {"diff", "delete", "insert", "row", "hash", "chunks", "rows"}
    PROVE  RebuildInv'
BY DEF RebuildInv, RebuildSteps, QuiescentAgreement

LEMMA StepAgrees == ASSUME TypeOK, RebuildInv, [Next]_indexVars PROVE RebuildInv'
<1>1. ASSUME NEW root \in Roots, NEW force \in BOOLEAN, NEW model \in Models,
             StartRun(root, force, model)
      PROVE  RebuildInv'
  BY <1>1, EarlyStepAgrees DEF StartRun
<1>2. CASE Diff
  BY <1>2, EarlyStepAgrees DEF Diff
<1>3. CASE DeleteObsolete
  BY <1>3, EarlyStepAgrees DEF DeleteObsolete
<1>4. ASSUME NEW p \in Paths, ExtractFile(p) \/ ExtractFails(p)
      PROVE  RebuildInv'
  BY <1>4, EarlyStepAgrees DEF ExtractFile, ExtractFails
<1>5. CASE StatFile \/ PersistFileRow \/ PersistChunk
  BY <1>5, EarlyStepAgrees DEF StatFile, PersistFileRow, PersistChunk
<1>6. CASE ReleaseSavepoint \/ RollbackFile \/ InsertsDone
  BY <1>6, EarlyStepAgrees DEF ReleaseSavepoint, RollbackFile, InsertsDone
<1>7. CASE ReadRows
  BY <1>7 DEF ReadRows, RebuildInv, RebuildSteps, QuiescentAgreement
<1>8. CASE UnlinkNpz
  BY <1>8 DEF UnlinkNpz, RebuildInv, RebuildSteps, QuiescentAgreement
<1>9. CASE UnlinkSidecar
  BY <1>9 DEF UnlinkSidecar, RebuildInv, RebuildSteps, QuiescentAgreement, IndexAgrees
<1>10. CASE SaveNpz
  BY <1>10 DEF SaveNpz, RebuildInv, RebuildSteps, QuiescentAgreement
<1>11. CASE SaveSidecar
  BY <1>11 DEF SaveSidecar, RebuildInv, RebuildSteps, QuiescentAgreement
<1>12. CASE UpdateEmbedRows
  <2>1. DOMAIN db = {"files", "chunks", "embedRow", "model", "dim", "version"}
    BY DEF TypeOK, IsCatalog
  <2>2. rows = db.chunks
    BY <1>12 DEF UpdateEmbedRows, RebuildInv, RebuildSteps
  <2>3. DOMAIN db.embedRow = DOMAIN rows
    BY <2>2, CatalogColumns DEF TypeOK
  <2>4. /\ db'.chunks = db.chunks
        /\ db'.embedRow = [i \in DOMAIN db.embedRow |->
                             IF i \in DOMAIN rows THEN RowNumber(rows, i)
                                                  ELSE db.embedRow[i]]
    BY <1>12, <2>1 DEF UpdateEmbedRows, Commit
  <2>5. db'.embedRow = EmbedRows(rows)
    BY <2>3, <2>4 DEF EmbedRows
  <2>6. QED
    BY <1>12, <2>2, <2>4, <2>5
    DEF UpdateEmbedRows, RebuildInv, RebuildSteps, QuiescentAgreement
<1>13. CASE SetModel
  <2>1. DOMAIN db = {"files", "chunks", "embedRow", "model", "dim", "version"}
    BY DEF TypeOK, IsCatalog
  <2>2. /\ db'.chunks = db.chunks
        /\ db'.embedRow = db.embedRow
        /\ db'.model = job.model
    BY <1>13, <2>1 DEF SetModel, Commit
  <2>3. QED
    BY <1>13, <2>2 DEF SetModel, RebuildInv, RebuildSteps, QuiescentAgreement
<1>14. CASE SetDim
  <2>1. DOMAIN db = {"files", "chunks", "embedRow", "model", "dim", "version"}
    BY DEF TypeOK, IsCatalog
  <2>2. /\ db'.chunks = db.chunks
        /\ db'.embedRow = db.embedRow
        /\ db'.model = db.model
        /\ db'.dim = Dim[job.model]
    BY <1>14, <2>1 DEF SetDim, Commit
  <2>3. /\ rows = db.chunks
        /\ rows # NoChunks
        /\ npz = [of |-> rows, model |-> job.model]
        /\ sidecar = [of |-> rows]
        /\ db.embedRow = EmbedRows(db.chunks)
        /\ db.model = job.model
    BY <1>14 DEF SetDim, RebuildInv, RebuildSteps
  <2>4. IndexAgrees'
    BY <1>14, <2>2, <2>3 DEF SetDim, IndexAgrees
  <2>5. QED
    BY <1>14, <2>2, <2>3, <2>4
    DEF SetDim, RebuildInv, RebuildSteps, QuiescentAgreement
<1>15. CASE BumpVersion
  <2>1. DOMAIN db = {"files", "chunks", "embedRow", "model", "dim", "version"}
    BY DEF TypeOK, IsCatalog
  <2>2. /\ db'.chunks = db.chunks
        /\ db'.embedRow = db.embedRow
        /\ db'.model = db.model
        /\ db'.dim = db.dim
    BY <1>15, <2>1 DEF BumpVersion, Commit
  <2>3. IndexAgrees
    BY <1>15 DEF BumpVersion, RebuildInv
  <2>4. IndexAgrees'
    BY <1>15, <2>2, <2>3 DEF BumpVersion, IndexAgrees
  <2>5. QED
    BY <1>15, <2>4
    DEF BumpVersion, EndRun, RebuildInv, RebuildSteps, QuiescentAgreement
<1>16. CASE Abort
  BY <1>16, DeadRunAgrees DEF Abort
<1>17. ASSUME NEW p \in Paths, NEW content \in Contents \cup {Absent}, Edit(p, content)
       PROVE  RebuildInv'
  BY <1>17 DEF Edit, RebuildInv, QuiescentAgreement, IndexAgrees
<1>18. CASE UNCHANGED indexVars
  BY <1>18 DEF indexVars, RebuildInv, QuiescentAgreement, IndexAgrees
<1>19. QED
  BY <1>1, <1>2, <1>3, <1>4, <1>5, <1>6, <1>7, <1>8, <1>9, <1>10, <1>11, <1>12,
     <1>13, <1>14, <1>15, <1>16, <1>17, <1>18
  DEF Next, StartAny, RunStep, DiffRaises, Extract, EditAny

\* After a run that reported success the vectors, the BM25 state, embed_row and
\* the meta rows are those of the chunk table, whatever earlier runs died of
\* (rebuild_artifacts; IndexStore's QuiescentAgreement).
THEOREM AgreementAtRest == Spec => []QuiescentAgreement
<1>1. Init => RebuildInv
  BY InitAgrees
<1>2. TypeOK /\ RebuildInv /\ [Next]_indexVars => RebuildInv'
  BY StepAgrees
<1>3. RebuildInv => QuiescentAgreement
  BY DEF RebuildInv
<1>4. QED
  BY <1>1, <1>2, <1>3, TypeCorrect, PTL DEF Spec

(***************************************************************************)
(* The rows of one file.                                                   *)
(***************************************************************************)

\* Two catalogs hold the same rows of a file: its own and its chunks.
SameRows(c, d, p) ==
    /\ c.files[p] = d.files[p]
    /\ ChunksOfFiles(c.chunks, {p}) = ChunksOfFiles(d.chunks, {p})
    /\ \A i \in ChunksOfFiles(c.chunks, {p}) : c.chunks[i] = d.chunks[i]

\* A file's chunks are the first n of a body, in the order of their ids.
PartOf(c, p, body, n) ==
    LET mine == ChunksOfFiles(c.chunks, {p})
    IN  /\ \A i \in mine : c.chunks[i].body = body /\ c.chunks[i].ord < n
        /\ \A k \in Nat : k < n => \E i \in mine : c.chunks[i].ord = k
        /\ \A i, j \in mine : i < j => c.chunks[i].ord < c.chunks[j].ord

WholeFile(c, p) ==
    IF c.files[p] = Absent
    THEN ChunksOfFiles(c.chunks, {p}) = {}
    ELSE \E body \in Bodies : PartOf(c, p, body, NumChunks[body])

LEMMA SameTableSameRows ==
    ASSUME NEW c, NEW d, c.files = d.files, c.chunks = d.chunks
    PROVE  \A p : SameRows(c, d, p)
BY DEF SameRows

LEMMA SameRowsSameFile ==
    ASSUME NEW c, NEW d, NEW p, SameRows(c, d, p)
    PROVE  /\ WholeFile(d, p) => WholeFile(c, p)
           /\ RowsOf(c, p) = RowsOf(d, p)
<1> DEFINE mine == ChunksOfFiles(c.chunks, {p})
<1>1. /\ c.files[p] = d.files[p]
      /\ mine = ChunksOfFiles(d.chunks, {p})
      /\ \A i \in mine : c.chunks[i] = d.chunks[i]
  BY DEF SameRows
<1>2. ASSUME NEW body, NEW n, PartOf(d, p, body, n)
      PROVE  PartOf(c, p, body, n)
  <2> HIDE DEF mine
  <2>1. /\ \A i \in mine : d.chunks[i].body = body /\ d.chunks[i].ord < n
        /\ \A k \in Nat : k < n => \E i \in mine : d.chunks[i].ord = k
        /\ \A i, j \in mine : i < j => d.chunks[i].ord < d.chunks[j].ord
    BY <1>1, <1>2 DEF PartOf
  <2>2. /\ \A i \in mine : c.chunks[i].body = body /\ c.chunks[i].ord < n
        /\ \A k \in Nat : k < n => \E i \in mine : c.chunks[i].ord = k
        /\ \A i, j \in mine : i < j => c.chunks[i].ord < c.chunks[j].ord
    BY <1>1, <2>1
  <2>3. QED
    BY <2>2 DEF PartOf, mine
<1>3. WholeFile(d, p) => WholeFile(c, p)
  BY <1>1, <1>2 DEF WholeFile
<1>4. {<<i, c.chunks[i]>> : i \in mine} = {<<i, d.chunks[i]>> : i \in mine}
  BY <1>1
<1>5. QED
  BY <1>1, <1>3, <1>4 DEF RowsOf

\* DELETE takes all the rows of the files it names and no other.
LEMMA DeleteFilesRows ==
    ASSUME NEW c, IsCatalog(c), NEW P
    PROVE  /\ \A p \in Paths \cap P :
                 /\ DeleteFiles(c, P).files[p] = Absent
                 /\ ChunksOfFiles(DeleteFiles(c, P).chunks, {p}) = {}
           /\ \A p \in Paths \ P : SameRows(DeleteFiles(c, P), c, p)
<1> DEFINE gone == ChunksOfFiles(c.chunks, P)
           d    == DeleteFiles(c, P)
<1>1. /\ d.files = [p \in Paths |-> IF p \in P THEN Absent ELSE c.files[p]]
      /\ d.chunks = Without(c.chunks, gone)
  BY DEF DeleteFiles, IsCatalog
<1>2. DOMAIN d.chunks = DOMAIN c.chunks \ gone
  BY <1>1, ColumnDomains
<1>3. \A i \in DOMAIN d.chunks : d.chunks[i] = c.chunks[i]
  BY <1>1, <1>2 DEF Without
<1> HIDE DEF d
<1>4. ASSUME NEW p \in Paths \cap P
      PROVE  d.files[p] = Absent /\ ChunksOfFiles(d.chunks, {p}) = {}
  BY <1>1, <1>2, <1>3 DEF ChunksOfFiles
<1>5. ASSUME NEW p \in Paths \ P
      PROVE  SameRows(d, c, p)
  <2>1. d.files[p] = c.files[p]
    BY <1>1
  <2>2. ChunksOfFiles(d.chunks, {p}) = ChunksOfFiles(c.chunks, {p})
    BY <1>2, <1>3 DEF ChunksOfFiles
  <2>3. \A i \in ChunksOfFiles(d.chunks, {p}) : d.chunks[i] = c.chunks[i]
    BY <1>3 DEF ChunksOfFiles
  <2>4. QED
    BY <2>1, <2>2, <2>3 DEF SameRows
<1>6. QED
  BY <1>4, <1>5 DEF d

LEMMA InsertFileRows ==
    ASSUME NEW c, IsCatalog(c), NEW p \in Paths, NEW content
    PROVE  /\ InsertFile(c, p, content).files[p] = content
           /\ InsertFile(c, p, content).chunks = c.chunks
           /\ \A q \in Paths \ {p} : SameRows(InsertFile(c, p, content), c, q)
<1> DEFINE d == InsertFile(c, p, content)
<1>1. /\ d.files = [c.files EXCEPT ![p] = content]
      /\ d.chunks = c.chunks
  BY DEF InsertFile, IsCatalog
<1> HIDE DEF d
<1>2. d.files[p] = content /\ \A q \in Paths \ {p} : d.files[q] = c.files[q]
  BY <1>1 DEF IsCatalog
<1>3. QED
  BY <1>1, <1>2 DEF d, SameRows

\* A chunk row joins those of its file behind all others and changes no
\* other file's.
LEMMA InsertChunkRows ==
    ASSUME NEW c, IsCatalog(c), NEW id, IsLastId(c, id),
           NEW p, NEW body, NEW n \in Nat, PartOf(c, p, body, n)
    PROVE  LET row == [file |-> p, body |-> body, ord |-> n]
               d   == InsertChunk(c, id + 1, row)
           IN  /\ PartOf(d, p, body, n + 1)
               /\ d.files = c.files
               /\ \A q \in Paths \ {p} : SameRows(d, c, q)
               /\ DOMAIN d.chunks = DOMAIN c.chunks \cup {id + 1}
               /\ d.chunks[id + 1] = row
               /\ \A i \in DOMAIN c.chunks : d.chunks[i] = c.chunks[i]
<1> DEFINE row  == [file |-> p, body |-> body, ord |-> n]
           d    == InsertChunk(c, id + 1, row)
           old  == ChunksOfFiles(c.chunks, {p})
           mine == ChunksOfFiles(d.chunks, {p})
<1>1. /\ d.chunks = With(c.chunks, id + 1, row)
      /\ d.files = c.files
  BY DEF InsertChunk, IsCatalog
<1> HIDE DEF d, row
<1>0. IsColumn(c.chunks, ChunkRows)
  BY CatalogColumns
<1>2. /\ \A i \in DOMAIN c.chunks : i \in Nat /\ i > 0 /\ c.chunks[i] \in ChunkRows
      /\ id \in Nat
      /\ \A i \in DOMAIN c.chunks : i <= id
  BY <1>0 DEF IsLastId, IsColumn
<1>3. id + 1 \notin DOMAIN c.chunks
  BY <1>2
<1>4. DOMAIN d.chunks = DOMAIN c.chunks \cup {id + 1}
  BY <1>1 DEF With
<1>5. /\ d.chunks[id + 1] = row
      /\ \A i \in DOMAIN c.chunks : d.chunks[i] = c.chunks[i]
  BY <1>1, <1>3 DEF With
<1>6. mine = old \cup {id + 1}
  BY <1>3, <1>4, <1>5 DEF ChunksOfFiles, row
<1>7. /\ \A i \in old : i \in Nat /\ i <= id /\ c.chunks[i].ord \in Nat
      /\ \A i \in old : d.chunks[i] = c.chunks[i]
  BY <1>2, <1>5 DEF ChunksOfFiles, ChunkRows
<1>8. /\ \A i \in old : c.chunks[i].body = body /\ c.chunks[i].ord < n
      /\ \A k \in Nat : k < n => \E i \in old : c.chunks[i].ord = k
      /\ \A i, j \in old : i < j => c.chunks[i].ord < c.chunks[j].ord
  BY DEF PartOf
<1> HIDE DEF old, mine
<1>9. \A i \in mine : d.chunks[i].body = body /\ d.chunks[i].ord < n + 1
  BY <1>5, <1>6, <1>7, <1>8 DEF row
<1>10. ASSUME NEW k \in Nat, k < n + 1
       PROVE  \E i \in mine : d.chunks[i].ord = k
  <2>1. CASE k < n
    BY <2>1, <1>6, <1>7, <1>8
  <2>2. CASE k = n
    BY <2>2, <1>5, <1>6 DEF row
  <2>3. QED
    BY <1>10, <2>1, <2>2
<1>11. ASSUME NEW i \in mine, NEW j \in mine, i < j
       PROVE  d.chunks[i].ord < d.chunks[j].ord
  <2>1. i \in old
    BY <1>2, <1>6, <1>7, <1>11
  <2>2. CASE j \in old
    <3>1. c.chunks[i].ord < c.chunks[j].ord
      BY <2>1, <2>2, <1>8, <1>11
    <3>2. d.chunks[i] = c.chunks[i] /\ d.chunks[j] = c.chunks[j]
      BY <2>1, <2>2, <1>7
    <3>3. QED
      BY <3>1, <3>2
  <2>3. CASE j = id + 1
    <3>1. d.chunks[i] = c.chunks[i] /\ c.chunks[i].ord < n
      BY <2>1, <1>7, <1>8
    <3>2. d.chunks[j].ord = n
      BY <2>3, <1>5 DEF row
    <3>3. QED
      BY <3>1, <3>2
  <2>4. QED
    BY <2>2, <2>3, <1>6
<1>12. PartOf(d, p, body, n + 1)
  BY <1>9, <1>10, <1>11 DEF PartOf, mine
<1>13. ASSUME NEW q \in Paths \ {p}
       PROVE  SameRows(d, c, q)
  <2>1. ChunksOfFiles(d.chunks, {q}) = ChunksOfFiles(c.chunks, {q})
    BY <1>4, <1>5 DEF ChunksOfFiles, row
  <2>2. \A i \in ChunksOfFiles(d.chunks, {q}) : d.chunks[i] = c.chunks[i]
    BY <2>1, <1>5 DEF ChunksOfFiles
  <2>3. QED
    BY <2>1, <2>2, <1>1 DEF SameRows
<1>14. QED
  BY <1>1, <1>4, <1>5, <1>12, <1>13 DEF d, row

\* embed_row, the meta rows and the version leave the rows of files alone.
LEMMA CommitRows ==
    ASSUME TypeOK,
           \/ UpdateEmbedRows
           \/ SetModel
           \/ SetDim
           \/ BumpVersion
    PROVE  tx' = db' /\ db'.files = db.files /\ db'.chunks = db.chunks
<1>1. DOMAIN db = {"files", "chunks", "embedRow", "model", "dim", "version"}
  BY DEF TypeOK, IsCatalog
<1>2. QED
  BY <1>1 DEF UpdateEmbedRows, SetModel, SetDim, BumpVersion, Commit

(***************************************************************************)
(* A file is catalogued whole or not at all, and a run leaves the rows of  *)
(* the files it keeps alone.  Between two savepoints the indexer's own     *)
(* view is the committed catalog; within one it differs in a single file,  *)
(* which the committed catalog does not have, the run does not keep and    *)
(* will not insert again.  This rests on the files of the changeset        *)
(* waiting for their insert without a row, which the deletion sees to.     *)
(***************************************************************************)

Pending == plan.changed \cup plan.new

StoreInv ==
    /\ pc # "chunks" => tx = db
    /\ pc = "chunks" =>
          /\ \A q \in Paths \ {cur.path} : SameRows(tx, db, q)
          /\ tx.files[cur.path] # Absent
          /\ cur.done <= NumChunks[cur.body]
          /\ PartOf(tx, cur.path, cur.body, cur.done)
    /\ \A p \in Paths : WholeFile(db, p)
    /\ pc \notin {"idle", "diff"} => plan.keep \cap Pending = {}
    /\ pc = "delete" => /\ plan.keep \cap plan.deleted = {}
                        /\ \A p \in plan.new : db.files[p] = Absent
    /\ pc \in InsertSteps => \A p \in Pending : db.files[p] = Absent
    /\ pc \in FileSteps => /\ db.files[cur.path] = Absent
                           /\ cur.path \notin plan.keep \cup Pending
    /\ pc \in {"row", "hash"} => cur.done = 0

\* A step that leaves rows, plan and file alone.
LEMMA QuietStepStores ==
    ASSUME StoreInv, pc # "chunks", pc' # "chunks", tx' = db',
           db'.files = db.files, db'.chunks = db.chunks,
           \/ pc' \in {"idle", "diff"}
           \/ /\ pc' \in RebuildSteps
              /\ pc \notin {"idle", "diff"}
              /\ plan' = plan
    PROVE  StoreInv'
<1>1. \A p \in Paths : WholeFile(db', p)
  BY SameTableSameRows, SameRowsSameFile DEF StoreInv
<1>2. QED
  BY <1>1 DEF StoreInv, RebuildSteps, InsertSteps, FileSteps, Pending

\* The changeset: what it keeps it does not insert, and what is new has no row.
LEMMA ChangesetParts ==
    ASSUME Diff
    PROVE  /\ plan'.keep \cap (plan'.changed \cup plan'.new) = {}
           /\ plan'.keep \cap plan'.deleted = {}
           /\ \A p \in plan'.new : p \in Paths /\ db.files[p] = Absent
BY DEF Diff, Walked, Catalogued

LEMMA DonePlan ==
    ASSUME NEW p, plan \in Plans, plan' = Done(p)
    PROVE  /\ plan'.keep = plan.keep
           /\ plan'.changed = plan.changed \ {p}
           /\ plan'.new = plan.new \ {p}
           /\ Pending' = Pending \ {p}
BY DEF Done, Plans, Pending

LEMMA InitStores == ASSUME Init PROVE StoreInv
<1>1. ASSUME NEW p \in Paths PROVE WholeFile(db, p)
  BY DEF Init, EmptyCatalog, NoChunks, WholeFile, ChunksOfFiles
<1>2. QED
  BY <1>1 DEF Init, StoreInv, InsertSteps, FileSteps

LEMMA StepStores == ASSUME TypeOK, StoreInv, [Next]_indexVars PROVE StoreInv'
<1> USE DEF FileSteps
<1>1. ASSUME NEW root \in Roots, NEW force \in BOOLEAN, NEW model \in Models,
             StartRun(root, force, model)
      PROVE  StoreInv'
  BY <1>1, QuietStepStores DEF StartRun, StoreInv
<1>2. CASE Diff
  <2>1. /\ tx' = db' /\ db' = db /\ pc' = "delete"
    BY <1>2 DEF Diff, StoreInv
  <2>2. \A p \in Paths : WholeFile(db', p)
    BY <2>1 DEF StoreInv
  <2>3. QED
    BY <1>2, <2>1, <2>2, ChangesetParts DEF StoreInv, InsertSteps, Pending
<1>3. CASE DeleteObsolete
  <2> DEFINE obsolete == plan.deleted \cup plan.changed
  <2>1. /\ db' = DeleteFiles(db, obsolete) /\ tx' = db'
        /\ pc = "delete" /\ pc' = "insert" /\ plan' = plan
    BY <1>3 DEF DeleteObsolete
  <2>2. IsCatalog(db) /\ plan \in Plans
    BY <2>1 DEF TypeOK
  <2>3. /\ \A p \in Paths \cap obsolete :
               db'.files[p] = Absent /\ ChunksOfFiles(db'.chunks, {p}) = {}
        /\ \A p \in Paths \ obsolete : SameRows(db', db, p)
    BY <2>1, <2>2, DeleteFilesRows
  <2>4. ASSUME NEW p \in Paths PROVE WholeFile(db', p)
    <3>1. CASE p \in obsolete
      BY <3>1, <2>3 DEF WholeFile
    <3>2. CASE p \notin obsolete
      BY <3>2, <2>3, SameRowsSameFile DEF StoreInv
    <3>3. QED
      BY <3>1, <3>2
  <2>5. ASSUME NEW p \in Pending PROVE db'.files[p] = Absent
    <3>1. p \in Paths
      BY <2>2 DEF Pending, Plans
    <3>2. CASE p \in obsolete
      BY <3>1, <3>2, <2>3
    <3>3. CASE p \notin obsolete
      <4>1. p \in plan.new
        BY <3>3 DEF Pending
      <4>2. QED
        BY <4>1, <3>1, <3>3, <2>1, <2>3 DEF StoreInv, SameRows
    <3>4. QED
      BY <3>2, <3>3
  <2>6. Pending' = Pending
    BY <2>1 DEF Pending
  <2>7. QED
    BY <2>1, <2>4, <2>5, <2>6 DEF StoreInv
<1>4. ASSUME NEW p \in Paths, ExtractFile(p)
      PROVE  StoreInv'
  <2>1. /\ pc = "insert" /\ pc' = "row" /\ UNCHANGED <<db, tx>>
        /\ plan' = Done(p) /\ cur'.path = p /\ cur'.done = 0
        /\ p \in Pending
    BY <1>4 DEF ExtractFile, NextInserts, Pending
  <2>2. plan \in Plans
    BY <2>1 DEF TypeOK
  <2>3. plan'.keep = plan.keep /\ Pending' = Pending \ {p}
    BY <2>1, <2>2, DonePlan
  <2>4. \A q \in Pending : db.files[q] = Absent
    BY <2>1 DEF StoreInv, InsertSteps
  <2>5. \A q \in Paths : WholeFile(db', q)
    BY <2>1 DEF StoreInv
  <2>6. plan.keep \cap Pending = {}
    BY <2>1 DEF StoreInv
  <2>7. QED
    BY <2>1, <2>3, <2>4, <2>5, <2>6 DEF StoreInv
<1>5. ASSUME NEW p \in Paths, ExtractFails(p)
      PROVE  StoreInv'
  <2>1. /\ pc = "insert" /\ pc' = "insert" /\ UNCHANGED <<db, tx>>
        /\ plan' = Done(p)
    BY <1>5 DEF ExtractFails
  <2>2. plan \in Plans
    BY <2>1 DEF TypeOK
  <2>3. plan'.keep = plan.keep /\ Pending' = Pending \ {p}
    BY <2>1, <2>2, DonePlan
  <2>4. \A q \in Pending : db.files[q] = Absent
    BY <2>1 DEF StoreInv, InsertSteps
  <2>5. \A q \in Paths : WholeFile(db', q)
    BY <2>1 DEF StoreInv
  <2>6. plan.keep \cap Pending = {}
    BY <2>1 DEF StoreInv
  <2>7. QED
    BY <2>1, <2>3, <2>4, <2>5, <2>6 DEF StoreInv
<1>a. CASE StatFile
  <2>1. /\ pc = "row" /\ pc' = "hash" /\ UNCHANGED <<db, tx, plan>>
        /\ cur \in Files /\ cur'.path = cur.path /\ cur'.done = cur.done
    BY <1>a DEF StatFile, TypeOK, Files
  <2>2. Pending' = Pending
    BY <2>1 DEF Pending
  <2>3. QED
    BY <2>1, <2>2 DEF StoreInv, InsertSteps
<1>6. CASE PersistFileRow
  <2> DEFINE p   == cur.path
             row == [stat |-> cur.stat, body |-> disk[p].body]
  <2>1. /\ pc = "hash" /\ pc' = "chunks" /\ UNCHANGED <<db, plan, cur>>
        /\ disk[p] # Absent
        /\ tx' = InsertFile(db, p, row)
    BY <1>6 DEF PersistFileRow, StoreInv
  <2>a. row \in FileRows /\ row # Absent
    BY <2>1, ContentsAssumption, AbsentAssumption DEF TypeOK, Files, FileRows
  <2> HIDE DEF row
  <2>2. IsCatalog(db) /\ cur \in Files
    BY <2>1 DEF TypeOK
  <2>3. p \in Paths /\ cur.body \in Bodies /\ NumChunks[cur.body] \in Nat
    BY <2>2, NumChunksAssumption DEF Files
  <2>4. /\ tx'.files[p] = row /\ tx'.chunks = db.chunks
        /\ \A q \in Paths \ {p} : SameRows(tx', db, q)
    BY <2>1, <2>2, <2>3, InsertFileRows
  <2>5. ChunksOfFiles(db.chunks, {p}) = {}
    BY <2>1, <2>3 DEF StoreInv, WholeFile
  <2>6. cur.done = 0
    BY <2>1 DEF StoreInv
  <2>7. PartOf(tx', p, cur.body, 0)
    BY <2>4, <2>5 DEF PartOf
  <2>8. QED
    BY <2>1, <2>a, <2>3, <2>4, <2>6, <2>7 DEF StoreInv, InsertSteps, Pending
<1>7. CASE PersistChunk
  <2> DEFINE p   == cur.path
             n   == cur.done
             row == [file |-> p, body |-> cur.body, ord |-> n]
  <2>1. /\ pc = "chunks" /\ pc' = "chunks" /\ UNCHANGED <<db, plan>>
        /\ cur.done < NumChunks[cur.body]
        /\ cur' = [cur EXCEPT !.done = @ + 1]
    BY <1>7 DEF PersistChunk
  <2>2. PICK id \in DOMAIN tx.chunks \cup {0} :
           IsLastId(tx, id) /\ tx' = InsertChunk(tx, id + 1, row)
    BY <1>7 DEF PersistChunk
  <2>3. IsCatalog(tx) /\ cur \in Files
    BY <2>1 DEF TypeOK
  <2>4. /\ p \in Paths /\ cur.body \in Bodies /\ n \in Nat
        /\ NumChunks[cur.body] \in Nat
        /\ cur'.path = p /\ cur'.body = cur.body /\ cur'.done = n + 1
    BY <2>1, <2>3, NumChunksAssumption DEF Files
  <2>5. /\ PartOf(tx, p, cur.body, n)
        /\ \A q \in Paths \ {p} : SameRows(tx, db, q)
        /\ tx.files[p] # Absent
    BY <2>1 DEF StoreInv
  <2>6. /\ PartOf(tx', p, cur.body, n + 1)
        /\ tx'.files = tx.files
        /\ \A q \in Paths \ {p} : SameRows(tx', tx, q)
    BY <2>2, <2>3, <2>4, <2>5, InsertChunkRows
  <2>7. \A q \in Paths \ {p} : SameRows(tx', db, q)
    BY <2>5, <2>6 DEF SameRows
  <2>8. n + 1 <= NumChunks[cur.body]
    BY <2>1, <2>4
  <2>9. QED
    BY <2>1, <2>4, <2>5, <2>6, <2>7, <2>8 DEF StoreInv, InsertSteps, Pending
<1>8. CASE ReleaseSavepoint
  <2> DEFINE p == cur.path
  <2>1. /\ pc = "chunks" /\ pc' = "insert" /\ UNCHANGED <<tx, plan>> /\ db' = tx
        /\ cur.done = NumChunks[cur.body]
    BY <1>8 DEF ReleaseSavepoint
  <2>2. plan \in Plans /\ cur \in Files /\ p \in Paths /\ cur.body \in Bodies
    BY <2>1 DEF TypeOK, Files
  <2>3. /\ \A q \in Paths \ {p} : SameRows(db', db, q)
        /\ WholeFile(db', p)
    BY <2>1, <2>2 DEF StoreInv, WholeFile
  <2>4. \A q \in Paths : WholeFile(db', q)
    BY <2>3, SameRowsSameFile DEF StoreInv
  <2>5. ASSUME NEW q \in Pending PROVE db'.files[q] = Absent
    <3>1. q \in Paths /\ q # p
      BY <2>1, <2>2 DEF StoreInv, Pending, Plans
    <3>2. SameRows(db', db, q) /\ db.files[q] = Absent
      BY <2>1, <2>3, <3>1 DEF StoreInv, InsertSteps
    <3>3. QED
      BY <3>2 DEF SameRows
  <2>6. plan.keep \cap Pending = {} /\ Pending' = Pending
    BY <2>1 DEF StoreInv, Pending
  <2>7. QED
    BY <2>1, <2>4, <2>5, <2>6 DEF StoreInv
<1>9. CASE RollbackFile
  <2>1. pc \in FileSteps /\ pc' = "insert" /\ UNCHANGED <<db, plan>> /\ tx' = db
    BY <1>9 DEF RollbackFile
  <2>2. Pending' = Pending
    BY <2>1 DEF Pending
  <2>3. /\ \A q \in Paths : WholeFile(db, q)
        /\ \A q \in Pending : db.files[q] = Absent
        /\ plan.keep \cap Pending = {}
    BY <2>1 DEF StoreInv, InsertSteps
  <2>4. QED
    BY <2>1, <2>2, <2>3 DEF StoreInv
<1>10. CASE InsertsDone
  BY <1>10, QuietStepStores DEF InsertsDone, StoreInv, RebuildSteps
<1>11. CASE ReadRows \/ UnlinkNpz \/ UnlinkSidecar \/ SaveNpz \/ SaveSidecar
  <2>1. /\ pc # "chunks" /\ pc \notin {"idle", "diff"} /\ pc' \in RebuildSteps
        /\ UNCHANGED <<db, tx, plan>>
    BY <1>11 DEF ReadRows, UnlinkNpz, UnlinkSidecar, SaveNpz, SaveSidecar, RebuildSteps
  <2>2. pc' # "chunks" /\ tx' = db'
    BY <2>1 DEF RebuildSteps, StoreInv
  <2>3. QED
    BY <2>1, <2>2, QuietStepStores
<1>12. CASE UpdateEmbedRows \/ SetModel \/ SetDim
  <2>1. /\ pc # "chunks" /\ pc \notin {"idle", "diff"} /\ pc' \in RebuildSteps
        /\ plan' = plan
    BY <1>12 DEF UpdateEmbedRows, SetModel, SetDim, RebuildSteps
  <2>2. pc' # "chunks"
    BY <2>1 DEF RebuildSteps
  <2>3. QED
    BY <1>12, <2>1, <2>2, CommitRows, QuietStepStores
<1>13. CASE BumpVersion
  <2>1. pc # "chunks" /\ pc' = "idle"
    BY <1>13 DEF BumpVersion, EndRun
  <2>2. QED
    BY <1>13, <2>1, CommitRows, QuietStepStores
<1>14. CASE Abort
  <2>1. pc' = "idle" /\ db' = db /\ tx' = db
    BY <1>14 DEF Abort, EndRun
  <2>2. \A p \in Paths : WholeFile(db', p)
    BY <2>1 DEF StoreInv
  <2>3. QED
    BY <2>1, <2>2 DEF StoreInv, InsertSteps
<1>15. ASSUME NEW p \in Paths, NEW content \in Contents \cup {Absent}, Edit(p, content)
       PROVE  StoreInv'
  BY <1>15 DEF Edit, StoreInv, Pending
<1>16. CASE UNCHANGED indexVars
  BY <1>16 DEF indexVars, StoreInv, Pending
<1>17. QED
  BY <1>1, <1>2, <1>3, <1>4, <1>5, <1>a, <1>6, <1>7, <1>8, <1>9, <1>10, <1>11, <1>12,
     <1>13, <1>14, <1>15, <1>16
  DEF Next, StartAny, RunStep, DiffRaises, Extract, EditAny

LEMMA StoreInvHolds == Spec => []StoreInv
<1>1. Init => StoreInv
  BY InitStores
<1>2. TypeOK /\ StoreInv /\ [Next]_indexVars => StoreInv'
  BY StepStores
<1>3. QED
  BY <1>1, <1>2, TypeCorrect, PTL DEF Spec

\* Whole files are what FilesAllOrNothing says they are.
LEMMA WholeFilesShown ==
    ASSUME TypeOK, \A p \in Paths : WholeFile(db, p)
    PROVE  FilesAllOrNothing
<1> SUFFICES ASSUME NEW p \in Paths
             PROVE  LET mine == ChunksOfFiles(db.chunks, {p})
                        ord(i) == db.chunks[i].ord
                    IN  IF db.files[p] = Absent
                        THEN mine = {}
                        ELSE \E b \in Bodies :
                                /\ \A i \in mine : db.chunks[i].body = b
                                /\ {ord(i) : i \in mine} = 0 .. NumChunks[b] - 1
                                /\ \A i, j \in mine : i < j => ord(i) < ord(j)
  BY DEF FilesAllOrNothing
<1> DEFINE mine == ChunksOfFiles(db.chunks, {p})
           ord(i) == db.chunks[i].ord
<1>1. CASE db.files[p] = Absent
  BY <1>1 DEF WholeFile
<1>2. CASE db.files[p] # Absent
  <2>1. PICK b \in Bodies : PartOf(db, p, b, NumChunks[b])
    BY <1>2 DEF WholeFile
  <2>2. NumChunks[b] \in Nat
    BY NumChunksAssumption
  <2>3. IsColumn(db.chunks, ChunkRows)
    BY CatalogColumns DEF TypeOK
  <2>4. \A i \in mine : ord(i) \in Nat
    BY <2>3 DEF IsColumn, ChunksOfFiles, ChunkRows
  <2>5. /\ \A i \in mine : db.chunks[i].body = b /\ ord(i) < NumChunks[b]
        /\ \A k \in Nat : k < NumChunks[b] => \E i \in mine : ord(i) = k
        /\ \A i, j \in mine : i < j => ord(i) < ord(j)
    BY <2>1 DEF PartOf
  <2> HIDE DEF mine, ord
  <2>6. {ord(i) : i \in mine} = 0 .. NumChunks[b] - 1
    <3>1. ASSUME NEW i \in mine PROVE ord(i) \in 0 .. NumChunks[b] - 1
      BY <2>2, <2>4, <2>5
    <3>2. ASSUME NEW k \in 0 .. NumChunks[b] - 1 PROVE \E i \in mine : ord(i) = k
      BY <2>2, <2>5
    <3>3. QED
      BY <3>1, <3>2
  <2>7. QED
    BY <1>2, <2>5, <2>6 DEF mine, ord
<1>3. QED
  BY <1>1, <1>2

\* The committed catalog shows a file with all the chunks of one body or not
\* at all, whenever the indexer is killed (savepoint, ON DELETE CASCADE;
\* IndexStore's FilesAllOrNothing).
THEOREM WholeFiles == Spec => []FilesAllOrNothing
<1>1. TypeOK /\ StoreInv => FilesAllOrNothing
  BY WholeFilesShown DEF StoreInv
<1>2. QED
  BY <1>1, TypeCorrect, StoreInvHolds, PTL

\* No step of a run rewrites a row of a file the changeset keeps.
LEMMA StepKeeps ==
    ASSUME TypeOK, StoreInv, [Next]_indexVars, pc \notin {"idle", "diff"},
           NEW p \in plan.keep
    PROVE  RowsOf(db', p) = RowsOf(db, p)
<1>1. plan \in Plans /\ p \in Paths
  BY DEF TypeOK, Plans
<1>2. p \notin Pending
  BY DEF StoreInv
<1>3. CASE DeleteObsolete
  <2>1. p \notin plan.deleted \cup plan.changed
    BY <1>2, <1>3 DEF DeleteObsolete, StoreInv, Pending
  <2>2. IsCatalog(db)
    BY DEF TypeOK
  <2>3. SameRows(db', db, p)
    BY <1>1, <1>3, <2>1, <2>2, DeleteFilesRows DEF DeleteObsolete
  <2>4. QED
    BY <2>3, SameRowsSameFile
<1>4. CASE ReleaseSavepoint
  <2>1. SameRows(db', db, p)
    BY <1>1, <1>4 DEF ReleaseSavepoint, StoreInv, FileSteps
  <2>2. QED
    BY <2>1, SameRowsSameFile
<1>5. CASE UpdateEmbedRows \/ SetModel \/ SetDim \/ BumpVersion
  BY <1>5, CommitRows DEF RowsOf
<1>6. CASE UNCHANGED db
  BY <1>6 DEF RowsOf
<1>7. ~ StartAny
  BY DEF StartAny, StartRun
<1>8. CASE /\ ~ DeleteObsolete /\ ~ ReleaseSavepoint
           /\ ~ (UpdateEmbedRows \/ SetModel \/ SetDim \/ BumpVersion)
  <2>1. UNCHANGED db
    BY <1>7, <1>8
    DEF Next, StartAny, RunStep, DiffRaises, Extract, EditAny, Diff, ExtractFile,
        ExtractFails, StatFile, PersistFileRow, PersistChunk, RollbackFile, InsertsDone,
        ReadRows, UnlinkNpz, UnlinkSidecar, SaveNpz, SaveSidecar, Abort, Edit,
        indexVars
  <2>2. QED
    BY <2>1, <1>6
<1>9. QED
  BY <1>3, <1>4, <1>5, <1>8

\* Incremental indexing leaves the rows of an unchanged file alone, their ids
\* included, through every step of a run and every way it can fail (_diff,
\* _apply_deletes, _apply_inserts; IndexStore's KeptFilesUntouched).
THEOREM KeptFiles == Spec => KeptFilesUntouched
<1>1. TypeOK /\ StoreInv /\ [Next]_indexVars =>
         [pc \notin {"idle", "diff"} =>
             \A p \in plan.keep : RowsOf(db', p) = RowsOf(db, p)]_indexVars
  BY StepKeeps
<1>2. QED
  BY <1>1, TypeCorrect, StoreInvHolds, PTL DEF Spec, KeptFilesUntouched

(***************************************************************************)
(* The catalog matches the tree after a run that succeeded.  Of a file     *)
(* that nobody touches the walk's stat stays true; the deletion leaves     *)
(* such a file with a right row, with none, or waiting for its insert;     *)
(* each insert settles one more.  With --force nothing is kept, so that    *)
(* every chunk row is inserted by the run itself, from the file's bytes.   *)
(***************************************************************************)

\* What the catalog has to say of a file that nobody touches.
Given(p) == IF p \in job.root THEN disk[p] ELSE Absent

\* The files nobody has touched since the walk.
Steady == Paths \ unsettled

TreeInv ==
    /\ pc # "idle" => Walked \subseteq job.root
    /\ pc # "idle" => \A p \in Steady : seen[p] = Given(p)
    /\ pc = "delete" =>
          \A p \in Steady :
             \/ p \in Pending
             \/ p \in plan.deleted /\ Given(p) = Absent
             \/ p \notin plan.deleted /\ db.files[p] = Given(p)
    /\ pc \in InsertSteps =>
          \A p \in Steady :
             \/ p \in Pending
             \/ pc \in FileSteps /\ p = cur.path
             \/ db.files[p] = Given(p)
    /\ pc \in {"delete"} \cup InsertSteps => Pending \subseteq job.root
    /\ pc \in FileSteps => cur.path \in job.root
    /\ pc = "hash" /\ cur.path \in Steady => /\ disk[cur.path] # Absent
                                             /\ cur.stat = disk[cur.path].stat
    /\ pc = "chunks" /\ cur.path \in Steady => tx.files[cur.path] = disk[cur.path]
    /\ pc \in RebuildSteps => \A p \in Steady : db.files[p] = Given(p)
    /\ CatalogMatchesTree

\* The chunks of every file that nobody touches are those of its bytes.
Fresh(c) == \A i \in DOMAIN c.chunks :
                c.chunks[i].file \in Steady =>
                    c.chunks[i].body = disk[c.chunks[i].file].body

ForceInv ==
    /\ pc = "delete" /\ job.force => Catalogued \subseteq plan.changed \cup plan.deleted
    /\ pc \in InsertSteps \cup RebuildSteps /\ job.force => Fresh(db)
    /\ pc \in FileSteps /\ cur.path \in Steady =>
          cur.body = disk[cur.path].body
    /\ pc = "chunks" /\ job.force => Fresh(tx)
    /\ pc = "idle" /\ exit = "ok" /\ runs > 0 /\ job.force => Fresh(db)

\* A changeset settles every file nobody touches: kept, it has the row it
\* should have; its hash is compared when its stat is the same.
LEMMA ChangesetSettles ==
    ASSUME TypeOK, Diff, \A p \in Steady : seen[p] = Given(p),
           NEW p \in Steady
    PROVE  \/ p \in plan'.changed \cup plan'.new
           \/ p \in plan'.deleted /\ Given(p) = Absent
           \/ p \notin plan'.deleted /\ db.files[p] = Given(p)
<1>1. /\ seen[p] = Given(p) /\ p \in Paths
      /\ disk[p] \in Contents \cup {Absent}
      /\ db.files[p] \in FileRows \cup {Absent}
  BY DEF TypeOK, IsCatalog, Steady
<1>2. CASE p \notin Walked
  BY <1>1, <1>2 DEF Diff, Walked, Catalogued
<1>3. CASE p \in Walked /\ p \notin Catalogued
  BY <1>3 DEF Diff
<1>4. CASE p \in Walked \cap Catalogued /\ Unchanged(p) /\ ~ job.force
  <2>1. seen[p] = disk[p] /\ disk[p] \in Contents /\ db.files[p] \in FileRows
    BY <1>1, <1>4 DEF Given, Walked, Catalogued
  <2>2. disk[p].stat = db.files[p].stat /\ disk[p].body = db.files[p].body
    BY <1>4, <2>1 DEF Unchanged, SameStat
  <2>3. disk[p] = db.files[p]
    BY <2>1, <2>2, ContentsAssumption DEF FileRows
  <2>4. p \notin plan'.deleted
    BY <1>4 DEF Diff
  <2>5. QED
    BY <1>1, <2>1, <2>3, <2>4
<1>5. CASE p \in Walked \cap Catalogued /\ (job.force \/ ~ Unchanged(p))
  BY <1>5 DEF Diff
<1>6. QED
  BY <1>2, <1>3, <1>4, <1>5

\* What is inserted was walked below the root of the run.
LEMMA ChangesetWalked ==
    ASSUME TypeOK, Diff
    PROVE  plan'.changed \cup plan'.new \subseteq Walked
BY DEF Diff, Catalogued, Walked

\* A step that leaves rows, job and tree alone, before or during the rebuild.
LEMMA QuietStepSettles ==
    ASSUME TreeInv, pc \in RebuildSteps, pc' \in RebuildSteps \cup {"idle"},
           db'.files = db.files, UNCHANGED <<disk, job, unsettled>>,
           pc' # "idle" => UNCHANGED seen
    PROVE  TreeInv'
<1>1. \A p : Given(p)' = Given(p)
  BY DEF Given
<1>2. Steady' = Steady
  BY DEF Steady
<1>3. \A p \in Steady : db'.files[p] = Given(p)
  BY DEF TreeInv
<1>4. CatalogMatchesTree'
  BY <1>2, <1>3 DEF CatalogMatchesTree, Given, Steady
<1>5. pc' # "idle" => /\ Walked' \subseteq job'.root
                      /\ \A p \in Steady' : seen'[p] = Given(p)'
  BY <1>1, <1>2 DEF TreeInv, Walked, RebuildSteps
<1>6. pc' \notin {"delete"} \cup InsertSteps
  BY DEF RebuildSteps, InsertSteps
<1>7. QED
  BY <1>1, <1>2, <1>3, <1>4, <1>5, <1>6 DEF TreeInv, InsertSteps, FileSteps

LEMMA StepSettles ==
    ASSUME TypeOK, StoreInv, TreeInv, [Next]_indexVars
    PROVE  TreeInv'
<1> USE DEF FileSteps
<1>1. ASSUME NEW root \in Roots, NEW force \in BOOLEAN, NEW model \in Models,
             StartRun(root, force, model)
      PROVE  TreeInv'
  <2>1. /\ pc' = "diff" /\ job'.root = root /\ disk' = disk
        /\ seen' = [p \in Paths |-> IF p \in root \ unsettled' THEN disk[p] ELSE Absent]
    BY <1>1 DEF StartRun
  <2>2. Walked' \subseteq job'.root
    BY <2>1 DEF Walked
  <2>3. \A p \in Steady' : seen'[p] = Given(p)'
    BY <2>1 DEF Given, Steady
  <2>4. QED
    BY <2>1, <2>2, <2>3
    DEF TreeInv, Steady, InsertSteps, RebuildSteps, CatalogMatchesTree, RunSucceeded
<1>2. CASE Diff
  <2>1. /\ pc = "diff" /\ pc' = "delete"
        /\ UNCHANGED <<disk, db, job, seen, unsettled>>
    BY <1>2 DEF Diff
  <2>2. /\ Steady' = Steady /\ \A p : Given(p)' = Given(p)
        /\ Walked \subseteq job.root /\ Walked' = Walked
        /\ \A p \in Steady : seen[p] = Given(p)
    BY <2>1 DEF Steady, Given, Walked, TreeInv
  <2>3. Pending' \subseteq job'.root
    BY <1>2, <2>1, <2>2, ChangesetWalked DEF Pending
  <2>4. \A p \in Steady :
           \/ p \in plan'.changed \cup plan'.new
           \/ p \in plan'.deleted /\ Given(p) = Absent
           \/ p \notin plan'.deleted /\ db.files[p] = Given(p)
    BY <1>2, <2>2, ChangesetSettles
  <2>5. QED
    BY <2>1, <2>2, <2>3, <2>4
    DEF TreeInv, Pending, InsertSteps, RebuildSteps, CatalogMatchesTree, RunSucceeded
<1>3. CASE DeleteObsolete
  <2> DEFINE obsolete == plan.deleted \cup plan.changed
  <2>1. /\ db' = DeleteFiles(db, obsolete)
        /\ pc = "delete" /\ pc' = "insert"
        /\ UNCHANGED <<disk, job, seen, plan, unsettled>>
    BY <1>3 DEF DeleteObsolete
  <2>2. IsCatalog(db)
    BY DEF TypeOK
  <2>3. /\ \A p \in Paths \cap obsolete : db'.files[p] = Absent
        /\ \A p \in Paths \ obsolete : SameRows(db', db, p)
    BY <2>1, <2>2, DeleteFilesRows
  <2>4. /\ Steady' = Steady /\ \A p : Given(p)' = Given(p)
        /\ Walked' = Walked /\ Pending' = Pending
    BY <2>1 DEF Steady, Given, Walked, Pending
  <2>5. ASSUME NEW p \in Steady PROVE p \in Pending \/ db'.files[p] = Given(p)
    <3>1. p \in Paths
      BY DEF Steady
    <3>2. \/ p \in Pending
          \/ p \in plan.deleted /\ Given(p) = Absent
          \/ p \notin plan.deleted /\ db.files[p] = Given(p)
      BY <2>1 DEF TreeInv
    <3>3. CASE p \in plan.deleted /\ Given(p) = Absent
      BY <3>1, <3>3, <2>3
    <3>4. CASE p \notin plan.deleted /\ db.files[p] = Given(p) /\ p \notin Pending
      BY <3>1, <3>4, <2>3 DEF Pending, SameRows
    <3>5. QED
      BY <3>2, <3>3, <3>4
  <2>6. QED
    BY <2>1, <2>4, <2>5
    DEF TreeInv, InsertSteps, RebuildSteps, CatalogMatchesTree, RunSucceeded
<1>4. ASSUME NEW p \in Paths, ExtractFile(p)
      PROVE  TreeInv'
  <2>1. /\ pc = "insert" /\ pc' = "row"
        /\ plan' = Done(p) /\ cur'.path = p
        /\ p \in Pending
        /\ UNCHANGED <<disk, db, job, seen, unsettled>>
    BY <1>4 DEF ExtractFile, NextInserts, Pending
  <2>2. Pending' = Pending \ {p}
    BY <2>1, DonePlan DEF TypeOK
  <2>3. /\ Steady' = Steady /\ \A q : Given(q)' = Given(q)
        /\ Walked' = Walked
    BY <2>1 DEF Steady, Given, Walked
  <2>4. /\ \A q \in Steady : q \in Pending \/ db.files[q] = Given(q)
        /\ Pending \subseteq job.root
    BY <2>1 DEF TreeInv, InsertSteps
  <2>5. QED
    BY <2>1, <2>2, <2>3, <2>4
    DEF TreeInv, InsertSteps, RebuildSteps, CatalogMatchesTree, RunSucceeded
<1>5. ASSUME NEW p \in Paths, ExtractFails(p)
      PROVE  TreeInv'
  <2>1. /\ pc = "insert" /\ pc' = "insert"
        /\ plan' = Done(p)
        /\ unsettled' = unsettled \cup {p}
        /\ UNCHANGED <<disk, db, job, seen>>
    BY <1>5 DEF ExtractFails
  <2>2. Pending' = Pending \ {p}
    BY <2>1, DonePlan DEF TypeOK
  <2>3. /\ Steady' = Steady \ {p} /\ \A q : Given(q)' = Given(q)
        /\ Walked' = Walked
    BY <2>1 DEF Steady, Given, Walked
  <2>4. /\ \A q \in Steady : q \in Pending \/ db.files[q] = Given(q)
        /\ Pending \subseteq job.root
    BY <2>1 DEF TreeInv, InsertSteps
  <2>5. QED
    BY <2>1, <2>2, <2>3, <2>4
    DEF TreeInv, InsertSteps, RebuildSteps, CatalogMatchesTree, RunSucceeded
<1>a. CASE StatFile
  <2>1. /\ pc = "row" /\ pc' = "hash" /\ disk[cur.path] # Absent
        /\ cur'.path = cur.path /\ cur'.stat = disk[cur.path].stat
        /\ UNCHANGED <<disk, db, job, seen, plan, unsettled>>
    BY <1>a DEF StatFile, TypeOK, Files
  <2>2. /\ Steady' = Steady /\ \A q : Given(q)' = Given(q)
        /\ Walked' = Walked /\ Pending' = Pending
    BY <2>1 DEF Steady, Given, Walked, Pending
  <2>3. QED
    BY <2>1, <2>2
    DEF TreeInv, InsertSteps, RebuildSteps, CatalogMatchesTree, RunSucceeded
<1>6. CASE PersistFileRow
  <2> DEFINE row == [stat |-> cur.stat, body |-> disk[cur.path].body]
  <2>1. /\ pc = "hash" /\ pc' = "chunks"
        /\ tx' = InsertFile(tx, cur.path, row)
        /\ UNCHANGED <<disk, db, job, seen, plan, cur, unsettled>>
    BY <1>6 DEF PersistFileRow
  <2>a. cur.path \in Steady => row = disk[cur.path]
    <3>1. ASSUME cur.path \in Steady
          PROVE  disk[cur.path] \in Contents /\ cur.stat = disk[cur.path].stat
      BY <2>1, <3>1 DEF TreeInv, TypeOK, Steady
    <3>2. QED
      BY <3>1, ContentsAssumption
  <2> HIDE DEF row
  <2>b. tx'.files[cur.path] = row
    BY <2>1, InsertFileRows DEF TypeOK, Files
  <2>2. cur.path \in Steady => tx'.files[cur.path] = disk[cur.path]
    BY <2>a, <2>b
  <2>3. /\ Steady' = Steady /\ \A q : Given(q)' = Given(q)
        /\ Walked' = Walked /\ Pending' = Pending
    BY <2>1 DEF Steady, Given, Walked, Pending
  <2>4. QED
    BY <2>1, <2>2, <2>3
    DEF TreeInv, InsertSteps, RebuildSteps, CatalogMatchesTree, RunSucceeded
<1>7. CASE PersistChunk
  <2>1. /\ pc = "chunks" /\ pc' = "chunks" /\ cur' = [cur EXCEPT !.done = @ + 1]
        /\ UNCHANGED <<disk, db, job, seen, plan, unsettled>>
    BY <1>7 DEF PersistChunk
  <2>2. cur'.path = cur.path
    BY <2>1 DEF TypeOK, Files
  <2>3. tx'.files = tx.files
    <3>1. DOMAIN tx = {"files", "chunks", "embedRow", "model", "dim", "version"}
      BY DEF TypeOK, IsCatalog
    <3>2. QED
      BY <1>7, <3>1 DEF PersistChunk, InsertChunk
  <2>4. /\ Steady' = Steady /\ \A q : Given(q)' = Given(q)
        /\ Walked' = Walked /\ Pending' = Pending
    BY <2>1 DEF Steady, Given, Walked, Pending
  <2>5. QED
    BY <2>1, <2>2, <2>3, <2>4
    DEF TreeInv, InsertSteps, RebuildSteps, CatalogMatchesTree, RunSucceeded
<1>8. CASE ReleaseSavepoint
  <2> DEFINE p == cur.path
  <2>1. /\ pc = "chunks" /\ pc' = "insert" /\ db' = tx
        /\ UNCHANGED <<disk, job, seen, plan, unsettled>>
    BY <1>8 DEF ReleaseSavepoint
  <2>2. p \in Paths
    BY <2>1 DEF TypeOK, Files
  <2>3. /\ Steady' = Steady /\ \A q : Given(q)' = Given(q)
        /\ Walked' = Walked /\ Pending' = Pending
    BY <2>1 DEF Steady, Given, Walked, Pending
  <2>4. \A q \in Steady \ {p} : db'.files[q] = db.files[q]
    BY <2>1 DEF StoreInv, SameRows, Steady
  <2>5. p \in Steady => db'.files[p] = Given(p)
    BY <2>1 DEF TreeInv, Given
  <2>6. \A q \in Steady : q \in Pending \/ db'.files[q] = Given(q)
    BY <2>1, <2>4, <2>5 DEF TreeInv, InsertSteps
  <2>7. QED
    BY <2>1, <2>3, <2>6
    DEF TreeInv, InsertSteps, RebuildSteps, CatalogMatchesTree, RunSucceeded
<1>9. CASE RollbackFile
  <2>1. /\ pc \in FileSteps /\ pc' = "insert"
        /\ unsettled' = unsettled \cup {cur.path}
        /\ UNCHANGED <<disk, db, job, seen, plan>>
    BY <1>9 DEF RollbackFile
  <2>2. /\ Steady' = Steady \ {cur.path} /\ \A q : Given(q)' = Given(q)
        /\ Walked' = Walked /\ Pending' = Pending
    BY <2>1 DEF Steady, Given, Walked, Pending
  <2>3. \A q \in Steady' : q \in Pending \/ db.files[q] = Given(q)
    BY <2>1, <2>2 DEF TreeInv, InsertSteps
  <2>4. QED
    BY <2>1, <2>2, <2>3
    DEF TreeInv, InsertSteps, RebuildSteps, CatalogMatchesTree, RunSucceeded
<1>10. CASE InsertsDone
  <2>1. /\ pc = "insert" /\ pc' = "rows" /\ Pending = {}
        /\ UNCHANGED <<disk, db, job, seen, plan, unsettled>>
    BY <1>10 DEF InsertsDone, NextInserts, Pending
  <2>2. /\ Steady' = Steady /\ \A q : Given(q)' = Given(q)
        /\ Walked' = Walked
    BY <2>1 DEF Steady, Given, Walked
  <2>3. \A q \in Steady : db.files[q] = Given(q)
    BY <2>1 DEF TreeInv, InsertSteps
  <2>4. QED
    BY <2>1, <2>2, <2>3
    DEF TreeInv, InsertSteps, RebuildSteps, CatalogMatchesTree, RunSucceeded
<1>11. CASE ReadRows \/ UnlinkNpz \/ UnlinkSidecar \/ SaveNpz \/ SaveSidecar
  <2>1. /\ pc \in RebuildSteps /\ pc' \in RebuildSteps
        /\ UNCHANGED <<disk, db, job, seen, unsettled>>
    BY <1>11 DEF ReadRows, UnlinkNpz, UnlinkSidecar, SaveNpz, SaveSidecar, RebuildSteps
  <2>2. QED
    BY <2>1, QuietStepSettles
<1>12. CASE UpdateEmbedRows \/ SetModel \/ SetDim
  <2>1. /\ pc \in RebuildSteps /\ pc' \in RebuildSteps
        /\ UNCHANGED <<disk, job, seen, unsettled>>
    BY <1>12 DEF UpdateEmbedRows, SetModel, SetDim, RebuildSteps
  <2>2. QED
    BY <1>12, <2>1, CommitRows, QuietStepSettles
<1>13. CASE BumpVersion
  <2>1. /\ pc \in RebuildSteps /\ pc' = "idle"
        /\ UNCHANGED <<disk, job, unsettled>>
    BY <1>13 DEF BumpVersion, EndRun, RebuildSteps
  <2>2. QED
    BY <1>13, <2>1, CommitRows, QuietStepSettles
<1>14. CASE Abort
  BY <1>14 DEF Abort, EndRun, TreeInv, CatalogMatchesTree, RunSucceeded,
     InsertSteps, RebuildSteps
<1>15. ASSUME NEW p \in Paths, NEW content \in Contents \cup {Absent}, Edit(p, content)
       PROVE  TreeInv'
  <2>1. /\ disk' = [disk EXCEPT ![p] = content]
        /\ unsettled' = unsettled \cup {p}
        /\ UNCHANGED <<db, tx, pc, job, seen, plan, cur, exit, runs>>
    BY <1>15 DEF Edit
  <2>2. /\ Steady' = Steady \ {p} /\ Walked' = Walked /\ Pending' = Pending
        /\ \A q \in Steady' : Given(q)' = Given(q) /\ disk'[q] = disk[q]
    BY <2>1 DEF Steady, Walked, Pending, Given, TypeOK
  <2>3. CatalogMatchesTree <=>
            (RunSucceeded => \A q \in Steady : db.files[q] = Given(q))
    BY DEF CatalogMatchesTree, Steady, Given
  <2>4. CatalogMatchesTree' <=>
            (RunSucceeded => \A q \in Steady' : db.files[q] = Given(q)')
    BY <2>1 DEF CatalogMatchesTree, Steady, Given, RunSucceeded
  <2>5. QED
    BY <2>1, <2>2, <2>3, <2>4 DEF TreeInv
<1>16. CASE UNCHANGED indexVars
  BY <1>16 DEF indexVars, TreeInv, Pending, Steady, Given, Walked, CatalogMatchesTree,
     RunSucceeded
<1>17. QED
  BY <1>1, <1>2, <1>3, <1>4, <1>5, <1>a, <1>6, <1>7, <1>8, <1>9, <1>10, <1>11, <1>12,
     <1>13, <1>14, <1>15, <1>16
  DEF Next, StartAny, RunStep, DiffRaises, Extract, EditAny

LEMMA TreeInvHolds == Spec => []TreeInv
<1>1. Init => TreeInv
  BY DEF Init, TreeInv, InsertSteps, FileSteps, RebuildSteps, CatalogMatchesTree, RunSucceeded
<1>2. TypeOK /\ StoreInv /\ TreeInv /\ [Next]_indexVars => TreeInv'
  BY StepSettles
<1>3. QED
  BY <1>1, <1>2, TypeCorrect, StoreInvHolds, PTL DEF Spec

\* A run that succeeded leaves in the catalog exactly the files below its root
\* that nobody touched, with their current stat and hash, whatever failed or
\* changed beside them (index_path; IndexStore's CatalogMatchesTree).
THEOREM TreeIsCatalogued == Spec => []CatalogMatchesTree
<1>1. TreeInv => CatalogMatchesTree
  BY DEF TreeInv
<1>2. QED
  BY <1>1, TreeInvHolds, PTL

\* Files that are touched, or that fail, no longer count.
LEMMA FreshStays ==
    ASSUME NEW c, Fresh(c), Steady' \subseteq Steady,
           \A p \in Steady' : disk'[p] = disk[p]
    PROVE  \A d : d.chunks = c.chunks =>
              \A i \in DOMAIN d.chunks :
                 d.chunks[i].file \in Steady' =>
                     d.chunks[i].body = disk'[d.chunks[i].file].body
BY DEF Fresh

\* A step that leaves the rows alone and starts no insert.
LEMMA QuietStepFresh ==
    ASSUME ForceInv, Steady' \subseteq Steady,
           \A p \in Steady' : disk'[p] = disk[p],
           pc \in InsertSteps \cup RebuildSteps,
           pc' \in {"insert", "idle"} \cup RebuildSteps,
           job' = job, db'.chunks = db.chunks
    PROVE  ForceInv'
<1>1. job'.force => Fresh(db)'
  BY FreshStays DEF ForceInv, Fresh
<1>2. QED
  BY <1>1 DEF ForceInv, InsertSteps, RebuildSteps, FileSteps

LEMMA StepFresh ==
    ASSUME TypeOK, StoreInv, ForceInv, [Next]_indexVars
    PROVE  ForceInv'
<1> USE DEF FileSteps
<1>1. ASSUME NEW root \in Roots, NEW force \in BOOLEAN, NEW model \in Models,
             StartRun(root, force, model)
      PROVE  ForceInv'
  BY <1>1 DEF StartRun, ForceInv, InsertSteps, RebuildSteps
<1>2. CASE Diff
  <2>1. pc' = "delete" /\ UNCHANGED <<db, job>>
    BY <1>2 DEF Diff
  <2>2. job.force => Catalogued \subseteq plan'.changed \cup plan'.deleted
    BY <1>2 DEF Diff
  <2>3. Catalogued' = Catalogued
    BY <2>1 DEF Catalogued
  <2>4. QED
    BY <2>1, <2>2, <2>3 DEF ForceInv, InsertSteps, RebuildSteps
<1>3. CASE DeleteObsolete
  <2> DEFINE obsolete == plan.deleted \cup plan.changed
  <2>1. /\ db' = DeleteFiles(db, obsolete)
        /\ pc = "delete" /\ pc' = "insert" /\ job' = job
    BY <1>3 DEF DeleteObsolete
  <2>2. IsCatalog(db) /\ IsCatalog(db')
    BY <2>1, DeleteFilesType DEF TypeOK
  <2>3. ASSUME job.force, NEW i \in DOMAIN db'.chunks PROVE FALSE
    <3> DEFINE p == db'.chunks[i].file
    <3>1. IsColumn(db'.chunks, ChunkRows)
      BY <2>2, CatalogColumns
    <3>2. p \in Paths /\ i \in ChunksOfFiles(db'.chunks, {p})
      BY <2>3, <3>1 DEF IsColumn, ChunkRows, ChunksOfFiles
    <3>3. CASE p \in obsolete
      BY <2>1, <2>2, <3>2, <3>3, DeleteFilesRows
    <3>4. CASE p \notin obsolete
      <4>1. SameRows(db', db, p)
        BY <2>1, <2>2, <3>2, <3>4, DeleteFilesRows
      <4>2. db.files[p] = Absent
        BY <2>1, <2>3, <3>2, <3>4 DEF ForceInv, Catalogued
      <4>3. ChunksOfFiles(db.chunks, {p}) = {}
        BY <3>2, <4>2 DEF StoreInv, WholeFile
      <4>4. QED
        BY <3>2, <4>1, <4>3 DEF SameRows
    <3>5. QED
      BY <3>3, <3>4
  <2>4. job.force => Fresh(db)'
    BY <2>3 DEF Fresh
  <2>5. QED
    BY <2>1, <2>4 DEF ForceInv, InsertSteps
<1>4. ASSUME NEW p \in Paths, ExtractFile(p)
      PROVE  ForceInv'
  <2>1. /\ pc = "insert" /\ pc' = "row"
        /\ cur'.path = p /\ cur'.body = disk[p].body
        /\ UNCHANGED <<disk, db, job, unsettled>>
    BY <1>4 DEF ExtractFile
  <2>2. job.force => Fresh(db)'
    BY <2>1 DEF ForceInv, InsertSteps, Fresh, Steady
  <2>3. QED
    BY <2>1, <2>2 DEF ForceInv, RebuildSteps
<1>5. ASSUME NEW p \in Paths, ExtractFails(p)
      PROVE  ForceInv'
  <2>1. pc = "insert" /\ pc' = "insert" /\ UNCHANGED <<disk, db, job>>
    BY <1>5 DEF ExtractFails
  <2>2. Steady' \subseteq Steady
    BY <1>5 DEF ExtractFails, Steady
  <2>3. QED
    BY <2>1, <2>2, QuietStepFresh DEF InsertSteps
<1>a. CASE StatFile
  <2>1. /\ pc = "row" /\ pc' = "hash" /\ UNCHANGED <<disk, db, job, unsettled>>
        /\ cur'.path = cur.path /\ cur'.body = cur.body
    BY <1>a DEF StatFile, TypeOK, Files
  <2>2. Steady' = Steady
    BY <2>1 DEF Steady
  <2>3. job.force => Fresh(db)'
    BY <2>1, <2>2 DEF ForceInv, InsertSteps, Fresh
  <2>4. QED
    BY <2>1, <2>2, <2>3 DEF ForceInv, RebuildSteps
<1>6. CASE PersistFileRow
  <2> DEFINE row == [stat |-> cur.stat, body |-> disk[cur.path].body]
  <2>1. /\ pc = "hash" /\ pc' = "chunks" /\ tx = db
        /\ tx' = InsertFile(tx, cur.path, row)
        /\ UNCHANGED <<disk, db, job, cur, unsettled>>
    BY <1>6 DEF PersistFileRow, StoreInv
  <2> HIDE DEF row
  <2>2. tx'.chunks = db.chunks
    BY <2>1, InsertFileRows DEF TypeOK, Files
  <2>3. Steady' = Steady
    BY <2>1 DEF Steady
  <2>4. job.force => Fresh(db)' /\ Fresh(tx)'
    BY <2>1, <2>2, <2>3 DEF ForceInv, InsertSteps, Fresh
  <2>5. QED
    BY <2>1, <2>3, <2>4 DEF ForceInv, RebuildSteps
<1>7. CASE PersistChunk
  <2> DEFINE p   == cur.path
             n   == cur.done
             row == [file |-> p, body |-> cur.body, ord |-> n]
  <2>1. /\ pc = "chunks" /\ pc' = "chunks" /\ cur' = [cur EXCEPT !.done = @ + 1]
        /\ UNCHANGED <<disk, db, job, unsettled>>
    BY <1>7 DEF PersistChunk
  <2>2. PICK id \in DOMAIN tx.chunks \cup {0} :
           IsLastId(tx, id) /\ tx' = InsertChunk(tx, id + 1, row)
    BY <1>7 DEF PersistChunk
  <2>3. IsCatalog(tx) /\ cur \in Files
    BY <2>1 DEF TypeOK
  <2>4. n \in Nat /\ cur'.path = p /\ cur'.body = cur.body
    BY <2>1, <2>3 DEF Files
  <2>5. PartOf(tx, p, cur.body, n)
    BY <2>1 DEF StoreInv
  <2>6. /\ DOMAIN tx'.chunks = DOMAIN tx.chunks \cup {id + 1}
        /\ tx'.chunks[id + 1] = row
        /\ \A i \in DOMAIN tx.chunks : tx'.chunks[i] = tx.chunks[i]
    BY <2>2, <2>3, <2>4, <2>5, InsertChunkRows
  <2>7. Steady' = Steady
    BY <2>1 DEF Steady
  <2>8. p \in Steady => cur.body = disk[p].body
    BY <2>1 DEF ForceInv
  <2>9. job.force => Fresh(tx)'
    <3>1. SUFFICES ASSUME job.force, NEW i \in DOMAIN tx'.chunks,
                          tx'.chunks[i].file \in Steady
                   PROVE  tx'.chunks[i].body = disk[tx'.chunks[i].file].body
      BY <2>1, <2>7 DEF Fresh
    <3>2. CASE i = id + 1
      BY <2>6, <2>8, <3>1, <3>2
    <3>3. CASE i \in DOMAIN tx.chunks
      BY <2>1, <2>6, <3>1, <3>3 DEF ForceInv, Fresh
    <3>4. QED
      BY <2>6, <3>2, <3>3
  <2>10. job.force => Fresh(db)'
    BY <2>1, <2>7 DEF ForceInv, InsertSteps, Fresh
  <2>11. QED
    BY <2>1, <2>4, <2>7, <2>8, <2>9, <2>10 DEF ForceInv, RebuildSteps
<1>8. CASE ReleaseSavepoint
  <2>1. /\ pc = "chunks" /\ pc' = "insert" /\ db' = tx
        /\ UNCHANGED <<disk, job, unsettled>>
    BY <1>8 DEF ReleaseSavepoint
  <2>2. job.force => Fresh(db)'
    BY <2>1 DEF ForceInv, Fresh, Steady
  <2>3. QED
    BY <2>1, <2>2 DEF ForceInv, RebuildSteps
<1>9. CASE RollbackFile
  <2>1. pc \in InsertSteps /\ pc' = "insert" /\ UNCHANGED <<disk, db, job>>
    BY <1>9 DEF RollbackFile, InsertSteps
  <2>2. Steady' \subseteq Steady
    BY <1>9 DEF RollbackFile, Steady
  <2>3. QED
    BY <2>1, <2>2, QuietStepFresh
<1>10. CASE \/ InsertsDone \/ ReadRows \/ UnlinkNpz \/ UnlinkSidecar \/ SaveNpz
            \/ SaveSidecar
  <2>1. /\ pc \in InsertSteps \cup RebuildSteps /\ pc' \in RebuildSteps
        /\ UNCHANGED <<disk, db, job, unsettled>>
    BY <1>10 DEF InsertsDone, ReadRows, UnlinkNpz, UnlinkSidecar, SaveNpz, SaveSidecar,
       RebuildSteps, InsertSteps
  <2>2. Steady' = Steady
    BY <2>1 DEF Steady
  <2>3. QED
    BY <2>1, <2>2, QuietStepFresh
<1>11. CASE UpdateEmbedRows \/ SetModel \/ SetDim \/ BumpVersion
  <2>1. /\ pc \in RebuildSteps /\ pc' \in RebuildSteps \cup {"idle"}
        /\ UNCHANGED <<disk, job, unsettled>>
    BY <1>11 DEF UpdateEmbedRows, SetModel, SetDim, BumpVersion, EndRun, RebuildSteps
  <2>2. Steady' = Steady
    BY <2>1 DEF Steady
  <2>3. QED
    BY <1>11, <2>1, <2>2, CommitRows, QuietStepFresh
<1>12. CASE Abort
  BY <1>12 DEF Abort, EndRun, ForceInv, InsertSteps, RebuildSteps
<1>13. ASSUME NEW p \in Paths, NEW content \in Contents \cup {Absent}, Edit(p, content)
       PROVE  ForceInv'
  <2>1. /\ disk' = [disk EXCEPT ![p] = content]
        /\ unsettled' = unsettled \cup {p}
        /\ UNCHANGED <<db, tx, pc, job, plan, cur, exit, runs>>
    BY <1>13 DEF Edit
  <2>2. /\ Steady' \subseteq Steady
        /\ \A q \in Steady' : disk'[q] = disk[q]
        /\ Catalogued' = Catalogued
    BY <2>1 DEF Steady, TypeOK, Catalogued
  <2>3. /\ Fresh(db) => Fresh(db)'
        /\ Fresh(tx) => Fresh(tx)'
    BY <2>1, <2>2 DEF Fresh
  <2>4. QED
    BY <2>1, <2>2, <2>3 DEF ForceInv
<1>14. CASE UNCHANGED indexVars
  BY <1>14 DEF indexVars, ForceInv, Fresh, Steady, Catalogued
<1>15. QED
  BY <1>1, <1>2, <1>3, <1>4, <1>5, <1>a, <1>6, <1>7, <1>8, <1>9, <1>10, <1>11, <1>12,
     <1>13, <1>14
  DEF Next, StartAny, RunStep, DiffRaises, Extract, EditAny

\* After `index --force` the chunks of every file that nobody touched during
\* the run are those of its current bytes, however stale the rows were before
\* it (index_path; IndexStore's ForcedRunRefreshes).
THEOREM ForceRefreshes == Spec => []ForcedRunRefreshes
<1>1. Init => ForceInv
  BY DEF Init, ForceInv, InsertSteps, FileSteps, RebuildSteps
<1>2. TypeOK /\ StoreInv /\ ForceInv /\ [Next]_indexVars => ForceInv'
  BY StepFresh
<1>3. TypeOK /\ ForceInv => ForcedRunRefreshes
  <2>1. SUFFICES ASSUME TypeOK, ForceInv, RunSucceeded, job.force,
                        NEW i \in DOMAIN db.chunks, db.chunks[i].file \notin unsettled
                 PROVE  db.chunks[i].body = disk[db.chunks[i].file].body
    BY DEF ForcedRunRefreshes
  <2>2. IsColumn(db.chunks, ChunkRows)
    BY <2>1, CatalogColumns DEF TypeOK
  <2>3. db.chunks[i].file \in Steady
    BY <2>1, <2>2 DEF IsColumn, ChunkRows, Steady
  <2>4. QED
    BY <2>1, <2>3 DEF ForceInv, Fresh, RunSucceeded
<1>4. QED
  BY <1>1, <1>2, <1>3, TypeCorrect, StoreInvHolds, PTL DEF Spec

=============================================================================
