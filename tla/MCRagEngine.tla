---------------------------- MODULE MCRagEngine ----------------------------
(* One document, two threads: see README.md for why these sizes are enough. *)
EXTENDS RagEngine, TLC

CONSTANTS a, x, y, mini, large, s1, t1, t2

MCRoots == {{a}}

\* Two versions of the document with as many chunks each.
MCContents == [stat : Stats, body : Bodies]

MCNumChunks == [body \in Bodies |-> 1]

MCDim == [model \in Models |-> IF model = mini THEN 384 ELSE 1024]

\* Threads are alike, and so are the two bodies.
Symmetry == Permutations(Threads) \cup Permutations(Bodies)

\* What decides the next steps of a state, and the properties of the engine: not
\* the history of the tree, nor what a run has gone by before its deletes.
View == <<disk, db, tx, npz, sidecar, pc, cur, rows, exit, runs, edits, engineVars,
          IF pc = "diff" THEN <<job, seen>>
          ELSE IF pc = "idle" THEN <<>>
          ELSE <<job.model, plan.changed, plan.new,
                 IF pc = "delete" THEN plan.deleted ELSE {}>> >>
=============================================================================
