---------------------------- MODULE MCIndexStore ----------------------------
(* A small index for TLC: see README.md for why these sizes are enough. *)
EXTENDS IndexStore

CONSTANTS a, b, x, y, z, mini, large, s1, s2

\* `index` on a directory that may hold both files, and on a subdirectory
\* that may hold one of them.
MCRoots == {{a, b}, {b}}

\* y is an edit of x that preserved mtime and size; z is an empty document.
MCContents == {[stat |-> s1, body |-> x], [stat |-> s1, body |-> y],
               [stat |-> s2, body |-> z]}

MCNumChunks == [body \in Bodies |-> CASE body = x -> 1
                                      [] body = y -> 2
                                      [] OTHER    -> 0]

MCDim == [model \in Models |-> IF model = mini THEN 384 ELSE 1024]
=============================================================================
