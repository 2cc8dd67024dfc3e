---------------------------- MODULE MCPipelines -----------------------------
(* Two files, of two parents and of one. *)
EXTENDS Pipelines

CONSTANTS f, g

MCLayout == [file \in Files |-> IF file = f THEN <<1, 1, 2>> ELSE <<1>>]

MCKs == {-1, 9}
=============================================================================
