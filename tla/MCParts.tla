------------------------------ MODULE MCParts -------------------------------
(* The parts that share no state with each other, one after the other: a    *)
(* behaviour is one of the part that it starts with.                        *)
EXTENDS Toggles, ConvoMemory, LazyInit, ContextPacking, Chunking, Parents, Fusion

CONSTANTS h1, h2, g1, host, gateway

MCProcessOf == [t \in Callers |-> IF t = g1 THEN gateway ELSE host]

MCChanges == {<<"default", FALSE>>, <<"s1", TRUE>>}

\* Texts of which the last one fits with or without its separator, is cut with
\* as much as can be left of it, by one character too, or is dropped.
MCBlocks == [head : {2, 5, 30}, text : {0, 1, 7, 20, 37, 38, 39, 60}]

VARIABLE part

allVars == <<togglesVars, convoVars, lazyVars, packVars, chunkVars, parentVars, fusionVars, part>>

Init ==
    /\ part \in {"toggles", "convo", "lazy", "packing", "chunking", "parents", "fusion"}
    /\ TogglesInit /\ ConvoInit /\ LazyInitial /\ PackInit
    /\ ChunkInit /\ ParentInit /\ FusionInit

Next ==
    /\ UNCHANGED part
    /\ \/ part = "toggles" /\ TogglesNext /\ UNCHANGED <<convoVars, lazyVars, packVars, chunkVars, parentVars, fusionVars>>
       \/ part = "convo" /\ ConvoNext /\ UNCHANGED <<togglesVars, lazyVars, packVars, chunkVars, parentVars, fusionVars>>
       \/ part = "lazy" /\ LazyNext /\ UNCHANGED <<togglesVars, convoVars, packVars, chunkVars, parentVars, fusionVars>>
       \/ part = "packing" /\ PackNext /\ UNCHANGED <<togglesVars, convoVars, lazyVars, chunkVars, parentVars, fusionVars>>
       \/ part = "chunking" /\ ChunkNext /\ UNCHANGED <<togglesVars, convoVars, lazyVars, packVars, parentVars, fusionVars>>
       \/ part = "parents" /\ ParentNext /\ UNCHANGED <<togglesVars, convoVars, lazyVars, packVars, chunkVars, fusionVars>>
       \/ part = "fusion" /\ FusionNext /\ UNCHANGED <<togglesVars, convoVars, lazyVars, packVars, chunkVars, parentVars>>

Spec == Init /\ [][Next]_allVars /\ LazyFairness
=============================================================================
