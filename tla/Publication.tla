---------------------------- MODULE Publication ----------------------------
(***************************************************************************)
(* What the index directory and the engine promise each other, with        *)
(* neither files, locks nor caches: one writer publishes indexes under     *)
(* growing version numbers, and one reader serves a view under the number  *)
(* it found.  While the writer works nothing is known about the index, and *)
(* while the reader loads nothing is known about its view.                 *)
(***************************************************************************)
EXTENDS Naturals

CONSTANT None   \* the reader serves nothing

VARIABLES
    version,    \* the last version published
    rest,       \* no index has been touched since
    index,      \* what the directory holds
    serving,    \* the version the reader serves, or None
    served,     \* every version it has served
    view        \* what it answers from

vars == <<version, rest, index, serving, served, view>>

Init ==
    /\ version = 0
    /\ rest = TRUE
    /\ serving = None
    /\ served = {}

\* The writer starts, writes anything, or gives up.
Write ==
    /\ rest' = FALSE
    /\ UNCHANGED <<version, serving, served, view>>

\* The index is published as it has been left.
Publish ==
    /\ ~rest
    /\ rest' = TRUE
    /\ version' = version + 1
    /\ UNCHANGED <<index, serving, served, view>>

\* The reader replaces its view, or gives it up, when a version is out that
\* it does not serve.
Load ==
    /\ serving # version
    /\ serving' \in {serving, None}
    /\ UNCHANGED <<version, rest, index, served>>

\* It takes up a version newer than any it has served; if that is the last
\* one and nothing has been written since, the view is the index.
Serve(v) ==
    /\ \A u \in served : u < v
    /\ rest /\ v = version => view = index
    /\ serving' = v
    /\ served' = served \cup {v}
    /\ UNCHANGED <<version, rest, index, view>>

Next == Write \/ Publish \/ Load \/ \E v \in 0 .. version : Serve(v)

Spec == Init /\ [][Next]_vars

-----------------------------------------------------------------------------
PublicationTypeOK ==
    /\ version \in Nat
    /\ rest \in BOOLEAN
    /\ served \subseteq 0 .. version
    /\ serving \in served \cup {None}

\* A reader that serves the last version of an index at rest answers from it,
\* at every moment and whoever is loading.
Fresh == rest /\ serving = version => view = index

=============================================================================
