------------------------------- MODULE Toggles ------------------------------
(***************************************************************************)
(* The ambient toggle: toggles.json, written by /rag on and /rag off of    *)
(* any process, and the cache in front of it that each process keeps for   *)
(* TTL.  Nothing locks the file; _CACHE_LOCK covers single accesses to the *)
(* cache only.                                                             *)
(***************************************************************************)
EXTENDS Integers

CONSTANTS
    Callers,        \* threads that call set_ambient
    Readers,        \* those that call is_ambient_enabled too
    Processes,
    ProcessOf,      \* the process of each thread
    ToggleKeys,     \* _default and the sessions
    DefaultKey,     \* _DEFAULT_KEY
    Changes,        \* pairs of a key and a value that set_ambient is called with
    Initially,      \* what toggles.json may say at first
    Unreadable,     \* toggles.json is missing, corrupted or not a dict
    TTL,            \* _CACHE_TTL, in ticks
    MaxTime,        \* bound: ticks
    MaxSets         \* bound: calls of set_ambient

ASSUME CallersAssumption == Readers \subseteq Callers /\ ProcessOf \in [Callers -> Processes]
ASSUME KeysAssumption == DefaultKey \in ToggleKeys /\ Changes \subseteq ToggleKeys \X BOOLEAN
\* What a dict says of the toggle: on or off, for some of the keys.
Contents == UNION {[keys -> BOOLEAN] : keys \in SUBSET ToggleKeys}

ASSUME InitiallyAssumption == Initially \subseteq Contents \cup {Unreadable} /\ Unreadable \notin Contents
ASSUME TimeAssumption == TTL \in Nat \ {0} /\ MaxTime \in Nat /\ MaxSets \in Nat

VARIABLES
    toggles,    \* toggles.json: a value for some of the keys, or Unreadable
    cache,      \* _CACHE (full: it is not None) and _CACHE_TS of each process
    clock,      \* time.time()
    calls,      \* per thread: its call, the next step, now, and data
    setsBegun,  \* bound
    disturbed,  \* history: when a set_ambient last returned or a read last failed
    written,    \* history: everything the file has ever said or been taken to say
    spaced,     \* history: all sets so far have come TTL apart
    intended    \* history: what the file should say then

togglesVars == <<toggles, cache, clock, calls, setsBegun, disturbed, written, spaced, intended>>

NotCached == [full |-> FALSE, data |-> [key \in {DefaultKey} |-> TRUE], ts |-> 0]

FailOpen == [key \in {DefaultKey} |-> TRUE]

NoCall == [step |-> "idle", op |-> "get", key |-> DefaultKey, on |-> TRUE, now |-> 0,
           data |-> FailOpen, quiet |-> FALSE]

Content(file) == IF file = Unreadable THEN FailOpen ELSE file

TogglesInit ==
    /\ toggles \in Initially
    /\ cache = [p \in Processes |-> NotCached]
    /\ clock = 0
    /\ calls = [t \in Callers |-> NoCall]
    /\ setsBegun = 0
    /\ disturbed = -TTL
    /\ written = {Content(toggles)}
    /\ spaced = TRUE
    /\ intended = Content(toggles)

-----------------------------------------------------------------------------
Setting(t) == calls[t].op = "set"

\* quiet: the last set is TTL ago, and none runs and no read fails until this
\* call returns.
Begin(t, op, key, on) ==
    /\ calls[t].step = "idle"
    /\ op = "get" => t \in Readers
    /\ op = "set" => setsBegun < MaxSets
    /\ LET call == [step |-> "lookup", op |-> op, key |-> key, on |-> on, now |-> clock,
                    data |-> FailOpen,
                    quiet |-> clock - disturbed >= TTL /\ \A u \in Callers : ~Setting(u)]
       IN  calls' = [u \in Callers |->
                        IF u = t THEN call
                        ELSE [calls[u] EXCEPT !.quiet = @ /\ op = "get"]]
    /\ setsBegun' = IF op = "set" THEN setsBegun + 1 ELSE setsBegun
    /\ UNCHANGED <<toggles, cache, clock, disturbed, written, spaced, intended>>

\* d[key] = enabled
With(dict, key, on) == [k \in DOMAIN dict \cup {key} |-> IF k = key THEN on ELSE dict[k]]

\* What a call does with what _load returns: answer, or change a copy of it.
Loaded(t, data) ==
    calls' = [calls EXCEPT ![t] =
        IF @.op = "get" THEN [@ EXCEPT !.step = "answered", !.data = data]
        ELSE [@ EXCEPT !.step = "replace", !.data = With(data, calls[t].key, calls[t].on)]]

\* Mutant: the last moment of the TTL counts as within it.
FreshTooLong(t) == /\ cache[ProcessOf[t]].full
                   /\ calls[t].now - cache[ProcessOf[t]].ts <= TTL

Fresh(t) == /\ cache[ProcessOf[t]].full
            /\ calls[t].now - cache[ProcessOf[t]].ts < TTL

\* Mutant: set_ambient changes the dict of the cache instead of a copy.
CacheHitNoCopy(t) ==
    /\ calls[t].step = "lookup"
    /\ Fresh(t)
    /\ Loaded(t, cache[ProcessOf[t]].data)
    /\ cache' = IF calls[t].op = "get" THEN cache
                ELSE [cache EXCEPT ![ProcessOf[t]].data = With(@, calls[t].key, calls[t].on)]
    /\ UNCHANGED <<toggles, clock, setsBegun, disturbed, written, spaced, intended>>

CacheHit(t) ==
    /\ calls[t].step = "lookup"
    /\ Fresh(t)
    /\ Loaded(t, cache[ProcessOf[t]].data)
    /\ UNCHANGED <<toggles, cache, clock, setsBegun, disturbed, written, spaced, intended>>

CacheMiss(t) ==
    /\ calls[t].step = "lookup"
    /\ ~Fresh(t)
    /\ calls' = [calls EXCEPT ![t].step = "read"]
    /\ UNCHANGED <<toggles, cache, clock, setsBegun, disturbed, written, spaced, intended>>

\* os.replace never shows half a file.
ReadFile(t) ==
    /\ calls[t].step = "read"
    /\ calls' = [calls EXCEPT ![t].step = "fill", ![t].data = Content(toggles)]
    /\ UNCHANGED <<toggles, cache, clock, setsBegun, disturbed, written, spaced, intended>>

\* exists() raises: is_ambient_enabled answers that it is on, set_ambient
\* passes the error on.
Exposed(t) == IF Setting(t) THEN NoCall
              ELSE [calls[t] EXCEPT !.step = "answered", !.data = FailOpen, !.quiet = FALSE]

\* read_text raises, whatever the file says: it goes into the cache as on.
Defaulted(t) == [calls[t] EXCEPT !.step = "fill", !.data = FailOpen, !.quiet = FALSE]

ReadFails(t) ==
    /\ calls[t].step = "read"
    /\ \E call \in {Exposed(t), Defaulted(t)} :
          calls' = [u \in Callers |-> IF u = t THEN call ELSE [calls[u] EXCEPT !.quiet = FALSE]]
    /\ disturbed' = clock
    /\ written' = written \cup {FailOpen}
    /\ UNCHANGED <<toggles, cache, clock, setsBegun, spaced, intended>>

\* Mutant: the cache is stamped with the time it is filled.
FillCacheNow(t) ==
    /\ calls[t].step = "fill"
    /\ cache' = [cache EXCEPT ![ProcessOf[t]] = [full |-> TRUE, data |-> calls[t].data, ts |-> clock]]
    /\ Loaded(t, calls[t].data)
    /\ UNCHANGED <<toggles, clock, setsBegun, disturbed, written, spaced, intended>>

\* The stamp is the time before the file was read.
FillCache(t) ==
    /\ calls[t].step = "fill"
    /\ cache' = [cache EXCEPT ![ProcessOf[t]] = [full |-> TRUE, data |-> calls[t].data, ts |-> calls[t].now]]
    /\ Loaded(t, calls[t].data)
    /\ UNCHANGED <<toggles, clock, setsBegun, disturbed, written, spaced, intended>>

Return(t) ==
    /\ calls[t].step = "answered"
    /\ calls' = [calls EXCEPT ![t] = NoCall]
    /\ UNCHANGED <<toggles, cache, clock, setsBegun, disturbed, written, spaced, intended>>

Replace(t) ==
    /\ calls[t].step = "replace"
    /\ toggles' = calls[t].data
    /\ calls' = [calls EXCEPT ![t].step = "store"]
    /\ written' = written \cup {calls[t].data}
    /\ spaced' = (spaced /\ calls[t].quiet)
    /\ intended' = With(intended, calls[t].key, calls[t].on)
    /\ UNCHANGED <<cache, clock, setsBegun, disturbed>>

\* mkstemp, the write or the rename raises, and the temporary file is removed.
ReplaceRaises(t) ==
    /\ calls[t].step = "replace"
    /\ calls' = [calls EXCEPT ![t] = NoCall]
    /\ UNCHANGED <<toggles, cache, clock, setsBegun, disturbed, written, spaced, intended>>

StoreCache(t) ==
    /\ calls[t].step = "store"
    /\ cache' = [cache EXCEPT ![ProcessOf[t]] = [full |-> TRUE, data |-> calls[t].data, ts |-> clock]]
    /\ calls' = [calls EXCEPT ![t] = NoCall]
    /\ disturbed' = clock
    /\ UNCHANGED <<toggles, clock, setsBegun, written, spaced, intended>>

Tick ==
    /\ clock < MaxTime
    /\ clock' = clock + 1
    /\ UNCHANGED <<toggles, cache, calls, setsBegun, disturbed, written, spaced, intended>>

TogglesNext ==
    \/ Tick
    \/ \E t \in Callers :
          \/ Begin(t, "get", DefaultKey, TRUE)
          \/ \E change \in Changes : Begin(t, "set", change[1], change[2])
          \/ CacheHit(t) \/ CacheMiss(t) \/ ReadFile(t) \/ ReadFails(t) \/ FillCache(t)
          \/ Return(t)
          \/ Replace(t) \/ ReplaceRaises(t) \/ StoreCache(t)

TogglesSpec == TogglesInit /\ [][TogglesNext]_togglesVars

-----------------------------------------------------------------------------
\* Every variable has its type.
TogglesTypeOK ==
    /\ toggles \in Contents \cup {Unreadable}
    /\ \A p \in Processes : cache[p].data \in Contents /\ cache[p].ts \in 0 .. clock
    /\ clock \in 0 .. MaxTime
    /\ \A t \in Callers : /\ calls[t].step \in {"idle", "lookup", "read", "fill", "replace",
                                                "store", "answered"}
                          /\ calls[t].now \in 0 .. clock /\ calls[t].data \in Contents
    /\ setsBegun \in 0 .. MaxSets
    /\ disturbed \in -TTL .. clock

\* A call that starts when the last change, of whatever process, and the last
\* failed read are TTL ago loads what the file says: no slow reader has put an
\* older file into the cache for longer, and no cache outlives its TTL.
QuietLoadIsCurrent ==
    \A t \in Callers : calls[t].step = "answered" /\ calls[t].quiet
                          => calls[t].data = Content(toggles)

\* Sets that are TTL apart, and as far from reads that failed, lose nothing:
\* each changes its own key in all that the others have left, in whatever
\* processes they are made.
SpacedSetsAreKept == spaced => Content(toggles) = intended

\* Nobody is ever told what no file has said, not even between the steps of a
\* set_ambient or after one that has failed; a file that cannot be read says on.
SeenWasWritten == \A t \in Callers : calls[t].step = "answered" => calls[t].data \in written

=============================================================================
