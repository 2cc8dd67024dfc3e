------------------------------- MODULE LazyInit -----------------------------
(***************************************************************************)
(* Objects the host process creates on first use, by whichever thread asks *)
(* first: the engine (get_engine), its SQLite connection (Store.connect),  *)
(* the embedding model (Embedder._load_model), the Anthropic client        *)
(* (get_client), each behind a lock of its own, and the cross-encoder,     *)
(* which has none.  The first session start launches a thread that asks    *)
(* for them in advance.                                                    *)
(***************************************************************************)
EXTENDS Integers, FiniteSets

CONSTANTS
    Askers,     \* threads, the warm-up thread among them
    Warmer,
    Nobody,
    Objects,
    Unlocked,   \* the objects without a lock: _CROSS
    MaxMade,    \* bound: constructions of each object
    MaxSessions \* bound: sessions started

ASSUME AskersAssumption == Warmer \in Askers /\ Nobody \notin Askers
ASSUME ObjectsAssumption == Unlocked \subseteq Objects
ASSUME MadeAssumption == MaxMade \in Nat /\ MaxSessions \in Nat

VARIABLES
    global,     \* the published instance of each object; 0 is None
    holder,     \* who holds its lock
    made,       \* how many instances have been constructed
    ready,      \* the instances that are completely set up
    asker,      \* per thread: the next step, the object, the instance it makes
    used,       \* history: the instances callers were given
    warm,       \* _WARM_LAUNCHED, and the warm-up threads launched
    sessions    \* bound

lazyVars == <<global, holder, made, ready, asker, used, warm, sessions>>

AtRest == [step |-> "idle", obj |-> "none", inst |-> 0]

LazyInitial ==
    /\ global = [o \in Objects |-> 0]
    /\ holder = [o \in Objects |-> Nobody]
    /\ made = [o \in Objects |-> 0]
    /\ ready = [o \in Objects |-> {}]
    /\ asker = [t \in Askers |-> AtRest]
    /\ used = [o \in Objects |-> {}]
    /\ warm = [flag |-> FALSE, launched |-> 0]
    /\ sessions = 0

-----------------------------------------------------------------------------
GoTo(t, step) == asker' = [asker EXCEPT ![t].step = step]

Released(t, o) == IF holder[o] = t THEN [holder EXCEPT ![o] = Nobody] ELSE holder

\* The fast path: a check without the lock.
Ask(t, o) ==
    /\ asker[t].step = "idle"
    /\ t = Warmer => warm.launched > 0
    /\ asker' = [asker EXCEPT ![t] =
           [step |-> IF global[o] # 0 THEN "use" ELSE IF o \in Unlocked THEN "make" ELSE "lock",
            obj |-> o, inst |-> 0]]
    /\ UNCHANGED <<global, holder, made, ready, used, warm, sessions>>

Lock(t) ==
    LET o == asker[t].obj
    IN  /\ asker[t].step = "lock"
        /\ holder[o] = Nobody
        /\ holder' = [holder EXCEPT ![o] = t]
        /\ GoTo(t, "recheck")
        /\ UNCHANGED <<global, made, ready, used, warm, sessions>>

\* Mutant: the lock is taken, but the check not repeated.
RecheckMakes(t) ==
    /\ asker[t].step = "recheck"
    /\ GoTo(t, "make")
    /\ UNCHANGED <<global, holder, made, ready, used, warm, sessions>>

Recheck(t) ==
    LET o == asker[t].obj
    IN  /\ asker[t].step = "recheck"
        /\ IF global[o] # 0
           THEN GoTo(t, "use") /\ holder' = Released(t, o)
           ELSE GoTo(t, "make") /\ UNCHANGED holder
        /\ UNCHANGED <<global, made, ready, used, warm, sessions>>

\* Mutant: what is constructed goes to the global at once.
MakePublishes(t) ==
    LET o == asker[t].obj
    IN  /\ asker[t].step = "make"
        /\ made[o] < MaxMade
        /\ made' = [made EXCEPT ![o] = @ + 1]
        /\ asker' = [asker EXCEPT ![t].step = "setup", ![t].inst = made[o] + 1]
        /\ global' = [global EXCEPT ![o] = made[o] + 1]
        /\ UNCHANGED <<holder, ready, used, warm, sessions>>

\* The constructor returns: sqlite3.connect, SentenceTransformer, ...
Make(t) ==
    LET o == asker[t].obj
    IN  /\ asker[t].step = "make"
        /\ made[o] < MaxMade
        /\ made' = [made EXCEPT ![o] = @ + 1]
        /\ asker' = [asker EXCEPT ![t].step = "setup", ![t].inst = made[o] + 1]
        /\ UNCHANGED <<global, holder, ready, used, warm, sessions>>

\* PRAGMAs and schema, the dimension of the model.
SetUp(t) ==
    /\ asker[t].step = "setup"
    /\ ready' = [ready EXCEPT ![asker[t].obj] = @ \cup {asker[t].inst}]
    /\ GoTo(t, "publish")
    /\ UNCHANGED <<global, holder, made, used, warm, sessions>>

\* Mutant: the exception leaves the lock.
FailsKeepingLock(t) ==
    /\ asker[t].step \in {"make", "setup"}
    /\ asker' = [asker EXCEPT ![t] = AtRest]
    /\ UNCHANGED <<global, holder, made, ready, used, warm, sessions>>

\* Construction or setup raises, or there is no package, key or service: the
\* caller is told so, or given None.
Fails(t) ==
    /\ asker[t].step \in {"make", "setup"}
    /\ holder' = Released(t, asker[t].obj)
    /\ asker' = [asker EXCEPT ![t] = AtRest]
    /\ UNCHANGED <<global, made, ready, used, warm, sessions>>

Publish(t) ==
    LET o == asker[t].obj
    IN  /\ asker[t].step = "publish"
        /\ global' = [global EXCEPT ![o] = asker[t].inst]
        /\ holder' = Released(t, o)
        /\ GoTo(t, "use")
        /\ UNCHANGED <<made, ready, used, warm, sessions>>

\* Every one of them reads the global again for what it returns or calls.
Use(t) ==
    LET o == asker[t].obj
    IN  /\ asker[t].step = "use"
        /\ used' = [used EXCEPT ![o] = @ \cup {global[o]}]
        /\ asker' = [asker EXCEPT ![t] = AtRest]
        /\ UNCHANGED <<global, holder, made, ready, warm, sessions>>

\* on_session_start: under _WARM_LOCK the flag is read and set.
ClaimWarm(t) ==
    /\ asker[t].step = "idle" /\ t # Warmer
    /\ sessions < MaxSessions
    /\ sessions' = sessions + 1
    /\ IF warm.flag THEN UNCHANGED <<asker, warm>>
                    ELSE GoTo(t, "launch") /\ warm' = [warm EXCEPT !.flag = TRUE]
    /\ UNCHANGED <<global, holder, made, ready, used>>

Launch(t) ==
    /\ asker[t].step = "launch"
    /\ warm' = [warm EXCEPT !.launched = @ + 1]
    /\ GoTo(t, "idle")
    /\ UNCHANGED <<global, holder, made, ready, used, sessions>>

AskerStep(t) == \/ Recheck(t) \/ Make(t) \/ SetUp(t) \/ Fails(t) \/ Publish(t) \/ Use(t)
                \/ Launch(t)

LazyNext == \E t \in Askers : \/ \E o \in Objects : Ask(t, o)
                              \/ Lock(t) \/ AskerStep(t) \/ ClaimWarm(t)

\* Threads go on, constructors return or raise, and a lock that is released
\* over and over is got in the end.
LazyFairness == \A t \in Askers : WF_lazyVars(AskerStep(t)) /\ SF_lazyVars(Lock(t))

LazySpec == LazyInitial /\ [][LazyNext]_lazyVars /\ LazyFairness

-----------------------------------------------------------------------------
\* Every variable has its type, and a lock is held by the thread that is
\* between its steps, by no other.  However many sessions start at once, one
\* warm-up thread is launched.
LazyTypeOK ==
    /\ \A o \in Objects : /\ made[o] \in 0 .. MaxMade
                          /\ global[o] \in 0 .. made[o]
                          /\ ready[o] \subseteq 1 .. made[o]
                          /\ holder[o] \in Askers \cup {Nobody}
    /\ \A t \in Askers :
          asker[t].step \in {"idle", "lock", "recheck", "make", "setup", "publish", "use", "launch"}
    /\ warm.launched \in 0 .. 1
    /\ \A t \in Askers, o \in Objects :
          holder[o] = t <=> /\ asker[t].obj = o /\ o \notin Unlocked
                            /\ asker[t].step \in {"recheck", "make", "setup", "publish"}

\* Of an object with a lock everybody is given the same instance, whoever came
\* first and however many constructions failed before.
OneInstance == \A o \in Objects \ Unlocked : Cardinality(used[o]) <= 1

\* Nobody is given an instance that is not completely set up, with a lock or
\* without one: "publish last".
UsedWhenReady == \A o \in Objects : used[o] \subseteq ready[o]

\* The warm-up thread gets past every lock that turns take at the same time,
\* however many constructors raise on the way: no exception keeps a lock.
WarmUpEnds == asker[Warmer].step # "idle" ~> asker[Warmer].step = "idle"

=============================================================================
