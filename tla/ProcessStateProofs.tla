------------------------- MODULE ProcessStateProofs -------------------------
(***************************************************************************)
(* Proofs about what the threads of a process share: Toggles, for any      *)
(* number of threads, processes, keys and sets and any TTL, and LazyInit,  *)
(* for all threads, objects, constructions and sessions.                   *)
(***************************************************************************)
EXTENDS Toggles, LazyInit, FiniteSetTheorems, TLAPS

-----------------------------------------------------------------------------
(* The toggles.  The argument: a cache, or a call about to fill one, that   *)
(* has something else than the file was stamped no later than the last set  *)
(* returned or read failed, unless a set is between its two writes.  A call *)
(* is quiet when that is a TTL ago, so what it finds fresh, or reads, is    *)
(* what the file says.                                                      *)

Active(t) == calls[t].step # "idle"

\* A set that has replaced the file has still to write the cache.
HalfDone == \E t \in Callers : calls[t].step = "store"

CallRecords ==
    [step : {"idle", "lookup", "read", "fill", "replace", "store", "answered"},
     op : {"get", "set"}, key : ToggleKeys, on : BOOLEAN, now : Int, data : Contents,
     quiet : BOOLEAN]

TogglesShapes ==
    /\ toggles \in Contents \cup {Unreadable}
    /\ cache \in [Processes -> [full : BOOLEAN, data : Contents, ts : Int]]
    /\ calls \in [Callers -> CallRecords]
    /\ clock \in Int /\ 0 <= clock /\ disturbed \in Int /\ disturbed <= clock
    /\ \A p \in Processes : cache[p].ts <= clock
    /\ \A t \in Callers : calls[t].now <= clock

\* Only a set replaces and stores, only a get answers.
Ops ==
    \A t \in Callers : /\ calls[t].step \in {"replace", "store"} => Setting(t)
                       /\ calls[t].step = "answered" => ~Setting(t)

\* While a call is quiet no other one sets, and the last set and the last read
\* that failed stay TTL ago.
Quiet ==
    \A t \in Callers : Active(t) /\ calls[t].quiet =>
        /\ calls[t].now - disturbed >= TTL
        /\ \A u \in Callers \ {t} : ~Setting(u)

\* What is not in the file any more has an old stamp, or will have one when
\* the set that is half done returns.
StaleIsOld ==
    /\ \A p \in Processes : cache[p].full /\ cache[p].data # Content(toggles)
                               => HalfDone \/ cache[p].ts <= disturbed
    /\ \A t \in Callers : calls[t].step = "fill" /\ calls[t].data # Content(toggles)
                               => HalfDone \/ calls[t].now <= disturbed

\* A quiet set is about to change one key of what the file says.
QuietSets ==
    \A t \in Callers : calls[t].step = "replace" /\ calls[t].quiet =>
        calls[t].data = With(Content(toggles), calls[t].key, calls[t].on)

\* Whatever is in the file, in a cache, or on its way there has been written.
Written ==
    /\ Content(toggles) \in written
    /\ \A p \in Processes : cache[p].full => cache[p].data \in written
    /\ \A t \in Callers : calls[t].step \in {"fill", "store", "answered"}
                             => calls[t].data \in written

TogglesIInv ==
    /\ TogglesShapes
    /\ Ops
    /\ Quiet
    /\ StaleIsOld
    /\ QuietSets
    /\ Written
    /\ QuietLoadIsCurrent
    /\ SpacedSetsAreKept

-----------------------------------------------------------------------------
LEMMA FailOpenIsContents == FailOpen \in Contents
<1>1. FailOpen \in [{DefaultKey} -> BOOLEAN] /\ {DefaultKey} \subseteq ToggleKeys
  BY KeysAssumption DEF FailOpen
<1>2. QED
  BY <1>1 DEF Contents

LEMMA ContentIsContents ==
    ASSUME toggles \in Contents \cup {Unreadable}
    PROVE  Content(toggles) \in Contents
BY FailOpenIsContents DEF Content

LEMMA ChangedIsContents ==
    ASSUME NEW key \in ToggleKeys, NEW on \in BOOLEAN, NEW c \in Contents
    PROVE  With(c, key, on) \in Contents
<1>1. PICK keys \in SUBSET ToggleKeys : c \in [keys -> BOOLEAN]
  BY DEF Contents
<1>2. With(c, key, on) \in [{key} \cup keys -> BOOLEAN]
  BY <1>1 DEF With
<1>3. QED
  BY <1>2 DEF Contents

\* What is loaded for a quiet call is what the file says.
LEMMA FreshIsCurrent ==
    ASSUME TogglesIInv, NEW t \in Callers, Active(t), calls[t].quiet,
           calls[t].step \notin {"store"}
    PROVE  /\ Fresh(t) => cache[ProcessOf[t]].data = Content(toggles)
           /\ calls[t].step = "fill" => calls[t].data = Content(toggles)
<1>1. calls[t].now - disturbed >= TTL /\ \A u \in Callers \ {t} : ~Setting(u)
  BY DEF TogglesIInv, Quiet
<1>2. ~HalfDone
  BY <1>1 DEF TogglesIInv, Ops, HalfDone
<1>3. ProcessOf[t] \in Processes /\ TTL \in Int /\ 1 <= TTL
  BY CallersAssumption, TimeAssumption
<1>4. cache[ProcessOf[t]].ts \in Int /\ calls[t].now \in Int /\ disturbed \in Int
  BY <1>3 DEF TogglesIInv, TogglesShapes, CallRecords
<1>5. Fresh(t) => cache[ProcessOf[t]].full /\ ~(cache[ProcessOf[t]].ts <= disturbed)
  BY <1>1, <1>3, <1>4 DEF Fresh
<1>6. ~(calls[t].now <= disturbed)
  BY <1>1, <1>3, <1>4
<1>7. QED
  BY <1>2, <1>3, <1>5, <1>6 DEF TogglesIInv, StaleIsOld

\* A step of one call leaves the others alone.
LEMMA OneCall ==
    ASSUME TogglesShapes, NEW t \in Callers, NEW c \in CallRecords,
           calls' = [calls EXCEPT ![t] = c]
    PROVE  /\ calls' \in [Callers -> CallRecords]
           /\ calls'[t] = c
           /\ \A u \in Callers \ {t} : calls'[u] = calls[u]
BY DEF TogglesShapes

\* What a call becomes when it has loaded data.
LoadedCall(t, data) ==
    IF calls[t].op = "get" THEN [calls[t] EXCEPT !.step = "answered", !.data = data]
    ELSE [calls[t] EXCEPT !.step = "replace", !.data = With(data, calls[t].key, calls[t].on)]

LEMMA LoadedBecomes ==
    ASSUME TogglesShapes, NEW t \in Callers, NEW data \in Contents, Loaded(t, data)
    PROVE  /\ calls' \in [Callers -> CallRecords]
           /\ calls'[t].op = calls[t].op /\ calls'[t].key = calls[t].key
           /\ calls'[t].on = calls[t].on
           /\ calls'[t].now = calls[t].now /\ calls'[t].quiet = calls[t].quiet
           /\ calls[t].op = "get" => calls'[t].step = "answered" /\ calls'[t].data = data
           /\ calls[t].op # "get" => /\ calls'[t].step = "replace"
                                     /\ calls'[t].data = With(data, calls[t].key, calls[t].on)
           /\ \A u \in Callers \ {t} : calls'[u] = calls[u]
<1>1. calls[t] \in CallRecords /\ calls[t].key \in ToggleKeys /\ calls[t].on \in BOOLEAN
  BY DEF TogglesShapes, CallRecords
<1>2. With(data, calls[t].key, calls[t].on) \in Contents
  BY <1>1, ChangedIsContents
<1>3. calls' = [calls EXCEPT ![t] = LoadedCall(t, data)]
  BY DEF Loaded, LoadedCall
<1>4. LoadedCall(t, data) \in CallRecords
  BY <1>1, <1>2 DEF LoadedCall, CallRecords
<1>5. /\ calls' \in [Callers -> CallRecords]
      /\ calls'[t] = LoadedCall(t, data)
      /\ \A u \in Callers \ {t} : calls'[u] = calls[u]
  BY <1>3, <1>4, OneCall
<1>6. QED
  BY <1>1, <1>5 DEF LoadedCall, CallRecords

LEMMA TogglesStart == TogglesInit => TogglesIInv
<1> SUFFICES ASSUME TogglesInit PROVE TogglesIInv
  OBVIOUS
<1>1. toggles \in Contents \cup {Unreadable}
  BY InitiallyAssumption DEF TogglesInit
<1>2. FailOpen \in Contents /\ TTL \in Nat /\ DefaultKey \in ToggleKeys /\ 0 - TTL <= 0
  BY FailOpenIsContents, KeysAssumption, TimeAssumption
<1>3. \A t \in Callers : calls[t] = NoCall
  BY DEF TogglesInit
<1>4. NoCall \in CallRecords
  BY <1>2 DEF NoCall, CallRecords
<1>5. NotCached \in [full : BOOLEAN, data : Contents, ts : Int]
  BY <1>2 DEF NotCached, FailOpen
<1>6. TogglesShapes
  <2>1. calls \in [Callers -> CallRecords] /\ \A t \in Callers : calls[t].now = 0
    BY <1>4 DEF TogglesInit, NoCall
  <2>2. /\ cache \in [Processes -> [full : BOOLEAN, data : Contents, ts : Int]]
        /\ \A p \in Processes : cache[p].ts = 0
    BY <1>5 DEF TogglesInit, NotCached
  <2>3. clock = 0 /\ 0 <= clock /\ disturbed = -TTL /\ disturbed \in Int /\ disturbed <= clock
    BY <1>2 DEF TogglesInit
  <2>4. QED
    BY <1>1, <2>1, <2>2, <2>3 DEF TogglesShapes
<1>7. Ops /\ Quiet /\ QuietSets /\ QuietLoadIsCurrent
  BY <1>3 DEF NoCall, Ops, Quiet, QuietSets, QuietLoadIsCurrent, Active
<1>8. StaleIsOld /\ Written
  BY <1>3 DEF TogglesInit, NotCached, NoCall, StaleIsOld, Written
<1>9. SpacedSetsAreKept
  BY DEF TogglesInit, SpacedSetsAreKept
<1>10. QED
  BY <1>6, <1>7, <1>8, <1>9 DEF TogglesIInv

\* A step of one call that writes neither file nor cache.
LEMMA CallStep ==
    ASSUME TogglesIInv, NEW t \in Callers, calls' \in [Callers -> CallRecords],
           \A u \in Callers \ {t} : calls'[u] = calls[u],
           UNCHANGED <<toggles, cache, clock, disturbed, written, spaced, intended>>,
           calls[t].step # "store", calls'[t].step # "store",
           calls'[t].now <= clock,
           \/ calls'[t].step = "idle" /\ calls'[t].op = "get"
           \/ /\ Active(t) /\ calls'[t].op = calls[t].op /\ calls'[t].now = calls[t].now
              /\ calls'[t].quiet = calls[t].quiet,
           calls'[t].step = "replace" => calls'[t].op = "set",
           calls'[t].step = "answered" => calls'[t].op # "set",
           calls'[t].step = "fill" => calls'[t].data = Content(toggles),
           calls'[t].step = "replace" /\ calls'[t].quiet
               => calls'[t].data = With(Content(toggles), calls'[t].key, calls'[t].on),
           calls'[t].step = "answered" /\ calls'[t].quiet => calls'[t].data = Content(toggles),
           calls'[t].step \in {"fill", "answered"} => calls'[t].data \in written
    PROVE  TogglesIInv'
<1>1. \A u \in Callers : calls'[u].op = "set" => calls[u].op = "set"
  OBVIOUS
<1>2. HalfDone' <=> HalfDone
  BY DEF HalfDone
<1>a. TogglesShapes'
  BY DEF TogglesIInv, TogglesShapes
<1>b. Ops'
  BY DEF TogglesIInv, Ops, Setting
<1>c. Quiet'
  <2> SUFFICES ASSUME NEW u \in Callers, Active(u)', calls'[u].quiet
               PROVE  /\ calls'[u].now - disturbed >= TTL
                      /\ \A w \in Callers \ {u} : calls'[w].op # "set"
    BY DEF Quiet, Setting
  <2>1. Active(u) /\ calls[u].quiet /\ calls'[u].now = calls[u].now
    BY DEF Active
  <2>2. calls[u].now - disturbed >= TTL /\ \A w \in Callers \ {u} : calls[w].op # "set"
    BY <2>1 DEF TogglesIInv, Quiet, Setting
  <2>3. QED
    BY <1>1, <2>1, <2>2
<1>d. StaleIsOld'
  <2>1. Content(toggles)' = Content(toggles)
    BY DEF Content
  <2>2. QED
    BY <1>2, <2>1 DEF TogglesIInv, StaleIsOld
<1>e. QuietSets'
  <2>1. Content(toggles)' = Content(toggles)
    BY DEF Content
  <2> SUFFICES ASSUME NEW u \in Callers, calls'[u].step = "replace", calls'[u].quiet
               PROVE  calls'[u].data = With(Content(toggles), calls'[u].key, calls'[u].on)
    BY <2>1 DEF QuietSets, With
  <2>2. CASE u = t
    BY <2>2
  <2>3. CASE u # t
    BY <2>3 DEF TogglesIInv, QuietSets
  <2>4. QED
    BY <2>2, <2>3
<1>f. Written'
  BY DEF TogglesIInv, Written, Content
<1>g. QuietLoadIsCurrent'
  BY DEF TogglesIInv, QuietLoadIsCurrent, Content
<1>h. SpacedSetsAreKept'
  BY DEF TogglesIInv, SpacedSetsAreKept, Content
<1>i. QED
  BY <1>a, <1>b, <1>c, <1>d, <1>e, <1>f, <1>g, <1>h DEF TogglesIInv

LEMMA CallTypes ==
    ASSUME TogglesIInv, NEW t \in Callers
    PROVE  /\ calls[t] \in CallRecords /\ calls[t].op \in {"get", "set"}
           /\ calls[t].now \in Int /\ calls[t].now <= clock /\ calls[t].data \in Contents
           /\ calls[t].key \in ToggleKeys /\ calls[t].on \in BOOLEAN
           /\ NoCall \in CallRecords /\ NoCall.step = "idle" /\ NoCall.op = "get" /\ NoCall.now = 0
           /\ ProcessOf[t] \in Processes
           /\ Content(toggles) \in Contents
           /\ calls \in [Callers -> CallRecords]
<1>1. calls[t] \in CallRecords /\ calls[t].now <= clock
  BY DEF TogglesIInv, TogglesShapes
<1>2. NoCall \in CallRecords /\ NoCall.step = "idle" /\ NoCall.op = "get" /\ NoCall.now = 0
  BY FailOpenIsContents, KeysAssumption DEF NoCall, CallRecords
<1>3. ProcessOf[t] \in Processes
  BY CallersAssumption
<1>4. Content(toggles) \in Contents
  BY ContentIsContents DEF TogglesIInv, TogglesShapes
<1>5. calls \in [Callers -> CallRecords]
  BY DEF TogglesIInv, TogglesShapes
<1>6. QED
  BY <1>1, <1>2, <1>3, <1>4, <1>5 DEF CallRecords

LEMMA CacheHitKeeps ==
    ASSUME TogglesIInv, NEW t \in Callers, CacheHit(t)
    PROVE  TogglesIInv'
<1> DEFINE data == cache[ProcessOf[t]].data
<1>1. /\ calls[t].step = "lookup" /\ Fresh(t) /\ Loaded(t, data)
      /\ UNCHANGED <<toggles, cache, clock, disturbed, written, spaced, intended>>
  BY DEF CacheHit
<1>2. data \in Contents /\ data \in written /\ TogglesShapes
  BY <1>1, CallTypes DEF Fresh, TogglesIInv, TogglesShapes, Written
<1>3. calls[t].quiet => data = Content(toggles)
  BY <1>1, FreshIsCurrent DEF Active
<1> HIDE DEF data
<1>4. /\ calls' \in [Callers -> CallRecords]
      /\ calls'[t].op = calls[t].op /\ calls'[t].key = calls[t].key
      /\ calls'[t].on = calls[t].on
      /\ calls'[t].now = calls[t].now /\ calls'[t].quiet = calls[t].quiet
      /\ calls[t].op = "get" => calls'[t].step = "answered" /\ calls'[t].data = data
      /\ calls[t].op # "get" => /\ calls'[t].step = "replace"
                                /\ calls'[t].data = With(data, calls[t].key, calls[t].on)
      /\ \A u \in Callers \ {t} : calls'[u] = calls[u]
  BY <1>1, <1>2, LoadedBecomes
<1>5. calls[t].op \in {"get", "set"} /\ calls[t].now <= clock
  BY CallTypes
<1>6. Active(t)
  BY <1>1 DEF Active
<1>7. QED
  BY <1>1, <1>2, <1>3, <1>4, <1>5, <1>6, CallStep

LEMMA CacheMissKeeps ==
    ASSUME TogglesIInv, NEW t \in Callers, CacheMiss(t)
    PROVE  TogglesIInv'
<1> DEFINE c == [calls[t] EXCEPT !.step = "read"]
<1>1. /\ calls[t].step = "lookup" /\ calls' = [calls EXCEPT ![t] = c]
      /\ UNCHANGED <<toggles, cache, clock, disturbed, written, spaced, intended>>
  BY DEF CacheMiss
<1>2. calls[t] \in CallRecords /\ calls[t].now <= clock /\ TogglesShapes
  BY CallTypes DEF TogglesIInv
<1>3. c \in CallRecords /\ c.step = "read" /\ c.op = calls[t].op /\ c.now = calls[t].now
      /\ c.quiet = calls[t].quiet
  BY <1>2 DEF CallRecords
<1> HIDE DEF c
<1>4. /\ calls' \in [Callers -> CallRecords] /\ calls'[t] = c
      /\ \A u \in Callers \ {t} : calls'[u] = calls[u]
  BY <1>1, <1>2, <1>3, OneCall
<1>5. Active(t)
  BY <1>1 DEF Active
<1>6. QED
  BY <1>1, <1>2, <1>3, <1>4, <1>5, CallStep

LEMMA ReadFileKeeps ==
    ASSUME TogglesIInv, NEW t \in Callers, ReadFile(t)
    PROVE  TogglesIInv'
<1> DEFINE c == [calls[t] EXCEPT !.step = "fill", !.data = Content(toggles)]
<1>1. /\ calls[t].step = "read" /\ calls' = [calls EXCEPT ![t] = c]
      /\ UNCHANGED <<toggles, cache, clock, disturbed, written, spaced, intended>>
  BY DEF ReadFile
<1>2. calls[t] \in CallRecords /\ calls[t].now <= clock /\ TogglesShapes
      /\ Content(toggles) \in Contents /\ Content(toggles) \in written
  BY CallTypes DEF TogglesIInv, Written
<1>3. c \in CallRecords /\ c.step = "fill" /\ c.op = calls[t].op /\ c.now = calls[t].now
      /\ c.quiet = calls[t].quiet /\ c.data = Content(toggles)
  BY <1>2 DEF CallRecords
<1> HIDE DEF c
<1>4. /\ calls' \in [Callers -> CallRecords] /\ calls'[t] = c
      /\ \A u \in Callers \ {t} : calls'[u] = calls[u]
  BY <1>1, <1>2, <1>3, OneCall
<1>5. Active(t)
  BY <1>1 DEF Active
<1>6. QED
  BY <1>1, <1>2, <1>3, <1>4, <1>5, CallStep

\* A read fails: from now on nothing is quiet, and what is in a cache is old.
LEMMA ReadFailsKeeps ==
    ASSUME TogglesIInv, NEW t \in Callers, ReadFails(t)
    PROVE  TogglesIInv'
<1>1. PICK c \in {Exposed(t), Defaulted(t)} :
         calls' = [u \in Callers |-> IF u = t THEN c ELSE [calls[u] EXCEPT !.quiet = FALSE]]
  BY DEF ReadFails
<1>2. /\ calls[t].step = "read" /\ disturbed' = clock
      /\ written' = written \cup {FailOpen}
      /\ UNCHANGED <<toggles, cache, clock, spaced, intended>>
  BY DEF ReadFails
<1>3. TogglesShapes /\ FailOpen \in Contents /\ clock \in Int
  BY FailOpenIsContents DEF TogglesIInv, TogglesShapes
<1>4. /\ c \in CallRecords /\ c.step \in {"idle", "fill", "answered"} /\ c.now <= clock
      /\ c.step = "idle" \/ ~c.quiet
      /\ c.step # "idle" => c.data = FailOpen
      /\ c.step = "answered" => c.op # "set"
      /\ c.op = "set" => Setting(t)
  <2>1. /\ calls[t] \in CallRecords /\ calls[t].now <= clock /\ 0 <= clock
        /\ NoCall \in CallRecords /\ NoCall.step = "idle" /\ NoCall.op = "get" /\ NoCall.now = 0
    BY <1>3, CallTypes DEF TogglesShapes
  <2>2. \/ c = NoCall \/ c = Defaulted(t)
        \/ /\ ~Setting(t)
           /\ c = [calls[t] EXCEPT !.step = "answered", !.data = FailOpen, !.quiet = FALSE]
    BY <1>1 DEF Exposed
  <2>3. CASE c = NoCall
    BY <2>1, <2>3
  <2>4. CASE c = Defaulted(t)
    BY <1>3, <2>1, <2>4 DEF Defaulted, CallRecords, Setting
  <2>5. CASE ~Setting(t) /\ c = [calls[t] EXCEPT !.step = "answered", !.data = FailOpen, !.quiet = FALSE]
    BY <1>3, <2>1, <2>5 DEF CallRecords, Setting
  <2>6. QED
    BY <2>2, <2>3, <2>4, <2>5
<1>5. \A u \in Callers :
         LET o == [calls[u] EXCEPT !.quiet = FALSE]
         IN  /\ o \in CallRecords /\ ~o.quiet
             /\ o.step = calls[u].step /\ o.op = calls[u].op
             /\ o.now = calls[u].now /\ o.data = calls[u].data
  BY <1>3 DEF TogglesShapes, CallRecords
<1>6. /\ calls' \in [Callers -> CallRecords] /\ calls'[t] = c
      /\ \A u \in Callers \ {t} :
            /\ ~calls'[u].quiet
            /\ calls'[u].step = calls[u].step /\ calls'[u].op = calls[u].op
            /\ calls'[u].now = calls[u].now /\ calls'[u].data = calls[u].data
  BY <1>1, <1>4, <1>5
<1>7. \A u \in Callers : Active(u)' => ~calls'[u].quiet
  BY <1>4, <1>6 DEF Active
<1>8. Content(toggles)' = Content(toggles)
  BY <1>2 DEF Content
<1>9. /\ \A p \in Processes : cache[p].ts <= clock
      /\ \A u \in Callers : calls'[u].now <= clock
  BY <1>3, <1>4, <1>6 DEF TogglesShapes
<1>a. TogglesShapes'
  BY <1>2, <1>3, <1>6, <1>9 DEF TogglesShapes
<1>b. Ops'
  BY <1>4, <1>6 DEF TogglesIInv, Ops, Setting
<1>c. Quiet' /\ QuietSets' /\ QuietLoadIsCurrent'
  BY <1>7 DEF Quiet, QuietSets, QuietLoadIsCurrent, Active
<1>d. StaleIsOld'
  BY <1>2, <1>9 DEF StaleIsOld
<1>e. Written'
  BY <1>2, <1>4, <1>6, <1>8 DEF TogglesIInv, Written
<1>f. SpacedSetsAreKept'
  BY <1>2, <1>8 DEF TogglesIInv, SpacedSetsAreKept
<1>g. QED
  BY <1>a, <1>b, <1>c, <1>d, <1>e, <1>f DEF TogglesIInv

\* A call ends without having written.
LEMMA EndKeeps ==
    ASSUME TogglesIInv, NEW t \in Callers, Return(t) \/ ReplaceRaises(t)
    PROVE  TogglesIInv'
<1>1. /\ calls[t].step \in {"answered", "replace"} /\ calls' = [calls EXCEPT ![t] = NoCall]
      /\ UNCHANGED <<toggles, cache, clock, disturbed, written, spaced, intended>>
  BY DEF Return, ReplaceRaises
<1>2. /\ TogglesShapes /\ NoCall \in CallRecords /\ NoCall.step = "idle" /\ NoCall.op = "get"
      /\ NoCall.now = 0
  BY CallTypes DEF TogglesIInv
<1>3. /\ calls' \in [Callers -> CallRecords] /\ calls'[t] = NoCall
      /\ \A u \in Callers \ {t} : calls'[u] = calls[u]
  BY <1>1, <1>2, OneCall
<1>4. 0 <= clock
  BY <1>2 DEF TogglesShapes
<1>5. QED
  BY <1>1, <1>2, <1>3, <1>4, CallStep

LEMMA BeginKeeps ==
    ASSUME TogglesIInv, NEW t \in Callers, NEW op \in {"get", "set"}, NEW key \in ToggleKeys,
           NEW on \in BOOLEAN, Begin(t, op, key, on)
    PROVE  TogglesIInv'
<1> DEFINE settled == clock - disturbed >= TTL /\ \A u \in Callers : ~Setting(u)
           c == [step |-> "lookup", op |-> op, key |-> key, on |-> on, now |-> clock,
                 data |-> FailOpen, quiet |-> settled]
           others(u) == [calls[u] EXCEPT !.quiet = @ /\ op = "get"]
<1>1. /\ calls[t].step = "idle"
      /\ calls' = [u \in Callers |-> IF u = t THEN c ELSE others(u)]
      /\ UNCHANGED <<toggles, cache, clock, disturbed, written, spaced, intended>>
  BY DEF Begin
<1>2. TogglesShapes /\ FailOpen \in Contents /\ clock \in Int
  BY FailOpenIsContents DEF TogglesIInv, TogglesShapes
<1>3. settled \in BOOLEAN
  OBVIOUS
<1>4. /\ c \in CallRecords /\ c.step = "lookup" /\ c.op = op /\ c.now = clock
      /\ c.quiet = settled
  BY <1>2, <1>3 DEF CallRecords
<1>5. \A u \in Callers : /\ others(u) \in CallRecords
                         /\ others(u).step = calls[u].step /\ others(u).op = calls[u].op
                         /\ others(u).key = calls[u].key /\ others(u).on = calls[u].on
                         /\ others(u).now = calls[u].now /\ others(u).data = calls[u].data
                         /\ others(u).quiet => calls[u].quiet /\ op = "get"
  BY <1>2 DEF TogglesShapes, CallRecords
<1>6. settled => clock - disturbed >= TTL /\ \A u \in Callers : ~Setting(u)
  OBVIOUS
<1> HIDE DEF c, others, settled
<1>7. /\ calls' \in [Callers -> CallRecords] /\ calls'[t] = c
      /\ \A u \in Callers \ {t} :
            /\ calls'[u].step = calls[u].step /\ calls'[u].op = calls[u].op
            /\ calls'[u].key = calls[u].key /\ calls'[u].on = calls[u].on
            /\ calls'[u].now = calls[u].now /\ calls'[u].data = calls[u].data
            /\ calls'[u].quiet => calls[u].quiet /\ op = "get"
  BY <1>1, <1>4, <1>5
<1>8. Content(toggles)' = Content(toggles)
  BY <1>1 DEF Content
<1>a. TogglesShapes'
  BY <1>1, <1>2, <1>4, <1>7 DEF TogglesShapes
<1>b. Ops'
  BY <1>4, <1>7 DEF TogglesIInv, Ops, Setting
<1>c. Quiet'
  <2> SUFFICES ASSUME NEW u \in Callers, Active(u)', calls'[u].quiet
               PROVE  /\ calls'[u].now - disturbed' >= TTL
                      /\ \A w \in Callers \ {u} : calls'[w].op # "set"
    BY DEF Quiet, Setting
  <2>1. CASE u = t
    <3>1. clock - disturbed >= TTL /\ \A w \in Callers : calls[w].op # "set"
      BY <1>4, <1>6, <1>7, <2>1 DEF Setting
    <3>2. QED
      BY <1>1, <1>4, <1>7, <2>1, <3>1
  <2>2. CASE u # t
    <3>1. Active(u) /\ calls[u].quiet /\ op = "get" /\ calls'[u].now = calls[u].now
      BY <1>7, <2>2 DEF Active
    <3>2. calls[u].now - disturbed >= TTL /\ \A w \in Callers \ {u} : calls[w].op # "set"
      BY <3>1 DEF TogglesIInv, Quiet, Setting
    <3>3. \A w \in Callers \ {u} : calls'[w].op # "set"
      BY <1>4, <1>7, <3>1, <3>2
    <3>4. QED
      BY <1>1, <3>1, <3>2, <3>3
  <2>3. QED
    BY <2>1, <2>2
<1>d. StaleIsOld'
  <2>1. HalfDone' <=> HalfDone
    BY <1>1, <1>4, <1>7 DEF HalfDone
  <2>2. QED
    BY <1>1, <1>4, <1>7, <1>8, <2>1 DEF TogglesIInv, StaleIsOld
<1>e. QuietSets'
  <2> SUFFICES ASSUME NEW u \in Callers, calls'[u].step = "replace", calls'[u].quiet
               PROVE  calls'[u].data = With(Content(toggles), calls'[u].key, calls'[u].on)
    BY <1>8 DEF QuietSets, With
  <2>1. u # t
    BY <1>4, <1>7
  <2>2. QED
    BY <1>7, <2>1 DEF TogglesIInv, QuietSets
<1>f. Written'
  BY <1>1, <1>4, <1>7, <1>8 DEF TogglesIInv, Written
<1>g. QuietLoadIsCurrent'
  BY <1>1, <1>4, <1>7, <1>8 DEF TogglesIInv, QuietLoadIsCurrent
<1>h. SpacedSetsAreKept'
  BY <1>1, <1>8 DEF TogglesIInv, SpacedSetsAreKept
<1>i. QED
  BY <1>a, <1>b, <1>c, <1>d, <1>e, <1>f, <1>g, <1>h DEF TogglesIInv

LEMMA FillCacheKeeps ==
    ASSUME TogglesIInv, NEW t \in Callers, FillCache(t)
    PROVE  TogglesIInv'
<1> DEFINE data == calls[t].data
           entry == [full |-> TRUE, data |-> data, ts |-> calls[t].now]
           p == ProcessOf[t]
<1>1. /\ calls[t].step = "fill" /\ Loaded(t, data)
      /\ cache' = [cache EXCEPT ![p] = entry]
      /\ UNCHANGED <<toggles, clock, disturbed, written, spaced, intended>>
  BY DEF FillCache
<1>2. data \in Contents /\ data \in written /\ TogglesShapes /\ p \in Processes
  BY <1>1, CallTypes DEF TogglesIInv, Written
<1>3. calls[t].now \in Int /\ calls[t].now <= clock /\ calls[t].op \in {"get", "set"}
  BY CallTypes
<1>4. Active(t) /\ calls[t].step # "store"
  BY <1>1 DEF Active
<1>5. calls[t].quiet => data = Content(toggles)
  BY <1>1, <1>4, FreshIsCurrent
<1>6. data # Content(toggles) => HalfDone \/ calls[t].now <= disturbed
  BY <1>1 DEF TogglesIInv, StaleIsOld
<1>7. entry \in [full : BOOLEAN, data : Contents, ts : Int] /\ entry.full
      /\ entry.data = data /\ entry.ts = calls[t].now
  BY <1>2, <1>3
<1> HIDE DEF data, entry, p
<1>8. /\ cache' \in [Processes -> [full : BOOLEAN, data : Contents, ts : Int]]
      /\ cache'[p] = entry
      /\ \A q \in Processes \ {p} : cache'[q] = cache[q]
  BY <1>1, <1>2, <1>7 DEF TogglesShapes
<1>9. /\ calls' \in [Callers -> CallRecords]
      /\ calls'[t].op = calls[t].op /\ calls'[t].key = calls[t].key
      /\ calls'[t].on = calls[t].on
      /\ calls'[t].now = calls[t].now /\ calls'[t].quiet = calls[t].quiet
      /\ calls[t].op = "get" => calls'[t].step = "answered" /\ calls'[t].data = data
      /\ calls[t].op # "get" => /\ calls'[t].step = "replace"
                                /\ calls'[t].data = With(data, calls[t].key, calls[t].on)
      /\ \A u \in Callers \ {t} : calls'[u] = calls[u]
  BY <1>1, <1>2, LoadedBecomes
<1>10. Content(toggles)' = Content(toggles)
  BY <1>1 DEF Content
<1>11. calls'[t].step \in {"answered", "replace"}
  BY <1>3, <1>9
<1>12. HalfDone' <=> HalfDone
  BY <1>4, <1>9, <1>11 DEF HalfDone
<1>a. TogglesShapes'
  <2>1. \A q \in Processes : cache'[q].ts <= clock
    BY <1>2, <1>3, <1>7, <1>8 DEF TogglesShapes
  <2>2. \A u \in Callers : calls'[u].now <= clock
    BY <1>2, <1>3, <1>9 DEF TogglesShapes
  <2>3. QED
    BY <1>1, <1>2, <1>8, <1>9, <2>1, <2>2 DEF TogglesShapes
<1>b. Ops'
  BY <1>3, <1>9 DEF TogglesIInv, Ops, Setting
<1>c. Quiet'
  BY <1>1, <1>4, <1>9 DEF TogglesIInv, Quiet, Setting, Active
<1>d. StaleIsOld'
  <2>1. \A q \in Processes : cache'[q].full /\ cache'[q].data # Content(toggles)
                                => HalfDone \/ cache'[q].ts <= disturbed
    BY <1>6, <1>7, <1>8 DEF TogglesIInv, StaleIsOld
  <2>2. \A u \in Callers : calls'[u].step = "fill" => u # t
    BY <1>11
  <2>3. \A u \in Callers : calls'[u].step = "fill" /\ calls'[u].data # Content(toggles)
                              => HalfDone \/ calls'[u].now <= disturbed
    BY <1>9, <2>2 DEF TogglesIInv, StaleIsOld
  <2>4. QED
    BY <1>1, <1>10, <1>12, <2>1, <2>3 DEF StaleIsOld
<1>e. QuietSets'
  <2> SUFFICES ASSUME NEW u \in Callers, calls'[u].step = "replace", calls'[u].quiet
               PROVE  calls'[u].data = With(Content(toggles), calls'[u].key, calls'[u].on)
    BY <1>10 DEF QuietSets, With
  <2>1. CASE u = t
    BY <1>3, <1>5, <1>9, <2>1
  <2>2. CASE u # t
    BY <1>9, <2>2 DEF TogglesIInv, QuietSets
  <2>3. QED
    BY <2>1, <2>2
<1>f. Written'
  <2>1. \A q \in Processes : cache'[q].full => cache'[q].data \in written
    BY <1>2, <1>7, <1>8 DEF TogglesIInv, Written
  <2>2. \A u \in Callers : calls'[u].step \in {"fill", "store", "answered"}
                              => calls'[u].data \in written
    BY <1>2, <1>3, <1>9 DEF TogglesIInv, Written
  <2>3. QED
    BY <1>1, <1>10, <2>1, <2>2 DEF TogglesIInv, Written
<1>g. QuietLoadIsCurrent'
  <2> SUFFICES ASSUME NEW u \in Callers, calls'[u].step = "answered", calls'[u].quiet
               PROVE  calls'[u].data = Content(toggles)
    BY <1>10 DEF QuietLoadIsCurrent
  <2>1. CASE u = t
    BY <1>3, <1>5, <1>9, <2>1
  <2>2. CASE u # t
    BY <1>9, <2>2 DEF TogglesIInv, QuietLoadIsCurrent
  <2>3. QED
    BY <2>1, <2>2
<1>h. SpacedSetsAreKept'
  BY <1>1, <1>10 DEF TogglesIInv, SpacedSetsAreKept
<1>i. QED
  BY <1>a, <1>b, <1>c, <1>d, <1>e, <1>f, <1>g, <1>h DEF TogglesIInv

LEMMA ReplaceKeeps ==
    ASSUME TogglesIInv, NEW t \in Callers, Replace(t)
    PROVE  TogglesIInv'
<1> DEFINE data == calls[t].data
           c == [calls[t] EXCEPT !.step = "store"]
<1>1. /\ calls[t].step = "replace" /\ toggles' = data
      /\ calls' = [calls EXCEPT ![t] = c]
      /\ written' = written \cup {data}
      /\ spaced' = (spaced /\ calls[t].quiet)
      /\ intended' = With(intended, calls[t].key, calls[t].on)
      /\ UNCHANGED <<cache, clock, disturbed>>
  BY DEF Replace
<1>2. calls[t] \in CallRecords /\ TogglesShapes /\ data \in Contents
  BY CallTypes DEF TogglesIInv
<1>3. c \in CallRecords /\ c.step = "store" /\ c.op = calls[t].op /\ c.now = calls[t].now
      /\ c.quiet = calls[t].quiet /\ c.data = data
  BY <1>2 DEF CallRecords
<1>4. Setting(t) /\ Active(t)
  BY <1>1 DEF TogglesIInv, Ops, Active
<1>5. calls[t].quiet => data = With(Content(toggles), calls[t].key, calls[t].on)
  BY <1>1 DEF TogglesIInv, QuietSets
<1>6. Content(toggles)' = data
  BY <1>1, <1>2, InitiallyAssumption DEF Content
<1> HIDE DEF data, c
<1>7. /\ calls' \in [Callers -> CallRecords] /\ calls'[t] = c
      /\ \A u \in Callers \ {t} : calls'[u] = calls[u]
  BY <1>1, <1>2, <1>3, OneCall
<1>8. HalfDone'
  BY <1>3, <1>7 DEF HalfDone
<1>9. \A u \in Callers \ {t} : Active(u) => ~calls[u].quiet
  BY <1>4 DEF TogglesIInv, Quiet
<1>a. TogglesShapes'
  BY <1>1, <1>2, <1>3, <1>7 DEF TogglesShapes
<1>b. Ops'
  BY <1>3, <1>4, <1>7 DEF TogglesIInv, Ops, Setting
<1>c. Quiet'
  BY <1>1, <1>3, <1>4, <1>7 DEF TogglesIInv, Quiet, Setting, Active
<1>d. StaleIsOld'
  BY <1>8 DEF StaleIsOld
<1>e. QuietSets'
  <2> SUFFICES ASSUME NEW u \in Callers, calls'[u].step = "replace", calls'[u].quiet
               PROVE  FALSE
    BY DEF QuietSets
  <2>1. u # t
    BY <1>3, <1>7
  <2>2. QED
    BY <1>7, <1>9, <2>1 DEF Active
<1>f. Written'
  <2>1. \A q \in Processes : cache'[q].full => cache'[q].data \in written'
    BY <1>1 DEF TogglesIInv, Written
  <2>2. \A u \in Callers : calls'[u].step \in {"fill", "store", "answered"}
                              => calls'[u].data \in written'
    BY <1>1, <1>3, <1>7 DEF TogglesIInv, Written
  <2>3. QED
    BY <1>1, <1>6, <2>1, <2>2 DEF Written
<1>g. QuietLoadIsCurrent'
  <2> SUFFICES ASSUME NEW u \in Callers, calls'[u].step = "answered", calls'[u].quiet
               PROVE  FALSE
    BY DEF QuietLoadIsCurrent
  <2>1. u # t
    BY <1>3, <1>7
  <2>2. QED
    BY <1>7, <1>9, <2>1 DEF Active
<1>h. SpacedSetsAreKept'
  <2> SUFFICES ASSUME spaced, calls[t].quiet PROVE Content(toggles)' = intended'
    BY <1>1 DEF SpacedSetsAreKept
  <2>1. Content(toggles) = intended
    BY DEF TogglesIInv, SpacedSetsAreKept
  <2>2. QED
    BY <1>1, <1>5, <1>6, <2>1
<1>i. QED
  BY <1>a, <1>b, <1>c, <1>d, <1>e, <1>f, <1>g, <1>h DEF TogglesIInv

LEMMA StoreCacheKeeps ==
    ASSUME TogglesIInv, NEW t \in Callers, StoreCache(t)
    PROVE  TogglesIInv'
<1> DEFINE data == calls[t].data
           entry == [full |-> TRUE, data |-> data, ts |-> clock]
           p == ProcessOf[t]
<1>1. /\ calls[t].step = "store"
      /\ cache' = [cache EXCEPT ![p] = entry]
      /\ calls' = [calls EXCEPT ![t] = NoCall]
      /\ disturbed' = clock
      /\ UNCHANGED <<toggles, clock, written, spaced, intended>>
  BY DEF StoreCache
<1>2. /\ data \in Contents /\ data \in written /\ TogglesShapes /\ p \in Processes
      /\ NoCall \in CallRecords /\ NoCall.step = "idle" /\ NoCall.op = "get" /\ NoCall.now = 0
  BY <1>1, CallTypes DEF TogglesIInv, Written
<1>3. entry \in [full : BOOLEAN, data : Contents, ts : Int] /\ entry.full
      /\ entry.data = data /\ entry.ts = clock
  BY <1>2 DEF TogglesShapes
<1>4. Setting(t)
  BY <1>1 DEF TogglesIInv, Ops
<1> HIDE DEF data, entry, p
<1>5. /\ cache' \in [Processes -> [full : BOOLEAN, data : Contents, ts : Int]]
      /\ cache'[p] = entry
      /\ \A q \in Processes \ {p} : cache'[q] = cache[q]
  BY <1>1, <1>2, <1>3 DEF TogglesShapes
<1>6. /\ calls' \in [Callers -> CallRecords] /\ calls'[t] = NoCall
      /\ \A u \in Callers \ {t} : calls'[u] = calls[u]
  BY <1>1, <1>2, OneCall
<1>7. Content(toggles)' = Content(toggles)
  BY <1>1 DEF Content
<1>8. \A u \in Callers \ {t} : Active(u) => ~calls[u].quiet
  BY <1>4 DEF TogglesIInv, Quiet
<1>9. \A u \in Callers : Active(u)' => u # t /\ Active(u) /\ ~calls'[u].quiet
  BY <1>2, <1>6, <1>8 DEF Active
<1>10. /\ \A q \in Processes : cache'[q].ts <= clock
       /\ \A u \in Callers : calls'[u].now <= clock
       /\ clock \in Int
  BY <1>2, <1>3, <1>5, <1>6 DEF TogglesShapes
<1>a. TogglesShapes'
  BY <1>1, <1>2, <1>5, <1>6, <1>10 DEF TogglesShapes
<1>b. Ops'
  BY <1>2, <1>6 DEF TogglesIInv, Ops, Setting
<1>c. Quiet'
  BY <1>9 DEF Quiet
<1>d. StaleIsOld'
  BY <1>1, <1>10 DEF StaleIsOld
<1>e. QuietSets'
  BY <1>9 DEF QuietSets, Active
<1>f. Written'
  <2>1. \A q \in Processes : cache'[q].full => cache'[q].data \in written
    BY <1>2, <1>3, <1>5 DEF TogglesIInv, Written
  <2>2. \A u \in Callers : calls'[u].step \in {"fill", "store", "answered"}
                              => calls'[u].data \in written
    BY <1>2, <1>6 DEF TogglesIInv, Written
  <2>3. QED
    BY <1>1, <1>7, <2>1, <2>2 DEF TogglesIInv, Written
<1>g. QuietLoadIsCurrent'
  BY <1>9 DEF QuietLoadIsCurrent, Active
<1>h. SpacedSetsAreKept'
  BY <1>1, <1>7 DEF TogglesIInv, SpacedSetsAreKept
<1>i. QED
  BY <1>a, <1>b, <1>c, <1>d, <1>e, <1>f, <1>g, <1>h DEF TogglesIInv

LEMMA TickKeeps == ASSUME TogglesIInv, Tick PROVE TogglesIInv'
<1>1. /\ clock' = clock + 1
      /\ UNCHANGED <<toggles, cache, calls, disturbed, written, spaced, intended>>
  BY DEF Tick
<1>2. TogglesShapes
  BY DEF TogglesIInv
<1>3. Content(toggles)' = Content(toggles)
  BY <1>1 DEF Content
<1>a. TogglesShapes'
  <2>1. \A q \in Processes : cache[q].ts \in Int /\ cache[q].ts <= clock
    BY <1>2 DEF TogglesShapes
  <2>2. \A u \in Callers : calls[u].now \in Int /\ calls[u].now <= clock
    BY <1>2 DEF TogglesShapes, CallRecords
  <2>3. clock \in Int /\ 0 <= clock /\ disturbed \in Int /\ disturbed <= clock
    BY <1>2 DEF TogglesShapes
  <2>4. QED
    BY <1>1, <1>2, <2>1, <2>2, <2>3 DEF TogglesShapes
<1>b. Ops' /\ Quiet' /\ QuietSets' /\ Written'
  BY <1>1, <1>3 DEF TogglesIInv, Ops, Quiet, QuietSets, Written, Setting, Active, With
<1>c. StaleIsOld'
  BY <1>1, <1>3 DEF TogglesIInv, StaleIsOld, HalfDone
<1>d. QuietLoadIsCurrent' /\ SpacedSetsAreKept'
  BY <1>1, <1>3 DEF TogglesIInv, QuietLoadIsCurrent, SpacedSetsAreKept
<1>e. QED
  BY <1>a, <1>b, <1>c, <1>d DEF TogglesIInv

LEMMA TogglesStep == TogglesIInv /\ [TogglesNext]_togglesVars => TogglesIInv'
<1> SUFFICES ASSUME TogglesIInv, [TogglesNext]_togglesVars PROVE TogglesIInv'
  OBVIOUS
<1>1. CASE UNCHANGED togglesVars
  <2>1. Content(toggles)' = Content(toggles)
    BY <1>1 DEF togglesVars, Content
  <2>2. TogglesShapes' /\ Ops' /\ Quiet'
    BY <1>1 DEF togglesVars, TogglesIInv, TogglesShapes, Ops, Quiet, Setting, Active
  <2>3. QuietSets' /\ Written'
    BY <1>1, <2>1 DEF togglesVars, TogglesIInv, QuietSets, Written, With
  <2>4. StaleIsOld' /\ QuietLoadIsCurrent' /\ SpacedSetsAreKept'
    BY <1>1, <2>1 DEF togglesVars, TogglesIInv, StaleIsOld, HalfDone, QuietLoadIsCurrent,
       SpacedSetsAreKept
  <2>5. QED
    BY <2>2, <2>3, <2>4 DEF TogglesIInv
<1>2. ASSUME NEW t \in Callers, Begin(t, "get", DefaultKey, TRUE) PROVE TogglesIInv'
  BY <1>2, BeginKeeps, KeysAssumption
<1>3. ASSUME NEW t \in Callers, NEW change \in Changes, Begin(t, "set", change[1], change[2])
      PROVE  TogglesIInv'
  <2>1. change[1] \in ToggleKeys /\ change[2] \in BOOLEAN
    BY KeysAssumption
  <2>2. QED
    BY <1>3, <2>1, BeginKeeps
<1>4. QED
  BY <1>1, <1>2, <1>3, TickKeeps, CacheHitKeeps, CacheMissKeeps, ReadFileKeeps,
     ReadFailsKeeps, FillCacheKeeps, EndKeeps, ReplaceKeeps, StoreCacheKeeps DEF TogglesNext

LEMMA TogglesAlways == TogglesSpec => []TogglesIInv
BY TogglesStart, TogglesStep, PTL DEF TogglesSpec

\* Whatever the TTL and however many processes cache the file: what is loaded
\* a TTL after the last set and the last failed read is what the file says.
THEOREM QuietLoadsAreCurrent == TogglesSpec => []QuietLoadIsCurrent
<1>1. TogglesIInv => QuietLoadIsCurrent
  BY DEF TogglesIInv
<1>2. QED
  BY <1>1, TogglesAlways, PTL

\* Sets that come a TTL apart and after failed reads, in whatever processes,
\* lose nothing.
THEOREM SpacedSetsLoseNothing == TogglesSpec => []SpacedSetsAreKept
<1>1. TogglesIInv => SpacedSetsAreKept
  BY DEF TogglesIInv
<1>2. QED
  BY <1>1, TogglesAlways, PTL

\* Nobody is told what was never in the file, but that the toggle is on when
\* the file cannot be read.
THEOREM SeenIsWritten == TogglesSpec => []SeenWasWritten
<1>1. TogglesIInv => SeenWasWritten
  BY DEF TogglesIInv, Written, SeenWasWritten
<1>2. QED
  BY <1>1, TogglesAlways, PTL

-----------------------------------------------------------------------------
(* The lazy singletons: double-checked locking gives everybody the same     *)
(* instance, and never one that is not set up.                              *)

Steps == {"idle", "lock", "recheck", "make", "setup", "publish", "use", "launch"}

\* The shapes of the variables.
Shapes ==
    /\ global \in [Objects -> Int]
    /\ holder \in [Objects -> Askers \cup {Nobody}]
    /\ made \in [Objects -> Int]
    /\ ready \in [Objects -> SUBSET Int]
    /\ used \in [Objects -> SUBSET Int]
    /\ asker \in [Askers -> [step : Steps, obj : Objects \cup {"none"}, inst : Int]]
    /\ warm \in [flag : BOOLEAN, launched : Int]

Counted ==
    \A o \in Objects : /\ 0 <= made[o] /\ made[o] <= MaxMade
                       /\ global[o] # 0 => global[o] \in ready[o]
                       /\ \A n \in ready[o] : 1 <= n /\ n <= made[o]
                       /\ used[o] \subseteq ready[o]

\* What a thread between two steps has in hand.
InHand ==
    \A t \in Askers :
        /\ asker[t].step \notin {"idle", "launch"} => asker[t].obj \in Objects
        /\ asker[t].step \in {"lock", "recheck"} => asker[t].obj \notin Unlocked
        /\ asker[t].step = "setup" => /\ 1 <= asker[t].inst
                                      /\ asker[t].inst <= made[asker[t].obj]
        /\ asker[t].step = "publish" => asker[t].inst \in ready[asker[t].obj]
        /\ asker[t].step = "use" => global[asker[t].obj] # 0

Holds(t, o) ==
    /\ asker[t].obj = o /\ o \notin Unlocked
    /\ asker[t].step \in {"recheck", "make", "setup", "publish"}

Locks == \A t \in Askers, o \in Objects : holder[o] = t <=> Holds(t, o)

\* Under its lock an object that is being made has not been published, and
\* what callers were given is what is published.
Single ==
    /\ \A t \in Askers : asker[t].step \in {"make", "setup", "publish"}
                         /\ asker[t].obj \notin Unlocked => global[asker[t].obj] = 0
    /\ \A o \in Objects \ Unlocked : \A n \in used[o] : n = global[o] /\ n # 0

\* Whoever claimed the warm-up launches it, once.
WarmOnce ==
    /\ ~warm.flag => warm.launched = 0
    /\ 0 <= warm.launched /\ warm.launched <= 1
    /\ \A t \in Askers : asker[t].step = "launch" => warm.flag /\ warm.launched = 0
    /\ \A t, u \in Askers : asker[t].step = "launch" /\ asker[u].step = "launch" => t = u

LazyIInv == Shapes /\ Counted /\ InHand /\ Locks /\ Single /\ WarmOnce

LEMMA LazyStarts == LazyInitial => LazyIInv
<1> SUFFICES ASSUME LazyInitial PROVE LazyIInv
  OBVIOUS
<1>1. Shapes
  BY DEF LazyInitial, Shapes, AtRest, Steps
<1>2. Counted
  BY MadeAssumption DEF LazyInitial, Counted
<1>3. InHand
  BY DEF LazyInitial, InHand, AtRest
<1>4. Locks
  BY AskersAssumption DEF LazyInitial, Locks, Holds, AtRest
<1>5. Single
  BY DEF LazyInitial, Single, AtRest
<1>6. WarmOnce
  BY DEF LazyInitial, WarmOnce, AtRest
<1>7. QED
  BY <1>1, <1>2, <1>3, <1>4, <1>5, <1>6 DEF LazyIInv

\* A thread that asks for an object without holding a lock.
LEMMA AskKeeps ==
    ASSUME LazyIInv, NEW t \in Askers, NEW o \in Objects, Ask(t, o)
    PROVE  LazyIInv'
<1> DEFINE next == IF global[o] # 0 THEN "use" ELSE IF o \in Unlocked THEN "make" ELSE "lock"
           a == [step |-> next, obj |-> o, inst |-> 0]
<1>1. /\ asker[t].step = "idle"
      /\ asker' = [asker EXCEPT ![t] = a]
      /\ UNCHANGED <<global, holder, made, ready, used, warm, sessions>>
  BY DEF Ask
<1>2. asker \in [Askers -> [step : Steps, obj : Objects \cup {"none"}, inst : Int]]
  BY DEF LazyIInv, Shapes
<1>3. a \in [step : Steps, obj : Objects \cup {"none"}, inst : Int]
  BY DEF Steps
<1>4. asker'[t] = a /\ \A u \in Askers \ {t} : asker'[u] = asker[u]
  BY <1>1, <1>2
<1>5. asker' \in [Askers -> [step : Steps, obj : Objects \cup {"none"}, inst : Int]]
  BY <1>1, <1>2, <1>3
<1>6. a.obj = o /\ a.step \in {"use", "make", "lock"} /\ (a.step = "use" => global[o] # 0)
      /\ (a.step = "make" => o \in Unlocked)
      /\ (a.step = "lock" => o \notin Unlocked)
  OBVIOUS
<1> HIDE DEF a
<1>a. Shapes'
  BY <1>1, <1>5 DEF LazyIInv, Shapes
<1>b. Counted'
  BY <1>1 DEF LazyIInv, Counted
<1>c. InHand'
  BY <1>1, <1>4, <1>6 DEF LazyIInv, InHand
<1>d. Locks'
  BY <1>1, <1>4, <1>6 DEF LazyIInv, Locks, Holds
<1>e. Single'
  BY <1>1, <1>4, <1>6 DEF LazyIInv, Single
<1>f. WarmOnce'
  BY <1>1, <1>4, <1>6 DEF LazyIInv, WarmOnce
<1>g. QED
  BY <1>a, <1>b, <1>c, <1>d, <1>e, <1>f DEF LazyIInv

\* A step that takes a thread t elsewhere leaves the others where they are.
LEMMA Moves ==
    ASSUME Shapes, NEW t \in Askers, NEW step \in Steps, GoTo(t, step)
    PROVE  /\ asker'[t].step = step
           /\ asker'[t].obj = asker[t].obj
           /\ asker'[t].inst = asker[t].inst
           /\ \A u \in Askers \ {t} : asker'[u] = asker[u]
           /\ asker' \in [Askers -> [step : Steps, obj : Objects \cup {"none"}, inst : Int]]
BY DEF GoTo, Shapes

\* So does one that takes it back.
LEMMA Rests ==
    ASSUME Shapes, NEW t \in Askers, asker' = [asker EXCEPT ![t] = AtRest]
    PROVE  /\ asker'[t] = AtRest
           /\ \A u \in Askers \ {t} : asker'[u] = asker[u]
           /\ asker' \in [Askers -> [step : Steps, obj : Objects \cup {"none"}, inst : Int]]
<1>1. AtRest \in [step : Steps, obj : Objects \cup {"none"}, inst : Int]
  BY DEF AtRest, Steps
<1>2. QED
  BY <1>1 DEF Shapes

\* A lock is released by who holds it, and by no other.
LEMMA Releases ==
    ASSUME Shapes, Locks, NEW t \in Askers, NEW o \in Objects, holder' = Released(t, o)
    PROVE  /\ holder' \in [Objects -> Askers \cup {Nobody}]
           /\ \A p \in Objects \ {o} : holder'[p] = holder[p]
           /\ holder'[o] = IF holder[o] = t THEN Nobody ELSE holder[o]
BY DEF Shapes, Released

LEMMA LockKeeps ==
    ASSUME LazyIInv, NEW t \in Askers, Lock(t)
    PROVE  LazyIInv'
<1> DEFINE o == asker[t].obj
<1>1. /\ asker[t].step = "lock" /\ holder[o] = Nobody
      /\ holder' = [holder EXCEPT ![o] = t]
      /\ GoTo(t, "recheck")
      /\ UNCHANGED <<global, made, ready, used, warm, sessions>>
  BY DEF Lock
<1>2. o \in Objects /\ o \notin Unlocked
  BY <1>1 DEF LazyIInv, InHand
<1>3. holder \in [Objects -> Askers \cup {Nobody}] /\ Shapes
  BY DEF LazyIInv, Shapes
<1>4. "recheck" \in Steps
  BY DEF Steps
<1>5. /\ asker'[t].step = "recheck" /\ asker'[t].obj = o
      /\ \A u \in Askers \ {t} : asker'[u] = asker[u]
      /\ asker' \in [Askers -> [step : Steps, obj : Objects \cup {"none"}, inst : Int]]
  BY <1>1, <1>3, <1>4, Moves
<1>6. /\ holder'[o] = t /\ \A p \in Objects \ {o} : holder'[p] = holder[p]
      /\ holder' \in [Objects -> Askers \cup {Nobody}]
  BY <1>1, <1>2, <1>3
<1>7. \A u \in Askers : ~Holds(u, o)
  BY <1>1, <1>2, AskersAssumption DEF LazyIInv, Locks
<1> HIDE DEF o
<1>a. Shapes'
  BY <1>1, <1>3, <1>5, <1>6 DEF Shapes
<1>b. Counted'
  BY <1>1 DEF LazyIInv, Counted
<1>c. InHand'
  BY <1>1, <1>2, <1>5 DEF LazyIInv, InHand
<1>d. Locks'
  <2> SUFFICES ASSUME NEW u \in Askers, NEW p \in Objects
               PROVE  holder'[p] = u <=> Holds(u, p)'
    BY DEF Locks
  <2>1. holder[p] = u <=> Holds(u, p)
    BY DEF LazyIInv, Locks
  <2>2. CASE u = t
    BY <1>1, <1>2, <1>5, <1>6, <2>1, <2>2 DEF Holds, o
  <2>3. CASE u # t
    BY <1>1, <1>2, <1>5, <1>6, <1>7, <2>1, <2>3 DEF Holds
  <2>4. QED
    BY <2>2, <2>3
<1>e. Single'
  BY <1>1, <1>5 DEF LazyIInv, Single
<1>f. WarmOnce'
  BY <1>1, <1>5 DEF LazyIInv, WarmOnce
<1>g. QED
  BY <1>a, <1>b, <1>c, <1>d, <1>e, <1>f DEF LazyIInv

LEMMA RecheckKeeps ==
    ASSUME LazyIInv, NEW t \in Askers, Recheck(t)
    PROVE  LazyIInv'
<1> DEFINE o == asker[t].obj
<1>1. /\ asker[t].step = "recheck"
      /\ UNCHANGED <<global, made, ready, used, warm, sessions>>
  BY DEF Recheck
<1>2. o \in Objects /\ o \notin Unlocked /\ Shapes /\ Locks
  BY <1>1 DEF LazyIInv, InHand
<1>3. holder[o] = t
  BY <1>1, <1>2 DEF Locks, Holds
<1>4. \/ global[o] # 0 /\ GoTo(t, "use") /\ holder' = Released(t, o)
      \/ global[o] = 0 /\ GoTo(t, "make") /\ holder' = holder
  BY DEF Recheck
<1>5. "use" \in Steps /\ "make" \in Steps
  BY DEF Steps
<1>6. /\ asker'[t].step \in {"use", "make"} /\ asker'[t].obj = o
      /\ asker'[t].step = "use" <=> global[o] # 0
      /\ \A u \in Askers \ {t} : asker'[u] = asker[u]
      /\ asker' \in [Askers -> [step : Steps, obj : Objects \cup {"none"}, inst : Int]]
  BY <1>2, <1>4, <1>5, Moves
<1>7. /\ \A p \in Objects \ {o} : holder'[p] = holder[p]
      /\ holder'[o] = IF global[o] # 0 THEN Nobody ELSE t
      /\ holder' \in [Objects -> Askers \cup {Nobody}]
  BY <1>2, <1>3, <1>4, Releases DEF Shapes
<1>8. \A u \in Askers \ {t} : ~Holds(u, o)
  BY <1>2, <1>3 DEF Locks
<1> HIDE DEF o
<1>a. Shapes'
  BY <1>1, <1>2, <1>6, <1>7 DEF Shapes
<1>b. Counted'
  BY <1>1 DEF LazyIInv, Counted
<1>c. InHand'
  BY <1>1, <1>2, <1>6 DEF LazyIInv, InHand
<1>d. Locks'
  <2> SUFFICES ASSUME NEW u \in Askers, NEW p \in Objects
               PROVE  holder'[p] = u <=> Holds(u, p)'
    BY DEF Locks
  <2>1. holder[p] = u <=> Holds(u, p)
    BY <1>2 DEF Locks
  <2>2. CASE u = t
    BY <1>1, <1>2, <1>6, <1>7, <2>1, <2>2, AskersAssumption DEF Holds, o
  <2>3. CASE u # t
    BY <1>2, <1>6, <1>7, <1>8, <2>1, <2>3, AskersAssumption DEF Holds
  <2>4. QED
    BY <2>2, <2>3
<1>e. Single'
  BY <1>1, <1>2, <1>6 DEF LazyIInv, Single
<1>f. WarmOnce'
  BY <1>1, <1>6 DEF LazyIInv, WarmOnce
<1>g. QED
  BY <1>a, <1>b, <1>c, <1>d, <1>e, <1>f DEF LazyIInv

\* A thread that stays among the steps under a lock holds what it held.
LEMMA SameHolds ==
    ASSUME Locks, NEW t \in Askers, holder' = holder,
           asker'[t].obj = asker[t].obj,
           asker[t].step \in {"recheck", "make", "setup", "publish"},
           asker'[t].step \in {"recheck", "make", "setup", "publish"},
           \A u \in Askers \ {t} : asker'[u] = asker[u]
    PROVE  Locks'
<1> SUFFICES ASSUME NEW u \in Askers, NEW p \in Objects
             PROVE  holder'[p] = u <=> Holds(u, p)'
  BY DEF Locks
<1>1. holder[p] = u <=> Holds(u, p)
  BY DEF Locks
<1>2. CASE u = t
  BY <1>1, <1>2 DEF Holds
<1>3. CASE u # t
  BY <1>1, <1>3 DEF Holds
<1>4. QED
  BY <1>2, <1>3

\* A thread that leaves those steps has released the lock it had.
LEMMA ReleasedHolds ==
    ASSUME Shapes, Locks, NEW t \in Askers, holder' = Released(t, asker[t].obj),
           asker[t].obj \in Objects,
           asker[t].step \in {"recheck", "make", "setup", "publish"},
           asker'[t].step \notin {"recheck", "make", "setup", "publish"},
           \A u \in Askers \ {t} : asker'[u] = asker[u]
    PROVE  Locks'
<1> DEFINE o == asker[t].obj
<1> SUFFICES ASSUME NEW u \in Askers, NEW p \in Objects
             PROVE  holder'[p] = u <=> Holds(u, p)'
  BY DEF Locks
<1>1. holder[p] = u <=> Holds(u, p)
  BY DEF Locks
<1>2. /\ \A q \in Objects \ {o} : holder'[q] = holder[q]
      /\ holder'[o] = IF holder[o] = t THEN Nobody ELSE holder[o]
  BY Releases
<1>3. holder[p] = t => p = o
  BY DEF Locks, Holds
<1>4. CASE u = t
  BY <1>2, <1>3, <1>4, AskersAssumption DEF Holds
<1>5. CASE u # t
  <2>1. Holds(u, p)' <=> Holds(u, p)
    BY <1>5 DEF Holds
  <2>2. holder'[p] = u <=> holder[p] = u
    BY <1>2, <1>5, AskersAssumption
  <2>3. QED
    BY <1>1, <2>1, <2>2
<1>6. QED
  BY <1>4, <1>5

LEMMA MakeKeeps ==
    ASSUME LazyIInv, NEW t \in Askers, Make(t)
    PROVE  LazyIInv'
<1> DEFINE o == asker[t].obj
           n == made[o] + 1
<1>1. /\ asker[t].step = "make" /\ made[o] < MaxMade
      /\ made' = [made EXCEPT ![o] = @ + 1]
      /\ asker' = [asker EXCEPT ![t].step = "setup", ![t].inst = n]
      /\ UNCHANGED <<global, holder, ready, used, warm, sessions>>
  BY DEF Make
<1>2. o \in Objects /\ Shapes /\ Locks
  BY <1>1 DEF LazyIInv, InHand
<1>3. n \in Int /\ "setup" \in Steps
  BY <1>2 DEF Shapes, Steps
<1>4. /\ asker'[t].step = "setup" /\ asker'[t].obj = o /\ asker'[t].inst = n
      /\ \A u \in Askers \ {t} : asker'[u] = asker[u]
      /\ asker' \in [Askers -> [step : Steps, obj : Objects \cup {"none"}, inst : Int]]
  <2> DEFINE a == [asker[t] EXCEPT !.step = "setup", !.inst = n]
  <2>1. asker \in [Askers -> [step : Steps, obj : Objects \cup {"none"}, inst : Int]]
    BY <1>2 DEF Shapes
  <2>2. asker[t] \in [step : Steps, obj : Objects \cup {"none"}, inst : Int]
    BY <2>1
  <2> HIDE DEF n
  <2>3. /\ a \in [step : Steps, obj : Objects \cup {"none"}, inst : Int]
        /\ a.step = "setup" /\ a.obj = asker[t].obj /\ a.inst = n
    BY <1>3, <2>2
  <2>4. asker' = [asker EXCEPT ![t] = a]
    BY <1>1
  <2> HIDE DEF a
  <2>5. QED
    BY <2>1, <2>3, <2>4
<1>5. /\ made' \in [Objects -> Int] /\ made'[o] = n
      /\ \A p \in Objects \ {o} : made'[p] = made[p]
  BY <1>1, <1>2, <1>3 DEF Shapes
<1>6. made[o] \in Int /\ 0 <= made[o] /\ made[o] < MaxMade /\ MaxMade \in Nat
  BY <1>1, <1>2, MadeAssumption DEF LazyIInv, Counted, Shapes
<1>a. Shapes'
  BY <1>1, <1>2, <1>4, <1>5 DEF Shapes
<1>b. Counted'
  <2> SUFFICES ASSUME NEW p \in Objects
      PROVE /\ 0 <= made'[p] /\ made'[p] <= MaxMade
            /\ \A m \in ready[p] : 1 <= m /\ m <= made'[p]
    BY <1>1 DEF LazyIInv, Counted
  <2>1. /\ 0 <= made[p] /\ made[p] <= MaxMade
        /\ \A m \in ready[p] : m \in Int /\ 1 <= m /\ m <= made[p]
    BY <1>2 DEF LazyIInv, Counted, Shapes
  <2>2. CASE p = o
    BY <1>5, <1>6, <2>1, <2>2
  <2>3. CASE p # o
    BY <1>5, <2>1, <2>3
  <2>4. QED
    BY <2>2, <2>3
<1>c. InHand'
  <2> SUFFICES ASSUME NEW u \in Askers
      PROVE /\ asker'[u].step \notin {"idle", "launch"} => asker'[u].obj \in Objects
            /\ asker'[u].step \in {"lock", "recheck"} => asker'[u].obj \notin Unlocked
            /\ asker'[u].step = "setup" => /\ 1 <= asker'[u].inst
                                           /\ asker'[u].inst <= made'[asker'[u].obj]
            /\ asker'[u].step = "publish" => asker'[u].inst \in ready[asker'[u].obj]
            /\ asker'[u].step = "use" => global[asker'[u].obj] # 0
    BY <1>1 DEF InHand
  <2>1. CASE u = t
    BY <1>2, <1>4, <1>5, <1>6, <2>1
  <2>2. CASE u # t
    <3>1. asker'[u] = asker[u] /\ asker[u].inst \in Int
      BY <1>2, <1>4, <2>2 DEF Shapes
    <3>2. asker[u].step = "setup" => asker[u].inst <= made'[asker[u].obj]
      <4>1. CASE asker[u].step = "setup"
        <5>1. asker[u].obj \in Objects /\ asker[u].inst <= made[asker[u].obj]
          BY <4>1 DEF LazyIInv, InHand
        <5>2. CASE asker[u].obj = o
          BY <1>5, <1>6, <3>1, <5>1, <5>2
        <5>3. CASE asker[u].obj # o
          BY <1>5, <5>1, <5>3
        <5>4. QED
          BY <5>2, <5>3
      <4>2. QED
        BY <4>1
    <3>3. QED
      BY <3>1, <3>2 DEF LazyIInv, InHand
  <2>3. QED
    BY <2>1, <2>2
<1>d. Locks'
  BY <1>1, <1>2, <1>4, SameHolds
<1>e. Single'
  BY <1>1, <1>4 DEF LazyIInv, Single
<1>f. WarmOnce'
  BY <1>1, <1>4 DEF LazyIInv, WarmOnce
<1>g. QED
  BY <1>a, <1>b, <1>c, <1>d, <1>e, <1>f DEF LazyIInv

LEMMA SetUpKeeps ==
    ASSUME LazyIInv, NEW t \in Askers, SetUp(t)
    PROVE  LazyIInv'
<1> DEFINE o == asker[t].obj
<1>1. /\ asker[t].step = "setup"
      /\ ready' = [ready EXCEPT ![o] = @ \cup {asker[t].inst}]
      /\ GoTo(t, "publish")
      /\ UNCHANGED <<global, holder, made, used, warm, sessions>>
  BY DEF SetUp
<1>2. o \in Objects /\ Shapes /\ Locks
  BY <1>1 DEF LazyIInv, InHand
<1>3. "publish" \in Steps
  BY DEF Steps
<1>4. /\ asker'[t].step = "publish" /\ asker'[t].obj = o /\ asker'[t].inst = asker[t].inst
      /\ \A u \in Askers \ {t} : asker'[u] = asker[u]
      /\ asker' \in [Askers -> [step : Steps, obj : Objects \cup {"none"}, inst : Int]]
  BY <1>1, <1>2, <1>3, Moves
<1>5. asker[t].inst \in Int /\ 1 <= asker[t].inst /\ asker[t].inst <= made[o]
  BY <1>1, <1>2 DEF LazyIInv, InHand, Shapes
<1>6. /\ ready' \in [Objects -> SUBSET Int]
      /\ ready'[o] = ready[o] \cup {asker[t].inst}
      /\ \A p \in Objects \ {o} : ready'[p] = ready[p]
  BY <1>1, <1>2, <1>5 DEF Shapes
<1>7. \A p \in Objects : ready[p] \subseteq ready'[p]
  BY <1>6
<1>a. Shapes'
  BY <1>1, <1>2, <1>4, <1>6 DEF Shapes
<1>b. Counted'
  BY <1>1, <1>5, <1>6, <1>7 DEF LazyIInv, Counted
<1>c. InHand'
  BY <1>1, <1>2, <1>4, <1>6, <1>7 DEF LazyIInv, InHand
<1>d. Locks'
  BY <1>1, <1>2, <1>4, SameHolds
<1>e. Single'
  BY <1>1, <1>4 DEF LazyIInv, Single
<1>f. WarmOnce'
  BY <1>1, <1>4 DEF LazyIInv, WarmOnce
<1>g. QED
  BY <1>a, <1>b, <1>c, <1>d, <1>e, <1>f DEF LazyIInv

LEMMA FailsKeeps ==
    ASSUME LazyIInv, NEW t \in Askers, Fails(t)
    PROVE  LazyIInv'
<1> DEFINE o == asker[t].obj
<1>1. /\ asker[t].step \in {"make", "setup"}
      /\ holder' = Released(t, o)
      /\ asker' = [asker EXCEPT ![t] = AtRest]
      /\ UNCHANGED <<global, made, ready, used, warm, sessions>>
  BY DEF Fails
<1>2. o \in Objects /\ Shapes /\ Locks
  BY <1>1 DEF LazyIInv, InHand
<1>3. /\ asker'[t].step = "idle"
      /\ \A u \in Askers \ {t} : asker'[u] = asker[u]
      /\ asker' \in [Askers -> [step : Steps, obj : Objects \cup {"none"}, inst : Int]]
  BY <1>1, <1>2, Rests DEF AtRest
<1>4. holder' \in [Objects -> Askers \cup {Nobody}]
  BY <1>1, <1>2, Releases
<1>a. Shapes'
  BY <1>1, <1>2, <1>3, <1>4 DEF Shapes
<1>b. Counted'
  BY <1>1 DEF LazyIInv, Counted
<1>c. InHand'
  BY <1>1, <1>3 DEF LazyIInv, InHand
<1>d. Locks'
  BY <1>1, <1>2, <1>3, ReleasedHolds
<1>e. Single'
  BY <1>1, <1>3 DEF LazyIInv, Single
<1>f. WarmOnce'
  BY <1>1, <1>3 DEF LazyIInv, WarmOnce
<1>g. QED
  BY <1>a, <1>b, <1>c, <1>d, <1>e, <1>f DEF LazyIInv

LEMMA PublishKeeps ==
    ASSUME LazyIInv, NEW t \in Askers, Publish(t)
    PROVE  LazyIInv'
<1> DEFINE o == asker[t].obj
           n == asker[t].inst
<1>1. /\ asker[t].step = "publish"
      /\ global' = [global EXCEPT ![o] = n]
      /\ holder' = Released(t, o)
      /\ GoTo(t, "use")
      /\ UNCHANGED <<made, ready, used, warm, sessions>>
  BY DEF Publish
<1>2. o \in Objects /\ Shapes /\ Locks
  BY <1>1 DEF LazyIInv, InHand
<1>3. n \in Int /\ n \in ready[o] /\ n # 0
  BY <1>1, <1>2 DEF LazyIInv, InHand, Shapes, Counted
<1>4. "use" \in Steps
  BY DEF Steps
<1>5. /\ asker'[t].step = "use" /\ asker'[t].obj = o
      /\ \A u \in Askers \ {t} : asker'[u] = asker[u]
      /\ asker' \in [Askers -> [step : Steps, obj : Objects \cup {"none"}, inst : Int]]
  BY <1>1, <1>2, <1>4, Moves
<1>6. /\ global' \in [Objects -> Int] /\ global'[o] = n
      /\ \A p \in Objects \ {o} : global'[p] = global[p]
  BY <1>1, <1>2, <1>3 DEF Shapes
<1>7. holder' \in [Objects -> Askers \cup {Nobody}]
  BY <1>1, <1>2, Releases
<1>8. o \notin Unlocked => \A u \in Askers \ {t} : ~Holds(u, o)
  BY <1>1, <1>2 DEF Locks, Holds
<1>9. o \notin Unlocked => used[o] = {}
  BY <1>1, <1>2 DEF LazyIInv, Single
<1> HIDE DEF o, n
<1>a. Shapes'
  BY <1>1, <1>2, <1>5, <1>6, <1>7 DEF Shapes
<1>b. Counted'
  BY <1>1, <1>2, <1>3, <1>6 DEF LazyIInv, Counted
<1>c. InHand'
  BY <1>1, <1>2, <1>3, <1>5, <1>6 DEF LazyIInv, InHand
<1>d. Locks'
  BY <1>1, <1>2, <1>5, ReleasedHolds DEF o
<1>e. Single'
  <2>1. ASSUME NEW u \in Askers, asker'[u].step \in {"make", "setup", "publish"},
               asker'[u].obj \notin Unlocked
        PROVE  global'[asker'[u].obj] = 0
    <3>1. u # t /\ asker'[u] = asker[u]
      BY <1>5, <2>1
    <3>2. asker[u].obj \in Objects /\ global[asker[u].obj] = 0
      BY <2>1, <3>1 DEF LazyIInv, Single, InHand
    <3>3. asker[u].obj # o
      BY <1>8, <2>1, <3>1 DEF Holds
    <3>4. QED
      BY <1>6, <3>1, <3>2, <3>3
  <2>2. ASSUME NEW p \in Objects \ Unlocked, NEW m \in used'[p]
        PROVE  m = global'[p] /\ m # 0
    <3>1. used'[p] = used[p]
      BY <1>1
    <3>2. p # o
      BY <1>9, <2>2, <3>1
    <3>3. QED
      BY <1>6, <2>2, <3>1, <3>2 DEF LazyIInv, Single
  <2>3. QED
    BY <2>1, <2>2 DEF Single
<1>f. WarmOnce'
  BY <1>1, <1>5 DEF LazyIInv, WarmOnce
<1>g. QED
  BY <1>a, <1>b, <1>c, <1>d, <1>e, <1>f DEF LazyIInv

\* A thread that is outside of the steps under a lock, before and after, holds
\* none.
LEMMA OutsideHolds ==
    ASSUME Locks, NEW t \in Askers, holder' = holder,
           asker[t].step \notin {"recheck", "make", "setup", "publish"},
           asker'[t].step \notin {"recheck", "make", "setup", "publish"},
           \A u \in Askers \ {t} : asker'[u] = asker[u]
    PROVE  Locks'
<1> SUFFICES ASSUME NEW u \in Askers, NEW p \in Objects
             PROVE  holder'[p] = u <=> Holds(u, p)'
  BY DEF Locks
<1>1. holder[p] = u <=> Holds(u, p)
  BY DEF Locks
<1>2. CASE u = t
  BY <1>1, <1>2 DEF Holds
<1>3. CASE u # t
  BY <1>1, <1>3 DEF Holds
<1>4. QED
  BY <1>2, <1>3

LEMMA UseKeeps ==
    ASSUME LazyIInv, NEW t \in Askers, Use(t)
    PROVE  LazyIInv'
<1> DEFINE o == asker[t].obj
<1>1. /\ asker[t].step = "use"
      /\ used' = [used EXCEPT ![o] = @ \cup {global[o]}]
      /\ asker' = [asker EXCEPT ![t] = AtRest]
      /\ UNCHANGED <<global, holder, made, ready, warm, sessions>>
  BY DEF Use
<1>2. o \in Objects /\ Shapes /\ Locks /\ global[o] # 0
  BY <1>1 DEF LazyIInv, InHand
<1>3. /\ asker'[t].step = "idle"
      /\ \A u \in Askers \ {t} : asker'[u] = asker[u]
      /\ asker' \in [Askers -> [step : Steps, obj : Objects \cup {"none"}, inst : Int]]
  BY <1>1, <1>2, Rests DEF AtRest
<1>4. /\ used' \in [Objects -> SUBSET Int]
      /\ used'[o] = used[o] \cup {global[o]}
      /\ \A p \in Objects \ {o} : used'[p] = used[p]
  BY <1>1, <1>2 DEF Shapes
<1>5. global[o] \in ready[o]
  BY <1>2 DEF LazyIInv, Counted
<1> HIDE DEF o
<1>a. Shapes'
  BY <1>1, <1>2, <1>3, <1>4 DEF Shapes
<1>b. Counted'
  BY <1>1, <1>4, <1>5 DEF LazyIInv, Counted
<1>c. InHand'
  BY <1>1, <1>3 DEF LazyIInv, InHand
<1>d. Locks'
  BY <1>1, <1>2, <1>3, OutsideHolds
<1>e. Single'
  BY <1>1, <1>2, <1>3, <1>4 DEF LazyIInv, Single
<1>f. WarmOnce'
  BY <1>1, <1>3 DEF LazyIInv, WarmOnce
<1>g. QED
  BY <1>a, <1>b, <1>c, <1>d, <1>e, <1>f DEF LazyIInv

LEMMA ClaimWarmKeeps ==
    ASSUME LazyIInv, NEW t \in Askers, ClaimWarm(t)
    PROVE  LazyIInv'
<1>1. /\ asker[t].step = "idle"
      /\ UNCHANGED <<global, holder, made, ready, used>>
      /\ \/ UNCHANGED <<asker, warm>>
         \/ ~warm.flag /\ GoTo(t, "launch") /\ warm' = [warm EXCEPT !.flag = TRUE]
  BY DEF ClaimWarm
<1>2. CASE UNCHANGED <<asker, warm>>
  BY <1>1, <1>2 DEF LazyIInv, Shapes, Counted, InHand, Locks, Holds, Single, WarmOnce
<1>3. CASE ~warm.flag /\ GoTo(t, "launch") /\ warm' = [warm EXCEPT !.flag = TRUE]
  <2>1. Shapes /\ Locks /\ "launch" \in Steps
    BY DEF LazyIInv, Steps
  <2>2. /\ asker'[t].step = "launch"
        /\ \A u \in Askers \ {t} : asker'[u] = asker[u]
        /\ asker' \in [Askers -> [step : Steps, obj : Objects \cup {"none"}, inst : Int]]
    BY <1>3, <2>1, Moves
  <2>3. warm'.flag /\ warm'.launched = warm.launched
        /\ warm' \in [flag : BOOLEAN, launched : Int]
    BY <1>3, <2>1 DEF Shapes
  <2>a. Shapes'
    BY <1>1, <2>1, <2>2, <2>3 DEF Shapes
  <2>b. Counted'
    BY <1>1 DEF LazyIInv, Counted
  <2>c. InHand'
    BY <1>1, <2>2 DEF LazyIInv, InHand
  <2>d. Locks'
    BY <1>1, <2>1, <2>2, OutsideHolds
  <2>e. Single'
    BY <1>1, <2>2 DEF LazyIInv, Single
  <2>f. WarmOnce'
    BY <1>3, <2>2, <2>3 DEF LazyIInv, WarmOnce
  <2>g. QED
    BY <2>a, <2>b, <2>c, <2>d, <2>e, <2>f DEF LazyIInv
<1>4. QED
  BY <1>1, <1>2, <1>3

LEMMA LaunchKeeps ==
    ASSUME LazyIInv, NEW t \in Askers, Launch(t)
    PROVE  LazyIInv'
<1>1. /\ asker[t].step = "launch"
      /\ warm' = [warm EXCEPT !.launched = @ + 1]
      /\ GoTo(t, "idle")
      /\ UNCHANGED <<global, holder, made, ready, used, sessions>>
  BY DEF Launch
<1>2. Shapes /\ Locks /\ "idle" \in Steps
  BY DEF LazyIInv, Steps
<1>3. /\ asker'[t].step = "idle"
      /\ \A u \in Askers \ {t} : asker'[u] = asker[u]
      /\ asker' \in [Askers -> [step : Steps, obj : Objects \cup {"none"}, inst : Int]]
  BY <1>1, <1>2, Moves
<1>4. warm.flag /\ warm.launched = 0
  BY <1>1 DEF LazyIInv, WarmOnce
<1>5. warm'.flag = warm.flag /\ warm'.launched = 1
      /\ warm' \in [flag : BOOLEAN, launched : Int]
  <2>1. warm \in [flag : BOOLEAN, launched : Int] /\ warm.launched + 1 = 1
    BY <1>2, <1>4 DEF Shapes
  <2>2. warm' = [warm EXCEPT !.launched = 1]
    BY <1>1, <2>1
  <2>3. QED
    BY <2>1, <2>2
<1>6. \A u \in Askers : asker'[u].step # "launch"
  BY <1>1, <1>3 DEF LazyIInv, WarmOnce
<1>a. Shapes'
  BY <1>1, <1>2, <1>3, <1>5 DEF Shapes
<1>b. Counted'
  BY <1>1 DEF LazyIInv, Counted
<1>c. InHand'
  BY <1>1, <1>3 DEF LazyIInv, InHand
<1>d. Locks'
  BY <1>1, <1>2, <1>3, OutsideHolds
<1>e. Single'
  BY <1>1, <1>3 DEF LazyIInv, Single
<1>f. WarmOnce'
  BY <1>4, <1>5, <1>6 DEF WarmOnce
<1>g. QED
  BY <1>a, <1>b, <1>c, <1>d, <1>e, <1>f DEF LazyIInv

LEMMA LazyStep == LazyIInv /\ [LazyNext]_lazyVars => LazyIInv'
<1> SUFFICES ASSUME LazyIInv, [LazyNext]_lazyVars PROVE LazyIInv'
  OBVIOUS
<1>1. CASE UNCHANGED lazyVars
  BY <1>1 DEF lazyVars, LazyIInv, Shapes, Counted, InHand, Locks, Holds, Single, WarmOnce
<1>2. ASSUME NEW t \in Askers, AskerStep(t) PROVE LazyIInv'
  BY <1>2, RecheckKeeps, MakeKeeps, SetUpKeeps, FailsKeeps, PublishKeeps, UseKeeps,
     LaunchKeeps DEF AskerStep
<1>3. QED
  BY <1>1, <1>2, AskKeeps, LockKeeps, ClaimWarmKeeps DEF LazyNext

LEMMA LazyAlways == LazySpec => []LazyIInv
BY LazyStarts, LazyStep, PTL DEF LazySpec

\* Every variable has its type and every lock belongs to the thread that is
\* between its steps; one warm-up thread is launched at most.
THEOREM LazyTypeCorrect == LazySpec => []LazyTypeOK
<1>1. LazyIInv => LazyTypeOK
  <2> SUFFICES ASSUME LazyIInv PROVE LazyTypeOK
    OBVIOUS
  <2>1. ASSUME NEW o \in Objects
        PROVE /\ made[o] \in 0 .. MaxMade
              /\ global[o] \in 0 .. made[o]
              /\ ready[o] \subseteq 1 .. made[o]
              /\ holder[o] \in Askers \cup {Nobody}
    <3>1. /\ made[o] \in Int /\ global[o] \in Int /\ ready[o] \subseteq Int
          /\ holder[o] \in Askers \cup {Nobody} /\ MaxMade \in Nat
      BY MadeAssumption DEF LazyIInv, Shapes
    <3>2. /\ 0 <= made[o] /\ made[o] <= MaxMade
          /\ \A n \in ready[o] : 1 <= n /\ n <= made[o]
          /\ global[o] # 0 => global[o] \in ready[o]
      BY DEF LazyIInv, Counted
    <3>3. QED
      BY <3>1, <3>2
  <2>2. \A t \in Askers : asker[t].step \in Steps
    BY DEF LazyIInv, Shapes
  <2>3. warm.launched \in 0 .. 1
    <3>1. warm \in [flag : BOOLEAN, launched : Int]
      BY DEF LazyIInv, Shapes
    <3>2. 0 <= warm.launched /\ warm.launched <= 1
      BY DEF LazyIInv, WarmOnce
    <3>3. QED
      BY <3>1, <3>2
  <2>4. \A t \in Askers, o \in Objects : holder[o] = t <=> Holds(t, o)
    BY DEF LazyIInv, Locks
  <2>5. QED
    BY <2>1, <2>2, <2>3, <2>4 DEF LazyTypeOK, Steps, Holds
<1>2. QED
  BY <1>1, LazyAlways, PTL

\* However many threads ask first, and however many constructions fail, those
\* who get an object with a lock get one and the same.
THEOREM LockedObjectsAreOne == LazySpec => []OneInstance
<1>1. LazyIInv => OneInstance
  <2> SUFFICES ASSUME LazyIInv, NEW o \in Objects \ Unlocked
               PROVE  Cardinality(used[o]) <= 1
    BY DEF OneInstance
  <2>1. used[o] \subseteq {global[o]}
    BY DEF LazyIInv, Single
  <2>2. IsFiniteSet({global[o]}) /\ Cardinality({global[o]}) = 1
    BY FS_Singleton
  <2>3. /\ Cardinality(used[o]) <= Cardinality({global[o]})
        /\ Cardinality(used[o]) \in Nat
    BY <2>1, <2>2, FS_Subset, FS_CardinalityType
  <2>4. QED
    BY <2>2, <2>3
<1>2. QED
  BY <1>1, LazyAlways, PTL

\* With a lock or without, nobody gets an instance that is not set up.
THEOREM ObjectsAreReady == LazySpec => []UsedWhenReady
<1>1. LazyIInv => UsedWhenReady
  BY DEF LazyIInv, Counted, UsedWhenReady
<1>2. QED
  BY <1>1, LazyAlways, PTL

=============================================================================
