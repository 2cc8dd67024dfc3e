--------------------------- MODULE PipelinesProofs --------------------------
(***************************************************************************)
(* Proofs about Pipelines, for any files, layouts, pools, variants and any *)
(* number of transactions: what a query returns was committed while it     *)
(* ran, is at most k parents and none twice, a second pass loses nothing,  *)
(* and a search that no transaction comes into is exact.                   *)
(***************************************************************************)
EXTENDS Pipelines, SequenceTheorems, FiniteSetTheorems, WellFoundedInduction, TLAPS

\* Sets of ids that come to an end.
Bounded(S) == S \subseteq Nat /\ \E b \in Nat : \A n \in S : n <= b

Listed(s) == Len(s) \in Nat /\ DOMAIN s = 1 .. Len(s)

Apart(results) == \A i, j \in DOMAIN results : results[i].id = results[j].id => i = j

Committed(results, rows) ==
    \A i \in DOMAIN results : /\ <<results[i].id, results[i].head>> \in rows
                              /\ <<results[i].id, results[i].text>> \in rows

Numbers ==
    /\ Bounded(DOMAIN db.chunks)
    /\ Bounded(ids) /\ Bounded(legIds)
    /\ call \in [kind : {"none", "explicit", "ambient"}, k : Nat, top : Nat, pass : Nat]

\* What the steps of a pass hand on is a list, without repetitions once the
\* chunks have been replaced by their parents and until a service repeats one.
Lists ==
    /\ IsFiniteSet(found)
    /\ Listed(ranked)
    /\ Listed(owners) /\ IsInjective(owners)
    /\ Listed(parents) /\ Listed(first)
    /\ obeyed => Apart(parents) /\ Apart(first)

Short ==
    obeyed => /\ Len(first) <= call.k
              /\ pc \in {"gate", "rehydrate"} => Len(parents) <= call.k

\* Nothing a query works with is older than itself.
Recent ==
    pc # "idle" => /\ RowsOf(db) \subseteq during
                   /\ Committed(parents, during)
                   /\ Committed(first, during)

Answers ==
    Answered => /\ obeyed => Len(Results) <= call.k /\ Apart(Results)
                /\ Committed(Results, during)
                /\ first # <<>> => Results # <<>>

QueryIInv == Numbers /\ Lists /\ Short /\ Recent /\ Answers

-----------------------------------------------------------------------------
(* Ids, lists and the orders that rankers choose *)

LEMMA BoundedIsFinite == ASSUME NEW S, Bounded(S) PROVE IsFiniteSet(S)
BY FS_BoundedSetOfNaturals DEF Bounded

\* A bounded set of ids has a last one.
LEMMA LastIdBounds ==
    ASSUME NEW S, Bounded(S)
    PROVE  LastId(S) \in Nat /\ \A other \in S : other <= LastId(S)
<1> DEFINE bounds == {n \in Nat : \A k \in S : k <= n}
<1>1. bounds \subseteq Nat /\ bounds # {} /\ S \subseteq Nat
  BY DEF Bounded
<1>2. IsWellFoundedOn(OpToRel(<, Nat), Nat)
  BY NatLessThanWellFounded
<1>3. PICK m \in bounds : \A y \in bounds : ~(<<y, m>> \in OpToRel(<, Nat))
  BY <1>1, <1>2, WFMin
<1>4. \A y \in bounds : ~(y < m)
  BY <1>3 DEF OpToRel
<1>5. m \in S \cup {0}
  <2>1. CASE m # 0
    <3>1. m - 1 \in Nat /\ m - 1 < m
      BY <2>1
    <3>2. m - 1 \notin bounds
      BY <1>4, <3>1
    <3>3. PICK k \in S : ~(k <= m - 1)
      BY <3>1, <3>2
    <3>4. k = m
      BY <1>1, <3>3
    <3>5. QED
      BY <3>3, <3>4
  <2>2. QED
    BY <2>1
<1>6. \E id \in S \cup {0} : \A other \in S : other <= id
  BY <1>5
<1>7. LastId(S) \in S \cup {0} /\ \A other \in S : other <= LastId(S)
  BY <1>6 DEF LastId
<1>8. S \cup {0} \subseteq Nat
  BY <1>1
<1>9. QED
  BY <1>7, <1>8

LEMMA LastIdExists == ASSUME NEW S, Bounded(S) PROVE LastId(S) \in Nat
BY LastIdBounds

LEMMA OrderIsList ==
    ASSUME NEW S, IsFiniteSet(S), NEW order \in SetToSeqs(S)
    PROVE  /\ Listed(order) /\ IsInjective(order) /\ Len(order) = Cardinality(S)
           /\ \A i \in DOMAIN order : order[i] \in S
<1>1. Cardinality(S) \in Nat
  BY FS_CardinalityType
<1>2. /\ order \in [1 .. Cardinality(S) -> S]
      /\ \A i, j \in 1 .. Cardinality(S) : i # j => order[i] # order[j]
  BY DEF SetToSeqs
<1>3. Len(order) = Cardinality(S)
  BY <1>1, <1>2
<1>4. QED
  BY <1>1, <1>2, <1>3 DEF Listed, IsInjective

LEMMA TakeIsList ==
    ASSUME NEW s, Listed(s), NEW n \in Nat
    PROVE  /\ Listed(Take(s, n)) /\ Len(Take(s, n)) = AtMost(n, Len(s))
           /\ \A i \in DOMAIN Take(s, n) : i \in DOMAIN s /\ Take(s, n)[i] = s[i]
<1> DEFINE m == AtMost(n, Len(s))
<1>1. m \in Nat /\ m <= Len(s) /\ Len(s) \in Nat /\ DOMAIN s = 1 .. Len(s)
  BY DEF Listed, AtMost
<1> HIDE DEF m
<1>2. SubSeq(s, 1, m) = [i \in 1 .. m |-> s[i]]
  BY <1>1
<1>3. Len([i \in 1 .. m |-> s[i]]) = m
  BY <1>1
<1>4. Take(s, n) = [i \in 1 .. m |-> s[i]]
  BY <1>2 DEF Take, m
<1>5. \A i \in 1 .. m : i \in 1 .. Len(s)
  BY <1>1
<1>6. QED
  BY <1>1, <1>3, <1>4, <1>5 DEF Listed, m

LEMMA EmptyList == Listed(<<>>) /\ Len(<<>>) = 0 /\ IsInjective(<<>>) /\ Apart(<<>>)
                   /\ \A rows : Committed(<<>>, rows)
BY DEF Listed, IsInjective, Apart, Committed

-----------------------------------------------------------------------------
\* Results a pass may end with.
Good(results) ==
    /\ Listed(results)
    /\ obeyed => Len(results) <= call.k /\ Apart(results)
    /\ Committed(results, during)

\* The answer, or the judge.
LEMMA EndPassKeeps ==
    ASSUME QueryIInv, pc # "idle", NEW results, Good(results), EndPass(results),
           UNCHANGED <<legIds, found, owners, parents, obeyed>>, Listed(ranked')
    PROVE  QueryIInv'
<1>1. /\ UNCHANGED <<db, commits, ids, idsOf, call, during>>
      /\ \/ /\ pc' = "idle" /\ first' = first
            /\ \/ answer' = [status |-> "ok", parents |-> results]
                  /\ (results # <<>> \/ first = <<>>)
               \/ answer' = [status |-> "ok", parents |-> first]
         \/ pc' = "judge" /\ first' = results /\ answer' = answer
  BY DEF EndPass, Finish, indexVars
<1>2. Good(first)
  BY DEF QueryIInv, Lists, Short, Recent, Good
<1>3. /\ Listed(first') /\ Committed(first', during)
      /\ obeyed => Len(first') <= call.k /\ Apart(first')
  BY <1>1, <1>2 DEF Good
<1>a. Numbers'
  BY <1>1 DEF QueryIInv, Numbers
<1>b. Lists'
  BY <1>3 DEF QueryIInv, Lists
<1>c. Short'
  BY <1>1, <1>3 DEF Short
<1>d. Recent'
  <2>1. RowsOf(db)' = RowsOf(db)
    BY <1>1 DEF RowsOf
  <2>2. QED
    BY <1>1, <1>3, <2>1 DEF QueryIInv, Recent
<1>e. Answers'
  <2> SUFFICES ASSUME Answered'
               PROVE  /\ obeyed' => Len(answer'.parents) <= call'.k /\ Apart(answer'.parents)
                      /\ Committed(answer'.parents, during')
                      /\ first' # <<>> => answer'.parents # <<>>
    BY DEF Answers, Results
  <2>1. CASE answer' = [status |-> "ok", parents |-> results]
             /\ (results # <<>> \/ first = <<>>) /\ first' = first
    <3>1. answer'.parents = results
      BY <2>1
    <3>2. QED
      BY <1>1, <2>1, <3>1 DEF Good
  <2>2. CASE answer' = [status |-> "ok", parents |-> first] /\ first' = first
    <3>1. answer'.parents = first
      BY <2>2
    <3>2. QED
      BY <1>1, <1>2, <2>2, <3>1 DEF Good
  <2>3. QED
    BY <1>1, <2>1, <2>2 DEF Answered
<1>f. QED
  BY <1>a, <1>b, <1>c, <1>d, <1>e DEF QueryIInv

LEMMA NothingIsGood == QueryIInv => Good(<<>>)
<1>1. QueryIInv => call.k \in Nat
  BY DEF QueryIInv, Numbers
<1>2. QED
  BY <1>1, EmptyList DEF Good

-----------------------------------------------------------------------------
(* The indexer and the loads *)

LEMMA CommitKeeps ==
    ASSUME QueryIInv, NEW catalog, Bounded(DOMAIN catalog.chunks), Commit(catalog)
    PROVE  QueryIInv'
<1>1. /\ db' = catalog
      /\ during' = IF pc = "idle" THEN during ELSE during \cup RowsOf(catalog)
      /\ UNCHANGED <<ids, idsOf, pc, call, legIds, found, ranked, owners, parents, ranker,
                     first, answer, obeyed>>
  BY DEF Commit, queryVars, searchVars
<1>2. during \subseteq during' /\ RowsOf(db)' = RowsOf(catalog)
  BY <1>1 DEF RowsOf
<1>a. Numbers'
  BY <1>1 DEF QueryIInv, Numbers
<1>b. Lists' /\ Short'
  BY <1>1 DEF QueryIInv, Lists, Short
<1>c. Recent'
  BY <1>1, <1>2 DEF QueryIInv, Recent, Committed
<1>d. Answers'
  <2>1. Committed(Results, during) => Committed(Results, during')
    BY <1>2 DEF Committed
  <2>2. QED
    BY <1>1, <2>1 DEF QueryIInv, Answers, Answered, Results
<1>e. QED
  BY <1>a, <1>b, <1>c, <1>d DEF QueryIInv

LEMMA IndexerKeeps ==
    ASSUME QueryIInv, Environment
    PROVE  QueryIInv'
<1>1. Bounded(DOMAIN db.chunks)
  BY DEF QueryIInv, Numbers
<1>2. ASSUME NEW gone \in SUBSET Files, DeleteFiles(gone)
      PROVE  QueryIInv'
  <2> DEFINE kept == {p \in DOMAIN db.parents : db.parents[p].file \notin gone}
             left == {c \in DOMAIN db.chunks : db.chunks[c] \in kept}
             catalog == [parents |-> Restricted(db.parents, kept),
                         chunks  |-> Restricted(db.chunks, left)]
  <2>1. Commit(catalog)
    BY <1>2 DEF DeleteFiles
  <2>2. DOMAIN catalog.chunks = left /\ left \subseteq DOMAIN db.chunks
    BY DEF Restricted
  <2>3. Bounded(DOMAIN catalog.chunks)
    BY <1>1, <2>2 DEF Bounded
  <2> HIDE DEF catalog
  <2>4. QED
    BY <2>1, <2>3, CommitKeeps
<1>3. ASSUME NEW file \in Files, InsertFile(file)
      PROVE  QueryIInv'
  <2> DEFINE p0  == LastId(DOMAIN db.parents)
             c0  == LastId(DOMAIN db.chunks)
             new == {p0 + Layout[file][i] : i \in DOMAIN Layout[file]}
             end == c0 + Len(Layout[file])
             rows == [p \in DOMAIN db.parents \cup new |->
                         IF p \in new THEN [file |-> file, rev |-> commits, ord |-> p - p0]
                                      ELSE db.parents[p]]
             chunks == [c \in DOMAIN db.chunks \cup (c0 + 1 .. end) |->
                           IF c > c0 THEN p0 + Layout[file][c - c0] ELSE db.chunks[c]]
             catalog == [parents |-> rows, chunks |-> chunks]
  <2>1. Commit(catalog)
    BY <1>3 DEF InsertFile
  <2>2. c0 \in Nat
    BY <1>1, LastIdExists
  <2>3. Len(Layout[file]) \in Nat
    BY LayoutAssumption, LenProperties
  <2>4. end \in Nat
    BY <2>2, <2>3
  <2>5. DOMAIN catalog.chunks = DOMAIN db.chunks \cup (c0 + 1 .. end)
    OBVIOUS
  <2> HIDE DEF catalog, end, c0
  <2>6. PICK b \in Nat : \A n \in DOMAIN db.chunks : n <= b
    BY <1>1 DEF Bounded
  <2>7. DOMAIN catalog.chunks \subseteq Nat
    BY <1>1, <2>2, <2>4, <2>5 DEF Bounded
  <2>8. b + end \in Nat /\ \A n \in DOMAIN catalog.chunks : n <= b + end
    BY <1>1, <2>2, <2>4, <2>5, <2>6 DEF Bounded
  <2>9. Bounded(DOMAIN catalog.chunks)
    BY <2>7, <2>8 DEF Bounded
  <2>10. QED
    BY <2>1, <2>9, CommitKeeps
<1>4. CASE Reload
  <2>1. ids' = DOMAIN db.chunks /\ UNCHANGED <<db, commits, queryVars, clean, during>>
    BY <1>4 DEF Reload
  <2>2. RowsOf(db)' = RowsOf(db)
    BY <2>1 DEF RowsOf
  <2>a. Numbers'
    BY <1>1, <2>1 DEF QueryIInv, Numbers, queryVars, searchVars
  <2>b. Lists' /\ Short'
    BY <2>1 DEF QueryIInv, Lists, Short, queryVars, searchVars
  <2>c. Recent'
    BY <2>1, <2>2 DEF QueryIInv, Recent, queryVars, searchVars
  <2>d. Answers'
    BY <2>1 DEF QueryIInv, Answers, Answered, Results, queryVars, searchVars
  <2>e. QED
    BY <2>a, <2>b, <2>c, <2>d DEF QueryIInv
<1>5. QED
  BY <1>2, <1>3, <1>4 DEF Environment

-----------------------------------------------------------------------------
(* The query *)

\* A pass begins with empty lists.
LEMMA StartKeeps ==
    ASSUME QueryIInv, NEW c, NEW n, StartPass(c, n),
           c \in [kind : {"none", "explicit", "ambient"}, k : Nat, top : Nat, pass : Nat],
           UNCHANGED indexVars,
           \/ first' = <<>> /\ during' = RowsOf(db)
           \/ pc = "judge" /\ c.k = call.k /\ UNCHANGED <<first, obeyed, during>>
    PROVE  QueryIInv'
<1>1. /\ pc' = "search" /\ call' = c /\ legIds' = {} /\ found' = {} /\ ranked' = <<>>
      /\ owners' = <<>> /\ parents' = <<>> /\ UNCHANGED <<db, commits, ids, idsOf>>
  BY DEF StartPass, Locals, indexVars
<1>2. RowsOf(db)' = RowsOf(db)
  BY <1>1 DEF RowsOf
<1>a. Numbers'
  BY <1>1 DEF QueryIInv, Numbers, Bounded
<1>b. Lists'
  BY <1>1, EmptyList, FS_EmptySet DEF QueryIInv, Lists
<1>c. Short'
  <2>1. CASE first' = <<>>
    <3>1. Len(first') <= c.k
      BY <2>1, EmptyList
    <3>2. QED
      BY <1>1, <3>1 DEF Short
  <2>2. CASE UNCHANGED <<first, obeyed>> /\ c.k = call.k
    BY <1>1, <2>2, ZenonT(30) DEF QueryIInv, Short
  <2>3. QED
    BY <2>1, <2>2
<1>d. Recent'
  BY <1>1, <1>2, EmptyList DEF QueryIInv, Recent
<1>e. Answers'
  BY <1>1 DEF Answers, Answered
<1>f. QED
  BY <1>a, <1>b, <1>c, <1>d, <1>e DEF QueryIInv

LEMMA AskKeeps ==
    ASSUME QueryIInv, Ask
    PROVE  QueryIInv'
<1>1. ParentPool \in Nat /\ 1 <= ParentPool /\ TopParents \in Nat
  BY PoolsAssumption
<1>2. CASE AmbientTurn
  <2> DEFINE c == [kind |-> "ambient", k |-> TopParents, top |-> ParentPool, pass |-> 1]
  <2>1. StartPass(c, 1) /\ first' = <<>> /\ during' = RowsOf(db) /\ UNCHANGED indexVars
    BY <1>2 DEF AmbientTurn, NewQuery
  <2>2. c \in [kind : {"none", "explicit", "ambient"}, k : Nat, top : Nat, pass : Nat]
    BY <1>1
  <2> HIDE DEF c
  <2>3. QED
    BY <2>1, <2>2, StartKeeps
<1>3. ASSUME NEW k \in Ks, NEW n \in 1 .. MaxVariants, RagSearch(k, n)
      PROVE  QueryIInv'
  <2> DEFINE c == [kind |-> "explicit", k |-> Clamped(k), top |-> ParentPool, pass |-> 1]
  <2>1. StartPass(c, n) /\ first' = <<>> /\ during' = RowsOf(db) /\ UNCHANGED indexVars
    BY <1>3 DEF RagSearch, NewQuery
  <2>2. Clamped(k) \in Nat
    BY <1>1, KsAssumption DEF Clamped, AtMost
  <2>3. c \in [kind : {"none", "explicit", "ambient"}, k : Nat, top : Nat, pass : Nat]
    BY <1>1, <2>2
  <2> HIDE DEF c
  <2>4. QED
    BY <2>1, <2>3, StartKeeps
<1>4. QED
  BY <1>2, <1>3 DEF Ask

\* A step that goes on to another one.
LEMMA MoveKeeps ==
    ASSUME QueryIInv, pc # "idle", NEW step, Move(step), step # "idle",
           Bounded(legIds'), obeyed' => obeyed,
           Lists', obeyed' /\ step \in {"gate", "rehydrate"} => Len(parents') <= call.k,
           Committed(parents', during)
    PROVE  QueryIInv'
<1>1. pc' = step /\ UNCHANGED <<db, commits, ids, idsOf, call, first, answer, during>>
  BY DEF Move, indexVars
<1>2. RowsOf(db)' = RowsOf(db)
  BY <1>1 DEF RowsOf
<1>a. Numbers'
  BY <1>1 DEF QueryIInv, Numbers
<1>b. Short'
  BY <1>1 DEF QueryIInv, Short
<1>c. Recent'
  BY <1>1, <1>2 DEF QueryIInv, Recent
<1>d. Answers'
  BY <1>1 DEF Answers, Answered
<1>e. QED
  BY <1>a, <1>b, <1>c, <1>d DEF QueryIInv

\* A step that ends the query without parents, or with those of the first pass.
LEMMA FinishKeeps ==
    ASSUME QueryIInv, pc # "idle", NEW status, NEW results, Finish(status, results),
           status # "ok" \/ results = first,
           Forget \/ UNCHANGED <<legIds, found, ranked, owners, parents, obeyed>>
    PROVE  QueryIInv'
<1>1. /\ pc' = "idle" /\ answer' = [status |-> status, parents |-> results]
      /\ UNCHANGED <<db, commits, ids, idsOf, call, first, during>>
  BY DEF Finish, indexVars
<1>2. Good(first)
  BY DEF QueryIInv, Lists, Short, Recent, Good
<1>3. /\ obeyed' = obeyed
      /\ \/ UNCHANGED <<legIds, found, ranked, owners, parents>>
         \/ /\ legIds' = {} /\ found' = {} /\ ranked' = <<>>
            /\ owners' = <<>> /\ parents' = <<>>
  BY DEF Forget, Locals
<1>a. Numbers'
  BY <1>1, <1>3 DEF QueryIInv, Numbers, Bounded
<1>b. Lists' /\ Short'
  BY <1>1, <1>3, EmptyList, FS_EmptySet DEF QueryIInv, Lists, Short
<1>c. Recent'
  BY <1>1 DEF Recent
<1>d. Answers'
  <2> SUFFICES ASSUME Answered'
               PROVE  /\ obeyed' => Len(answer'.parents) <= call'.k /\ Apart(answer'.parents)
                      /\ Committed(answer'.parents, during')
                      /\ first' # <<>> => answer'.parents # <<>>
    BY DEF Answers, Results
  <2>1. answer'.parents = first
    BY <1>1 DEF Answered
  <2>2. QED
    BY <1>1, <1>2, <1>3, <2>1 DEF Good
<1>e. QED
  BY <1>a, <1>b, <1>c, <1>d DEF QueryIInv

LEMMA SearchKeeps == ASSUME QueryIInv, SearchBm25 \/ SearchDense PROVE QueryIInv'
<1>1. /\ pc # "idle" /\ UNCHANGED <<ranked, owners, parents, obeyed>>
      /\ \E step \in {"dense", "search"} : Move(step)
  BY DEF SearchBm25, SearchDense
<1>2. PICK step \in {"dense", "search"} : Move(step)
  BY <1>1
<1>3. Bounded(legIds') /\ IsFiniteSet(found')
  <2>1. Bounded(ids) /\ Bounded(legIds) /\ IsFiniteSet(found)
    BY DEF QueryIInv, Numbers, Lists
  <2>2. CASE SearchBm25
    BY <2>1, <2>2 DEF SearchBm25
  <2>3. CASE SearchDense
    <3>1. PICK ranking \in SUBSET (legIds \cup ids) : found' = found \cup ranking
      BY <2>3 DEF SearchDense
    <3>2. IsFiniteSet(legIds \cup ids)
      BY <2>1, BoundedIsFinite, FS_Union
    <3>3. IsFiniteSet(ranking)
      BY <3>2, FS_Subset
    <3>4. IsFiniteSet(found')
      BY <2>1, <3>1, <3>3, FS_Union
    <3>5. legIds' = {}
      BY <2>3 DEF SearchDense
    <3>6. QED
      BY <3>4, <3>5 DEF Bounded
  <2>4. QED
    BY <2>2, <2>3
<1>4. first' = first
  BY <1>2 DEF Move
<1>5. Lists'
  BY <1>1, <1>3, <1>4 DEF QueryIInv, Lists
<1>6. Committed(parents', during)
  BY <1>1 DEF QueryIInv, Recent
<1>7. QED
  BY <1>1, <1>2, <1>3, <1>5, <1>6, MoveKeeps

LEMMA FuseKeeps == ASSUME QueryIInv, Fuse PROVE QueryIInv'
<1>1. pc # "idle" /\ UNCHANGED <<legIds, found, owners, parents, obeyed>>
  BY DEF Fuse, searchVars
<1>2. CASE EndPass(<<>>) /\ UNCHANGED ranked
  <2>1. Listed(ranked')
    BY <1>2 DEF QueryIInv, Lists
  <2>2. QED
    BY <1>1, <1>2, <2>1, NothingIsGood, EndPassKeeps
<1>3. ASSUME NEW order \in SetToSeqs(found), ranked' = Take(order, ChunkPool), Move("owners")
      PROVE  QueryIInv'
  <2>1. ChunkPool \in Nat
    BY PoolsAssumption
  <2>2. Listed(order)
    BY <1>3, OrderIsList DEF QueryIInv, Lists
  <2>3. Listed(ranked')
    BY <1>3, <2>1, <2>2, TakeIsList
  <2>4. first' = first
    BY <1>3 DEF Move
  <2>5. Lists' /\ Bounded(legIds')
    BY <1>1, <2>3, <2>4 DEF QueryIInv, Lists, Numbers
  <2>6. Committed(parents', during)
    BY <1>1 DEF QueryIInv, Recent
  <2>7. QED
    BY <1>1, <1>3, <2>5, <2>6, MoveKeeps
<1>4. QED
  BY <1>2, <1>3 DEF Fuse

\* The parents of finitely many chunks.
LEMMA OwnersAreFinite ==
    ASSUME QueryIInv
    PROVE  IsFiniteSet({db.chunks[c] : c \in ToSet(ranked) \cap DOMAIN db.chunks})
<1> DEFINE known == ToSet(ranked) \cap DOMAIN db.chunks
           owning == {db.chunks[c] : c \in known}
           owner == [c \in known |-> db.chunks[c]]
<1>1. IsFiniteSet(DOMAIN db.chunks)
  BY BoundedIsFinite DEF QueryIInv, Numbers
<1>2. IsFiniteSet(known)
  BY <1>1, FS_Subset
<1>3. owner \in Surjection(known, owning)
  BY DEF Surjection
<1> HIDE DEF known, owning, owner
<1>4. IsFiniteSet(owning)
  BY <1>2, <1>3, FS_Surjection
<1>5. QED
  BY <1>4 DEF owning, known

LEMMA OwnersKeeps == ASSUME QueryIInv, Owners PROVE QueryIInv'
<1>1. pc # "idle" /\ Move("rows") /\ UNCHANGED <<legIds, found, ranked, parents, obeyed>>
  BY DEF Owners, searchVars
<1>2. PICK order \in SetToSeqs({db.chunks[c] : c \in ToSet(ranked) \cap DOMAIN db.chunks}) :
          owners' = Take(order, call.top)
  BY DEF Owners
<1>3. call.top \in Nat
  BY DEF QueryIInv, Numbers
<1>4. Listed(order) /\ IsInjective(order)
  BY <1>2, OwnersAreFinite, OrderIsList
<1>5. Listed(owners') /\ \A i \in DOMAIN owners' : i \in DOMAIN order /\ owners'[i] = order[i]
  BY <1>2, <1>3, <1>4, TakeIsList
<1>6. IsInjective(owners')
  BY <1>4, <1>5 DEF IsInjective
<1>7. first' = first
  BY <1>1 DEF Move
<1>8. Lists' /\ Bounded(legIds')
  BY <1>1, <1>5, <1>6, <1>7 DEF QueryIInv, Lists, Numbers
<1>9. Committed(parents', during)
  BY <1>1 DEF QueryIInv, Recent
<1>10. QED
  BY <1>1, <1>8, <1>9, MoveKeeps

LEMMA FetchRowsKeeps == ASSUME QueryIInv, FetchRows PROVE QueryIInv'
<1> DEFINE known == {i \in DOMAIN owners : owners[i] \in DOMAIN db.parents}
<1>1. pc # "idle" /\ UNCHANGED <<legIds, found, ranked, owners, obeyed>>
  BY DEF FetchRows, searchVars
<1>2. CASE EndPass(<<>>) /\ UNCHANGED parents
  <2>1. Listed(ranked')
    BY <1>1 DEF QueryIInv, Lists
  <2>2. QED
    BY <1>1, <1>2, <2>1, NothingIsGood, EndPassKeeps
<1>3. ASSUME NEW kept \in SetToSeqs(known), Move("rerank"),
             parents' = [i \in DOMAIN kept |->
                            Result(owners[kept[i]], db.parents[owners[kept[i]]])]
      PROVE  QueryIInv'
  <2>1. IsFiniteSet(known)
    <3>1. Len(owners) \in Nat /\ DOMAIN owners = 1 .. Len(owners)
      BY DEF QueryIInv, Lists, Listed
    <3>2. IsFiniteSet(1 .. Len(owners)) /\ known \subseteq 1 .. Len(owners)
      BY <3>1, FS_Interval
    <3>3. QED
      BY <3>2, FS_Subset
  <2>2. /\ Listed(kept) /\ IsInjective(kept)
        /\ \A i \in DOMAIN kept : kept[i] \in known
    BY <1>3, <2>1, OrderIsList
  <2>3. /\ DOMAIN parents' = DOMAIN kept
        /\ \A i \in DOMAIN kept :
              /\ parents'[i].id = owners[kept[i]]
              /\ parents'[i].head = db.parents[owners[kept[i]]]
              /\ parents'[i].text = db.parents[owners[kept[i]]]
    BY <1>3 DEF Result
  <2>4. Listed(parents')
    <3>1. DOMAIN kept = 1 .. Len(kept) /\ Len(kept) \in Nat
      BY <2>2 DEF Listed
    <3>2. Len(parents') = Len(kept)
      BY <1>3, <3>1
    <3>3. QED
      BY <2>3, <3>1, <3>2 DEF Listed
  <2>5. Apart(parents')
    <3> SUFFICES ASSUME NEW i \in DOMAIN kept, NEW j \in DOMAIN kept,
                        owners[kept[i]] = owners[kept[j]]
                 PROVE  i = j
      BY <2>3 DEF Apart
    <3>1. kept[i] = kept[j]
      BY <2>2 DEF QueryIInv, Lists, IsInjective
    <3>2. QED
      BY <2>2, <3>1 DEF IsInjective
  <2>6. Committed(parents', during)
    <3> SUFFICES ASSUME NEW i \in DOMAIN kept
                 PROVE  <<owners[kept[i]], db.parents[owners[kept[i]]]>> \in during
      BY <2>3 DEF Committed
    <3>1. owners[kept[i]] \in DOMAIN db.parents
      BY <2>2
    <3>2. <<owners[kept[i]], db.parents[owners[kept[i]]]>> \in RowsOf(db)
      BY <3>1 DEF RowsOf
    <3>3. QED
      BY <1>1, <3>2 DEF QueryIInv, Recent
  <2>7. first' = first
    BY <1>3 DEF Move
  <2>8. Lists' /\ Bounded(legIds')
    BY <1>1, <2>4, <2>5, <2>7 DEF QueryIInv, Lists, Numbers
  <2>9. QED
    BY <1>1, <1>3, <2>6, <2>8, MoveKeeps
<1>4. QED
  BY <1>2, <1>3 DEF FetchRows

LEMMA KeptIsNumber ==
    ASSUME QueryIInv
    PROVE  /\ Kept \in Nat /\ Kept <= call.k /\ Kept <= Len(parents)
           /\ DOMAIN parents = 1 .. Len(parents) /\ Len(parents) \in Nat
           /\ IsFiniteSet(DOMAIN parents) /\ Cardinality(DOMAIN parents) = Len(parents)
<1>1. call.k \in Nat /\ Len(parents) \in Nat /\ DOMAIN parents = 1 .. Len(parents)
  BY DEF QueryIInv, Numbers, Lists, Listed
<1>2. IsFiniteSet(1 .. Len(parents)) /\ Cardinality(1 .. Len(parents)) = Len(parents)
  <2> DEFINE n == Len(parents)
  <2>1. n \in Nat /\ n \in Int /\ 1 \in Int
    BY <1>1
  <2> HIDE DEF n
  <2>2. IsFiniteSet(1 .. n) /\ Cardinality(1 .. n) = IF 1 > n THEN 0 ELSE n - 1 + 1
    BY <2>1, FS_Interval
  <2>3. Cardinality(1 .. n) = n
    BY <2>1, <2>2
  <2>4. QED
    BY <2>2, <2>3 DEF n
<1>3. QED
  BY <1>1, <1>2 DEF Kept, AtMost

\* A ranking of some of the parents.
LEMMA RerankedKeeps ==
    ASSUME QueryIInv, pc = "rerank", NEW by, NEW order, Reranked(by, order),
           Listed(order), \A i \in DOMAIN order : order[i] \in DOMAIN parents
    PROVE  QueryIInv'
<1> DEFINE step == IF call.kind = "ambient" THEN "gate" ELSE "rehydrate"
<1>1. /\ parents' = [i \in DOMAIN order |-> parents[order[i]]]
      /\ obeyed' = (obeyed /\ IsInjective(order) /\ Len(order) <= Kept)
      /\ Move(step) /\ UNCHANGED <<legIds, found, ranked, owners>>
  BY DEF Reranked, searchVars
<1>2. step # "idle"
  OBVIOUS
<1> HIDE DEF step
<1>3. DOMAIN parents' = DOMAIN order /\ \A i \in DOMAIN order : parents'[i] = parents[order[i]]
  BY <1>1
<1>4. Listed(parents') /\ Len(parents') = Len(order) /\ Len(order) \in Nat
  <2>1. DOMAIN order = 1 .. Len(order) /\ Len(order) \in Nat
    BY DEF Listed
  <2>2. Len(parents') = Len(order)
    BY <1>1, <2>1
  <2>3. QED
    BY <1>3, <2>1, <2>2 DEF Listed
<1>5. obeyed' => Len(parents') <= call.k
  <2>1. Kept \in Nat /\ Kept <= call.k /\ call.k \in Nat
    BY KeptIsNumber DEF QueryIInv, Numbers
  <2>2. obeyed' => Len(order) <= Kept
    BY <1>1, Zenon
  <2>3. Len(order) <= Kept => Len(parents') <= call.k
    BY <1>4, <2>1
  <2>4. QED
    BY <2>2, <2>3
<1>6. ASSUME obeyed' PROVE Apart(parents')
  <2>1. obeyed /\ IsInjective(order)
    BY <1>1, <1>6
  <2> SUFFICES ASSUME NEW i \in DOMAIN order, NEW j \in DOMAIN order,
                      parents[order[i]].id = parents[order[j]].id
               PROVE  i = j
    BY <1>3 DEF Apart
  <2>2. order[i] = order[j]
    BY <2>1 DEF QueryIInv, Lists, Apart
  <2>3. QED
    BY <2>1, <2>2 DEF IsInjective
<1>7. Committed(parents', during)
  BY <1>3 DEF QueryIInv, Recent, Committed
<1>8. first' = first
  BY <1>1 DEF Move
<1>9. Lists' /\ Bounded(legIds') /\ (obeyed' => obeyed)
  BY <1>1, <1>4, <1>6, <1>8 DEF QueryIInv, Lists, Numbers
<1>10. pc # "idle"
  OBVIOUS
<1>11. QED
  BY <1>1, <1>2, <1>5, <1>7, <1>9, <1>10, MoveKeeps

\* Indices in any number.
LEMMA IndicesAreList ==
    ASSUME NEW S, NEW n \in Nat, NEW order \in [1 .. n -> S]
    PROVE  Listed(order) /\ Len(order) = n /\ \A i \in DOMAIN order : order[i] \in S
<1>1. Len(order) = n /\ DOMAIN order = 1 .. n
  OBVIOUS
<1>2. QED
  BY <1>1 DEF Listed

LEMMA RerankKeeps ==
    ASSUME QueryIInv, CohereRanks \/ LocalRanks \/ IdentityRanks
    PROVE  QueryIInv'
<1>1. /\ Kept \in Nat /\ Kept <= Len(parents)
      /\ DOMAIN parents = 1 .. Len(parents) /\ Len(parents) \in Nat
      /\ IsFiniteSet(DOMAIN parents)
  BY KeptIsNumber
<1>2. CASE CohereRanks
  <2>1. PICK n \in 1 .. MaxIndices :
            \E order \in [1 .. n -> DOMAIN parents] : Reranked("cohere", order)
    BY <1>2 DEF CohereRanks
  <2>2. PICK order \in [1 .. n -> DOMAIN parents] : Reranked("cohere", order)
    BY <2>1
  <2>3. n \in Nat /\ pc = "rerank"
    BY <1>2, IndicesAssumption DEF CohereRanks
  <2>4. Listed(order) /\ \A i \in DOMAIN order : order[i] \in DOMAIN parents
    BY <2>3, IndicesAreList
  <2>5. QED
    BY <2>2, <2>3, <2>4, RerankedKeeps
<1>3. CASE LocalRanks
  <2>1. PICK order \in SetToSeqs(DOMAIN parents) : Reranked("local", Take(order, Kept))
    BY <1>3 DEF LocalRanks
  <2>2. Listed(order) /\ \A i \in DOMAIN order : order[i] \in DOMAIN parents
    BY <1>1, <2>1, OrderIsList
  <2> DEFINE best == Take(order, Kept)
  <2>3. Listed(best) /\ \A i \in DOMAIN best : i \in DOMAIN order /\ best[i] = order[i]
    BY <1>1, <2>2, TakeIsList
  <2> HIDE DEF best
  <2>4. pc = "rerank" /\ Reranked("local", best)
    BY <1>3, <2>1 DEF LocalRanks, best
  <2>5. QED
    BY <2>2, <2>3, <2>4, RerankedKeeps
<1>4. CASE IdentityRanks
  <2> DEFINE order == [i \in 1 .. Kept |-> i]
  <2>1. pc = "rerank" /\ Reranked("identity", order)
    BY <1>4 DEF IdentityRanks
  <2>2. Len(order) = Kept /\ DOMAIN order = 1 .. Kept /\ \A i \in 1 .. Kept : order[i] = i
    BY <1>1
  <2> HIDE DEF order
  <2>3. Listed(order) /\ \A i \in DOMAIN order : order[i] \in DOMAIN parents
    BY <1>1, <2>2 DEF Listed
  <2>4. QED
    BY <2>1, <2>3, RerankedKeeps
<1>5. QED
  BY <1>2, <1>3, <1>4

LEMMA GateKeeps == ASSUME QueryIInv, Gate PROVE QueryIInv'
<1>1. pc = "gate"
  BY DEF Gate
<1>2. CASE Move("rehydrate") /\ UNCHANGED <<legIds, found, ranked, owners, parents, obeyed>>
  <2>1. first' = first
    BY <1>2 DEF Move
  <2>2. /\ Lists' /\ (obeyed' => Len(parents') <= call.k) /\ Committed(parents', during)
        /\ Bounded(legIds')
    BY <1>1, <1>2, <2>1 DEF QueryIInv, Lists, Short, Recent, Numbers
  <2>3. QED
    BY <1>1, <1>2, <2>2, MoveKeeps
<1>3. CASE Finish("declined", <<>>) /\ Forget
  BY <1>1, <1>3, FinishKeeps
<1>4. QED
  BY <1>2, <1>3 DEF Gate, searchVars

LEMMA RehydrateKeeps == ASSUME QueryIInv, Rehydrate PROVE QueryIInv'
<1> DEFINE full == [i \in DOMAIN parents |->
                       IF parents[i].id \in DOMAIN db.parents
                       THEN [parents[i] EXCEPT !.text = db.parents[parents[i].id], !.full = TRUE]
                       ELSE parents[i]]
<1>1. pc = "rehydrate" /\ EndPass(full)
      /\ UNCHANGED <<legIds, found, ranked, owners, parents, obeyed>>
  BY DEF Rehydrate, searchVars
<1>2. /\ Listed(parents) /\ Committed(parents, during)
      /\ obeyed => Len(parents) <= call.k /\ Apart(parents)
  BY <1>1 DEF QueryIInv, Lists, Short, Recent
<1>3. DOMAIN full = DOMAIN parents /\ Len(full) = Len(parents)
  BY <1>2 DEF Listed
<1>4. \A i \in DOMAIN parents :
         /\ full[i].id = parents[i].id
         /\ full[i].head = parents[i].head
         /\ \/ full[i].text = parents[i].text
            \/ /\ parents[i].id \in DOMAIN db.parents
               /\ full[i].text = db.parents[parents[i].id]
  OBVIOUS
<1>5. Good(full)
  <2>1. Listed(full) /\ (obeyed => Len(full) <= call.k)
    BY <1>2, <1>3 DEF Listed
  <2>2. obeyed => Apart(full)
    <3> HIDE DEF full
    <3>1. QED
      BY <1>2, <1>3, <1>4 DEF Apart
  <2>3. Committed(full, during)
    <3> SUFFICES ASSUME NEW i \in DOMAIN parents
                 PROVE  /\ <<full[i].id, full[i].head>> \in during
                        /\ <<full[i].id, full[i].text>> \in during
      BY <1>3 DEF Committed
    <3>1. <<parents[i].id, parents[i].head>> \in during
          /\ <<parents[i].id, parents[i].text>> \in during
      BY <1>2 DEF Committed
    <3>2. parents[i].id \in DOMAIN db.parents
             => <<parents[i].id, db.parents[parents[i].id]>> \in during
      BY <1>1 DEF QueryIInv, Recent, RowsOf
    <3>3. QED
      BY <1>4, <3>1, <3>2
  <2>4. QED
    BY <2>1, <2>2, <2>3 DEF Good
<1> HIDE DEF full
<1>6. Listed(ranked')
  BY <1>1 DEF QueryIInv, Lists
<1>7. QED
  BY <1>1, <1>5, <1>6, EndPassKeeps

LEMMA JudgeKeeps ==
    ASSUME QueryIInv, JudgeAccepts \/ \E n \in 1 .. MaxVariants : JudgeRetries(n)
    PROVE  QueryIInv'
<1>1. CASE JudgeAccepts
  BY <1>1, FinishKeeps DEF JudgeAccepts, searchVars
<1>2. ASSUME NEW n \in 1 .. MaxVariants, JudgeRetries(n)
      PROVE  QueryIInv'
  <2> DEFINE c == [call EXCEPT !.pass = 2]
  <2>1. pc = "judge" /\ StartPass(c, n) /\ UNCHANGED indexVars
        /\ UNCHANGED <<first, obeyed, during>>
    BY <1>2 DEF JudgeRetries
  <2>2. c \in [kind : {"none", "explicit", "ambient"}, k : Nat, top : Nat, pass : Nat]
        /\ c.k = call.k
    BY DEF QueryIInv, Numbers
  <2> HIDE DEF c
  <2>3. QED
    BY <2>1, <2>2, StartKeeps
<1>3. QED
  BY <1>1, <1>2

LEMMA QueryStarts == Init => QueryIInv
<1> SUFFICES ASSUME Init PROVE QueryIInv
  OBVIOUS
<1>1. DOMAIN db.chunks = {} /\ ids = {} /\ legIds = {} /\ pc = "idle" /\ answer.status = "none"
  BY DEF Init
<1>2. Bounded({})
  BY DEF Bounded
<1>3. Numbers
  BY <1>1, <1>2 DEF Init, NoCall, Numbers
<1>4. Lists
  BY EmptyList, FS_EmptySet DEF Init, Lists
<1>5. Short
  BY EmptyList DEF Init, Short, NoCall
<1>6. Recent /\ Answers
  BY <1>1 DEF Recent, Answers, Answered
<1>7. QED
  BY <1>3, <1>4, <1>5, <1>6 DEF QueryIInv

LEMMA QueryStep == QueryIInv /\ [Next]_vars => QueryIInv'
<1> SUFFICES ASSUME QueryIInv, [Next]_vars PROVE QueryIInv'
  OBVIOUS
<1>1. CASE UNCHANGED vars
  <2>1. UNCHANGED <<db, ids, pc, call, legIds, found, ranked, owners, parents, first, answer,
                    obeyed, during>>
    BY <1>1 DEF vars, indexVars, queryVars, searchVars
  <2>2. RowsOf(db)' = RowsOf(db)
    BY <2>1 DEF RowsOf
  <2>3. Numbers' /\ Lists' /\ Short'
    BY <2>1 DEF QueryIInv, Numbers, Lists, Short
  <2>4. Recent'
    BY <2>1, <2>2 DEF QueryIInv, Recent
  <2>5. Answers'
    BY <2>1 DEF QueryIInv, Answers, Answered, Results
  <2>6. QED
    BY <2>3, <2>4, <2>5 DEF QueryIInv
<1>2. CASE QueryRaises
  BY <1>2, FinishKeeps DEF QueryRaises
<1>3. CASE Step
  BY <1>2, <1>3, SearchKeeps, FuseKeeps, OwnersKeeps, FetchRowsKeeps, RerankKeeps,
     GateKeeps, RehydrateKeeps, JudgeKeeps DEF Step
<1>4. QED
  BY <1>1, <1>3, IndexerKeeps, AskKeeps DEF Next

LEMMA QueryAlways == Spec => []QueryIInv
BY QueryStarts, QueryStep, PTL DEF Spec

\* However the three reads of a query fall between the transactions of the
\* indexer, all it returns was committed while it ran.
THEOREM AnswersWereCommitted == Spec => []AnswersAreCommitted
<1>1. QueryIInv => AnswersAreCommitted
  BY DEF QueryIInv, Answers, AnswersAreCommitted, Committed
<1>2. QED
  BY <1>1, QueryAlways, PTL

\* At most k parents and none twice, whichever of the code's rankers has ranked
\* them, or a service that keeps to what it is asked for.
THEOREM AnswersAreDistinct == Spec => []DistinctWithinK
<1>1. QueryIInv => DistinctWithinK
  BY DEF QueryIInv, Answers, DistinctWithinK, Apart
<1>2. QED
  BY <1>1, QueryAlways, PTL

\* A query that had results in its first pass has some in the end.
THEOREM RetryKeepsResults == Spec => []RetryNeverLosesResults
<1>1. QueryIInv => RetryNeverLosesResults
  BY DEF QueryIInv, Answers, RetryNeverLosesResults
<1>2. QED
  BY <1>1, QueryAlways, PTL

(***************************************************************************)
(* Types, and the searches that no transaction comes into.                 *)
(***************************************************************************)

ResultRecords == [id : Nat, head : ParentRows, text : ParentRows, full : BOOLEAN]

\* The rows point to each other, and ids of either table come to an end.
CatalogOK ==
    /\ \A p \in DOMAIN db.parents : p \in Nat \ {0} /\ db.parents[p] \in ParentRows
    /\ \A c \in DOMAIN db.chunks : c \in Nat \ {0} /\ db.chunks[c] \in DOMAIN db.parents
    /\ Bounded(DOMAIN db.parents)
    /\ commits \in 0 .. MaxCommits /\ idsOf \in 0 .. commits
    /\ idsOf = commits => ids = DOMAIN db.chunks

TypedQuery ==
    /\ legIds \subseteq Nat /\ found \subseteq Nat
    /\ pc \in Steps \cup {"idle"}
    /\ call.k \in 1 .. ParentPool \cup {TopParents} /\ call.top \in Nat \ {0}
    /\ todo \in 0 .. MaxVariants /\ (pc = "dense" => todo # 0)
    /\ ToSet(ranked) \subseteq found
    /\ \A i \in DOMAIN parents : parents[i] \in ResultRecords
    /\ \A i \in DOMAIN first : first[i] \in ResultRecords
    /\ \A i \in DOMAIN answer.parents : answer.parents[i] \in ResultRecords
    /\ answer.status \in {"none", "ok", "error", "declined"}
    /\ obeyed \in BOOLEAN /\ clean \in BOOLEAN

PipeTypes == CatalogOK /\ TypedQuery

\* The parent of the best chunk.
Leader == db.chunks[ranked[1]]

\* Parents of ranked chunks, as they stand in the catalog.
Exact(results) ==
    /\ Len(results) # 0
    /\ \A i \in DOMAIN results : /\ results[i].id \in Matched
                                 /\ results[i].head = db.parents[results[i].id]
                                 /\ results[i].text = results[i].head

\* As many as there have to be, and in the order of the chunks without a reranker.
Best(results) ==
    /\ ranker # "cohere" =>
          Len(results) = AtMost(call.k, AtMost(call.top, Cardinality(Matched)))
    /\ ranker = "identity" => results[1].id = Leader

Whole(results) == Exact(results) /\ Best(results) /\ \A i \in DOMAIN results : results[i].full

\* Where a search stands that no transaction has come into.
QuietSearch ==
    clean /\ found # {} =>
        /\ found \subseteq DOMAIN db.chunks
        /\ pc \in {"owners", "rows", "rerank", "gate", "rehydrate", "judge"} => Len(ranked) # 0
        /\ pc = "rows" => /\ Len(owners) # 0 /\ ToSet(owners) \subseteq Matched
                          /\ Len(owners) = AtMost(call.top, Cardinality(Matched))
                          /\ owners[1] = Leader
        /\ pc = "rerank" => /\ Exact(parents) /\ parents[1].id = Leader
                            /\ Len(parents) = AtMost(call.top, Cardinality(Matched))
        /\ pc \in {"gate", "rehydrate"} => Exact(parents) /\ Best(parents)
        /\ pc = "judge" => Whole(first)
        /\ Answered => Whole(Results)

QuietInv == /\ clean => legIds \subseteq DOMAIN db.chunks
            /\ QuietSearch

-----------------------------------------------------------------------------
(* The catalog *)

\* A list of numbers has an upper bound.
LEMMA SeqIsBounded ==
    ASSUME NEW s \in Seq(Nat)
    PROVE  \E b \in Nat : \A i \in 1 .. Len(s) : s[i] <= b
<1> DEFINE bad == {n \in Nat : /\ n <= Len(s)
                               /\ \A b \in Nat : \E i \in 1 .. n : ~(s[i] <= b)}
<1>1. Len(s) \in Nat /\ \A i \in 1 .. Len(s) : s[i] \in Nat
  BY LenProperties, ElementOfSeq
<1>2. IsWellFoundedOn(OpToRel(<, Nat), Nat) /\ bad \subseteq Nat
  BY NatLessThanWellFounded
<1>3. ASSUME bad # {} PROVE FALSE
  <2>1. PICK m \in bad : \A y \in bad : ~(<<y, m>> \in OpToRel(<, Nat))
    BY <1>2, <1>3, WFMin
  <2>2. m \in Nat /\ m <= Len(s) /\ m # 0
    <3>1. m \in Nat /\ m <= Len(s) /\ \E i \in 1 .. m : ~(s[i] <= 0)
      OBVIOUS
    <3>2. QED
      BY <3>1
  <2>3. m - 1 \in Nat /\ m - 1 < m /\ m - 1 <= Len(s)
    BY <1>1, <2>2
  <2>4. m - 1 \notin bad
    BY <1>2, <2>1, <2>2, <2>3 DEF OpToRel
  <2>5. PICK b \in Nat : \A i \in 1 .. m - 1 : s[i] <= b
    BY <2>3, <2>4
  <2>6. s[m] \in Nat
    BY <1>1, <2>2
  <2>7. b \in Nat /\ b + s[m] \in Nat
    <3> HIDE DEF bad
    <3>1. b \in Nat
      OBVIOUS
    <3>2. QED
      BY <2>6, <3>1
  <2>8. ASSUME NEW i \in 1 .. m PROVE s[i] <= b + s[m]
    <3> HIDE DEF bad
    <3>1. i \in 1 .. Len(s) /\ (i \in 1 .. m - 1 \/ i = m)
      BY <1>1, <2>2
    <3>2. s[i] \in Nat
      BY <1>1, <3>1
    <3>3. s[i] <= b \/ s[i] = s[m]
      BY <2>5, <3>1
    <3>4. QED
      BY <2>6, <2>7, <3>2, <3>3
  <2>9. QED
    BY <2>1, <2>7, <2>8
<1>4. Len(s) \notin bad
  BY <1>3
<1>5. Len(s) <= Len(s)
  BY <1>1
<1>6. \E b \in Nat : \A i \in 1 .. Len(s) : ~~(s[i] <= b)
  BY <1>1, <1>4, <1>5
<1>7. QED
  BY <1>6

\* A transaction leaves the engine behind.
LEMMA CommitTypes ==
    ASSUME PipeTypes, NEW catalog, Commit(catalog),
           \A p \in DOMAIN catalog.parents : p \in Nat \ {0} /\ catalog.parents[p] \in ParentRows,
           \A c \in DOMAIN catalog.chunks :
              c \in Nat \ {0} /\ catalog.chunks[c] \in DOMAIN catalog.parents,
           Bounded(DOMAIN catalog.parents)
    PROVE  PipeTypes' /\ QuietInv'
<1>1. /\ db' = catalog /\ commits < MaxCommits /\ commits' = commits + 1 /\ clean' = FALSE
      /\ UNCHANGED <<ids, idsOf, pc, call, todo, legIds, found, ranked, owners, parents, ranker,
                     first, answer, obeyed>>
  BY DEF Commit, queryVars, searchVars
<1>2. commits \in 0 .. MaxCommits /\ idsOf \in 0 .. commits /\ MaxCommits \in Nat
  BY CommitsAssumption DEF PipeTypes, CatalogOK
<1>3. commits' \in 0 .. MaxCommits /\ idsOf' \in 0 .. commits' /\ idsOf' # commits'
  BY <1>1, <1>2
<1>4. CatalogOK'
  BY <1>1, <1>3 DEF CatalogOK
<1>5. TypedQuery'
  BY <1>1 DEF PipeTypes, TypedQuery
<1>6. QED
  BY <1>1, <1>4, <1>5 DEF PipeTypes, QuietInv, QuietSearch

LEMMA DeleteTypes ==
    ASSUME PipeTypes, NEW gone \in SUBSET Files, DeleteFiles(gone)
    PROVE  PipeTypes' /\ QuietInv'
<1> DEFINE kept == {p \in DOMAIN db.parents : db.parents[p].file \notin gone}
           left == {c \in DOMAIN db.chunks : db.chunks[c] \in kept}
           catalog == [parents |-> Restricted(db.parents, kept),
                       chunks  |-> Restricted(db.chunks, left)]
<1>1. Commit(catalog)
  BY DEF DeleteFiles
<1>2. /\ DOMAIN catalog.parents = kept /\ \A p \in kept : catalog.parents[p] = db.parents[p]
      /\ DOMAIN catalog.chunks = left /\ \A c \in left : catalog.chunks[c] = db.chunks[c]
  BY DEF Restricted
<1>3. CatalogOK
  BY DEF PipeTypes
<1> HIDE DEF catalog
<1>4. \A p \in DOMAIN catalog.parents : p \in Nat \ {0} /\ catalog.parents[p] \in ParentRows
  BY <1>2, <1>3 DEF CatalogOK
<1>5. \A c \in DOMAIN catalog.chunks :
         c \in Nat \ {0} /\ catalog.chunks[c] \in DOMAIN catalog.parents
  BY <1>2, <1>3 DEF CatalogOK
<1>6. Bounded(DOMAIN catalog.parents)
  BY <1>2, <1>3 DEF CatalogOK, Bounded
<1>7. QED
  BY <1>1, <1>4, <1>5, <1>6, CommitTypes

LEMMA InsertTypes ==
    ASSUME QueryIInv, PipeTypes, NEW file \in Files, InsertFile(file)
    PROVE  PipeTypes' /\ QuietInv'
<1> DEFINE l   == Layout[file]
           p0  == LastId(DOMAIN db.parents)
           c0  == LastId(DOMAIN db.chunks)
           new == {p0 + l[i] : i \in DOMAIN l}
           end == c0 + Len(l)
           rows == [p \in DOMAIN db.parents \cup new |->
                       IF p \in new THEN [file |-> file, rev |-> commits, ord |-> p - p0]
                                    ELSE db.parents[p]]
           chunks == [c \in DOMAIN db.chunks \cup (c0 + 1 .. end) |->
                         IF c > c0 THEN p0 + l[c - c0] ELSE db.chunks[c]]
           catalog == [parents |-> rows, chunks |-> chunks]
<1>1. Commit(catalog)
  BY DEF InsertFile
<1>2. catalog.parents = rows /\ catalog.chunks = chunks
  OBVIOUS
<1> HIDE DEF catalog
<1>3. /\ CatalogOK /\ Bounded(DOMAIN db.parents) /\ Bounded(DOMAIN db.chunks)
      /\ commits \in 0 .. MaxCommits
  BY DEF PipeTypes, CatalogOK, QueryIInv, Numbers
<1>4. p0 \in Nat /\ c0 \in Nat
  BY <1>3, LastIdExists
<1>5. /\ l \in Seq(Nat \ {0}) /\ l \in Seq(Nat) /\ DOMAIN l = 1 .. Len(l) /\ Len(l) \in Nat
      /\ \A i \in 1 .. Len(l) : l[i] \in Nat \ {0}
  <2>1. l \in Seq(Nat \ {0})
    BY LayoutAssumption
  <2>2. DOMAIN l = 1 .. Len(l) /\ Len(l) \in Nat /\ \A i \in 1 .. Len(l) : l[i] \in Nat \ {0}
    BY <2>1, LenProperties, ElementOfSeq
  <2>3. QED
    BY <2>1, <2>2
<1> HIDE DEF l, p0, c0
<1>6. new \subseteq Nat \ {0} /\ \A p \in new : p - p0 \in Nat
  <2> SUFFICES ASSUME NEW i \in 1 .. Len(l)
               PROVE  p0 + l[i] \in Nat \ {0} /\ (p0 + l[i]) - p0 \in Nat
    BY <1>5
  <2>1. l[i] \in Nat \ {0}
    BY <1>5
  <2>2. QED
    BY <1>4, <2>1
<1>a. \A p \in DOMAIN rows : p \in Nat \ {0} /\ rows[p] \in ParentRows
  <2> SUFFICES ASSUME NEW p \in DOMAIN db.parents \cup new
               PROVE  p \in Nat \ {0} /\ rows[p] \in ParentRows
    OBVIOUS
  <2>1. CASE p \in new
    <3>1. rows[p] = [file |-> file, rev |-> commits, ord |-> p - p0] /\ p - p0 \in Nat
      BY <1>6, <2>1
    <3>2. QED
      BY <1>3, <1>6, <2>1, <3>1 DEF ParentRows
  <2>2. CASE p \notin new
    <3>1. p \in DOMAIN db.parents /\ rows[p] = db.parents[p]
      BY <2>2
    <3>2. QED
      BY <1>3, <3>1 DEF CatalogOK
  <2>3. QED
    BY <2>1, <2>2
<1>b. \A c \in DOMAIN chunks : c \in Nat \ {0} /\ chunks[c] \in DOMAIN rows
  <2> SUFFICES ASSUME NEW c \in DOMAIN db.chunks \cup (c0 + 1 .. end)
               PROVE  c \in Nat \ {0} /\ chunks[c] \in DOMAIN db.parents \cup new
    OBVIOUS
  <2>1. c \in Nat \ {0}
    BY <1>3, <1>4, <1>5 DEF CatalogOK
  <2>2. CASE c > c0
    <3>1. c \in c0 + 1 .. end
      <4>1. c \in DOMAIN db.chunks => c <= c0
        <5>1. \A d \in DOMAIN db.chunks : d <= c0
          BY <1>3, LastIdBounds DEF c0
        <5>2. QED
          BY <5>1
      <4>2. QED
        BY <1>4, <2>1, <2>2, <4>1
    <3>2. c - c0 \in 1 .. Len(l)
      BY <1>4, <1>5, <3>1
    <3>3. chunks[c] = p0 + l[c - c0] /\ c - c0 \in DOMAIN l
      BY <1>5, <2>2, <3>2
    <3>4. QED
      BY <2>1, <3>3
  <2>3. CASE ~(c > c0)
    <3>1. c \in DOMAIN db.chunks /\ chunks[c] = db.chunks[c]
      BY <1>4, <1>5, <2>3
    <3>2. QED
      BY <1>3, <2>1, <3>1 DEF CatalogOK
  <2>4. QED
    BY <2>2, <2>3
<1>c. Bounded(DOMAIN rows)
  <2>1. PICK b \in Nat : \A p \in DOMAIN db.parents : p <= b
    BY <1>3 DEF Bounded
  <2>2. PICK d \in Nat : \A i \in 1 .. Len(l) : l[i] <= d
    BY <1>5, SeqIsBounded
  <2>3. DOMAIN rows = DOMAIN db.parents \cup new /\ DOMAIN db.parents \subseteq Nat
    BY <1>3 DEF Bounded
  <2>4. b + (p0 + d) \in Nat
    BY <1>4
  <2>5. \A p \in new : p <= b + (p0 + d)
    BY <1>4, <1>5, <2>2
  <2>6. \A p \in DOMAIN db.parents : p <= b + (p0 + d)
    BY <1>4, <2>1, <2>3
  <2> HIDE DEF rows
  <2>7. QED
    BY <1>6, <2>3, <2>4, <2>5, <2>6 DEF Bounded
<1> HIDE DEF rows, chunks
<1>d. QED
  BY <1>1, <1>2, <1>a, <1>b, <1>c, CommitTypes

\* Whoever loads gets the ids that are there.
LEMMA ReloadTypes ==
    ASSUME PipeTypes, QuietInv, QueryIInv, Reload
    PROVE  PipeTypes' /\ QuietInv'
<1>1. /\ ids' = DOMAIN db.chunks /\ idsOf' = commits
      /\ UNCHANGED <<db, commits, pc, call, todo, legIds, found, ranked, owners, parents, ranker,
                     first, answer, obeyed, clean>>
  BY DEF Reload, queryVars, searchVars
<1>2. CatalogOK'
  BY <1>1 DEF PipeTypes, CatalogOK
<1>3. TypedQuery'
  BY <1>1 DEF PipeTypes, TypedQuery
<1>4. QuietInv'
  BY <1>1 DEF QuietInv, QuietSearch, Exact, Best, Whole, Leader, Matched, Answered, Results
<1>5. QED
  BY <1>2, <1>3, <1>4 DEF PipeTypes

-----------------------------------------------------------------------------
(* What the steps of a query have in common *)

LEMMA CatalogStays ==
    ASSUME PipeTypes, UNCHANGED indexVars
    PROVE  CatalogOK'
BY DEF PipeTypes, CatalogOK, indexVars

\* Parents of chunks have rows.
LEMMA MatchedHaveRows ==
    ASSUME PipeTypes
    PROVE  Matched \subseteq DOMAIN db.parents
BY DEF PipeTypes, CatalogOK, Matched

LEMMA EmptyResults == ASSUME NEW i \in DOMAIN <<>> PROVE FALSE
OBVIOUS

\* A query that ends without parents.
LEMMA FailTypes ==
    ASSUME PipeTypes, NEW status \in {"error", "declined"}, Finish(status, <<>>), Forget
    PROVE  PipeTypes' /\ QuietInv'
<1>1. /\ pc' = "idle" /\ answer' = [status |-> status, parents |-> <<>>]
      /\ UNCHANGED indexVars /\ UNCHANGED <<call, first, obeyed>>
      /\ todo' = 0 /\ legIds' = {} /\ found' = {} /\ ranked' = <<>> /\ parents' = <<>>
      /\ clean' = TRUE
  BY DEF Finish, Forget, Locals
<1>2. CatalogOK'
  BY <1>1, CatalogStays
<1>3. 0 \in 0 .. MaxVariants /\ ToSet(<<>>) = {}
  BY PoolsAssumption DEF ToSet
<1>4. TypedQuery'
  BY <1>1, <1>3, EmptyResults DEF PipeTypes, TypedQuery
<1>5. QuietInv'
  BY <1>1 DEF QuietInv, QuietSearch
<1>6. QED
  BY <1>2, <1>4, <1>5 DEF PipeTypes

\* A query that ends with the parents of its first pass.
LEMMA AcceptTypes ==
    ASSUME PipeTypes, QuietInv, pc = "judge", Finish("ok", first),
           UNCHANGED <<searchVars, ranked, owners, parents, ranker, obeyed, clean>>
    PROVE  PipeTypes' /\ QuietInv'
<1>1. /\ pc' = "idle" /\ answer' = [status |-> "ok", parents |-> first]
      /\ UNCHANGED indexVars /\ UNCHANGED <<call, first, todo, legIds, found>> /\ db' = db
  BY DEF Finish, indexVars, searchVars
<1>2. CatalogOK'
  BY <1>1, CatalogStays
<1>3. TypedQuery'
  BY <1>1 DEF PipeTypes, TypedQuery
<1>4. QuietInv'
  <2> SUFFICES ASSUME clean, found # {}
               PROVE  /\ found \subseteq DOMAIN db.chunks
                      /\ Whole(Results)'
    BY <1>1 DEF QuietInv, QuietSearch, Answered
  <2>1. found \subseteq DOMAIN db.chunks
    BY DEF QuietInv, QuietSearch
  <2>2. Matched' = Matched /\ Leader' = Leader
    BY <1>1 DEF Matched, Leader
  <2>3. Whole(first) /\ answer'.parents = first
    BY <1>1 DEF QuietInv, QuietSearch
  <2>4. Whole(Results)'
    BY <1>1, <2>2, <2>3 DEF Whole, Exact, Best, Results
  <2>5. QED
    BY <2>1, <2>4
<1>5. QED
  BY <1>2, <1>3, <1>4 DEF PipeTypes

\* A pass that ends, with whole results unless a transaction came into it.
LEMMA EndPassTypes ==
    ASSUME PipeTypes, QuietInv, pc # "idle", NEW results, EndPass(results),
           \A i \in DOMAIN results : results[i] \in ResultRecords,
           clean /\ found # {} => Len(ranked) # 0 /\ Whole(results),
           UNCHANGED <<searchVars, ranked, owners, parents, ranker, obeyed, clean>>
    PROVE  PipeTypes' /\ QuietInv'
<1>1. /\ UNCHANGED indexVars /\ call' = call /\ db' = db
      /\ UNCHANGED <<todo, legIds, found>>
      /\ \/ /\ pc' = "idle" /\ first' = first
            /\ \/ answer' = [status |-> "ok", parents |-> results]
               \/ answer' = [status |-> "ok", parents |-> first] /\ results = <<>>
         \/ pc' = "judge" /\ first' = results /\ answer' = answer
  BY DEF EndPass, Finish, indexVars, searchVars
<1>2. CatalogOK'
  BY <1>1, CatalogStays
<1>3. \A i \in DOMAIN first : first[i] \in ResultRecords
  BY DEF PipeTypes, TypedQuery
<1>4. TypedQuery'
  <2>1. CASE pc' = "idle" /\ first' = first /\ answer' = [status |-> "ok", parents |-> results]
    BY <1>1, <2>1 DEF PipeTypes, TypedQuery
  <2>2. CASE pc' = "idle" /\ first' = first /\ answer' = [status |-> "ok", parents |-> first]
    BY <1>1, <1>3, <2>2 DEF PipeTypes, TypedQuery
  <2>3. CASE pc' = "judge" /\ first' = results /\ answer' = answer
    BY <1>1, <2>3 DEF PipeTypes, TypedQuery, Steps
  <2>4. QED
    BY <1>1, <2>1, <2>2, <2>3
<1>5. QuietInv'
  <2> SUFFICES ASSUME clean, found # {}
               PROVE  /\ found \subseteq DOMAIN db.chunks /\ Len(ranked) # 0
                      /\ pc' = "judge" => Whole(first)'
                      /\ pc' = "idle" => Whole(Results)'
    BY <1>1 DEF QuietInv, QuietSearch, Answered
  <2>1. found \subseteq DOMAIN db.chunks /\ Len(ranked) # 0 /\ Whole(results)
    BY DEF QuietInv, QuietSearch
  <2>2. Matched' = Matched /\ Leader' = Leader
    BY <1>1 DEF Matched, Leader
  <2>3. results # <<>>
    <3>1. Len(<<>>) = 0 /\ Len(results) # 0
      BY <2>1 DEF Whole, Exact
    <3>2. QED
      BY <3>1
  <2>4. ASSUME pc' = "judge" PROVE Whole(first)'
    <3>1. first' = results
      BY <1>1, <2>4
    <3>2. QED
      BY <1>1, <2>1, <2>2, <3>1 DEF Whole, Exact, Best
  <2>5. ASSUME pc' = "idle" PROVE Whole(Results)'
    <3>1. answer'.parents = results
      BY <1>1, <2>3, <2>5
    <3>2. QED
      BY <1>1, <2>1, <2>2, <3>1 DEF Whole, Exact, Best, Results
  <2>6. QED
    BY <2>1, <2>4, <2>5
<1>6. QED
  BY <1>2, <1>4, <1>5 DEF PipeTypes

\* A pass begins with nothing found.
LEMMA StartTypes ==
    ASSUME PipeTypes, NEW c, NEW n \in 1 .. MaxVariants, StartPass(c, n),
           c.k \in 1 .. ParentPool \cup {TopParents}, c.top \in Nat \ {0},
           UNCHANGED indexVars,
           \A i \in DOMAIN first' : first'[i] \in ResultRecords,
           \A i \in DOMAIN answer'.parents : answer'.parents[i] \in ResultRecords,
           answer'.status \in {"none", "ok", "error", "declined"},
           obeyed' \in BOOLEAN
    PROVE  PipeTypes' /\ QuietInv'
<1>1. /\ pc' = "search" /\ call' = c /\ todo' = n /\ legIds' = {} /\ found' = {}
      /\ ranked' = <<>> /\ parents' = <<>> /\ clean' = TRUE
  BY DEF StartPass, Locals
<1>2. n \in 0 .. MaxVariants
  BY PoolsAssumption
<1>3. ToSet(<<>>) = {}
  BY DEF ToSet
<1>4. TypedQuery'
  BY <1>1, <1>2, <1>3, EmptyResults DEF TypedQuery, Steps
<1>5. CatalogOK'
  BY CatalogStays
<1>6. QED
  BY <1>1, <1>4, <1>5 DEF PipeTypes, QuietInv, QuietSearch

LEMMA AskTypes == ASSUME PipeTypes, Ask PROVE PipeTypes' /\ QuietInv'
<1>1. /\ ParentPool \in Nat \ {0} /\ TopParents \in Nat \ {0} /\ MaxVariants \in Nat \ {0}
      /\ Ks \subseteq Int
  BY PoolsAssumption, KsAssumption
<1>2. CASE AmbientTurn
  <2> DEFINE c == [kind |-> "ambient", k |-> TopParents, top |-> ParentPool, pass |-> 1]
  <2>1. /\ StartPass(c, 1) /\ first' = <<>> /\ answer' = [status |-> "none", parents |-> <<>>]
        /\ UNCHANGED indexVars /\ obeyed' = TRUE
    BY <1>2 DEF AmbientTurn, NewQuery
  <2>2. c.k \in 1 .. ParentPool \cup {TopParents} /\ c.top \in Nat \ {0}
    BY <1>1
  <2> HIDE DEF c
  <2>3. 1 \in 1 .. MaxVariants
    BY <1>1
  <2>4. QED
    BY <2>1, <2>2, <2>3, StartTypes, EmptyResults
<1>3. ASSUME NEW k \in Ks, NEW n \in 1 .. MaxVariants, RagSearch(k, n)
      PROVE  PipeTypes' /\ QuietInv'
  <2> DEFINE c == [kind |-> "explicit", k |-> Clamped(k), top |-> ParentPool, pass |-> 1]
  <2>1. /\ StartPass(c, n) /\ first' = <<>> /\ answer' = [status |-> "none", parents |-> <<>>]
        /\ UNCHANGED indexVars /\ obeyed' = TRUE
    BY <1>3 DEF RagSearch, NewQuery
  <2>2. Clamped(k) \in 1 .. ParentPool
    BY <1>1 DEF Clamped, AtMost
  <2>3. c.k \in 1 .. ParentPool \cup {TopParents} /\ c.top \in Nat \ {0}
    BY <1>1, <2>2
  <2> HIDE DEF c
  <2>4. QED
    BY <2>1, <2>3, StartTypes, EmptyResults
<1>4. QED
  BY <1>2, <1>3 DEF Ask

LEMMA JudgeTypes ==
    ASSUME PipeTypes, QuietInv, JudgeAccepts \/ \E n \in 1 .. MaxVariants : JudgeRetries(n)
    PROVE  PipeTypes' /\ QuietInv'
<1>1. CASE JudgeAccepts
  BY <1>1, AcceptTypes DEF JudgeAccepts
<1>2. ASSUME NEW n \in 1 .. MaxVariants, JudgeRetries(n)
      PROVE  PipeTypes' /\ QuietInv'
  <2> DEFINE c == [call EXCEPT !.pass = 2]
  <2>1. StartPass(c, n) /\ UNCHANGED indexVars /\ UNCHANGED <<first, answer, obeyed>>
    BY <1>2 DEF JudgeRetries
  <2>2. c.k = call.k /\ c.top = call.top
    OBVIOUS
  <2> HIDE DEF c
  <2>3. QED
    BY <2>1, <2>2, StartTypes DEF PipeTypes, TypedQuery
<1>3. QED
  BY <1>1, <1>2

\* A search with the ids of the catalog finds chunks of the catalog.
LEMMA SearchTypes ==
    ASSUME QueryIInv, PipeTypes, QuietInv, SearchBm25 \/ SearchDense
    PROVE  PipeTypes' /\ QuietInv'
<1>1. /\ pc' \in {"search", "dense"} /\ clean' = (clean /\ idsOf = commits)
      /\ UNCHANGED <<call, first, answer, ranked, owners, parents, ranker, obeyed>>
      /\ UNCHANGED indexVars /\ db' = db
  BY DEF SearchBm25, SearchDense, Move, indexVars
<1>2. /\ ids \subseteq Nat /\ legIds \subseteq Nat /\ found \subseteq Nat
      /\ todo \in 0 .. MaxVariants /\ MaxVariants \in Nat /\ clean \in BOOLEAN
  BY PoolsAssumption DEF QueryIInv, Numbers, Bounded, PipeTypes, TypedQuery
<1>3. clean' => /\ ids \subseteq DOMAIN db.chunks /\ legIds \subseteq DOMAIN db.chunks
                /\ found # {} => found \subseteq DOMAIN db.chunks
  BY <1>1 DEF PipeTypes, CatalogOK, QuietInv, QuietSearch
<1>4. /\ todo' \in 0 .. MaxVariants /\ legIds' \subseteq Nat /\ found' \subseteq Nat
      /\ found \subseteq found'
      /\ clean' => legIds' \cup found' \subseteq DOMAIN db.chunks
  <2>1. CASE SearchBm25
    <3>1. UNCHANGED <<todo, found>> /\ legIds' = ids
      BY <2>1 DEF SearchBm25
    <3>2. QED
      BY <1>2, <1>3, <3>1
  <2>2. CASE SearchDense
    <3>1. PICK ranking \in SUBSET (legIds \cup ids) : found' = found \cup ranking
      BY <2>2 DEF SearchDense
    <3>2. legIds' = {} /\ todo' = todo - 1
      BY <2>2 DEF SearchDense
    <3>3. todo # 0
      BY <2>2 DEF SearchDense, PipeTypes, TypedQuery
    <3>4. QED
      BY <1>2, <1>3, <3>1, <3>2, <3>3
  <2>3. QED
    BY <2>1, <2>2
<1>5. TypedQuery'
  <2>1. pc' = "dense" => todo' # 0
    BY <1>2 DEF SearchBm25, SearchDense, Move
  <2>2. QED
    BY <1>1, <1>2, <1>4, <2>1 DEF PipeTypes, TypedQuery, Steps
<1>6. CatalogOK'
  BY <1>1, CatalogStays
<1>7. QuietInv'
  BY <1>1, <1>4 DEF QuietInv, QuietSearch, Answered
<1>8. QED
  BY <1>5, <1>6, <1>7 DEF PipeTypes

LEMMA FuseTypes ==
    ASSUME QueryIInv, PipeTypes, QuietInv, Fuse
    PROVE  PipeTypes' /\ QuietInv'
<1>1. /\ pc = "search" /\ UNCHANGED <<searchVars, owners, parents, ranker, obeyed, clean>>
      /\ UNCHANGED <<todo, legIds, found>>
  BY DEF Fuse, searchVars
<1>2. CASE found = {} /\ EndPass(<<>>) /\ UNCHANGED ranked
  BY <1>1, <1>2, EndPassTypes, EmptyResults
<1>3. ASSUME found # {}, NEW order \in SetToSeqs(found), ranked' = Take(order, ChunkPool),
             Move("owners")
      PROVE  PipeTypes' /\ QuietInv'
  <2>1. /\ pc' = "owners" /\ UNCHANGED indexVars /\ UNCHANGED <<call, first, answer>>
        /\ db' = db
    BY <1>3 DEF Move, indexVars
  <2>2. ChunkPool \in Nat \ {0}
    BY PoolsAssumption
  <2>3. IsFiniteSet(found)
    BY DEF QueryIInv, Lists
  <2>4. /\ Listed(order) /\ Len(order) = Cardinality(found)
        /\ \A i \in DOMAIN order : order[i] \in found
    BY <1>3, <2>3, OrderIsList
  <2>5. /\ Listed(ranked') /\ Len(ranked') = AtMost(ChunkPool, Len(order))
        /\ \A i \in DOMAIN ranked' : i \in DOMAIN order /\ ranked'[i] = order[i]
    BY <1>3, <2>2, <2>4, TakeIsList
  <2>6. ToSet(ranked') \subseteq found
    BY <2>4, <2>5 DEF ToSet
  <2>7. Cardinality(found) \in Nat /\ Cardinality(found) # 0
    BY <1>3, <2>3, FS_CardinalityType, FS_EmptySet
  <2>8. Len(ranked') # 0
    BY <2>2, <2>4, <2>5, <2>7 DEF AtMost
  <2>9. TypedQuery'
    BY <1>1, <2>1, <2>6 DEF PipeTypes, TypedQuery, Steps
  <2>10. CatalogOK'
    BY <2>1, CatalogStays
  <2>11. QuietInv'
    BY <1>1, <2>1, <2>8 DEF QuietInv, QuietSearch, Answered
  <2>12. QED
    BY <2>9, <2>10, <2>11 DEF PipeTypes
<1>4. QED
  BY <1>2, <1>3 DEF Fuse

-----------------------------------------------------------------------------
(* The three reads, and the rankers between them *)

\* An order of a set has all of the set.
LEMMA OrderIsOnto ==
    ASSUME NEW S, IsFiniteSet(S), NEW order \in SetToSeqs(S), NEW x \in S
    PROVE  \E i \in DOMAIN order : order[i] = x
<1> DEFINE n == Cardinality(S)
<1>1. n \in Nat
  BY FS_CardinalityType
<1>2. order \in [1 .. n -> S] /\ \A i, j \in 1 .. n : i # j => order[i] # order[j]
  BY DEF SetToSeqs
<1>3. order \in Injection(1 .. n, S)
  BY <1>2 DEF Injection, IsInjective
<1> HIDE DEF n
<1>4. Cardinality(1 .. n) = n
  <2>1. 1 \in Int /\ n \in Int
    BY <1>1
  <2>2. Cardinality(1 .. n) = IF 1 > n THEN 0 ELSE n - 1 + 1
    BY <2>1, FS_Interval
  <2>3. QED
    BY <1>1, <2>2
<1>5. order \in Surjection(1 .. n, S)
  BY <1>3, <1>4, FS_Injection DEF n
<1>6. QED
  BY <1>2, <1>5 DEF Surjection

\* The parents of the ranked chunks have each a best one.
LEMMA BestRankExists ==
    ASSUME Listed(ranked), NEW p \in Matched
    PROVE  BestRank(p) \in DOMAIN ranked
<1> DEFINE places == {i \in DOMAIN ranked : /\ ranked[i] \in DOMAIN db.chunks
                                            /\ db.chunks[ranked[i]] = p}
<1>1. DOMAIN ranked = 1 .. Len(ranked) /\ Len(ranked) \in Nat
  BY DEF Listed
<1>2. places # {} /\ places \subseteq Nat
  BY <1>1 DEF Matched, ToSet
<1>3. IsWellFoundedOn(OpToRel(<, Nat), Nat)
  BY NatLessThanWellFounded
<1>4. PICK i \in places : \A j \in places : ~(<<j, i>> \in OpToRel(<, Nat))
  BY <1>2, <1>3, WFMin
<1>5. \A j \in places : ~(j < i)
  BY <1>2, <1>4 DEF OpToRel
<1>6. i \in DOMAIN ranked /\ ranked[i] \in DOMAIN db.chunks /\ db.chunks[ranked[i]] = p
  BY <1>4
<1>7. \A j \in 1 .. i - 1 : j \in DOMAIN ranked /\ j < i
  BY <1>1, <1>6
<1>8. \A j \in 1 .. i - 1 : ranked[j] \in DOMAIN db.chunks => db.chunks[ranked[j]] # p
  BY <1>5, <1>7
<1>9. QED
  BY <1>6, <1>8 DEF BestRank

\* When all ranked chunks are there, the parent of the first one leads.
LEMMA LeaderIsFirst ==
    ASSUME QueryIInv, Len(ranked) # 0, ToSet(ranked) \subseteq DOMAIN db.chunks,
           NEW order \in SetToSeqs(Matched),
           Ascending([i \in DOMAIN order |-> BestRank(order[i])])
    PROVE  /\ Listed(order) /\ Len(order) = Cardinality(Matched) /\ Len(order) # 0
           /\ \A i \in DOMAIN order : order[i] \in Matched
           /\ order[1] = Leader
<1>1. Listed(ranked) /\ IsFiniteSet(Matched)
  BY OwnersAreFinite DEF QueryIInv, Lists, Matched
<1>2. /\ Listed(order) /\ Len(order) = Cardinality(Matched)
      /\ \A i \in DOMAIN order : order[i] \in Matched
  BY <1>1, OrderIsList
<1>3. /\ DOMAIN ranked = 1 .. Len(ranked) /\ Len(ranked) \in Nat \ {0} /\ 1 \in DOMAIN ranked
      /\ DOMAIN order = 1 .. Len(order) /\ Len(order) \in Nat
  BY <1>1, <1>2 DEF Listed
<1>4. ranked[1] \in DOMAIN db.chunks /\ Leader \in Matched
  BY <1>3 DEF Leader, Matched, ToSet
<1>5. PICK m \in DOMAIN order : order[m] = Leader
  BY <1>1, <1>4, OrderIsOnto
<1>6. BestRank(Leader) = 1
  <2> DEFINE best(i) == /\ ranked[i] \in DOMAIN db.chunks /\ db.chunks[ranked[i]] = Leader
                        /\ \A j \in 1 .. i - 1 :
                              ranked[j] \in DOMAIN db.chunks => db.chunks[ranked[j]] # Leader
  <2>1. best(1)
    BY <1>4 DEF Leader
  <2>2. ASSUME NEW i \in DOMAIN ranked, best(i) PROVE i = 1
    <3>1. i # 1 => 1 \in 1 .. i - 1
      BY <1>3
    <3>2. QED
      BY <1>4, <2>2, <3>1 DEF Leader
  <2>3. BestRank(Leader) = CHOOSE i \in DOMAIN ranked : best(i)
    BY DEF BestRank
  <2> HIDE DEF best
  <2>4. QED
    BY <1>3, <2>1, <2>2, <2>3
<1>7. m = 1
  <2> SUFFICES ASSUME m # 1 PROVE FALSE
    OBVIOUS
  <2>1. 1 \in DOMAIN order /\ 1 < m
    BY <1>3, <1>5
  <2>2. BestRank(order[1]) < BestRank(order[m])
    BY <2>1 DEF Ascending
  <2>3. BestRank(order[1]) \in 1 .. Len(ranked)
    BY <1>1, <1>2, <1>3, <2>1, BestRankExists
  <2>4. QED
    BY <1>3, <1>5, <1>6, <2>2, <2>3
<1>8. QED
  BY <1>2, <1>3, <1>5, <1>7

LEMMA OwnersTypes ==
    ASSUME QueryIInv, PipeTypes, QuietInv, Owners
    PROVE  PipeTypes' /\ QuietInv'
<1>1. /\ pc = "owners" /\ pc' = "rows"
      /\ UNCHANGED <<todo, legIds, found, ranked, parents, ranker, obeyed, clean>>
      /\ UNCHANGED indexVars /\ UNCHANGED <<call, first, answer>> /\ db' = db
  BY DEF Owners, Move, indexVars, searchVars
<1>2. PICK order \in SetToSeqs(Matched) :
          /\ Ascending([i \in DOMAIN order |-> BestRank(order[i])])
          /\ owners' = Take(order, call.top)
  BY DEF Owners, Matched
<1>3. CatalogOK' /\ TypedQuery'
  BY <1>1, CatalogStays DEF PipeTypes, TypedQuery, Steps
<1>4. QuietInv'
  <2> SUFFICES ASSUME clean, found # {}
               PROVE  /\ found \subseteq DOMAIN db.chunks /\ Len(ranked) # 0
                      /\ Len(owners') # 0 /\ ToSet(owners') \subseteq Matched
                      /\ Len(owners') = AtMost(call.top, Cardinality(Matched))
                      /\ owners'[1] = Leader
    <3>1. Matched' = Matched /\ Leader' = Leader
      BY <1>1 DEF Matched, Leader
    <3>2. QED
      BY <1>1, <3>1 DEF QuietInv, QuietSearch, Answered
  <2>1. /\ found \subseteq DOMAIN db.chunks /\ Len(ranked) # 0
        /\ ToSet(ranked) \subseteq found /\ call.top \in Nat \ {0}
    BY <1>1 DEF QuietInv, QuietSearch, PipeTypes, TypedQuery
  <2>2. /\ Listed(order) /\ Len(order) = Cardinality(Matched) /\ Len(order) # 0
        /\ \A i \in DOMAIN order : order[i] \in Matched
        /\ order[1] = Leader
    BY <1>2, <2>1, LeaderIsFirst
  <2>3. /\ Listed(owners') /\ Len(owners') = AtMost(call.top, Len(order))
        /\ \A i \in DOMAIN owners' : i \in DOMAIN order /\ owners'[i] = order[i]
    BY <1>2, <2>1, <2>2, TakeIsList
  <2>4. Len(order) \in Nat
    BY <2>2 DEF Listed
  <2>5. Len(owners') # 0 /\ 1 \in DOMAIN owners'
    BY <2>1, <2>2, <2>3, <2>4 DEF AtMost, Listed
  <2>6. ToSet(owners') \subseteq Matched
    BY <2>2, <2>3 DEF ToSet
  <2>7. QED
    BY <2>1, <2>2, <2>3, <2>5, <2>6
<1>5. QED
  BY <1>3, <1>4 DEF PipeTypes

LEMMA FetchRowsTypes ==
    ASSUME QueryIInv, PipeTypes, QuietInv, FetchRows
    PROVE  PipeTypes' /\ QuietInv'
<1> DEFINE known == {i \in DOMAIN owners : owners[i] \in DOMAIN db.parents}
<1>1. /\ pc = "rows" /\ UNCHANGED <<searchVars, ranked, owners, ranker, obeyed, clean>>
      /\ UNCHANGED <<todo, legIds, found>>
  BY DEF FetchRows, searchVars
<1>2. DOMAIN owners = 1 .. Len(owners) /\ Len(owners) \in Nat
  BY DEF QueryIInv, Lists, Listed
<1>3. clean /\ found # {} => /\ known = 1 .. Len(owners) /\ Len(owners) # 0 /\ Len(ranked) # 0
                             /\ owners[1] = Leader /\ 1 \in known
                             /\ \A i \in known : owners[i] \in Matched
                             /\ Len(owners) = AtMost(call.top, Cardinality(Matched))
  <2> SUFFICES ASSUME clean, found # {}
               PROVE  /\ known = 1 .. Len(owners) /\ Len(owners) # 0 /\ Len(ranked) # 0
                      /\ owners[1] = Leader /\ 1 \in known
                      /\ \A i \in known : owners[i] \in Matched
                      /\ Len(owners) = AtMost(call.top, Cardinality(Matched))
    OBVIOUS
  <2>1. /\ Len(owners) # 0 /\ ToSet(owners) \subseteq Matched /\ Len(ranked) # 0
        /\ owners[1] = Leader /\ Len(owners) = AtMost(call.top, Cardinality(Matched))
    BY <1>1 DEF QuietInv, QuietSearch
  <2>2. \A i \in DOMAIN owners : owners[i] \in Matched /\ owners[i] \in DOMAIN db.parents
    BY <2>1, MatchedHaveRows DEF ToSet
  <2>3. QED
    BY <1>2, <2>1, <2>2
<1>4. CASE known = {} /\ EndPass(<<>>) /\ UNCHANGED parents
  <2>1. ~(clean /\ found # {})
    BY <1>3, <1>4
  <2>2. QED
    BY <1>1, <1>4, <2>1, EndPassTypes, EmptyResults
<1>5. ASSUME NEW kept \in SetToSeqs(known), Ascending(kept), Move("rerank"),
             parents' = [i \in DOMAIN kept |->
                            Result(owners[kept[i]], db.parents[owners[kept[i]]])]
      PROVE  PipeTypes' /\ QuietInv'
  <2>1. /\ pc' = "rerank" /\ UNCHANGED indexVars /\ UNCHANGED <<call, first, answer>> /\ db' = db
    BY <1>5 DEF Move, indexVars
  <2>2. IsFiniteSet(known)
    <3>1. IsFiniteSet(1 .. Len(owners)) /\ known \subseteq 1 .. Len(owners)
      BY <1>2, FS_Interval
    <3>2. QED
      BY <3>1, FS_Subset
  <2>3. /\ Listed(kept) /\ Len(kept) = Cardinality(known)
        /\ \A i \in DOMAIN kept : kept[i] \in known
    BY <1>5, <2>2, OrderIsList
  <2>4. /\ DOMAIN kept = 1 .. Len(kept) /\ Len(kept) \in Nat /\ DOMAIN parents' = DOMAIN kept
        /\ \A i \in DOMAIN kept :
              /\ parents'[i].id = owners[kept[i]] /\ parents'[i].full = FALSE
              /\ parents'[i].head = db.parents[owners[kept[i]]]
              /\ parents'[i].text = db.parents[owners[kept[i]]]
              /\ parents'[i] = [id |-> owners[kept[i]], head |-> db.parents[owners[kept[i]]],
                                text |-> db.parents[owners[kept[i]]], full |-> FALSE]
    BY <1>5, <2>3 DEF Result, Listed
  <2>5. Len(parents') = Len(kept)
    BY <1>5, <2>4
  <2>6. \A i \in DOMAIN parents' : parents'[i] \in ResultRecords
    <3> SUFFICES ASSUME NEW i \in DOMAIN kept PROVE parents'[i] \in ResultRecords
      BY <2>4
    <3>1. owners[kept[i]] \in DOMAIN db.parents
      BY <2>3
    <3>2. owners[kept[i]] \in Nat /\ db.parents[owners[kept[i]]] \in ParentRows
      BY <3>1 DEF PipeTypes, CatalogOK
    <3> DEFINE p == owners[kept[i]]
               r == [id |-> p, head |-> db.parents[p], text |-> db.parents[p], full |-> FALSE]
    <3> HIDE DEF p
    <3>3. r \in ResultRecords
      BY <3>2 DEF ResultRecords, p
    <3>4. parents'[i] = r
      BY <2>4 DEF p
    <3>5. QED
      BY <3>3, <3>4
  <2>7. CatalogOK' /\ TypedQuery'
    BY <1>1, <2>1, <2>6, CatalogStays DEF PipeTypes, TypedQuery, Steps
  <2>8. QuietInv'
    <3> SUFFICES ASSUME clean, found # {}
                 PROVE  /\ found \subseteq DOMAIN db.chunks /\ Len(ranked) # 0
                        /\ Exact(parents)' /\ parents'[1].id = Leader
                        /\ Len(parents') = AtMost(call.top, Cardinality(Matched))
      <4>1. Matched' = Matched /\ Leader' = Leader
        BY <1>1, <2>1 DEF Matched, Leader
      <4>2. QED
        BY <1>1, <2>1, <4>1 DEF QuietInv, QuietSearch, Answered
    <3>1. /\ known = 1 .. Len(owners) /\ Len(owners) # 0 /\ Len(ranked) # 0
          /\ owners[1] = Leader /\ 1 \in known
          /\ \A i \in known : owners[i] \in Matched
          /\ Len(owners) = AtMost(call.top, Cardinality(Matched))
          /\ found \subseteq DOMAIN db.chunks
      BY <1>3 DEF QuietInv, QuietSearch
    <3>2. Cardinality(1 .. Len(owners)) = Len(owners)
      <4> DEFINE n == Len(owners)
      <4>1. n \in Nat /\ 1 \in Int /\ n \in Int
        BY <1>2
      <4> HIDE DEF n
      <4>2. Cardinality(1 .. n) = IF 1 > n THEN 0 ELSE n - 1 + 1
        BY <4>1, FS_Interval
      <4>3. Cardinality(1 .. n) = n
        BY <4>1, <4>2
      <4>4. QED
        BY <4>3 DEF n
    <3>3. Len(parents') = Len(owners) /\ Len(parents') # 0
      BY <2>3, <2>5, <3>1, <3>2
    <3>a. kept \in SetToSeqs(known)
      BY <1>5
    <3> HIDE DEF known
    <3>4. PICK m \in DOMAIN kept : kept[m] = 1
      BY <2>2, <3>1, <3>a, OrderIsOnto
    <3>5. kept[1] = 1 /\ 1 \in DOMAIN kept
      <4>1. 1 \in DOMAIN kept /\ (m = 1 \/ 1 < m)
        BY <2>4, <3>4
      <4>2. CASE 1 < m
        <5>1. kept[1] < kept[m]
          BY <1>5, <4>1, <4>2 DEF Ascending
        <5>2. kept[1] \in 1 .. Len(owners)
          BY <2>3, <3>1, <4>1
        <5>3. QED
          BY <1>2, <3>4, <5>1, <5>2
      <4>3. QED
        BY <3>4, <4>1, <4>2
    <3>6. parents'[1].id = Leader
      BY <2>4, <3>1, <3>5
    <3>7. \A i \in DOMAIN parents' : /\ parents'[i].id \in Matched
                                     /\ parents'[i].head = db.parents[parents'[i].id]
                                     /\ parents'[i].text = parents'[i].head
      BY <2>3, <2>4, <3>1
    <3>8. Matched' = Matched
      BY <1>1, <2>1 DEF Matched
    <3>9. QED
      BY <2>1, <3>1, <3>3, <3>6, <3>7, <3>8 DEF Exact
  <2>9. QED
    BY <2>7, <2>8 DEF PipeTypes
<1>6. QED
  BY <1>4, <1>5 DEF FetchRows

LEMMA RerankedTypes ==
    ASSUME QueryIInv, PipeTypes, QuietInv, pc = "rerank",
           NEW by \in {"cohere", "local", "identity"}, NEW order, Reranked(by, order),
           Listed(order), \A i \in DOMAIN order : order[i] \in DOMAIN parents,
           Len(parents) # 0 => Len(order) # 0,
           by # "cohere" => Len(order) = Kept,
           by = "identity" => \A i \in DOMAIN order : order[i] = i
    PROVE  PipeTypes' /\ QuietInv'
<1> DEFINE step == IF call.kind = "ambient" THEN "gate" ELSE "rehydrate"
<1>1. /\ parents' = [i \in DOMAIN order |-> parents[order[i]]] /\ ranker' = by
      /\ pc' = step /\ UNCHANGED <<todo, legIds, found, ranked, owners, clean>>
      /\ obeyed' \in BOOLEAN
      /\ UNCHANGED indexVars /\ UNCHANGED <<call, first, answer>> /\ db' = db
  BY DEF Reranked, Move, indexVars, searchVars
<1>2. step \in {"gate", "rehydrate"}
  OBVIOUS
<1> HIDE DEF step
<1>3. DOMAIN order = 1 .. Len(order) /\ Len(order) \in Nat
  BY DEF Listed
<1>4. /\ DOMAIN parents' = DOMAIN order /\ Len(parents') = Len(order)
      /\ \A i \in DOMAIN order : parents'[i] = parents[order[i]]
  BY <1>1, <1>3
<1>5. \A i \in DOMAIN parents' : parents'[i] \in ResultRecords
  BY <1>4 DEF PipeTypes, TypedQuery
<1>6. CatalogOK' /\ TypedQuery'
  BY <1>1, <1>2, <1>5, CatalogStays DEF PipeTypes, TypedQuery, Steps
<1>7. QuietInv'
  <2> SUFFICES ASSUME clean, found # {}
               PROVE  /\ found \subseteq DOMAIN db.chunks /\ Len(ranked) # 0
                      /\ Exact(parents)' /\ Best(parents)'
    BY <1>1, <1>2 DEF QuietInv, QuietSearch, Answered
  <2>1. /\ found \subseteq DOMAIN db.chunks /\ Len(ranked) # 0
        /\ Exact(parents) /\ parents[1].id = Leader
        /\ Len(parents) = AtMost(call.top, Cardinality(Matched))
    BY DEF QuietInv, QuietSearch
  <2>2. Matched' = Matched /\ Leader' = Leader
    BY <1>1 DEF Matched, Leader
  <2>3. Len(order) # 0 /\ 1 \in DOMAIN order
    BY <1>3, <2>1 DEF Exact
  <2>4. Exact(parents)'
    BY <1>1, <1>4, <2>1, <2>2, <2>3 DEF Exact
  <2>5. by # "cohere" =>
            Len(parents') = AtMost(call.k, AtMost(call.top, Cardinality(Matched)))
    BY <1>4, <2>1 DEF Kept
  <2>6. by = "identity" => parents'[1].id = Leader
    BY <1>4, <2>1, <2>3
  <2>7. Best(parents)'
    BY <1>1, <2>2, <2>5, <2>6 DEF Best
  <2>8. QED
    BY <2>1, <2>4, <2>7
<1>8. QED
  BY <1>6, <1>7 DEF PipeTypes

LEMMA RerankTypes ==
    ASSUME QueryIInv, PipeTypes, QuietInv, CohereRanks \/ LocalRanks \/ IdentityRanks
    PROVE  PipeTypes' /\ QuietInv'
<1>1. /\ Kept \in Nat /\ Kept <= call.k /\ Kept <= Len(parents)
      /\ DOMAIN parents = 1 .. Len(parents) /\ Len(parents) \in Nat
      /\ IsFiniteSet(DOMAIN parents) /\ Cardinality(DOMAIN parents) = Len(parents)
  BY KeptIsNumber
<1>2. Len(parents) # 0 => Kept # 0
  <2>1. call.k \in Nat \ {0}
    BY PoolsAssumption DEF PipeTypes, TypedQuery
  <2>2. QED
    BY <1>1, <2>1 DEF Kept, AtMost
<1>3. CASE CohereRanks
  <2>1. PICK n \in 1 .. MaxIndices :
            \E order \in [1 .. n -> DOMAIN parents] : Reranked("cohere", order)
    BY <1>3 DEF CohereRanks
  <2>2. PICK order \in [1 .. n -> DOMAIN parents] : Reranked("cohere", order)
    BY <2>1
  <2>3. n \in Nat /\ n # 0 /\ pc = "rerank"
    BY <1>3, IndicesAssumption DEF CohereRanks
  <2>4. /\ Listed(order) /\ Len(order) = n
        /\ \A i \in DOMAIN order : order[i] \in DOMAIN parents
    BY <2>3, IndicesAreList
  <2>5. QED
    BY <2>2, <2>3, <2>4, RerankedTypes
<1>4. CASE LocalRanks
  <2>1. PICK order \in SetToSeqs(DOMAIN parents) : Reranked("local", Take(order, Kept))
    BY <1>4 DEF LocalRanks
  <2>2. /\ Listed(order) /\ Len(order) = Len(parents)
        /\ \A i \in DOMAIN order : order[i] \in DOMAIN parents
    BY <1>1, <2>1, OrderIsList
  <2> DEFINE best == Take(order, Kept)
  <2>3. /\ Listed(best) /\ Len(best) = AtMost(Kept, Len(order))
        /\ \A i \in DOMAIN best : i \in DOMAIN order /\ best[i] = order[i]
    BY <1>1, <2>2, TakeIsList
  <2> HIDE DEF best
  <2>4. Len(best) = Kept
    BY <1>1, <2>2, <2>3 DEF AtMost
  <2>5. pc = "rerank" /\ Reranked("local", best)
    BY <1>4, <2>1 DEF LocalRanks, best
  <2>6. QED
    BY <1>2, <2>2, <2>3, <2>4, <2>5, RerankedTypes
<1>5. CASE IdentityRanks
  <2> DEFINE order == [i \in 1 .. Kept |-> i]
  <2>1. pc = "rerank" /\ Reranked("identity", order)
    BY <1>5 DEF IdentityRanks
  <2>2. Len(order) = Kept /\ DOMAIN order = 1 .. Kept /\ \A i \in 1 .. Kept : order[i] = i
    BY <1>1
  <2> HIDE DEF order
  <2>3. Listed(order) /\ \A i \in DOMAIN order : order[i] = i /\ order[i] \in DOMAIN parents
    BY <1>1, <2>2 DEF Listed
  <2>4. QED
    BY <1>2, <2>1, <2>2, <2>3, RerankedTypes
<1>6. QED
  BY <1>3, <1>4, <1>5

LEMMA GateTypes ==
    ASSUME PipeTypes, QuietInv, Gate
    PROVE  PipeTypes' /\ QuietInv'
<1>1. pc = "gate"
  BY DEF Gate
<1>2. CASE /\ Move("rehydrate")
           /\ UNCHANGED <<todo, legIds, found, ranked, owners, parents, ranker, obeyed, clean>>
  <2>1. /\ pc' = "rehydrate" /\ UNCHANGED indexVars /\ UNCHANGED <<call, first, answer>>
        /\ db' = db
    BY <1>2 DEF Move, indexVars
  <2>2. CatalogOK' /\ TypedQuery'
    BY <1>1, <1>2, <2>1, CatalogStays DEF PipeTypes, TypedQuery, Steps
  <2>3. Exact(parents)' = Exact(parents) /\ Best(parents)' = Best(parents)
    BY <1>2, <2>1 DEF Exact, Best, Leader, Matched
  <2>4. QuietInv'
    BY <1>1, <1>2, <2>1, <2>3 DEF QuietInv, QuietSearch, Answered
  <2>5. QED
    BY <2>2, <2>4 DEF PipeTypes
<1>3. CASE Finish("declined", <<>>) /\ Forget
  BY <1>3, FailTypes
<1>4. QED
  BY <1>2, <1>3 DEF Gate, searchVars

\* Without a transaction in between every parent is still there, as it was.
LEMMA RehydrateTypes ==
    ASSUME QueryIInv, PipeTypes, QuietInv, Rehydrate
    PROVE  PipeTypes' /\ QuietInv'
<1> DEFINE full == [i \in DOMAIN parents |->
                       IF parents[i].id \in DOMAIN db.parents
                       THEN [parents[i] EXCEPT !.text = db.parents[parents[i].id], !.full = TRUE]
                       ELSE parents[i]]
<1>1. pc = "rehydrate" /\ EndPass(full)
      /\ UNCHANGED <<searchVars, ranked, owners, parents, ranker, obeyed, clean>>
  BY DEF Rehydrate
<1>2. DOMAIN parents = 1 .. Len(parents) /\ Len(parents) \in Nat
  BY DEF QueryIInv, Lists, Listed
<1>3. \A i \in DOMAIN parents : parents[i] \in ResultRecords
  BY DEF PipeTypes, TypedQuery
<1>4. DOMAIN full = DOMAIN parents /\ Len(full) = Len(parents)
  BY <1>2
<1>5. \A i \in DOMAIN full : full[i] \in ResultRecords
  <2> SUFFICES ASSUME NEW i \in DOMAIN parents PROVE full[i] \in ResultRecords
    BY <1>4
  <2>1. CASE parents[i].id \in DOMAIN db.parents
    <3> DEFINE row == db.parents[parents[i].id]
               r   == parents[i]
    <3>1. row \in ParentRows /\ r \in ResultRecords
      BY <1>3, <2>1 DEF PipeTypes, CatalogOK
    <3>2. full[i] = [r EXCEPT !.text = row, !.full = TRUE]
      BY <2>1
    <3> HIDE DEF row, r
    <3>3. [r EXCEPT !.text = row, !.full = TRUE] \in ResultRecords
      BY <3>1 DEF ResultRecords
    <3>4. QED
      BY <3>2, <3>3
  <2>2. CASE parents[i].id \notin DOMAIN db.parents
    BY <1>3, <2>2
  <2>3. QED
    BY <2>1, <2>2
<1>6. ASSUME clean, found # {} PROVE Len(ranked) # 0 /\ Whole(full)
  <2>1. Len(ranked) # 0 /\ Exact(parents) /\ Best(parents)
    BY <1>1, <1>6 DEF QuietInv, QuietSearch
  <2>2. ASSUME NEW i \in DOMAIN parents
        PROVE  /\ full[i].id = parents[i].id /\ full[i].head = parents[i].head
               /\ full[i].text = full[i].head /\ full[i].full
    <3>1. /\ parents[i].id \in DOMAIN db.parents /\ parents[i] \in ResultRecords
          /\ parents[i].head = db.parents[parents[i].id]
      BY <1>3, <2>1, MatchedHaveRows DEF Exact
    <3> DEFINE row == db.parents[parents[i].id]
               r   == parents[i]
    <3>2. full[i] = [r EXCEPT !.text = row, !.full = TRUE]
      BY <3>1
    <3>3. r \in ResultRecords /\ r.head = row
      BY <3>1
    <3> HIDE DEF row, r, full
    <3>4. /\ full[i].id = r.id /\ full[i].head = r.head /\ full[i].text = row
          /\ full[i].full
      BY <3>2, <3>3 DEF ResultRecords
    <3>5. QED
      BY <3>3, <3>4 DEF r
  <2> HIDE DEF full
  <2>3. Exact(full)
    BY <1>4, <2>1, <2>2 DEF Exact
  <2>4. 1 \in DOMAIN parents
    BY <1>2, <2>1 DEF Exact
  <2>5. Best(full)
    BY <1>4, <2>1, <2>2, <2>4 DEF Best
  <2>6. QED
    BY <1>4, <2>1, <2>2, <2>3, <2>5 DEF Whole
<1> HIDE DEF full
<1>7. QED
  BY <1>1, <1>5, <1>6, EndPassTypes

-----------------------------------------------------------------------------
LEMMA PipeStarts == Init => PipeTypes /\ QuietInv
<1> SUFFICES ASSUME Init PROVE PipeTypes /\ QuietInv
  OBVIOUS
<1>1. /\ DOMAIN db.parents = {} /\ DOMAIN db.chunks = {} /\ ids = {} /\ commits = 0 /\ idsOf = 0
      /\ legIds = {} /\ found = {} /\ pc = "idle" /\ obeyed = TRUE /\ call.k = 1 /\ call.top = 1 /\ todo = 0
      /\ ranked = <<>> /\ parents = <<>> /\ first = <<>> /\ answer.parents = <<>>
      /\ answer.status = "none" /\ clean = TRUE
  BY DEF Init, NoCall
<1>2. Bounded({}) /\ 1 \in 1 .. ParentPool /\ MaxVariants \in Nat /\ ToSet(<<>>) = {}
  BY PoolsAssumption DEF Bounded, ToSet
<1>3. CatalogOK
  BY <1>1, <1>2, CommitsAssumption DEF CatalogOK
<1>4. TypedQuery
  BY <1>1, <1>2, EmptyResults DEF TypedQuery
<1>5. QED
  BY <1>1, <1>3, <1>4 DEF PipeTypes, QuietInv, QuietSearch

LEMMA PipeStep == QueryIInv /\ PipeTypes /\ QuietInv /\ [Next]_vars => PipeTypes' /\ QuietInv'
<1> SUFFICES ASSUME QueryIInv, PipeTypes, QuietInv, [Next]_vars PROVE PipeTypes' /\ QuietInv'
  OBVIOUS
<1>1. CASE UNCHANGED vars
  <2>1. UNCHANGED <<db, commits, ids, idsOf, pc, call, todo, legIds, found, ranked, owners,
                    parents, ranker, first, answer, obeyed, clean>>
    BY <1>1 DEF vars, indexVars, queryVars, searchVars
  <2>2. PipeTypes'
    BY <2>1 DEF PipeTypes, CatalogOK, TypedQuery
  <2>3. QuietInv'
    BY <2>1 DEF QuietInv, QuietSearch, Exact, Best, Whole, Leader, Matched, Answered, Results
  <2>4. QED
    BY <2>2, <2>3
<1>2. CASE QueryRaises
  BY <1>2, FailTypes DEF QueryRaises
<1>3. CASE Step
  BY <1>2, <1>3, SearchTypes, FuseTypes, OwnersTypes, FetchRowsTypes, RerankTypes,
     GateTypes, RehydrateTypes, JudgeTypes DEF Step
<1>4. CASE Environment
  BY <1>4, DeleteTypes, InsertTypes, ReloadTypes DEF Environment
<1>5. QED
  BY <1>1, <1>3, <1>4, AskTypes DEF Next

LEMMA PipeAlways == Spec => [](PipeTypes /\ QuietInv)
<1>1. Init => PipeTypes /\ QuietInv
  BY PipeStarts
<1>2. QueryIInv /\ (PipeTypes /\ QuietInv) /\ [Next]_vars => (PipeTypes /\ QuietInv)'
  BY PipeStep
<1>3. QED
  BY <1>1, <1>2, QueryAlways, PTL DEF Spec

-----------------------------------------------------------------------------
(* What lasts is found: stale ids in a ranking cost only themselves.  As     *)
(* time goes on ever fewer rows have lasted since the owners were read, and  *)
(* to those the catalog still gives the same ids.                            *)

Owned == \A c \in ToSet(ranked) \cap DOMAIN db.chunks :
            Lasting(db.chunks[c]) => \/ db.chunks[c] \in ToSet(owners)
                                    \/ Len(owners) = call.top

AllFound(results) == \A p \in ToSet(owners) :
                        Lasting(p) => \E i \in DOMAIN results : results[i].id = p

FoundUpTo(results) == ranker # "cohere" /\ Len(results) # call.k => AllFound(results)

\* Where a pass has its owners.
OwnersKnown == pc \in {"rows", "rerank", "gate", "rehydrate", "judge"} \/ Answered

LastingInv ==
    /\ ownersAt \in 0 .. commits
    /\ pc \in {"search", "dense"} => ranked = <<>> /\ owners = <<>>
    /\ OwnersKnown => Owned
    /\ pc = "rerank" => AllFound(parents)
    /\ pc \in {"gate", "rehydrate"} => FoundUpTo(parents)
    /\ pc = "judge" => FoundUpTo(first)
    /\ Answered => FoundUpTo(Results)

\* A pass that has nothing to show has had no owner that lasts.
LEMMA NothingIsFound ==
    ASSUME PipeTypes, FoundUpTo(<<>>), NEW results
    PROVE  FoundUpTo(results)
<1>1. Len(<<>>) # call.k
  <2>1. call.k # 0
    BY PoolsAssumption DEF PipeTypes, TypedQuery
  <2>2. QED
    BY <2>1
<1>2. QED
  BY <1>1, EmptyResults DEF FoundUpTo, AllFound

LEMMA LastingEndPass ==
    ASSUME PipeTypes, LastingInv, NEW results, EndPass(results), Owned, FoundUpTo(results),
           UNCHANGED <<ranked, owners, ownersAt, ranker>>
    PROVE  LastingInv'
<1>1. /\ UNCHANGED <<db, commits, call>>
      /\ \/ /\ pc' = "idle" /\ first' = first
            /\ \/ answer' = [status |-> "ok", parents |-> results]
               \/ answer' = [status |-> "ok", parents |-> first] /\ results = <<>>
         \/ pc' = "judge" /\ first' = results
  BY DEF EndPass, Finish, indexVars
<1>2. Owned' /\ \A r : FoundUpTo(r) => FoundUpTo(r)'
  BY <1>1 DEF Owned, FoundUpTo, AllFound, Lasting
<1>3. ownersAt' \in 0 .. commits'
  BY <1>1 DEF LastingInv
<1>4. CASE pc' = "judge" /\ first' = results
  <2>1. FoundUpTo(first)'
    BY <1>1, <1>4 DEF FoundUpTo, AllFound, Lasting
  <2>2. QED
    BY <1>2, <1>3, <1>4, <2>1 DEF LastingInv, Answered
<1>5. CASE pc' = "idle" /\ answer' = [status |-> "ok", parents |-> results]
  <2>1. FoundUpTo(Results)'
    BY <1>1, <1>5 DEF FoundUpTo, AllFound, Lasting, Results
  <2>2. QED
    BY <1>2, <1>3, <1>5, <2>1 DEF LastingInv
<1>6. CASE /\ pc' = "idle" /\ answer' = [status |-> "ok", parents |-> first]
           /\ results = <<>>
  <2>1. FoundUpTo(first)
    BY <1>6, NothingIsFound
  <2>2. FoundUpTo(Results)'
    BY <1>1, <1>6, <2>1 DEF FoundUpTo, AllFound, Lasting, Results
  <2>3. QED
    BY <1>2, <1>3, <1>6, <2>2 DEF LastingInv
<1>7. QED
  BY <1>1, <1>4, <1>5, <1>6

\* A step that begins a pass, or ends one without parents.
LEMMA LastingFresh ==
    ASSUME PipeTypes, Locals(0) \/ (\E n \in Nat : Locals(n)), UNCHANGED commits,
           pc' = "search" \/ (pc' = "idle" /\ answer'.status # "ok")
    PROVE  LastingInv'
<1>1. ranked' = <<>> /\ owners' = <<>> /\ ownersAt' = 0
  BY DEF Locals
<1>2. 0 \in 0 .. commits
  BY CommitsAssumption DEF PipeTypes, CatalogOK
<1>3. QED
  BY <1>1, <1>2 DEF LastingInv, OwnersKnown, Answered

\* What lasts longer has lasted before, under the same ids.
LEMMA LastingCommit ==
    ASSUME PipeTypes, LastingInv, NEW catalog, Commit(catalog),
           \A p \in DOMAIN catalog.parents : catalog.parents[p].rev < ownersAt =>
              p \in DOMAIN db.parents /\ db.parents[p].rev < ownersAt,
           \A c \in DOMAIN catalog.chunks :
              LET p == catalog.chunks[c]
              IN  p \in DOMAIN catalog.parents /\ catalog.parents[p].rev < ownersAt =>
                     c \in DOMAIN db.chunks /\ db.chunks[c] = p
    PROVE  LastingInv'
<1>1. /\ db' = catalog /\ commits' = commits + 1
      /\ UNCHANGED <<pc, call, ranked, owners, ownersAt, parents, ranker, first, answer>>
  BY DEF Commit, queryVars
<1>2. \A p : Lasting(p)' => Lasting(p)
  BY <1>1 DEF Lasting
<1>3. ownersAt' \in 0 .. commits'
  <2>1. commits \in Nat /\ ownersAt \in 0 .. commits
    BY CommitsAssumption DEF PipeTypes, CatalogOK, LastingInv
  <2>2. QED
    BY <1>1, <2>1
<1>4. Owned => Owned'
  <2> SUFFICES ASSUME Owned, NEW c \in ToSet(ranked) \cap DOMAIN catalog.chunks,
                      Lasting(catalog.chunks[c])'
               PROVE  catalog.chunks[c] \in ToSet(owners) \/ Len(owners) = call.top
    BY <1>1 DEF Owned
  <2>1. c \in DOMAIN db.chunks /\ db.chunks[c] = catalog.chunks[c]
    BY <1>1 DEF Lasting
  <2>2. Lasting(db.chunks[c])
    BY <1>2, <2>1
  <2>3. QED
    BY <2>1, <2>2 DEF Owned
<1>5. /\ AllFound(parents) => AllFound(parents)'
      /\ FoundUpTo(parents) => FoundUpTo(parents)'
      /\ FoundUpTo(first) => FoundUpTo(first)'
      /\ FoundUpTo(Results) => FoundUpTo(Results)'
  BY <1>1, <1>2 DEF AllFound, FoundUpTo, Results
<1>6. QED
  BY <1>1, <1>3, <1>4, <1>5 DEF LastingInv, OwnersKnown, Answered

LEMMA LastingEnvironment ==
    ASSUME QueryIInv, PipeTypes, LastingInv, Environment
    PROVE  LastingInv'
<1>1. /\ CatalogOK /\ Bounded(DOMAIN db.chunks)
      /\ ownersAt \in 0 .. commits /\ commits \in 0 .. MaxCommits /\ MaxCommits \in Nat
  BY CommitsAssumption DEF PipeTypes, CatalogOK, QueryIInv, Numbers, LastingInv
<1>2. ASSUME NEW gone \in SUBSET Files, DeleteFiles(gone)
      PROVE  LastingInv'
  <2> DEFINE kept == {p \in DOMAIN db.parents : db.parents[p].file \notin gone}
             left == {c \in DOMAIN db.chunks : db.chunks[c] \in kept}
             catalog == [parents |-> Restricted(db.parents, kept),
                         chunks  |-> Restricted(db.chunks, left)]
  <2>1. Commit(catalog)
    BY <1>2 DEF DeleteFiles
  <2>2. /\ DOMAIN catalog.parents = kept /\ \A p \in kept : catalog.parents[p] = db.parents[p]
        /\ DOMAIN catalog.chunks = left /\ \A c \in left : catalog.chunks[c] = db.chunks[c]
    BY DEF Restricted
  <2> HIDE DEF catalog
  <2>3. QED
    BY <2>1, <2>2, LastingCommit
<1>3. ASSUME NEW file \in Files, InsertFile(file)
      PROVE  LastingInv'
  <2> DEFINE l   == Layout[file]
             p0  == LastId(DOMAIN db.parents)
             c0  == LastId(DOMAIN db.chunks)
             new == {p0 + l[i] : i \in DOMAIN l}
             end == c0 + Len(l)
             rows == [p \in DOMAIN db.parents \cup new |->
                         IF p \in new THEN [file |-> file, rev |-> commits, ord |-> p - p0]
                                      ELSE db.parents[p]]
             chunks == [c \in DOMAIN db.chunks \cup (c0 + 1 .. end) |->
                           IF c > c0 THEN p0 + l[c - c0] ELSE db.chunks[c]]
             catalog == [parents |-> rows, chunks |-> chunks]
  <2>1. Commit(catalog)
    BY <1>3 DEF InsertFile
  <2>2. catalog.parents = rows /\ catalog.chunks = chunks
    OBVIOUS
  <2> HIDE DEF catalog
  <2>3. c0 \in Nat /\ l \in Seq(Nat \ {0}) /\ DOMAIN l = 1 .. Len(l) /\ Len(l) \in Nat
    BY <1>1, LastIdExists, LayoutAssumption, LenProperties
  <2> HIDE DEF l, p0, c0
  <2>4. \A p \in new : p \in DOMAIN rows /\ rows[p].rev = commits
    OBVIOUS
  <2>5. \A p \in DOMAIN rows : p \notin new => p \in DOMAIN db.parents /\ rows[p] = db.parents[p]
    OBVIOUS
  <2>6. ~(commits < ownersAt)
    BY <1>1
  <2>a. ASSUME NEW p \in DOMAIN rows, rows[p].rev < ownersAt
        PROVE  p \notin new /\ p \in DOMAIN db.parents /\ db.parents[p].rev < ownersAt
    <3> HIDE DEF rows, new
    <3>1. p \notin new
      BY <2>4, <2>6, <2>a
    <3>2. QED
      BY <2>5, <2>a, <3>1
  <2>b. ASSUME NEW c \in DOMAIN chunks, chunks[c] \in DOMAIN rows, rows[chunks[c]].rev < ownersAt
        PROVE  c \in DOMAIN db.chunks /\ db.chunks[c] = chunks[c]
    <3>1. chunks[c] \notin new
      BY <2>a, <2>b
    <3>2. c \in DOMAIN db.chunks \cup (c0 + 1 .. end)
      OBVIOUS
    <3>3. c \in Nat
      <4>1. DOMAIN db.chunks \subseteq Nat
        BY <1>1 DEF Bounded
      <4>2. QED
        BY <2>3, <3>2, <4>1
    <3>4. CASE c > c0
      <4>1. c \in c0 + 1 .. end
        <5>1. c \in DOMAIN db.chunks => c <= c0
          <6>1. \A d \in DOMAIN db.chunks : d <= c0
            BY <1>1, LastIdBounds DEF c0
          <6>2. QED
            BY <6>1
        <5>2. QED
          BY <2>3, <3>2, <3>3, <3>4, <5>1
      <4>2. c - c0 \in DOMAIN l
        BY <2>3, <4>1
      <4>3. chunks[c] = p0 + l[c - c0]
        BY <3>4
      <4>4. QED
        BY <3>1, <4>2, <4>3
    <3>5. CASE ~(c > c0)
      <4>1. c \in DOMAIN db.chunks
        BY <2>3, <3>2, <3>3, <3>5
      <4>2. QED
        BY <3>5, <4>1
    <3>6. QED
      BY <3>4, <3>5
  <2> HIDE DEF rows, chunks, new
  <2>7. QED
    BY <2>1, <2>2, <2>a, <2>b, LastingCommit
<1>4. CASE Reload
  <2>1. UNCHANGED <<db, commits, pc, call, ranked, owners, ownersAt, parents, ranker, first,
                    answer>>
    BY <1>4 DEF Reload, queryVars
  <2>2. QED
    BY <2>1 DEF LastingInv, OwnersKnown, Answered, Results, Owned, AllFound, FoundUpTo, Lasting
<1>5. QED
  BY <1>2, <1>3, <1>4 DEF Environment

LEMMA LastingAsk ==
    ASSUME PipeTypes, Ask
    PROVE  LastingInv'
<1>1. CASE AmbientTurn
  <2>1. pc' = "search" /\ Locals(1) /\ UNCHANGED commits
    BY <1>1 DEF AmbientTurn, NewQuery, StartPass, indexVars
  <2>2. QED
    BY <2>1, LastingFresh
<1>2. ASSUME NEW k \in Ks, NEW n \in 1 .. MaxVariants, RagSearch(k, n)
      PROVE  LastingInv'
  <2>1. pc' = "search" /\ Locals(n) /\ UNCHANGED commits
    BY <1>2 DEF RagSearch, NewQuery, StartPass, indexVars
  <2>2. n \in Nat
    BY PoolsAssumption
  <2>3. QED
    BY <2>1, <2>2, LastingFresh
<1>3. QED
  BY <1>1, <1>2 DEF Ask

LEMMA LastingSearch ==
    ASSUME LastingInv, SearchBm25 \/ SearchDense
    PROVE  LastingInv'
<1>1. /\ pc \in {"search", "dense"} /\ pc' \in {"search", "dense"}
      /\ UNCHANGED <<commits, ranked, owners, ownersAt>>
  BY DEF SearchBm25, SearchDense, Move, indexVars
<1>2. QED
  BY <1>1 DEF LastingInv, OwnersKnown, Answered

LEMMA LastingFuse ==
    ASSUME PipeTypes, LastingInv, Fuse
    PROVE  LastingInv'
<1>1. /\ pc = "search" /\ UNCHANGED <<owners, ownersAt, ranker>>
      /\ ranked = <<>> /\ owners = <<>>
  BY DEF Fuse, LastingInv
<1>2. ToSet(<<>>) = {}
  BY DEF ToSet
<1>3. CASE EndPass(<<>>) /\ UNCHANGED ranked
  <2>1. Owned /\ FoundUpTo(<<>>)
    BY <1>1, <1>2 DEF Owned, FoundUpTo, AllFound
  <2>2. QED
    BY <1>1, <1>3, <2>1, LastingEndPass
<1>4. CASE Move("owners")
  <2>1. pc' = "owners" /\ UNCHANGED commits
    BY <1>4 DEF Move, indexVars
  <2>2. QED
    BY <1>1, <2>1 DEF LastingInv, OwnersKnown, Answered
<1>5. QED
  BY <1>3, <1>4 DEF Fuse

\* Whoever owns a ranked chunk is an owner, but for the cut.
LEMMA LastingOwners ==
    ASSUME QueryIInv, PipeTypes, Owners
    PROVE  LastingInv'
<1>1. /\ pc' = "rows" /\ ownersAt' = commits /\ ranked' = ranked
      /\ UNCHANGED <<db, commits, call>>
  BY DEF Owners, Move, indexVars
<1>2. PICK order \in SetToSeqs(Matched) : owners' = Take(order, call.top)
  BY DEF Owners, Matched
<1>3. IsFiniteSet(Matched)
  BY OwnersAreFinite DEF QueryIInv, Lists, Matched
<1>4. call.top \in Nat /\ Listed(order)
  BY <1>2, <1>3, OrderIsList DEF PipeTypes, TypedQuery
<1>5. /\ Listed(owners') /\ Len(owners') = AtMost(call.top, Len(order))
      /\ \A i \in DOMAIN owners' : owners'[i] = order[i]
  BY <1>2, <1>4, TakeIsList
<1>6. ASSUME NEW p \in Matched
      PROVE  p \in ToSet(owners') \/ Len(owners') = call.top
  <2>1. PICK i \in DOMAIN order : order[i] = p
    BY <1>2, <1>3, OrderIsOnto
  <2>2. i \in 1 .. Len(order) /\ Len(order) \in Nat /\ DOMAIN owners' = 1 .. Len(owners')
    BY <1>4, <1>5 DEF Listed
  <2>3. Len(owners') = call.top \/ i \in DOMAIN owners'
    BY <1>4, <1>5, <2>2 DEF AtMost
  <2>4. QED
    BY <1>5, <2>1, <2>3 DEF ToSet
<1>7. Owned'
  BY <1>1, <1>6 DEF Owned, Matched
<1>8. ownersAt' \in 0 .. commits'
  BY <1>1, CommitsAssumption DEF PipeTypes, CatalogOK
<1>9. QED
  BY <1>1, <1>7, <1>8 DEF LastingInv, Answered

\* An owner whose row is there is fetched.
LEMMA LastingFetchRows ==
    ASSUME QueryIInv, PipeTypes, LastingInv, FetchRows
    PROVE  LastingInv'
<1> DEFINE known == {i \in DOMAIN owners : owners[i] \in DOMAIN db.parents}
<1>1. /\ pc = "rows" /\ UNCHANGED <<ranked, owners, ownersAt, ranker>>
      /\ Owned /\ ownersAt \in 0 .. commits
  BY DEF FetchRows, LastingInv, OwnersKnown
<1>2. DOMAIN owners = 1 .. Len(owners) /\ Len(owners) \in Nat
  BY DEF QueryIInv, Lists, Listed
<1>3. ASSUME NEW p \in ToSet(owners), Lasting(p)
      PROVE  \E i \in known : owners[i] = p
  BY <1>3 DEF ToSet, Lasting
<1>4. CASE known = {} /\ EndPass(<<>>)
  <2>1. FoundUpTo(<<>>)
    BY <1>3, <1>4 DEF FoundUpTo, AllFound
  <2>2. QED
    BY <1>1, <1>4, <2>1, LastingEndPass
<1>5. ASSUME NEW kept \in SetToSeqs(known), Move("rerank"),
             parents' = [i \in DOMAIN kept |->
                            Result(owners[kept[i]], db.parents[owners[kept[i]]])]
      PROVE  LastingInv'
  <2>1. pc' = "rerank" /\ UNCHANGED <<db, commits, call>>
    BY <1>5 DEF Move, indexVars
  <2>2. IsFiniteSet(known)
    <3>1. IsFiniteSet(1 .. Len(owners)) /\ known \subseteq 1 .. Len(owners)
      BY <1>2, FS_Interval
    <3>2. QED
      BY <3>1, FS_Subset
  <2>3. /\ DOMAIN parents' = DOMAIN kept
        /\ \A i \in DOMAIN kept : parents'[i].id = owners[kept[i]]
    BY <1>5 DEF Result
  <2>4. ASSUME NEW p \in ToSet(owners), Lasting(p)
        PROVE  \E i \in DOMAIN parents' : parents'[i].id = p
    <3>1. PICK j \in known : owners[j] = p
      BY <1>3, <2>4
    <3> HIDE DEF known
    <3>2. PICK i \in DOMAIN kept : kept[i] = j
      BY <1>5, <2>2, OrderIsOnto
    <3>3. QED
      BY <2>3, <3>1, <3>2
  <2>5. AllFound(parents)' /\ Owned'
    BY <1>1, <2>1, <2>4 DEF AllFound, Owned, Lasting
  <2>6. QED
    BY <1>1, <2>1, <2>5 DEF LastingInv, Answered
<1>6. QED
  BY <1>4, <1>5 DEF FetchRows

\* A reranker of the code's own leaves a parent out for k others only.
LEMMA LastingReranked ==
    ASSUME PipeTypes, LastingInv, pc = "rerank", NEW by, NEW order, Reranked(by, order),
           by # "cohere" /\ Len(parents') # call.k =>
              \A j \in DOMAIN parents : \E i \in DOMAIN order : order[i] = j
    PROVE  LastingInv'
<1> DEFINE step == IF call.kind = "ambient" THEN "gate" ELSE "rehydrate"
<1>1. /\ pc' = step /\ ranker' = by /\ UNCHANGED <<db, commits, call, ranked, owners, ownersAt>>
      /\ parents' = [i \in DOMAIN order |-> parents[order[i]]]
      /\ Owned /\ AllFound(parents) /\ ownersAt \in 0 .. commits
  BY DEF Reranked, Move, indexVars, LastingInv, OwnersKnown
<1>2. Owned'
  BY <1>1 DEF Owned, Lasting
<1>3. FoundUpTo(parents)'
  <2> SUFFICES ASSUME by # "cohere", Len(parents') # call.k,
                      NEW p \in ToSet(owners), Lasting(p)
               PROVE  \E i \in DOMAIN parents' : parents'[i].id = p
    BY <1>1 DEF FoundUpTo, AllFound, Lasting
  <2>1. PICK j \in DOMAIN parents : parents[j].id = p
    BY <1>1 DEF AllFound
  <2>2. PICK i \in DOMAIN order : order[i] = j
    OBVIOUS
  <2>3. QED
    BY <1>1, <2>1, <2>2
<1>4. QED
  BY <1>1, <1>2, <1>3 DEF LastingInv, Answered

LEMMA LastingRerank ==
    ASSUME QueryIInv, PipeTypes, LastingInv, CohereRanks \/ LocalRanks \/ IdentityRanks
    PROVE  LastingInv'
<1>1. /\ Kept \in Nat /\ Kept <= Len(parents) /\ call.k \in Nat
      /\ DOMAIN parents = 1 .. Len(parents) /\ Len(parents) \in Nat
      /\ IsFiniteSet(DOMAIN parents) /\ Cardinality(DOMAIN parents) = Len(parents)
  BY KeptIsNumber DEF QueryIInv, Numbers
<1>2. Kept # call.k => Kept = Len(parents)
  BY <1>1 DEF Kept, AtMost
<1>3. CASE CohereRanks
  BY <1>3, LastingReranked DEF CohereRanks
<1>4. CASE LocalRanks
  <2>1. PICK order \in SetToSeqs(DOMAIN parents) : Reranked("local", Take(order, Kept))
    BY <1>4 DEF LocalRanks
  <2>2. Listed(order) /\ Len(order) = Len(parents)
    BY <1>1, <2>1, OrderIsList
  <2> DEFINE best == Take(order, Kept)
  <2>3. /\ Listed(best) /\ Len(best) = AtMost(Kept, Len(order))
        /\ \A i \in DOMAIN best : i \in DOMAIN order /\ best[i] = order[i]
    BY <1>1, <2>2, TakeIsList
  <2> HIDE DEF best
  <2>4. DOMAIN best = 1 .. Kept /\ DOMAIN order = 1 .. Len(parents)
    BY <1>1, <2>2, <2>3 DEF AtMost, Listed
  <2>5. pc = "rerank" /\ Reranked("local", best)
    BY <1>4, <2>1 DEF LocalRanks, best
  <2>6. Len(parents') = Kept
    BY <1>1, <2>4, <2>5 DEF Reranked
  <2>7. ASSUME Len(parents') # call.k, NEW j \in DOMAIN parents
        PROVE  \E i \in DOMAIN best : best[i] = j
    <3>1. PICK i \in DOMAIN order : order[i] = j
      BY <1>1, <2>1, OrderIsOnto
    <3>2. i \in DOMAIN best
      BY <1>2, <2>4, <2>6, <2>7
    <3>3. QED
      BY <2>3, <3>1, <3>2
  <2>8. QED
    BY <2>5, <2>7, LastingReranked
<1>5. CASE IdentityRanks
  <2> DEFINE order == [i \in 1 .. Kept |-> i]
  <2>1. pc = "rerank" /\ Reranked("identity", order)
    BY <1>5 DEF IdentityRanks
  <2>2. DOMAIN order = 1 .. Kept /\ \A i \in 1 .. Kept : order[i] = i
    OBVIOUS
  <2> HIDE DEF order
  <2>3. Len(parents') = Kept
    BY <1>1, <2>1, <2>2 DEF Reranked
  <2>4. ASSUME Len(parents') # call.k, NEW j \in DOMAIN parents
        PROVE  \E i \in DOMAIN order : order[i] = j
    BY <1>1, <1>2, <2>2, <2>3, <2>4
  <2>5. QED
    BY <2>1, <2>4, LastingReranked
<1>6. QED
  BY <1>3, <1>4, <1>5

LEMMA LastingGate ==
    ASSUME PipeTypes, LastingInv, Gate
    PROVE  LastingInv'
<1>1. CASE Move("rehydrate") /\ UNCHANGED <<ranked, owners, ownersAt, parents, ranker>>
  <2>1. /\ pc = "gate" /\ pc' = "rehydrate" /\ UNCHANGED <<db, commits, call>>
    BY <1>1 DEF Gate, Move, indexVars
  <2>2. Owned /\ FoundUpTo(parents) /\ ownersAt \in 0 .. commits
    BY <2>1 DEF LastingInv, OwnersKnown
  <2>3. Owned' /\ FoundUpTo(parents)'
    BY <1>1, <2>1, <2>2 DEF Owned, FoundUpTo, AllFound, Lasting
  <2>4. QED
    BY <1>1, <2>1, <2>2, <2>3 DEF LastingInv, Answered
<1>2. CASE Finish("declined", <<>>) /\ Forget
  <2>1. /\ pc' = "idle" /\ answer'.status # "ok" /\ Locals(0) /\ UNCHANGED commits
    BY <1>2 DEF Finish, Forget, indexVars
  <2>2. QED
    BY <2>1, LastingFresh
<1>3. QED
  BY <1>1, <1>2 DEF Gate

LEMMA LastingRehydrate ==
    ASSUME QueryIInv, PipeTypes, LastingInv, Rehydrate
    PROVE  LastingInv'
<1> DEFINE full == [i \in DOMAIN parents |->
                       IF parents[i].id \in DOMAIN db.parents
                       THEN [parents[i] EXCEPT !.text = db.parents[parents[i].id], !.full = TRUE]
                       ELSE parents[i]]
<1>1. /\ pc = "rehydrate" /\ EndPass(full) /\ UNCHANGED <<ranked, owners, ownersAt, ranker>>
      /\ Owned /\ FoundUpTo(parents)
  BY DEF Rehydrate, LastingInv, OwnersKnown
<1>2. DOMAIN parents = 1 .. Len(parents) /\ Len(parents) \in Nat
  BY DEF QueryIInv, Lists, Listed
<1>3. DOMAIN full = DOMAIN parents /\ Len(full) = Len(parents)
  BY <1>2
<1>4. ASSUME NEW i \in DOMAIN parents PROVE full[i].id = parents[i].id
  <2> DEFINE row == db.parents[parents[i].id]
             r   == parents[i]
  <2>1. r \in ResultRecords /\ (full[i] = [r EXCEPT !.text = row, !.full = TRUE] \/ full[i] = r)
    BY DEF PipeTypes, TypedQuery
  <2> HIDE DEF row, full, r
  <2>2. [r EXCEPT !.text = row, !.full = TRUE].id = r.id
    BY <2>1 DEF ResultRecords
  <2>3. QED
    BY <2>1, <2>2 DEF r
<1> HIDE DEF full
<1>5. FoundUpTo(full)
  BY <1>1, <1>3, <1>4 DEF FoundUpTo, AllFound
<1>6. QED
  BY <1>1, <1>5, LastingEndPass

LEMMA LastingJudge ==
    ASSUME PipeTypes, LastingInv,
           JudgeAccepts \/ \E n \in 1 .. MaxVariants : JudgeRetries(n)
    PROVE  LastingInv'
<1>1. CASE JudgeAccepts
  <2>1. /\ pc = "judge" /\ pc' = "idle" /\ answer'.status = "ok" /\ answer'.parents = first
        /\ UNCHANGED <<db, commits, call, ranked, owners, ownersAt, ranker>>
    BY <1>1 DEF JudgeAccepts, Finish, indexVars
  <2>2. Owned /\ FoundUpTo(first) /\ ownersAt \in 0 .. commits
    BY <2>1 DEF LastingInv, OwnersKnown
  <2>3. Owned' /\ FoundUpTo(Results)'
    BY <2>1, <2>2 DEF Owned, FoundUpTo, AllFound, Lasting, Results
  <2>4. QED
    BY <2>1, <2>2, <2>3 DEF LastingInv
<1>2. ASSUME NEW n \in 1 .. MaxVariants, JudgeRetries(n)
      PROVE  LastingInv'
  <2>1. pc' = "search" /\ Locals(n) /\ UNCHANGED commits /\ n \in Nat
    BY <1>2, PoolsAssumption DEF JudgeRetries, StartPass, indexVars
  <2>2. QED
    BY <2>1, LastingFresh
<1>3. QED
  BY <1>1, <1>2

LEMMA LastingStep ==
    QueryIInv /\ PipeTypes /\ LastingInv /\ [Next]_vars => LastingInv'
<1> SUFFICES ASSUME QueryIInv, PipeTypes, LastingInv, [Next]_vars PROVE LastingInv'
  OBVIOUS
<1>1. CASE UNCHANGED vars
  <2>1. UNCHANGED <<db, commits, pc, call, ranked, owners, ownersAt, parents, ranker, first,
                    answer>>
    BY <1>1 DEF vars, indexVars, queryVars
  <2>2. QED
    BY <2>1 DEF LastingInv, OwnersKnown, Answered, Results, Owned, AllFound, FoundUpTo, Lasting
<1>2. CASE QueryRaises
  <2>1. /\ pc' = "idle" /\ answer'.status # "ok" /\ Locals(0) /\ UNCHANGED commits
    BY <1>2 DEF QueryRaises, Finish, Forget, indexVars
  <2>2. QED
    BY <2>1, LastingFresh
<1>3. CASE Step
  BY <1>2, <1>3, LastingSearch, LastingFuse, LastingOwners, LastingFetchRows, LastingRerank,
     LastingGate, LastingRehydrate, LastingJudge DEF Step
<1>4. QED
  BY <1>1, <1>3, LastingEnvironment, LastingAsk DEF Next

LEMMA LastingAlways == Spec => []LastingInv
<1>1. Init => LastingInv
  <2> SUFFICES ASSUME Init PROVE LastingInv
    OBVIOUS
  <2>1. pc = "idle" /\ answer.status = "none" /\ ownersAt = 0 /\ commits = 0
    BY DEF Init
  <2>2. QED
    BY <2>1 DEF LastingInv, OwnersKnown, Answered
<1>2. QED
  BY <1>1, LastingStep, QueryAlways, PipeAlways, PTL DEF Spec

-----------------------------------------------------------------------------
\* Every variable keeps its type: in particular every chunk of the catalog has
\* its parent, whatever ids have been handed out again.
THEOREM PipelinesTypeCorrect == Spec => []TypeOK
<1>1. PipeTypes /\ QueryIInv /\ LastingInv => TypeOK
  <2> SUFFICES ASSUME PipeTypes, QueryIInv, LastingInv PROVE TypeOK
    OBVIOUS
  <2>1. \A r \in ResultRecords : IsResult(r)
    BY DEF ResultRecords, IsResult
  <2>2. ids \subseteq Nat /\ ownersAt \in 0 .. commits
    BY DEF QueryIInv, Numbers, Bounded, LastingInv
  <2>3. QED
    BY <2>1, <2>2 DEF PipeTypes, CatalogOK, TypedQuery, TypeOK
<1>2. QED
  BY <1>1, PipeAlways, QueryAlways, LastingAlways, PTL

\* A search that no transaction comes into returns whole parents of its ranked
\* chunks and drops none that it should keep, whatever the rankers do.
THEOREM QuietSearchesAreExact == Spec => []QuietSearchIsExact
<1>1. QuietInv => QuietSearchIsExact
  <2> SUFFICES ASSUME QuietInv, Answered, clean, found # {}
               PROVE  /\ Results # <<>>
                      /\ \A i \in DOMAIN Results :
                            LET r == Results[i]
                            IN  /\ r.id \in Matched
                                /\ r.head = db.parents[r.id] /\ r.text = r.head /\ r.full
                      /\ ranker # "cohere" =>
                            Len(Results) = AtMost(call.k, AtMost(call.top, Cardinality(Matched)))
                      /\ ranker = "identity" => Results[1].id = db.chunks[ranked[1]]
    BY DEF QuietSearchIsExact
  <2>1. Whole(Results)
    BY DEF QuietInv, QuietSearch
  <2>2. Results # <<>>
    <3>1. Len(<<>>) = 0 /\ Len(Results) # 0
      BY <2>1 DEF Whole, Exact
    <3>2. QED
      BY <3>1
  <2>3. QED
    BY <2>1, <2>2 DEF Whole, Exact, Best, Leader
<1>2. QED
  BY <1>1, PipeAlways, PTL

\* However versions of the index are mixed in a ranking, and whatever is deleted
\* or comes under an old id between the reads, the parents that were there from
\* the first read to the answer are found, up to k.
THEOREM LastingParentsAreAlwaysFound == Spec => []LastingParentsAreFound
<1>1. LastingInv => LastingParentsAreFound
  <2> SUFFICES ASSUME LastingInv, Answered
               PROVE  /\ Owned
                      /\ ranker # "cohere" /\ Len(Results) # call.k =>
                            \A p \in ToSet(owners) : Lasting(p) => p \in Returned
    BY DEF LastingParentsAreFound, Owned
  <2>1. Owned /\ FoundUpTo(Results)
    BY DEF LastingInv, OwnersKnown
  <2>2. QED
    BY <2>1 DEF FoundUpTo, AllFound, Returned
<1>2. QED
  BY <1>1, LastingAlways, PTL

=============================================================================
