------------------------------- MODULE Search -------------------------------
(***************************************************************************)
(* Hybrid search (services/hybrid.py): keyword and vector retrieval, their *)
(* fusion, the reranker (providers/reranker.py), and the cache of results, *)
(* while a worker deletes, moves and re-embeds entries.                    *)
(*                                                                         *)
(* What a query matches, and how well, is the index's and the models' to   *)
(* say: any ranking of what they may return.  A search blocks the event    *)
(* loop, so there is one at a time, and no request is served meanwhile;    *)
(* the worker goes on.                                                     *)
(***************************************************************************)
EXTENDS Integers, Sequences, FiniteSets, Functions

CONSTANTS
    Entry,             \* the entries
    Owner,             \* whose they are
    Keys,              \* what is asked: [user, query, from], a cache key
    Hits,              \* chunks: pairs of an entry and a chunk index
    Bm25Candidates, DenseCandidates, FusionTopM, RrfK,   \* HybridConfig
    CacheMax, Ttl,     \* of the result cache
    PageSize,          \* limit of a page
    RankLength,        \* how much of a ranking the reranker sends (bound)
    SearchLoads        \* bounds: [searches, changes, ticks], and the entries

ASSUME SearchAssumption ==
    /\ IsFiniteSet(Entry) /\ IsFiniteSet(Hits) /\ Hits \subseteq Entry \X Nat
    /\ {Bm25Candidates, DenseCandidates, FusionTopM, RrfK, CacheMax, Ttl,
        PageSize, RankLength} \subseteq Nat
    /\ SearchLoads \subseteq
        [searches : Nat, changes : Nat, ticks : Nat, entries : SUBSET Entry]

VARIABLES
    rows,      \* the date of an entry in the database, Gone without a row
    vectors,   \* what its vectors carry: [owner, date], or NoVectors
    cached,    \* for a key, [at, items], Nothing without a result
    recency,   \* the cached keys, least recently used first
    run,       \* the search that is running
    answer,    \* the last page answered: [key, items]
    clock,     \* time.monotonic()
    since,     \* when an entry was deleted, and when a key was last computed
    load       \* what may still happen (bound)

searchVars ==
    <<rows, vectors, cached, recency, run, answer, clock, since, load>>

Gone == 0
Dates == 1 .. 2
NoVectors == [owner |-> 0, date |-> Gone]
Worker == -1   \* no vectors either, until the worker stores them
Nothing == [at |-> -1, items |-> <<>>]
NoRun == [phase |-> "none"]
NoAnswer == [key |-> CHOOSE k \in Keys : TRUE, items |-> <<>>]

-----------------------------------------------------------------------------
(* Rankings.                                                               *)

\* Any ranking of some of the elements of S.
Ranked(S) == UNION {Injection(1 .. n, S) : n \in 0 .. Cardinality(S)}

Shortest(m, n) == IF m < n THEN m ELSE n
First(s, n) == SubSeq(s, 1, Shortest(n, Len(s)))

\* The position of an element that occurs.
Rank(s, x) == CHOOSE i \in DOMAIN s :
    s[i] = x /\ \A j \in DOMAIN s : s[j] = x => i <= j

\* The elements at some positions.
Picked(s, I) ==
    LET nth(n) == CHOOSE i \in I : Cardinality(I \cap 1 .. i) = n
    IN [n \in 1 .. Cardinality(I) |-> s[nth(n)]]

\* Those in S; and each element once, where it first occurs.
Those(s, S) == Picked(s, {i \in DOMAIN s : s[i] \in S})
Seen(s) == Picked(s, {i \in DOMAIN s : Rank(s, s[i]) = i})

\* Scores are fractions <<numerator, denominator>>.
Plus(a, b) == <<a[1] * b[2] + b[1] * a[2], a[2] * b[2]>>
Above(a, b) == a[1] * b[2] > b[1] * a[2]

Contribution(s, x) ==
    IF x \in Range(s) THEN <<1, RrfK + Rank(s, x)>> ELSE <<0, 1>>

\* rrf_fuse: by the sum of 1 / (k + rank), and where that is equal in the order
\* the entries were met.
Fused(bm25, dense) ==
    LET met == Seen(bm25 \o dense)
        score(x) == Plus(Contribution(bm25, x), Contribution(dense, x))
        before(i, j) == \/ Above(score(met[i]), score(met[j]))
                        \/ ~Above(score(met[j]), score(met[i])) /\ i < j
        position(i) == 1 + Cardinality({j \in DOMAIN met : before(j, i)})
    IN [n \in DOMAIN met |->
            met[CHOOSE i \in DOMAIN met : position(i) = n]]

\* What is left of a ranking by the model: numbers of candidates, without
\* those out of range and those that came before.  Nothing usable, as a failed
\* call, leaves the order as it was.
Reranked(candidates, ranking) ==
    LET usable == Those(ranking, DOMAIN candidates)
        kept == Seen(usable)
    IN IF usable = <<>> THEN candidates
       ELSE [n \in DOMAIN kept |-> candidates[kept[n]]]

\* _apply_sort_and_slice: sorting by date keeps the order of equal dates.
Before(items, sort, i, j) ==
    \/ sort = "date_desc" /\ items[i].date > items[j].date
    \/ sort = "date_asc" /\ items[i].date < items[j].date
    \/ (sort = "relevance" \/ items[i].date = items[j].date) /\ i < j

Position(items, sort, i) ==
    1 + Cardinality({j \in DOMAIN items : Before(items, sort, j, i)})

Page(items, sort, offset) ==
    LET ordered == [n \in DOMAIN items |->
            items[CHOOSE i \in DOMAIN items : Position(items, sort, i) = n]]
    IN SubSeq(ordered, offset + 1, Shortest(offset + PageSize, Len(items)))

Sorts == {"relevance", "date_desc", "date_asc"}

-----------------------------------------------------------------------------
(* The cache.                                                              *)

Without(s, key) == Those(s, Keys \ {key})
Touched(key) == Append(Without(recency, key), key)

Fresh(key) == cached[key] # Nothing /\ clock - cached[key].at <= Ttl

\* A variant: nothing is evicted.
EvictedNever(keys) == {}

\* The least recently used beyond the limit.
Evicted(keys) == {keys[i] : i \in 1 .. Len(keys) - CacheMax}

Cache(key, items) ==
    LET keys == Touched(key) IN
    /\ cached' = [k \in Keys |->
                    IF k \in Evicted(keys) THEN Nothing
                    ELSE IF k = key THEN [at |-> clock, items |-> items]
                    ELSE cached[k]]
    /\ recency' = Those(keys, Keys \ Evicted(keys))

Answered(key, items) ==
    \E sort \in Sorts, offset \in {0, PageSize} :
        answer' = [key |-> key, items |-> Page(items, sort, offset)]

-----------------------------------------------------------------------------
(* One search.                                                             *)

Visible(key) ==
    {e \in Entry : rows[e] # Gone /\ Owner[e] = key.user /\ rows[e] >= key.from}

\* A variant: a hit starts the time to live again.
CacheHitRenewed(key) ==
    /\ run = NoRun /\ load.searches > 0 /\ Fresh(key)
    /\ load' = [load EXCEPT !.searches = @ - 1]
    /\ cached' = [cached EXCEPT ![key].at = clock]
    /\ recency' = Touched(key)
    /\ Answered(key, cached[key].items)
    /\ UNCHANGED <<rows, vectors, run, clock, since>>

\* A hit keeps the time it was computed at, and is only used again.
CacheHit(key) ==
    /\ run = NoRun /\ load.searches > 0 /\ Fresh(key)
    /\ load' = [load EXCEPT !.searches = @ - 1]
    /\ recency' = Touched(key)
    /\ Answered(key, cached[key].items)
    /\ UNCHANGED <<rows, vectors, cached, run, clock, since>>

\* What is too old is dropped, and the keyword search runs.
CacheMiss(key) ==
    /\ run = NoRun /\ load.searches > 0 /\ ~Fresh(key)
    /\ load' = [load EXCEPT !.searches = @ - 1]
    /\ cached' = [cached EXCEPT ![key] = Nothing]
    /\ recency' = Without(recency, key)
    /\ \E ranking \in Ranked(Visible(key)) :
        run' = [phase |-> "dense", key |-> key, began |-> clock,
                bm25 |-> First(ranking, Bm25Candidates),
                known |-> [e \in Range(First(ranking, Bm25Candidates)) |->
                              rows[e]],
                dense |-> <<>>, fused |-> <<>>]
    /\ UNCHANGED <<rows, vectors, answer, clock, since>>

\* _dense_search: the nearest chunks that carry the user, then those whose date
\* is in range; an entry ranks where its best chunk does.  Then the fusion.
DenseSearch ==
    /\ run.phase = "dense"
    /\ LET mine == {h \in Hits : vectors[h[1]].owner = run.key.user}
           n == Shortest(DenseCandidates, Cardinality(mine))
       IN \E nearest \in Injection(1 .. n, mine) :
            LET inRange == Those(nearest,
                    {h \in mine : vectors[h[1]].date >= run.key.from})
                dense == Seen([i \in DOMAIN inRange |-> inRange[i][1]])
            IN run' = [run EXCEPT !.phase = "resolve", !.dense = dense,
                          !.fused = First(Fused(run.bm25, dense), FusionTopM)]
    /\ UNCHANGED <<rows, vectors, cached, recency, answer, clock, since, load>>

\* A variant: the database is not asked for the owner again.
ResolvableToAll(user) == {e \in Entry : rows[e] # Gone}

\* get_entry, which checks the owner but not the date.
Resolvable(user) == {e \in Entry : rows[e] # Gone /\ Owner[e] = user}

\* The entries that are not known yet are read.
Resolve ==
    /\ run.phase = "resolve"
    /\ LET old == DOMAIN run.known
           new == (Range(run.fused) \ old) \cap Resolvable(run.key.user)
       IN run' = [run EXCEPT !.phase = "rerank",
                     !.known = [e \in old \cup new |->
                         IF e \in old THEN run.known[e] ELSE rows[e]]]
    /\ UNCHANGED <<rows, vectors, cached, recency, answer, clock, since, load>>

\* What a model may send: numbers, one of them out of range.
Rankings(n) == UNION {[1 .. m -> 1 .. n + 1] : m \in 0 .. RankLength}

\* The candidates are reranked, and the result is cached and answered.
Rerank ==
    /\ run.phase = "rerank"
    /\ LET candidates == Those(run.fused, DOMAIN run.known)
       IN \E ranking \in Rankings(Len(candidates)) :
            LET order == Reranked(candidates, ranking)
                items == [i \in DOMAIN order |->
                    [entry |-> order[i], date |-> run.known[order[i]]]]
            IN /\ Cache(run.key, items)
               /\ Answered(run.key, items)
    /\ since' = [since EXCEPT !.computed[run.key] =
                    [began |-> run.began, ended |-> clock]]
    /\ run' = NoRun
    /\ UNCHANGED <<rows, vectors, clock, load>>

\* The database, the vector store or the embedding call raises, and nothing is
\* answered or cached.
SearchRaises ==
    /\ run # NoRun
    /\ run' = NoRun
    /\ UNCHANGED <<rows, vectors, cached, recency, answer, clock, since, load>>

SearchStep ==
    \/ \E key \in Keys : CacheHit(key) \/ CacheMiss(key)
    \/ DenseSearch \/ Resolve \/ Rerank \/ SearchRaises

-----------------------------------------------------------------------------
(* What changes under it.                                                  *)

Changing == load.changes > 0 /\ load' = [load EXCEPT !.changes = @ - 1]

\* delete_entry: the vectors, then the row, unless the database raises.
EntryDeleted(e) ==
    /\ Changing /\ run = NoRun /\ rows[e] # Gone
    /\ vectors' = [vectors EXCEPT ![e] =
                      IF vectors[e].owner = Worker THEN vectors[e] ELSE NoVectors]
    /\ \/ /\ rows' = [rows EXCEPT ![e] = Gone]
          /\ since' = [since EXCEPT !.deleted[e] = clock]
       \/ UNCHANGED <<rows, since>>
    /\ UNCHANGED <<cached, recency, run, answer, clock>>

\* update_entry_date, which leaves the vectors with the old date.
DateChanged(e) ==
    /\ Changing /\ run = NoRun /\ rows[e] # Gone
    /\ \E d \in Dates : rows' = [rows EXCEPT ![e] = d]
    /\ UNCHANGED <<vectors, cached, recency, run, answer, clock, since>>

\* The worker re-embeds an entry (_run_reprocess_embeddings): its vectors are
\* deleted, and stored again as those of user 1.
VectorsDropped(e) ==
    /\ Changing /\ rows[e] # Gone /\ vectors[e].owner # Worker
    /\ vectors' = [vectors EXCEPT ![e] = [owner |-> Worker, date |-> rows[e]]]
    /\ UNCHANGED <<rows, cached, recency, run, answer, clock, since>>

VectorsAdded(e) ==
    /\ vectors[e].owner = Worker
    /\ vectors' = [vectors EXCEPT ![e].owner = 1]
    /\ UNCHANGED <<rows, cached, recency, run, answer, clock, since, load>>

Tick ==
    /\ load.ticks > 0 /\ load' = [load EXCEPT !.ticks = @ - 1]
    /\ clock' = clock + 1
    /\ UNCHANGED <<rows, vectors, cached, recency, run, answer, since>>

WorldStep ==
    \/ \E e \in Entry : \/ EntryDeleted(e) \/ DateChanged(e)
                        \/ VectorsDropped(e) \/ VectorsAdded(e)
    \/ Tick

SearchInit ==
    /\ load \in SearchLoads
    /\ rows = [e \in Entry |-> IF e \in load.entries THEN 1 ELSE Gone]
    /\ vectors = [e \in Entry |-> IF e \in load.entries
                                  THEN [owner |-> Owner[e], date |-> 1]
                                  ELSE NoVectors]
    /\ cached = [k \in Keys |-> Nothing] /\ recency = <<>>
    /\ run = NoRun /\ answer = NoAnswer /\ clock = 0
    /\ since = [deleted |-> [e \in Entry |-> -1],
                computed |-> [k \in Keys |-> [began |-> 0, ended |-> 0]]]

SearchNext == SearchStep \/ WorldStep

-----------------------------------------------------------------------------
(* Properties.                                                             *)

SearchType ==
    /\ \A k \in Keys : (cached[k] # Nothing) <=> (k \in Range(recency))
    /\ IsInjective(recency) /\ Len(recency) <= CacheMax
    /\ run.phase \in {"none", "dense", "resolve", "rerank"}

\* No page shows another user's entry, whatever owner its vectors carry and
\* whoever's results are cached: the vectors of an edited entry carry user 1, and
\* only the second look at the database keeps it from user 1 (hybrid.py:341).
OwnEntriesOnly ==
    /\ \A i \in DOMAIN answer.items :
        Owner[answer.items[i].entry] = answer.key.user
    /\ \A k \in Keys : \A i \in DOMAIN cached[k].items :
        Owner[cached[k].items[i].entry] = k.user

\* A page may show an entry that is deleted, for nothing clears the cache then;
\* but only if the entry was there when its result began to be computed, and
\* when the page was made that result was no older than its time to live, however
\* often it had been used in between (_ResultCache.get).  It looks at the steps
\* that make a page other than the one before.
StaleForATime ==
    [][answer' # answer => \A i \in DOMAIN answer'.items :
        LET e == answer'.items[i].entry
            was == since'.computed[answer'.key]
        IN since.deleted[e] # -1 =>
            was.began <= since.deleted[e] /\ clock - was.ended <= Ttl]_searchVars

=============================================================================
