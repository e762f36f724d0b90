-------------------------- MODULE EpisodeRetriever --------------------------
(***************************************************************************)
(* episode_retriever.py over a bundle the service has loaded: the nearest  *)
(* episodes of a query without those of the querying entity, answered from *)
(* a Redis cache when it holds the query.  Services share the cache, and a *)
(* service may search with another bundle after a restart.  The distances  *)
(* of an index are given by its ranking of its vectors for each query; the *)
(* metadata says whose episode a vector is, and may be of another save.    *)
(***************************************************************************)
EXTENDS ArtifactRegistry, Sequences, SequencesExt

CONSTANTS
    Entities,    \* entity ids that can be excluded, "unknown" not among them
    Anyone,      \* exclude_entity_id=None; the cache key says "unknown"
    Queries,     \* embeddings
    Hash,        \* the first 8 digits of their sha256, which may be the same
    Ks,          \* values of k
    Margin,      \* the over-fetch (5 in the code)
    Nearest,     \* per index and query: the ids of its vectors, nearest first
    Metadata,    \* per save: the entities of the episodes, by id
    Missed,      \* the sets of ranks IVF may leave unprobed
    MaxSearches  \* bound: searches of all services

ASSUME RetrieverAssumption ==
    /\ Anyone \notin Entities
    /\ Ks \subseteq Nat \ {0} /\ Margin \in Nat /\ MaxSearches \in Nat
    /\ Nearest \in [Versions -> [Queries -> Seq(Nat)]]
    /\ Metadata \in [Versions -> Seq(Entities)]
    /\ Missed \subseteq SUBSET Nat

VARIABLES
    cache,    \* Redis: the cached answers, one per key at most
    request,  \* the search of each service that is between GET and SET
    answers,  \* history: the answer the last step gave, if it gave one
    searches  \* searches begun so far

vars == <<artifactVars, cache, request, answers, searches>>

Requests == [entity: Entities \cup {Anyone}, query: Queries, k: Ks]

\* What a service searches: an index, and the metadata loaded beside it.
Loaded(s) == [index |-> service[s].index, meta |-> service[s].meta]

NoSource == [index |-> Absent, meta |-> Absent]

\* Whose episode vector id is; nobody's, if the metadata has no such entry.
EntityOf(m, id) == IF id \in DOMAIN Metadata[m] THEN Metadata[m][id] ELSE Anyone

\* The episodes of x, nearest first: the rank stands for the similarity.
Episodes(x, q) ==
    [i \in DOMAIN Nearest[x.index][q] |->
        [index |-> x.index, meta |-> x.meta, query |-> q, rank |-> i,
         entity |-> EntityOf(x.meta, Nearest[x.index][q][i])]]

\* Mutant: the key is made of the embedding alone.
CacheKeyOfQuery(r) == [entity |-> Anyone, hash |-> Hash[r.query]]

CacheKey(r) == [entity |-> r.entity, hash |-> Hash[r.query]]

-----------------------------------------------------------------------------
(* One search of the index.                                                 *)

\* Mutant: no over-fetch.
FetchKExact(r, ntotal) == IF r.k < ntotal THEN r.k ELSE ntotal

FetchK(r, ntotal) ==
    LET k == IF r.entity = Anyone THEN r.k ELSE r.k + Margin
    IN  IF k < ntotal THEN k ELSE ntotal

\* search_topk: the nearest fetch_k of the vectors in the cells it probes.
SearchTopK(found, n) == SubSeq(found, 1, IF n < Len(found) THEN n ELSE Len(found))

\* A loop over a list that keeps what is at some positions of it.
Take(list, at) ==
    FoldLeftDomain(LAMBDA kept, i : IF i \in at THEN Append(kept, list[i]) ELSE kept,
                   <<>>, list)

\* The loop over the rows: drop the entity's own episodes, stop at k.
FilterRows(rows, r) ==
    SearchTopK(Take(rows, {i \in DOMAIN rows : rows[i].entity # r.entity}), r.k)

\* The episodes IVF sees when the cells of the ranks in missed are not probed.
Found(x, q, missed) == Take(Episodes(x, q), DOMAIN Nearest[x.index][q] \ missed)

Fetched(x, r, missed) ==
    SearchTopK(Found(x, r.query, missed), FetchK(r, Len(Nearest[x.index][r.query])))

Retrieve(x, r, missed) == FilterRows(Fetched(x, r, missed), r)

\* batch_search: one fetch_k for every row, with the margin if any row excludes.
BatchFetched(x, r, anyExclusion, missed) ==
    LET asked  == IF anyExclusion THEN r.k + Margin ELSE r.k
        ntotal == Len(Nearest[x.index][r.query])
    IN  SearchTopK(Found(x, r.query, missed), IF asked < ntotal THEN asked ELSE ntotal)

BatchRow(x, r, anyExclusion, missed) ==
    FilterRows(BatchFetched(x, r, anyExclusion, missed), r)

\* Otherwise search_topk raises: metadata_list has no such index.
Described(rows) == \A i \in DOMAIN rows : rows[i].entity # Anyone

-----------------------------------------------------------------------------
(* search(), one action per Redis round trip.                               *)

NoRequest == [at |-> "idle"]

Init ==
    /\ ArtifactInit
    /\ cache = {}
    /\ request = [s \in Services |-> NoRequest]
    /\ answers = {}
    /\ searches = 0

\* from: what was searched, or NoSource for an answer of the cache.
Answer(r, list, from, missed) ==
    answers' = {[request |-> r, list |-> list, from |-> from, missed |-> missed]}

Serving(s) == service[s].at = "up" /\ request[s] = NoRequest /\ searches < MaxSearches

\* The cache holds the query: its list is the answer, as it is.
SearchHit(s) ==
    /\ Serving(s)
    /\ searches' = searches + 1
    /\ \E r \in Requests : \E c \in cache :
          /\ c.key = CacheKey(r)
          /\ Answer(r, c.list, NoSource, {})
    /\ UNCHANGED <<artifactVars, cache, request>>

\* It does not: FAISS is searched.
SearchMiss(s) ==
    /\ Serving(s)
    /\ searches' = searches + 1
    /\ \E r \in Requests, missed \in Missed :
          /\ \A c \in cache : c.key # CacheKey(r)
          /\ Described(Fetched(Loaded(s), r, missed))
          /\ request' = [request EXCEPT ![s] =
                [at |-> "set", request |-> r, missed |-> missed,
                 list |-> Retrieve(Loaded(s), r, missed)]]
    /\ answers' = {}
    /\ UNCHANGED <<artifactVars, cache>>

\* One row of a batch_search, whose other rows exclude an entity or not.
BatchSearch(s) ==
    /\ Serving(s)
    /\ searches' = searches + 1
    /\ \E r \in Requests, others \in BOOLEAN, missed \in Missed :
       LET any == others \/ r.entity # Anyone
       IN  /\ Described(BatchFetched(Loaded(s), r, any, missed))
           /\ Answer(r, BatchRow(Loaded(s), r, any, missed), Loaded(s), missed)
    /\ UNCHANGED <<artifactVars, cache, request>>

\* Mutant: what another service has stored meanwhile stays.
StoreAdds(s) ==
    LET r == request[s].request
    IN  /\ request[s].at = "set"
        /\ cache' = cache \cup {[key |-> CacheKey(r), list |-> request[s].list]}
        /\ Answer(r, request[s].list, Loaded(s), request[s].missed)
        /\ request' = [request EXCEPT ![s] = NoRequest]
        /\ UNCHANGED <<artifactVars, searches>>

\* SET replaces what another service has stored since the GET.
Store(s) ==
    LET r == request[s].request
        others == {c \in cache : c.key # CacheKey(r)}
    IN  /\ request[s].at = "set"
        /\ cache' = others \cup {[key |-> CacheKey(r), list |-> request[s].list]}
        /\ Answer(r, request[s].list, Loaded(s), request[s].missed)
        /\ request' = [request EXCEPT ![s] = NoRequest]
        /\ UNCHANGED <<artifactVars, searches>>

\* Redis raises at SET: search() raises, and nothing is answered.
StoreRaises(s) ==
    /\ request[s].at = "set"
    /\ request' = [request EXCEPT ![s] = NoRequest]
    /\ answers' = {}
    /\ UNCHANGED <<artifactVars, cache, searches>>

Expire ==
    /\ \E c \in cache : cache' = cache \ {c}
    /\ answers' = {}
    /\ UNCHANGED <<artifactVars, request, searches>>

\* No search is touched.
Elsewhere == answers' = {} /\ UNCHANGED <<cache, request, searches>>

Next ==
    \/ \E v \in Versions : Publish(v) /\ Elsewhere
    \/ \E s \in Services :
          \/ request[s] = NoRequest /\ Load(s) /\ Elsewhere
          \/ SearchHit(s) \/ SearchMiss(s) \/ Store(s) \/ StoreRaises(s) \/ BatchSearch(s)
    \/ Expire

Spec == Init /\ [][Next]_vars

-----------------------------------------------------------------------------
(* Properties                                                               *)

\* Types; the cache holds one answer per key.
SpaceTypeOK ==
    /\ \A p \in Paths, f \in Files :
          disk[p][f] \in {Absent, Garbled} \cup Versions \cup {Opened(v) : v \in Versions}
    /\ manifest.versions \subseteq Versions
    /\ registered \subseteq Versions /\ overlapped \subseteq Versions
    /\ \A s \in Services : service[s].bundle \in {Absent} \cup Versions
    /\ \A c, d \in cache : c.key = d.key => c = d
    /\ \A a \in answers : a.request \in Requests

\* A list that answers a search: episodes of one index and one metadata, in
\* the order of their similarity to one query, of the hash of the query asked;
\* each of the entity the metadata names, and none of the excluded one.
Genuine(list, r) ==
    \A i \in DOMAIN list :
       LET e == list[i]
       IN  /\ Hash[e.query] = Hash[r.query]
           /\ e.entity # r.entity /\ e.entity # Anyone
           /\ e.entity = EntityOf(e.meta, Nearest[e.index][e.query][e.rank])
           /\ \A j \in 1 .. i - 1 :
                 /\ list[j].rank < e.rank
                 /\ list[j].index = e.index /\ list[j].meta = e.meta
                 /\ list[j].query = e.query

\* "Ordered most-similar first", and "episodes belonging to this entity_id are
\* filtered out": every answer is genuine, from the cache or not and whoever
\* computed it, whatever it had loaded.
AnswersAreGenuine == \A a \in answers : Genuine(a.list, a.request)

\* A list shorter than k has all the episodes the probed cells hold, or the
\* entity's own took more than the margin.
Explained(list, x, r, missed) ==
    Len(list) < r.k =>
       LET found == Found(x, r.query, missed)
           own   == Cardinality({i \in DOMAIN found : found[i].entity = r.entity})
       IN  Len(list) = Len(found) - own \/ own > Margin

\* The over-fetch: an answer of the index with fewer than k episodes has a
\* reason.
UnderfillIsExplained ==
    \A a \in answers : a.from # NoSource => Explained(a.list, a.from, a.request, a.missed)

\* "Up to k results": no answer is longer than the k of its search.
UpToK == \A a \in answers : Len(a.list) <= a.request.k

=============================================================================
