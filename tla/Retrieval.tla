------------------------------ MODULE Retrieval ------------------------------
(***************************************************************************)
(* The retrieval half of a query: the embedding of the question with its   *)
(* cache, the routing decision with its lazily warmed centroids, vector    *)
(* search and graph traversal.  One process, several queries at once; a    *)
(* step ends where the code awaits.  Which provider embeds is configured   *)
(* for all organizations; whose key pays is up to the organization.        *)
(***************************************************************************)
EXTENDS Naturals, Sequences, FiniteSets, SequencesExt

CONSTANTS
    Askers,      \* queries under way at once
    Texts,       \* questions that are asked
    Embedders,   \* embedding providers that are looked at
    CacheSize,   \* EMBEDDING_CACHE_SIZE
    Nodes,       \* entities of the knowledge graph
    Foreign,     \* those of another organization
    Edges,       \* relations between them
    Joins,       \* the two nodes of each, or the one: relations may be parallel, or loops
    Id,          \* graph ids of nodes and edges: a label's number, then a sequence number
    Precision,   \* up to here every integer is a double (2^53)
    MaxRows      \* bound on the paths that a traversal finds (LIMIT)

ASSUME RetrievalAssumption ==
    /\ Embedders \subseteq {"openai", "openrouter", "cohere", "gemini", "ollama", "bedrock"}
    /\ CacheSize \in Nat /\ MaxRows \in Nat
    /\ Foreign \subseteq Nodes /\ Joins \in [Edges -> SUBSET Nodes]
    /\ Id \in [Nodes \cup Edges -> Nat] /\ IsInjective(Id) /\ Precision \in Nat \ {0}

VARIABLES
    embedder, envKey,  \* EMBEDDING_PROVIDER, and whether the environment has a key for it
    memo,      \* the embedding cache's questions, least recently used first
    expired,   \* those whose time is over
    centroids, \* computed
    warming,   \* the promise of a warm-up: none, running, or rejected
    payer,     \* whose key the warm-up uses: own (of the embedding provider) or not
    ask,       \* the queries
    found,     \* history: the paths that the step just taken found in the graph, and what it returned
    blamed     \* history: queries whose warm-up failed while they were waiting for it

retrievalVars == <<embedder, envKey, memo, expired, centroids, warming, payer, ask, found, blamed>>

Strategies == {"vector_only", "graph_only", "hybrid"}
NoQuestion == [pc |-> "idle", text |-> "none", own |-> FALSE, sure |-> FALSE,
               classifier |-> "none", strategy |-> "none"]
NothingFound == [rows |-> <<>>, results |-> <<>>]

RetrievalInit ==
    /\ embedder \in Embedders /\ envKey \in BOOLEAN
    /\ memo = <<>> /\ expired = {}
    /\ centroids = FALSE /\ warming = "none" /\ payer = FALSE
    /\ ask = [a \in Askers |-> NoQuestion]
    /\ found = NothingFound
    /\ blamed = {}

RetrievalTypeOK ==
    /\ embedder \in Embedders /\ envKey \in BOOLEAN
    /\ ToSet(memo) \subseteq Texts /\ IsInjective(memo) /\ Len(memo) <= CacheSize /\ expired \subseteq ToSet(memo)
    /\ centroids \in BOOLEAN /\ warming \in {"none", "running", "rejected"} /\ payer \in BOOLEAN
    /\ ask \in [Askers -> [pc : {"idle", "embedding", "embedded", "waiting", "routed", "vector", "graph"},
                           text : Texts \cup {"none"}, own : BOOLEAN, sure : BOOLEAN, strategy : Strategies \cup {"none"},
                           classifier : {"none", "forced", "rule_based", "embedding_centroid"}]]
    /\ blamed \subseteq Askers

Turns(a, rec) == ask' = [ask EXCEPT ![a] = rec]

(* What a filter leaves of a sequence. *)
Filtered(s, keep) ==
    LET upTo[i \in 0 .. Len(s)] ==
          IF i = 0 THEN <<>> ELSE IF s[i] \in keep THEN Append(upTo[i - 1], s[i]) ELSE upTo[i - 1]
    IN upTo[Len(s)]
Without(s, drop) == Filtered(s, ToSet(s) \ drop)

---------------------------------------------------------------------------
(* The embedding service.  A provider answers when there is a key for it;  *)
(* own: the organization's credential is of the embedding provider.        *)
EmbedOpenAI(own) == own \/ envKey
EmbedOpenRouter(own) == own \/ envKey
EmbedCohere == envKey
EmbedGemini(own) == own
EmbedOllama == TRUE    \* four requests at once; the first failure is the batch's
EmbedBedrock == TRUE   \* one request at a time, each tried eight times when throttled

(* What a batch may come to: also with a key it can fail, as a whole, or   *)
(* because one of the vectors is zero.                                     *)
EmbedBatch(own) ==
    LET reached == CASE embedder = "openai" -> EmbedOpenAI(own)
                     [] embedder = "openrouter" -> EmbedOpenRouter(own)
                     [] embedder = "cohere" -> EmbedCohere
                     [] embedder = "gemini" -> EmbedGemini(own)
                     [] embedder = "ollama" -> EmbedOllama
                     [] embedder = "bedrock" -> EmbedBedrock
    IN {FALSE} \cup {reached}

(* LRUCache.get: an expired entry is dropped, another becomes the newest. *)
CacheGet(t) ==
    IF t \in expired THEN memo' = Without(memo, {t}) /\ expired' = expired \ {t}
    ELSE IF t \in ToSet(memo) THEN memo' = Append(Without(memo, {t}), t) /\ UNCHANGED expired
    ELSE UNCHANGED <<memo, expired>>

(* LRUCache.set: the oldest entry goes, whether or not another has expired.*)
NeverEvicted(t) == Without(memo, {t})
Evicted(t) == IF t \notin ToSet(memo) /\ Len(memo) >= CacheSize THEN Tail(memo) ELSE Without(memo, {t})
CacheSet(t) ==
    IF CacheSize = 0 THEN UNCHANGED <<memo, expired>>
    ELSE /\ memo' = Append(Evicted(t), t)
         /\ expired' = (expired \cap ToSet(Evicted(t))) \ {t}

Expire(t) ==
    /\ t \in ToSet(memo) \ expired
    /\ expired' = expired \cup {t}
    /\ UNCHANGED <<embedder, envKey, memo, centroids, warming, payer, ask, blamed>>

(* embedSingle, up to the provider: the cache does not ask whose key paid. *)
EmbedSingle(a, t, own) ==
    /\ ask[a].pc = "idle"
    /\ CacheGet(t)
    /\ Turns(a, IF t \in ToSet(memo) \ expired
                THEN [NoQuestion EXCEPT !.pc = "embedded", !.own = own]
                ELSE [NoQuestion EXCEPT !.pc = "embedding", !.own = own, !.text = t])
    /\ UNCHANGED <<embedder, envKey, centroids, warming, payer, blamed>>

Embedded(a) ==
    /\ ask[a].pc = "embedding"
    /\ \E ok \in EmbedBatch(ask[a].own) :
         IF ok THEN CacheSet(ask[a].text) /\ Turns(a, [ask[a] EXCEPT !.pc = "embedded", !.text = "none"])
         ELSE UNCHANGED <<memo, expired>> /\ Turns(a, NoQuestion)
    /\ UNCHANGED <<embedder, envKey, centroids, warming, payer, blamed>>

---------------------------------------------------------------------------
(* RuleBasedClassifier: two keyword lists each; no keyword at all leaves   *)
(* the confidence below the threshold.                                     *)
RuleBased(graph, vector) ==
    IF graph > vector /\ graph >= 2 THEN "graph_only"
    ELSE IF vector > graph /\ vector >= 2 THEN "vector_only" ELSE "hybrid"
Confident(graph, vector) == graph + vector > 0

(* sure: the confidence of the rules reaches the threshold. *)
Routed(a, classifier, sure, strategy) ==
    [ask[a] EXCEPT !.pc = "routed", !.own = FALSE, !.classifier = classifier, !.sure = sure, !.strategy = strategy]

ForcedStrategy(a) ==
    /\ ask[a].pc = "embedded"
    /\ \E s \in Strategies : Turns(a, Routed(a, "forced", TRUE, s))
    /\ UNCHANGED <<embedder, envKey, memo, expired, centroids, warming, payer, blamed>>

KeywordsDecide(a) ==
    /\ ask[a].pc = "embedded"
    /\ \E g, v \in 0 .. 2 : Confident(g, v) /\ Turns(a, Routed(a, "rule_based", TRUE, RuleBased(g, v)))
    /\ UNCHANGED <<embedder, envKey, memo, expired, centroids, warming, payer, blamed>>

(* The nearest centroid, or hybrid when two of them are about as near. *)
NearestCentroid == Strategies
Fallback(a) == Routed(a, "rule_based", FALSE, RuleBased(0, 0))

(* ensureCentroids: one warm-up at a time, with the key of whoever came    *)
(* first; a promise that is already rejected fails the query at once.      *)
EnsureCentroids(a) ==
    /\ ask[a].pc = "embedded"
    /\ IF centroids
       THEN UNCHANGED <<warming, payer>> /\ \E s \in NearestCentroid : Turns(a, Routed(a, "embedding_centroid", FALSE, s))
       ELSE IF warming = "rejected" THEN UNCHANGED <<warming, payer>> /\ Turns(a, Fallback(a))
       ELSE /\ warming' = "running"
            /\ payer' = IF warming = "none" THEN ask[a].own ELSE payer
            /\ Turns(a, [ask[a] EXCEPT !.pc = "waiting"])
    /\ UNCHANGED <<embedder, envKey, memo, expired, centroids, blamed>>

(* finally: the promise is forgotten before anybody who waited goes on. *)
ForgottenOnSuccess(ok) == IF ok THEN "none" ELSE "rejected"
Forgotten(ok) == "none"

WarmUpEnds ==
    /\ warming = "running"
    /\ \E ok \in EmbedBatch(payer), nearest \in [Askers -> NearestCentroid] :
         /\ centroids' = ok
         /\ warming' = Forgotten(ok)
         /\ ask' = [a \in Askers |-> IF ask[a].pc # "waiting" THEN ask[a]
                                     ELSE IF ok THEN Routed(a, "embedding_centroid", FALSE, nearest[a]) ELSE Fallback(a)]
         /\ payer' = FALSE
         /\ blamed' = IF ok THEN blamed ELSE blamed \cup {a \in Askers : ask[a].pc = "waiting"}
    /\ UNCHANGED <<embedder, envKey, memo, expired>>

---------------------------------------------------------------------------
(* route.  A vector search that throws ends the query. *)
Needs(s) == IF s = "graph_only" THEN "graph" ELSE "vector"

Route(a) ==
    /\ ask[a].pc = "routed"
    /\ Turns(a, [NoQuestion EXCEPT !.pc = Needs(ask[a].strategy), !.strategy = ask[a].strategy])
    /\ blamed' = blamed \ {a}
    /\ UNCHANGED <<embedder, envKey, memo, expired, centroids, warming, payer>>

SimilaritySearch(a) ==
    /\ ask[a].pc = "vector"
    /\ \/ ask[a].strategy = "hybrid" /\ Turns(a, [ask[a] EXCEPT !.pc = "graph"])
       \/ Turns(a, NoQuestion)
    /\ UNCHANGED <<embedder, envKey, memo, expired, centroids, warming, payer, blamed>>

(* JSON.parse: a graph id becomes the nearest double, of two the even one. *)
Spacing(n) == CHOOSE u \in {2 ^ k : k \in 0 .. 11} :
    n < Precision * u /\ (u > 1 => n >= Precision * (u \div 2))
Rounded(n) ==
    LET u == Spacing(n)
        twice == 2 * (n % u)
    IN IF twice < u \/ (twice = u /\ (n \div u) % 2 = 0) THEN n - (n % u) ELSE n - (n % u) + u

(* toGraphNode, toGraphEdge: from here on nodes and edges are told apart   *)
(* by the text of the rounded id.                                          *)
Key == [x \in Nodes \cup Edges |-> Rounded(Id[x])]
SameKey(x, y) == Key[x] = Key[y]

(* Paths of at most two hops whose ends are the organization's own; what   *)
(* lies between them is not, perhaps.  A path may come back to a node, but *)
(* takes no edge twice.                                                    *)
Own == Nodes \ Foreign
Leads(p) == \A i \in DOMAIN p.edges : Joins[p.edges[i]] = {p.nodes[i], p.nodes[i + 1]}
Paths == {p \in [nodes : SeqOf(Nodes, 3), edges : SeqOf(Edges, 2)] :
            /\ Len(p.nodes) = Len(p.edges) + 1 /\ Leads(p) /\ IsInjective(p.edges)
            /\ {Head(p.nodes), Last(p.nodes)} \subseteq Own}
Rows == SeqOf(Paths, MaxRows)

(* The nodes' organizations are compared, but the edges' allowedIds.       *)
NodesOf(p) == Filtered(p.nodes, Own)
Allowed(p) == {e \in Edges : \A n \in Joins[e] : \E o \in ToSet(NodesOf(p)) : SameKey(n, o)}
AllHops(p) == p.edges
EdgesOf(p) == Filtered(p.edges, Allowed(p))

(* An id that an earlier row, or this row before, has shown is left out,   *)
(* and rows without any are dropped; the score is of the whole row.        *)
Repeats(lists, i, j) ==
    \E k \in 1 .. i : \E l \in DOMAIN lists[k] : (k < i \/ l < j) /\ SameKey(lists[k][l], lists[i][j])
FirstShown(lists) ==
    [i \in DOMAIN lists |->
        LET places == Filtered([j \in 1 .. Len(lists[i]) |-> j], {j \in DOMAIN lists[i] : ~Repeats(lists, i, j)})
        IN [k \in 1 .. Len(places) |-> lists[i][places[k]]]]
Results(rows) ==
    LET nodes == FirstShown([i \in DOMAIN rows |-> NodesOf(rows[i])])
        edges == FirstShown([i \in DOMAIN rows |-> EdgesOf(rows[i])])
        all == [i \in DOMAIN rows |-> [nodes |-> nodes[i], edges |-> edges[i], parts |-> Len(NodesOf(rows[i]))]]
    IN Filtered(all, {r \in ToSet(all) : r.nodes # <<>> \/ r.edges # <<>>})

(* traversalSearch answers its own errors with nothing, so a graph that is *)
(* not there looks like one without matches: graph_only then searches the  *)
(* vectors and says that the graph is unavailable, hybrid does not.        *)
TraversalSearch(a, all) ==
    /\ ask[a].pc = "graph"
    /\ \E rows \in all : LET results == Results(rows) IN
         /\ found' = [rows |-> rows, results |-> results]
         /\ Turns(a, IF ask[a].strategy = "graph_only" /\ results = <<>>
                     THEN [ask[a] EXCEPT !.pc = "vector"] ELSE NoQuestion)
    /\ UNCHANGED <<embedder, envKey, memo, expired, centroids, warming, payer, blamed>>

(* What happens outside the graph. *)
PipelineNext ==
    /\ \/ \E t \in Texts : Expire(t)
       \/ \E a \in Askers, t \in Texts, own \in BOOLEAN : EmbedSingle(a, t, own)
       \/ \E a \in Askers : \/ Embedded(a) \/ ForcedStrategy(a) \/ KeywordsDecide(a)
                            \/ EnsureCentroids(a) \/ Route(a) \/ SimilaritySearch(a)
       \/ WarmUpEnds
    /\ found' = NothingFound

RetrievalNext == PipelineNext \/ \E a \in Askers : TraversalSearch(a, Rows)

RetrievalSpec == RetrievalInit /\ [][RetrievalNext]_retrievalVars

---------------------------------------------------------------------------
(* A question without keywords is left to the rules only when a warm-up    *)
(* failed while this very query was waiting for it: no query suffers from  *)
(* an earlier failure, however the queries share their attempts.           *)
FallbackHadAnAttempt ==
    \A a \in Askers : ask[a].classifier = "rule_based" /\ ~ask[a].sure => a \in blamed

(* Of the paths that the graph returned, the organization's own nodes and  *)
(* the edges between two of them are shown, each once, and nothing else:   *)
(* except that of those whose rounded ids are the same one is shown for    *)
(* all, and that an edge is taken for one between own nodes when the ids   *)
(* of its ends are rounded to those of own nodes.  Where the ids that were *)
(* met are exact, there are no exceptions.                                 *)
Shown(lists) == UNION {ToSet(lists[i]) : i \in DOMAIN lists}
EachOnce(lists, must, may) ==
    /\ Shown(lists) \subseteq may
    /\ \A x \in must : \E y \in Shown(lists) : SameKey(x, y)
    /\ \A i, j \in DOMAIN lists : \A k \in DOMAIN lists[i], l \in DOMAIN lists[j] :
         SameKey(lists[i][k], lists[j][l]) => i = j /\ k = l

Met(rows) == UNION {ToSet(p.nodes) : p \in ToSet(rows)}
Hops(rows) == UNION {ToSet(p.edges) : p \in ToSet(rows)}
LooksOwn(n, rows) == \E o \in Met(rows) \cap Own : SameKey(n, o)

OwnOnce(rows, results) ==
    /\ EachOnce([i \in DOMAIN results |-> results[i].nodes], Met(rows) \cap Own, Met(rows) \cap Own)
    /\ EachOnce([i \in DOMAIN results |-> results[i].edges],
                {e \in Hops(rows) : Joins[e] \subseteq Own},
                {e \in Hops(rows) : \A n \in Joins[e] : LooksOwn(n, rows)})

TraversalIsOwnOnce == OwnOnce(found.rows, found.results)
==============================================================================
