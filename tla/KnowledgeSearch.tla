-------------------------- MODULE KnowledgeSearch --------------------------
(***************************************************************************)
(* The in-memory BM25 index, rebuilt from pages of the Qdrant collection   *)
(* while documents are ingested, and the hybrid search that reads both:    *)
(* BM25Index.build, BM25Index.search and HybridRetriever.search.           *)
(***************************************************************************)
EXTENDS RankFusion

CONSTANTS
  Point,         \* chunks; their UUIDs are numbers, since a scroll goes by id
  Blank,         \* chunks whose text is empty
  Tagged,        \* chunks that match the filters a filtered query asks for
  Build,         \* calls of build, at start-up and by POST /index/rebuild
  Query,         \* calls of HybridRetriever.search
  PageSize,      \* _SCROLL_PAGE_SIZE
  DenseTopK, SparseTopK, TopK,
  Threshold,     \* the score threshold of a query, in thousandths
  Faults         \* the failures that may happen

SearchFaults == {"scroll", "embed", "dense", "crash"}

ASSUME SearchAssumption ==
  /\ Point \subseteq Nat \ {0} /\ IsFiniteSet(Point)
  /\ Blank \subseteq Point /\ Tagged \subseteq Point
  /\ PageSize \in Nat \ {0}
  /\ DenseTopK \in 0 .. MaxRank /\ SparseTopK \in 0 .. MaxRank
  /\ TopK \in Nat \ {0} /\ Threshold \in Nat
  /\ Faults \subseteq SearchFaults

VARIABLES
  stored,    \* the points of the collection
  corpus,    \* the chunks of the BM25 index; no index object when it is empty
  built,     \* _built
  build,     \* each build: [at, offset, fetched, base]; base is the collection
             \* when it began
  query      \* each search: [at, filtered, dense, sparse, answer]

vars == <<stored, corpus, built, build, query>>

-----------------------------------------------------------------------------
\* The pages of a scroll: by id, from an offset on.
From(offset) == {p \in stored : p >= offset}
Page(offset) == {p \in From(offset) : Cardinality({q \in From(offset) : q < p}) < PageSize}
Rest(offset) == From(offset) \ Page(offset)
Smallest(S) == CHOOSE p \in S : \A q \in S : p <= q

NoBuild == [at |-> "idle", offset |-> 0, fetched |-> {}, base |-> {}]
NoQuery == [at |-> "idle", filtered |-> FALSE, dense |-> <<>>, sparse |-> <<>>, answer |-> <<>>]

Init ==
  /\ stored = {}
  /\ corpus = {}
  /\ built = FALSE
  /\ build = [b \in Build |-> NoBuild]
  /\ query = [q \in Query |-> NoQuery]

\* A batch of an ingestion arrives.  Nothing in the application removes points.
Ingest(S) ==
  /\ S # {}
  /\ stored \cap S = {}
  /\ stored' = stored \cup S
  /\ UNCHANGED <<corpus, built, build, query>>

-----------------------------------------------------------------------------
(* BM25Index.build *)

StartBuild(b) ==
  /\ build[b].at = "idle"
  /\ build' = [build EXCEPT ![b] = [NoBuild EXCEPT !.at = "scroll", !.base = stored]]
  /\ UNCHANGED <<stored, corpus, built, query>>

\* Variant: chunks without text are indexed as well.
ScrollPageBlank(b) ==
  /\ build[b].at = "scroll"
  /\ LET rest == Rest(build[b].offset) IN
     build' = [build EXCEPT
       ![b].fetched = @ \cup Page(build[b].offset),
       ![b].offset  = IF rest = {} THEN @ ELSE Smallest(rest),
       ![b].at      = IF rest = {} THEN "install" ELSE "scroll"]
  /\ UNCHANGED <<stored, corpus, built, query>>

\* Variant: the cursor of the next page is ignored.
ScrollPageOnce(b) ==
  /\ build[b].at = "scroll"
  /\ build' = [build EXCEPT
       ![b].fetched = @ \cup (Page(build[b].offset) \ Blank),
       ![b].at      = "install"]
  /\ UNCHANGED <<stored, corpus, built, query>>

ScrollPage(b) ==
  /\ build[b].at = "scroll"
  /\ LET rest == Rest(build[b].offset) IN
     build' = [build EXCEPT
       ![b].fetched = @ \cup (Page(build[b].offset) \ Blank),
       ![b].offset  = IF rest = {} THEN @ ELSE Smallest(rest),
       ![b].at      = IF rest = {} THEN "install" ELSE "scroll"]
  /\ UNCHANGED <<stored, corpus, built, query>>

\* The index in place, if any, stays.
ScrollFails(b) ==
  /\ build[b].at = "scroll"
  /\ "scroll" \in Faults
  /\ build' = [build EXCEPT ![b] = [NoBuild EXCEPT !.at = "error"]]
  /\ UNCHANGED <<stored, corpus, built, query>>

\* Under the lock: an empty result replaces the index as well.
Install(b) ==
  /\ build[b].at = "install"
  /\ corpus' = build[b].fetched
  /\ built' = TRUE
  /\ build' = [build EXCEPT ![b].at = "ok"]
  /\ UNCHANGED <<stored, query>>

-----------------------------------------------------------------------------
(* HybridRetriever.search *)

\* The query vector; an error of the embedder answers with nothing.
StartQuery(q) ==
  /\ query[q].at = "idle"
  /\ \E f \in BOOLEAN :
       query' = [query EXCEPT ![q] = [NoQuery EXCEPT !.at = "dense", !.filtered = f]]
  /\ UNCHANGED <<stored, corpus, built, build>>

EmbedFails(q) ==
  /\ query[q].at = "idle"
  /\ "embed" \in Faults
  /\ query' = [query EXCEPT ![q].at = "failed"]
  /\ UNCHANGED <<stored, corpus, built, build>>

\* Qdrant ranks the points that match the filters.
DenseSearch(q) ==
  /\ query[q].at = "dense"
  /\ \E list \in Rankings(IF query[q].filtered THEN stored \cap Tagged ELSE stored, DenseTopK) :
       query' = [query EXCEPT ![q].at = "fuse", ![q].dense = list]
  /\ UNCHANGED <<stored, corpus, built, build>>

\* The search goes on with the other leg.
DenseFails(q) ==
  /\ query[q].at = "dense"
  /\ "dense" \in Faults
  /\ query' = [query EXCEPT ![q].at = "fuse"]
  /\ UNCHANGED <<stored, corpus, built, build>>

\* BM25 knows no filters; fusion, threshold and cut follow without an await.
SparseSearch(q) ==
  /\ query[q].at = "fuse"
  /\ \E list \in Rankings(IF built THEN corpus ELSE {}, SparseTopK) :
       query' = [query EXCEPT
         ![q].at = "answered",
         ![q].sparse = list,
         ![q].answer = Cut(query[q].dense, list, Threshold, TopK)]
  /\ UNCHANGED <<stored, corpus, built, build>>

-----------------------------------------------------------------------------
\* A restart: the index and all calls are gone, the collection is not.
Crash ==
  /\ "crash" \in Faults
  /\ corpus' = {}
  /\ built' = FALSE
  /\ build' = [b \in Build |-> IF build[b].at = "idle" THEN build[b]
                               ELSE [NoBuild EXCEPT !.at = "dead"]]
  /\ query' = [q \in Query |-> IF query[q].at \in {"dense", "fuse"}
                               THEN [NoQuery EXCEPT !.at = "dead"] ELSE query[q]]
  /\ UNCHANGED stored

Next ==
  \/ \E S \in SUBSET Point : Ingest(S)
  \/ \E b \in Build : StartBuild(b) \/ ScrollPage(b) \/ ScrollFails(b) \/ Install(b)
  \/ \E q \in Query :
       StartQuery(q) \/ EmbedFails(q) \/ DenseSearch(q) \/ DenseFails(q) \/ SparseSearch(q)
  \/ Crash

Spec == Init /\ [][Next]_vars

-----------------------------------------------------------------------------
(* Properties *)

\* Every variable keeps its type; what a build has fetched was in the collection.
TypeOK ==
  /\ stored \subseteq Point
  /\ corpus \subseteq stored \ Blank
  /\ built \in BOOLEAN
  /\ build \in [Build -> [at : {"idle", "scroll", "install", "ok", "error", "dead"},
                        offset : Nat, fetched : SUBSET stored, base : SUBSET stored]]
  /\ query \in [Query -> [at : {"idle", "dense", "fuse", "answered", "failed", "dead"},
                        filtered : BOOLEAN,
                        dense : Rankings(stored, DenseTopK),
                        sparse : Rankings(stored, SparseTopK),
                        answer : Seq(stored)]]

\* However rebuilds overlap, pages fetched during ingestion miss nothing: what a
\* successful rebuild found is missing from the index only when another one, which
\* began before some of it came, was installed in its place with all that it found.
LossNeedsOverlap ==
  \A b \in Build : build[b].at = "ok" =>
    \/ build[b].base \ Blank \subseteq corpus
    \/ \E o \in Build : /\ build[o].at = "ok"
                       /\ ~(build[b].base \subseteq build[o].base)
                       /\ build[o].base \ Blank \subseteq corpus

\* x is ranked at least as well as y by both lists and better by one.
Place(list, id) == IF id \in Ids(list) THEN RankIn(list, id) ELSE MaxRank + 1
Dominates(q, x, y) ==
  /\ Place(query[q].dense, x) <= Place(query[q].dense, y)
  /\ Place(query[q].sparse, x) <= Place(query[q].sparse, y)
  /\ x # y

\* No answer lists a chunk twice or one that was not found, and none lists or
\* leaves out a chunk against the order both lists agree on.
AnswerRespectsRanks ==
  \A q \in Query : query[q].at = "answered" =>
    LET a == query[q].answer  found == Found(query[q].dense, query[q].sparse) IN
    /\ Cardinality(Ids(a)) = Len(a) /\ Len(a) <= TopK
    /\ Ids(a) \subseteq found \cap stored
    /\ \A i \in DOMAIN a : \A x \in found :
         Dominates(q, x, a[i]) => \E j \in 1 .. i - 1 : a[j] = x

\* "Empty list if nothing found": a search that has found a chunk returns one.
SearchReturnsFound ==
  \A q \in Query :
    query[q].at = "answered" /\ query[q].dense # <<>> => query[q].answer # <<>>
=============================================================================
