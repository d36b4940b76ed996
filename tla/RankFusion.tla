----------------------------- MODULE RankFusion -----------------------------
(***************************************************************************)
(* rrf_fuse: weighted Reciprocal Rank Fusion of the dense and the sparse   *)
(* result list, and the cut HybridRetriever.search makes of it.  Scores    *)
(* are exact: they are integers, in units of 1/(10 * Scale).               *)
(***************************************************************************)
EXTENDS Naturals, Sequences, FiniteSets

CONSTANTS
  DenseWeight,   \* KNOWLEDGE_DENSE_WEIGHT, in tenths
  SparseWeight,  \* KNOWLEDGE_SPARSE_WEIGHT, in tenths
  RrfK,          \* the smoothing constant
  MaxRank,       \* the longest result list
  Scale          \* a common multiple of RrfK + 1 .. RrfK + MaxRank

ASSUME FusionAssumption ==
  /\ DenseWeight \in Nat /\ SparseWeight \in Nat
  /\ RrfK \in Nat /\ MaxRank \in Nat /\ Scale \in Nat \ {0}
  /\ \A r \in 1 .. MaxRank : Scale % (RrfK + r) = 0

Ids(list) == {list[i] : i \in DOMAIN list}

\* Ranked lists of at most n ids, no id twice.
Rankings(S, n) ==
  UNION {{s \in [1 .. m -> S] : \A i, j \in 1 .. m : s[i] = s[j] => i = j} : m \in 0 .. n}

\* The rank of an id in a list, from 1.
RankIn(list, id) == CHOOSE i \in DOMAIN list : list[i] = id

\* What rank r in a list of this weight adds to a score.
Share(weight, r) == weight * (Scale \div (RrfK + r))

\* An id that is not in a list gets nothing from it.
ShareIn(list, weight, id) == IF id \in Ids(list) THEN Share(weight, RankIn(list, id)) ELSE 0

RrfScore(dense, sparse, id) ==
  ShareIn(dense, DenseWeight, id) + ShareIn(sparse, SparseWeight, id)

\* The order in which the scores entered the dictionary: sorted() is stable.
Entered(dense, sparse, id) ==
  IF id \in Ids(dense) THEN RankIn(dense, id) ELSE Len(dense) + RankIn(sparse, id)

\* Variant: sorted() without reverse=True.
AheadAscending(dense, sparse, x, y) ==
  \/ RrfScore(dense, sparse, x) < RrfScore(dense, sparse, y)
  \/ /\ RrfScore(dense, sparse, x) = RrfScore(dense, sparse, y)
     /\ Entered(dense, sparse, x) < Entered(dense, sparse, y)

Ahead(dense, sparse, x, y) ==
  \/ RrfScore(dense, sparse, x) > RrfScore(dense, sparse, y)
  \/ /\ RrfScore(dense, sparse, x) = RrfScore(dense, sparse, y)
     /\ Entered(dense, sparse, x) < Entered(dense, sparse, y)

Found(dense, sparse) == Ids(dense) \cup Ids(sparse)

Position(dense, sparse, x) ==
  1 + Cardinality({y \in Found(dense, sparse) : Ahead(dense, sparse, y, x)})

\* The ids of both lists, best first.
RrfFuse(dense, sparse) ==
  [i \in 1 .. Cardinality(Found(dense, sparse)) |->
     CHOOSE x \in Found(dense, sparse) : Position(dense, sparse, x) = i]

\* Drop what is below the threshold, given in thousandths, and keep the first k.
\* The list is sorted by score: what is not dropped comes first.
Cut(dense, sparse, threshold, k) ==
  LET passing == {x \in Found(dense, sparse) :
                    100 * RrfScore(dense, sparse, x) >= threshold * Scale}
      kept == Cardinality(passing)
  IN  SubSeq(RrfFuse(dense, sparse), 1, IF kept < k THEN kept ELSE k)
=============================================================================
