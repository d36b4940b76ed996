----------------------- MODULE KnowledgeSearch_proofs -----------------------
(***************************************************************************)
(* Theorems about KnowledgeSearch, for every collection, page size, number *)
(* of rebuilds and of queries.  The first half is about the operators of   *)
(* RankFusion: for every weight, smoothing constant and pair of rankings,  *)
(* rrf_fuse returns a permutation of what was found in an order that is    *)
(* total, and the cut a prefix of it.                                      *)
(***************************************************************************)
EXTENDS KnowledgeSearch, FiniteSetTheorems, WellFoundedInduction, TLAPS

-----------------------------------------------------------------------------
(* Rankings *)

\* A ranking is a sequence that is not longer than its bound.
LEMMA RankingIsList ==
  ASSUME NEW S, NEW n \in Nat, NEW s \in Rankings(S, n)
  PROVE  /\ Len(s) \in 0 .. n /\ DOMAIN s = 1 .. Len(s)
         /\ s \in Seq(S) /\ \A i \in 1 .. Len(s) : s[i] \in S
         /\ \A i, j \in 1 .. Len(s) : s[i] = s[j] => i = j
  <1>1. PICK m \in 0 .. n : s \in [1 .. m -> S] /\ \A i, j \in 1 .. m : s[i] = s[j] => i = j
    BY DEF Rankings
  <1>2. m \in Nat /\ s \in Seq(S)
    BY <1>1
  <1>3. Len(s) = m
    BY <1>1, <1>2
  <1>. QED  BY <1>1, <1>2, <1>3

\* The rank of an id of a list is where the list has it.
LEMMA RankIsPlace ==
  ASSUME NEW S, NEW n \in Nat, NEW s \in Rankings(S, n)
  PROVE  /\ Ids(s) \subseteq S /\ IsFiniteSet(Ids(s))
         /\ \A x \in Ids(s) : RankIn(s, x) \in 1 .. Len(s) /\ s[RankIn(s, x)] = x
         /\ \A x, y \in Ids(s) : RankIn(s, x) = RankIn(s, y) => x = y
  <1>1. /\ Len(s) \in Nat /\ DOMAIN s = 1 .. Len(s)
        /\ \A i \in 1 .. Len(s) : s[i] \in S
    BY RankingIsList
  <1>2. Ids(s) = {s[i] : i \in 1 .. Len(s)}
    BY <1>1 DEF Ids
  <1>3. IsFiniteSet(Ids(s))
    <2>1. IsFiniteSet(1 .. Len(s))
      BY <1>1, FS_Interval
    <2>2. [i \in 1 .. Len(s) |-> s[i]] \in Surjection(1 .. Len(s), Ids(s))
      BY <1>2 DEF Surjection
    <2>. QED  BY <2>1, <2>2, FS_Surjection
  <1>4. \A x \in Ids(s) : RankIn(s, x) \in 1 .. Len(s) /\ s[RankIn(s, x)] = x
    BY <1>1 DEF Ids, RankIn
  <1>. QED  BY <1>1, <1>2, <1>3, <1>4

\* Rankings of fewer ids, or of shorter lists, are rankings of all.
LEMMA RankingsGrow ==
  ASSUME NEW S, NEW T, S \subseteq T, NEW n \in Nat, NEW m \in Nat, n <= m,
         NEW s \in Rankings(S, n)
  PROVE  s \in Rankings(T, m)
  <1>1. PICK l \in 0 .. n : s \in [1 .. l -> S] /\ \A i, j \in 1 .. l : s[i] = s[j] => i = j
    BY DEF Rankings
  <1>2. l \in 0 .. m /\ s \in [1 .. l -> T]
    BY <1>1
  <1>. QED  BY <1>1, <1>2 DEF Rankings

\* The empty list is a ranking.
LEMMA NothingRanked ==
  ASSUME NEW S, NEW n \in Nat
  PROVE  <<>> \in Rankings(S, n)
  <1>1. <<>> \in [1 .. 0 -> S] /\ 0 \in 0 .. n
    OBVIOUS
  <1>. QED  BY <1>1 DEF Rankings

-----------------------------------------------------------------------------
(* Shares and scores *)

\* A later rank is not worth more.
LEMMA DivMonotone ==
  ASSUME NEW s \in Nat, NEW a \in Nat \ {0}, NEW b \in Nat \ {0}, a <= b
  PROVE  s \div a \in Nat /\ s \div b <= s \div a
  <1>1. /\ s \div a \in Nat /\ s < a * (s \div a + 1)
        /\ s \div b \in Nat /\ b * (s \div b) <= s
    OBVIOUS
  <1> DEFINE p == s \div a  q == s \div b
  <1>2. p \in Nat /\ q \in Nat /\ s < a * (p + 1) /\ b * q <= s
    BY <1>1
  <1> HIDE DEF p, q
  <1>3. a * q <= b * q
    BY <1>2
  <1>4. a * q < a * (p + 1)
    BY <1>2, <1>3
  <1>5. q < p + 1
    BY <1>2, <1>4
  <1>6. q <= p
    BY <1>2, <1>5
  <1>. QED  BY <1>1, <1>6 DEF p, q

\* A share is a number, and a share of a better rank is not smaller.
LEMMA ShareMonotone ==
  ASSUME NEW w \in Nat, NEW r \in Nat \ {0}, NEW t \in Nat \ {0}, r <= t
  PROVE  Share(w, r) \in Nat /\ Share(w, t) \in Nat /\ Share(w, t) <= Share(w, r)
  <1> DEFINE a == RrfK + r  b == RrfK + t
  <1>1. Scale \in Nat /\ a \in Nat \ {0} /\ b \in Nat \ {0} /\ a <= b
    BY FusionAssumption
  <1> DEFINE p == Scale \div a  q == Scale \div b
  <1>2. Share(w, r) = w * p /\ Share(w, t) = w * q
    BY DEF Share
  <1> HIDE DEF a, b
  <1>3. p \in Nat /\ q \in Nat /\ q <= p
    <2>1. p \in Nat /\ q <= p
      BY <1>1, DivMonotone
    <2>2. b <= b /\ b \in Nat \ {0}
      BY <1>1
    <2>3. q \in Nat
      BY <1>1, <2>2, DivMonotone
    <2>. QED  BY <2>1, <2>3
  <1> HIDE DEF p, q
  <1>4. w * p \in Nat /\ w * q \in Nat
    BY <1>3
  <1>5. w * q <= w * p
    BY <1>3
  <1>. QED  BY <1>2, <1>4, <1>5

\* What follows is about two rankings.
FusionContext(S, dense, sparse) ==
  dense \in Rankings(S, MaxRank) /\ sparse \in Rankings(S, MaxRank)

\* A share in a list is a number, and one of a better place is not smaller.
LEMMA ShareInMonotone ==
  ASSUME NEW S, NEW w \in Nat, NEW s \in Rankings(S, MaxRank), NEW x, NEW y
  PROVE  /\ ShareIn(s, w, x) \in Nat
         /\ (y \in Ids(s) => x \in Ids(s) /\ RankIn(s, x) <= RankIn(s, y)) =>
              ShareIn(s, w, y) <= ShareIn(s, w, x)
  <1>1. MaxRank \in Nat
    BY FusionAssumption
  <1>2. Len(s) \in Nat
    BY <1>1, RankingIsList
  <1>3. \A z \in Ids(s) : RankIn(s, z) \in 1 .. Len(s)
    BY <1>1, RankIsPlace
  <1>4. \A z \in Ids(s) : RankIn(s, z) \in Nat \ {0}
    BY <1>2, <1>3
  <1>5. \A z : ShareIn(s, w, z) \in Nat
    BY <1>4, ShareMonotone DEF ShareIn
  <1>6. ASSUME y \in Ids(s), x \in Ids(s), RankIn(s, x) <= RankIn(s, y)
        PROVE  ShareIn(s, w, y) <= ShareIn(s, w, x)
    BY <1>4, <1>6, ShareMonotone DEF ShareIn
  <1>7. ASSUME y \notin Ids(s) PROVE ShareIn(s, w, y) <= ShareIn(s, w, x)
    BY <1>5, <1>7 DEF ShareIn
  <1>. QED  BY <1>5, <1>6, <1>7

\* A score is a number, and so is the place where it entered; no two ids enter
\* at the same place.
LEMMA ScoresAndPlaces ==
  ASSUME NEW S, NEW dense, NEW sparse, FusionContext(S, dense, sparse)
  PROVE  /\ IsFiniteSet(Found(dense, sparse)) /\ Found(dense, sparse) \subseteq S
         /\ \A x : RrfScore(dense, sparse, x) \in Nat
         /\ \A x \in Found(dense, sparse) : Entered(dense, sparse, x) \in Nat
         /\ \A x, y \in Found(dense, sparse) :
              Entered(dense, sparse, x) = Entered(dense, sparse, y) => x = y
  <1>1. MaxRank \in Nat /\ DenseWeight \in Nat /\ SparseWeight \in Nat
    BY FusionAssumption
  <1>2. dense \in Rankings(S, MaxRank) /\ sparse \in Rankings(S, MaxRank)
    BY DEF FusionContext
  <1>3. Len(dense) \in Nat /\ Len(sparse) \in Nat
    BY <1>1, <1>2, RankingIsList
  <1>4. /\ Ids(dense) \subseteq S /\ IsFiniteSet(Ids(dense))
        /\ \A x \in Ids(dense) : RankIn(dense, x) \in 1 .. Len(dense)
        /\ \A x, y \in Ids(dense) : RankIn(dense, x) = RankIn(dense, y) => x = y
    BY <1>1, <1>2, RankIsPlace
  <1>5. /\ Ids(sparse) \subseteq S /\ IsFiniteSet(Ids(sparse))
        /\ \A x \in Ids(sparse) : RankIn(sparse, x) \in 1 .. Len(sparse)
        /\ \A x, y \in Ids(sparse) : RankIn(sparse, x) = RankIn(sparse, y) => x = y
    BY <1>1, <1>2, RankIsPlace
  <1>6. IsFiniteSet(Found(dense, sparse)) /\ Found(dense, sparse) \subseteq S
    BY <1>4, <1>5, FS_Union DEF Found
  <1>7. \A x : RrfScore(dense, sparse, x) \in Nat
    <2> TAKE x
    <2>1. ShareIn(dense, DenseWeight, x) \in Nat /\ ShareIn(sparse, SparseWeight, x) \in Nat
      BY <1>1, <1>2, ShareInMonotone
    <2>. QED  BY <2>1 DEF RrfScore
  <1>8. \A x \in Found(dense, sparse) : Entered(dense, sparse, x) \in Nat
    BY <1>3, <1>4, <1>5 DEF Entered, Found
  <1>9. ASSUME NEW x \in Found(dense, sparse), NEW y \in Found(dense, sparse),
               Entered(dense, sparse, x) = Entered(dense, sparse, y)
        PROVE  x = y
    BY <1>3, <1>4, <1>5, <1>9 DEF Entered, Found
  <1>. QED  BY <1>6, <1>7, <1>8, <1>9

-----------------------------------------------------------------------------
(* The order of the fused list *)

\* Ahead is a strict and total order of what was found.
LEMMA AheadIsOrder ==
  ASSUME NEW S, NEW dense, NEW sparse, FusionContext(S, dense, sparse)
  PROVE  /\ \A x \in Found(dense, sparse) : ~Ahead(dense, sparse, x, x)
         /\ \A x, y \in Found(dense, sparse) :
              x = y \/ Ahead(dense, sparse, x, y) \/ Ahead(dense, sparse, y, x)
         /\ \A x, y, z \in Found(dense, sparse) :
              Ahead(dense, sparse, x, y) /\ Ahead(dense, sparse, y, z) =>
                Ahead(dense, sparse, x, z)
  <1> DEFINE found == Found(dense, sparse)
             score(x) == RrfScore(dense, sparse, x)
             entered(x) == Entered(dense, sparse, x)
  <1>1. /\ \A x : score(x) \in Nat
        /\ \A x \in found : entered(x) \in Nat
        /\ \A x, y \in found : entered(x) = entered(y) => x = y
    BY ScoresAndPlaces
  <1>2. \A x, y : Ahead(dense, sparse, x, y) <=>
          score(x) > score(y) \/ (score(x) = score(y) /\ entered(x) < entered(y))
    BY DEF Ahead
  <1> HIDE DEF found, score, entered
  <1>3. \A x \in found : ~Ahead(dense, sparse, x, x)
    BY <1>1, <1>2
  <1>4. \A x, y \in found : x = y \/ Ahead(dense, sparse, x, y) \/ Ahead(dense, sparse, y, x)
    BY <1>1, <1>2
  <1>5. \A x, y, z \in found :
          Ahead(dense, sparse, x, y) /\ Ahead(dense, sparse, y, z) => Ahead(dense, sparse, x, z)
    BY <1>1, <1>2
  <1>. QED  BY <1>3, <1>4, <1>5 DEF found

\* Who is ahead has the smaller position, and positions run from 1 to the number
\* of ids found.
LEMMA PositionsFollowOrder ==
  ASSUME NEW S, NEW dense, NEW sparse, FusionContext(S, dense, sparse)
  PROVE  /\ Cardinality(Found(dense, sparse)) \in Nat
         /\ \A x \in Found(dense, sparse) :
              Position(dense, sparse, x) \in 1 .. Cardinality(Found(dense, sparse))
         /\ \A x, y \in Found(dense, sparse) :
              Ahead(dense, sparse, x, y) =>
                Position(dense, sparse, x) < Position(dense, sparse, y)
  <1> DEFINE found == Found(dense, sparse)
             before(x) == {y \in found : Ahead(dense, sparse, y, x)}
  <1>1. IsFiniteSet(found)
    BY ScoresAndPlaces
  <1>2. Cardinality(found) \in Nat
    BY <1>1, FS_CardinalityType
  <1>3. \A x \in found : Position(dense, sparse, x) = 1 + Cardinality(before(x))
    BY DEF Position
  <1>4. ASSUME NEW x \in found
        PROVE  /\ IsFiniteSet(before(x)) /\ Cardinality(before(x)) \in Nat
               /\ Cardinality(before(x)) < Cardinality(found)
    <2>1. before(x) \in SUBSET found
      OBVIOUS
    <2>2. x \notin before(x)
      BY AheadIsOrder
    <2>3. before(x) # found
      BY <2>2
    <2> HIDE DEF before
    <2>4. IsFiniteSet(before(x)) /\ Cardinality(before(x)) <= Cardinality(found)
          /\ Cardinality(found) # Cardinality(before(x))
      BY <1>1, <2>1, <2>3, FS_Subset
    <2>5. Cardinality(before(x)) \in Nat
      BY <2>4, FS_CardinalityType
    <2>. QED  BY <1>2, <2>4, <2>5
  <1>5. ASSUME NEW x \in found, NEW y \in found, Ahead(dense, sparse, x, y)
        PROVE  Cardinality(before(x)) < Cardinality(before(y))
    <2>1. before(x) \in SUBSET before(y)
      BY <1>5, AheadIsOrder
    <2>2. x \in before(y) /\ x \notin before(x)
      BY <1>5, AheadIsOrder
    <2>3. IsFiniteSet(before(y)) /\ Cardinality(before(y)) \in Nat
          /\ Cardinality(before(x)) \in Nat
      BY <1>4
    <2> HIDE DEF before
    <2>4. Cardinality(before(x)) <= Cardinality(before(y))
          /\ Cardinality(before(y)) # Cardinality(before(x))
      BY <2>1, <2>2, <2>3, FS_Subset
    <2>. QED  BY <2>3, <2>4
  <1> HIDE DEF before
  <1>6. \A x \in found : Position(dense, sparse, x) \in 1 .. Cardinality(found)
    BY <1>2, <1>3, <1>4
  <1>7. ASSUME NEW x \in found, NEW y \in found, Ahead(dense, sparse, x, y)
        PROVE  Position(dense, sparse, x) < Position(dense, sparse, y)
    BY <1>3, <1>4, <1>5, <1>7
  <1>. QED  BY <1>2, <1>6, <1>7

\* The fused list holds each id that was found once, at its position.
LEMMA FuseIsPermutation ==
  ASSUME NEW S, NEW dense, NEW sparse, FusionContext(S, dense, sparse)
  PROVE  /\ RrfFuse(dense, sparse) \in
              [1 .. Cardinality(Found(dense, sparse)) -> Found(dense, sparse)]
         /\ \A i \in 1 .. Cardinality(Found(dense, sparse)) :
              Position(dense, sparse, RrfFuse(dense, sparse)[i]) = i
         /\ \A x \in Found(dense, sparse) :
              RrfFuse(dense, sparse)[Position(dense, sparse, x)] = x
  <1> DEFINE found == Found(dense, sparse)
             n == Cardinality(found)
             place(x) == Position(dense, sparse, x)
             f == [x \in found |-> place(x)]
             fused == RrfFuse(dense, sparse)
  <1>1. IsFiniteSet(found) /\ n \in Nat
    BY ScoresAndPlaces, PositionsFollowOrder
  <1>2. \A x \in found : place(x) \in 1 .. n
    BY PositionsFollowOrder
  <1>3. \A x, y \in found : place(x) = place(y) => x = y
    <2>1. ASSUME NEW x \in found, NEW y \in found, place(x) = place(y) PROVE x = y
      <3>1. ~(place(x) < place(y)) /\ ~(place(y) < place(x))
        BY <1>1, <1>2, <2>1
      <3>. QED  BY <3>1, AheadIsOrder, PositionsFollowOrder
    <2>. QED  BY <2>1
  <1>4. fused = [i \in 1 .. n |-> CHOOSE x \in found : place(x) = i]
    BY DEF RrfFuse
  <1>5. found = Found(dense, sparse) /\ n = Cardinality(found)
    OBVIOUS
  <1> HIDE DEF found, n, place, fused
  <1>6. f \in Injection(found, 1 .. n)
    BY <1>2, <1>3 DEF Injection, IsInjective
  <1>7. IsFiniteSet(1 .. n) /\ Cardinality(1 .. n) = n
    BY <1>1, FS_Interval
  <1>8. f \in Surjection(found, 1 .. n)
    BY <1>5, <1>6, <1>7, FS_Injection
  <1>9. \A i \in 1 .. n : \E x \in found : place(x) = i
    BY <1>8 DEF Surjection
  <1>10. \A i \in 1 .. n : fused[i] \in found /\ place(fused[i]) = i
    BY <1>4, <1>9
  <1>11. \A x \in found : fused[place(x)] = x
    BY <1>2, <1>3, <1>10
  <1>12. fused \in [1 .. n -> found]
    BY <1>4, <1>10
  <1>. QED  BY <1>10, <1>11, <1>12 DEF found, n, place, fused

\* The cut keeps the head of the fused list: no id twice, not more than k, and
\* with an id all that are ahead of it.
LEMMA CutIsHead ==
  ASSUME NEW S, NEW dense, NEW sparse, FusionContext(S, dense, sparse),
         NEW threshold \in Nat, NEW k \in Nat, NEW a, a = Cut(dense, sparse, threshold, k)
  PROVE  /\ a \in Seq(Found(dense, sparse)) /\ Ids(a) \subseteq Found(dense, sparse)
         /\ Cardinality(Ids(a)) = Len(a) /\ Len(a) <= k
         /\ \A i \in DOMAIN a : \A x \in Found(dense, sparse) :
              Ahead(dense, sparse, x, a[i]) => \E j \in 1 .. i - 1 : a[j] = x
  <1> DEFINE found == Found(dense, sparse)
             n == Cardinality(found)
             fused == RrfFuse(dense, sparse)
             passing == {x \in found : 100 * RrfScore(dense, sparse, x) >= threshold * Scale}
             kept == Cardinality(passing)
             l == IF kept < k THEN kept ELSE k
  <1>1. IsFiniteSet(found) /\ n \in Nat
    BY ScoresAndPlaces, PositionsFollowOrder
  <1>2. kept \in Nat /\ kept <= n
    <2>1. passing \in SUBSET found
      OBVIOUS
    <2> HIDE DEF passing
    <2>2. IsFiniteSet(passing) /\ Cardinality(passing) <= Cardinality(found)
      BY <1>1, <2>1, FS_Subset
    <2>. QED  BY <2>2, FS_CardinalityType
  <1>3. l \in 0 .. n /\ l <= k
    BY <1>1, <1>2
  <1>4. a = SubSeq(fused, 1, l)
    BY DEF Cut
  <1>5. /\ fused \in [1 .. n -> found]
        /\ \A i \in 1 .. n : Position(dense, sparse, fused[i]) = i
        /\ \A x \in found : fused[Position(dense, sparse, x)] = x
    BY FuseIsPermutation
  <1>6. \A x \in found : Position(dense, sparse, x) \in 1 .. n
    BY PositionsFollowOrder
  <1>7. \A x, y \in found : Ahead(dense, sparse, x, y) =>
          Position(dense, sparse, x) < Position(dense, sparse, y)
    BY PositionsFollowOrder
  <1> HIDE DEF l, n, fused, found
  <1>8. a = [i \in 1 .. l |-> fused[i]]
    BY <1>1, <1>3, <1>4, <1>5
  <1>9. /\ a \in [1 .. l -> found] /\ a \in Seq(found) /\ Len(a) = l /\ DOMAIN a = 1 .. l
        /\ \A i \in 1 .. l : a[i] = fused[i]
    BY <1>1, <1>3, <1>5, <1>8
  <1>10. Ids(a) \subseteq found
    BY <1>9 DEF Ids
  <1>11. Cardinality(Ids(a)) = l
    <2>1. a \in Bijection(1 .. l, Ids(a))
      <3>1. \A i, j \in 1 .. l : a[i] = a[j] => i = j
        BY <1>1, <1>3, <1>5, <1>9
      <3>2. Ids(a) = {a[i] : i \in 1 .. l}
        BY <1>9 DEF Ids
      <3>. QED  BY <1>9, <3>1, <3>2 DEF Bijection, Injection, Surjection, IsInjective
    <2>2. ExistsBijection(1 .. l, Ids(a))
      BY <2>1 DEF ExistsBijection
    <2>. QED  BY <1>1, <1>3, <2>2, FS_CountingElements
  <1>12. ASSUME NEW i \in DOMAIN a, NEW x \in found, Ahead(dense, sparse, x, a[i])
         PROVE  \E j \in 1 .. i - 1 : a[j] = x
    <2> DEFINE j == Position(dense, sparse, x)
    <2>1. i \in 1 .. n /\ a[i] \in found /\ Position(dense, sparse, a[i]) = i
      BY <1>1, <1>3, <1>5, <1>9, <1>12
    <2>2. j < i /\ j \in 1 .. n
      BY <1>6, <1>7, <1>12, <2>1
    <2>3. j \in 1 .. i - 1 /\ j \in 1 .. l
      BY <1>1, <1>3, <1>9, <1>12, <2>1, <2>2
    <2>4. a[j] = x
      BY <1>5, <1>9, <2>3
    <2>. QED  BY <2>3, <2>4
  <1>. QED  BY <1>3, <1>9, <1>10, <1>11, <1>12 DEF found

-----------------------------------------------------------------------------
(* Pages *)

\* A set of numbers that is not empty has a smallest one.
LEMMA SmallestIsLeast ==
  ASSUME NEW S \in SUBSET Nat, S # {}
  PROVE  Smallest(S) \in S /\ \A p \in S : Smallest(S) <= p
  <1>1. PICK x \in S : \A y \in S : ~ (<<y, x>> \in OpToRel(<, Nat))
    BY NatLessThanWellFounded, WFMin
  <1>2. ASSUME NEW y \in S PROVE x <= y
    <2>1. x \in Nat /\ y \in Nat /\ <<y, x>> \in Nat \X Nat
      OBVIOUS
    <2>2. <<y, x>>[1] = y /\ <<y, x>>[2] = x
      OBVIOUS
    <2>3. ~(y < x)
      BY <1>1, <2>1, <2>2 DEF OpToRel
    <2>. QED  BY <2>1, <2>3
  <1>. QED  BY <1>1, <1>2 DEF Smallest

\* The cursor of the next page leaves nothing out: what lies between it and the
\* offset of a page is on that page.
LEMMA PageCovers ==
  ASSUME stored \subseteq Nat, NEW offset \in Nat
  PROVE  /\ Page(offset) \subseteq stored
         /\ Rest(offset) = {} => \A p \in stored : p >= offset => p \in Page(offset)
         /\ Rest(offset) # {} =>
              /\ Smallest(Rest(offset)) \in Nat
              /\ \A p \in stored : p >= offset /\ p < Smallest(Rest(offset)) => p \in Page(offset)
  <1>1. From(offset) \subseteq Nat /\ Rest(offset) \subseteq From(offset)
    BY DEF From, Rest
  <1>2. Rest(offset) # {} =>
          /\ Smallest(Rest(offset)) \in Rest(offset)
          /\ \A p \in Rest(offset) : Smallest(Rest(offset)) <= p
    BY <1>1, SmallestIsLeast
  <1>3. \A p \in stored : p >= offset => p \in Page(offset) \/ p \in Rest(offset)
    BY DEF From, Rest
  <1>4. Page(offset) \subseteq stored
    BY DEF Page, From
  <1>5. ASSUME Rest(offset) # {}, NEW p \in stored, p >= offset, p < Smallest(Rest(offset))
        PROVE  p \in Page(offset)
    BY <1>1, <1>2, <1>3, <1>5
  <1>. QED  BY <1>1, <1>2, <1>3, <1>4, <1>5

-----------------------------------------------------------------------------
(* Typing *)

\* The bounds of the lists are numbers, and points are.
LEMMA Bounds ==
  /\ DenseTopK \in Nat /\ SparseTopK \in Nat /\ MaxRank \in Nat
  /\ DenseTopK <= MaxRank /\ SparseTopK <= MaxRank
  /\ Point \subseteq Nat /\ TopK \in Nat /\ Threshold \in Nat
  BY SearchAssumption, FusionAssumption

\* The types of a build and of a query.
BuildType(S) == [at : {"idle", "scroll", "install", "ok", "error", "dead"},
                 offset : Nat, fetched : SUBSET S, base : SUBSET S]
QueryType(S) == [at : {"idle", "dense", "fuse", "answered", "failed", "dead"},
                 filtered : BOOLEAN,
                 dense : Rankings(S, DenseTopK), sparse : Rankings(S, SparseTopK),
                 answer : Seq(S)]

\* They grow with the collection.
LEMMA TypesGrow ==
  ASSUME NEW S, NEW T, S \subseteq T
  PROVE  BuildType(S) \subseteq BuildType(T) /\ QueryType(S) \subseteq QueryType(T)
  <1>1. BuildType(S) \subseteq BuildType(T)
    BY DEF BuildType
  <1>2. /\ Rankings(S, DenseTopK) \subseteq Rankings(T, DenseTopK)
        /\ Rankings(S, SparseTopK) \subseteq Rankings(T, SparseTopK)
    BY Bounds, RankingsGrow
  <1>3. Seq(S) \subseteq Seq(T)
    OBVIOUS
  <1>4. QueryType(S) \subseteq QueryType(T)
    BY <1>2, <1>3, Zenon DEF QueryType
  <1>. QED  BY <1>1, <1>4

\* A call that has not begun has the types.
LEMMA NothingTyped ==
  ASSUME NEW S
  PROVE  NoBuild \in BuildType(S) /\ NoQuery \in QueryType(S)
  <1>1. NoBuild \in BuildType(S)
    BY DEF NoBuild, BuildType
  <1>2. <<>> \in Rankings(S, DenseTopK) /\ <<>> \in Rankings(S, SparseTopK) /\ <<>> \in Seq(S)
    BY Bounds, NothingRanked
  <1>3. NoQuery \in QueryType(S)
    BY <1>2 DEF NoQuery, QueryType
  <1>. QED  BY <1>1, <1>3

\* Two rankings of a query, and the cut of their fusion.
LEMMA AnswerTyped ==
  ASSUME NEW S, NEW dense \in Rankings(S, DenseTopK), NEW sparse \in Rankings(S, SparseTopK)
  PROVE  /\ FusionContext(S, dense, sparse)
         /\ Found(dense, sparse) \subseteq S
         /\ Cut(dense, sparse, Threshold, TopK) \in Seq(S)
  <1>1. FusionContext(S, dense, sparse)
    BY Bounds, RankingsGrow DEF FusionContext
  <1>2. Found(dense, sparse) \subseteq S
    BY <1>1, ScoresAndPlaces
  <1>3. Cut(dense, sparse, Threshold, TopK) \in Seq(Found(dense, sparse))
    BY <1>1, Bounds, CutIsHead
  <1>4. Seq(Found(dense, sparse)) \subseteq Seq(S)
    BY <1>2
  <1>. QED  BY <1>1, <1>2, <1>3, <1>4

\* The type invariant, with the types named.
LEMMA TypeOKNamed ==
  TypeOK <=> /\ stored \subseteq Point /\ corpus \subseteq stored \ Blank /\ built \in BOOLEAN
             /\ build \in [Build -> BuildType(stored)] /\ query \in [Query -> QueryType(stored)]
  BY Zenon DEF TypeOK, BuildType, QueryType

\* No build has fetched a chunk without a text.
NoBlank == \A b \in Build : build[b].fetched \cap Blank = {}

\* A step of a build, and a step of a query, keep the types.
LEMMA BuildStepTyped ==
  ASSUME TypeOK, NoBlank, NEW b \in Build, NEW r \in BuildType(stored),
         r.fetched \cap Blank = {}, build' = [build EXCEPT ![b] = r],
         UNCHANGED <<stored, query>>, corpus' \subseteq stored \ Blank, built' \in BOOLEAN
  PROVE  TypeOK' /\ NoBlank'
  <1>1. build' \in [Build -> BuildType(stored)]
    BY TypeOKNamed
  <1>2. TypeOK'
    BY <1>1, TypeOKNamed DEF TypeOK, BuildType, QueryType
  <1>3. NoBlank'
    BY TypeOKNamed DEF NoBlank
  <1>. QED  BY <1>2, <1>3

LEMMA QueryStepTyped ==
  ASSUME TypeOK, NoBlank, NEW q \in Query, NEW r \in QueryType(stored),
         query' = [query EXCEPT ![q] = r], UNCHANGED <<stored, corpus, built, build>>
  PROVE  TypeOK' /\ NoBlank'
  <1>1. query' \in [Query -> QueryType(stored)]
    BY TypeOKNamed
  <1>2. TypeOK'
    BY <1>1, TypeOKNamed DEF TypeOK, BuildType, QueryType
  <1>. QED  BY <1>2 DEF NoBlank

\* Typing is inductive: one step per action.
LEMMA TypeOKStep == TypeOK /\ NoBlank /\ [Next]_vars => TypeOK' /\ NoBlank'
  <1> SUFFICES ASSUME TypeOK, NoBlank, [Next]_vars PROVE TypeOK' /\ NoBlank'
    OBVIOUS
  <1>0. /\ stored \subseteq Nat /\ corpus \subseteq stored \ Blank /\ built \in BOOLEAN
        /\ build \in [Build -> BuildType(stored)] /\ query \in [Query -> QueryType(stored)]
    BY Bounds, TypeOKNamed
  <1>1. ASSUME NEW S \in SUBSET Point, Ingest(S) PROVE TypeOK' /\ NoBlank'
    <2>1. stored' = stored \cup S /\ UNCHANGED <<corpus, built, build, query>>
      BY <1>1 DEF Ingest
    <2>2. build' \in [Build -> BuildType(stored')] /\ query' \in [Query -> QueryType(stored')]
      BY <1>0, <2>1, TypesGrow
    <2>3. TypeOK'
      BY <2>1, <2>2, TypeOKNamed DEF TypeOK, BuildType, QueryType
    <2>. QED  BY <2>1, <2>3 DEF NoBlank
  <1>2. ASSUME NEW b \in Build, StartBuild(b) PROVE TypeOK' /\ NoBlank'
    <2> DEFINE r == [NoBuild EXCEPT !.at = "scroll", !.base = stored]
    <2>1. r \in BuildType(stored) /\ r.fetched = {}
      BY DEF NoBuild, BuildType
    <2>. QED  BY <1>0, <1>2, <2>1, BuildStepTyped DEF StartBuild
  <1>3. ASSUME NEW b \in Build, ScrollPage(b) PROVE TypeOK' /\ NoBlank'
    <2> DEFINE rest == Rest(build[b].offset)
               page == Page(build[b].offset)
               r == [build[b] EXCEPT
                       !.fetched = @ \cup (page \ Blank),
                       !.offset  = IF rest = {} THEN @ ELSE Smallest(rest),
                       !.at      = IF rest = {} THEN "install" ELSE "scroll"]
    <2>1. build[b] \in BuildType(stored) /\ build[b].offset \in Nat
      BY <1>0 DEF BuildType
    <2>2. page \subseteq stored /\ (rest # {} => Smallest(rest) \in Nat)
      BY <1>0, <2>1, PageCovers
    <2>3. build' = [build EXCEPT ![b] = r] /\ UNCHANGED <<stored, corpus, built, query>>
      BY <1>3, <1>0 DEF ScrollPage, BuildType
    <2> HIDE DEF rest, page
    <2>4. r \in BuildType(stored) /\ r.fetched \cap Blank = {}
      BY <2>1, <2>2 DEF BuildType, NoBlank
    <2> HIDE DEF r
    <2>. QED  BY <1>0, <2>3, <2>4, BuildStepTyped
  <1>4. ASSUME NEW b \in Build, ScrollFails(b) PROVE TypeOK' /\ NoBlank'
    <2> DEFINE r == [NoBuild EXCEPT !.at = "error"]
    <2>1. r \in BuildType(stored) /\ r.fetched = {}
      BY DEF NoBuild, BuildType
    <2>. QED  BY <1>0, <1>4, <2>1, BuildStepTyped DEF ScrollFails
  <1>5. ASSUME NEW b \in Build, Install(b) PROVE TypeOK' /\ NoBlank'
    <2> DEFINE r == [build[b] EXCEPT !.at = "ok"]
    <2>1. r \in BuildType(stored) /\ r.fetched \cap Blank = {}
      BY <1>0 DEF BuildType, NoBlank
    <2>2. corpus' \subseteq stored \ Blank /\ built' \in BOOLEAN
      BY <1>0, <1>5 DEF Install, BuildType, NoBlank
    <2>3. build' = [build EXCEPT ![b] = r] /\ UNCHANGED <<stored, query>>
      BY <1>0, <1>5 DEF Install, BuildType
    <2> HIDE DEF r
    <2>. QED  BY <2>1, <2>2, <2>3, BuildStepTyped
  <1>6. ASSUME NEW q \in Query, StartQuery(q) PROVE TypeOK' /\ NoBlank'
    <2>1. PICK f \in BOOLEAN :
            query' = [query EXCEPT ![q] = [NoQuery EXCEPT !.at = "dense", !.filtered = f]]
      BY <1>6 DEF StartQuery
    <2>2. NoQuery \in QueryType(stored)
      BY NothingTyped
    <2>3. [NoQuery EXCEPT !.at = "dense", !.filtered = f] \in QueryType(stored)
      BY <2>2 DEF QueryType
    <2>. QED  BY <1>6, <2>1, <2>3, QueryStepTyped DEF StartQuery
  <1>7. ASSUME NEW q \in Query, EmbedFails(q) PROVE TypeOK' /\ NoBlank'
    <2> DEFINE r == [query[q] EXCEPT !.at = "failed"]
    <2>1. r \in QueryType(stored)
      BY <1>0 DEF QueryType
    <2>2. query' = [query EXCEPT ![q] = r]
      BY <1>0, <1>7 DEF EmbedFails
    <2> HIDE DEF r
    <2>. QED  BY <1>7, <2>1, <2>2, QueryStepTyped DEF EmbedFails
  <1>8. ASSUME NEW q \in Query, DenseSearch(q) PROVE TypeOK' /\ NoBlank'
    <2>1. PICK list \in Rankings(IF query[q].filtered THEN stored \cap Tagged ELSE stored, DenseTopK) :
            query' = [query EXCEPT ![q].at = "fuse", ![q].dense = list]
      BY <1>8 DEF DenseSearch
    <2>2. list \in Rankings(stored, DenseTopK)
      BY <2>1, Bounds, RankingsGrow
    <2> DEFINE r == [query[q] EXCEPT !.at = "fuse", !.dense = list]
    <2>3. r \in QueryType(stored)
      BY <1>0, <2>2 DEF QueryType
    <2>4. query' = [query EXCEPT ![q] = r]
      BY <1>0, <2>1
    <2> HIDE DEF r
    <2>. QED  BY <1>8, <2>3, <2>4, QueryStepTyped DEF DenseSearch
  <1>9. ASSUME NEW q \in Query, DenseFails(q) PROVE TypeOK' /\ NoBlank'
    <2> DEFINE r == [query[q] EXCEPT !.at = "fuse"]
    <2>1. r \in QueryType(stored)
      BY <1>0 DEF QueryType
    <2>2. query' = [query EXCEPT ![q] = r]
      BY <1>0, <1>9 DEF DenseFails
    <2> HIDE DEF r
    <2>. QED  BY <1>9, <2>1, <2>2, QueryStepTyped DEF DenseFails
  <1>10. ASSUME NEW q \in Query, SparseSearch(q) PROVE TypeOK' /\ NoBlank'
    <2>1. PICK list \in Rankings(IF built THEN corpus ELSE {}, SparseTopK) :
            query' = [query EXCEPT
              ![q].at = "answered",
              ![q].sparse = list,
              ![q].answer = Cut(query[q].dense, list, Threshold, TopK)]
      BY <1>10 DEF SparseSearch
    <2>2. list \in Rankings(stored, SparseTopK)
      BY <1>0, <2>1, Bounds, RankingsGrow
    <2> DEFINE cut == Cut(query[q].dense, list, Threshold, TopK)
               r == [query[q] EXCEPT !.at = "answered", !.sparse = list, !.answer = cut]
    <2>3. query[q].dense \in Rankings(stored, DenseTopK)
      BY <1>0 DEF QueryType
    <2>4. cut \in Seq(stored)
      BY <2>2, <2>3, AnswerTyped
    <2>5. query' = [query EXCEPT ![q] = r]
      BY <1>0, <2>1
    <2> HIDE DEF cut
    <2>6. r \in QueryType(stored)
      BY <1>0, <2>2, <2>4 DEF QueryType
    <2> HIDE DEF r
    <2>. QED  BY <1>10, <2>5, <2>6, QueryStepTyped DEF SparseSearch
  <1>11. CASE Crash
    <2>1. NoBuild \in BuildType(stored) /\ NoQuery \in QueryType(stored)
      BY NothingTyped
    <2>2. [NoBuild EXCEPT !.at = "dead"] \in BuildType(stored)
      BY DEF NoBuild, BuildType
    <2>3. [NoQuery EXCEPT !.at = "dead"] \in QueryType(stored)
      BY <2>1 DEF QueryType
    <2>4. build' \in [Build -> BuildType(stored)] /\ query' \in [Query -> QueryType(stored)]
      BY <1>0, <1>11, <2>2, <2>3 DEF Crash
    <2>5. TypeOK'
      BY <1>11, <2>4, TypeOKNamed DEF Crash, TypeOK, BuildType, QueryType
    <2>6. NoBlank'
      BY <1>11 DEF Crash, NoBuild, NoBlank
    <2>. QED  BY <2>5, <2>6
  <1>12. CASE UNCHANGED vars
    BY <1>12 DEF vars, TypeOK, NoBlank
  <1>. QED
    BY <1>1, <1>2, <1>3, <1>4, <1>5, <1>6, <1>7, <1>8, <1>9, <1>10, <1>11, <1>12 DEF Next

\* The initial state has the types.
LEMMA TypeOKInit == Init => TypeOK /\ NoBlank
  <1> SUFFICES ASSUME Init PROVE TypeOK /\ NoBlank
    OBVIOUS
  <1>1. stored = {} /\ corpus = {} /\ built = FALSE
        /\ build = [b \in Build |-> NoBuild] /\ query = [q \in Query |-> NoQuery]
    BY DEF Init
  <1>2. NoBuild \in BuildType(stored) /\ NoQuery \in QueryType(stored)
    BY NothingTyped
  <1>3. TypeOK
    BY <1>1, <1>2, TypeOKNamed
  <1>4. NoBlank
    BY <1>1 DEF NoBlank, NoBuild
  <1>. QED  BY <1>3, <1>4

\* The index holds chunks of the collection that have a text, a build has fetched
\* what was stored, and rankings and answers list stored chunks.
THEOREM TypeCorrect == Spec => []TypeOK
  BY TypeOKInit, TypeOKStep, PTL DEF Spec

-----------------------------------------------------------------------------
(* The index holds what was there when a rebuild began *)

\* A build has fetched what lies before its cursor, and all of the collection it
\* found once it has seen the last page.
Covered ==
  \A b \in Build :
    /\ build[b].at = "scroll" =>
         \A p \in build[b].base \ Blank : p < build[b].offset => p \in build[b].fetched
    /\ build[b].at = "install" => build[b].base \ Blank \subseteq build[b].fetched

RebuildInv == TypeOK /\ NoBlank /\ Covered /\ LossNeedsOverlap

\* A build that is not the outcome of an install replaces nothing.
LEMMA OneBuildMoves ==
  ASSUME TypeOK, LossNeedsOverlap, NEW b \in Build, NEW r,
         build[b].at # "ok", r.at # "ok", build' = [build EXCEPT ![b] = r], UNCHANGED corpus
  PROVE  LossNeedsOverlap'
  <1>1. \A o \in Build : build'[o].at = "ok" <=> build[o].at = "ok"
    BY DEF TypeOK
  <1>2. \A o \in Build : build[o].at = "ok" => build'[o] = build[o]
    BY DEF TypeOK
  <1>. QED  BY <1>1, <1>2 DEF LossNeedsOverlap

\* The invariant is inductive.
LEMMA RebuildStep == RebuildInv /\ [Next]_vars => RebuildInv'
  <1> SUFFICES ASSUME RebuildInv, [Next]_vars PROVE RebuildInv'
    OBVIOUS
  <1>0. /\ TypeOK /\ NoBlank /\ Covered /\ LossNeedsOverlap /\ TypeOK' /\ NoBlank'
        /\ stored \subseteq Nat /\ build \in [Build -> BuildType(stored)]
    BY TypeOKStep, TypeOKNamed, Bounds DEF RebuildInv
  <1> SUFFICES Covered' /\ LossNeedsOverlap'
    BY <1>0 DEF RebuildInv
  <1>1. ASSUME NEW b \in Build, StartBuild(b) PROVE Covered' /\ LossNeedsOverlap'
    <2> DEFINE r == [NoBuild EXCEPT !.at = "scroll", !.base = stored]
    <2>1. r.at = "scroll" /\ r.offset = 0 /\ r.base = stored
      BY DEF NoBuild
    <2>2. build' = [build EXCEPT ![b] = r] /\ UNCHANGED corpus /\ build[b].at = "idle"
      BY <1>1 DEF StartBuild
    <2> HIDE DEF r
    <2>3. build'[b] = r /\ \A o \in Build : o # b => build'[o] = build[o]
      BY <1>0, <2>2
    <2>4. ASSUME NEW p \in r.base \ Blank PROVE ~(p < r.offset)
      <3>1. p \in Nat /\ r.offset = 0
        BY <1>0, <2>1
      <3>. QED  BY <3>1
    <2>5. Covered'
      BY <1>0, <2>1, <2>3, <2>4 DEF Covered
    <2>. QED  BY <1>0, <2>1, <2>2, <2>5, OneBuildMoves
  <1>2. ASSUME NEW b \in Build, ScrollPage(b) PROVE Covered' /\ LossNeedsOverlap'
    <2> DEFINE rest == Rest(build[b].offset)
               page == Page(build[b].offset)
               r == [build[b] EXCEPT
                       !.fetched = @ \cup (page \ Blank),
                       !.offset  = IF rest = {} THEN @ ELSE Smallest(rest),
                       !.at      = IF rest = {} THEN "install" ELSE "scroll"]
    <2>1. /\ build[b] \in BuildType(stored) /\ build[b].offset \in Nat
          /\ build[b].base \subseteq stored /\ build[b].at = "scroll"
      BY <1>0, <1>2 DEF BuildType, ScrollPage
    <2>2. /\ rest = {} => \A p \in stored : p >= build[b].offset => p \in page
          /\ rest # {} => /\ Smallest(rest) \in Nat
                          /\ \A p \in stored :
                               p >= build[b].offset /\ p < Smallest(rest) => p \in page
      BY <1>0, <2>1, PageCovers
    <2>3. build' = [build EXCEPT ![b] = r] /\ UNCHANGED corpus
      BY <1>0, <1>2 DEF ScrollPage, BuildType
    <2>4. \A p \in build[b].base \ Blank : p < build[b].offset => p \in build[b].fetched
      BY <1>0, <2>1 DEF Covered
    <2> HIDE DEF rest, page
    <2>5. /\ r.base = build[b].base /\ r.fetched = build[b].fetched \cup (page \ Blank)
          /\ rest = {} => r.at = "install"
          /\ rest # {} => r.at = "scroll" /\ r.offset = Smallest(rest)
      BY <2>1 DEF BuildType
    <2> HIDE DEF r
    <2>6. ASSUME NEW p \in r.base \ Blank, rest = {} \/ p < r.offset
          PROVE  p \in r.fetched
      <3>1. p \in stored /\ p \in Nat /\ p \in build[b].base \ Blank
        BY <1>0, <2>1, <2>5, <2>6
      <3>2. p < build[b].offset \/ p \in page
        <4>1. CASE rest = {}
          BY <2>1, <2>2, <3>1, <4>1
        <4>2. CASE rest # {}
          BY <2>1, <2>2, <2>5, <2>6, <3>1, <4>2
        <4>. QED  BY <4>1, <4>2
      <3>. QED  BY <2>4, <2>5, <2>6, <3>1, <3>2
    <2>7. /\ rest = {} => r.base \ Blank \subseteq r.fetched
          /\ rest # {} => \A p \in r.base \ Blank : p < r.offset => p \in r.fetched
      BY <2>6
    <2>8. Covered'
      BY <1>0, <2>3, <2>5, <2>7 DEF Covered
    <2>9. r.at # "ok"
      BY <2>5
    <2>. QED  BY <1>0, <2>1, <2>3, <2>8, <2>9, OneBuildMoves
  <1>3. ASSUME NEW b \in Build, ScrollFails(b) PROVE Covered' /\ LossNeedsOverlap'
    <2> DEFINE r == [NoBuild EXCEPT !.at = "error"]
    <2>1. r.at = "error"
      BY DEF NoBuild
    <2>2. build' = [build EXCEPT ![b] = r] /\ UNCHANGED corpus /\ build[b].at = "scroll"
      BY <1>3 DEF ScrollFails
    <2> HIDE DEF r
    <2>3. Covered'
      BY <1>0, <2>1, <2>2 DEF Covered
    <2>. QED  BY <1>0, <2>1, <2>2, <2>3, OneBuildMoves
  <1>4. ASSUME NEW b \in Build, Install(b) PROVE Covered' /\ LossNeedsOverlap'
    <2>1. /\ corpus' = build[b].fetched /\ build' = [build EXCEPT ![b].at = "ok"]
          /\ build[b].base \ Blank \subseteq corpus'
      BY <1>0, <1>4 DEF Install, Covered
    <2>2. /\ build'[b].at = "ok" /\ \A o \in Build : build'[o].base = build[o].base
          /\ \A o \in Build : o # b => build'[o] = build[o]
      BY <1>0, <2>1 DEF BuildType
    <2>3. Covered'
      BY <1>0, <2>2 DEF Covered
    <2>4. ASSUME NEW o \in Build
          PROVE  \/ build'[o].base \ Blank \subseteq corpus'
                 \/ /\ build'[b].at = "ok" /\ ~(build'[o].base \subseteq build'[b].base)
                    /\ build'[b].base \ Blank \subseteq corpus'
      BY <2>1, <2>2
    <2>5. LossNeedsOverlap'
      BY <2>4 DEF LossNeedsOverlap
    <2>. QED  BY <2>3, <2>5
  <1>5. CASE Crash
    <2>1. \A b \in Build : build'[b].at \in {"idle", "dead"}
      BY <1>0, <1>5 DEF Crash, NoBuild
    <2>2. \A b \in Build : build'[b].at \notin {"scroll", "install", "ok"}
      BY <2>1
    <2>. QED  BY <2>2 DEF Covered, LossNeedsOverlap
  <1>6. CASE corpus' = corpus /\ build' = build
    BY <1>0, <1>6 DEF Covered, LossNeedsOverlap
  <1>7. ASSUME NEW S \in SUBSET Point, Ingest(S) PROVE corpus' = corpus /\ build' = build
    BY <1>7 DEF Ingest
  <1>8. ASSUME NEW q \in Query,
               \/ StartQuery(q) \/ EmbedFails(q) \/ DenseSearch(q)
               \/ DenseFails(q) \/ SparseSearch(q)
        PROVE  corpus' = corpus /\ build' = build
    BY <1>8 DEF StartQuery, EmbedFails, DenseSearch, DenseFails, SparseSearch
  <1>9. CASE UNCHANGED vars
    BY <1>6, <1>9 DEF vars
  <1>. QED
    BY <1>1, <1>2, <1>3, <1>4, <1>5, <1>6, <1>7, <1>8, <1>9 DEF Next

\* However rebuilds, pages and ingestions interleave, what a successful rebuild found
\* is missing only when one that began before some of it came was installed after it.
THEOREM LossExplained == Spec => []LossNeedsOverlap
  <1>1. Init => RebuildInv
    BY TypeOKInit DEF Init, NoBuild, RebuildInv, Covered, LossNeedsOverlap
  <1>2. RebuildInv => LossNeedsOverlap
    BY DEF RebuildInv
  <1>. QED  BY <1>1, <1>2, RebuildStep, PTL DEF Spec

\* "Call this after a large batch ingestion to update the BM25 index": what was in the
\* collection when a successful rebuild began is in the index, and no later rebuild,
\* failing ones included, takes it out again.
RebuildNotLost ==
  \A b \in Build : build[b].at = "ok" => build[b].base \ Blank \subseteq corpus

\* No two rebuilds run at the same time, which nothing in the code ensures.
Running(b) == build[b].at \in {"scroll", "install"}
OneAtATime == \A b, o \in Build : Running(b) /\ Running(o) => b = o

\* With rebuilds one after another, the one that runs began with all that the
\* successful ones before it have found.
OneRebuild ==
  \A b, o \in Build : build[b].at = "ok" /\ Running(o) => build[b].base \subseteq build[o].base

\* It is inductive on top of RebuildInv.
LEMMA OneRebuildStep ==
  ASSUME OneAtATime, OneAtATime', RebuildInv, OneRebuild, RebuildNotLost, [Next]_vars
  PROVE  OneRebuild' /\ RebuildNotLost'
  <1>0. /\ build \in [Build -> BuildType(stored)] /\ TypeOK
        /\ \A b \in Build : build[b].base \subseteq stored
        /\ \A b \in Build : build[b].at = "install" =>
             build[b].base \ Blank \subseteq build[b].fetched
    BY TypeOKNamed DEF RebuildInv, Covered, BuildType
  <1>1. ASSUME NEW b \in Build, StartBuild(b) PROVE OneRebuild' /\ RebuildNotLost'
    <2> DEFINE r == [NoBuild EXCEPT !.at = "scroll", !.base = stored]
    <2>1. r.at = "scroll" /\ r.base = stored
      BY DEF NoBuild
    <2>2. build' = [build EXCEPT ![b] = r] /\ UNCHANGED corpus
      BY <1>1 DEF StartBuild
    <2> HIDE DEF r
    <2>3. build'[b] = r /\ \A o \in Build : o # b => build'[o] = build[o]
      BY <1>0, <2>2
    <2>4. \A o \in Build : o # b => ~Running(o)
      BY <2>1, <2>3 DEF OneAtATime, Running
    <2>. QED  BY <1>0, <2>1, <2>2, <2>3, <2>4 DEF OneRebuild, RebuildNotLost, Running
  <1>2. ASSUME NEW b \in Build, NEW r, Running(b), r.at # "ok", r.base = build[b].base,
               build' = [build EXCEPT ![b] = r], UNCHANGED corpus
        PROVE  OneRebuild' /\ RebuildNotLost'
    <2>1. build'[b] = r /\ \A o \in Build : o # b => build'[o] = build[o]
      BY <1>0, <1>2
    <2>. QED  BY <1>2, <2>1 DEF OneRebuild, RebuildNotLost, Running
  <1>3. ASSUME NEW b \in Build, ScrollPage(b) PROVE OneRebuild' /\ RebuildNotLost'
    <2> DEFINE rest == Rest(build[b].offset)
               r == [build[b] EXCEPT
                       !.fetched = @ \cup (Page(build[b].offset) \ Blank),
                       !.offset  = IF rest = {} THEN @ ELSE Smallest(rest),
                       !.at      = IF rest = {} THEN "install" ELSE "scroll"]
    <2>1. r.at # "ok" /\ r.base = build[b].base
      BY <1>0 DEF BuildType
    <2>2. build' = [build EXCEPT ![b] = r] /\ UNCHANGED corpus /\ Running(b)
      BY <1>0, <1>3 DEF ScrollPage, BuildType, Running
    <2> HIDE DEF r
    <2>. QED  BY <1>2, <2>1, <2>2
  <1>4. ASSUME NEW b \in Build, ScrollFails(b) PROVE OneRebuild' /\ RebuildNotLost'
    <2> DEFINE r == [NoBuild EXCEPT !.at = "error"]
    <2>1. r.at = "error"
      BY DEF NoBuild
    <2>2. build' = [build EXCEPT ![b] = r] /\ UNCHANGED corpus
      BY <1>4 DEF ScrollFails
    <2> HIDE DEF r
    <2>3. build'[b] = r /\ \A o \in Build : o # b => build'[o] = build[o]
      BY <1>0, <2>2
    <2>. QED  BY <2>1, <2>2, <2>3 DEF OneRebuild, RebuildNotLost, Running
  <1>5. ASSUME NEW b \in Build, Install(b) PROVE OneRebuild' /\ RebuildNotLost'
    <2>1. /\ corpus' = build[b].fetched /\ Running(b)
          /\ build[b].base \ Blank \subseteq corpus'
      BY <1>0, <1>5 DEF Install, Running
    <2>2. /\ build'[b].at = "ok" /\ \A o \in Build : build'[o].base = build[o].base
          /\ \A o \in Build : o # b => build'[o] = build[o]
      BY <1>0, <1>5 DEF Install, BuildType
    <2>3. \A o \in Build : o # b => ~Running(o)
      BY <2>1 DEF OneAtATime
    <2>4. OneRebuild'
      BY <2>2, <2>3 DEF OneRebuild, Running
    <2>5. ASSUME NEW o \in Build, build'[o].at = "ok" PROVE build'[o].base \ Blank \subseteq corpus'
      <3>1. o = b \/ build[o].at = "ok"
        BY <2>2, <2>5
      <3>. QED  BY <2>1, <2>2, <3>1 DEF OneRebuild
    <2>. QED  BY <2>4, <2>5 DEF RebuildNotLost
  <1>6. CASE Crash
    <2>1. \A b \in Build : build'[b].at \notin {"scroll", "install", "ok"}
      BY <1>0, <1>6 DEF Crash, NoBuild
    <2>. QED  BY <2>1 DEF OneRebuild, RebuildNotLost, Running
  <1>7. CASE corpus' = corpus /\ build' = build
    BY <1>7 DEF OneRebuild, RebuildNotLost, Running
  <1>8. ASSUME NEW S \in SUBSET Point, Ingest(S) PROVE corpus' = corpus /\ build' = build
    BY <1>8 DEF Ingest
  <1>9. ASSUME NEW q \in Query,
               \/ StartQuery(q) \/ EmbedFails(q) \/ DenseSearch(q)
               \/ DenseFails(q) \/ SparseSearch(q)
        PROVE  corpus' = corpus /\ build' = build
    BY <1>9 DEF StartQuery, EmbedFails, DenseSearch, DenseFails, SparseSearch
  <1>. QED
    BY <1>1, <1>3, <1>4, <1>5, <1>6, <1>7, <1>8, <1>9 DEF Next, vars

\* In a behaviour in which no two rebuilds overlap, a successful one leaves what the
\* collection held when it began in the index, until the process ends, however pages
\* and ingestions interleave and whichever later rebuilds succeed or fail.
THEOREM RebuildsKeepChunks == Spec /\ []OneAtATime => []RebuildNotLost
  <1>1. Init => RebuildInv /\ OneRebuild /\ RebuildNotLost
    BY TypeOKInit
    DEF Init, NoBuild, RebuildInv, Covered, LossNeedsOverlap, OneRebuild, RebuildNotLost, Running
  <1>2. RebuildInv /\ OneRebuild /\ RebuildNotLost /\ OneAtATime /\ OneAtATime' /\ [Next]_vars =>
          (RebuildInv /\ OneRebuild /\ RebuildNotLost)'
    BY RebuildStep, OneRebuildStep
  <1>. QED  BY <1>1, <1>2, PTL DEF Spec

-----------------------------------------------------------------------------
(* Answers follow the rankings *)

\* An answered query holds the cut of the fusion of its two rankings.
Answers ==
  \A q \in Query : query[q].at = "answered" =>
    query[q].answer = Cut(query[q].dense, query[q].sparse, Threshold, TopK)

\* An id that both lists place at least as well as another is ahead of it.
LEMMA DominatesAhead ==
  ASSUME NEW S, NEW q \in Query, NEW dense, NEW sparse, FusionContext(S, dense, sparse),
         dense = query[q].dense, sparse = query[q].sparse,
         NEW x \in Found(dense, sparse), NEW y \in Found(dense, sparse), Dominates(q, x, y)
  PROVE  Ahead(dense, sparse, x, y)
  <1>1. MaxRank \in Nat /\ DenseWeight \in Nat /\ SparseWeight \in Nat
    BY FusionAssumption
  <1>2. /\ dense \in Rankings(S, MaxRank) /\ sparse \in Rankings(S, MaxRank)
        /\ Place(dense, x) <= Place(dense, y) /\ Place(sparse, x) <= Place(sparse, y) /\ x # y
    BY DEF FusionContext, Dominates
  <1>3. Len(dense) \in 0 .. MaxRank /\ Len(sparse) \in 0 .. MaxRank
    BY <1>1, <1>2, RankingIsList
  <1>4. /\ \A z \in Ids(dense) : RankIn(dense, z) \in 1 .. Len(dense)
        /\ \A z, v \in Ids(dense) : RankIn(dense, z) = RankIn(dense, v) => z = v
    BY <1>1, <1>2, RankIsPlace
  <1>5. /\ \A z \in Ids(sparse) : RankIn(sparse, z) \in 1 .. Len(sparse)
        /\ \A z, v \in Ids(sparse) : RankIn(sparse, z) = RankIn(sparse, v) => z = v
    BY <1>1, <1>2, RankIsPlace
  <1>6. y \in Ids(dense) => x \in Ids(dense) /\ RankIn(dense, x) <= RankIn(dense, y)
    BY <1>1, <1>2, <1>3, <1>4 DEF Place
  <1>7. y \in Ids(sparse) => x \in Ids(sparse) /\ RankIn(sparse, x) <= RankIn(sparse, y)
    BY <1>1, <1>2, <1>3, <1>5 DEF Place
  <1>8. /\ ShareIn(dense, DenseWeight, x) \in Nat /\ ShareIn(dense, DenseWeight, y) \in Nat
        /\ ShareIn(dense, DenseWeight, y) <= ShareIn(dense, DenseWeight, x)
    BY <1>1, <1>2, <1>6, ShareInMonotone
  <1>9. /\ ShareIn(sparse, SparseWeight, x) \in Nat /\ ShareIn(sparse, SparseWeight, y) \in Nat
        /\ ShareIn(sparse, SparseWeight, y) <= ShareIn(sparse, SparseWeight, x)
    BY <1>1, <1>2, <1>7, ShareInMonotone
  <1>10. /\ RrfScore(dense, sparse, x) \in Nat /\ RrfScore(dense, sparse, y) \in Nat
         /\ RrfScore(dense, sparse, y) <= RrfScore(dense, sparse, x)
    BY <1>8, <1>9 DEF RrfScore
  <1>11. Entered(dense, sparse, x) < Entered(dense, sparse, y)
    <2>1. CASE y \in Ids(dense)
      BY <1>2, <1>3, <1>4, <1>6, <2>1 DEF Entered
    <2>2. CASE y \notin Ids(dense)
      <3>1. y \in Ids(sparse) /\ x \in Ids(sparse) /\ RankIn(sparse, x) < RankIn(sparse, y)
        BY <1>2, <1>3, <1>5, <1>7, <2>2 DEF Found
      <3>. QED  BY <1>3, <1>4, <1>5, <2>2, <3>1 DEF Entered
    <2>. QED  BY <2>1, <2>2
  <1>. QED  BY <1>10, <1>11 DEF Ahead

\* A cut answers as AnswerRespectsRanks says.
LEMMA AnswersRespectRanks == TypeOK /\ Answers => AnswerRespectsRanks
  <1> SUFFICES ASSUME TypeOK, Answers, NEW q \in Query, query[q].at = "answered"
               PROVE  LET a == query[q].answer
                          found == Found(query[q].dense, query[q].sparse) IN
                      /\ Cardinality(Ids(a)) = Len(a) /\ Len(a) <= TopK
                      /\ Ids(a) \subseteq found \cap stored
                      /\ \A i \in DOMAIN a : \A x \in found :
                           Dominates(q, x, a[i]) => \E j \in 1 .. i - 1 : a[j] = x
    BY DEF AnswerRespectsRanks
  <1> DEFINE dense == query[q].dense
             sparse == query[q].sparse
             a == query[q].answer
             found == Found(dense, sparse)
  <1>1. dense \in Rankings(stored, DenseTopK) /\ sparse \in Rankings(stored, SparseTopK)
    BY TypeOKNamed DEF QueryType
  <1>2. FusionContext(stored, dense, sparse) /\ found \subseteq stored
    BY <1>1, AnswerTyped
  <1>3. a = Cut(dense, sparse, Threshold, TopK)
    BY DEF Answers
  <1>4. /\ a \in Seq(found) /\ Ids(a) \subseteq found
        /\ Cardinality(Ids(a)) = Len(a) /\ Len(a) <= TopK
        /\ \A i \in DOMAIN a : \A x \in found :
             Ahead(dense, sparse, x, a[i]) => \E j \in 1 .. i - 1 : a[j] = x
    BY <1>2, <1>3, Bounds, CutIsHead
  <1>5. ASSUME NEW i \in DOMAIN a, NEW x \in found, Dominates(q, x, a[i])
        PROVE  \E j \in 1 .. i - 1 : a[j] = x
    <2>1. a[i] \in found
      BY <1>4, <1>5 DEF Ids
    <2>2. Ahead(dense, sparse, x, a[i])
      BY <1>2, <1>5, <2>1, DominatesAhead
    <2>. QED  BY <1>4, <1>5, <2>2
  <1>. QED  BY <1>2, <1>4, <1>5

\* A query that moves has an answer only if it has the cut.
LEMMA OneQueryMoves ==
  ASSUME TypeOK, Answers, NEW q \in Query, NEW r, query' = [query EXCEPT ![q] = r],
         r.at = "answered" => r.answer = Cut(r.dense, r.sparse, Threshold, TopK)
  PROVE  Answers'
  <1>1. query'[q] = r /\ \A o \in Query : o # q => query'[o] = query[o]
    BY DEF TypeOK
  <1>. QED  BY <1>1 DEF Answers

\* Answers is inductive.
LEMMA AnswersStep == TypeOK /\ Answers /\ [Next]_vars => Answers'
  <1> SUFFICES ASSUME TypeOK, Answers, [Next]_vars PROVE Answers'
    OBVIOUS
  <1>0. query \in [Query -> QueryType(stored)]
    BY TypeOKNamed
  <1>1. ASSUME NEW q \in Query, StartQuery(q) PROVE Answers'
    <2>1. PICK f \in BOOLEAN :
            query' = [query EXCEPT ![q] = [NoQuery EXCEPT !.at = "dense", !.filtered = f]]
      BY <1>1 DEF StartQuery
    <2>2. [NoQuery EXCEPT !.at = "dense", !.filtered = f].at # "answered"
      BY DEF NoQuery
    <2>. QED  BY <2>1, <2>2, OneQueryMoves
  <1>2. ASSUME NEW q \in Query, NEW at \in {"failed", "fuse"}, query' = [query EXCEPT ![q].at = at]
        PROVE  Answers'
    BY <1>0, <1>2 DEF Answers, QueryType
  <1>3. ASSUME NEW q \in Query, DenseSearch(q) PROVE Answers'
    BY <1>0, <1>3 DEF DenseSearch, Answers, QueryType
  <1>4. ASSUME NEW q \in Query, SparseSearch(q) PROVE Answers'
    <2>1. PICK list \in Rankings(IF built THEN corpus ELSE {}, SparseTopK) :
            query' = [query EXCEPT
              ![q].at = "answered",
              ![q].sparse = list,
              ![q].answer = Cut(query[q].dense, list, Threshold, TopK)]
      BY <1>4 DEF SparseSearch
    <2> DEFINE cut == Cut(query[q].dense, list, Threshold, TopK)
    <2>2. /\ query'[q].answer = cut /\ query'[q].dense = query[q].dense /\ query'[q].sparse = list
          /\ \A o \in Query : o # q => query'[o] = query[o]
      BY <1>0, <2>1 DEF QueryType
    <2>. QED  BY <2>2 DEF Answers
  <1>5. CASE Crash
    <2>1. \A q \in Query : query'[q].at = "answered" => query'[q] = query[q]
      BY <1>5 DEF Crash, NoQuery
    <2>. QED  BY <2>1 DEF Answers
  <1>6. CASE query' = query
    BY <1>6 DEF Answers
  <1>7. ASSUME NEW q \in Query, EmbedFails(q) \/ DenseFails(q) PROVE Answers'
    BY <1>2, <1>7 DEF EmbedFails, DenseFails
  <1>8. ASSUME NEW S \in SUBSET Point, Ingest(S) PROVE Answers'
    BY <1>6, <1>8 DEF Ingest
  <1>9. ASSUME NEW b \in Build, StartBuild(b) \/ ScrollPage(b) \/ ScrollFails(b) \/ Install(b)
        PROVE  Answers'
    BY <1>6, <1>9 DEF StartBuild, ScrollPage, ScrollFails, Install
  <1>10. CASE UNCHANGED vars
    BY <1>6, <1>10 DEF vars
  <1>. QED
    BY <1>1, <1>3, <1>4, <1>5, <1>7, <1>8, <1>9, <1>10 DEF Next

\* HybridRetriever.search answers with what its two rankings say: at most k
\* chunks that were found, none twice, and with a chunk each one that both lists
\* prefer to it, before it; for every weight, smoothing constant and threshold.
THEOREM AnswersFollowRankings == Spec => []AnswerRespectsRanks
  <1>1. Init => TypeOK /\ Answers
    BY TypeOKInit DEF Init, NoQuery, Answers
  <1>2. TypeOK /\ NoBlank /\ Answers /\ [Next]_vars => (TypeOK /\ NoBlank /\ Answers)'
    BY TypeOKStep, AnswersStep
  <1>3. TypeOK /\ Answers => AnswerRespectsRanks
    BY AnswersRespectRanks
  <1>. QED  BY <1>1, <1>2, <1>3, TypeOKInit, PTL DEF Spec
=============================================================================
