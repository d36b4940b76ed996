------------------------- MODULE NlpPipeline_proofs -------------------------
(***************************************************************************)
(* Theorems about NlpPipeline, for every set of logs, of formats and of    *)
(* threads.  Each invariant that is local to a run is proved of the record *)
(* of the run; what the threads share is the registry.                     *)
(***************************************************************************)
EXTENDS NlpPipeline, FiniteSetTheorems, WellFoundedInduction, TLAPS

-----------------------------------------------------------------------------
(* Typing *)

\* A set of numbers that is not empty has a smallest one.
LEMMA Least ==
  ASSUME NEW S \in SUBSET Nat, S # {}
  PROVE  \E x \in S : \A y \in S : x <= y
  <1>1. PICK x \in S : \A y \in S : ~ (<<y, x>> \in OpToRel(<, Nat))
    BY NatLessThanWellFounded, WFMin
  <1>2. ASSUME NEW y \in S PROVE x <= y
    <2>1. x \in Nat /\ y \in Nat /\ <<y, x>> \in Nat \X Nat
      OBVIOUS
    <2>2. <<y, x>>[1] = y /\ <<y, x>>[2] = x
      OBVIOUS
    <2>3. ~(y < x)
      BY <1>1, <2>1, <2>2 DEF OpToRel
    <2>. QED  BY <2>1, <2>3
  <1>. QED  BY <1>1, <1>2

\* A function to numbers below a bound has a largest value.
LEMMA Largest ==
  ASSUME NEW D, D # {}, NEW f, NEW n \in Nat, \A d \in D : f[d] \in 0 .. n
  PROVE  \E d \in D : \A e \in D : f[e] <= f[d]
  <1> DEFINE S == {n - f[d] : d \in D}
  <1>1. S \in SUBSET Nat /\ S # {}
    OBVIOUS
  <1>2. PICK x \in S : \A y \in S : x <= y
    BY <1>1, Least
  <1>3. PICK d \in D : x = n - f[d]
    OBVIOUS
  <1>4. ASSUME NEW e \in D PROVE f[e] <= f[d]
    <2>1. n - f[e] \in S
      OBVIOUS
    <2>2. n - f[d] <= n - f[e]
      BY <1>2, <1>3, <2>1
    <2>. QED  BY <2>2
  <1>. QED  BY <1>4

\* A sequence that is not empty has a first element.
LEMMA NotEmpty ==
  ASSUME NEW S, NEW s \in Seq(S), s # <<>>
  PROVE  1 \in DOMAIN s /\ DOMAIN s \subseteq Nat /\ \A i \in DOMAIN s : s[i] \in S
  <1>1. Len(s) # 0
    OBVIOUS
  <1>. QED  BY <1>1

\* What is assumed of the constants, a part at a time.
LEMMA Constants ==
  /\ Text \subseteq Seq(Line)
  /\ NoEvent \notin NormalizedEvent
  /\ ParseLine \in [Format \cup {"unknown"} -> [Line -> NormalizedEvent \cup {NoEvent}]]
  /\ Iocs \in [NormalizedEvent -> Seq(Ioc)]
  /\ \A e \in NormalizedEvent : \A i, j \in DOMAIN Iocs[e] : Iocs[e][i].key = Iocs[e][j].key => i = j
  /\ Matched \in [NormalizedEvent -> SUBSET (1 .. 10)]
  /\ Broken \in [NormalizedEvent -> {"none", "extract", "classify"}]
  /\ FormatOrder \in Seq(STRING) /\ FormatOrder # <<>> /\ "unknown" \notin Format
  /\ ModuleOrder \in Seq(Format) /\ Format = {ModuleOrder[i] : i \in DOMAIN ModuleOrder}
  /\ Whole \in Nat /\ Score \in [Text -> [Format -> 0 .. Whole]]
  /\ Forced \subseteq Format \cup {"none", "unknown"}
  /\ MaxEvents \in Nat \ {0} /\ MaxIocs \in Nat
  <1>. USE PipelineAssumption
  <1>1. /\ Text \subseteq Seq(Line) /\ NoEvent \notin NormalizedEvent
        /\ ParseLine \in [Format \cup {"unknown"} -> [Line -> NormalizedEvent \cup {NoEvent}]]
    BY Zenon
  <1>2. Iocs \in [NormalizedEvent -> Seq(Ioc)]
    BY Zenon
  <1>3. \A e \in NormalizedEvent : \A i, j \in DOMAIN Iocs[e] : Iocs[e][i].key = Iocs[e][j].key => i = j
    BY Zenon
  <1>4. Matched \in [NormalizedEvent -> SUBSET (1 .. 10)]
    BY Zenon
  <1>5. Broken \in [NormalizedEvent -> {"none", "extract", "classify"}]
    BY Zenon
  <1>6. FormatOrder \in Seq(STRING) /\ FormatOrder # <<>> /\ "unknown" \notin Format
    BY Zenon
  <1>7. ModuleOrder \in Seq(Format) /\ Format = {ModuleOrder[i] : i \in DOMAIN ModuleOrder}
    BY Zenon
  <1>8. Whole \in Nat /\ Score \in [Text -> [Format -> 0 .. Whole]]
    BY Zenon
  <1>9. Forced \subseteq Format \cup {"none", "unknown"}
    BY Zenon
  <1>10. MaxEvents \in Nat \ {0} /\ MaxIocs \in Nat
    BY Zenon
  <1>. QED  BY <1>1, <1>2, <1>3, <1>4, <1>5, <1>6, <1>7, <1>8, <1>9, <1>10

\* A parser makes an event of a line or none.
LEMMA LineEvent ==
  ASSUME NEW type \in Format \cup {"unknown"}, NEW line \in Line
  PROVE  ParseLine[type][line] \in NormalizedEvent \cup {NoEvent}
  <1>1. ParseLine[type] \in [Line -> NormalizedEvent \cup {NoEvent}]
    BY Constants
  <1>. QED  BY <1>1

\* The score of an event is the highest of its rules', or 1.
LEMMA ScoreIsHighest ==
  ASSUME NEW l \in NormalizedEvent
  PROVE  SeverityScore(l) \in 1 .. 10 /\ \A s \in Matched[l] : s <= SeverityScore(l)
  <1>1. CASE Matched[l] = {}
    BY <1>1 DEF SeverityScore
  <1>2. CASE Matched[l] # {}
    <2> DEFINE M == Matched[l]
    <2>1. M \in SUBSET (1 .. 10)
      BY Constants
    <2>2. \E m \in M : \A s \in M : s <= m
      <3> DEFINE f == [s \in M |-> s]
      <3>1. M # {} /\ 10 \in Nat /\ \A s \in M : f[s] \in 0 .. 10
        BY <1>2, <2>1
      <3>2. \A s \in M : f[s] = s
        OBVIOUS
      <3> HIDE DEF M, f
      <3>3. \E m \in M : \A s \in M : f[s] <= f[m]
        BY <3>1, Largest
      <3>. QED  BY <3>2, <3>3
    <2>. QED  BY <1>2, <2>1, <2>2 DEF SeverityScore
  <1>. QED  BY <1>1, <1>2

LEMMA ScoreType ==
  ASSUME NEW l \in NormalizedEvent
  PROVE  SeverityScore(l) \in 1 .. 10
  BY ScoreIsHighest

\* max() finds a format.
LEMMA BestType ==
  ASSUME NEW score \in [Format -> 0 .. Whole]
  PROVE  Best(score) \in Format
  <1> DEFINE D == DOMAIN FormatOrder
             value == [i \in D |-> score[FormatOrder[i]]]
  <1>1. D \subseteq Nat /\ D # {} /\ Whole \in Nat
    BY Constants, NotEmpty
  <1>2. \A i \in D : FormatOrder[i] \in Format /\ value[i] \in 0 .. Whole
    BY DEF Format
  <1>3. PICK i \in D : \A j \in D : value[j] <= value[i]
    BY <1>1, <1>2, Largest
  <1>4. {k \in D : value[k] = value[i]} \in SUBSET Nat /\ i \in {k \in D : value[k] = value[i]}
    BY <1>1
  <1>5. PICK k \in {k \in D : value[k] = value[i]} : \A j \in {j \in D : value[j] = value[i]} : k <= j
    BY <1>4, Least
  <1>6. \A j \in D : value[j] < value[k] \/ (value[j] = value[k] /\ k <= j)
    BY <1>2, <1>3, <1>5
  <1>7. \A j \in DOMAIN FormatOrder :
          \/ score[FormatOrder[j]] < score[FormatOrder[k]]
          \/ score[FormatOrder[j]] = score[FormatOrder[k]] /\ k <= j
    BY <1>6
  <1>. QED  BY <1>2, <1>7 DEF Best

\* Every score has a severity.
LEMMA FromScoreType ==
  ASSUME NEW s \in 1 .. 10
  PROVE  FromScore(s) \in SeverityLevel
  BY DEF FromScore, SeverityLevel

\* The formats of a text.
LEMMA DetectedType ==
  ASSUME NEW text \in Text, NEW force \in Forced \cup {"none"}
  PROVE  DetectWithOverride(text, force) \in Format \cup {"unknown"}
  <1>1. Best(Score[text]) \in Format
    BY BestType, Constants
  <1>2. force \in Format \cup {"none", "unknown"}
    BY Constants
  <1>. QED  BY <1>1, <1>2 DEF DetectWithOverride, Detect

Event == [line : Nat, score : 1 .. 10]
StatsType == [parsed : Nat, failed : Nat, threats : Nat, unique : Nat,
              severity : [SeverityLevel -> Nat]]
At == {"idle", "import", "detect", "parse", "done", "raised"}
RunType == [at : At, text : Text \cup {<<>>}, force : Forced \cup {"none"}, module : Nat,
            type : Format \cup {"unknown"}, next : Nat, processed : Seq(Event),
            merged : SUBSET Ioc, stats : StatsType]

\* What holds of the record of a run, beside its types: the line it is at, where its
\* events come from, and that a run that has not detected its type has done nothing.
Early == {"idle", "import", "detect", "raised"}
Placed(x) ==
  /\ x.at # "idle" => x.text \in Text
  /\ x.module \in 1 .. Len(ModuleOrder) + 1
  /\ x.next \in 1 .. Len(x.text) + 1
  /\ \A i \in DOMAIN x.processed : x.processed[i].line \in 1 .. x.next - 1
  /\ Len(x.processed) <= MaxEvents
  /\ IsFiniteSet(x.merged)
  /\ x.at \in Early => x.next = 1 /\ x.processed = <<>> /\ x.merged = {} /\ x.stats = NoStats

\* The invariant behind TypeOK.
Typed ==
  /\ registry \subseteq Format
  /\ loaded \in BOOLEAN
  /\ run \in [Run -> RunType]
  /\ \A r \in Run : Placed(run[r])

\* The kept IOCs of a line are finitely many, and no two have the same key.
LEMMA Kept ==
  ASSUME NEW l \in NormalizedEvent
  PROVE  /\ KeptIocs(l) \subseteq Ioc
         /\ IsFiniteSet(KeptIocs(l))
         /\ \A i, j \in KeptIocs(l) : i.key = j.key => i = j
  <1> DEFINE D == {j \in DOMAIN Iocs[l] : j <= MaxIocs}
             f == [i \in D |-> Iocs[l][i]]
  <1>1. Iocs[l] \in Seq(Ioc)
    BY Constants
  <1>2. IsFiniteSet(1 .. Len(Iocs[l]))
    BY <1>1, FS_Interval
  <1>3. D \subseteq 1 .. Len(Iocs[l])
    BY <1>1
  <1>4. IsFiniteSet(D)
    BY <1>2, <1>3, FS_Subset
  <1>5. f \in Surjection(D, KeptIocs(l))
    BY DEF Surjection, KeptIocs
  <1>6. IsFiniteSet(KeptIocs(l))
    <2> HIDE DEF D, f
    <2>. QED  BY <1>4, <1>5, FS_Surjection
  <1>7. \A i, j \in D : Iocs[l][i].key = Iocs[l][j].key => i = j
    BY Constants
  <1>8. \A k \in KeptIocs(l) : \E i \in D : k = Iocs[l][i]
    BY DEF KeptIocs
  <1>. QED  BY <1>1, <1>6, <1>7, <1>8

\* Merging keeps the types.
LEMMA MergeType ==
  ASSUME NEW l \in NormalizedEvent, NEW merged \in SUBSET Ioc, IsFiniteSet(merged)
  PROVE  Merge(merged, l) \in SUBSET Ioc /\ IsFiniteSet(Merge(merged, l))
  <1> DEFINE N == {i \in KeptIocs(l) : \A m \in merged : m.key # i.key}
  <1>1. N \subseteq KeptIocs(l) /\ Merge(merged, l) = merged \cup N
    BY DEF Merge
  <1>2. IsFiniteSet(N)
    BY <1>1, Kept, FS_Subset
  <1>3. IsFiniteSet(merged \cup N)
    <2> HIDE DEF N
    <2>. QED  BY <1>2, FS_Union
  <1>. QED  BY <1>1, <1>3, Kept

\* A record is of its type when its fields are.
LEMMA Fields ==
  ASSUME NEW at \in At, NEW text \in Text \cup {<<>>}, NEW force \in Forced \cup {"none"},
         NEW module \in Nat, NEW type \in Format \cup {"unknown"}, NEW next \in Nat,
         NEW processed \in Seq(Event), NEW merged \in SUBSET Ioc, NEW stats \in StatsType
  PROVE  [at |-> at, text |-> text, force |-> force, module |-> module, type |-> type,
          next |-> next, processed |-> processed, merged |-> merged, stats |-> stats] \in RunType
  BY DEF RunType

\* The initial record and the one a run starts with.
Started(at, text, force) == [NoRun EXCEPT !.at = at, !.text = text, !.force = force]

LEMMA NoRunType ==
  ASSUME NEW at \in At \cap Early, NEW text \in Text \cup {<<>>}, NEW force \in Forced \cup {"none"},
         at # "idle" => text \in Text,
         NEW x, x = Started(at, text, force)
  PROVE  /\ x \in RunType /\ Placed(x)
         /\ x.at = at /\ x.module = 1 /\ x.text = text
  <1>1. NoStats \in StatsType
    BY DEF NoStats, StatsType
  <1>2. /\ x.at = at /\ x.text = text /\ x.module = 1 /\ x.next = 1 /\ x.processed = <<>>
        /\ x.merged = {} /\ x.stats = NoStats
    BY DEF NoRun, Started
  <1>3. x \in RunType
    <2>1. x = [at |-> at, text |-> text, force |-> force, module |-> 1, type |-> "unknown",
               next |-> 1, processed |-> <<>>, merged |-> {}, stats |-> NoStats]
      BY DEF NoRun, Started
    <2>2. <<>> \in Seq(Event)
      OBVIOUS
    <2>3. 1 \in Nat /\ {} \in SUBSET Ioc /\ "unknown" \in Format \cup {"unknown"} /\ at \in At
      OBVIOUS
    <2>4. [at |-> at, text |-> text, force |-> force, module |-> 1, type |-> "unknown",
           next |-> 1, processed |-> <<>>, merged |-> {}, stats |-> NoStats] \in RunType
      BY <1>1, <2>2, <2>3, Fields
    <2>. QED  BY <2>1, <2>4
  <1>4. Placed(x)
    <2>1. Len(text) \in Nat /\ Len(ModuleOrder) \in Nat /\ MaxEvents \in Nat
      <3>1. <<>> \in Seq(Line)
        OBVIOUS
      <3>2. text \in Seq(Line) /\ ModuleOrder \in Seq(Format) /\ MaxEvents \in Nat
        BY <3>1, Constants
      <3>. QED  BY <3>2
    <2>2. IsFiniteSet({})
      BY FS_EmptySet
    <2>3. x.module \in 1 .. Len(ModuleOrder) + 1 /\ x.next \in 1 .. Len(x.text) + 1
      BY <1>2, <2>1
    <2>4. Len(x.processed) <= MaxEvents
      BY <1>2, <2>1
    <2>5. \A i \in DOMAIN x.processed : x.processed[i].line \in 1 .. x.next - 1
      BY <1>2
    <2>. QED  BY <1>2, <2>2, <2>3, <2>4, <2>5 DEF Placed
  <1>. QED  BY <1>2, <1>3, <1>4

-----------------------------------------------------------------------------
(* What each action does to the record of its run, field by field *)

\* The fields that no step but the first changes, and those of the counters.
SameLog(x, y) == y.text = x.text /\ y.force = x.force
SameWork(x, y) ==
  /\ y.next = x.next /\ y.processed = x.processed /\ y.merged = x.merged /\ y.stats = x.stats

\* A record of a run is made of its fields.
LEMMA Rebuild ==
  ASSUME NEW x \in RunType
  PROVE  /\ x.at \in At /\ x.text \in Text \cup {<<>>} /\ x.force \in Forced \cup {"none"}
         /\ x.module \in Nat /\ x.type \in Format \cup {"unknown"} /\ x.next \in Nat
         /\ x.processed \in Seq(Event) /\ x.merged \in SUBSET Ioc /\ x.stats \in StatsType
         /\ x.text \in Seq(Line)
         /\ x = [at |-> x.at, text |-> x.text, force |-> x.force, module |-> x.module,
                 type |-> x.type, next |-> x.next, processed |-> x.processed,
                 merged |-> x.merged, stats |-> x.stats]
  <1>1. <<>> \in Seq(Line)
    OBVIOUS
  <1>2. x.text \in Seq(Line)
    BY <1>1, Constants DEF RunType
  <1>. QED  BY <1>2 DEF RunType

\* A step before the loop changes these fields.
SetEarly(x, at, module, type) == [x EXCEPT !.at = at, !.module = module, !.type = type]

LEMMA EarlyFields ==
  ASSUME NEW x \in RunType, NEW at \in At, NEW module \in Nat, NEW type \in Format \cup {"unknown"},
         NEW y, y = SetEarly(x, at, module, type)
  PROVE  /\ y \in RunType /\ SameLog(x, y) /\ SameWork(x, y)
         /\ y.at = at /\ y.module = module /\ y.type = type
  <1>1. y.at = at /\ y.module = module /\ y.type = type /\ SameLog(x, y) /\ SameWork(x, y)
    BY DEF RunType, SameLog, SameWork, SetEarly
  <1>2. y = [at |-> at, text |-> x.text, force |-> x.force, module |-> module,
             type |-> type, next |-> x.next, processed |-> x.processed,
             merged |-> x.merged, stats |-> x.stats]
    BY DEF RunType, SetEarly
  <1>3. y \in RunType
    <2>1. /\ x.text \in Text \cup {<<>>} /\ x.force \in Forced \cup {"none"} /\ x.next \in Nat
          /\ x.processed \in Seq(Event) /\ x.merged \in SUBSET Ioc /\ x.stats \in StatsType
      BY Rebuild
    <2>2. [at |-> at, text |-> x.text, force |-> x.force, module |-> module,
           type |-> type, next |-> x.next, processed |-> x.processed,
           merged |-> x.merged, stats |-> x.stats] \in RunType
      BY <2>1, Fields
    <2>. QED  BY <1>2, <2>2
  <1>. QED  BY <1>1, <1>3

\* A step of one run leaves the others as they are.
OnlyRun(r, y) ==
  /\ run' = [run EXCEPT ![r] = y]
  /\ run'[r] = y
  /\ \A s \in Run \ {r} : run'[s] = run[s]

LEMMA OnlyRunIntro ==
  ASSUME run \in [Run -> RunType], NEW r \in Run, NEW y, run' = [run EXCEPT ![r] = y]
  PROVE  OnlyRun(r, y)
  BY DEF OnlyRun

\* The steps before the loop.
EarlyEffect(r, at, module, type) ==
  \E y \in RunType :
    /\ OnlyRun(r, y) /\ SameLog(run[r], y) /\ SameWork(run[r], y)
    /\ y.at = at /\ y.module = module /\ y.type = type

LEMMA EarlyStep ==
  ASSUME Typed, NEW r \in Run, NEW at \in At, NEW module \in Nat,
         NEW type \in Format \cup {"unknown"},
         run' = [run EXCEPT ![r] = SetEarly(run[r], at, module, type)]
  PROVE  EarlyEffect(r, at, module, type)
  <1> DEFINE y == SetEarly(run[r], at, module, type)
  <1>1. run \in [Run -> RunType] /\ run[r] \in RunType
    BY DEF Typed
  <1>2. run' = [run EXCEPT ![r] = y]
    OBVIOUS
  <1>3. /\ y \in RunType /\ SameLog(run[r], y) /\ SameWork(run[r], y)
        /\ y.at = at /\ y.module = module /\ y.type = type
    BY <1>1, EarlyFields
  <1> HIDE DEF y
  <1>4. OnlyRun(r, y)
    BY <1>1, <1>2, OnlyRunIntro
  <1>. QED  BY <1>3, <1>4 DEF EarlyEffect

LEMMA ImportParserEffect ==
  ASSUME Typed, NEW r \in Run, ImportParser(r)
  PROVE  /\ run[r].at = "import"
         /\ EarlyEffect(r, "import", run[r].module + 1, run[r].type)
  <1> DEFINE x == run[r]
  <1>1. x \in RunType /\ run \in [Run -> RunType]
    BY DEF Typed
  <1>2. x.module \in Nat /\ x.type \in Format \cup {"unknown"}
    BY <1>1, Rebuild
  <1>3. x.at = "import" /\ run' = [run EXCEPT ![r] = [x EXCEPT !.module = x.module + 1]]
    BY <1>1 DEF ImportParser
  <1>4. [x EXCEPT !.module = x.module + 1]
          = SetEarly(x, "import", x.module + 1, x.type)
    BY <1>1, <1>3 DEF RunType, SetEarly
  <1>5. EarlyEffect(r, "import", x.module + 1, x.type)
    <2>1. "import" \in At /\ x.module + 1 \in Nat
      BY <1>2 DEF At
    <2>. QED  BY <1>2, <1>3, <1>4, <2>1, EarlyStep
  <1>. QED  BY <1>3, <1>5

LEMMA ImportFailsEffect ==
  ASSUME Typed, NEW r \in Run, ImportFails(r)
  PROVE  /\ run[r].at = "import"
         /\ EarlyEffect(r, "raised", run[r].module, run[r].type)
  <1> DEFINE x == run[r]
  <1>1. x \in RunType /\ run \in [Run -> RunType]
    BY DEF Typed
  <1>2. x.module \in Nat /\ x.type \in Format \cup {"unknown"}
    BY <1>1, Rebuild
  <1>3. x.at = "import" /\ run' = [run EXCEPT ![r] = [x EXCEPT !.at = "raised"]]
    BY <1>1 DEF ImportFails
  <1>4. [x EXCEPT !.at = "raised"]
          = SetEarly(x, "raised", x.module, x.type)
    BY <1>1 DEF RunType, SetEarly
  <1>. QED  BY <1>2, <1>3, <1>4, EarlyStep DEF At

LEMMA ParsersLoadedEffect ==
  ASSUME Typed, NEW r \in Run, ParsersLoaded(r)
  PROVE  /\ run[r].at = "import"
         /\ EarlyEffect(r, "detect", run[r].module, run[r].type)
  <1> DEFINE x == run[r]
  <1>1. x \in RunType /\ run \in [Run -> RunType]
    BY DEF Typed
  <1>2. x.module \in Nat /\ x.type \in Format \cup {"unknown"}
    BY <1>1, Rebuild
  <1>3. x.at = "import" /\ run' = [run EXCEPT ![r] = [x EXCEPT !.at = "detect"]]
    BY <1>1 DEF ParsersLoaded
  <1>4. [x EXCEPT !.at = "detect"]
          = SetEarly(x, "detect", x.module, x.type)
    BY <1>1 DEF RunType, SetEarly
  <1>. QED  BY <1>2, <1>3, <1>4, EarlyStep DEF At

LEMMA DetectTypeEffect ==
  ASSUME Typed, NEW r \in Run, DetectType(r)
  PROVE  LET type == DetectWithOverride(run[r].text, run[r].force) IN
         /\ run[r].at = "detect"
         /\ type \in Format \cup {"unknown"}
         /\ EarlyEffect(r, IF type \in registry THEN "parse" ELSE "done", run[r].module, type)
  <1> DEFINE x == run[r]
             type == DetectWithOverride(x.text, x.force)
             at == IF type \in registry THEN "parse" ELSE "done"
  <1>1. x \in RunType /\ run \in [Run -> RunType] /\ Placed(x)
    BY DEF Typed
  <1>2. x.module \in Nat /\ x.force \in Forced \cup {"none"}
    BY <1>1, Rebuild
  <1>3. x.at = "detect" /\ run' = [run EXCEPT ![r] = [x EXCEPT !.type = type, !.at = at]]
    BY <1>1 DEF DetectType
  <1>4. type \in Format \cup {"unknown"}
    BY <1>1, <1>2, <1>3, DetectedType DEF Placed
  <1>5. at \in At
    BY DEF At
  <1> HIDE DEF type, at
  <1>6. [x EXCEPT !.type = type, !.at = at]
          = SetEarly(x, at, x.module, type)
    BY <1>1 DEF RunType, SetEarly
  <1>7. EarlyEffect(r, at, x.module, type)
    BY <1>2, <1>3, <1>4, <1>5, <1>6, EarlyStep
  <1>. QED  BY <1>3, <1>4, <1>7 DEF type, at

\* A step of the loop changes these.
SetWork(x, at, next, processed, merged, stats) ==
  [x EXCEPT !.at = at, !.next = next, !.processed = processed, !.merged = merged, !.stats = stats]

LEMMA LoopFields ==
  ASSUME NEW x \in RunType, NEW at \in At, NEW next \in Nat, NEW processed \in Seq(Event),
         NEW merged \in SUBSET Ioc, NEW stats \in StatsType,
         NEW y, y = SetWork(x, at, next, processed, merged, stats)
  PROVE  /\ y \in RunType /\ SameLog(x, y)
         /\ y.at = at /\ y.next = next /\ y.processed = processed /\ y.merged = merged
         /\ y.stats = stats /\ y.module = x.module /\ y.type = x.type
  <1>1. /\ y.at = at /\ y.next = next /\ y.processed = processed /\ y.merged = merged
        /\ y.stats = stats /\ y.module = x.module /\ y.type = x.type /\ SameLog(x, y)
    BY DEF RunType, SameLog, SetWork
  <1>2. y = [at |-> at, text |-> x.text, force |-> x.force, module |-> x.module,
             type |-> x.type, next |-> next, processed |-> processed,
             merged |-> merged, stats |-> stats]
    BY DEF RunType, SetWork
  <1>3. y \in RunType
    <2>1. /\ x.text \in Text \cup {<<>>} /\ x.force \in Forced \cup {"none"}
          /\ x.module \in Nat /\ x.type \in Format \cup {"unknown"}
      BY Rebuild
    <2>2. [at |-> at, text |-> x.text, force |-> x.force, module |-> x.module,
           type |-> x.type, next |-> next, processed |-> processed,
           merged |-> merged, stats |-> stats] \in RunType
      BY <2>1, Fields
    <2>. QED  BY <1>2, <2>2
  <1>. QED  BY <1>1, <1>3

LoopEffect(r, at, next, processed, merged, stats) ==
  \E y \in RunType :
    /\ OnlyRun(r, y) /\ SameLog(run[r], y)
    /\ y.at = at /\ y.next = next /\ y.processed = processed /\ y.merged = merged
    /\ y.stats = stats /\ y.module = run[r].module /\ y.type = run[r].type

LEMMA LoopStep ==
  ASSUME Typed, NEW r \in Run, NEW at \in At, NEW next \in Nat, NEW processed \in Seq(Event),
         NEW merged \in SUBSET Ioc, NEW stats \in StatsType,
         run' = [run EXCEPT ![r] = SetWork(run[r], at, next, processed, merged, stats)]
  PROVE  LoopEffect(r, at, next, processed, merged, stats)
  <1> DEFINE y == SetWork(run[r], at, next, processed, merged, stats)
  <1>1. run \in [Run -> RunType] /\ run[r] \in RunType
    BY DEF Typed
  <1>2. run' = [run EXCEPT ![r] = y]
    OBVIOUS
  <1>3. /\ y \in RunType /\ SameLog(run[r], y)
        /\ y.at = at /\ y.next = next /\ y.processed = processed /\ y.merged = merged
        /\ y.stats = stats /\ y.module = run[r].module /\ y.type = run[r].type
    BY <1>1, LoopFields
  <1> HIDE DEF y
  <1>4. OnlyRun(r, y)
    BY <1>1, <1>2, OnlyRunIntro
  <1>. QED  BY <1>3, <1>4 DEF LoopEffect

\* The counters after a line that failed, and at the end.
CountFailed(s) == [s EXCEPT !.failed = @ + 1]
CountUnique(s, merged) == [s EXCEPT !.unique = Cardinality(merged)]

LEMMA CountFailedType ==
  ASSUME NEW s \in StatsType, NEW t, t = CountFailed(s)
  PROVE  /\ t \in StatsType
         /\ t.parsed = s.parsed /\ t.threats = s.threats /\ t.unique = s.unique
         /\ t.severity = s.severity
  BY DEF CountFailed, StatsType

LEMMA UpdateStatsType ==
  ASSUME NEW s \in StatsType, NEW score \in 1 .. 10
  PROVE  /\ UpdateStats(s, score) \in StatsType
         /\ UpdateStats(s, score).parsed = s.parsed + 1
         /\ IsThreat(score) => UpdateStats(s, score).threats = s.threats + 1
         /\ ~IsThreat(score) => UpdateStats(s, score).threats = s.threats
         /\ UpdateStats(s, score).severity[FromScore(score)] = s.severity[FromScore(score)] + 1
         /\ \A v \in SeverityLevel \ {FromScore(score)} :
              UpdateStats(s, score).severity[v] = s.severity[v]
  <1>0. PICK t : t = UpdateStats(s, score)
    OBVIOUS
  <1>1. FromScore(score) \in SeverityLevel
    BY FromScoreType
  <1>2. PICK f \in SeverityLevel : f = FromScore(score)
    BY <1>1
  <1>3. /\ s.parsed \in Nat /\ s.failed \in Nat /\ s.threats \in Nat /\ s.unique \in Nat
        /\ s.severity \in [SeverityLevel -> Nat]
    BY DEF StatsType
  <1>4. /\ t.parsed = s.parsed + 1 /\ t.failed = s.failed /\ t.unique = s.unique
        /\ t.threats = IF IsThreat(score) THEN s.threats + 1 ELSE s.threats
        /\ t.severity = [s.severity EXCEPT ![f] = @ + 1]
    BY <1>0, <1>2 DEF UpdateStats, StatsType
  <1>5. t = [parsed |-> t.parsed, failed |-> t.failed, threats |-> t.threats,
             unique |-> t.unique, severity |-> t.severity]
    BY <1>0 DEF UpdateStats, StatsType
  <1>6. t.severity \in [SeverityLevel -> Nat]
    BY <1>3, <1>4
  <1>7. t.parsed \in Nat /\ t.threats \in Nat
    BY <1>3, <1>4
  <1>8. t \in StatsType
    BY <1>3, <1>4, <1>5, <1>6, <1>7 DEF StatsType
  <1>. QED  BY <1>0, <1>2, <1>3, <1>4, <1>8

LEMMA CountUniqueType ==
  ASSUME NEW s \in StatsType, NEW merged, IsFiniteSet(merged), NEW t, t = CountUnique(s, merged)
  PROVE  /\ t \in StatsType
         /\ t.parsed = s.parsed /\ t.threats = s.threats /\ t.unique = Cardinality(merged)
         /\ t.severity = s.severity
  <1>1. Cardinality(merged) \in Nat
    BY FS_CardinalityType
  <1>. QED  BY <1>1 DEF CountUnique, StatsType

\* The line a run is at.
LEMMA CurrentLine ==
  ASSUME Typed, NEW r \in Run, AtLine(r)
  PROVE  /\ run[r] \in RunType /\ run \in [Run -> RunType] /\ Placed(run[r])
         /\ run[r].next \in 1 .. Len(run[r].text) /\ run[r].at = "parse"
         /\ run[r].next + 1 \in Nat
         /\ Current(r) \in NormalizedEvent \cup {NoEvent}
         /\ run[r].text \in Seq(Line) /\ run[r].processed \in Seq(Event)
         /\ run[r].merged \in SUBSET Ioc /\ run[r].stats \in StatsType
  <1>1. run[r] \in RunType /\ run \in [Run -> RunType] /\ Placed(run[r])
    BY DEF Typed
  <1>2. /\ run[r].text \in Seq(Line) /\ run[r].processed \in Seq(Event) /\ run[r].next \in Nat
        /\ run[r].merged \in SUBSET Ioc /\ run[r].stats \in StatsType
    BY <1>1, Rebuild
  <1>3. run[r].next \in 1 .. Len(run[r].text) /\ run[r].at = "parse"
    BY <1>1, <1>2 DEF Placed, AtLine
  <1>4. Current(r) \in NormalizedEvent \cup {NoEvent}
    <2>1. run[r].text[run[r].next] \in Line /\ run[r].type \in Format \cup {"unknown"}
      BY <1>1, <1>2, <1>3, Rebuild
    <2>2. Current(r) = EventAt(run[r], run[r].next)
      BY DEF Current
    <2>. QED  BY <2>1, <2>2, LineEvent DEF EventAt
  <1>. QED  BY <1>1, <1>2, <1>3, <1>4

LEMMA SkipLineEffect ==
  ASSUME Typed, NEW r \in Run, SkipLine(r)
  PROVE  LoopEffect(r, "parse", run[r].next + 1, run[r].processed, run[r].merged, run[r].stats)
  <1> DEFINE x == run[r]
  <1>1. AtLine(r)
    BY DEF SkipLine
  <1>2. run' = [run EXCEPT ![r] = [x EXCEPT !.next = x.next + 1]]
    BY <1>1, CurrentLine DEF SkipLine
  <1>3. [x EXCEPT !.next = x.next + 1]
          = SetWork(x, "parse", x.next + 1, x.processed, x.merged, x.stats)
    BY <1>1, CurrentLine DEF RunType, SetWork
  <1>. QED  BY <1>1, <1>2, <1>3, CurrentLine, LoopStep DEF At

LEMMA ExtractFailsEffect ==
  ASSUME Typed, NEW r \in Run, ExtractFails(r)
  PROVE  LoopEffect(r, "parse", run[r].next + 1, run[r].processed, run[r].merged,
                    CountFailed(run[r].stats))
  <1> DEFINE x == run[r]
             y == [x EXCEPT !.next = x.next + 1, !.stats = CountFailed(x.stats)]
  <1>1. AtLine(r)
    BY DEF ExtractFails, AtEvent
  <1>2. CountFailed(x.stats) \in StatsType
    BY <1>1, CurrentLine, CountFailedType
  <1>3. run' = [run EXCEPT ![r] = y]
    BY <1>1, CurrentLine DEF ExtractFails, CountFailed, RunType
  <1>4. y = SetWork(x, "parse", x.next + 1, x.processed, x.merged, CountFailed(x.stats))
    BY <1>1, CurrentLine DEF RunType, SetWork
  <1>. QED  BY <1>1, <1>2, <1>3, <1>4, CurrentLine, LoopStep DEF At

LEMMA ClassifyFailsEffect ==
  ASSUME Typed, NEW r \in Run, ClassifyFails(r)
  PROVE  LoopEffect(r, "parse", run[r].next + 1, run[r].processed,
                    Merge(run[r].merged, Current(r)), CountFailed(run[r].stats))
  <1> DEFINE x == run[r]
             merged == Merge(x.merged, Current(r))
             y == [x EXCEPT !.next = x.next + 1, !.merged = merged, !.stats = CountFailed(x.stats)]
  <1>1. AtLine(r) /\ Current(r) # NoEvent
    BY DEF ClassifyFails, AtEvent
  <1>2. CountFailed(x.stats) \in StatsType /\ merged \in SUBSET Ioc
    BY <1>1, CurrentLine, CountFailedType, MergeType DEF Placed
  <1>3. run' = [run EXCEPT ![r] = y]
    BY <1>1, CurrentLine DEF ClassifyFails, CountFailed, RunType
  <1>4. y = SetWork(x, "parse", x.next + 1, x.processed, merged, CountFailed(x.stats))
    BY <1>1, CurrentLine DEF RunType, SetWork
  <1>. QED  BY <1>1, <1>2, <1>3, <1>4, CurrentLine, LoopStep DEF At

EventOf(r) == [line |-> run[r].next, score |-> SeverityScore(Current(r))]

LEMMA ProcessOneEventEffect ==
  ASSUME Typed, NEW r \in Run, ProcessOneEvent(r)
  PROVE  /\ EventOf(r) \in Event
         /\ LoopEffect(r, "parse", run[r].next + 1, Append(run[r].processed, EventOf(r)),
                       Merge(run[r].merged, Current(r)),
                       UpdateStats(run[r].stats, SeverityScore(Current(r))))
  <1> DEFINE x == run[r]
             score == SeverityScore(Current(r))
             merged == Merge(x.merged, Current(r))
             processed == Append(x.processed, EventOf(r))
             stats == UpdateStats(x.stats, score)
             y == [x EXCEPT !.next = x.next + 1, !.processed = processed, !.merged = merged,
                            !.stats = stats]
  <1>1. AtLine(r) /\ Current(r) # NoEvent
    BY DEF ProcessOneEvent, AtEvent
  <1>2. score \in 1 .. 10
    BY <1>1, CurrentLine, ScoreType
  <1>3. EventOf(r) \in Event /\ processed \in Seq(Event)
    BY <1>1, <1>2, CurrentLine DEF EventOf, Event
  <1>4. stats \in StatsType /\ merged \in SUBSET Ioc
    BY <1>1, <1>2, CurrentLine, UpdateStatsType, MergeType DEF Placed
  <1>5. run' = [run EXCEPT ![r] = y]
    BY <1>1, CurrentLine DEF ProcessOneEvent, RunType, EventOf
  <1>6. y = SetWork(x, "parse", x.next + 1, processed, merged, stats)
    BY <1>1, CurrentLine DEF RunType, SetWork
  <1> HIDE DEF processed, merged, stats, score, y
  <1>7. LoopEffect(r, "parse", x.next + 1, processed, merged, stats)
    BY <1>1, <1>3, <1>4, <1>5, <1>6, CurrentLine, LoopStep DEF At
  <1>. QED  BY <1>3, <1>7 DEF processed, merged, stats, score

LEMMA FinishEffect ==
  ASSUME Typed, NEW r \in Run, Finish(r)
  PROVE  /\ run[r].at = "parse"
         /\ LoopEffect(r, "done", run[r].next, run[r].processed, run[r].merged,
                       CountUnique(run[r].stats, run[r].merged))
  <1> DEFINE x == run[r]
             stats == CountUnique(x.stats, x.merged)
             y == [x EXCEPT !.at = "done", !.stats = stats]
  <1>1. x \in RunType /\ run \in [Run -> RunType] /\ Placed(x)
    BY DEF Typed
  <1>2. /\ x.next \in Nat /\ x.processed \in Seq(Event) /\ x.merged \in SUBSET Ioc
        /\ x.stats \in StatsType
    BY <1>1, Rebuild
  <1>3. stats \in StatsType
    BY <1>1, <1>2, CountUniqueType DEF Placed
  <1>4. run' = [run EXCEPT ![r] = y] /\ x.at = "parse"
    BY <1>1 DEF Finish, CountUnique, RunType
  <1>5. y = SetWork(x, "done", x.next, x.processed, x.merged, stats)
    BY <1>1 DEF RunType, SetWork
  <1>. QED  BY <1>2, <1>3, <1>4, <1>5, LoopStep DEF At

LEMMA StartEffect ==
  ASSUME Typed, NEW r \in Run, Start(r)
  PROVE  \E y \in RunType :
           /\ OnlyRun(r, y) /\ Placed(y)
           /\ y.at = IF loaded THEN "detect" ELSE "import"
           /\ y.module = 1
  <1> DEFINE at == IF loaded THEN "detect" ELSE "import"
  <1>1. PICK t \in Text, f \in Forced : run' = [run EXCEPT ![r] = Started(at, t, f)]
    BY DEF Start, Started
  <1>2. at \in At \cap Early
    BY DEF At, Early
  <1>3. PICK y : y = Started(at, t, f)
    OBVIOUS
  <1> HIDE DEF at
  <1>4. y \in RunType /\ Placed(y) /\ y.at = at /\ y.module = 1
    BY <1>2, <1>3, NoRunType
  <1>5. OnlyRun(r, y)
    BY <1>1, <1>3, OnlyRunIntro DEF Typed
  <1>. QED  BY <1>4, <1>5 DEF at

-----------------------------------------------------------------------------
(* TypeOK *)

LEMMA TypedInit == Init => Typed
  <1> SUFFICES ASSUME Init PROVE Typed
    OBVIOUS
  <1> DEFINE x == Started("idle", <<>>, "none")
  <1>1. "idle" \in At \cap Early
    BY DEF At, Early
  <1>2. PICK y : y = x
    OBVIOUS
  <1>3. y \in RunType /\ Placed(y)
    BY <1>1, <1>2, NoRunType
  <1>4. y = NoRun
    BY <1>2 DEF NoRun, Started
  <1>5. run = [r \in Run |-> y]
    BY <1>4 DEF Init
  <1>. QED  BY <1>3, <1>5 DEF Typed, Init

\* The shape is kept when the new record of the run has it.
LEMMA TypedKept ==
  ASSUME Typed, NEW r \in Run, NEW y \in RunType, OnlyRun(r, y), Placed(y),
         registry' \subseteq Format, loaded' \in BOOLEAN
  PROVE  Typed'
  <1>1. run' \in [Run -> RunType]
    BY DEF Typed, OnlyRun
  <1>2. \A s \in Run : Placed(run'[s])
    BY DEF Typed, OnlyRun
  <1>3. \A s \in Run : Placed(run[s])'
    BY <1>2 DEF Placed
  <1>. QED  BY <1>1, <1>3 DEF Typed

\* A step before the loop keeps the place of the run.
LEMMA EarlyPlaced ==
  ASSUME NEW x \in RunType, Placed(x), NEW y \in RunType, SameLog(x, y), SameWork(x, y),
         x.at \in Early, x.at # "idle", y.module \in 1 .. Len(ModuleOrder) + 1
  PROVE  Placed(y)
  <1>1. \A i \in DOMAIN y.processed : y.processed[i].line \in 1 .. y.next - 1
    BY DEF Placed, SameWork
  <1>. QED  BY <1>1 DEF Placed, SameLog, SameWork, Early

\* So does a step of the loop, when the line it is at is not beyond the end.
LEMMA LoopPlaced ==
  ASSUME NEW x \in RunType, Placed(x), x.at = "parse", NEW y \in RunType, SameLog(x, y),
         y.at \in {"parse", "done"}, y.module = x.module, IsFiniteSet(y.merged),
         y.next \in {x.next, x.next + 1}, y.next \in 1 .. Len(x.text) + 1,
         y.processed = x.processed
  PROVE  Placed(y)
  <1>1. x.next \in Nat /\ x.processed \in Seq(Event)
    BY Rebuild
  <1>2. \A i \in DOMAIN x.processed : x.processed[i].line \in 1 .. x.next - 1
    BY DEF Placed
  <1>3. \A i \in DOMAIN y.processed : y.processed[i].line \in 1 .. y.next - 1
    BY <1>1, <1>2
  <1>. QED  BY <1>3 DEF Placed, SameLog, Early

LEMMA AppendPlaced ==
  ASSUME NEW x \in RunType, Placed(x), x.at = "parse", NEW y \in RunType, SameLog(x, y),
         y.at = "parse", y.module = x.module, IsFiniteSet(y.merged),
         y.next = x.next + 1, x.next \in 1 .. Len(x.text), Len(x.processed) < MaxEvents,
         NEW e \in Event, e.line = x.next, y.processed = Append(x.processed, e)
  PROVE  Placed(y)
  <1>1. x.next \in Nat /\ x.processed \in Seq(Event) /\ x.text \in Seq(Line)
    BY Rebuild
  <1>2. \A i \in DOMAIN x.processed : x.processed[i].line \in 1 .. x.next - 1
    BY DEF Placed
  <1>3. Len(y.processed) = Len(x.processed) + 1 /\ Len(y.processed) <= MaxEvents
    BY <1>1, Constants
  <1>4. \A i \in DOMAIN y.processed : y.processed[i].line \in 1 .. y.next - 1
    <2> SUFFICES ASSUME NEW i \in DOMAIN y.processed
                 PROVE  y.processed[i].line \in 1 .. y.next - 1
      OBVIOUS
    <2>1. i \in 1 .. Len(x.processed) \/ i = Len(x.processed) + 1
      BY <1>1, <1>3
    <2>2. CASE i \in 1 .. Len(x.processed)
      <3>1. y.processed[i] = x.processed[i] /\ i \in DOMAIN x.processed
        BY <1>1, <2>2
      <3>. QED  BY <1>1, <1>2, <3>1
    <2>3. CASE i = Len(x.processed) + 1
      <3>1. y.processed[i] = e
        BY <1>1, <2>3
      <3>. QED  BY <1>1, <3>1
    <2>. QED  BY <2>1, <2>2, <2>3
  <1>5. y.next \in 1 .. Len(y.text) + 1
    BY <1>1 DEF SameLog
  <1>. QED  BY <1>3, <1>4, <1>5 DEF Placed, SameLog, Early

LEMMA TypedStep == Typed /\ [Next]_vars => Typed'
  <1> SUFFICES ASSUME Typed, [Next]_vars PROVE Typed'
    OBVIOUS
  <1>1. CASE UNCHANGED vars
    BY <1>1 DEF Typed, Placed, vars
  <1>2. ASSUME NEW r \in Run, Start(r) PROVE Typed'
    BY <1>2, StartEffect, TypedKept DEF Start, Typed
  <1>3. ASSUME NEW r \in Run, ImportParser(r) PROVE Typed'
    <2>1. /\ run[r] \in RunType /\ Placed(run[r]) /\ run[r].module \in Nat
          /\ ModuleOrder \in Seq(Format)
      BY Rebuild, Constants DEF Typed
    <2>2. run[r].module + 1 \in 1 .. Len(ModuleOrder) + 1
      BY <1>3, <2>1 DEF ImportParser
    <2>3. registry' \subseteq Format /\ loaded' \in BOOLEAN
      BY <1>3, <2>1 DEF ImportParser, Typed
    <2>4. PICK y \in RunType : /\ OnlyRun(r, y) /\ SameLog(run[r], y) /\ SameWork(run[r], y)
                               /\ y.module = run[r].module + 1 /\ run[r].at = "import"
      BY <1>3, ImportParserEffect DEF EarlyEffect
    <2>5. Placed(y)
      BY <2>1, <2>2, <2>4, EarlyPlaced DEF Early
    <2>. QED  BY <2>3, <2>4, <2>5, TypedKept
  <1>4. ASSUME NEW r \in Run, ImportFails(r) PROVE Typed'
    <2>1. PICK y \in RunType : /\ OnlyRun(r, y) /\ SameLog(run[r], y) /\ SameWork(run[r], y)
                               /\ y.module = run[r].module /\ run[r].at = "import"
      BY <1>4, ImportFailsEffect DEF EarlyEffect
    <2>2. Placed(y)
      BY <2>1, EarlyPlaced DEF Early, Typed, Placed
    <2>. QED  BY <1>4, <2>1, <2>2, TypedKept DEF ImportFails, Typed
  <1>5. ASSUME NEW r \in Run, ParsersLoaded(r) PROVE Typed'
    <2>1. PICK y \in RunType : /\ OnlyRun(r, y) /\ SameLog(run[r], y) /\ SameWork(run[r], y)
                               /\ y.module = run[r].module /\ run[r].at = "import"
      BY <1>5, ParsersLoadedEffect DEF EarlyEffect
    <2>2. Placed(y)
      BY <2>1, EarlyPlaced DEF Early, Typed, Placed
    <2>. QED  BY <1>5, <2>1, <2>2, TypedKept DEF ParsersLoaded, Typed
  <1>6. ASSUME NEW r \in Run, DetectType(r) PROVE Typed'
    <2>1. PICK y \in RunType : /\ OnlyRun(r, y) /\ SameLog(run[r], y) /\ SameWork(run[r], y)
                               /\ y.module = run[r].module /\ run[r].at = "detect"
      BY <1>6, DetectTypeEffect DEF EarlyEffect
    <2>2. Placed(y)
      BY <2>1, EarlyPlaced DEF Early, Typed, Placed
    <2>. QED  BY <1>6, <2>1, <2>2, TypedKept DEF DetectType, Typed
  <1>7. ASSUME NEW r \in Run, SkipLine(r) PROVE Typed'
    <2>1. AtLine(r)
      BY <1>7 DEF SkipLine
    <2>2. PICK y \in RunType : /\ OnlyRun(r, y) /\ SameLog(run[r], y) /\ y.at = "parse"
                               /\ y.next = run[r].next + 1 /\ y.processed = run[r].processed
                               /\ y.merged = run[r].merged /\ y.module = run[r].module
      BY <1>7, SkipLineEffect DEF LoopEffect
    <2>3. y.next \in 1 .. Len(run[r].text) + 1 /\ IsFiniteSet(y.merged)
      BY <2>1, <2>2, CurrentLine DEF Placed
    <2>4. Placed(y)
      BY <2>1, <2>2, <2>3, LoopPlaced, CurrentLine
    <2>. QED  BY <1>7, <2>2, <2>4, TypedKept DEF SkipLine, Typed
  <1>8. ASSUME NEW r \in Run, ExtractFails(r) PROVE Typed'
    <2>1. AtLine(r)
      BY <1>8 DEF ExtractFails, AtEvent
    <2>2. PICK y \in RunType : /\ OnlyRun(r, y) /\ SameLog(run[r], y) /\ y.at = "parse"
                               /\ y.next = run[r].next + 1 /\ y.processed = run[r].processed
                               /\ y.merged = run[r].merged /\ y.module = run[r].module
      BY <1>8, ExtractFailsEffect DEF LoopEffect
    <2>3. y.next \in 1 .. Len(run[r].text) + 1 /\ IsFiniteSet(y.merged)
      BY <2>1, <2>2, CurrentLine DEF Placed
    <2>4. Placed(y)
      BY <2>1, <2>2, <2>3, LoopPlaced, CurrentLine
    <2>. QED  BY <1>8, <2>2, <2>4, TypedKept DEF ExtractFails, Typed
  <1>9. ASSUME NEW r \in Run, ClassifyFails(r) PROVE Typed'
    <2>1. AtLine(r) /\ Current(r) # NoEvent
      BY <1>9 DEF ClassifyFails, AtEvent
    <2>2. PICK y \in RunType : /\ OnlyRun(r, y) /\ SameLog(run[r], y) /\ y.at = "parse"
                               /\ y.next = run[r].next + 1 /\ y.processed = run[r].processed
                               /\ y.merged = Merge(run[r].merged, Current(r))
                               /\ y.module = run[r].module
      BY <1>9, ClassifyFailsEffect DEF LoopEffect
    <2>3. y.next \in 1 .. Len(run[r].text) + 1 /\ IsFiniteSet(y.merged)
      BY <2>1, <2>2, CurrentLine, MergeType DEF Placed
    <2>4. Placed(y)
      BY <2>1, <2>2, <2>3, LoopPlaced, CurrentLine
    <2>. QED  BY <1>9, <2>2, <2>4, TypedKept DEF ClassifyFails, Typed
  <1>10. ASSUME NEW r \in Run, ProcessOneEvent(r) PROVE Typed'
    <2>1. AtLine(r) /\ ~Full(r) /\ Current(r) # NoEvent
      BY <1>10 DEF ProcessOneEvent, AtEvent
    <2>2. PICK y \in RunType : /\ OnlyRun(r, y) /\ SameLog(run[r], y) /\ y.at = "parse"
                               /\ y.next = run[r].next + 1
                               /\ y.processed = Append(run[r].processed, EventOf(r))
                               /\ y.merged = Merge(run[r].merged, Current(r))
                               /\ y.module = run[r].module
      BY <1>10, ProcessOneEventEffect DEF LoopEffect
    <2>3. /\ EventOf(r) \in Event /\ EventOf(r).line = run[r].next
          /\ Len(run[r].processed) < MaxEvents /\ IsFiniteSet(y.merged)
      BY <1>10, <2>1, <2>2, ProcessOneEventEffect, CurrentLine, MergeType, Constants
         DEF EventOf, Full, Placed
    <2>4. Placed(y)
      BY <2>1, <2>2, <2>3, AppendPlaced, CurrentLine
    <2>. QED  BY <1>10, <2>2, <2>4, TypedKept DEF ProcessOneEvent, Typed
  <1>11. ASSUME NEW r \in Run, Finish(r) PROVE Typed'
    <2>1. PICK y \in RunType : /\ OnlyRun(r, y) /\ SameLog(run[r], y) /\ y.at = "done"
                               /\ y.next = run[r].next /\ y.processed = run[r].processed
                               /\ y.merged = run[r].merged /\ y.module = run[r].module
                               /\ run[r].at = "parse"
      BY <1>11, FinishEffect DEF LoopEffect
    <2>2. /\ run[r] \in RunType /\ Placed(run[r]) /\ run[r].next \in 1 .. Len(run[r].text) + 1
          /\ IsFiniteSet(y.merged)
      BY <2>1 DEF Placed, Typed
    <2>3. Placed(y)
      BY <2>1, <2>2, LoopPlaced
    <2>. QED  BY <1>11, <2>1, <2>3, TypedKept DEF Finish, Typed
  <1>. QED  BY <1>1, <1>2, <1>3, <1>4, <1>5, <1>6, <1>7, <1>8, <1>9, <1>10, <1>11 DEF Next

LEMMA TypedInvariant == Spec => []Typed
  <1>. QED  BY TypedInit, TypedStep, PTL DEF Spec

\* The events of a run are of lines of its log.
LEMMA LinesType ==
  ASSUME NEW x \in RunType, Placed(x)
  PROVE  x.processed \in Seq([line : 1 .. Len(x.text), score : 1 .. 10])
  <1>1. x.processed \in Seq(Event) /\ x.text \in Seq(Line) /\ x.next \in Nat
    BY Rebuild
  <1>2. Len(x.text) \in Nat
    BY <1>1
  <1>3. PICK n \in Nat : n = Len(x.text)
    BY <1>2
  <1>4. x.next <= n + 1
    BY <1>3 DEF Placed
  <1> DEFINE E == [line : 1 .. n, score : 1 .. 10]
  <1>5. ASSUME NEW i \in DOMAIN x.processed PROVE x.processed[i] \in E
    <2>1. x.processed[i] \in Event
      BY <1>1
    <2>2. x.processed[i].line \in 1 .. x.next - 1
      BY DEF Placed
    <2>3. x.processed[i].line \in 1 .. n
      BY <1>1, <1>4, <2>2
    <2>. QED  BY <2>1, <2>3 DEF Event
  <1>6. x.processed \in Seq(E)
    <2> HIDE DEF E
    <2>. QED  BY <1>1, <1>5
  <1>. QED  BY <1>3, <1>6

\* Every variable keeps its type, and no result is longer than MAX_EVENTS_PER_RUN.
THEOREM TypeCorrect == Spec => []TypeOK
  <1>1. Typed => TypeOK
    <2> SUFFICES ASSUME Typed PROVE TypeOK
      OBVIOUS
    <2>1. ASSUME NEW r \in Run
          PROVE  run[r].processed \in Seq([line : 1 .. Len(run[r].text), score : 1 .. 10])
      BY LinesType DEF Typed
    <2>2. ASSUME NEW r \in Run
          PROVE  /\ run[r].at \in {"idle", "import", "detect", "parse", "done", "raised"}
                 /\ run[r].text \in Text \cup {<<>>} /\ run[r].force \in Forced \cup {"none"}
                 /\ run[r].module \in 1 .. Len(ModuleOrder) + 1
                 /\ run[r].type \in Format \cup {"unknown"}
                 /\ run[r].next \in 1 .. Len(run[r].text) + 1
                 /\ Len(run[r].processed) <= MaxEvents
                 /\ run[r].merged \subseteq Ioc
                 /\ run[r].stats \in StatsType
      BY Rebuild DEF Typed, Placed, At
    <2>. QED  BY <2>1, <2>2 DEF TypeOK, Typed, StatsType
  <1>. QED  BY <1>1, TypedInvariant, PTL

-----------------------------------------------------------------------------
(* ParsersComplete *)

\* What a run knows of the registry: while it imports, that the modules it has passed
\* have registered their parsers; after that, as from the flag, that all have.
Knows(x) ==
  /\ x.at = "import" => \A i \in DOMAIN ModuleOrder : i < x.module => ModuleOrder[i] \in registry
  /\ x.at \in {"detect", "parse", "done"} => registry = Format

Registered ==
  /\ loaded => registry = Format
  /\ \A r \in Run : Knows(run[r])

\* A parser is never taken out of the registry.
LEMMA RegistryGrows ==
  ASSUME Typed, [Next]_vars
  PROVE  registry \subseteq registry' /\ registry' \subseteq Format
  <1>1. registry' \subseteq Format
    BY TypedStep DEF Typed
  <1>2. registry \subseteq registry'
    BY DEF Next, vars, Start, ImportParser, ImportFails, ParsersLoaded, DetectType, SkipLine,
           ExtractFails, ClassifyFails, ProcessOneEvent, Finish
  <1>. QED  BY <1>1, <1>2

LEMMA RegisteredKept ==
  ASSUME Typed, [Next]_vars, Registered, NEW r \in Run, NEW y, OnlyRun(r, y),
         y.at = "import" => \A i \in DOMAIN ModuleOrder : i < y.module => ModuleOrder[i] \in registry',
         y.at \in {"detect", "parse", "done"} => registry = Format,
         loaded' => registry = Format
  PROVE  Registered'
  <1>1. registry \subseteq registry' /\ registry' \subseteq Format
    BY RegistryGrows
  <1>2. loaded' => registry' = Format
    BY <1>1
  <1>3. Knows(run[r])'
    BY <1>1 DEF Knows, OnlyRun
  <1>4. ASSUME NEW s \in Run \ {r} PROVE Knows(run[s])'
    BY <1>1 DEF Knows, OnlyRun, Registered
  <1>. QED  BY <1>2, <1>3, <1>4 DEF Registered

LEMMA RegisteredInit == Init => Registered
  BY DEF Init, Registered, Knows, NoRun

LEMMA RegisteredStep == Typed /\ Registered /\ [Next]_vars => Registered'
  <1> SUFFICES ASSUME Typed, Registered, [Next]_vars PROVE Registered'
    OBVIOUS
  <1>1. CASE UNCHANGED vars
    BY <1>1 DEF Registered, Knows, vars
  <1>2. ASSUME NEW r \in Run, Start(r) PROVE Registered'
    <2>1. PICK y \in RunType : /\ OnlyRun(r, y) /\ y.module = 1
                               /\ y.at = IF loaded THEN "detect" ELSE "import"
      BY <1>2, StartEffect
    <2>2. \A i \in DOMAIN ModuleOrder : i >= 1
      BY Constants
    <2>3. ~ \E i \in DOMAIN ModuleOrder : i < y.module
      BY <2>1, <2>2, Constants
    <2>4. loaded' = loaded
      BY <1>2 DEF Start
    <2>. QED  BY <2>1, <2>3, <2>4, RegisteredKept DEF Registered
  <1>3. ASSUME NEW r \in Run, ImportParser(r) PROVE Registered'
    <2>1. PICK y \in RunType : /\ OnlyRun(r, y) /\ y.module = run[r].module + 1
                               /\ y.at = "import" /\ run[r].at = "import"
      BY <1>3, ImportParserEffect DEF EarlyEffect
    <2>2. registry' = registry \cup {ModuleOrder[run[r].module]} /\ loaded' = loaded
      BY <1>3 DEF ImportParser
    <2>3. run[r].module \in Nat /\ DOMAIN ModuleOrder \subseteq Nat
      BY Rebuild, Constants DEF Typed
    <2>4. ASSUME NEW i \in DOMAIN ModuleOrder, i < y.module PROVE ModuleOrder[i] \in registry'
      <3>1. i < run[r].module \/ i = run[r].module
        BY <2>1, <2>3, <2>4
      <3>. QED  BY <2>1, <2>2, <3>1 DEF Registered, Knows
    <2>. QED  BY <2>1, <2>2, <2>4, RegisteredKept DEF Registered
  <1>4. ASSUME NEW r \in Run, ImportFails(r) PROVE Registered'
    <2>1. PICK y \in RunType : OnlyRun(r, y) /\ y.at = "raised"
      BY <1>4, ImportFailsEffect DEF EarlyEffect
    <2>2. loaded' = loaded
      BY <1>4 DEF ImportFails
    <2>. QED  BY <2>1, <2>2, RegisteredKept DEF Registered
  <1>5. ASSUME NEW r \in Run, ParsersLoaded(r) PROVE Registered'
    <2>1. PICK y \in RunType : OnlyRun(r, y) /\ y.at = "detect" /\ run[r].at = "import"
      BY <1>5, ParsersLoadedEffect DEF EarlyEffect
    <2>2. run[r].module \in 1 .. Len(ModuleOrder) + 1 /\ run[r].module \notin DOMAIN ModuleOrder
      BY <1>5 DEF ParsersLoaded, Typed, Placed
    <2>3. \A i \in DOMAIN ModuleOrder : i < run[r].module
      BY <2>2, Constants
    <2>4. \A i \in DOMAIN ModuleOrder : ModuleOrder[i] \in registry
      BY <2>1, <2>3 DEF Registered, Knows
    <2>5. registry = Format
      BY <2>4, Constants DEF Typed
    <2>. QED  BY <2>1, <2>5, RegisteredKept
  <1>6. ASSUME NEW r \in Run, DetectType(r) PROVE Registered'
    <2>1. PICK y \in RunType : OnlyRun(r, y) /\ y.at \in {"parse", "done"} /\ run[r].at = "detect"
      BY <1>6, DetectTypeEffect DEF EarlyEffect
    <2>2. loaded' = loaded /\ registry = Format
      BY <1>6, <2>1 DEF DetectType, Registered, Knows
    <2>. QED  BY <2>1, <2>2, RegisteredKept
  <1>7. ASSUME NEW r \in Run,
               SkipLine(r) \/ ExtractFails(r) \/ ClassifyFails(r) \/ ProcessOneEvent(r) \/ Finish(r)
        PROVE  Registered'
    <2>1. PICK y \in RunType : OnlyRun(r, y) /\ y.at \in {"parse", "done"}
      BY <1>7, SkipLineEffect, ExtractFailsEffect, ClassifyFailsEffect, ProcessOneEventEffect,
         FinishEffect DEF LoopEffect
    <2>2. loaded' = loaded /\ registry = Format
      BY <1>7 DEF SkipLine, ExtractFails, ClassifyFails, ProcessOneEvent, Finish, AtEvent, AtLine,
                  Registered, Knows
    <2>. QED  BY <2>1, <2>2, RegisteredKept
  <1>. QED  BY <1>1, <1>2, <1>3, <1>4, <1>5, <1>6, <1>7 DEF Next

\* However many threads are inside _ensure_parsers_loaded, and whichever of their
\* imports fail, a run that has left it finds the parser of every format.
THEOREM ParsersAreComplete == Spec => []ParsersComplete
  <1>1. Registered => ParsersComplete
    BY DEF Registered, Knows, ParsersComplete
  <1>. QED  BY <1>1, TypedInvariant, RegisteredInit, RegisteredStep, PTL DEF Spec

-----------------------------------------------------------------------------
(* What a run does, seen from its record alone *)

Here(x) == EventAt(x, x.next)
Fresh(y) == y.next = 1 /\ y.processed = <<>> /\ y.merged = {} /\ y.stats = NoStats

\* The steps up to the loop; without a parser the run is done then.
Prepares(x, y) ==
  /\ Fresh(y)
  /\ y.at = "done" => y.type \notin registry /\ x.at = "detect"

Advances(x, y) ==
  /\ x.at = "parse" /\ y.at = "parse" /\ SameLog(x, y) /\ y.type = x.type
  /\ x.next \in 1 .. Len(x.text) /\ y.next = x.next + 1

Skips(x, y) ==
  /\ Advances(x, y) /\ Here(x) = NoEvent
  /\ y.processed = x.processed /\ y.merged = x.merged /\ y.stats = x.stats

FailsToExtract(x, y) ==
  /\ Advances(x, y) /\ Here(x) # NoEvent /\ Broken[Here(x)] = "extract"
  /\ y.processed = x.processed /\ y.merged = x.merged /\ y.stats = CountFailed(x.stats)

FailsToClassify(x, y) ==
  /\ Advances(x, y) /\ Here(x) # NoEvent /\ Broken[Here(x)] = "classify"
  /\ y.processed = x.processed /\ y.merged = Merge(x.merged, Here(x))
  /\ y.stats = CountFailed(x.stats)

Processes(x, y) ==
  /\ Advances(x, y) /\ Here(x) # NoEvent /\ Broken[Here(x)] = "none"
  /\ Len(x.processed) < MaxEvents
  /\ y.processed = Append(x.processed, [line |-> x.next, score |-> SeverityScore(Here(x))])
  /\ y.merged = Merge(x.merged, Here(x))
  /\ y.stats = UpdateStats(x.stats, SeverityScore(Here(x)))

Finishes(x, y) ==
  /\ x.at = "parse" /\ y.at = "done" /\ SameLog(x, y) /\ y.type = x.type
  /\ y.next = x.next /\ y.processed = x.processed /\ y.merged = x.merged
  /\ x.next > Len(x.text) \/ Len(x.processed) >= MaxEvents
  /\ y.stats = CountUnique(x.stats, x.merged)

Moves(x, y) ==
  \/ Prepares(x, y) \/ Skips(x, y) \/ FailsToExtract(x, y) \/ FailsToClassify(x, y)
  \/ Processes(x, y) \/ Finishes(x, y)

\* What the parser made of the line of a run.
LEMMA HereType ==
  ASSUME NEW x \in RunType, NEW y, Advances(x, y)
  PROVE  Here(x) \in NormalizedEvent \cup {NoEvent}
  <1>1. x.text \in Seq(Line) /\ x.type \in Format \cup {"unknown"} /\ x.next \in 1 .. Len(x.text)
    BY Rebuild DEF Advances
  <1>2. x.text[x.next] \in Line
    BY <1>1
  <1>. QED  BY <1>1, <1>2, LineEvent DEF Here, EventAt

LEMMA MovesOnly ==
  ASSUME NEW r \in Run, NEW y, OnlyRun(r, y), Moves(run[r], y)
  PROVE  \A s \in Run : run'[s] = run[s] \/ Moves(run[s], run'[s])
  BY DEF OnlyRun

\* Every step of the system is one of these for one run, and nothing for the others.
LEMMA EveryStep ==
  ASSUME Typed, [Next]_vars
  PROVE  \A s \in Run : run'[s] = run[s] \/ Moves(run[s], run'[s])
  <1>1. CASE UNCHANGED vars
    BY <1>1 DEF vars
  <1>2. ASSUME NEW r \in Run, Start(r)
        PROVE  \A s \in Run : run'[s] = run[s] \/ Moves(run[s], run'[s])
    <2>1. PICK y \in RunType : OnlyRun(r, y) /\ Placed(y) /\ y.at \in {"detect", "import"}
      BY <1>2, StartEffect
    <2>2. Prepares(run[r], y)
      BY <2>1 DEF Prepares, Fresh, Placed, Early
    <2>. QED  BY <2>1, <2>2, MovesOnly DEF Moves
  <1>3. ASSUME NEW r \in Run, ImportParser(r) \/ ImportFails(r) \/ ParsersLoaded(r)
        PROVE  \A s \in Run : run'[s] = run[s] \/ Moves(run[s], run'[s])
    <2>1. PICK y \in RunType : OnlyRun(r, y) /\ SameWork(run[r], y) /\ run[r].at = "import"
                               /\ y.at \in {"import", "raised", "detect"}
      BY <1>3, ImportParserEffect, ImportFailsEffect, ParsersLoadedEffect DEF EarlyEffect
    <2>2. Placed(run[r])
      BY DEF Typed
    <2>3. Prepares(run[r], y)
      BY <2>1, <2>2 DEF Prepares, Fresh, Placed, Early, SameWork
    <2>. QED  BY <2>1, <2>3, MovesOnly DEF Moves
  <1>4. ASSUME NEW r \in Run, DetectType(r)
        PROVE  \A s \in Run : run'[s] = run[s] \/ Moves(run[s], run'[s])
    <2> DEFINE type == DetectWithOverride(run[r].text, run[r].force)
    <2>1. PICK y \in RunType : OnlyRun(r, y) /\ SameWork(run[r], y) /\ run[r].at = "detect"
                               /\ y.type = type /\ y.at = IF type \in registry THEN "parse" ELSE "done"
      BY <1>4, DetectTypeEffect DEF EarlyEffect
    <2>2. Placed(run[r])
      BY DEF Typed
    <2>3. Prepares(run[r], y)
      BY <2>1, <2>2 DEF Prepares, Fresh, Placed, Early, SameWork
    <2>. QED  BY <2>1, <2>3, MovesOnly DEF Moves
  <1>5. ASSUME NEW r \in Run, AtLine(r)
        PROVE  /\ run[r].next \in 1 .. Len(run[r].text) /\ run[r].at = "parse"
               /\ Current(r) = Here(run[r])
    BY <1>5, CurrentLine DEF Current, Here
  <1>6. ASSUME NEW r \in Run, SkipLine(r)
        PROVE  \A s \in Run : run'[s] = run[s] \/ Moves(run[s], run'[s])
    <2>1. AtLine(r) /\ Current(r) = NoEvent
      BY <1>6 DEF SkipLine
    <2>2. PICK y \in RunType : /\ OnlyRun(r, y) /\ SameLog(run[r], y) /\ y.at = "parse"
                               /\ y.next = run[r].next + 1 /\ y.processed = run[r].processed
                               /\ y.merged = run[r].merged /\ y.stats = run[r].stats
                               /\ y.type = run[r].type
      BY <1>6, SkipLineEffect DEF LoopEffect
    <2>3. Skips(run[r], y)
      BY <1>5, <2>1, <2>2 DEF Skips, Advances
    <2>. QED  BY <2>2, <2>3, MovesOnly DEF Moves
  <1>7. ASSUME NEW r \in Run, ExtractFails(r)
        PROVE  \A s \in Run : run'[s] = run[s] \/ Moves(run[s], run'[s])
    <2>1. AtLine(r) /\ Current(r) # NoEvent /\ Broken[Current(r)] = "extract"
      BY <1>7 DEF ExtractFails, AtEvent
    <2>2. PICK y \in RunType : /\ OnlyRun(r, y) /\ SameLog(run[r], y) /\ y.at = "parse"
                               /\ y.next = run[r].next + 1 /\ y.processed = run[r].processed
                               /\ y.merged = run[r].merged /\ y.stats = CountFailed(run[r].stats)
                               /\ y.type = run[r].type
      BY <1>7, ExtractFailsEffect DEF LoopEffect
    <2>3. FailsToExtract(run[r], y)
      BY <1>5, <2>1, <2>2 DEF FailsToExtract, Advances
    <2>. QED  BY <2>2, <2>3, MovesOnly DEF Moves
  <1>8. ASSUME NEW r \in Run, ClassifyFails(r)
        PROVE  \A s \in Run : run'[s] = run[s] \/ Moves(run[s], run'[s])
    <2>1. AtLine(r) /\ Current(r) # NoEvent /\ Broken[Current(r)] = "classify"
      BY <1>8 DEF ClassifyFails, AtEvent
    <2>2. PICK y \in RunType : /\ OnlyRun(r, y) /\ SameLog(run[r], y) /\ y.at = "parse"
                               /\ y.next = run[r].next + 1 /\ y.processed = run[r].processed
                               /\ y.merged = Merge(run[r].merged, Current(r))
                               /\ y.stats = CountFailed(run[r].stats) /\ y.type = run[r].type
      BY <1>8, ClassifyFailsEffect DEF LoopEffect
    <2>3. FailsToClassify(run[r], y)
      BY <1>5, <2>1, <2>2 DEF FailsToClassify, Advances
    <2>. QED  BY <2>2, <2>3, MovesOnly DEF Moves
  <1>9. ASSUME NEW r \in Run, ProcessOneEvent(r)
        PROVE  \A s \in Run : run'[s] = run[s] \/ Moves(run[s], run'[s])
    <2>1. AtLine(r) /\ ~Full(r) /\ Current(r) # NoEvent /\ Broken[Current(r)] = "none"
      BY <1>9 DEF ProcessOneEvent, AtEvent
    <2>2. PICK y \in RunType : /\ OnlyRun(r, y) /\ SameLog(run[r], y) /\ y.at = "parse"
                               /\ y.next = run[r].next + 1
                               /\ y.processed = Append(run[r].processed, EventOf(r))
                               /\ y.merged = Merge(run[r].merged, Current(r))
                               /\ y.stats = UpdateStats(run[r].stats, SeverityScore(Current(r)))
                               /\ y.type = run[r].type
      BY <1>9, ProcessOneEventEffect DEF LoopEffect
    <2>3. Len(run[r].processed) < MaxEvents
      BY <2>1, CurrentLine, Constants DEF Full
    <2>4. Processes(run[r], y)
      BY <1>5, <2>1, <2>2, <2>3 DEF Processes, Advances, EventOf
    <2>. QED  BY <2>2, <2>4, MovesOnly DEF Moves
  <1>10. ASSUME NEW r \in Run, Finish(r)
         PROVE  \A s \in Run : run'[s] = run[s] \/ Moves(run[s], run'[s])
    <2>1. PICK y \in RunType : /\ OnlyRun(r, y) /\ SameLog(run[r], y) /\ y.at = "done"
                               /\ y.next = run[r].next /\ y.processed = run[r].processed
                               /\ y.merged = run[r].merged /\ run[r].at = "parse"
                               /\ y.stats = CountUnique(run[r].stats, run[r].merged)
                               /\ y.type = run[r].type
      BY <1>10, FinishEffect DEF LoopEffect
    <2>2. run[r].next > Len(run[r].text) \/ Len(run[r].processed) >= MaxEvents
      BY <1>10 DEF Finish, Full
    <2>3. Finishes(run[r], y)
      BY <2>1, <2>2 DEF Finishes
    <2>. QED  BY <2>1, <2>3, MovesOnly DEF Moves
  <1>. QED  BY <1>1, <1>2, <1>3, <1>4, <1>6, <1>7, <1>8, <1>9, <1>10 DEF Next

-----------------------------------------------------------------------------
(* StatsDescribeResult *)

\* The positions of a result whose severity is in V, and the result one event longer.
RatedIn(p, V) == {i \in DOMAIN p : FromScore(p[i].score) \in V}

LEMMA RatedAppend ==
  ASSUME NEW p \in Seq(Event), NEW e \in Event, NEW V
  PROVE  /\ IsFiniteSet(RatedIn(p, V)) /\ Cardinality(RatedIn(p, V)) \in Nat
         /\ Cardinality(RatedIn(Append(p, e), V)) =
              IF FromScore(e.score) \in V THEN Cardinality(RatedIn(p, V)) + 1
                                          ELSE Cardinality(RatedIn(p, V))
  <1> DEFINE n == Len(p)
             q == Append(p, e)
  <1>1. n \in Nat /\ DOMAIN p = 1 .. n /\ DOMAIN q = 1 .. n + 1
        /\ q[n + 1] = e /\ \A i \in 1 .. n : q[i] = p[i]
    OBVIOUS
  <1> HIDE DEF n, q
  <1>2. RatedIn(p, V) \subseteq 1 .. n /\ n + 1 \notin RatedIn(p, V)
    BY <1>1 DEF RatedIn
  <1>3. IsFiniteSet(RatedIn(p, V))
    <2>1. IsFiniteSet(1 .. n)
      BY <1>1, FS_Interval
    <2>. QED  BY <1>2, <2>1, FS_Subset
  <1>4. RatedIn(q, V) = IF FromScore(e.score) \in V THEN RatedIn(p, V) \cup {n + 1}
                                                    ELSE RatedIn(p, V)
    <2>1. \A i : i \in 1 .. n + 1 <=> i \in 1 .. n \/ i = n + 1
      BY <1>1
    <2>2. \A i : i \in RatedIn(q, V) <=>
            i \in RatedIn(p, V) \/ (i = n + 1 /\ FromScore(e.score) \in V)
      BY <1>1, <2>1 DEF RatedIn
    <2>. QED  BY <2>2
  <1>5. Cardinality(RatedIn(p, V)) \in Nat
    BY <1>3, FS_CardinalityType
  <1>6. Cardinality(RatedIn(p, V) \cup {n + 1}) = Cardinality(RatedIn(p, V)) + 1
    BY <1>2, <1>3, FS_AddElement
  <1>. QED  BY <1>3, <1>4, <1>5, <1>6 DEF q

Threat == {"critical", "high", "medium"}

\* The invariant behind StatsDescribeResult, of one record.
Counted(x) ==
  /\ x.stats.parsed = Len(x.processed)
  /\ \A v \in SeverityLevel : x.stats.severity[v] = Cardinality(RatedIn(x.processed, {v}))
  /\ x.stats.threats = Cardinality(RatedIn(x.processed, Threat))
  /\ \A i, j \in x.merged : i.key = j.key => i = j
  /\ x.at = "done" => x.stats.unique = Cardinality(x.merged)

\* Merging adds no key twice.
LEMMA MergeKeys ==
  ASSUME NEW l \in NormalizedEvent, NEW merged \in SUBSET Ioc, \A i, j \in merged : i.key = j.key => i = j
  PROVE  \A i, j \in Merge(merged, l) : i.key = j.key => i = j
  BY Kept DEF Merge

LEMMA FreshCounted ==
  ASSUME NEW y, Fresh(y)
  PROVE  Counted(y)
  <1>1. \A V : RatedIn(<<>>, V) = {}
    BY DEF RatedIn
  <1>2. Cardinality({}) = 0
    BY FS_EmptySet
  <1>3. y.processed = <<>> /\ y.merged = {} /\ y.stats = NoStats
    BY DEF Fresh
  <1>4. Len(y.processed) = 0
    BY <1>3
  <1>5. \A v \in SeverityLevel : NoStats.severity[v] = 0
    BY DEF NoStats
  <1>6. NoStats.parsed = 0 /\ NoStats.threats = 0 /\ NoStats.unique = 0
    BY DEF NoStats
  <1>. QED  BY <1>1, <1>2, <1>3, <1>4, <1>5, <1>6 DEF Counted

LEMMA ThreatScore ==
  ASSUME NEW s \in 1 .. 10
  PROVE  IsThreat(s) <=> FromScore(s) \in Threat
  BY DEF IsThreat, FromScore, Threat

LEMMA CountedMove ==
  ASSUME NEW x \in RunType, Placed(x), Counted(x), NEW y \in RunType, Moves(x, y)
  PROVE  Counted(y)
  <1>1. /\ x.text \in Seq(Line) /\ x.processed \in Seq(Event) /\ x.merged \in SUBSET Ioc
        /\ x.stats \in StatsType /\ IsFiniteSet(x.merged)
    BY Rebuild DEF Placed
  <1>2. CASE Prepares(x, y)
    BY <1>2, FreshCounted DEF Prepares
  <1>3. CASE Skips(x, y)
    BY <1>3 DEF Skips, Advances, Counted
  <1>4. CASE FailsToExtract(x, y)
    BY <1>1, <1>4, CountFailedType DEF FailsToExtract, Advances, Counted
  <1>5. ASSUME Advances(x, y), Here(x) # NoEvent PROVE Here(x) \in NormalizedEvent
    BY <1>5, HereType
  <1>6. CASE FailsToClassify(x, y)
    <2>1. \A i, j \in y.merged : i.key = j.key => i = j
      BY <1>1, <1>5, <1>6, MergeKeys DEF FailsToClassify, Counted
    <2>. QED  BY <1>1, <1>6, <2>1, CountFailedType DEF FailsToClassify, Advances, Counted
  <1>7. CASE Processes(x, y)
    <2>1. Here(x) \in NormalizedEvent /\ y.at = "parse"
      BY <1>5, <1>7 DEF Processes, Advances
    <2>2. PICK score \in 1 .. 10 : score = SeverityScore(Here(x))
      BY <2>1, ScoreType
    <2>3. PICK e \in Event : e = [line |-> x.next, score |-> score]
      BY <2>2, Rebuild DEF Event
    <2>4. /\ y.processed = Append(x.processed, e) /\ e.score = score
          /\ y.stats = UpdateStats(x.stats, score)
      BY <1>7, <2>2, <2>3 DEF Processes
    <2>5. /\ y.stats.parsed = x.stats.parsed + 1
          /\ IsThreat(score) => y.stats.threats = x.stats.threats + 1
          /\ ~IsThreat(score) => y.stats.threats = x.stats.threats
          /\ y.stats.severity[FromScore(score)] = x.stats.severity[FromScore(score)] + 1
          /\ \A v \in SeverityLevel \ {FromScore(score)} :
               y.stats.severity[v] = x.stats.severity[v]
      <3>1. x.stats \in StatsType /\ y.stats = UpdateStats(x.stats, score)
        BY <1>1, <2>4
      <3>2. PICK s \in StatsType : s = x.stats
        BY <3>1
      <3>3. UpdateStats(s, score).parsed = s.parsed + 1
        BY UpdateStatsType
      <3>4. IsThreat(score) => UpdateStats(s, score).threats = s.threats + 1
        BY UpdateStatsType
      <3>5. ~IsThreat(score) => UpdateStats(s, score).threats = s.threats
        BY UpdateStatsType
      <3>6. UpdateStats(s, score).severity[FromScore(score)] = s.severity[FromScore(score)] + 1
        BY UpdateStatsType
      <3>7. \A v \in SeverityLevel \ {FromScore(score)} :
              UpdateStats(s, score).severity[v] = s.severity[v]
        BY UpdateStatsType
      <3>. QED  BY <3>1, <3>2, <3>3, <3>4, <3>5, <3>6, <3>7
    <2>6. y.stats.parsed = Len(y.processed)
      BY <1>1, <2>3, <2>4, <2>5 DEF Counted
    <2>7. \A v \in SeverityLevel : y.stats.severity[v] = Cardinality(RatedIn(y.processed, {v}))
      <3> SUFFICES ASSUME NEW v \in SeverityLevel
                   PROVE  y.stats.severity[v] = Cardinality(RatedIn(y.processed, {v}))
        OBVIOUS
      <3>1. Cardinality(RatedIn(y.processed, {v})) =
              IF FromScore(score) \in {v} THEN Cardinality(RatedIn(x.processed, {v})) + 1
                                          ELSE Cardinality(RatedIn(x.processed, {v}))
        BY <1>1, <2>3, <2>4, RatedAppend
      <3>. QED  BY <2>5, <3>1 DEF Counted
    <2>8. y.stats.threats = Cardinality(RatedIn(y.processed, Threat))
      <3>1. Cardinality(RatedIn(y.processed, Threat)) =
              IF FromScore(score) \in Threat THEN Cardinality(RatedIn(x.processed, Threat)) + 1
                                             ELSE Cardinality(RatedIn(x.processed, Threat))
        BY <1>1, <2>3, <2>4, RatedAppend
      <3>. QED  BY <2>2, <2>5, <3>1, ThreatScore DEF Counted
    <2>9. \A i, j \in y.merged : i.key = j.key => i = j
      BY <1>1, <1>7, <2>1, MergeKeys DEF Processes, Counted
    <2>. QED  BY <2>1, <2>6, <2>7, <2>8, <2>9 DEF Counted
  <1>8. CASE Finishes(x, y)
    BY <1>1, <1>8, CountUniqueType DEF Finishes, Counted
  <1>. QED  BY <1>2, <1>3, <1>4, <1>6, <1>7, <1>8 DEF Moves

AllCounted == \A r \in Run : Counted(run[r])

LEMMA AllCountedInvariant == Spec => []AllCounted
  <1>1. Init => AllCounted
    <2>1. Fresh(NoRun)
      BY DEF Fresh, NoRun
    <2>. QED  BY <2>1, FreshCounted DEF Init, AllCounted
  <1>2. Typed /\ AllCounted /\ [Next]_vars => AllCounted'
    <2> SUFFICES ASSUME Typed, AllCounted, [Next]_vars, NEW r \in Run
                 PROVE  Counted(run[r])'
      BY DEF AllCounted
    <2>1. run[r] \in RunType /\ Placed(run[r]) /\ run'[r] \in RunType
      BY TypedStep DEF Typed
    <2>2. Counted(run'[r])
      BY <2>1, EveryStep, CountedMove DEF AllCounted
    <2>. QED  BY <2>2 DEF Counted, RatedIn
  <1>. QED  BY <1>1, <1>2, TypedInvariant, PTL DEF Spec

\* As many IOCs as keys, when no two have the same key.
LEMMA KeysAreIocs ==
  ASSUME NEW M, IsFiniteSet(M), \A i, j \in M : i.key = j.key => i = j
  PROVE  Cardinality({i.key : i \in M}) = Cardinality(M)
  <1> DEFINE f == [i \in M |-> i.key]
  <1>1. f \in Bijection(M, {i.key : i \in M})
    BY DEF Bijection, Injection, Surjection, IsInjective
  <1>. QED  BY <1>1, FS_Bijection DEF ExistsBijection

\* What process_log stores of a run are the counters of its result.
THEOREM StatsAreOfResult == Spec => []StatsDescribeResult
  <1>1. Typed /\ AllCounted => StatsDescribeResult
    <2> SUFFICES ASSUME Typed, AllCounted, NEW r \in Run
                 PROVE  /\ run[r].stats.parsed = Len(run[r].processed)
                        /\ \A v \in SeverityLevel :
                             run[r].stats.severity[v] = Cardinality(Rated(r, {v}))
                        /\ run[r].stats.threats = Cardinality(Rated(r, {"critical", "high", "medium"}))
                        /\ run[r].at = "done" =>
                             run[r].stats.unique = Cardinality({i.key : i \in run[r].merged})
      BY DEF StatsDescribeResult
    <2>1. Counted(run[r]) /\ IsFiniteSet(run[r].merged)
      BY DEF AllCounted, Typed, Placed
    <2>2. \A V : Rated(r, V) = RatedIn(run[r].processed, V)
      BY DEF Rated, RatedIn
    <2>3. Cardinality({i.key : i \in run[r].merged}) = Cardinality(run[r].merged)
      BY <2>1, KeysAreIocs DEF Counted
    <2>. QED  BY <2>1, <2>2, <2>3 DEF Counted, Threat
  <1>. QED  BY <1>1, TypedInvariant, AllCountedInvariant, PTL

-----------------------------------------------------------------------------
(* The merged IOCs *)

\* The lines read whose IOCs were extracted, and the IOCs their first ones gave.
ReadOf(x) == {i \in DOMAIN x.text : /\ i < x.next /\ EventAt(x, i) # NoEvent
                                    /\ Broken[EventAt(x, i)] # "extract"}
FirstOf(x, m) ==
  \E i \in ReadOf(x) : /\ m \in KeptIocs(EventAt(x, i))
                       /\ \A j \in ReadOf(x) : j < i =>
                            \A o \in KeptIocs(EventAt(x, j)) : o.key # m.key

\* The invariant behind OneIocPerKey, of one record: the merged IOCs are those the
\* first lines gave, and each key of a line that was read is there.
FirstSeen(x) ==
  x.at \in {"parse", "done"} =>
    /\ \A m \in Ioc : m \in x.merged <=> FirstOf(x, m)
    /\ \A i \in ReadOf(x) : \A o \in KeptIocs(EventAt(x, i)) : \E m \in x.merged : m.key = o.key

\* A line that adds no IOCs.
LEMMA FirstSeenSame ==
  ASSUME NEW x, NEW y, FirstSeen(x), x.at = "parse", ReadOf(y) = ReadOf(x),
         SameLog(x, y), y.type = x.type, y.merged = x.merged
  PROVE  FirstSeen(y)
  <1>1. y.text = x.text /\ \A i : EventAt(y, i) = EventAt(x, i)
    BY DEF EventAt, SameLog
  <1>2. \A m : FirstOf(y, m) <=> FirstOf(x, m)
    BY <1>1 DEF FirstOf
  <1>. QED  BY <1>1, <1>2 DEF FirstSeen

\* A line that is not passed over or is passed over without its IOCs.
LEMMA ReadSame ==
  ASSUME NEW x \in RunType, NEW y \in RunType, Advances(x, y),
         Here(x) = NoEvent \/ Broken[Here(x)] = "extract"
  PROVE  ReadOf(y) = ReadOf(x)
  <1>1. x.next \in Nat /\ DOMAIN x.text \subseteq Nat
    BY Rebuild
  <1>2. \A i \in DOMAIN x.text : i < y.next <=> i < x.next \/ i = x.next
    BY <1>1 DEF Advances
  <1>3. y.text = x.text /\ \A i : EventAt(y, i) = EventAt(x, i)
    BY DEF Advances, EventAt, SameLog
  <1>. QED  BY <1>1, <1>2, <1>3 DEF ReadOf, Here

\* A line whose IOCs are merged.
LEMMA FirstSeenMerge ==
  ASSUME NEW x \in RunType, NEW y \in RunType, FirstSeen(x), Advances(x, y),
         Here(x) # NoEvent, Broken[Here(x)] # "extract", y.merged = Merge(x.merged, Here(x))
  PROVE  FirstSeen(y)
  <1> DEFINE n == x.next
             l == Here(x)
  <1>1. /\ n \in Nat /\ DOMAIN x.text \subseteq Nat /\ n \in DOMAIN x.text /\ EventAt(x, n) = l
        /\ y.text = x.text /\ y.at = "parse" /\ x.at = "parse" /\ y.next = n + 1
        /\ x.merged \in SUBSET Ioc /\ l \in NormalizedEvent
    BY Rebuild, HereType DEF Advances, SameLog, Here
  <1>2. KeptIocs(l) \subseteq Ioc
    BY <1>1, Kept
  <1>8. \A i : EventAt(y, i) = EventAt(x, i)
    BY DEF Advances, EventAt, SameLog
  <1> HIDE DEF n, l
  <1>3. /\ \A i : i \in ReadOf(y) <=> i \in ReadOf(x) \/ i = n
        /\ \A i \in ReadOf(x) : i < n /\ i \in Nat
    <2>1. \A i \in DOMAIN x.text : i < y.next <=> i < n \/ i = n
      BY <1>1
    <2>2. l # NoEvent /\ Broken[l] # "extract" /\ n = x.next
      BY DEF l, n
    <2>. QED  BY <1>1, <1>8, <2>1, <2>2 DEF ReadOf
  <1>4. /\ \A m \in Ioc : m \in x.merged <=> FirstOf(x, m)
        /\ \A i \in ReadOf(x) : \A o \in KeptIocs(EventAt(x, i)) : \E m \in x.merged : m.key = o.key
    BY <1>1 DEF FirstSeen
  <1>5. \A m : m \in y.merged <=>
          m \in x.merged \/ (m \in KeptIocs(l) /\ \A o \in x.merged : o.key # m.key)
    BY DEF Merge, l
  <1>6. ASSUME NEW m \in Ioc PROVE m \in y.merged <=> FirstOf(y, m)
    <2>1. ASSUME FirstOf(x, m) PROVE FirstOf(y, m)
      <3>1. PICK i \in ReadOf(x) : /\ m \in KeptIocs(EventAt(x, i))
                                   /\ \A j \in ReadOf(x) : j < i =>
                                        \A o \in KeptIocs(EventAt(x, j)) : o.key # m.key
        BY <2>1 DEF FirstOf
      <3>2. i \in ReadOf(y) /\ ~(n < i)
        BY <1>1, <1>3
      <3>. QED  BY <1>1, <1>3, <1>8, <3>1, <3>2 DEF FirstOf
    <2>2. ASSUME m \in KeptIocs(l), \A o \in x.merged : o.key # m.key PROVE FirstOf(y, m)
      <3>1. \A j \in ReadOf(x) : \A o \in KeptIocs(EventAt(x, j)) : o.key # m.key
        BY <1>4, <2>2
      <3>2. n \in ReadOf(y) /\ ~(n < n)
        BY <1>1, <1>3
      <3>. QED  BY <1>1, <1>3, <1>8, <2>2, <3>1, <3>2 DEF FirstOf
    <2>3. ASSUME FirstOf(y, m)
          PROVE  FirstOf(x, m) \/ (m \in KeptIocs(l) /\ \A o \in x.merged : o.key # m.key)
      <3>1. PICK i \in ReadOf(y) : /\ m \in KeptIocs(EventAt(x, i))
                                   /\ \A j \in ReadOf(y) : j < i =>
                                        \A o \in KeptIocs(EventAt(x, j)) : o.key # m.key
        BY <1>1, <1>8, <2>3 DEF FirstOf
      <3>2. CASE i \in ReadOf(x)
        BY <1>3, <3>1, <3>2 DEF FirstOf
      <3>3. CASE i = n
        <4>1. m \in KeptIocs(l)
          BY <1>1, <3>1, <3>3
        <4>2. \A j \in ReadOf(x) : \A o \in KeptIocs(EventAt(x, j)) : o.key # m.key
          BY <1>3, <3>1, <3>3
        <4>3. \A o \in x.merged : o.key # m.key
          <5> SUFFICES ASSUME NEW o \in x.merged PROVE o.key # m.key
            OBVIOUS
          <5>1. FirstOf(x, o)
            BY <1>1, <1>4
          <5>. QED  BY <4>2, <5>1 DEF FirstOf
        <4>. QED  BY <4>1, <4>3
      <3>. QED  BY <1>3, <3>1, <3>2, <3>3
    <2>. QED  BY <1>4, <1>5, <2>1, <2>2, <2>3
  <1>7. ASSUME NEW i \in ReadOf(y), NEW o \in KeptIocs(EventAt(x, i))
        PROVE  \E m \in y.merged : m.key = o.key
    <2>1. CASE i \in ReadOf(x)
      BY <1>4, <1>5, <2>1
    <2>2. CASE i = n
      BY <1>1, <1>5, <2>2
    <2>. QED  BY <1>3, <2>1, <2>2
  <1>. QED  BY <1>1, <1>6, <1>7, <1>8 DEF FirstSeen

LEMMA FirstSeenMove ==
  ASSUME NEW x \in RunType, Placed(x), FirstSeen(x), NEW y \in RunType, Moves(x, y)
  PROVE  FirstSeen(y)
  <1>1. CASE Prepares(x, y)
    <2>1. y.next = 1 /\ y.merged = {} /\ y.text \in Seq(Line)
      BY <1>1, Rebuild DEF Prepares, Fresh
    <2>2. ReadOf(y) = {}
      BY <2>1 DEF ReadOf
    <2>. QED  BY <2>1, <2>2 DEF FirstSeen, FirstOf
  <1>2. CASE Skips(x, y)
    BY <1>2, ReadSame, FirstSeenSame DEF Skips, Advances
  <1>3. CASE FailsToExtract(x, y)
    BY <1>3, ReadSame, FirstSeenSame DEF FailsToExtract, Advances
  <1>4. CASE FailsToClassify(x, y)
    BY <1>4, FirstSeenMerge DEF FailsToClassify
  <1>5. CASE Processes(x, y)
    BY <1>5, FirstSeenMerge DEF Processes
  <1>6. CASE Finishes(x, y)
    <2>1. ReadOf(y) = ReadOf(x)
      BY <1>6 DEF Finishes, ReadOf, SameLog, EventAt
    <2>. QED  BY <1>6, <2>1, FirstSeenSame DEF Finishes
  <1>. QED  BY <1>1, <1>2, <1>3, <1>4, <1>5, <1>6 DEF Moves

AllFirstSeen == \A r \in Run : FirstSeen(run[r])

LEMMA AllFirstSeenInvariant == Spec => []AllFirstSeen
  <1>1. Init => AllFirstSeen
    BY DEF Init, NoRun, AllFirstSeen, FirstSeen
  <1>2. Typed /\ AllFirstSeen /\ [Next]_vars => AllFirstSeen'
    <2> SUFFICES ASSUME Typed, AllFirstSeen, [Next]_vars, NEW r \in Run
                 PROVE  FirstSeen(run[r])'
      BY DEF AllFirstSeen
    <2>1. run[r] \in RunType /\ Placed(run[r]) /\ run'[r] \in RunType
      BY TypedStep DEF Typed
    <2>2. FirstSeen(run'[r])
      BY <2>1, EveryStep, FirstSeenMove DEF AllFirstSeen
    <2>. QED  BY <2>2 DEF FirstSeen, FirstOf, ReadOf
  <1>. QED  BY <1>1, <1>2, TypedInvariant, PTL DEF Spec

\* all_iocs holds each type and value that a line read gave, once, and no other.
THEOREM MergedOncePerKey == Spec => []OneIocPerKey
  <1>1. Typed /\ AllCounted /\ AllFirstSeen => OneIocPerKey
    <2> SUFFICES ASSUME Typed, AllCounted, AllFirstSeen, NEW r \in Run,
                        run[r].at \in {"parse", "done"}
                 PROVE  LET given == UNION {KeptIocs(EventAt(run[r], i)) : i \in ReadOf(run[r])}
                        IN  /\ run[r].merged \subseteq given
                            /\ \A o \in given : \E m \in run[r].merged : m.key = o.key
                            /\ \A m, o \in run[r].merged : m.key = o.key => m = o
      BY DEF OneIocPerKey, MergedLines, ReadOf
    <2>1. run[r].merged \subseteq Ioc
      BY Rebuild DEF Typed
    <2>2. /\ \A m \in Ioc : m \in run[r].merged <=> FirstOf(run[r], m)
          /\ \A i \in ReadOf(run[r]) : \A o \in KeptIocs(EventAt(run[r], i)) :
               \E m \in run[r].merged : m.key = o.key
      BY DEF AllFirstSeen, FirstSeen
    <2>3. ASSUME NEW m \in run[r].merged
          PROVE  \E i \in ReadOf(run[r]) : m \in KeptIocs(EventAt(run[r], i))
      BY <2>1, <2>2 DEF FirstOf
    <2>4. \A m, o \in run[r].merged : m.key = o.key => m = o
      BY DEF AllCounted, Counted
    <2>. QED  BY <2>2, <2>3, <2>4
  <1>. QED  BY <1>1, TypedInvariant, AllCountedInvariant, AllFirstSeenInvariant, PTL

-----------------------------------------------------------------------------
(* BadLinesIsolated *)

SoundLines(x) == {i \in DOMAIN x.text : Sound(EventAt(x, i))}
SoundBefore(x) == {i \in SoundLines(x) : i < x.next}
LinesOf(x) == {x.processed[i].line : i \in DOMAIN x.processed}
Increasing(x) ==
  \A i, j \in DOMAIN x.processed : i < j => x.processed[i].line < x.processed[j].line

\* The invariant behind BadLinesIsolated, of one record: the result holds the lines
\* that were passed and can be processed, and a run stops at the end or at the limit.
Isolated(x) ==
  x.at \in {"parse", "done"} =>
    /\ Increasing(x)
    /\ LinesOf(x) = SoundBefore(x)
    /\ Cardinality(SoundBefore(x)) = Len(x.processed)
    /\ x.at = "done" /\ x.type # "unknown" => x.next > Len(x.text) \/ Len(x.processed) >= MaxEvents

LEMMA SoundFinite ==
  ASSUME NEW x \in RunType
  PROVE  /\ SoundLines(x) \subseteq Nat /\ IsFiniteSet(SoundLines(x))
         /\ IsFiniteSet(SoundBefore(x)) /\ SoundBefore(x) \subseteq SoundLines(x)
  <1>1. x.text \in Seq(Line)
    BY Rebuild
  <1>2. IsFiniteSet(1 .. Len(x.text)) /\ SoundLines(x) \subseteq 1 .. Len(x.text)
    BY <1>1, FS_Interval DEF SoundLines
  <1>3. SoundLines(x) \subseteq Nat
    BY <1>1 DEF SoundLines
  <1>4. IsFiniteSet(SoundLines(x))
    BY <1>2, FS_Subset
  <1>5. SoundBefore(x) \subseteq SoundLines(x)
    BY DEF SoundBefore
  <1>6. IsFiniteSet(SoundBefore(x))
    BY <1>4, <1>5, FS_Subset
  <1>. QED  BY <1>3, <1>4, <1>5, <1>6

\* Passing a line.
LEMMA PassLine ==
  ASSUME NEW x \in RunType, NEW y \in RunType, Advances(x, y)
  PROVE  /\ ~Sound(Here(x)) => SoundBefore(y) = SoundBefore(x)
         /\ Sound(Here(x)) => SoundBefore(y) = SoundBefore(x) \cup {x.next}
         /\ x.next \notin SoundBefore(x)
  <1>1. x.next \in Nat /\ x.next \in DOMAIN x.text /\ DOMAIN x.text \subseteq Nat /\ y.text = x.text
    BY Rebuild DEF Advances, SameLog
  <1>2. \A i \in DOMAIN x.text : i < y.next <=> i < x.next \/ i = x.next
    BY <1>1 DEF Advances
  <1>3. SoundLines(y) = SoundLines(x)
    <2>1. \A i : EventAt(y, i) = EventAt(x, i)
      BY DEF Advances, EventAt, SameLog
    <2>. QED  BY <1>1, <2>1 DEF SoundLines
  <1>4. x.next \in SoundLines(x) <=> Sound(Here(x))
    BY <1>1 DEF SoundLines, Here
  <1>5. \A i : i \in SoundBefore(y) <=> i \in SoundBefore(x) \/ (i = x.next /\ Sound(Here(x)))
    BY <1>1, <1>2, <1>3, <1>4 DEF SoundBefore, SoundLines
  <1>6. x.next \notin SoundBefore(x)
    BY <1>1 DEF SoundBefore
  <1>. QED  BY <1>5, <1>6

\* A line that is not added to the result.
LEMMA IsolatedSame ==
  ASSUME NEW x \in RunType, NEW y \in RunType, Isolated(x), Advances(x, y), ~Sound(Here(x)),
         y.processed = x.processed
  PROVE  Isolated(y)
  BY PassLine DEF Isolated, Advances, Increasing, LinesOf

\* A line that is.
LEMMA IsolatedAppend ==
  ASSUME NEW x \in RunType, NEW y \in RunType, Isolated(x), Advances(x, y), Sound(Here(x)),
         NEW e \in Event, e.line = x.next, y.processed = Append(x.processed, e)
  PROVE  Isolated(y)
  <1> DEFINE p == x.processed
             q == y.processed
             n == Len(p)
  <1>1. p \in Seq(Event) /\ q = Append(p, e)
    BY Rebuild
  <1>2. n \in Nat /\ DOMAIN p = 1 .. n /\ DOMAIN q = 1 .. n + 1 /\ Len(q) = n + 1
        /\ q[n + 1] = e /\ \A i \in 1 .. n : q[i] = p[i]
    BY <1>1
  <1>3. \A i \in 1 .. n + 1 : i \in 1 .. n \/ i = n + 1
    BY <1>2
  <1>4. /\ Increasing(x) /\ LinesOf(x) = SoundBefore(x) /\ Cardinality(SoundBefore(x)) = n
        /\ y.at = "parse"
    BY DEF Isolated, Advances
  <1>5. SoundBefore(y) = SoundBefore(x) \cup {x.next} /\ x.next \notin SoundBefore(x)
    BY PassLine
  <1> HIDE DEF n
  <1>6. Cardinality(SoundBefore(y)) = n + 1
    BY <1>4, <1>5, SoundFinite, FS_AddElement
  <1>7. LinesOf(y) = SoundBefore(y)
    <2>1. \A l : l \in LinesOf(y) <=> l \in LinesOf(x) \/ l = e.line
      BY <1>2, <1>3 DEF LinesOf
    <2>. QED  BY <1>4, <1>5, <2>1
  <1>8. Increasing(y)
    <2> SUFFICES ASSUME NEW i \in 1 .. n + 1, NEW j \in 1 .. n + 1, i < j
                 PROVE  q[i].line < q[j].line
      BY <1>2 DEF Increasing
    <2>1. i \in 1 .. n
      BY <1>2
    <2>2. CASE j \in 1 .. n
      BY <1>2, <1>4, <2>1, <2>2 DEF Increasing
    <2>3. CASE j = n + 1
      <3>1. p[i].line \in SoundBefore(x)
        BY <1>2, <1>4, <2>1 DEF LinesOf
      <3>2. p[i].line < x.next
        BY <3>1 DEF SoundBefore
      <3>. QED  BY <1>2, <2>1, <2>3, <3>2
    <2>. QED  BY <1>3, <2>2, <2>3
  <1>. QED  BY <1>2, <1>4, <1>6, <1>7, <1>8 DEF Isolated

LEMMA IsolatedMove ==
  ASSUME NEW x \in RunType, Placed(x), Isolated(x), NEW y \in RunType, Moves(x, y),
         x.at = "detect" => registry = Format
  PROVE  Isolated(y)
  <1>1. CASE Prepares(x, y)
    <2>1. y.next = 1 /\ y.processed = <<>>
      BY <1>1 DEF Prepares, Fresh
    <2>2. SoundBefore(y) = {} /\ LinesOf(y) = {} /\ Increasing(y) /\ Len(y.processed) = 0
      BY <2>1, SoundFinite, Rebuild DEF SoundBefore, LinesOf, Increasing, SoundLines
    <2>3. y.at = "done" => y.type = "unknown"
      BY <1>1, Rebuild DEF Prepares
    <2>. QED  BY <2>2, <2>3, FS_EmptySet DEF Isolated
  <1>2. CASE Skips(x, y)
    BY <1>2, IsolatedSame DEF Skips, Sound
  <1>3. CASE FailsToExtract(x, y)
    BY <1>3, IsolatedSame DEF FailsToExtract, Sound
  <1>4. CASE FailsToClassify(x, y)
    BY <1>4, IsolatedSame DEF FailsToClassify, Sound
  <1>5. CASE Processes(x, y)
    <2>1. Here(x) \in NormalizedEvent
      BY <1>5, HereType DEF Processes
    <2>2. PICK e \in Event : e = [line |-> x.next, score |-> SeverityScore(Here(x))]
      BY <2>1, ScoreType, Rebuild DEF Event
    <2>3. e.line = x.next /\ y.processed = Append(x.processed, e) /\ Sound(Here(x)) /\ Advances(x, y)
      BY <1>5, <2>2 DEF Processes, Sound
    <2>. QED  BY <2>3, IsolatedAppend
  <1>6. CASE Finishes(x, y)
    <2>1. y.text = x.text /\ \A i : EventAt(y, i) = EventAt(x, i)
      BY <1>6 DEF Finishes, EventAt, SameLog
    <2>2. SoundLines(y) = SoundLines(x)
      BY <2>1 DEF SoundLines
    <2>3. SoundBefore(y) = SoundBefore(x)
      BY <1>6, <2>2 DEF Finishes, SoundBefore
    <2>. QED  BY <1>6, <2>1, <2>3 DEF Finishes, Isolated, Increasing, LinesOf
  <1>. QED  BY <1>1, <1>2, <1>3, <1>4, <1>5, <1>6 DEF Moves

AllIsolated == \A r \in Run : Isolated(run[r])

LEMMA AllIsolatedInvariant == Spec => []AllIsolated
  <1>1. Init => AllIsolated
    BY DEF Init, NoRun, AllIsolated, Isolated
  <1>2. Typed /\ Registered /\ AllIsolated /\ [Next]_vars => AllIsolated'
    <2> SUFFICES ASSUME Typed, Registered, AllIsolated, [Next]_vars, NEW r \in Run
                 PROVE  Isolated(run[r])'
      BY DEF AllIsolated
    <2>1. run[r] \in RunType /\ Placed(run[r]) /\ run'[r] \in RunType
      BY TypedStep DEF Typed
    <2>2. run[r].at = "detect" => registry = Format
      BY DEF Registered, Knows
    <2>3. Isolated(run'[r])
      BY <2>1, <2>2, EveryStep, IsolatedMove DEF AllIsolated
    <2>. QED  BY <2>3 DEF Isolated, Increasing, LinesOf, SoundBefore, SoundLines
  <1>. QED  BY <1>1, <1>2, TypedInvariant, RegisteredInit, RegisteredStep, PTL DEF Spec

\* The sound lines before a number, of which there are fewer than the limit exactly
\* for the lines of the result.
LEMMA FirstLines ==
  ASSUME NEW x \in RunType, Placed(x), Isolated(x), x.at = "done", x.type # "unknown",
         NEW i \in SoundLines(x)
  PROVE  Cardinality({j \in SoundLines(x) : j < i}) < MaxEvents <=> i \in LinesOf(x)
  <1> DEFINE B == {j \in SoundLines(x) : j < i}
             L == SoundBefore(x)
  <1>1. /\ LinesOf(x) = L /\ Cardinality(L) = Len(x.processed) /\ Len(x.processed) <= MaxEvents
        /\ x.next > Len(x.text) \/ Len(x.processed) >= MaxEvents
    BY DEF Isolated, Placed
  <1>2. /\ Len(x.processed) \in Nat /\ MaxEvents \in Nat /\ x.next \in Nat /\ i \in Nat
        /\ i <= Len(x.text) /\ Len(x.text) \in Nat
    <2>1. x.processed \in Seq(Event) /\ x.next \in Nat /\ x.text \in Seq(Line) /\ MaxEvents \in Nat
      BY Rebuild, Constants
    <2>. QED  BY <2>1 DEF SoundLines
  <1>3. IsFiniteSet(L) /\ IsFiniteSet(B) /\ B \subseteq Nat /\ L \subseteq Nat
    BY SoundFinite, FS_Subset
  <1>4. Cardinality(B) \in Nat
    BY <1>3, FS_CardinalityType
  <1>5. CASE i < x.next
    <2>1. i \in L /\ i \notin B
      BY <1>2, <1>5 DEF SoundBefore
    <2>2. B \subseteq L \ {i}
      BY <1>2, <1>3, <1>5, <2>1, SoundFinite DEF SoundBefore
    <2>3. IsFiniteSet(L \ {i}) /\ Cardinality(L \ {i}) = Cardinality(L) - 1
      BY <1>3, <2>1, FS_RemoveElement
    <2>4. Cardinality(B) <= Cardinality(L \ {i})
      BY <2>2, <2>3, FS_Subset
    <2>. QED  BY <1>1, <1>2, <1>4, <2>1, <2>3, <2>4
  <1>6. CASE ~(i < x.next)
    <2>1. i \notin L /\ Len(x.processed) >= MaxEvents
      BY <1>1, <1>2, <1>6 DEF SoundBefore
    <2>2. L \subseteq B
      <3> SUFFICES ASSUME NEW j \in L PROVE j \in B
        OBVIOUS
      <3>1. j \in SoundLines(x) /\ j < x.next /\ j \in Nat
        BY SoundFinite DEF SoundBefore
      <3>. QED  BY <1>2, <1>6, <3>1
    <2>3. Cardinality(L) <= Cardinality(B)
      BY <1>3, <2>2, FS_Subset
    <2>. QED  BY <1>1, <1>2, <1>4, <2>1, <2>3
  <1>. QED  BY <1>5, <1>6

\* Lines that fail are isolated: the result of a run holds the first lines that can
\* be processed, up to the limit, in the order of the log.
THEOREM BadLinesAreIsolated == Spec => []BadLinesIsolated
  <1>1. Typed /\ AllIsolated => BadLinesIsolated
    <2> SUFFICES ASSUME Typed, AllIsolated, NEW r \in Run, run[r].at = "done",
                        run[r].type # "unknown"
                 PROVE  /\ LinesOf(run[r]) =
                             {i \in SoundLines(run[r]) :
                                Cardinality({j \in SoundLines(run[r]) : j < i}) < MaxEvents}
                        /\ Increasing(run[r])
      BY DEF BadLinesIsolated, LinesOf, SoundLines, Increasing
    <2>1. run[r] \in RunType /\ Placed(run[r]) /\ Isolated(run[r])
      BY DEF Typed, AllIsolated
    <2>2. LinesOf(run[r]) \subseteq SoundLines(run[r]) /\ Increasing(run[r])
      BY <2>1, SoundFinite DEF Isolated
    <2>3. \A i \in SoundLines(run[r]) :
            Cardinality({j \in SoundLines(run[r]) : j < i}) < MaxEvents <=> i \in LinesOf(run[r])
      BY <2>1, FirstLines
    <2>. QED  BY <2>2, <2>3
  <1>. QED  BY <1>1, TypedInvariant, AllIsolatedInvariant, PTL
=============================================================================
