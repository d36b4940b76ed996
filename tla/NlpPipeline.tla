---------------------------- MODULE NlpPipeline ----------------------------
(***************************************************************************)
(* NLPPipeline.process: the runs of process_async in worker threads, from  *)
(* the lazy import of the parsers to the result that process_log stores.   *)
(* A log is a sequence of lines; what the parsers, the extractor and the   *)
(* rules make of a line is given by constants (LogParsers, IocExtractor    *)
(* and EventClassifier compute it).                                        *)
(***************************************************************************)
EXTENDS Naturals, Sequences, FiniteSets

CONSTANTS
  Run,           \* calls of process, each in a thread of its own
  Text,          \* contents of logs: sequences of lines
  Line,
  NormalizedEvent,
  NoEvent,       \* parse_line returns None, or raises
  ParseLine,     \* what the parser of a format makes of a line
  Ioc,           \* IOCs: [key, confidence]
  Iocs,          \* the IOCs of an event, no key twice
  Matched,       \* the severity scores of the rules that match an event
  Broken,        \* what raises an exception for an event
  FormatOrder,   \* the formats in the order of _ALL_SIGNATURES
  ModuleOrder,   \* the parser modules in the order of their import
  Whole,         \* the score 1.0
  Score,         \* the score of a text for each format, as a share of Whole
  Forced,        \* values of force_log_type
  MaxEvents,     \* MAX_EVENTS_PER_RUN
  MaxIocs,       \* MAX_IOC_PER_EVENT
  Faults         \* the failures that may happen

Format == {FormatOrder[i] : i \in DOMAIN FormatOrder}
SeverityLevel == {"critical", "high", "medium", "low", "info"}

ASSUME PipelineAssumption ==
  /\ Text \subseteq Seq(Line)
  /\ NoEvent \notin NormalizedEvent
  /\ ParseLine \in [Format \cup {"unknown"} -> [Line -> NormalizedEvent \cup {NoEvent}]]
  /\ Ioc \subseteq [key : {i.key : i \in Ioc}, confidence : Nat]
  /\ Iocs \in [NormalizedEvent -> Seq(Ioc)]
  /\ \A e \in NormalizedEvent :
       \A i, j \in DOMAIN Iocs[e] : Iocs[e][i].key = Iocs[e][j].key => i = j
  /\ Matched \in [NormalizedEvent -> SUBSET (1 .. 10)]
  /\ Broken \in [NormalizedEvent -> {"none", "extract", "classify"}]
  /\ FormatOrder \in Seq(STRING) /\ FormatOrder # <<>> /\ "unknown" \notin Format
  /\ ModuleOrder \in Seq(Format) /\ Format = {ModuleOrder[i] : i \in DOMAIN ModuleOrder}
  /\ Whole \in Nat /\ Score \in [Text -> [Format -> 0 .. Whole]]
  /\ Forced \subseteq Format \cup {"none", "unknown"}
  /\ MaxEvents \in Nat \ {0} /\ MaxIocs \in Nat
  /\ Faults \subseteq {"import"}

VARIABLES
  registry,  \* the formats with a registered parser
  loaded,    \* _PARSERS_LOADED
  run        \* each run: [at, text, force, module, type, next, processed, merged, stats]

vars == <<registry, loaded, run>>

-----------------------------------------------------------------------------
(* LogTypeDetector *)

\* CONFIDENCE_THRESHOLD is 0.40.
BelowThreshold(score) == 5 * score < 2 * Whole

\* max() keeps the first of equal scores.
Best(score) ==
  FormatOrder[CHOOSE i \in DOMAIN FormatOrder : \A j \in DOMAIN FormatOrder :
    \/ score[FormatOrder[j]] < score[FormatOrder[i]]
    \/ score[FormatOrder[j]] = score[FormatOrder[i]] /\ i <= j]

Detect(text) ==
  IF BelowThreshold(Score[text][Best(Score[text])]) THEN "unknown" ELSE Best(Score[text])

DetectWithOverride(text, force) == IF force \in {"none", "unknown"} THEN Detect(text) ELSE force

-----------------------------------------------------------------------------
(* EventClassifier and IOCExtractor, of one event *)

\* The highest score of a matched rule; 1 when none matches.
SeverityScore(e) ==
  IF Matched[e] = {} THEN 1
  ELSE CHOOSE s \in Matched[e] : \A o \in Matched[e] : o <= s

FromScore(s) ==
  CASE s >= 9 -> "critical"
    [] s \in 7 .. 8 -> "high"
    [] s \in 5 .. 6 -> "medium"
    [] s \in 3 .. 4 -> "low"
    [] OTHER -> "info"

IsThreat(s) == s >= 5

\* The IOCs of an event that are kept.
KeptIocs(e) == {Iocs[e][i] : i \in {j \in DOMAIN Iocs[e] : j <= MaxIocs}}

\* Variant: IOCs that differ in their confidence are different IOCs.
MergeWhole(merged, e) == merged \cup KeptIocs(e)

Merge(merged, e) == merged \cup {i \in KeptIocs(e) : \A m \in merged : m.key # i.key}

-----------------------------------------------------------------------------
NoStats == [parsed |-> 0, failed |-> 0, threats |-> 0, unique |-> 0,
            severity |-> [v \in SeverityLevel |-> 0]]

NoRun == [at |-> "idle", text |-> <<>>, force |-> "none", module |-> 1, type |-> "unknown",
          next |-> 1, processed |-> <<>>, merged |-> {}, stats |-> NoStats]

Init ==
  /\ registry = {}
  /\ loaded = FALSE
  /\ run = [r \in Run |-> NoRun]

\* Variant: the flag is set before the imports.
StartFlagFirst(r) ==
  /\ run[r].at = "idle"
  /\ \E t \in Text, f \in Forced :
       run' = [run EXCEPT ![r] = [NoRun EXCEPT
                 !.at = IF loaded THEN "detect" ELSE "import", !.text = t, !.force = f]]
  /\ loaded' = TRUE
  /\ UNCHANGED registry

\* process is called, and _ensure_parsers_loaded reads its flag.
Start(r) ==
  /\ run[r].at = "idle"
  /\ \E t \in Text, f \in Forced :
       run' = [run EXCEPT ![r] = [NoRun EXCEPT
                 !.at = IF loaded THEN "detect" ELSE "import", !.text = t, !.force = f]]
  /\ UNCHANGED <<registry, loaded>>

\* One parser module: the interpreter executes it once, whoever imports it, and
\* the second importer waits for the first.
ImportParser(r) ==
  /\ run[r].at = "import"
  /\ run[r].module \in DOMAIN ModuleOrder
  /\ registry' = registry \cup {ModuleOrder[run[r].module]}
  /\ run' = [run EXCEPT ![r].module = @ + 1]
  /\ UNCHANGED loaded

\* The exception leaves process; the next call tries again.
ImportFails(r) ==
  /\ run[r].at = "import"
  /\ "import" \in Faults
  /\ run[r].module \in DOMAIN ModuleOrder
  /\ ModuleOrder[run[r].module] \notin registry
  /\ run' = [run EXCEPT ![r].at = "raised"]
  /\ UNCHANGED <<registry, loaded>>

ParsersLoaded(r) ==
  /\ run[r].at = "import"
  /\ run[r].module \notin DOMAIN ModuleOrder
  /\ loaded' = TRUE
  /\ run' = [run EXCEPT ![r].at = "detect"]
  /\ UNCHANGED registry

\* Stage 1 and 2: without a parser the result is empty.
DetectType(r) ==
  /\ run[r].at = "detect"
  /\ LET type == DetectWithOverride(run[r].text, run[r].force) IN
     run' = [run EXCEPT ![r].type = type,
                        ![r].at = IF type \in registry THEN "parse" ELSE "done"]
  /\ UNCHANGED <<registry, loaded>>

-----------------------------------------------------------------------------
(* Stages 3 to 5: the loop over the events of the parser *)

\* Variant: one event more than the limit.
FullLate(r) == Len(run[r].processed) > MaxEvents

Full(r) == Len(run[r].processed) >= MaxEvents

AtLine(r) == run[r].at = "parse" /\ run[r].next <= Len(run[r].text)
EventAt(x, i) == ParseLine[x.type][x.text[i]]
Current(r) == EventAt(run[r], run[r].next)
AtEvent(r) == AtLine(r) /\ Current(r) # NoEvent

\* A blank line, one the parser has no event for, or one whose parsing raises.
SkipLine(r) ==
  /\ AtLine(r)
  /\ Current(r) = NoEvent
  /\ run' = [run EXCEPT ![r].next = @ + 1]
  /\ UNCHANGED <<registry, loaded>>

\* Variant: a line whose IOCs cannot be extracted ends the run.
ExtractFailsStops(r) ==
  /\ AtEvent(r) /\ ~Full(r)
  /\ Broken[Current(r)] = "extract"
  /\ run' = [run EXCEPT ![r].next = Len(run[r].text) + 1, ![r].stats.failed = @ + 1]
  /\ UNCHANGED <<registry, loaded>>

ExtractFails(r) ==
  /\ AtEvent(r) /\ ~Full(r)
  /\ Broken[Current(r)] = "extract"
  /\ run' = [run EXCEPT ![r].next = @ + 1, ![r].stats.failed = @ + 1]
  /\ UNCHANGED <<registry, loaded>>

\* Variant: the event is appended before it is classified.
ClassifyFailsLate(r) ==
  /\ AtEvent(r) /\ ~Full(r)
  /\ Broken[Current(r)] = "classify"
  /\ run' = [run EXCEPT
       ![r].next = @ + 1,
       ![r].processed = Append(@, [line |-> run[r].next, score |-> 1]),
       ![r].merged = Merge(@, Current(r)),
       ![r].stats.failed = @ + 1]
  /\ UNCHANGED <<registry, loaded>>

\* The IOCs of the event were merged before.
ClassifyFails(r) ==
  /\ AtEvent(r) /\ ~Full(r)
  /\ Broken[Current(r)] = "classify"
  /\ run' = [run EXCEPT
       ![r].next = @ + 1,
       ![r].merged = Merge(@, Current(r)),
       ![r].stats.failed = @ + 1]
  /\ UNCHANGED <<registry, loaded>>

\* The counters of an event that is in the result.
UpdateStats(stats, score) ==
  [stats EXCEPT !.parsed = @ + 1,
                !.threats = IF IsThreat(score) THEN @ + 1 ELSE @,
                !.severity[FromScore(score)] = @ + 1]

ProcessOneEvent(r) ==
  /\ AtEvent(r) /\ ~Full(r)
  /\ Broken[Current(r)] = "none"
  /\ LET score == SeverityScore(Current(r)) IN
     run' = [run EXCEPT
       ![r].next = @ + 1,
       ![r].processed = Append(@, [line |-> run[r].next, score |-> score]),
       ![r].merged = Merge(@, Current(r)),
       ![r].stats = UpdateStats(@, score)]
  /\ UNCHANGED <<registry, loaded>>

\* The lines are at their end, or one more event comes after the last that fits.
Finish(r) ==
  /\ run[r].at = "parse"
  /\ run[r].next > Len(run[r].text) \/ (AtEvent(r) /\ Full(r))
  /\ run' = [run EXCEPT ![r].at = "done", ![r].stats.unique = Cardinality(run[r].merged)]
  /\ UNCHANGED <<registry, loaded>>

Next ==
  \E r \in Run :
    \/ Start(r) \/ ImportParser(r) \/ ImportFails(r) \/ ParsersLoaded(r)
    \/ DetectType(r) \/ SkipLine(r) \/ ExtractFails(r) \/ ClassifyFails(r)
    \/ ProcessOneEvent(r) \/ Finish(r)

Spec == Init /\ [][Next]_vars

-----------------------------------------------------------------------------
(* Properties *)

\* Every variable keeps its type; no result is longer than MAX_EVENTS_PER_RUN.
TypeOK ==
  /\ registry \subseteq Format
  /\ loaded \in BOOLEAN
  /\ \A r \in Run :
       /\ run[r].at \in {"idle", "import", "detect", "parse", "done", "raised"}
       /\ run[r].text \in Text \cup {<<>>} /\ run[r].force \in Forced \cup {"none"}
       /\ run[r].module \in 1 .. Len(ModuleOrder) + 1
       /\ run[r].type \in Format \cup {"unknown"}
       /\ run[r].next \in 1 .. Len(run[r].text) + 1
       /\ run[r].processed \in Seq([line : 1 .. Len(run[r].text), score : 1 .. 10])
       /\ Len(run[r].processed) <= MaxEvents
       /\ run[r].merged \subseteq Ioc
       /\ run[r].stats \in [parsed : Nat, failed : Nat, threats : Nat, unique : Nat,
                            severity : [SeverityLevel -> Nat]]

\* _ensure_parsers_loaded: however many threads are inside it, a run that has left
\* it finds the parser of every format.
ParsersComplete ==
  \A r \in Run : run[r].at \in {"detect", "parse", "done"} => registry = Format

\* The positions in the result whose severity is in V.
Rated(r, V) == {i \in DOMAIN run[r].processed : FromScore(run[r].processed[i].score) \in V}

\* The counters process_log stores are those of the result: one for each event,
\* each under its severity, and the threats are the events of medium or above.
StatsDescribeResult ==
  \A r \in Run :
    LET stats == run[r].stats IN
    /\ stats.parsed = Len(run[r].processed)
    /\ \A v \in SeverityLevel : stats.severity[v] = Cardinality(Rated(r, {v}))
    /\ stats.threats = Cardinality(Rated(r, {"critical", "high", "medium"}))
    /\ run[r].at = "done" => stats.unique = Cardinality({i.key : i \in run[r].merged})

\* "Error-isolated": lines that fail change nothing for the others, and do not count
\* against the limit: the result holds the first of the lines that can be processed.
Sound(e) == e # NoEvent /\ Broken[e] = "none"
BadLinesIsolated ==
  \A r \in Run : run[r].at = "done" /\ run[r].type # "unknown" =>
    LET sound == {i \in DOMAIN run[r].text : Sound(EventAt(run[r], i))}
        first == {i \in sound : Cardinality({j \in sound : j < i}) < MaxEvents}
        lines == {run[r].processed[i].line : i \in DOMAIN run[r].processed}
    IN  /\ lines = first
        /\ \A i, j \in DOMAIN run[r].processed :
             i < j => run[r].processed[i].line < run[r].processed[j].line

\* The lines of a run that were read and whose IOCs were merged.
MergedLines(r) ==
  {i \in DOMAIN run[r].text : /\ i < run[r].next /\ EventAt(run[r], i) # NoEvent
                              /\ Broken[EventAt(run[r], i)] # "extract"}

\* all_iocs holds each type and value of the lines read once and nothing else, whatever
\* confidences they came with and whichever of the events failed afterwards: the upsert
\* cannot carry a key twice.
OneIocPerKey ==
  \A r \in Run : run[r].at \in {"parse", "done"} /\ run[r].type # "unknown" =>
    LET given == UNION {KeptIocs(EventAt(run[r], i)) : i \in MergedLines(r)}
    IN  /\ run[r].merged \subseteq given
        /\ \A o \in given : \E m \in run[r].merged : m.key = o.key
        /\ \A m, o \in run[r].merged : m.key = o.key => m = o
=============================================================================
