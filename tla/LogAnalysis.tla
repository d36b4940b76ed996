----------------------------- MODULE LogAnalysis ----------------------------
(***************************************************************************)
(* The pipeline with its parts: what NlpPipeline has as constants is       *)
(* computed here from the contents of the lines, by the parsers, the       *)
(* extractor, the classifier and the signatures of the detector.           *)
(***************************************************************************)
EXTENDS NlpPipeline, LogParsers, IocExtractor, EventClassifier, LogDetector

CONSTANT Content   \* of each line, as LogParsers describes it, with its marks

ASSUME ContentAssumption ==
  \A l \in Line :
    /\ Content[l].shape \in Shape
    /\ Content[l].says \subseteq SyslogFact \cup RequestFact \cup WindowsFact \cup SysmonFact
                                 \cup {"upstream", "error", "warn"}
    /\ Content[l].only \in [{"apache_access", "nginx_access"} -> SUBSET RequestFact]
    /\ Content[l].number \in Nat
    /\ \A g \in DOMAIN Content[l].got : Content[l].got[g] \in Group
    /\ Content[l].raw \in Seq(Match) /\ Content[l].head \in Seq(Match)

-----------------------------------------------------------------------------
(* The constants of NlpPipeline *)

\* The function g; TLC computes its values once.
Table(g) == g @@ [x \in {} |-> x]

\* An event is named by its parser and its line; its fields are those of Parsed.
Analysis ==
  LET content == Content
      formats == Format \cup {"unknown"}
      parsed  == Table([f \in formats |-> Table([l \in Line |-> ParseWith(f, content[l])])])
      named   == Table([f \in formats |-> Table([l \in Line |->
                   IF parsed[f][l] = Unparsed THEN Unparsed ELSE [log_type |-> f, line |-> l]])])
      events  == {named[f][l] : f \in formats, l \in Line} \ {Unparsed}
      found   == {parsed[e.log_type][e.line] : e \in events}
      iocs    == Table([p \in found |-> ExtractFromEvent(p)])
      scores  == Table([p \in found |-> MatchedScores(p)])
  IN  [parsed |-> parsed, named |-> named, events |-> events,
       iocs   |-> Table([e \in events |-> iocs[parsed[e.log_type][e.line]]]),
       ioc    |-> UNION {ToSet(iocs[p]) : p \in found},
       scores |-> Table([e \in events |-> scores[parsed[e.log_type][e.line]]]),
       text   |-> Table([t \in Text |-> Table([f \in Format |->
                    SignatureScore(f, [i \in DOMAIN t |-> content[t[i]]])])])]

\* In this form TLC's coverage keeps each as one value and does not unfold it.
Parsed      == LET analysis == Analysis IN analysis.parsed
Parse       == LET analysis == Analysis IN analysis.named
Events      == LET analysis == Analysis IN analysis.events
EventIocs   == LET analysis == Analysis IN analysis.iocs
AllIocs     == LET analysis == Analysis IN analysis.ioc
EventScores == LET analysis == Analysis IN analysis.scores
TextScores  == LET analysis == Analysis IN analysis.text

\* What the properties rest on: the constants are what the parts compute.
ASSUME AnalysisAssumption ==
  /\ NoEvent = Unparsed
  /\ \A f \in Format \cup {"unknown"}, l \in Line :
       LET parsed == ParseWith(f, Content[l])
           event  == [log_type |-> f, line |-> l]
       IN  IF parsed = Unparsed THEN ParseLine[f][l] = Unparsed
           ELSE /\ ParseLine[f][l] = event
                /\ Matched[event] = MatchedScores(parsed)
                /\ Iocs[event] = ExtractFromEvent(parsed)

-----------------------------------------------------------------------------
(* Properties *)

\* The requests and the messages that the parsers and the rules are there for.
AttackLine(f, l) ==
  \/ /\ f \in {"apache_access", "nginx_access"} /\ l.shape \in {"access", "raw_request"}
     /\ Shows(f, l) \cap {"sql_injection", "xss", "traversal", "command_injection"} # {}
  \/ /\ f = "linux_syslog"
     /\ \/ {"sshd", "ssh_failed"} \subseteq l.says
        \/ {"sudo", "sudo_command"} \subseteq l.says /\ "sshd" \notin l.says
  \/ /\ f = "sysmon" /\ "single_quoted" \in l.says
     /\ \/ l.number = 1 /\ l.says \cap {"mimikatz", "encoded_command", "lolbin"} # {}
        \/ l.number \in {8, 10} /\ "lsass" \in l.says
        \/ l.number \in {12, 13} /\ "persistence_key" \in l.says

\* A parser, a rule and the threat threshold agree on names and scores across three
\* modules: a line in the result that shows an attack its parser reads is a threat,
\* whatever else the line shows (a scanner, an error status, a large response).
AttackLinesAreThreats ==
  \A r \in Run : \A i \in DOMAIN run[r].processed :
    AttackLine(run[r].type, Content[run[r].text[run[r].processed[i].line]])
      => IsThreat(run[r].processed[i].score)

\* The events whose IOCs were merged.
ReadEvents(r) ==
  LET read == {i \in DOMAIN run[r].text : i < run[r].next /\ EventAt(run[r], i) # NoEvent}
  IN  {e \in {EventAt(run[r], i) : i \in read} : Broken[e] # "extract"}

\* Every valid match of a text, in no order.
Sightings(found) ==
  UNION {{ExtractedIOC(m, p) : m \in {n \in ToSet(found) : n.pattern = p.pattern
                                                         /\ n.kind \notin p.rejects}} :
         p \in ToSet(Patterns)}

FieldSightings(e) ==
  UNION ({ToSet(WholeField(e, f, {"ipv4", "ipv6"})) : f \in {"source_ip", "dest_ip"}}
         \cup {ToSet(WholeField(e, "username", {"username"})),
               ToSet(WholeField(e, "hostname", {"domain"})),
               ToSet(WholeField(e, "process_name", {"filename"}))}
         \cup {ToSet(PortField(e, f)) : f \in {"source_port", "dest_port"}}
         \cup {Sightings(e.fields[f].holds) :
                f \in DOMAIN e.fields \cap {"url", "command_line", "file_path"}}
         \cup {Sightings(e.data[i].holds) : i \in DOMAIN e.data})

Keys(sightings) == {s.key : s \in sightings}
BestOf(sightings, key) == Max({s.confidence : s \in {t \in sightings : t.key = key}})

\* A value some field shows has the best confidence of the fields, one that only the
\* raw line shows four fifths of the best there.
ReferenceIocs(e) ==
  LET fields == FieldSightings(e)
      raw    == Sightings(e.raw)
  IN  {[key |-> k, confidence |-> BestOf(fields, k)] : k \in Keys(fields)}
      \cup {[key |-> k, confidence |-> (4 * BestOf(raw, k)) \div 5] : k \in Keys(raw) \ Keys(fields)}

Reference ==
  [e \in NormalizedEvent |->
    LET parsed == ParseWith(e.log_type, Content[e.line])
    IN  [iocs |-> ReferenceIocs(parsed), keys |-> Keys(FieldSightings(parsed))]]

\* extract_from_event folds matches of many fields and of the raw line into one list,
\* in an order that decides which is met first: the confidence an IOC is stored with
\* does not depend on it.
IocConfidence ==
  \A r \in Run : \A m \in run[r].merged : \E e \in ReadEvents(r) : m \in Reference[e].iocs

\* MAX_IOC_PER_EVENT cuts the end of the list: what a field shows is never pushed out
\* by what only the text of the line shows.
FieldsBeforeRawLine ==
  \A r \in Run : \A e \in ReadEvents(r) :
    LET shown == Reference[e].keys
    IN  Cardinality(shown) <= MaxIocs => shown \subseteq Keys(run[r].merged)
=============================================================================
