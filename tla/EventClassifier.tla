--------------------------- MODULE EventClassifier --------------------------
(***************************************************************************)
(* EventClassifier.classify: the rules that match an event.  The pipeline  *)
(* takes the highest of their scores.                                      *)
(***************************************************************************)
EXTENDS MitreRules

\* pattern.lower() in event_type: beside the equal ones, the types of the parsers
\* that contain the pattern of a rule.
Includes(event_type, pattern) ==
  \/ event_type = pattern
  \/ <<event_type, pattern>> \in {<<"Credential Dumping Attempt", "Credential Dumping">>,
                                 <<"LSASS Access (Credential Dump)", "LSASS Access">>,
                                 <<"Sysmon Event N", "Sysmon Event">>}

RuleMatches(rule, e) ==
  /\ \E p \in rule.event_type_patterns : Includes(e.event_type, p)
  /\ rule.log_types # AnyLog => e.log_type \in rule.log_types

MatchedRules(e) == {rule \in AllRules : RuleMatches(rule, e)}

\* What classify takes the maximum of; without a match the event is unclassified.
MatchedScores(e) == {rule.severity_score : rule \in MatchedRules(e)}
=============================================================================
