------------------------- MODULE LogAnalysis_proofs -------------------------
(***************************************************************************)
(* The lines that show an attack are threats, whatever else they show: the *)
(* parsers name the event, the rules score its name, and the pipeline      *)
(* keeps the highest score.  The IOCs that are stored have the confidence  *)
(* of the best place that shows them, and those of the fields come first.  *)
(***************************************************************************)
EXTENDS LogAnalysis, NlpPipeline_proofs

-----------------------------------------------------------------------------
(* The rules *)

\* The score of a rule is one of those of the events it fits.
LEMMA ScoreOfRule ==
  ASSUME NEW e, NEW id, NEW patterns, NEW score, NEW priority, NEW formats,
         R(id, patterns, score, priority, formats) \in AllRules,
         \E pattern \in patterns : Includes(e.event_type, pattern),
         formats = AnyLog \/ e.log_type \in formats
  PROVE  score \in MatchedScores(e)
  <1> DEFINE rule == R(id, patterns, score, priority, formats)
  <1>1. rule.event_type_patterns = patterns /\ rule.severity_score = score /\ rule.log_types = formats
    BY DEF R
  <1>2. rule \in AllRules
    OBVIOUS
  <1> HIDE DEF rule
  <1>3. RuleMatches(rule, e)
    BY <1>1 DEF RuleMatches
  <1>4. rule.severity_score \in MatchedScores(e)
    BY <1>2, <1>3 DEF MatchedScores, MatchedRules
  <1>. QED  BY <1>1, <1>4

\* A pattern fits the type that is equal to it.
LEMMA ScoreOfType ==
  ASSUME NEW e, NEW id, NEW patterns, NEW score, NEW priority, NEW formats,
         R(id, patterns, score, priority, formats) \in AllRules,
         e.event_type \in patterns, formats = AnyLog \/ e.log_type \in formats
  PROVE  score \in MatchedScores(e)
  <1>1. Includes(e.event_type, e.event_type)
    BY DEF Includes
  <1>. QED  BY <1>1, ScoreOfRule

\* The types of the events that AttackLine is about.
RequestAttacks == {"SQL Injection Attempt", "XSS Attempt", "Directory Traversal",
                   "Command Injection Attempt"}
SyslogAttacks  == {"Failed Login", "Privilege Escalation"}
SysmonAttacks  == {"Credential Dumping Attempt", "Encoded PowerShell", "Suspicious Child Process",
                   "LOLBin Execution", "LSASS Injection", "LSASS Access (Credential Dump)",
                   "Registry Persistence"}

\* Each of these types has a rule of 5 or more.
LEMMA RequestAttacksScored ==
  ASSUME NEW e, e.event_type \in RequestAttacks
  PROVE  \E s \in MatchedScores(e) : s \in 5 .. 10
  <1>1. CASE e.event_type = "SQL Injection Attempt"
    <2>1. R("HI-013", {"SQL Injection Attempt"}, 7, 20, AnyLog) \in AllRules
      BY DEF AllRules, HighRules2
    <2>2. e.event_type \in {"SQL Injection Attempt"}
      BY <1>1
    <2>3. 7 \in MatchedScores(e)
      BY <2>1, <2>2, ScoreOfType
    <2>. QED  BY <2>3
  <1>2. CASE e.event_type = "XSS Attempt"
    <2>1. R("ME-008", {"XSS Attempt"}, 5, 30, AnyLog) \in AllRules
      BY DEF AllRules, MediumRules1
    <2>2. e.event_type \in {"XSS Attempt"}
      BY <1>2
    <2>3. 5 \in MatchedScores(e)
      BY <2>1, <2>2, ScoreOfType
    <2>. QED  BY <2>3
  <1>3. CASE e.event_type = "Directory Traversal"
    <2>1. R("ME-009", {"Directory Traversal"}, 5, 30, AnyLog) \in AllRules
      BY DEF AllRules, MediumRules2
    <2>2. e.event_type \in {"Directory Traversal"}
      BY <1>3
    <2>3. 5 \in MatchedScores(e)
      BY <2>1, <2>2, ScoreOfType
    <2>. QED  BY <2>3
  <1>4. CASE e.event_type = "Command Injection Attempt"
    <2>1. R("HI-014", {"Command Injection Attempt"}, 8, 20, AnyLog) \in AllRules
      BY DEF AllRules, HighRules2
    <2>2. e.event_type \in {"Command Injection Attempt"}
      BY <1>4
    <2>3. 8 \in MatchedScores(e)
      BY <2>1, <2>2, ScoreOfType
    <2>. QED  BY <2>3
  <1>. QED  BY <1>1, <1>2, <1>3, <1>4 DEF RequestAttacks

\* HI-006 is for the parser of syslog only.
LEMMA SyslogAttacksScored ==
  ASSUME NEW e, e.log_type = "linux_syslog",
         e.event_type \in SyslogAttacks
  PROVE  \E s \in MatchedScores(e) : s \in 5 .. 10
  <1>1. CASE e.event_type = "Failed Login"
    <2>1. R("ME-001", {"Failed Login"}, 5, 30, AnyLog) \in AllRules
      BY DEF AllRules, MediumRules1
    <2>2. e.event_type \in {"Failed Login"}
      BY <1>1
    <2>3. 5 \in MatchedScores(e)
      BY <2>1, <2>2, ScoreOfType
    <2>. QED  BY <2>3
  <1>2. CASE e.event_type = "Privilege Escalation"
    <2>1. R("HI-006", {"Privilege Escalation"}, 7, 20, {"linux_syslog"}) \in AllRules
      BY DEF AllRules, HighRules1
    <2>2. e.event_type \in {"Privilege Escalation"} /\ e.log_type \in {"linux_syslog"}
      BY <1>2
    <2>3. 7 \in MatchedScores(e)
      BY <2>1, <2>2, ScoreOfType
    <2>. QED  BY <2>3
  <1>. QED  BY <1>1, <1>2 DEF SyslogAttacks

\* "LSASS Access (Credential Dump)" contains the pattern of CR-001.
LEMMA SysmonAttacksScored ==
  ASSUME NEW e, e.event_type \in SysmonAttacks
  PROVE  \E s \in MatchedScores(e) : s \in 5 .. 10
  <1>1. CASE e.event_type = "Credential Dumping Attempt"
    <2>1. R("CR-002", {"Credential Dumping Attempt"}, 10, 10, AnyLog) \in AllRules
      BY DEF AllRules, CriticalRules
    <2>2. e.event_type \in {"Credential Dumping Attempt"}
      BY <1>1
    <2>3. 10 \in MatchedScores(e)
      BY <2>1, <2>2, ScoreOfType
    <2>. QED  BY <2>3
  <1>2. CASE e.event_type = "Encoded PowerShell"
    <2>1. R("HI-001", {"Encoded PowerShell"}, 8, 15, AnyLog) \in AllRules
      BY DEF AllRules, HighRules1
    <2>2. e.event_type \in {"Encoded PowerShell"}
      BY <1>2
    <2>3. 8 \in MatchedScores(e)
      BY <2>1, <2>2, ScoreOfType
    <2>. QED  BY <2>3
  <1>3. CASE e.event_type \in {"LOLBin Execution", "Suspicious Child Process"}
    <2>1. R("HI-002", {"LOLBin Execution", "Suspicious Child Process"}, 7, 15, AnyLog) \in AllRules
      BY DEF AllRules, HighRules1
    <2>2. e.event_type \in {"LOLBin Execution", "Suspicious Child Process"}
      BY <1>3
    <2>3. 7 \in MatchedScores(e)
      BY <2>1, <2>2, ScoreOfType
    <2>. QED  BY <2>3
  <1>4. CASE e.event_type \in {"LSASS Injection", "LSASS Access (Credential Dump)"}
    <2>1. R("CR-001", {"LSASS Access", "LSASS Injection", "Credential Dumping"}, 10, 10, AnyLog)
            \in AllRules
      BY DEF AllRules, CriticalRules
    <2>2. \E pattern \in {"LSASS Access", "LSASS Injection", "Credential Dumping"} :
            Includes(e.event_type, pattern)
      BY <1>4 DEF Includes
    <2>3. 10 \in MatchedScores(e)
      BY <2>1, <2>2, ScoreOfRule
    <2>. QED  BY <2>3
  <1>5. CASE e.event_type = "Registry Persistence"
    <2>1. R("HI-003", {"Registry Persistence"}, 8, 15, AnyLog) \in AllRules
      BY DEF AllRules, HighRules1
    <2>2. e.event_type \in {"Registry Persistence"}
      BY <1>5
    <2>3. 8 \in MatchedScores(e)
      BY <2>1, <2>2, ScoreOfType
    <2>. QED  BY <2>3
  <1>. QED  BY <1>1, <1>2, <1>3, <1>4, <1>5 DEF SysmonAttacks

-----------------------------------------------------------------------------
(* The parsers *)

\* The first of the rules that fit.
LEMMA MinIsLeast ==
  ASSUME NEW S \in SUBSET Nat, S # {}, NEW m, m = Min(S)
  PROVE  m \in S /\ \A y \in S : m <= y
  BY Least DEF Min

\* What an event is made of.
LEMMA EventFields ==
  ASSUME NEW log_type, NEW event_type, NEW fields, NEW data, NEW raw
  PROVE  LET e == NormalizedEventOf(log_type, event_type, fields, data, raw)
         IN  e.log_type = log_type /\ e.event_type = event_type
  BY DEF NormalizedEventOf

\* The rows of the tables of the parsers that matter here.
LEMMA RequestTable ==
  /\ DOMAIN RequestRules = 1 .. 7
  /\ RequestRules[1].on = "sql_injection" /\ RequestRules[1].type = "SQL Injection Attempt"
  /\ RequestRules[2].on = "xss" /\ RequestRules[2].type = "XSS Attempt"
  /\ RequestRules[3].on = "traversal" /\ RequestRules[3].type = "Directory Traversal"
  /\ RequestRules[4].on = "command_injection" /\ RequestRules[4].type = "Command Injection Attempt"
  <1>1. DOMAIN RequestRules = 1 .. 7
    BY DEF RequestRules
  <1>2. RequestRules[1].on = "sql_injection" /\ RequestRules[1].type = "SQL Injection Attempt"
    BY DEF RequestRules
  <1>3. RequestRules[2].on = "xss" /\ RequestRules[2].type = "XSS Attempt"
    BY DEF RequestRules
  <1>4. RequestRules[3].on = "traversal" /\ RequestRules[3].type = "Directory Traversal"
    BY DEF RequestRules
  <1>5. RequestRules[4].on = "command_injection" /\ RequestRules[4].type = "Command Injection Attempt"
    BY DEF RequestRules
  <1>. QED  BY <1>1, <1>2, <1>3, <1>4, <1>5

LEMMA SyslogTable ==
  /\ DOMAIN SyslogRules = 1 .. 9
  /\ SyslogRules[1].needs = {"sshd", "ssh_failed"} /\ SyslogRules[1].type = "Failed Login"
  /\ SyslogRules[2].needs = {"sshd", "ssh_accepted"}
  /\ SyslogRules[3].needs = {"sshd", "ssh_invalid"}
  /\ SyslogRules[4].needs = {"sshd", "ssh_max_auth"}
  /\ SyslogRules[5].needs = {"sudo", "sudo_command"}
  /\ SyslogRules[5].type = "Privilege Escalation"
  <1>1. DOMAIN SyslogRules = 1 .. 9
    BY DEF SyslogRules
  <1>2. SyslogRules[1].needs = {"sshd", "ssh_failed"} /\ SyslogRules[1].type = "Failed Login"
    BY DEF SyslogRules
  <1>3. SyslogRules[2].needs = {"sshd", "ssh_accepted"}
    BY DEF SyslogRules
  <1>4. SyslogRules[3].needs = {"sshd", "ssh_invalid"}
    BY DEF SyslogRules
  <1>5. SyslogRules[4].needs = {"sshd", "ssh_max_auth"}
    BY DEF SyslogRules
  <1>6. SyslogRules[5].needs = {"sudo", "sudo_command"}
    BY DEF SyslogRules
  <1>7. SyslogRules[5].type = "Privilege Escalation"
    BY DEF SyslogRules
  <1>. QED  BY <1>1, <1>2, <1>3, <1>4, <1>5, <1>6, <1>7

LEMMA SysmonTable ==
  /\ DOMAIN SysmonRules = 1 .. 11
  /\ SysmonRules[1].ids = {1} /\ SysmonRules[1].needs = {"mimikatz"}
  /\ SysmonRules[1].type = "Credential Dumping Attempt"
  /\ SysmonRules[2].ids = {1} /\ SysmonRules[2].needs = {"encoded_command"}
  /\ SysmonRules[2].type = "Encoded PowerShell"
  /\ SysmonRules[3].ids = {1} /\ SysmonRules[3].type = "Suspicious Child Process"
  /\ SysmonRules[4].ids = {1} /\ SysmonRules[4].needs = {"lolbin"}
  /\ SysmonRules[4].type = "LOLBin Execution"
  /\ SysmonRules[5].ids = {3} /\ SysmonRules[6].ids = {7} /\ SysmonRules[7].ids = {7}
  /\ SysmonRules[8].ids = {8} /\ SysmonRules[8].needs = {"lsass"}
  /\ SysmonRules[8].type = "LSASS Injection"
  /\ SysmonRules[9].ids = {10} /\ SysmonRules[9].needs = {"lsass"}
  /\ SysmonRules[9].type = "LSASS Access (Credential Dump)"
  /\ SysmonRules[10].ids = {11}
  /\ SysmonRules[11].ids = {12, 13} /\ SysmonRules[11].needs = {"persistence_key"}
  /\ SysmonRules[11].type = "Registry Persistence"
  <1>1. DOMAIN SysmonRules = 1 .. 11
    BY DEF SysmonRules
  <1>2. SysmonRules[1].ids = {1} /\ SysmonRules[1].needs = {"mimikatz"}
    BY DEF SysmonRules
  <1>3. SysmonRules[1].type = "Credential Dumping Attempt"
    BY DEF SysmonRules
  <1>4. SysmonRules[2].ids = {1} /\ SysmonRules[2].needs = {"encoded_command"}
    BY DEF SysmonRules
  <1>5. SysmonRules[2].type = "Encoded PowerShell"
    BY DEF SysmonRules
  <1>6. SysmonRules[3].ids = {1} /\ SysmonRules[3].type = "Suspicious Child Process"
    BY DEF SysmonRules
  <1>7. SysmonRules[4].ids = {1} /\ SysmonRules[4].needs = {"lolbin"}
    BY DEF SysmonRules
  <1>8. SysmonRules[4].type = "LOLBin Execution"
    BY DEF SysmonRules
  <1>9. SysmonRules[5].ids = {3} /\ SysmonRules[6].ids = {7} /\ SysmonRules[7].ids = {7}
    BY DEF SysmonRules
  <1>10. SysmonRules[8].ids = {8} /\ SysmonRules[8].needs = {"lsass"}
    BY DEF SysmonRules
  <1>11. SysmonRules[8].type = "LSASS Injection"
    BY DEF SysmonRules
  <1>12. SysmonRules[9].ids = {10} /\ SysmonRules[9].needs = {"lsass"}
    BY DEF SysmonRules
  <1>13. SysmonRules[9].type = "LSASS Access (Credential Dump)"
    BY DEF SysmonRules
  <1>14. SysmonRules[10].ids = {11}
    BY DEF SysmonRules
  <1>15. SysmonRules[11].ids = {12, 13} /\ SysmonRules[11].needs = {"persistence_key"}
    BY DEF SysmonRules
  <1>16. SysmonRules[11].type = "Registry Persistence"
    BY DEF SysmonRules
  <1>. QED  BY <1>1, <1>2, <1>3, <1>4, <1>5, <1>6, <1>7, <1>8, <1>9, <1>10, <1>11, <1>12, <1>13, <1>14, <1>15, <1>16

\* The positions of the rules that fit a line.
RequestFits(shown) == {i \in DOMAIN RequestRules : RequestRules[i].on \in shown}
SyslogFits(says)   == {i \in DOMAIN SyslogRules : SyslogRules[i].needs \subseteq says}
SysmonFits(number, seen) ==
  {i \in DOMAIN SysmonRules : number \in SysmonRules[i].ids /\ SysmonRules[i].needs \subseteq seen}

\* Which rows fit, by what a line shows.
LEMMA RequestFit ==
  ASSUME NEW shown
  PROVE  /\ RequestFits(shown) \in SUBSET (1 .. 7)
         /\ "sql_injection" \in shown => 1 \in RequestFits(shown)
         /\ "xss" \in shown => 2 \in RequestFits(shown)
         /\ "traversal" \in shown => 3 \in RequestFits(shown)
         /\ "command_injection" \in shown => 4 \in RequestFits(shown)
  <1>1. RequestFits(shown) \in SUBSET (1 .. 7)
    BY RequestTable DEF RequestFits
  <1>2. \A i \in 1 .. 7 : i \in RequestFits(shown) <=> RequestRules[i].on \in shown
    BY RequestTable DEF RequestFits
  <1>3. /\ "sql_injection" \in shown => RequestRules[1].on \in shown
        /\ "xss" \in shown => RequestRules[2].on \in shown
        /\ "traversal" \in shown => RequestRules[3].on \in shown
        /\ "command_injection" \in shown => RequestRules[4].on \in shown
    BY RequestTable
  <1>. QED  BY <1>1, <1>2, <1>3

LEMMA SyslogFit ==
  ASSUME NEW says
  PROVE  /\ SyslogFits(says) \in SUBSET (1 .. 9)
         /\ "sshd" \in says /\ "ssh_failed" \in says => 1 \in SyslogFits(says)
         /\ "sudo" \in says /\ "sudo_command" \in says => 5 \in SyslogFits(says)
         /\ "sshd" \notin says => /\ 1 \notin SyslogFits(says) /\ 2 \notin SyslogFits(says)
                                  /\ 3 \notin SyslogFits(says) /\ 4 \notin SyslogFits(says)
  <1>1. SyslogFits(says) \in SUBSET (1 .. 9)
    BY SyslogTable DEF SyslogFits
  <1>2. \A i \in 1 .. 9 : i \in SyslogFits(says) <=> SyslogRules[i].needs \subseteq says
    BY SyslogTable DEF SyslogFits
  <1>3. "sshd" \in says /\ "ssh_failed" \in says => SyslogRules[1].needs \subseteq says
    BY SyslogTable
  <1>4. "sudo" \in says /\ "sudo_command" \in says => SyslogRules[5].needs \subseteq says
    BY SyslogTable
  <1>5. /\ "sshd" \in SyslogRules[1].needs /\ "sshd" \in SyslogRules[2].needs
        /\ "sshd" \in SyslogRules[3].needs /\ "sshd" \in SyslogRules[4].needs
    BY SyslogTable
  <1>. QED  BY <1>1, <1>2, <1>3, <1>4, <1>5

LEMMA SysmonFit ==
  ASSUME NEW number, NEW seen
  PROVE  /\ SysmonFits(number, seen) \in SUBSET (1 .. 11)
         /\ number = 1 /\ "mimikatz" \in seen => 1 \in SysmonFits(number, seen)
         /\ number = 1 /\ "encoded_command" \in seen => 2 \in SysmonFits(number, seen)
         /\ number = 1 /\ "lolbin" \in seen => 4 \in SysmonFits(number, seen)
         /\ number = 8 /\ "lsass" \in seen => 8 \in SysmonFits(number, seen)
         /\ number = 10 /\ "lsass" \in seen => 9 \in SysmonFits(number, seen)
         /\ number \in {12, 13} /\ "persistence_key" \in seen => 11 \in SysmonFits(number, seen)
         /\ number \in {1, 8, 10, 12, 13} =>
              /\ 5 \notin SysmonFits(number, seen) /\ 6 \notin SysmonFits(number, seen)
              /\ 7 \notin SysmonFits(number, seen) /\ 10 \notin SysmonFits(number, seen)
  <1>1. SysmonFits(number, seen) \in SUBSET (1 .. 11)
    BY SysmonTable DEF SysmonFits
  <1>2. \A i \in 1 .. 11 : i \in SysmonFits(number, seen) <=>
          number \in SysmonRules[i].ids /\ SysmonRules[i].needs \subseteq seen
    BY SysmonTable DEF SysmonFits
  <1>3. /\ "mimikatz" \in seen => SysmonRules[1].needs \subseteq seen
        /\ "encoded_command" \in seen => SysmonRules[2].needs \subseteq seen
        /\ "lolbin" \in seen => SysmonRules[4].needs \subseteq seen
        /\ "lsass" \in seen => SysmonRules[8].needs \subseteq seen
        /\ "lsass" \in seen => SysmonRules[9].needs \subseteq seen
        /\ "persistence_key" \in seen => SysmonRules[11].needs \subseteq seen
    BY SysmonTable
  <1>4. /\ SysmonRules[1].ids = {1} /\ SysmonRules[2].ids = {1} /\ SysmonRules[4].ids = {1}
        /\ SysmonRules[8].ids = {8} /\ SysmonRules[9].ids = {10} /\ SysmonRules[11].ids = {12, 13}
        /\ SysmonRules[5].ids = {3} /\ SysmonRules[6].ids = {7} /\ SysmonRules[7].ids = {7}
        /\ SysmonRules[10].ids = {11}
    BY SysmonTable
  <1>. QED  BY <1>1, <1>2, <1>3, <1>4

\* A request that shows one of the four attacks is named after one of them: their
\* patterns are tried before those of scanners and sizes, and before the status.
LEMMA RequestNamed ==
  ASSUME NEW shown, NEW status,
         "sql_injection" \in shown \/ "xss" \in shown \/ "traversal" \in shown
           \/ "command_injection" \in shown
  PROVE  ClassifyRequest(shown, status).type \in RequestAttacks
  <1> DEFINE fits == RequestFits(shown)
  <1>1. /\ RequestRules[1].type \in RequestAttacks /\ RequestRules[2].type \in RequestAttacks
        /\ RequestRules[3].type \in RequestAttacks /\ RequestRules[4].type \in RequestAttacks
    BY RequestTable DEF RequestAttacks
  <1>2. /\ fits \in SUBSET (1 .. 7)
        /\ 1 \in fits \/ 2 \in fits \/ 3 \in fits \/ 4 \in fits
    BY RequestFit
  <1>3. PICK m : m = Min(fits)
    OBVIOUS
  <1>4. ClassifyRequest(shown, status) =
          IF fits # {} THEN RequestRules[m] ELSE [type |-> StatusType(status), adds |-> <<>>]
    BY <1>3 DEF ClassifyRequest, RequestFits
  <1> HIDE DEF fits
  <1>5. fits # {} /\ m \in fits /\ \A i \in fits : m <= i
    <2>1. fits \in SUBSET Nat /\ fits # {}
      BY <1>2
    <2>. QED  BY <1>3, <2>1, MinIsLeast
  <1>6. m = 1 \/ m = 2 \/ m = 3 \/ m = 4
    BY <1>2, <1>5
  <1>. QED  BY <1>1, <1>4, <1>5, <1>6

\* A failed login, or a command run by sudo, is named as such.
LEMMA SyslogNamed ==
  ASSUME NEW l,
         \/ "sshd" \in l.says /\ "ssh_failed" \in l.says
         \/ "sudo" \in l.says /\ "sudo_command" \in l.says /\ "sshd" \notin l.says
  PROVE  /\ SyslogEvent(l).log_type = "linux_syslog"
         /\ SyslogEvent(l).event_type \in SyslogAttacks
  <1> DEFINE fits == SyslogFits(l.says)
  <1>1. fits \in SUBSET (1 .. 9)
    BY SyslogFit
  <1>2. 1 \in fits \/ (5 \in fits /\ 1 \notin fits /\ 2 \notin fits /\ 3 \notin fits /\ 4 \notin fits)
    BY SyslogFit
  <1>3. PICK m : m = Min(fits)
    OBVIOUS
  <1>4. SyslogEvent(l).log_type = "linux_syslog" /\ SyslogEvent(l).event_type = SyslogRules[m].type
    BY <1>3, Zenon DEF SyslogEvent, SyslogFits, NormalizedEventOf
  <1> HIDE DEF fits
  <1>5. m \in fits /\ \A i \in fits : m <= i
    <2>1. fits \in SUBSET Nat /\ fits # {}
      BY <1>1, <1>2
    <2>. QED  BY <1>3, <2>1, MinIsLeast
  <1>6. m = 1 \/ m = 5
    BY <1>1, <1>2, <1>5
  <1>7. SyslogRules[m].type = "Failed Login" \/ SyslogRules[m].type = "Privilege Escalation"
    BY <1>6, SyslogTable
  <1>. QED  BY <1>4, <1>7 DEF SyslogAttacks

\* An event of Sysmon that shows one of its attacks is named by the enricher of its number.
LEMMA SysmonNamed ==
  ASSUME NEW l, SysmonEvent(l) # Unparsed, "single_quoted" \in l.says,
         \/ /\ l.number = 1
            /\ "mimikatz" \in l.says \/ "encoded_command" \in l.says \/ "lolbin" \in l.says
         \/ (l.number = 8 \/ l.number = 10) /\ "lsass" \in l.says
         \/ l.number \in {12, 13} /\ "persistence_key" \in l.says
  PROVE  SysmonEvent(l).event_type \in SysmonAttacks
  <1> DEFINE fits == SysmonFits(l.number, Seen(l))
  <1>1. /\ SysmonRules[1].type \in SysmonAttacks /\ SysmonRules[2].type \in SysmonAttacks
        /\ SysmonRules[3].type \in SysmonAttacks /\ SysmonRules[4].type \in SysmonAttacks
        /\ SysmonRules[8].type \in SysmonAttacks /\ SysmonRules[9].type \in SysmonAttacks
        /\ SysmonRules[11].type \in SysmonAttacks
    BY SysmonTable DEF SysmonAttacks
  <1>2. l.says \subseteq Seen(l)
    BY DEF Seen
  <1>3. fits \in SUBSET (1 .. 11)
    BY SysmonFit
  <1>4. /\ 5 \notin fits /\ 6 \notin fits /\ 7 \notin fits /\ 10 \notin fits
        /\ fits # {}
    BY <1>2, SysmonFit
  <1>5. PICK m : m = Min(fits)
    OBVIOUS
  <1>6. SysmonEvent(l).event_type =
          IF fits # {} THEN SysmonRules[m].type ELSE SysmonType(l.number)
    BY <1>5, Zenon DEF SysmonEvent, SysmonFits, NormalizedEventOf
  <1> HIDE DEF fits
  <1>7. m \in fits
    <2>1. fits \in SUBSET Nat
      BY <1>3
    <2>. QED  BY <1>4, <1>5, <2>1, MinIsLeast
  <1>8. m = 1 \/ m = 2 \/ m = 3 \/ m = 4 \/ m = 8 \/ m = 9 \/ m = 11
    BY <1>3, <1>4, <1>7
  <1>. QED  BY <1>1, <1>4, <1>6, <1>8

\* Whatever parser reads an attack, a rule of 5 or more matches what it makes of it.
LEMMA AttackScored ==
  ASSUME NEW f, NEW l, AttackLine(f, l), ParseWith(f, l) # Unparsed
  PROVE  \E s \in MatchedScores(ParseWith(f, l)) : s \in 5 .. 10
  <1> DEFINE e == ParseWith(f, l)
  <1>1. l.shape # "blank"
    BY DEF ParseWith
  <1>2. CASE /\ f = "apache_access" /\ l.shape \in {"access", "raw_request"}
             /\ Shows(f, l) \cap {"sql_injection", "xss", "traversal", "command_injection"} # {}
    <2>1. e = ApacheEvent(l)
      BY <1>1, <1>2 DEF ParseWith
    <2>2. e = ApacheRequest(l)
      BY <1>2, <2>1 DEF ApacheEvent
    <2>3. e.event_type = ClassifyRequest(Shows("apache_access", l), l.number).type
      BY <2>2, EventFields DEF ApacheRequest
    <2>. QED  BY <1>2, <2>3, RequestNamed, RequestAttacksScored
  <1>3. CASE /\ f = "nginx_access" /\ l.shape \in {"access", "raw_request"}
             /\ Shows(f, l) \cap {"sql_injection", "xss", "traversal", "command_injection"} # {}
    <2>1. e = NginxEvent(l)
      BY <1>1, <1>3 DEF ParseWith
    <2>2. e = NginxRequest(l)
      BY <1>3, <2>1 DEF NginxEvent
    <2>3. e.event_type = ClassifyRequest(Shows("nginx_access", l), l.number).type
      BY <2>2, EventFields DEF NginxRequest
    <2>. QED  BY <1>3, <2>3, RequestNamed, RequestAttacksScored
  <1>4. CASE /\ f = "linux_syslog"
             /\ \/ {"sshd", "ssh_failed"} \subseteq l.says
                \/ {"sudo", "sudo_command"} \subseteq l.says /\ "sshd" \notin l.says
    <2>1. e = SyslogEvent(l)
      BY <1>1, <1>4 DEF ParseWith
    <2>. QED  BY <1>4, <2>1, SyslogNamed, SyslogAttacksScored
  <1>5. CASE /\ f = "sysmon" /\ "single_quoted" \in l.says
             /\ \/ l.number = 1 /\ l.says \cap {"mimikatz", "encoded_command", "lolbin"} # {}
                \/ l.number \in {8, 10} /\ "lsass" \in l.says
                \/ l.number \in {12, 13} /\ "persistence_key" \in l.says
    <2>1. e = SysmonEvent(l)
      BY <1>1, <1>5 DEF ParseWith
    <2>. QED  BY <1>5, <2>1, SysmonNamed, SysmonAttacksScored
  <1>. QED  BY <1>2, <1>3, <1>4, <1>5 DEF AttackLine

-----------------------------------------------------------------------------
(* The pipeline *)

\* Each event of a result has the score of the event its line was parsed to.
Scored(x) ==
  \A i \in DOMAIN x.processed :
    /\ EventAt(x, x.processed[i].line) # NoEvent
    /\ x.processed[i].score = SeverityScore(EventAt(x, x.processed[i].line))

\* An element of a sequence.
LEMMA ElementOf ==
  ASSUME NEW S, NEW s \in Seq(S), NEW i \in DOMAIN s
  PROVE  s[i] \in S
  OBVIOUS

\* A line keeps its event while a run goes on with its log.
LEMMA SameEvent ==
  ASSUME NEW x, NEW y, SameLog(x, y), y.type = x.type
  PROVE  \A i : EventAt(y, i) = EventAt(x, i)
  BY DEF SameLog, EventAt

\* Only Processes adds an event, with the score of the line it is at.
LEMMA ScoredMove ==
  ASSUME NEW x \in RunType, NEW y, Moves(x, y), Scored(x)
  PROVE  Scored(y)
  <1>1. CASE Prepares(x, y)
    BY <1>1 DEF Prepares, Fresh, Scored
  <1>2. CASE Skips(x, y) \/ FailsToExtract(x, y) \/ FailsToClassify(x, y) \/ Finishes(x, y)
    <2>1. SameLog(x, y) /\ y.type = x.type /\ y.processed = x.processed
      BY <1>2 DEF Skips, FailsToExtract, FailsToClassify, Finishes, Advances
    <2>. QED  BY <2>1, SameEvent DEF Scored
  <1>3. CASE Processes(x, y)
    <2> DEFINE new == [line |-> x.next, score |-> SeverityScore(Here(x))]
    <2>1. /\ SameLog(x, y) /\ y.type = x.type /\ Here(x) # NoEvent
          /\ y.processed = Append(x.processed, new)
      BY <1>3 DEF Processes, Advances
    <2>2. x.processed \in Seq(Event)
      BY Rebuild
    <2>3. new.line = x.next /\ new.score = SeverityScore(Here(x))
      OBVIOUS
    <2> HIDE DEF new
    <2>4. ASSUME NEW i \in DOMAIN y.processed
          PROVE  (i \in DOMAIN x.processed /\ y.processed[i] = x.processed[i]) \/ y.processed[i] = new
      BY <2>1, <2>2
    <2>. QED  BY <2>1, <2>3, <2>4, SameEvent DEF Scored, Here
  <1>. QED  BY <1>1, <1>2, <1>3 DEF Moves

AllScored == \A r \in Run : Scored(run[r])

LEMMA AllScoredInvariant == Spec => []AllScored
  <1>1. Init => AllScored
    BY DEF Init, AllScored, Scored, NoRun
  <1>2. Typed /\ AllScored /\ [Next]_vars => AllScored'
    <2> SUFFICES ASSUME Typed, AllScored, [Next]_vars, NEW r \in Run
                 PROVE  Scored(run[r])'
      BY DEF AllScored
    <2>1. run[r] \in RunType /\ Scored(run[r])
      BY DEF Typed, AllScored
    <2>2. Scored(run'[r])
      BY <2>1, EveryStep, ScoredMove
    <2>. QED  BY <2>2 DEF Scored, EventAt
  <1>. QED  BY <1>1, <1>2, TypedInvariant, PTL DEF Spec

\* What the pipeline keeps of a line is what the parts compute.
LEMMA ParsedEvent ==
  ASSUME NEW f \in Format \cup {"unknown"}, NEW l \in Line, ParseLine[f][l] # NoEvent
  PROVE  /\ ParseLine[f][l] \in NormalizedEvent
         /\ ParseWith(f, Content[l]) # Unparsed
         /\ Matched[ParseLine[f][l]] = MatchedScores(ParseWith(f, Content[l]))
  <1>1. ParseLine[f][l] \in NormalizedEvent
    BY LineEvent
  <1>2. NoEvent = Unparsed
    BY AnalysisAssumption
  <1>3. \/ ParseWith(f, Content[l]) = Unparsed /\ ParseLine[f][l] = Unparsed
        \/ /\ ParseWith(f, Content[l]) # Unparsed
           /\ ParseLine[f][l] = [log_type |-> f, line |-> l]
           /\ Matched[[log_type |-> f, line |-> l]] = MatchedScores(ParseWith(f, Content[l]))
    BY AnalysisAssumption, Zenon
  <1>. QED  BY <1>1, <1>2, <1>3

\* A line of a result that shows an attack its parser reads is a threat, whatever else
\* the line shows, and whichever threads run (parsers, mitre_rules.py and is_threat).
THEOREM AttacksAreThreats == Spec => []AttackLinesAreThreats
  <1>1. Typed /\ AllScored => AttackLinesAreThreats
    <2> SUFFICES ASSUME Typed, AllScored, NEW r \in Run, NEW i \in DOMAIN run[r].processed,
                        AttackLine(run[r].type, Content[run[r].text[run[r].processed[i].line]])
                 PROVE  IsThreat(run[r].processed[i].score)
      BY DEF AttackLinesAreThreats
    <2> DEFINE x == run[r]
               l == x.text[x.processed[i].line]
               e == ParseLine[x.type][l]
    <2>1. x \in RunType /\ Placed(x)
      BY DEF Typed
    <2>2. x.type \in Format \cup {"unknown"} /\ x.text \in Seq(Line)
      BY <2>1, Rebuild
    <2>3. x.processed \in Seq([line : 1 .. Len(x.text), score : 1 .. 10])
      BY <2>1, LinesType
    <2>4. x.processed[i].line \in 1 .. Len(x.text)
      <3>1. x.processed[i] \in [line : 1 .. Len(x.text), score : 1 .. 10]
        BY <2>3, ElementOf
      <3>. QED  BY <3>1
    <2>5. l \in Line
      BY <2>2, <2>4
    <2>6. e # NoEvent /\ x.processed[i].score = SeverityScore(e)
      BY DEF AllScored, Scored, EventAt
    <2> HIDE DEF x, l
    <2>7. /\ e \in NormalizedEvent /\ ParseWith(x.type, Content[l]) # Unparsed
          /\ Matched[e] = MatchedScores(ParseWith(x.type, Content[l]))
      BY <2>2, <2>5, <2>6, ParsedEvent
    <2>8. AttackLine(x.type, Content[l])
      BY DEF x, l
    <2>9. PICK s \in Matched[e] : s \in 5 .. 10
      BY <2>7, <2>8, AttackScored
    <2>10. SeverityScore(e) \in 1 .. 10 /\ s <= SeverityScore(e)
      BY <2>7, <2>9, ScoreIsHighest
    <2>. QED  BY <2>6, <2>9, <2>10 DEF IsThreat, x
  <1>. QED  BY <1>1, TypedInvariant, AllScoredInvariant, PTL

-----------------------------------------------------------------------------
(* Sequences: induction over the set of the lengths that have a property *)

\* A set of numbers that is not empty has a smallest one.
LEMMA LeastNumber ==
  ASSUME NEW S \in SUBSET Nat, S # {}
  PROVE  \E b \in S : \A m \in S : b <= m
  <1>1. PICK b \in S : \A m \in S : ~ (<<m, b>> \in OpToRel(<, Nat))
    BY NatLessThanWellFounded, WFMin
  <1>2. ASSUME NEW m \in S PROVE b <= m
    <2>1. b \in Nat /\ m \in Nat /\ <<m, b>> \in Nat \X Nat
      OBVIOUS
    <2>2. <<m, b>>[1] = m /\ <<m, b>>[2] = b
      OBVIOUS
    <2>3. ~(m < b)
      BY <1>1, <2>1, <2>2 DEF OpToRel
    <2>. QED  BY <2>1, <2>3
  <1>. QED  BY <1>2

\* Induction up to a length, over the set of the numbers that have a property.
LEMMA UpTo ==
  ASSUME NEW n \in Nat, NEW S, 0 \in S, \A i \in 0 .. n - 1 : i \in S => i + 1 \in S
  PROVE  0 .. n \subseteq S
  <1> DEFINE Bad == {i \in 0 .. n : i \notin S}
  <1> SUFFICES ASSUME Bad # {} PROVE FALSE
    OBVIOUS
  <1>0. Bad \in SUBSET Nat
    OBVIOUS
  <1>1. PICK b \in Bad : \A m \in Bad : b <= m
    BY <1>0, LeastNumber
  <1>2. b \in 0 .. n /\ b \notin S /\ b # 0
    OBVIOUS
  <1>3. b - 1 \in 0 .. n - 1 /\ b - 1 \in 0 .. n /\ (b - 1) + 1 = b
    BY <1>2
  <1>4. b - 1 \in S
    BY <1>1, <1>3
  <1>. QED  BY <1>2, <1>3, <1>4

\* The concatenation of two sequences.
LEMMA Concatenated ==
  ASSUME NEW X, NEW s \in Seq(X), NEW t \in Seq(X)
  PROVE  s \o t \in Seq(X) /\ ToSet(s \o t) = ToSet(s) \cup ToSet(t)
  <1>1. s \o t \in Seq(X) /\ Len(s \o t) = Len(s) + Len(t) /\ Len(s) \in Nat /\ Len(t) \in Nat
    OBVIOUS
  <1>2. \A i \in 1 .. Len(s) : i \in DOMAIN (s \o t) /\ (s \o t)[i] = s[i]
    BY <1>1
  <1>3. \A i \in 1 .. Len(t) : Len(s) + i \in DOMAIN (s \o t) /\ (s \o t)[Len(s) + i] = t[i]
    BY <1>1
  <1>4. \A i \in DOMAIN (s \o t) : i \in 1 .. Len(s) \/ (i - Len(s) \in 1 .. Len(t)
                                                        /\ i = Len(s) + (i - Len(s)))
    BY <1>1
  <1>5. ASSUME NEW x \in ToSet(s) \cup ToSet(t) PROVE x \in ToSet(s \o t)
    <2>1. CASE x \in ToSet(s)
      <3>1. PICK i \in DOMAIN s : x = s[i]
        BY <2>1 DEF ToSet
      <3>. QED  BY <1>2, <3>1 DEF ToSet
    <2>2. CASE x \in ToSet(t)
      <3>1. PICK i \in DOMAIN t : x = t[i]
        BY <2>2 DEF ToSet
      <3>2. Len(s) + i \in DOMAIN (s \o t) /\ x = (s \o t)[Len(s) + i]
        BY <1>3, <3>1
      <3>. QED  BY <3>2 DEF ToSet
    <2>. QED  BY <2>1, <2>2
  <1>6. ASSUME NEW x \in ToSet(s \o t) PROVE x \in ToSet(s) \cup ToSet(t)
    <2>1. PICK i \in DOMAIN (s \o t) : x = (s \o t)[i]
      BY DEF ToSet
    <2>2. CASE i \in 1 .. Len(s)
      BY <1>2, <2>1, <2>2 DEF ToSet
    <2>3. CASE i - Len(s) \in 1 .. Len(t) /\ i = Len(s) + (i - Len(s))
      <3>1. i - Len(s) \in DOMAIN t /\ x = t[i - Len(s)]
        BY <1>3, <2>1, <2>3
      <3>. QED  BY <3>1 DEF ToSet
    <2>. QED  BY <1>4, <2>1, <2>2, <2>3
  <1>. QED  BY <1>1, <1>5, <1>6

\* A function that FlattenSeq defines by recursion.
Flattens(g, ss, k) == g = [i \in 1 .. k |-> IF i = 1 THEN ss[i] ELSE g[i - 1] \o ss[i]]

\* FlattenSeq holds what its sequences hold.
LEMMA Flattened ==
  ASSUME NEW X, NEW ss \in Seq(Seq(X))
  PROVE  /\ FlattenSeq(ss) \in Seq(X)
         /\ ToSet(FlattenSeq(ss)) = UNION {ToSet(ss[i]) : i \in DOMAIN ss}
  <1> DEFINE n == Len(ss)
  <1>0. n \in Nat /\ DOMAIN ss = 1 .. n /\ \A i \in 1 .. n : ss[i] \in Seq(X)
    OBVIOUS
  <1>3. FlattenSeq(ss) = IF n = 0 THEN ss ELSE (CHOOSE g : Flattens(g, ss, n))[n]
    BY DEF FlattenSeq, Flattens
  <1> HIDE DEF n
  <1>1. CASE n = 0
    <2>1. FlattenSeq(ss) = ss /\ ss = <<>>
      BY <1>0, <1>1, <1>3
    <2>. QED  BY <2>1 DEF ToSet
  <1>2. CASE n # 0
    <2> DEFINE D == {k \in Nat : \E g : Flattens(g, ss, k)}
               f == CHOOSE g : Flattens(g, ss, n)
               E == {k \in Nat : k = 0 \/ /\ f[k] \in Seq(X)
                                          /\ ToSet(f[k]) = UNION {ToSet(ss[i]) : i \in 1 .. k}}
    <2>1. 0 \in D
      <3>1. Flattens([i \in {} |-> i], ss, 0)
        BY DEF Flattens
      <3>. QED  BY <3>1
    <2>2. ASSUME NEW k \in 0 .. n - 1, k \in D PROVE k + 1 \in D
      <3>1. PICK g : Flattens(g, ss, k)
        BY <2>2
      <3> DEFINE h == [i \in 1 .. k + 1 |-> IF i = 1 THEN ss[i] ELSE g[i - 1] \o ss[i]]
      <3>0. k \in Nat
        OBVIOUS
      <3>2. ASSUME NEW i \in 1 .. k PROVE h[i] = g[i]
        <4>1. i \in 1 .. k + 1
          BY <3>0
        <4>. QED  BY <3>1, <4>1 DEF Flattens
      <3>3. \A i \in 1 .. k + 1 : i # 1 => i - 1 \in 1 .. k
        BY <3>0
      <3>4. Flattens(h, ss, k + 1)
        BY <3>2, <3>3 DEF Flattens
      <3>. QED  BY <3>4
    <2>3. n \in D
      <3> HIDE DEF D
      <3>1. 0 .. n \subseteq D
        BY <1>0, <2>1, <2>2, UpTo
      <3>. QED  BY <1>0, <3>1
    <2>4. Flattens(f, ss, n)
      BY <2>3
    <2>5. FlattenSeq(ss) = f[n]
      BY <1>2, <1>3
    <2> HIDE DEF f
    <2>6. ASSUME NEW k \in 0 .. n - 1, k \in E PROVE k + 1 \in E
      <3>1. k + 1 \in 1 .. n /\ ss[k + 1] \in Seq(X)
        BY <1>0
      <3>2. f[k + 1] = IF k = 0 THEN ss[1] ELSE f[k] \o ss[k + 1]
        <4>1. k \in Nat /\ (k + 1) - 1 = k /\ (k + 1 = 1 <=> k = 0)
          OBVIOUS
        <4>2. f = [i \in 1 .. n |-> IF i = 1 THEN ss[i] ELSE f[i - 1] \o ss[i]]
          BY <2>4 DEF Flattens
        <4>3. f[k + 1] = IF k + 1 = 1 THEN ss[k + 1] ELSE f[(k + 1) - 1] \o ss[k + 1]
          BY <3>1, <4>2
        <4>. QED  BY <4>1, <4>3
      <3>3. 1 .. k + 1 = 1 .. k \cup {k + 1}
        OBVIOUS
      <3>4. CASE k = 0
        BY <3>1, <3>2, <3>3, <3>4
      <3>5. CASE k # 0
        <4>1. f[k] \in Seq(X) /\ ToSet(f[k]) = UNION {ToSet(ss[i]) : i \in 1 .. k}
          BY <2>6, <3>5
        <4>2. f[k + 1] \in Seq(X) /\ ToSet(f[k + 1]) = ToSet(f[k]) \cup ToSet(ss[k + 1])
          BY <3>1, <3>2, <3>5, <4>1, Concatenated
        <4>. QED  BY <3>3, <4>1, <4>2
      <3>. QED  BY <3>4, <3>5
    <2>7. 0 \in E
      OBVIOUS
    <2>8. n \in E
      <3> HIDE DEF E
      <3>1. 0 .. n \subseteq E
        BY <1>0, <2>6, <2>7, UpTo
      <3>. QED  BY <1>0, <3>1
    <2>. QED  BY <1>0, <1>2, <2>5, <2>8
  <1>. QED  BY <1>1, <1>2

-----------------------------------------------------------------------------
(* The folds of the extractor, step by step *)

\* One step of the scan: of the raw line, or of the fields.
Step(from, t, x) == IF from = "raw" THEN AddRaw(t, x) ELSE Add(t, x)

Scan(from, base, s) == FoldLeft(LAMBDA t, x : Step(from, t, x), base, s)

\* A function that FoldLeft defines by recursion.
Folds(g, from, base, s, k) ==
  g = [t \in SUBSET (1 .. k) |-> IF t = {} THEN base ELSE Step(from, g[t \ {Max(t)}], s[Max(t)])]

\* The highest of the positions up to k + 1.
LEMMA HighestIn ==
  ASSUME NEW k \in Nat, NEW t \in SUBSET (1 .. k + 1), k + 1 \in t
  PROVE  Max(t) = k + 1
  <1>1. \A x \in t : x \in Nat /\ k + 1 >= x
    OBVIOUS
  <1>2. \A x \in t : (\A y \in t : x >= y) => x = k + 1
    BY <1>1
  <1>. QED  BY <1>1, <1>2 DEF Max

\* There is such a function for any length.
LEMMA FoldExists ==
  ASSUME NEW from, NEW base, NEW s, NEW n \in Nat
  PROVE  \E g : Folds(g, from, base, s, n)
  <1> DEFINE D == {k \in Nat : \E g : Folds(g, from, base, s, k)}
  <1>1. 0 \in D
    <2>1. Folds([t \in SUBSET (1 .. 0) |-> base], from, base, s, 0)
      <3>1. \A t \in SUBSET (1 .. 0) : t = {}
        OBVIOUS
      <3>. QED  BY <3>1 DEF Folds
    <2>. QED  BY <2>1
  <1>2. ASSUME NEW k \in 0 .. n - 1, k \in D PROVE k + 1 \in D
    <2>0. k \in Nat
      OBVIOUS
    <2>1. PICK g : Folds(g, from, base, s, k)
      BY <1>2
    <2> DEFINE h == [t \in SUBSET (1 .. k + 1) |->
                      IF k + 1 \in t THEN Step(from, g[t \ {k + 1}], s[k + 1]) ELSE g[t]]
    <2>2. ASSUME NEW t \in SUBSET (1 .. k + 1)
          PROVE  h[t] = IF t = {} THEN base ELSE Step(from, h[t \ {Max(t)}], s[Max(t)])
      <3>1. CASE k + 1 \in t
        <4>1. Max(t) = k + 1
          BY <2>0, <3>1, HighestIn
        <4>2. t \ {k + 1} \in SUBSET (1 .. k + 1) /\ k + 1 \notin t \ {k + 1}
          OBVIOUS
        <4>3. h[t \ {k + 1}] = g[t \ {k + 1}]
          BY <4>2
        <4>. QED  BY <3>1, <4>1, <4>3
      <3>2. CASE k + 1 \notin t
        <4>1. t \in SUBSET (1 .. k)
          BY <2>0, <3>2
        <4>2. h[t] = g[t]
          BY <3>2
        <4>3. t \ {Max(t)} \in SUBSET (1 .. k + 1) /\ k + 1 \notin t \ {Max(t)}
          BY <3>2
        <4>4. h[t \ {Max(t)}] = g[t \ {Max(t)}]
          BY <4>3
        <4>5. g[t] = IF t = {} THEN base ELSE Step(from, g[t \ {Max(t)}], s[Max(t)])
          BY <2>1, <4>1 DEF Folds
        <4>. QED  BY <4>2, <4>4, <4>5
      <3>. QED  BY <3>1, <3>2
    <2>3. h = [t \in SUBSET (1 .. k + 1) |-> h[t]]
      OBVIOUS
    <2> HIDE DEF h
    <2>4. Folds(h, from, base, s, k + 1)
      BY <2>2, <2>3 DEF Folds
    <2>. QED  BY <2>0, <2>4
  <1> HIDE DEF D
  <1>3. 0 .. n \subseteq D
    BY <1>1, <1>2, UpTo
  <1>. QED  BY <1>3 DEF D

\* The lists after each of the steps.
Steps(f, from, base, s, n) ==
  /\ f[0] = base
  /\ \A k \in 0 .. n - 1 : f[k + 1] = Step(from, f[k], s[k + 1])
  /\ f[n] = Scan(from, base, s)

\* A fold is the last of the lists that the steps give one after another.
LEMMA FoldSteps ==
  ASSUME NEW from, NEW base, NEW s, NEW n \in Nat, DOMAIN s = 1 .. n
  PROVE  \E f : Steps(f, from, base, s, n)
  <1> DEFINE it == CHOOSE g : Folds(g, from, base, s, n)
             f == [k \in 0 .. n |-> it[1 .. k]]
  <1>1. Folds(it, from, base, s, n)
    BY FoldExists
  <1>2. Scan(from, base, s) = it[1 .. n]
    BY DEF Scan, FoldLeft, MapThenFoldSet, Folds
  <1> HIDE DEF it
  <1>3. f[0] = base
    <2>1. 1 .. 0 = {} /\ {} \in SUBSET (1 .. n)
      OBVIOUS
    <2>2. it[{}] = base
      BY <1>1, <2>1 DEF Folds
    <2>. QED  BY <2>1, <2>2
  <1>4. ASSUME NEW k \in 0 .. n - 1 PROVE f[k + 1] = Step(from, f[k], s[k + 1])
    <2>1. k \in Nat /\ k \in 0 .. n /\ k + 1 \in 0 .. n
      OBVIOUS
    <2>2. 1 .. k + 1 \in SUBSET (1 .. n) /\ k + 1 \in 1 .. k + 1
      BY <2>1
    <2>3. Max(1 .. k + 1) = k + 1
      BY <2>1, <2>2, HighestIn
    <2>4. (1 .. k + 1) \ {k + 1} = 1 .. k
      BY <2>1
    <2>5. it[1 .. k + 1] = Step(from, it[(1 .. k + 1) \ {Max(1 .. k + 1)}], s[Max(1 .. k + 1)])
      BY <1>1, <2>2 DEF Folds
    <2>. QED  BY <2>1, <2>3, <2>4, <2>5
  <1>5. f[n] = Scan(from, base, s)
    BY <1>2
  <1> HIDE DEF f
  <1>. QED  BY <1>3, <1>4, <1>5 DEF Steps

\* The two folds of extract_from_event.
LEMMA FoldOfAdd ==
  ASSUME NEW base, NEW s
  PROVE  /\ Scan("fields", base, s) = FoldLeft(Add, base, s)
         /\ Scan("raw", base, s) = FoldLeft(AddRaw, base, s)
  BY DEF Scan, FoldLeft, MapThenFoldSet, Step

-----------------------------------------------------------------------------
(* What the folds list *)

\* IOCs.
Proper(S) == \A x \in S : x = [key |-> x.key, confidence |-> x.confidence] /\ x.confidence \in Nat

\* A list has each key of the sightings once, with its highest confidence.
Lists(t, S) ==
  /\ t \in Seq(S)
  /\ \A i, j \in DOMAIN t : t[i].key = t[j].key => i = j
  /\ \A o \in S : \E i \in DOMAIN t : t[i].key = o.key /\ o.confidence <= t[i].confidence

\* One IOC of the fields.
LEMMA AddLists ==
  ASSUME NEW S, NEW x, Proper(S \cup {x}), NEW t, Lists(t, S)
  PROVE  Lists(Add(t, x), S \cup {x})
  <1> DEFINE T == S \cup {x}
             r == Add(t, x)
  <1>1. /\ t \in Seq(S) /\ t \in Seq(T) /\ Len(t) \in Nat /\ DOMAIN t = 1 .. Len(t)
        /\ \A i \in DOMAIN t : t[i] \in S /\ t[i].confidence \in Nat
        /\ x \in T /\ x.confidence \in Nat
    <2>1. t \in Seq(S)
      BY DEF Lists
    <2>2. \A i \in DOMAIN t : t[i] \in S
      BY <2>1
    <2>. QED  BY <2>1, <2>2 DEF Proper
  <1>2. CASE ~Has(t, x.key)
    <2>1. r = Append(t, x)
      BY <1>2 DEF Add
    <2>2. /\ r \in Seq(T) /\ Len(r) = Len(t) + 1 /\ DOMAIN r = 1 .. Len(t) + 1
          /\ \A i \in DOMAIN t : i \in DOMAIN r /\ r[i] = t[i]
          /\ Len(t) + 1 \in DOMAIN r /\ r[Len(t) + 1] = x
      BY <1>1, <2>1
    <2> HIDE DEF r
    <2>3. \A i \in DOMAIN r : i \in DOMAIN t \/ i = Len(t) + 1
      BY <1>1, <2>2
    <2>4. \A i \in DOMAIN t : t[i].key # x.key
      BY <1>2 DEF Has
    <2>5. \A i, j \in DOMAIN r : r[i].key = r[j].key => i = j
      BY <2>2, <2>3, <2>4 DEF Lists
    <2>6. ASSUME NEW o \in T
          PROVE  \E i \in DOMAIN r : r[i].key = o.key /\ o.confidence <= r[i].confidence
      <3>1. CASE o = x
        BY <1>1, <2>2, <3>1
      <3>2. CASE o \in S
        BY <2>2, <3>2 DEF Lists
      <3>. QED  BY <3>1, <3>2
    <2>. QED  BY <2>2, <2>5, <2>6 DEF Lists, r
  <1>3. CASE Has(t, x.key)
    <2>1. r = [i \in DOMAIN t |->
                 IF t[i].key = x.key /\ x.confidence > t[i].confidence THEN x ELSE t[i]]
      BY <1>3 DEF Add
    <2>2. /\ DOMAIN r = DOMAIN t
          /\ \A i \in DOMAIN t : /\ r[i] \in T /\ r[i].key = t[i].key
                                 /\ t[i].confidence <= r[i].confidence
                                 /\ t[i].key = x.key => x.confidence <= r[i].confidence
      <3>1. DOMAIN r = DOMAIN t
        BY <2>1
      <3>2. ASSUME NEW i \in DOMAIN t
            PROVE  /\ r[i] \in T /\ r[i].key = t[i].key
                   /\ t[i].confidence <= r[i].confidence
                   /\ t[i].key = x.key => x.confidence <= r[i].confidence
        <4>1. r[i] = IF t[i].key = x.key /\ x.confidence > t[i].confidence THEN x ELSE t[i]
          BY <2>1
        <4>2. t[i].confidence \in Nat /\ t[i] \in T
          BY <1>1
        <4>. QED  BY <1>1, <4>1, <4>2
      <3>. QED  BY <3>1, <3>2
    <2>3. r \in Seq(T)
      <3>1. r = [i \in 1 .. Len(t) |-> r[i]]
        BY <1>1, <2>1
      <3>. QED  BY <1>1, <2>2, <3>1
    <2> HIDE DEF r
    <2>4. ASSUME NEW o \in T
          PROVE  \E i \in DOMAIN r : r[i].key = o.key /\ o.confidence <= r[i].confidence
      <3>1. CASE o = x
        <4>1. PICK i \in DOMAIN t : t[i].key = x.key
          BY <1>3 DEF Has
        <4>. QED  BY <2>2, <3>1, <4>1
      <3>2. CASE o \in S
        <4>1. PICK i \in DOMAIN t : t[i].key = o.key /\ o.confidence <= t[i].confidence
          BY <3>2 DEF Lists
        <4>2. r[i] \in T /\ o.confidence \in Nat /\ t[i].confidence \in Nat /\ r[i].confidence \in Nat
          BY <1>1, <2>2, <4>1 DEF Proper
        <4>3. r[i].key = o.key /\ o.confidence <= r[i].confidence
          BY <2>2, <4>1, <4>2
        <4>. QED  BY <2>2, <4>3
      <3>. QED  BY <3>1, <3>2
    <2>. QED  BY <2>2, <2>3, <2>4 DEF Lists, r
  <1>. QED  BY <1>2, <1>3

\* The fold over the fields lists what they show.
LEMMA AddedUp ==
  ASSUME NEW X, Proper(X), NEW s \in Seq(X)
  PROVE  Lists(FoldLeft(Add, <<>>, s), ToSet(s))
  <1> DEFINE n == Len(s)
             Shown(k) == {s[i] : i \in 1 .. k}
  <1>1. n \in Nat /\ DOMAIN s = 1 .. n /\ \A i \in 1 .. n : s[i] \in X
    OBVIOUS
  <1> HIDE DEF n
  <1>2. PICK f : Steps(f, "fields", <<>>, s, n)
    BY <1>1, FoldSteps
  <1> DEFINE E == {k \in Nat : Lists(f[k], Shown(k))}
  <1>3. 0 \in E
    <2>1. Shown(0) = {} /\ f[0] = <<>> /\ <<>> \in Seq({}) /\ DOMAIN <<>> = {}
      BY <1>2 DEF Steps
    <2>2. Lists(f[0], {})
      BY <2>1 DEF Lists
    <2>. QED  BY <2>1, <2>2
  <1>4. ASSUME NEW k \in 0 .. n - 1, k \in E PROVE k + 1 \in E
    <2>1. k \in Nat /\ k + 1 \in Nat /\ k + 1 \in 1 .. n
      BY <1>1
    <2>2. Shown(k + 1) = Shown(k) \cup {s[k + 1]}
      BY <2>1
    <2>3. Shown(k + 1) \subseteq X
      <3>1. \A i \in 1 .. k + 1 : i \in 1 .. n
        BY <1>1, <2>1
      <3>. QED  BY <1>1, <3>1
    <2>4. Proper(Shown(k + 1))
      BY <2>3 DEF Proper
    <2>5. f[k + 1] = Add(f[k], s[k + 1])
      BY <1>2 DEF Step, Steps
    <2>6. Lists(f[k], Shown(k))
      BY <1>4
    <2> HIDE DEF Shown
    <2>7. Lists(f[k + 1], Shown(k + 1))
      BY <2>2, <2>4, <2>5, <2>6, AddLists
    <2>. QED  BY <2>1, <2>7
  <1>5. n \in E
    <2> HIDE DEF E
    <2>1. 0 .. n \subseteq E
      BY <1>1, <1>3, <1>4, UpTo
    <2>. QED  BY <1>1, <2>1
  <1>6. ToSet(s) = Shown(n)
    BY <1>1 DEF ToSet
  <1>. QED  BY <1>2, <1>5, <1>6, FoldOfAdd DEF Steps

\* What the raw line adds: an IOC with four fifths of its confidence.
Raw(x) == [x EXCEPT !.confidence = (@ * 4) \div 5]

\* The list of the fields stays in front.
RawAfter(r, t, S, U) ==
  /\ r \in Seq(S \cup {Raw(x) : x \in U})
  /\ Len(t) <= Len(r) /\ \A i \in DOMAIN t : i \in DOMAIN r /\ r[i] = t[i]
  /\ \A i \in DOMAIN r \ DOMAIN t : \E x \in U : r[i] = Raw(x) /\ ~Has(t, x.key)

\* One IOC of the raw line.
LEMMA AddRawAfter ==
  ASSUME NEW S, NEW U, NEW t \in Seq(S), NEW r, RawAfter(r, t, S, U), NEW x \in U
  PROVE  RawAfter(AddRaw(r, x), t, S, U)
  <1> DEFINE q == AddRaw(r, x)
             V == S \cup {Raw(o) : o \in U}
  <1>1. CASE Has(r, x.key)
    BY <1>1 DEF AddRaw
  <1>2. CASE ~Has(r, x.key)
    <2>1. q = Append(r, Raw(x)) /\ r \in Seq(V) /\ Raw(x) \in V
      BY <1>2 DEF AddRaw, Raw, RawAfter
    <2> HIDE DEF V
    <2>2. /\ q \in Seq(V) /\ Len(q) = Len(r) + 1 /\ Len(t) \in Nat /\ Len(r) \in Nat
          /\ \A i \in DOMAIN r : i \in DOMAIN q /\ q[i] = r[i]
          /\ q[Len(r) + 1] = Raw(x)
          /\ \A i \in DOMAIN q : i \in DOMAIN r \/ i = Len(r) + 1
      BY <2>1
    <2> HIDE DEF q
    <2>3. ~Has(t, x.key)
      BY <1>2 DEF Has, RawAfter
    <2>4. Len(t) <= Len(q) /\ \A i \in DOMAIN t : i \in DOMAIN q /\ q[i] = t[i]
      BY <2>2 DEF RawAfter
    <2>5. ASSUME NEW i \in DOMAIN q \ DOMAIN t PROVE \E o \in U : q[i] = Raw(o) /\ ~Has(t, o.key)
      BY <2>2, <2>3 DEF RawAfter
    <2>. QED  BY <2>2, <2>4, <2>5 DEF RawAfter, V, q
  <1>. QED  BY <1>1, <1>2

\* The fold over the raw line.
LEMMA RawAdded ==
  ASSUME NEW S, NEW t \in Seq(S), NEW U, NEW u \in Seq(U)
  PROVE  RawAfter(FoldLeft(AddRaw, t, u), t, S, U)
  <1> DEFINE n == Len(u)
  <1>1. n \in Nat /\ DOMAIN u = 1 .. n /\ \A i \in 1 .. n : u[i] \in U
    OBVIOUS
  <1> HIDE DEF n
  <1>2. PICK f : Steps(f, "raw", t, u, n)
    BY <1>1, FoldSteps
  <1> DEFINE E == {k \in Nat : RawAfter(f[k], t, S, U)}
  <1>3. 0 \in E
    <2>1. t \in Seq(S \cup {Raw(x) : x \in U}) /\ Len(t) \in Nat
      OBVIOUS
    <2>2. RawAfter(t, t, S, U)
      BY <2>1 DEF RawAfter
    <2>. QED  BY <1>2, <2>2 DEF Steps
  <1>4. ASSUME NEW k \in 0 .. n - 1, k \in E PROVE k + 1 \in E
    <2>1. k + 1 \in Nat /\ k + 1 \in 1 .. n
      BY <1>1
    <2>2. f[k + 1] = AddRaw(f[k], u[k + 1]) /\ u[k + 1] \in U
      BY <1>1, <1>2, <2>1 DEF Step, Steps
    <2>3. RawAfter(f[k + 1], t, S, U)
      BY <1>4, <2>2, AddRawAfter
    <2>. QED  BY <2>1, <2>3
  <1> HIDE DEF E
  <1>5. 0 .. n \subseteq E
    BY <1>1, <1>3, <1>4, UpTo
  <1>6. n \in E
    BY <1>1, <1>5
  <1>. QED  BY <1>2, <1>6, FoldOfAdd DEF E, Steps

-----------------------------------------------------------------------------
(* The matches of a text and of the fields *)

\* The IOCs that one pattern finds.
Hits(p, found) ==
  {ExtractedIOC(m, p) : m \in {n \in ToSet(found) : n.pattern = p.pattern /\ n.kind \notin p.rejects}}

\* One pattern finds its hits.
LEMMA FindHits ==
  ASSUME NEW M, NEW found \in Seq(M), NEW p
  PROVE  Find(p, found) \in Seq(Hits(p, found)) /\ ToSet(Find(p, found)) = Hits(p, found)
  <1> DEFINE Hit(i) == found[i].pattern = p.pattern /\ found[i].kind \notin p.rejects
             ss == [i \in DOMAIN found |-> IF Hit(i) THEN <<ExtractedIOC(found[i], p)>> ELSE <<>>]
             X == Hits(p, found)
  <1>1. Len(found) \in Nat /\ DOMAIN found = 1 .. Len(found)
    OBVIOUS
  <1>2. ASSUME NEW i \in DOMAIN found, Hit(i) PROVE ExtractedIOC(found[i], p) \in X
    BY <1>2 DEF Hits, ToSet
  <1>3. ASSUME NEW i \in DOMAIN found
        PROVE  /\ ss[i] \in Seq(X)
               /\ ToSet(ss[i]) = IF Hit(i) THEN {ExtractedIOC(found[i], p)} ELSE {}
    <2>1. CASE Hit(i)
      <3>1. ss[i] = <<ExtractedIOC(found[i], p)>>
        BY <2>1
      <3>. QED  BY <1>2, <2>1, <3>1 DEF ToSet
    <2>2. CASE ~Hit(i)
      <3>1. ss[i] = <<>>
        BY <2>2
      <3>. QED  BY <2>2, <3>1 DEF ToSet
    <2>. QED  BY <2>1, <2>2
  <1>4. ss \in Seq(Seq(X)) /\ DOMAIN ss = DOMAIN found
    <2>1. DOMAIN ss = 1 .. Len(found) /\ \A i \in 1 .. Len(found) : ss[i] \in Seq(X)
      BY <1>1, <1>3
    <2>2. ss = [i \in 1 .. Len(found) |-> ss[i]]
      BY <1>1
    <2> HIDE DEF ss, X
    <2>. QED  BY <1>1, <2>1, <2>2
  <1>5. Find(p, found) = FlattenSeq(ss)
    BY DEF Find
  <1> HIDE DEF ss
  <1>6. FlattenSeq(ss) \in Seq(X) /\ ToSet(FlattenSeq(ss)) = UNION {ToSet(ss[i]) : i \in DOMAIN ss}
    BY <1>4, Flattened
  <1>7. UNION {ToSet(ss[i]) : i \in DOMAIN ss} = X
    <2>1. ASSUME NEW x \in X PROVE x \in UNION {ToSet(ss[i]) : i \in DOMAIN ss}
      <3>1. PICK i \in DOMAIN found : Hit(i) /\ x = ExtractedIOC(found[i], p)
        BY DEF Hits, ToSet
      <3>. QED  BY <1>3, <1>4, <3>1
    <2>2. ASSUME NEW i \in DOMAIN ss PROVE ToSet(ss[i]) \subseteq X
      BY <1>2, <1>3, <1>4, <2>2
    <2>. QED  BY <2>1, <2>2
  <1>. QED  BY <1>5, <1>6, <1>7

\* Every pattern is one with a confidence.
LEMMA PatternsTyped ==
  /\ Patterns \in Seq(ToSet(Patterns))
  /\ \A p \in ToSet(Patterns) : p.confidence \in Nat
  /\ \A n \in DOMAIN FieldPatterns : FieldPatterns[n].confidence \in Nat
  <1>1. Patterns \in Seq({Patterns[i] : i \in DOMAIN Patterns})
    <2>1. DOMAIN Patterns = 1 .. 16 /\ Patterns = [i \in 1 .. 16 |-> Patterns[i]]
      BY DEF Patterns
    <2>2. \A i \in 1 .. 16 : Patterns[i] \in {Patterns[j] : j \in DOMAIN Patterns}
      BY <2>1
    <2>. QED  BY <2>1, <2>2
  <1>2. \A i \in DOMAIN Patterns : Patterns[i].confidence \in Nat
    BY DEF Patterns, P
  <1>3. \A n \in DOMAIN FieldPatterns : FieldPatterns[n].confidence \in Nat
    BY DEF FieldPatterns, P
  <1>. QED  BY <1>1, <1>2, <1>3 DEF ToSet

\* Hits are IOCs.
LEMMA HitsProper ==
  ASSUME NEW p, p.confidence \in Nat, NEW found
  PROVE  Proper(Hits(p, found))
  <1>1. ASSUME NEW x \in Hits(p, found)
        PROVE  x = [key |-> x.key, confidence |-> x.confidence] /\ x.confidence \in Nat
    <2>1. PICK m : x = ExtractedIOC(m, p)
      BY DEF Hits
    <2>2. \E k : x = [key |-> k, confidence |-> p.confidence]
      BY <2>1 DEF ExtractedIOC
    <2>. QED  BY <2>2
  <1>. QED  BY <1>1 DEF Proper

\* All patterns together, of a text.
LEMMA AllFound ==
  ASSUME NEW M, NEW found \in Seq(M)
  PROVE  /\ ExtractAll(found) \in Seq(Sightings(found))
         /\ ToSet(ExtractAll(found)) = Sightings(found)
         /\ Proper(Sightings(found))
  <1> DEFINE ss == [i \in DOMAIN Patterns |-> Find(Patterns[i], found)]
             X == Sightings(found)
  <1>1. Sightings(found) = UNION {Hits(p, found) : p \in ToSet(Patterns)}
    BY DEF Sightings, Hits
  <1>2. Len(Patterns) \in Nat /\ DOMAIN Patterns = 1 .. Len(Patterns)
    BY PatternsTyped
  <1>3. \A i \in DOMAIN Patterns : Patterns[i] \in ToSet(Patterns)
    BY DEF ToSet
  <1>4. ASSUME NEW i \in DOMAIN Patterns
        PROVE  ss[i] \in Seq(X) /\ ToSet(ss[i]) = Hits(Patterns[i], found)
    <2>1. Hits(Patterns[i], found) \subseteq X
      BY <1>1, <1>3
    <2>2. ss[i] \in Seq(Hits(Patterns[i], found)) /\ ToSet(ss[i]) = Hits(Patterns[i], found)
      BY FindHits
    <2> HIDE DEF ss, X
    <2>. QED  BY <2>1, <2>2
  <1>5. ss \in Seq(Seq(X)) /\ DOMAIN ss = DOMAIN Patterns
    <2>1. DOMAIN ss = 1 .. Len(Patterns) /\ \A i \in 1 .. Len(Patterns) : ss[i] \in Seq(X)
      BY <1>2, <1>4
    <2>2. ss = [i \in 1 .. Len(Patterns) |-> ss[i]]
      BY <1>2
    <2> HIDE DEF ss, X
    <2>. QED  BY <1>2, <2>1, <2>2
  <1>6. ExtractAll(found) = FlattenSeq(ss)
    BY DEF ExtractAll
  <1> HIDE DEF ss
  <1>7. FlattenSeq(ss) \in Seq(X) /\ ToSet(FlattenSeq(ss)) = UNION {ToSet(ss[i]) : i \in DOMAIN ss}
    BY <1>5, Flattened
  <1>8. UNION {ToSet(ss[i]) : i \in DOMAIN ss} = X
    <2>1. ASSUME NEW p \in ToSet(Patterns), NEW x \in Hits(p, found)
          PROVE  x \in UNION {ToSet(ss[i]) : i \in DOMAIN ss}
      <3>1. PICK i \in DOMAIN Patterns : p = Patterns[i]
        BY DEF ToSet
      <3>. QED  BY <1>4, <1>5, <3>1
    <2>2. ASSUME NEW i \in DOMAIN ss PROVE ToSet(ss[i]) \subseteq X
      BY <1>1, <1>3, <1>4, <1>5
    <2>. QED  BY <1>1, <2>1, <2>2
  <1>9. Proper(X)
    <2>1. \A p \in ToSet(Patterns) : Proper(Hits(p, found))
      BY PatternsTyped, HitsProper
    <2>. QED  BY <1>1, <2>1 DEF Proper
  <1>. QED  BY <1>6, <1>7, <1>8, <1>9

\* What the scan of a text keeps.
LEMMA TextListed ==
  ASSUME NEW M, NEW found \in Seq(M)
  PROVE  Lists(ExtractFromText(found), Sightings(found)) /\ Proper(Sightings(found))
  BY AllFound, AddedUp DEF ExtractFromText

\* Part of the scan: IOCs of a set of sightings, for each key one of the best.
Part(s, S) ==
  /\ Proper(S)
  /\ s \in Seq(S)
  /\ \A o \in S : \E x \in ToSet(s) : x.key = o.key /\ o.confidence <= x.confidence

\* Two parts, one after the other.
LEMMA Joined ==
  ASSUME NEW s, NEW S, Part(s, S), NEW t, NEW T, Part(t, T)
  PROVE  Part(s \o t, S \cup T)
  <1>1. s \in Seq(S \cup T) /\ t \in Seq(S \cup T)
    BY DEF Part
  <1>2. s \o t \in Seq(S \cup T) /\ ToSet(s \o t) = ToSet(s) \cup ToSet(t)
    BY <1>1, Concatenated
  <1>. QED  BY <1>2 DEF Part, Proper

\* The fold over parts lists all their sightings.
LEMMA PartListed ==
  ASSUME NEW s, NEW S, Part(s, S)
  PROVE  Lists(FoldLeft(Add, <<>>, s), S)
  <1> DEFINE t == FoldLeft(Add, <<>>, s)
  <1>1. Lists(t, ToSet(s))
    BY AddedUp DEF Part
  <1>2. ToSet(s) \subseteq S
    BY DEF Part, ToSet
  <1> HIDE DEF t
  <1>3. t \in Seq(ToSet(s)) /\ \A i \in DOMAIN t : t[i] \in ToSet(s)
    <2>1. t \in Seq(ToSet(s))
      BY <1>1 DEF Lists
    <2>. QED  BY <2>1
  <1>4. t \in Seq(S)
    BY <1>2, <1>3
  <1>5. ASSUME NEW o \in S
        PROVE  \E i \in DOMAIN t : t[i].key = o.key /\ o.confidence <= t[i].confidence
    <2>1. PICK x \in ToSet(s) : x.key = o.key /\ o.confidence <= x.confidence
      BY DEF Part
    <2>2. PICK i \in DOMAIN t : t[i].key = x.key /\ x.confidence <= t[i].confidence
      BY <1>1 DEF Lists
    <2>3. o.confidence \in Nat /\ x.confidence \in Nat /\ t[i].confidence \in Nat
      BY <1>2, <1>3 DEF Part, Proper
    <2>. QED  BY <2>1, <2>2, <2>3
  <1>. QED  BY <1>1, <1>4, <1>5 DEF Lists, t

\* The scan of a text is a part.
LEMMA TextPart ==
  ASSUME NEW M, NEW found \in Seq(M)
  PROVE  Part(ExtractFromText(found), Sightings(found))
  BY TextListed DEF Part, Lists, ToSet

\* The scan of a field that is one IOC, or none.
LEMMA WholeFieldPart ==
  ASSUME NEW e, NEW f, NEW patterns, patterns \subseteq DOMAIN FieldPatterns
  PROVE  Part(WholeField(e, f, patterns), ToSet(WholeField(e, f, patterns)))
  <1> DEFINE s == WholeField(e, f, patterns)
  <1>1. ASSUME NEW S, s \in Seq(S), Proper(S) PROVE Part(s, ToSet(s))
    <2>1. \A x \in ToSet(s) : x \in S
      BY <1>1 DEF ToSet
    <2>2. s \in Seq(ToSet(s))
      BY <1>1 DEF ToSet
    <2> HIDE DEF s
    <2>3. \A x \in ToSet(s) : x.confidence \in Nat
      BY <1>1, <2>1 DEF Proper
    <2>. QED  BY <1>1, <2>1, <2>2, <2>3 DEF Part, Proper, s
  <1>2. CASE s = <<>>
    <2>1. s \in Seq({}) /\ Proper({})
      BY <1>2 DEF Proper
    <2>. QED  BY <1>1, <2>1
  <1>3. CASE s # <<>>
    <2> DEFINE p == FieldPatterns[e.fields[f].pattern]
               found == <<e.fields[f]>>
    <2>1. s = Find(p, found) /\ e.fields[f].pattern \in patterns
      BY <1>3 DEF WholeField
    <2>2. p.confidence \in Nat
      BY <2>1, PatternsTyped
    <2>3. found \in Seq({e.fields[f]})
      OBVIOUS
    <2> HIDE DEF p, found, s
    <2>4. s \in Seq(Hits(p, found)) /\ Proper(Hits(p, found))
      BY <2>1, <2>2, <2>3, FindHits, HitsProper
    <2>. QED  BY <1>1, <2>4 DEF s
  <1>. QED  BY <1>2, <1>3

\* What the parsers give to the extractor.
Readable(e) ==
  /\ \A f \in DOMAIN e.fields : e.fields[f].holds \in Seq(Match)
  /\ e.data \in Seq(Group)
  /\ e.raw \in Seq(Match)

\* A field that is a text.
TextSightings(e, f) == IF f \in DOMAIN e.fields THEN Sightings(e.fields[f].holds) ELSE {}

\* A function of the numbers up to n is a sequence.
LEMMA ListOf ==
  ASSUME NEW n \in Nat, NEW X, NEW s, s = [i \in 1 .. n |-> s[i]], \A i \in 1 .. n : s[i] \in X
  PROVE  s \in Seq(X)
  OBVIOUS

\* Nothing is a part of nothing.
LEMMA EmptyPart == Part(<<>>, {})
  BY DEF Part, Proper

\* The fields that are scanned as texts, and the ports.
LEMMA TextFieldPart ==
  ASSUME NEW e, Readable(e), NEW f
  PROVE  Part(TextField(e, f), TextSightings(e, f))
  <1>1. CASE f \in DOMAIN e.fields
    <2>1. e.fields[f].holds \in Seq(Match)
      BY <1>1 DEF Readable
    <2>. QED  BY <1>1, <2>1, TextPart DEF TextField, TextSightings
  <1>2. CASE f \notin DOMAIN e.fields
    BY <1>2, EmptyPart DEF TextField, TextSightings
  <1>. QED  BY <1>1, <1>2

LEMMA PortFieldPart ==
  ASSUME NEW e, NEW f
  PROVE  Part(PortField(e, f), ToSet(PortField(e, f)))
  <1>1. CASE PortField(e, f) = <<>>
    <2>1. ToSet(PortField(e, f)) = {}
      BY <1>1 DEF ToSet
    <2>. QED  BY <1>1, <2>1, EmptyPart
  <1>2. CASE PortField(e, f) # <<>>
    <2>1. PortField(e, f) = WholeField(e, f, {"port"})
      BY <1>2 DEF PortField
    <2>2. {"port"} \subseteq DOMAIN FieldPatterns
      BY DEF FieldPatterns
    <2>. QED  BY <2>1, <2>2, WholeFieldPart
  <1>. QED  BY <1>1, <1>2

\* normalized_data.
DataIocs(e) == FlattenSeq([i \in DOMAIN e.data |-> ExtractFromText(e.data[i].holds)])
DataSightings(e) == UNION {Sightings(e.data[i].holds) : i \in DOMAIN e.data}

\* Their scan.
LEMMA DataPart ==
  ASSUME NEW e, Readable(e)
  PROVE  Part(DataIocs(e), DataSightings(e))
  <1> DEFINE ss == [i \in DOMAIN e.data |-> ExtractFromText(e.data[i].holds)]
             X == DataSightings(e)
  <1>1. /\ Len(e.data) \in Nat /\ DOMAIN e.data = 1 .. Len(e.data)
        /\ \A i \in DOMAIN e.data : e.data[i].holds \in Seq(Match)
    <2>1. e.data \in Seq(Group)
      BY DEF Readable
    <2>2. \A g \in Group : g.holds \in Seq(Match)
      BY DEF Group
    <2>. QED  BY <2>1, <2>2
  <1>2. ASSUME NEW i \in DOMAIN e.data
        PROVE  Part(ss[i], Sightings(e.data[i].holds)) /\ ss[i] \in Seq(X)
    <2>1. Part(ss[i], Sightings(e.data[i].holds))
      BY <1>1, TextPart
    <2>2. Sightings(e.data[i].holds) \subseteq X
      BY DEF DataSightings
    <2>3. ss[i] \in Seq(Sightings(e.data[i].holds))
      BY <2>1 DEF Part
    <2> HIDE DEF ss, X
    <2>. QED  BY <2>1, <2>2, <2>3
  <1>3. ss \in Seq(Seq(X)) /\ DOMAIN ss = DOMAIN e.data
    <2>1. DOMAIN ss = 1 .. Len(e.data) /\ \A i \in 1 .. Len(e.data) : ss[i] \in Seq(X)
      BY <1>1, <1>2
    <2>2. ss = [i \in 1 .. Len(e.data) |-> ss[i]]
      BY <1>1
    <2> HIDE DEF ss, X
    <2>3. Len(e.data) \in Nat /\ DOMAIN e.data = 1 .. Len(e.data)
      BY <1>1
    <2>. QED  BY <2>1, <2>2, <2>3, ListOf
  <1>4. DataIocs(e) = FlattenSeq(ss)
    BY DEF DataIocs
  <1> HIDE DEF ss
  <1>5. FlattenSeq(ss) \in Seq(X) /\ ToSet(FlattenSeq(ss)) = UNION {ToSet(ss[i]) : i \in DOMAIN ss}
    BY <1>3, Flattened
  <1>6. Proper(X)
    <2>1. ASSUME NEW i \in DOMAIN e.data PROVE Proper(Sightings(e.data[i].holds))
      BY <1>2 DEF Part
    <2>. QED  BY <2>1 DEF Proper, DataSightings
  <1>7. ASSUME NEW o \in X
        PROVE  \E x \in ToSet(FlattenSeq(ss)) : x.key = o.key /\ o.confidence <= x.confidence
    <2>1. PICK i \in DOMAIN e.data : o \in Sightings(e.data[i].holds)
      BY DEF DataSightings
    <2>2. PICK x \in ToSet(ss[i]) : x.key = o.key /\ o.confidence <= x.confidence
      BY <1>2, <2>1 DEF Part
    <2>. QED  BY <1>3, <1>5, <2>2
  <1>. QED  BY <1>4, <1>5, <1>6, <1>7 DEF Part

\* The fields, in the order of the scan.
LEMMA FieldsPart ==
  ASSUME NEW e, Readable(e)
  PROVE  Part(FieldIocs(e), FieldSightings(e))
  <1> DEFINE W(f, patterns) == WholeField(e, f, patterns)
             src  == W("source_ip", {"ipv4", "ipv6"})
             dst  == W("dest_ip", {"ipv4", "ipv6"})
             user == W("username", {"username"})
             host == W("hostname", {"domain"})
             proc == W("process_name", {"filename"})
             url  == TextField(e, "url")
             cmd  == TextField(e, "command_line")
             path == TextField(e, "file_path")
             sport == PortField(e, "source_port")
             dport == PortField(e, "dest_port")
             data == DataIocs(e)
             S(f) == TextSightings(e, f)
  <1>1. /\ Part(src, ToSet(src)) /\ Part(dst, ToSet(dst)) /\ Part(user, ToSet(user))
        /\ Part(host, ToSet(host)) /\ Part(proc, ToSet(proc))
    <2>1. /\ {"ipv4", "ipv6"} \subseteq DOMAIN FieldPatterns /\ {"username"} \subseteq DOMAIN FieldPatterns
          /\ {"domain"} \subseteq DOMAIN FieldPatterns /\ {"filename"} \subseteq DOMAIN FieldPatterns
      BY DEF FieldPatterns
    <2>. QED  BY <2>1, WholeFieldPart
  <1>2. Part(url, S("url")) /\ Part(cmd, S("command_line")) /\ Part(path, S("file_path"))
    BY TextFieldPart
  <1>3. Part(sport, ToSet(sport)) /\ Part(dport, ToSet(dport))
    BY PortFieldPart
  <1>4. Part(data, DataSightings(e))
    BY DataPart
  <1>5. FieldIocs(e) = src \o dst \o url \o user \o host \o proc \o cmd \o path \o sport \o dport \o data
    BY DEF FieldIocs, DataIocs
  <1>6. FieldSightings(e) =
          ToSet(src) \cup ToSet(dst) \cup S("url") \cup ToSet(user) \cup ToSet(host) \cup ToSet(proc)
          \cup S("command_line") \cup S("file_path") \cup ToSet(sport) \cup ToSet(dport)
          \cup DataSightings(e)
    <2>1. UNION {Sightings(e.fields[f].holds) :
                   f \in DOMAIN e.fields \cap {"url", "command_line", "file_path"}}
            = S("url") \cup S("command_line") \cup S("file_path")
      BY DEF TextSightings
    <2>2. UNION {ToSet(W(f, {"ipv4", "ipv6"})) : f \in {"source_ip", "dest_ip"}} = ToSet(src) \cup ToSet(dst)
      OBVIOUS
    <2>3. UNION {ToSet(PortField(e, f)) : f \in {"source_port", "dest_port"}} = ToSet(sport) \cup ToSet(dport)
      OBVIOUS
    <2>4. FieldSightings(e) =
            (UNION {ToSet(W(f, {"ipv4", "ipv6"})) : f \in {"source_ip", "dest_ip"}})
            \cup (ToSet(user) \cup ToSet(host) \cup ToSet(proc))
            \cup (UNION {ToSet(PortField(e, f)) : f \in {"source_port", "dest_port"}})
            \cup (UNION {Sightings(e.fields[f].holds) :
                          f \in DOMAIN e.fields \cap {"url", "command_line", "file_path"}})
            \cup DataSightings(e)
      <3> DEFINE A == {ToSet(W(f, {"ipv4", "ipv6"})) : f \in {"source_ip", "dest_ip"}}
                 B == {ToSet(user), ToSet(host), ToSet(proc)}
                 C == {ToSet(PortField(e, f)) : f \in {"source_port", "dest_port"}}
                 D == {Sightings(e.fields[f].holds) :
                         f \in DOMAIN e.fields \cap {"url", "command_line", "file_path"}}
                 E == {Sightings(e.data[i].holds) : i \in DOMAIN e.data}
      <3>1. FieldSightings(e) = UNION (A \cup B \cup C \cup D \cup E)
        BY DEF FieldSightings
      <3>2. UNION B = ToSet(user) \cup ToSet(host) \cup ToSet(proc)
        OBVIOUS
      <3>3. DataSightings(e) = UNION E
        BY DEF DataSightings
      <3> HIDE DEF A, B, C, D, E
      <3>4. UNION (A \cup B \cup C \cup D \cup E)
              = (UNION A) \cup (UNION B) \cup (UNION C) \cup (UNION D) \cup (UNION E)
        OBVIOUS
      <3>. QED  BY <3>1, <3>2, <3>3, <3>4 DEF A, C, D
    <2> HIDE DEF W, src, dst, user, host, proc, url, cmd, path, sport, dport, data, S
    <2>. QED  BY <2>1, <2>2, <2>3, <2>4
  <1> HIDE DEF src, dst, user, host, proc, url, cmd, path, sport, dport, data, S
  <1>7. Part(src \o dst \o url, ToSet(src) \cup ToSet(dst) \cup S("url"))
    BY <1>1, <1>2, Joined
  <1>8. Part(src \o dst \o url \o user \o host \o proc,
             ToSet(src) \cup ToSet(dst) \cup S("url") \cup ToSet(user) \cup ToSet(host) \cup ToSet(proc))
    BY <1>1, <1>7, Joined
  <1>9. Part(src \o dst \o url \o user \o host \o proc \o cmd \o path,
             ToSet(src) \cup ToSet(dst) \cup S("url") \cup ToSet(user) \cup ToSet(host) \cup ToSet(proc)
             \cup S("command_line") \cup S("file_path"))
    BY <1>2, <1>8, Joined
  <1>10. Part(src \o dst \o url \o user \o host \o proc \o cmd \o path \o sport \o dport \o data,
              ToSet(src) \cup ToSet(dst) \cup S("url") \cup ToSet(user) \cup ToSet(host) \cup ToSet(proc)
              \cup S("command_line") \cup S("file_path") \cup ToSet(sport) \cup ToSet(dport)
              \cup DataSightings(e))
    BY <1>3, <1>4, <1>9, Joined
  <1>. QED  BY <1>5, <1>6, <1>10

-----------------------------------------------------------------------------
(* IOCExtractor.extract_from_event *)

\* What a list holds of a key is the best of its sightings.
LEMMA ListedIsBest ==
  ASSUME NEW S, Proper(S), NEW t, Lists(t, S), NEW i \in DOMAIN t
  PROVE  /\ t[i].key \in Keys(S) /\ t[i].confidence = BestOf(S, t[i].key)
         /\ t[i] = [key |-> t[i].key, confidence |-> t[i].confidence] /\ t[i].confidence \in Nat
  <1> DEFINE C == {s.confidence : s \in {o \in S : o.key = t[i].key}}
             c == t[i].confidence
  <1>1. t[i] \in S
    <2>1. t \in Seq(S)
      BY DEF Lists
    <2>. QED  BY <2>1
  <1>2. c \in Nat /\ C \subseteq Nat
    BY <1>1 DEF Proper
  <1>6. t[i] = [key |-> t[i].key, confidence |-> t[i].confidence]
    BY <1>1 DEF Proper
  <1>3. ASSUME NEW o \in S, o.key = t[i].key PROVE o.confidence <= c
    <2>1. PICK j \in DOMAIN t : t[j].key = o.key /\ o.confidence <= t[j].confidence
      BY DEF Lists
    <2>2. j = i
      BY <1>3, <2>1 DEF Lists
    <2>. QED  BY <2>1, <2>2
  <1>4. c \in C /\ \A d \in C : d <= c
    BY <1>1, <1>3
  <1> HIDE DEF C, c
  <1>5. Max(C) = c
    <2>1. c \in C /\ \A d \in C : c >= d
      BY <1>2, <1>4
    <2>2. ASSUME NEW x \in C, \A d \in C : x >= d PROVE x = c
      <3>1. x \in Nat /\ x >= c /\ x <= c
        BY <1>2, <1>4, <2>2
      <3>. QED  BY <1>2, <3>1
    <2>. QED  BY <2>1, <2>2 DEF Max
  <1>. QED  BY <1>1, <1>2, <1>5, <1>6 DEF BestOf, Keys, C, c

\* A list is as long as there are keys.
LEMMA LengthIsKeys ==
  ASSUME NEW S, NEW t, Lists(t, S)
  PROVE  Cardinality(Keys(S)) = Len(t)
  <1> DEFINE f == [i \in 1 .. Len(t) |-> t[i].key]
  <1>1. Len(t) \in Nat /\ DOMAIN t = 1 .. Len(t) /\ \A i \in DOMAIN t : t[i] \in S
    <2>1. t \in Seq(S)
      BY DEF Lists
    <2>. QED  BY <2>1
  <1>2. f \in Bijection(1 .. Len(t), Keys(S))
    <2>1. \A i \in 1 .. Len(t) : f[i] \in Keys(S)
      BY <1>1 DEF Keys
    <2>2. \A i, j \in 1 .. Len(t) : f[i] = f[j] => i = j
      BY <1>1 DEF Lists
    <2>3. \A k \in Keys(S) : \E i \in 1 .. Len(t) : f[i] = k
      BY <1>1 DEF Lists, Keys
    <2>4. f \in [1 .. Len(t) -> Keys(S)]
      BY <2>1
    <2> HIDE DEF f
    <2>. QED  BY <2>2, <2>3, <2>4 DEF Bijection, Injection, Surjection, IsInjective
  <1>3. Cardinality(1 .. Len(t)) = Len(t) /\ IsFiniteSet(1 .. Len(t))
    BY <1>1, FS_Interval
  <1>. QED  BY <1>2, <1>3, FS_Bijection DEF ExistsBijection

\* What the extractor makes of an event: every IOC has the confidence the reference
\* gives its key, and the keys of the fields come first.
LEMMA EventExtracted ==
  ASSUME NEW e, Readable(e)
  PROVE  /\ \A i \in DOMAIN ExtractFromEvent(e) : ExtractFromEvent(e)[i] \in ReferenceIocs(e)
         /\ Cardinality(Keys(FieldSightings(e))) \in Nat
         /\ \A k \in Keys(FieldSightings(e)) : \E i \in DOMAIN ExtractFromEvent(e) :
              i <= Cardinality(Keys(FieldSightings(e))) /\ ExtractFromEvent(e)[i].key = k
  <1> DEFINE S == FieldSightings(e)
             U == Sightings(e.raw)
             t == FoldLeft(Add, <<>>, FieldIocs(e))
             u == ExtractFromText(e.raw)
             r == ExtractFromEvent(e)
             F == {[key |-> k, confidence |-> BestOf(S, k)] : k \in Keys(S)}
             G == {[key |-> k, confidence |-> (4 * BestOf(U, k)) \div 5] : k \in Keys(U) \ Keys(S)}
  <1>1. Lists(t, S) /\ Proper(S)
    BY FieldsPart, PartListed DEF Part
  <1>2. Lists(u, U) /\ Proper(U)
    BY TextListed DEF Readable
  <1>3. r = FoldLeft(AddRaw, t, u)
    BY DEF ExtractFromEvent
  <1>4. ReferenceIocs(e) = F \cup G
    BY DEF ReferenceIocs
  <1> HIDE DEF S, U, t, u, r, F, G
  <1>5. t \in Seq(S) /\ u \in Seq(ToSet(u)) /\ \A x \in ToSet(u) : \E i \in DOMAIN u : x = u[i]
    <2>1. t \in Seq(S) /\ u \in Seq(U)
      BY <1>1, <1>2 DEF Lists
    <2>. QED  BY <2>1 DEF ToSet
  <1>6. RawAfter(r, t, S, ToSet(u))
    BY <1>3, <1>5, RawAdded
  <1>7. \A i \in DOMAIN t : i \in DOMAIN r /\ r[i] = t[i]
    BY <1>6 DEF RawAfter
  <1>8. ASSUME NEW i \in DOMAIN r PROVE r[i] \in F \cup G
    <2>1. CASE i \in DOMAIN t
      <3>1. r[i] = t[i]
        BY <1>7, <2>1
      <3>2. /\ t[i].key \in Keys(S) /\ t[i].confidence = BestOf(S, t[i].key)
            /\ t[i] = [key |-> t[i].key, confidence |-> t[i].confidence]
        BY <1>1, <2>1, ListedIsBest
      <3>. QED  BY <3>1, <3>2 DEF F
    <2>2. CASE i \notin DOMAIN t
      <3>1. PICK x \in ToSet(u) : r[i] = Raw(x) /\ ~Has(t, x.key)
        BY <1>6, <2>2 DEF RawAfter
      <3>2. PICK j \in DOMAIN u : x = u[j]
        BY <1>5
      <3>3. /\ x.key \in Keys(U) /\ x.confidence = BestOf(U, x.key) /\ x.confidence \in Nat
            /\ x = [key |-> x.key, confidence |-> x.confidence]
        BY <1>2, <3>2, ListedIsBest
      <3>4. x.key \notin Keys(S)
        BY <1>1, <3>1 DEF Has, Keys, Lists
      <3>5. Raw(x) = [key |-> x.key, confidence |-> (x.confidence * 4) \div 5]
        BY <3>3 DEF Raw
      <3>6. x.confidence * 4 = 4 * x.confidence
        BY <3>3
      <3>7. r[i] = [key |-> x.key, confidence |-> (4 * BestOf(U, x.key)) \div 5]
        BY <3>1, <3>3, <3>5, <3>6
      <3>. QED  BY <3>3, <3>4, <3>7 DEF G
    <2>. QED  BY <2>1, <2>2
  <1>9. ASSUME NEW k \in Keys(S)
        PROVE  \E i \in DOMAIN r : i <= Cardinality(Keys(S)) /\ r[i].key = k
    <2>1. Cardinality(Keys(S)) = Len(t)
      BY <1>1, LengthIsKeys
    <2>2. PICK i \in DOMAIN t : t[i].key = k
      BY <1>1 DEF Lists, Keys
    <2>3. i <= Len(t)
      BY <1>5, <2>2
    <2>. QED  BY <1>7, <2>1, <2>2, <2>3
  <1>10. Cardinality(Keys(S)) \in Nat
    <2>1. Len(t) \in Nat
      BY <1>5
    <2>. QED  BY <1>1, <2>1, LengthIsKeys
  <1>. QED  BY <1>4, <1>8, <1>9, <1>10 DEF r, S

-----------------------------------------------------------------------------
(* What the parsers give to the extractor *)

\* Captured groups, and the names of the groups that the fields are taken from.
Held(got) == \A g \in DOMAIN got : got[g] \in Group
Takes(t) == \A f \in DOMAIN t : DOMAIN t[f] \subseteq Nat

\* What a parser takes from captured groups are captured groups.
LEMMA TakenHeld ==
  ASSUME NEW got, Held(got), NEW t, Takes(t)
  PROVE  Held(Taken(got, t)) /\ DOMAIN Taken(got, t) \subseteq DOMAIN t
  <1> DEFINE has(f) == {i \in DOMAIN t[f] : t[f][i] \in DOMAIN got}
  <1>1. Taken(got, t) = [f \in {g \in DOMAIN t : has(g) # {}} |-> got[t[f][Min(has(f))]]]
    BY DEF Taken
  <1>2. ASSUME NEW f \in DOMAIN t, has(f) # {}
        PROVE  got[t[f][Min(has(f))]] \in Group
    <2>1. has(f) \in SUBSET Nat
      BY DEF Takes
    <2>2. PICK m : m = Min(has(f))
      OBVIOUS
    <2>3. m \in has(f)
      <3> HIDE DEF has
      <3>. QED  BY <1>2, <2>1, <2>2, MinIsLeast
    <2>4. t[f][m] \in DOMAIN got
      BY <2>3
    <2>5. got[t[f][m]] \in Group
      BY <2>4 DEF Held
    <2>. QED  BY <2>2, <2>5
  <1> HIDE DEF has
  <1>. QED  BY <1>1, <1>2 DEF Held

\* Over keeps both.
LEMMA OverHeld ==
  ASSUME NEW f, Held(f), NEW g, Held(g)
  PROVE  Held(Over(f, g))
  BY DEF Over, Held

LEMMA OverTakes ==
  ASSUME NEW f, Takes(f), NEW g, Takes(g)
  PROVE  Takes(Over(f, g))
  BY DEF Over, Takes

\* The string values of normalized_data.
LEMMA DataHeld ==
  ASSUME NEW got, Held(got), NEW names, NEW n \in Nat, DOMAIN names = 1 .. n
  PROVE  Data(got, names) \in Seq(Group)
  <1> DEFINE ss == [i \in DOMAIN names |-> IF names[i] \in DOMAIN got THEN <<got[names[i]]>> ELSE <<>>]
  <1>2. \A i \in DOMAIN names : ss[i] \in Seq(Group)
    BY DEF Held
  <1>3. ss \in Seq(Seq(Group))
    <2>1. DOMAIN ss = 1 .. n /\ \A i \in 1 .. n : ss[i] \in Seq(Group)
      BY <1>2
    <2>2. ss = [i \in 1 .. n |-> ss[i]]
      OBVIOUS
    <2> HIDE DEF ss
    <2>. QED  BY <2>1, <2>2, ListOf
  <1>4. Data(got, names) = FlattenSeq(ss)
    BY DEF Data
  <1> HIDE DEF ss
  <1>. QED  BY <1>3, <1>4, Flattened

\* An event made of captured groups.
LEMMA MadeOf ==
  ASSUME NEW log_type, NEW event_type, NEW fields, Held(fields), NEW data \in Seq(Group),
         NEW raw \in Seq(Match)
  PROVE  Readable(NormalizedEventOf(log_type, event_type, fields, data, raw))
  <1> DEFINE e == NormalizedEventOf(log_type, event_type, fields, data, raw)
  <1>1. e.fields = fields /\ e.data = data /\ e.raw = raw
    BY DEF NormalizedEventOf
  <1>2. \A g \in Group : g.holds \in Seq(Match)
    BY DEF Group
  <1> HIDE DEF e
  <1>3. Readable(e)
    BY <1>1, <1>2 DEF Readable, Held
  <1>. QED  BY <1>3 DEF e

\* The names of groups in the tables.
LEMMA NamesTyped ==
  /\ Takes(NoFields) /\ Takes(Login) /\ Takes(SyslogHeader) /\ Takes(RequestFields) /\ Takes(Image)
  BY DEF Takes, NoFields, Login, SyslogHeader, RequestFields, Image

LEMMA SyslogRulesTyped ==
  \A i \in 1 .. 9 : Takes(SyslogRules[i].takes)
  <1>1. Takes([username |-> <<"username">>, source_ip |-> <<"ip">>])
        /\ Takes([username |-> <<"username">>, command_line |-> <<"command">>])
        /\ Takes([process_name |-> <<"killed">>])
    BY DEF Takes
  <1>2. Takes(SyslogRules[1].takes) /\ Takes(SyslogRules[2].takes)
    BY NamesTyped DEF SyslogRules
  <1>3. Takes(SyslogRules[3].takes) /\ Takes(SyslogRules[4].takes)
    BY <1>1, NamesTyped DEF SyslogRules
  <1>4. Takes(SyslogRules[5].takes) /\ Takes(SyslogRules[6].takes)
    BY <1>1, NamesTyped DEF SyslogRules
  <1>5. Takes(SyslogRules[7].takes) /\ Takes(SyslogRules[8].takes) /\ Takes(SyslogRules[9].takes)
    BY <1>1, NamesTyped DEF SyslogRules
  <1>. QED  BY <1>2, <1>3, <1>4, <1>5

\* A line as the parsers are given it.
Written(l) == Held(l.got) /\ l.raw \in Seq(Match) /\ l.head \in Seq(Match)

\* The events of syslog.
LEMMA SyslogReadable ==
  ASSUME NEW l, Written(l)
  PROVE  Readable(SyslogEvent(l))
  <1> DEFINE fits == SyslogFits(l.says)
  <1>1. PICK m : m = Min(fits)
    OBVIOUS
  <1> DEFINE rule == SyslogRules[m]
             data == IF rule.type = "Privilege Escalation"
                     THEN <<"tty", "working_dir", "target_user">> ELSE <<>>
  <1>2. SyslogEvent(l) = NormalizedEventOf("linux_syslog", rule.type,
          Over(Taken(l.got, rule.takes), Taken(l.got, SyslogHeader)), Data(l.got, data), l.raw)
    BY <1>1, Zenon DEF SyslogEvent, SyslogFits
  <1>3. m \in 1 .. 9
    <2>1. fits \in SUBSET (1 .. 9)
      BY SyslogFit
    <2>2. SyslogRules[9].needs = {}
      BY DEF SyslogRules
    <2>3. 9 \in DOMAIN SyslogRules /\ SyslogRules[9].needs \subseteq l.says
      <3>1. 9 \in DOMAIN SyslogRules
        <4>1. DOMAIN SyslogRules = 1 .. 9
          BY SyslogTable
        <4>. QED  BY <4>1
      <3>2. SyslogRules[9].needs \subseteq l.says
        BY <2>2
      <3>. QED  BY <3>1, <3>2
    <2>4. 9 \in fits
      BY <2>3 DEF SyslogFits
    <2> HIDE DEF fits
    <2>5. fits \in SUBSET Nat /\ fits # {}
      BY <2>1, <2>4
    <2>. QED  BY <1>1, <2>1, <2>5, MinIsLeast
  <1>4. Takes(rule.takes) /\ Takes(SyslogHeader)
    BY <1>3, SyslogRulesTyped, NamesTyped
  <1> HIDE DEF rule
  <1>5. \E n \in {0, 3} : DOMAIN data = 1 .. n
    <2>1. data = <<"tty", "working_dir", "target_user">> \/ data = <<>>
      OBVIOUS
    <2>2. DOMAIN <<"tty", "working_dir", "target_user">> = 1 .. 3 /\ DOMAIN <<>> = 1 .. 0
      OBVIOUS
    <2> HIDE DEF data
    <2>. QED  BY <2>1, <2>2
  <1> HIDE DEF data
  <1>6. Held(Over(Taken(l.got, rule.takes), Taken(l.got, SyslogHeader)))
    BY <1>4, TakenHeld, OverHeld DEF Written
  <1>7. Data(l.got, data) \in Seq(Group)
    BY <1>5, DataHeld DEF Written
  <1>. QED  BY <1>2, <1>6, <1>7, MadeOf DEF Written

\* The sequences of names that the parsers use.
LEMMA RequestRulesTyped ==
  ASSUME NEW l
  PROVE  \A i \in 1 .. 7 : \E n \in {0, 1} : DOMAIN RequestRules[i].adds = 1 .. n
  <1>1. /\ RequestRules[1].adds = <<>> /\ RequestRules[2].adds = <<>> /\ RequestRules[3].adds = <<>>
        /\ RequestRules[4].adds = <<>>
    BY DEF RequestRules
  <1>2. RequestRules[5].adds = <<"ua">> /\ RequestRules[6].adds = <<"path">> /\ RequestRules[7].adds = <<>>
    BY DEF RequestRules
  <1>3. DOMAIN <<>> = 1 .. 0 /\ DOMAIN <<"ua">> = 1 .. 1 /\ DOMAIN <<"path">> = 1 .. 1
    OBVIOUS
  <1>. QED  BY <1>1, <1>2, <1>3

\* What a request adds to the data.
LEMMA ClassTyped ==
  ASSUME NEW shown, NEW status
  PROVE  \E n \in {0, 1} : DOMAIN ClassifyRequest(shown, status).adds = 1 .. n
  <1> DEFINE fits == RequestFits(shown)
  <1>1. PICK m : m = Min(fits)
    OBVIOUS
  <1>2. ClassifyRequest(shown, status) =
          IF fits # {} THEN RequestRules[m] ELSE [type |-> StatusType(status), adds |-> <<>>]
    BY <1>1, Zenon DEF ClassifyRequest, RequestFits
  <1>3. CASE fits # {}
    <2>1. fits \in SUBSET (1 .. 7)
      BY RequestFit
    <2> HIDE DEF fits
    <2>2. m \in fits
      <3>1. fits \in SUBSET Nat
        BY <2>1
      <3>. QED  BY <1>1, <1>3, <3>1, MinIsLeast
    <2>3. m \in 1 .. 7 /\ ClassifyRequest(shown, status) = RequestRules[m]
      BY <1>2, <1>3, <2>1, <2>2
    <2>. QED  BY <2>3, RequestRulesTyped
  <1>4. CASE fits = {}
    <2>1. ClassifyRequest(shown, status).adds = <<>>
      BY <1>2, <1>4
    <2>2. DOMAIN <<>> = 1 .. 0
      OBVIOUS
    <2>. QED  BY <2>1, <2>2
  <1>. QED  BY <1>3, <1>4

\* The names of the data of a request.
LEMMA NamesJoined ==
  ASSUME NEW X, NEW s \in Seq(X), NEW l, NEW names, NEW n \in Nat, DOMAIN names = 1 .. n
  PROVE  \E k \in Nat : DOMAIN (s \o Decoded(l, names)) = 1 .. k
  <1> DEFINE d == Decoded(l, names)
             Y == X \cup {d[i] : i \in 1 .. n}
  <1>1. DOMAIN d = 1 .. n /\ d = [i \in 1 .. n |-> d[i]]
    BY DEF Decoded
  <1>2. \A i \in 1 .. n : d[i] \in Y
    OBVIOUS
  <1>3. s \in Seq(Y)
    <2>1. X \subseteq Y
      OBVIOUS
    <2> HIDE DEF Y
    <2>. QED  BY <2>1
  <1> HIDE DEF d, Y
  <1>4. d \in Seq(Y)
    BY <1>1, <1>2, ListOf
  <1>5. s \o d \in Seq(Y)
    BY <1>3, <1>4
  <1>6. Len(s \o d) \in Nat /\ DOMAIN (s \o d) = 1 .. Len(s \o d)
    BY <1>5
  <1>. QED  BY <1>6 DEF d

\* The requests of the web servers.
LEMMA RequestReadable ==
  ASSUME NEW l, Written(l)
  PROVE  Readable(ApacheRequest(l)) /\ Readable(NginxRequest(l))
  <1>1. Held(Taken(l.got, RequestFields))
    BY NamesTyped, TakenHeld DEF Written
  <1>2. Readable(ApacheRequest(l))
    <2>1. PICK c : c = ClassifyRequest(Shows("apache_access", l), l.number)
      OBVIOUS
    <2> DEFINE names == <<"referer", "decoded_path">> \o Decoded(l, c.adds)
    <2>2. ApacheRequest(l) = NormalizedEventOf("apache_access", c.type, Taken(l.got, RequestFields),
                                               Data(l.got, names), l.raw)
      BY <2>1 DEF ApacheRequest
    <2>3. \E k \in Nat : DOMAIN names = 1 .. k
      <3>1. \E n \in {0, 1} : DOMAIN c.adds = 1 .. n
        BY <2>1, ClassTyped
      <3>2. <<"referer", "decoded_path">> \in Seq({"referer", "decoded_path"})
        OBVIOUS
      <3>. QED  BY <3>1, <3>2, NamesJoined
    <2> HIDE DEF names
    <2>4. Data(l.got, names) \in Seq(Group)
      BY <2>3, DataHeld DEF Written
    <2>. QED  BY <1>1, <2>2, <2>4, MadeOf DEF Written
  <1>3. Readable(NginxRequest(l))
    <2>1. PICK c : c = ClassifyRequest(Shows("nginx_access", l), l.number)
      OBVIOUS
    <2> DEFINE names == <<"referer">> \o Decoded(l, c.adds)
    <2>2. NginxRequest(l) = NormalizedEventOf("nginx_access", c.type, Taken(l.got, RequestFields),
                                              Data(l.got, names), l.raw)
      BY <2>1 DEF NginxRequest
    <2>3. \E k \in Nat : DOMAIN names = 1 .. k
      <3>1. \E n \in {0, 1} : DOMAIN c.adds = 1 .. n
        BY <2>1, ClassTyped
      <3>2. <<"referer">> \in Seq({"referer"})
        OBVIOUS
      <3>. QED  BY <3>1, <3>2, NamesJoined
    <2> HIDE DEF names
    <2>4. Data(l.got, names) \in Seq(Group)
      BY <2>3, DataHeld DEF Written
    <2>. QED  BY <1>1, <2>2, <2>4, MadeOf DEF Written
  <1>. QED  BY <1>2, <1>3

\* Their errors.
LEMMA WebErrorReadable ==
  ASSUME NEW l, Written(l)
  PROVE  Readable(ApacheError(l)) /\ Readable(NginxError(l))
  <1> DEFINE apache == [source_ip |-> <<"ip">>]
             nginx  == [source_ip |-> <<"ip">>, url |-> <<"path">>, hostname |-> <<"host", "server">>]
  <1>1. Takes(apache) /\ Takes(nginx)
    BY DEF Takes
  <1>2. DOMAIN <<"message">> = 1 .. 1 /\ DOMAIN <<"message", "upstream">> = 1 .. 2
    OBVIOUS
  <1>3. Data(l.got, <<"message">>) \in Seq(Group) /\ Data(l.got, <<"message", "upstream">>) \in Seq(Group)
    BY <1>2, DataHeld DEF Written
  <1>4. ApacheError(l) = NormalizedEventOf("apache_access", "Web Server Error", Taken(l.got, apache),
                                           Data(l.got, <<"message">>), l.raw)
    BY DEF ApacheError
  <1>5. NginxError(l) = NormalizedEventOf("nginx_access", NginxErrorType(l), Taken(l.got, nginx),
                                          Data(l.got, <<"message", "upstream">>), l.raw)
    BY DEF NginxError
  <1> HIDE DEF apache, nginx
  <1>6. Held(Taken(l.got, apache)) /\ Held(Taken(l.got, nginx))
    BY <1>1, TakenHeld DEF Written
  <1>. QED  BY <1>3, <1>4, <1>5, <1>6, MadeOf DEF Written

\* The event and the record of Windows; <Data> that is not single-quoted is not read.
LEMMA XmlHeld ==
  ASSUME NEW l, Written(l)
  PROVE  Held(XmlGroups(l))
  <1>1. Takes([hostname |-> <<"hostname">>])
    BY DEF Takes
  <1>. QED  BY <1>1, TakenHeld DEF XmlGroups, Written

\* The events, the texts and the field lines of Windows.
LEMMA WindowsReadable ==
  ASSUME NEW l, Written(l), WindowsEvent(l) # Unparsed
  PROVE  Readable(WindowsEvent(l))
  <1>1. <<>> \in Seq(Group)
    OBVIOUS
  <1>2. CASE WindowsEvent(l) = WindowsXml(l)
    <2> DEFINE takes ==
           [hostname     |-> <<"hostname">>,
            username     |-> <<"targetusername", "subjectusername">>,
            source_ip    |-> <<"ipaddress", "sourceaddress">>,
            process_name |-> <<"newprocessname", "processname">>,
            command_line |-> <<"commandline">>,
            source_port  |-> <<"ipport", "sourceport">>]
    <2>1. WindowsEvent(l) = NormalizedEventOf("windows_event", WindowsType(l.number),
                                              Taken(XmlGroups(l), takes), <<>>, l.raw)
      BY <1>2, Zenon DEF WindowsXml
    <2>2. Takes(takes)
      BY DEF Takes
    <2> HIDE DEF takes
    <2>3. Held(Taken(XmlGroups(l), takes))
      BY <2>2, XmlHeld, TakenHeld
    <2>. QED  BY <1>1, <2>1, <2>3, MadeOf DEF Written
  <1>3. Held(ExtractFields(l))
    <2> DEFINE takes == [username |-> <<"account_name">>, source_ip |-> <<"source_ip">>,
                         source_port |-> <<"source_port">>, process_name |-> <<"process_name">>,
                         command_line |-> <<"command_line">>, dest_ip |-> <<"dest_ip">>,
                         dest_port |-> <<"dest_port">>]
    <2>1. Takes(takes)
      BY DEF Takes
    <2>2. PICK found : found = Taken(l.got, takes)
      OBVIOUS
    <2> DEFINE kept == {f \in DOMAIN found : f \in DOMAIN NoField => found[f].text \notin NoField[f]}
    <2>3. ExtractFields(l) = [f \in kept |-> found[f]]
      BY <2>2, Zenon DEF ExtractFields
    <2> HIDE DEF takes
    <2>4. Held(found)
      BY <2>1, <2>2, TakenHeld DEF Written
    <2>5. kept \subseteq DOMAIN found
      OBVIOUS
    <2> HIDE DEF kept
    <2>. QED  BY <2>3, <2>4, <2>5 DEF Held
  <1>4. CASE WindowsEvent(l) = WindowsText(l)
    BY <1>1, <1>3, <1>4, MadeOf DEF WindowsText, Written
  <1>5. CASE WindowsEvent(l) = WindowsFieldLine(l)
    <2>1. WindowsEvent(l) = NormalizedEventOf("windows_event", "Windows Event", ExtractFields(l), <<>>, l.raw)
      BY <1>5, Zenon DEF WindowsFieldLine
    <2>. QED  BY <1>1, <1>3, <2>1, MadeOf DEF Written
  <1>6. \/ WindowsEvent(l) = WindowsXml(l) \/ WindowsEvent(l) = WindowsText(l)
        \/ WindowsEvent(l) = WindowsFieldLine(l)
    BY DEF WindowsEvent
  <1>. QED  BY <1>2, <1>4, <1>5, <1>6

\* The names of the groups of Sysmon.
LEMMA SysmonFieldsTyped ==
  ASSUME NEW id
  PROVE  Takes(SysmonFields(id))
  <1>1. /\ Takes([command_line |-> <<"commandline">>, username |-> <<"user">>, file_path |-> <<"image">>])
        /\ Takes([source_ip |-> <<"sourceip">>, dest_ip |-> <<"destinationip">>,
                  source_port |-> <<"sourceport">>, dest_port |-> <<"destinationport">>,
                  username |-> <<"user">>, hostname |-> <<"destinationhostname", "hostname">>])
        /\ Takes([file_path |-> <<"imagepath", "imageloaded">>])
        /\ Takes([process_name |-> <<"sourceimage">>])
        /\ Takes([file_path |-> <<"targetfilename">>]) /\ Takes([file_path |-> <<"targetobject">>])
        /\ Takes([url |-> <<"queryname">>])
    BY DEF Takes
  <1>. QED  BY <1>1, NamesTyped, OverTakes, Zenon DEF SysmonFields

\* Those of its data.
LEMMA SysmonDataTyped ==
  ASSUME NEW id
  PROVE  \E n \in Nat : DOMAIN SysmonData(id) = 1 .. n
  <1>1. /\ DOMAIN <<"hashes", "parentimage">> = 1 .. 2 /\ DOMAIN <<"signaturestatus", "hashes">> = 1 .. 2
        /\ DOMAIN <<"sourceimage", "targetimage", "startaddress">> = 1 .. 3
        /\ DOMAIN <<"targetimage", "grantedaccess">> = 1 .. 2 /\ DOMAIN <<"details">> = 1 .. 1
        /\ DOMAIN <<"querytype", "queryresults">> = 1 .. 2 /\ DOMAIN <<>> = 1 .. 0
    OBVIOUS
  <1>2. \/ SysmonData(id) = <<"hashes", "parentimage">>
        \/ SysmonData(id) = <<"signaturestatus", "hashes">>
        \/ SysmonData(id) = <<"sourceimage", "targetimage", "startaddress">>
        \/ SysmonData(id) = <<"targetimage", "grantedaccess">>
        \/ SysmonData(id) = <<"details">>
        \/ SysmonData(id) = <<"querytype", "queryresults">>
        \/ SysmonData(id) = <<>>
    <2>1. CASE id \in {1, 7, 8, 10, 22}
      BY <2>1 DEF SysmonData
    <2>2. CASE id \in {12, 13}
      BY <2>2 DEF SysmonData
    <2>3. CASE id \notin {1, 7, 8, 10, 12, 13, 22}
      BY <2>3 DEF SysmonData
    <2>. QED  BY <2>1, <2>2, <2>3
  <1>3. PICK n \in 0 .. 3 : DOMAIN SysmonData(id) = 1 .. n
    BY <1>1, <1>2
  <1>. QED  BY <1>3

\* The events of Sysmon; the name of the process is cut to its last part.
LEMMA SysmonReadable ==
  ASSUME NEW l, Written(l), SysmonEvent(l) # Unparsed
  PROVE  Readable(SysmonEvent(l))
  <1> DEFINE host == [hostname |-> <<"hostname">>]
  <1>1. PICK fields : fields = Over(Taken(XmlGroups(l), SysmonFields(l.number)), Taken(XmlGroups(l), host))
    OBVIOUS
  <1> DEFINE named == [f \in DOMAIN fields |-> IF f = "process_name"
                         THEN [fields[f] EXCEPT !.text = BaseName(@)] ELSE fields[f]]
             data == Data(XmlGroups(l), SysmonData(l.number))
  <1>2. \E name : SysmonEvent(l) = NormalizedEventOf("sysmon", name, named, data, l.head)
    BY <1>1, Zenon DEF SysmonEvent
  <1>3. Held(fields)
    <2>1. Takes(host)
      BY DEF Takes
    <2> HIDE DEF host
    <2>. QED  BY <1>1, <2>1, SysmonFieldsTyped, XmlHeld, TakenHeld, OverHeld
  <1>4. data \in Seq(Group)
    BY SysmonDataTyped, XmlHeld, DataHeld
  <1>5. \A f \in DOMAIN named : named[f].holds \in Seq(Match)
    <2>1. ASSUME NEW g \in Group, NEW text
          PROVE  [g EXCEPT !.text = text].holds \in Seq(Match) /\ g.holds \in Seq(Match)
      BY DEF Group
    <2>2. \A g \in Group : [g EXCEPT !.text = BaseName(@)].holds \in Seq(Match) /\ g.holds \in Seq(Match)
      BY <2>1
    <2>3. ASSUME NEW f \in DOMAIN named PROVE named[f].holds \in Seq(Match)
      BY <1>3, <2>2 DEF Held
    <2>. QED  BY <2>3
  <1> HIDE DEF named, data
  <1>6. PICK name : SysmonEvent(l) = NormalizedEventOf("sysmon", name, named, data, l.head)
    BY <1>2
  <1>7. /\ SysmonEvent(l).fields = named /\ SysmonEvent(l).data = data
        /\ SysmonEvent(l).raw = l.head
    BY <1>6 DEF NormalizedEventOf
  <1>. QED  BY <1>4, <1>5, <1>7 DEF Readable, Written

\* Whatever parser reads a line, the extractor can read its event.
LEMMA ParsedReadable ==
  ASSUME NEW f, NEW l, Written(l), ParseWith(f, l) # Unparsed
  PROVE  Readable(ParseWith(f, l))
  <1>1. \/ ParseWith(f, l) = SyslogEvent(l) \/ ParseWith(f, l) = ApacheEvent(l)
        \/ ParseWith(f, l) = NginxEvent(l) \/ ParseWith(f, l) = WindowsEvent(l)
        \/ ParseWith(f, l) = SysmonEvent(l)
    BY Zenon DEF ParseWith
  <1>2. CASE ParseWith(f, l) = ApacheEvent(l)
    <2>1. ApacheEvent(l) = ApacheRequest(l) \/ ApacheEvent(l) = ApacheError(l)
      BY <1>2, Zenon DEF ApacheEvent
    <2>. QED  BY <1>2, <2>1, RequestReadable, WebErrorReadable
  <1>3. CASE ParseWith(f, l) = NginxEvent(l)
    <2>1. NginxEvent(l) = NginxRequest(l) \/ NginxEvent(l) = NginxError(l)
      BY <1>3, Zenon DEF NginxEvent
    <2>. QED  BY <1>3, <2>1, RequestReadable, WebErrorReadable
  <1>. QED  BY <1>1, <1>2, <1>3, SyslogReadable, WindowsReadable, SysmonReadable

-----------------------------------------------------------------------------
(* IocConfidence and FieldsBeforeRawLine *)

\* The lines of the logs are as the parsers are given them.
LEMMA ContentWritten ==
  ASSUME NEW l \in Line
  PROVE  Written(Content[l])
  BY ContentAssumption DEF Written, Held

\* The IOCs of an event are those of the extractor, and the reference is the one of what
\* the parser made of its line.
LEMMA EventIocsOf ==
  ASSUME NEW f \in Format \cup {"unknown"}, NEW l \in Line, ParseLine[f][l] # NoEvent,
         NEW e, e = ParseLine[f][l]
  PROVE  /\ e \in NormalizedEvent /\ Cardinality(Reference[e].keys) \in Nat
         /\ \A i \in DOMAIN Iocs[e] : Iocs[e][i] \in Reference[e].iocs
         /\ \A k \in Reference[e].keys : \E i \in DOMAIN Iocs[e] :
              i <= Cardinality(Reference[e].keys) /\ Iocs[e][i].key = k
  <1> DEFINE parsed == ParseWith(f, Content[l])
  <1>1. NoEvent = Unparsed
    BY AnalysisAssumption
  <1>2. /\ parsed # Unparsed /\ e = [log_type |-> f, line |-> l] /\ Iocs[e] = ExtractFromEvent(parsed)
    <2>1. \/ parsed = Unparsed /\ ParseLine[f][l] = Unparsed
          \/ /\ parsed # Unparsed /\ ParseLine[f][l] = [log_type |-> f, line |-> l]
             /\ Iocs[[log_type |-> f, line |-> l]] = ExtractFromEvent(parsed)
      BY AnalysisAssumption, Zenon
    <2> HIDE DEF parsed
    <2>. QED  BY <1>1, <2>1
  <1>3. e \in NormalizedEvent
    BY LineEvent
  <1>4. Reference[e] = [iocs |-> ReferenceIocs(parsed), keys |-> Keys(FieldSightings(parsed))]
    <2>1. e.log_type = f /\ e.line = l
      BY <1>2
    <2>2. Reference[e] = LET p == ParseWith(e.log_type, Content[e.line])
                         IN  [iocs |-> ReferenceIocs(p), keys |-> Keys(FieldSightings(p))]
      BY <1>3 DEF Reference
    <2>. QED  BY <2>1, <2>2
  <1>5. Readable(parsed)
    BY <1>2, ContentWritten, ParsedReadable
  <1> HIDE DEF parsed
  <1>6. Reference[e].iocs = ReferenceIocs(parsed) /\ Reference[e].keys = Keys(FieldSightings(parsed))
    BY <1>4
  <1>. QED  BY <1>2, <1>3, <1>5, <1>6, EventExtracted

\* The lines a run has read.
LEMMA LinesRead ==
  ASSUME Typed, NEW r \in Run
  PROVE  /\ ReadEvents(r) = {EventAt(run[r], i) : i \in ReadOf(run[r])}
         /\ run[r].at \notin {"parse", "done"} => ReadOf(run[r]) = {} /\ run[r].merged = {}
         /\ \A i \in ReadOf(run[r]) :
              /\ run[r].type \in Format \cup {"unknown"} /\ run[r].text[i] \in Line
              /\ EventAt(run[r], i) = ParseLine[run[r].type][run[r].text[i]]
              /\ EventAt(run[r], i) # NoEvent
  <1> DEFINE x == run[r]
  <1>1. /\ x \in RunType /\ Placed(x)
    BY DEF Typed
  <1>2. x.type \in Format \cup {"unknown"} /\ x.text \in Seq(Line) /\ x.at \in At /\ x.next \in Nat
    BY <1>1, Rebuild
  <1>3. ReadEvents(r) = {EventAt(x, i) : i \in ReadOf(x)}
    BY DEF ReadEvents, ReadOf
  <1> HIDE DEF x
  <1>4. ASSUME x.at \notin {"parse", "done"} PROVE ReadOf(x) = {} /\ x.merged = {}
    <2>1. x.at \in Early
      BY <1>2, <1>4 DEF At, Early
    <2>2. x.next = 1 /\ x.merged = {}
      BY <1>1, <2>1 DEF Placed
    <2>3. \A i \in DOMAIN x.text : ~(i < x.next)
      BY <1>2, <2>2
    <2>. QED  BY <2>2, <2>3 DEF ReadOf
  <1>5. \A i \in ReadOf(x) : /\ x.text[i] \in Line
                             /\ EventAt(x, i) = ParseLine[x.type][x.text[i]] /\ EventAt(x, i) # NoEvent
    BY <1>2 DEF ReadOf, EventAt
  <1>. QED  BY <1>2, <1>3, <1>4, <1>5 DEF x

\* The IOCs of the events of a run.
LEMMA ReadEventIocs ==
  ASSUME Typed, NEW r \in Run, NEW i \in ReadOf(run[r]), NEW e, e = EventAt(run[r], i)
  PROVE  /\ e \in NormalizedEvent /\ Cardinality(Reference[e].keys) \in Nat
         /\ \A n \in DOMAIN Iocs[e] : Iocs[e][n] \in Reference[e].iocs
         /\ \A k \in Reference[e].keys : \E n \in DOMAIN Iocs[e] :
              n <= Cardinality(Reference[e].keys) /\ Iocs[e][n].key = k
  <1>1. PICK f, l : f = run[r].type /\ l = run[r].text[i]
    OBVIOUS
  <1>2. f \in Format \cup {"unknown"} /\ l \in Line /\ ParseLine[f][l] # NoEvent /\ e = ParseLine[f][l]
    BY <1>1, LinesRead
  <1>. QED  BY <1>2, EventIocsOf

\* Each stored IOC has the confidence that the reference gives its key in an event of a
\* line that was read, in whatever order the fields and the raw line show it
\* (extract_from_event, _deduplicate and the fold of _process_one_event).
THEOREM ConfidencesFit == Spec => []IocConfidence
  <1>1. Typed /\ AllFirstSeen => IocConfidence
    <2> SUFFICES ASSUME Typed, AllFirstSeen, NEW r \in Run, NEW m \in run[r].merged
                 PROVE  \E e \in ReadEvents(r) : m \in Reference[e].iocs
      BY DEF IocConfidence
    <2>1. run[r].at \in {"parse", "done"} /\ m \in Ioc
      <3>1. run[r].merged \subseteq Ioc
        BY Rebuild DEF Typed
      <3>. QED  BY <3>1, LinesRead
    <2>2. PICK i \in ReadOf(run[r]) : m \in KeptIocs(EventAt(run[r], i))
      BY <2>1 DEF AllFirstSeen, FirstSeen, FirstOf
    <2>3. PICK e : e = EventAt(run[r], i)
      OBVIOUS
    <2>4. PICK j \in DOMAIN Iocs[e] : m = Iocs[e][j]
      BY <2>2, <2>3 DEF KeptIocs
    <2>5. e \in ReadEvents(r)
      BY <2>2, <2>3, LinesRead
    <2>6. \A n \in DOMAIN Iocs[e] : Iocs[e][n] \in Reference[e].iocs
      BY <2>2, <2>3, ReadEventIocs
    <2>7. m \in Reference[e].iocs
      BY <2>4, <2>6
    <2>. QED  BY <2>5, <2>7
  <1>. QED  BY <1>1, TypedInvariant, AllFirstSeenInvariant, PTL

\* As long as the fields of an event show no more IOCs than MAX_IOC_PER_EVENT, each of them
\* is stored, however many the raw line adds.
THEOREM FieldsFirst == Spec => []FieldsBeforeRawLine
  <1>1. Typed /\ AllFirstSeen => FieldsBeforeRawLine
    <2> SUFFICES ASSUME Typed, AllFirstSeen, NEW r \in Run, NEW e \in ReadEvents(r),
                        Cardinality(Reference[e].keys) <= MaxIocs, NEW k \in Reference[e].keys
                 PROVE  k \in Keys(run[r].merged)
      BY DEF FieldsBeforeRawLine
    <2>1. PICK i \in ReadOf(run[r]) : e = EventAt(run[r], i)
      BY LinesRead
    <2>2. run[r].at \in {"parse", "done"}
      BY <2>1, LinesRead
    <2>3. e \in NormalizedEvent /\ \E j \in DOMAIN Iocs[e] :
            j <= Cardinality(Reference[e].keys) /\ Iocs[e][j].key = k
      <3>1. /\ e \in NormalizedEvent
            /\ \A o \in Reference[e].keys : \E j \in DOMAIN Iocs[e] :
                 j <= Cardinality(Reference[e].keys) /\ Iocs[e][j].key = o
        BY <2>1, ReadEventIocs
      <3>. QED  BY <3>1
    <2>4. PICK j \in DOMAIN Iocs[e] : j <= Cardinality(Reference[e].keys) /\ Iocs[e][j].key = k
      BY <2>3
    <2>5. j <= MaxIocs
      <3>1. j \in Nat /\ MaxIocs \in Nat
        <4>1. Iocs[e] \in Seq(Ioc)
          BY <2>3, Constants
        <4>. QED  BY <4>1, Constants
      <3>2. Cardinality(Reference[e].keys) \in Nat
        BY <2>1, ReadEventIocs
      <3>. QED  BY <2>4, <3>1, <3>2
    <2>6. Iocs[e][j] \in KeptIocs(EventAt(run[r], i))
      BY <2>1, <2>4, <2>5 DEF KeptIocs
    <2>7. PICK m \in run[r].merged : m.key = Iocs[e][j].key
      BY <2>2, <2>6 DEF AllFirstSeen, FirstSeen
    <2>. QED  BY <2>4, <2>7 DEF Keys
  <1>. QED  BY <1>1, TypedInvariant, AllFirstSeenInvariant, PTL
=============================================================================
