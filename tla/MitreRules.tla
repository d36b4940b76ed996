----------------------------- MODULE MitreRules -----------------------------
(***************************************************************************)
(* The rules of the classifier: the patterns of a rule are looked for in   *)
(* the type of an event, log_types restricts it to formats.  Techniques,   *)
(* categories and tags are left out; no rule has extra conditions.         *)
(***************************************************************************)
EXTENDS Naturals

AnyLog == {}

R(rule_id, event_type_patterns, severity_score, priority, log_types) ==
  [rule_id |-> rule_id, event_type_patterns |-> event_type_patterns,
   severity_score |-> severity_score, priority |-> priority, log_types |-> log_types]

\* CRITICAL (Score 9-10)
CriticalRules == {
  R("CR-001", {"LSASS Access", "LSASS Injection", "Credential Dumping"}, 10, 10, AnyLog),
  R("CR-002", {"Credential Dumping Attempt"}, 10, 10, AnyLog),
  R("CR-003", {"Remote Thread Created"}, 9, 10, AnyLog)}

\* HIGH (Score 7-8)
HighRules1 == {
  R("HI-001", {"Encoded PowerShell"}, 8, 15, AnyLog),
  R("HI-002", {"LOLBin Execution", "Suspicious Child Process"}, 7, 15, AnyLog),
  R("HI-003", {"Registry Persistence"}, 8, 15, AnyLog),
  R("HI-004", {"Scheduled Task Created", "Scheduled Task Modified"}, 8, 15, AnyLog),
  R("HI-005", {"Service Installed"}, 8, 15, AnyLog),
  R("HI-006", {"Privilege Escalation"}, 7, 20, {"linux_syslog"}),
  R("HI-007", {"Privilege Escalation", "Special Priv"}, 7, 20, {"windows_event"}),
  R("HI-008", {"Suspicious Network Connection"}, 8, 15, AnyLog),
  R("HI-009", {"Unsigned DLL Loaded", "DLL from Suspicious Path"}, 7, 20, AnyLog)}

HighRules2 == {
  R("HI-010", {"User Account Created"}, 7, 20, AnyLog),
  R("HI-011", {"Explicit Credential Logon"}, 8, 20, AnyLog),
  R("HI-012", {"Large Data Transfer"}, 7, 20, AnyLog),
  R("HI-013", {"SQL Injection Attempt"}, 7, 20, AnyLog),
  R("HI-014", {"Command Injection Attempt"}, 8, 20, AnyLog),
  R("HI-015", {"Process Tampering"}, 8, 15, AnyLog),
  R("HI-016", {"Alternate Data Stream"}, 7, 20, AnyLog),
  R("HI-017", {"Kerberos Pre-auth Failure", "Kerberos TGT Request", "Kerberos Service Ticket"}, 7, 20, AnyLog)}

\* MEDIUM (Score 5-6); three of the rules score less.
MediumRules1 == {
  R("ME-001", {"Failed Login"}, 5, 30, AnyLog),
  R("ME-002", {"Invalid User"}, 5, 30, AnyLog),
  R("ME-003", {"Brute Force"}, 6, 25, AnyLog),
  R("ME-004", {"Account Lockout"}, 6, 25, AnyLog),
  R("ME-005", {"Authentication Failure"}, 4, 35, AnyLog),
  R("ME-006", {"Unauthorized Access Attempt"}, 5, 30, AnyLog),
  R("ME-007", {"Forbidden Access Attempt"}, 4, 35, AnyLog),
  R("ME-008", {"XSS Attempt"}, 5, 30, AnyLog)}

MediumRules2 == {
  R("ME-009", {"Directory Traversal"}, 5, 30, AnyLog),
  R("ME-010", {"Security Group Modified"}, 6, 30, AnyLog),
  R("ME-011", {"File Created in Suspicious Location"}, 6, 30, AnyLog),
  R("ME-012", {"File Timestamp Modified"}, 6, 30, AnyLog),
  R("ME-013", {"File Deleted"}, 5, 35, AnyLog),
  R("ME-014", {"NTLM Authentication"}, 5, 35, AnyLog),
  R("ME-015", {"Password Reset"}, 5, 35, AnyLog),
  R("ME-016", {"Upstream Proxy Error"}, 3, 40, AnyLog)}

\* LOW (Score 3-4); LO-005 scores less.
LowRules == {
  R("LO-001", {"Web Scanner"}, 4, 40, AnyLog),
  R("LO-002", {"Web Scanning"}, 4, 40, AnyLog),
  R("LO-003", {"Object Access"}, 3, 45, AnyLog),
  R("LO-004", {"DNS Query"}, 3, 45, AnyLog),
  R("LO-005", {"Successful Login"}, 2, 50, AnyLog)}

\* INFORMATIONAL (Score 1-2)
InfoRules == {
  R("IN-001", {"HTTP Request"}, 1, 90, AnyLog),
  R("IN-002", {"System Log", "System Event"}, 2, 90, AnyLog),
  R("IN-003", {"HTTP Server Error", "HTTP Client Error", "Web Server Error", "Web Server Warning"}, 2, 80, AnyLog),
  R("IN-004", {"Windows Event"}, 1, 90, AnyLog),
  R("IN-005", {"Sysmon Event"}, 1, 90, AnyLog),
  R("IN-006", {"Process Creation"}, 2, 80, AnyLog)}

AllRules == CriticalRules \cup HighRules1 \cup HighRules2 \cup MediumRules1 \cup MediumRules2
            \cup LowRules \cup InfoRules
=============================================================================
