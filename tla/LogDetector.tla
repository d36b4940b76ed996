----------------------------- MODULE LogDetector ----------------------------
(***************************************************************************)
(* The scores of LogTypeDetector: the weights, in tenths, of the patterns  *)
(* of a format that some line of the sample matches, as a share of all its *)
(* weights.  The marks of a line are the patterns it matches.              *)
(***************************************************************************)
EXTENDS Naturals, SequencesExt, FiniteSetsExt

CONSTANT SampleLines

WindowsSignatures ==
  [event_xmlns |-> 30, event_id |-> 25, channel |-> 20, provider |-> 20, event_id_text |-> 25,
   keywords |-> 15, log_name |-> 20, source_name |-> 15, event_type |-> 15, security_id |-> 15,
   account_name |-> 10, logon_type |-> 15, elf_file |-> 20]
SyslogSignatures ==
  [rfc3164 |-> 30, rfc5424 |-> 30, service |-> 25, ssh |-> 20, sudo_tty |-> 20, pam |-> 15,
   kernel |-> 20]
ApacheSignatures ==
  [combined_no_user |-> 40, method |-> 25, protocol_status |-> 25, level |-> 15,
   apache_code |-> 20, mozilla |-> 10]
NginxSignatures ==
  [combined |-> 35, nginx_error |-> 35, upstream |-> 20, connect_failed |-> 20, method |-> 15,
   nginx_version |-> 25]
\* The names of its Data are expected in double quotes.
SysmonSignatures ==
  [provider_sysmon |-> 40, event_id_sysmon |-> 30, data_process |-> 30, data_file |-> 25,
   rule_name |-> 25, hash |-> 20]

Signatures ==
  [sysmon |-> SysmonSignatures, windows_event |-> WindowsSignatures,
   linux_syslog |-> SyslogSignatures, apache_access |-> ApacheSignatures,
   nginx_access |-> NginxSignatures]

\* The lines of a text, a sequence of records, that are looked at.
Sample(lines) ==
  LET here == SelectSeq(lines, LAMBDA l : l.shape # "blank")
  IN  {here[i] : i \in {j \in DOMAIN here : j <= SampleLines}}

Weight(weights, marks) ==
  FoldSet(LAMBDA m, sum : weights[m] + sum, 0, DOMAIN weights \cap marks)

\* A common multiple of the total weights, so that shares of different formats are
\* whole numbers and compare as the quotients do.
CommonTotal == 17992800

TotalWeight(f) == Weight(Signatures[f], DOMAIN Signatures[f])

ASSUME CommonTotalAssumption ==
  \A f \in DOMAIN Signatures : CommonTotal % TotalWeight(f) = 0

\* As a share of CommonTotal; an empty sample scores nothing.
SignatureScore(f, lines) ==
  Weight(Signatures[f], UNION {l.marks : l \in Sample(lines)}) * (CommonTotal \div TotalWeight(f))
=============================================================================
