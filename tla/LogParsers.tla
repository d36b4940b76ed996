----------------------------- MODULE LogParsers -----------------------------
(***************************************************************************)
(* The five parsers: what parse_line makes of one line.  A line is given   *)
(* by its form, by the patterns of the parsers that it matches, by the     *)
(* groups they capture and by the IOC patterns its text holds:             *)
(*   shape   which header or format it has                                 *)
(*   says    the patterns it matches                                       *)
(*   only    those of the requests that only one parser has                *)
(*   number  its event ID or its status code                               *)
(*   got     captured groups, a group that is absent or empty left out     *)
(*   raw     the matches of IOC patterns in it; head: in its start, which  *)
(*           the Sysmon parser keeps                                       *)
(* A group is a match of its own, [pattern, text, kind], with the matches  *)
(* inside it.  Timestamps and process numbers are left out.                *)
(***************************************************************************)
EXTENDS Naturals, SequencesExt

\* The last part of a path.
CONSTANT BaseName(_)

Match == [pattern : STRING, text : STRING, kind : STRING]
Group == [pattern : STRING, text : STRING, kind : STRING, holds : Seq(Match)]

Shape == {"blank", "other", "syslog", "access", "raw_request", "apache_error",
          "nginx_error", "xml", "text"}

\* parse_line returned None.
Unparsed == [log_type |-> "none"]

\* The first of the groups is the field's value.
Taken(got, takes) ==
  LET has(f) == {i \in DOMAIN takes[f] : takes[f][i] \in DOMAIN got}
  IN  [f \in {g \in DOMAIN takes : has(g) # {}} |-> got[takes[f][Min(has(f))]]]

\* What g has and f has not is added to f.
Over(f, g) == [x \in DOMAIN f \cup DOMAIN g |-> IF x \in DOMAIN f THEN f[x] ELSE g[x]]

\* The string values of normalized_data that are groups, in the order of its keys.
Data(got, names) ==
  FlattenSeq([i \in DOMAIN names |->
    IF names[i] \in DOMAIN got THEN <<got[names[i]]>> ELSE <<>>])

NormalizedEventOf(log_type, event_type, fields, data, raw) ==
  [log_type |-> log_type, event_type |-> event_type, fields |-> fields,
   data |-> data, raw |-> raw]

-----------------------------------------------------------------------------
(* LinuxSyslogParser *)

SyslogFact == {"sshd", "sudo", "ssh_failed", "ssh_accepted", "ssh_invalid", "ssh_max_auth",
               "sudo_command", "pam_failure", "oom", "kernel_panic"}

SyslogHeader == [hostname |-> <<"hostname">>, process_name |-> <<"process">>]
Login == [username |-> <<"username">>, source_ip |-> <<"ip">>, source_port |-> <<"port">>]
NoFields == [f \in {} |-> <<>>]

\* Both optional groups of _PAM_FAILURE follow a lazy ".*?", which is satisfied with
\* nothing: they are never captured.
SyslogRules == <<
  [needs |-> {"sshd", "ssh_failed"},   type |-> "Failed Login",     takes |-> Login],
  [needs |-> {"sshd", "ssh_accepted"}, type |-> "Successful Login", takes |-> Login],
  [needs |-> {"sshd", "ssh_invalid"},  type |-> "Invalid User",
   takes |-> [username |-> <<"username">>, source_ip |-> <<"ip">>]],
  [needs |-> {"sshd", "ssh_max_auth"}, type |-> "Brute Force", takes |-> NoFields],
  [needs |-> {"sudo", "sudo_command"}, type |-> "Privilege Escalation",
   takes |-> [username |-> <<"username">>, command_line |-> <<"command">>]],
  [needs |-> {"pam_failure"},  type |-> "Authentication Failure", takes |-> NoFields],
  [needs |-> {"oom"},          type |-> "System Event",
   takes |-> [process_name |-> <<"killed">>]],
  [needs |-> {"kernel_panic"}, type |-> "System Event", takes |-> NoFields],
  [needs |-> {},               type |-> "System Log",   takes |-> NoFields]>>

SyslogEvent(l) ==
  LET fits == {i \in DOMAIN SyslogRules : SyslogRules[i].needs \subseteq l.says}
      rule == SyslogRules[Min(fits)]
      data == IF rule.type = "Privilege Escalation"
              THEN <<"tty", "working_dir", "target_user">> ELSE <<>>
  IN  NormalizedEventOf("linux_syslog", rule.type,
        Over(Taken(l.got, rule.takes), Taken(l.got, SyslogHeader)), Data(l.got, data), l.raw)

-----------------------------------------------------------------------------
(* ApacheAccessParser and NginxAccessParser *)

RequestFact == {"sql_injection", "xss", "traversal", "command_injection", "scanner_ua",
                "path_scan", "large"}

\* "Same logic as Apache", with shorter lists of patterns.
Shows(f, l) == l.says \cup l.only[f]

RequestRules == <<
  [on |-> "sql_injection",     type |-> "SQL Injection Attempt",     adds |-> <<>>],
  [on |-> "xss",               type |-> "XSS Attempt",               adds |-> <<>>],
  [on |-> "traversal",         type |-> "Directory Traversal",       adds |-> <<>>],
  [on |-> "command_injection", type |-> "Command Injection Attempt", adds |-> <<>>],
  [on |-> "scanner_ua",        type |-> "Web Scanner",               adds |-> <<"ua">>],
  [on |-> "path_scan",         type |-> "Web Scanning",              adds |-> <<"path">>],
  [on |-> "large",             type |-> "Large Data Transfer",       adds |-> <<>>]>>

\* The branch of "HTTP Server Error", for 500 and above, comes after the one for 400
\* and above.
StatusType(status) ==
  CASE status = 401 -> "Unauthorized Access Attempt"
    [] status = 403 -> "Forbidden Access Attempt"
    [] status >= 400 /\ status \notin {401, 403} -> "HTTP Client Error"
    [] OTHER -> "HTTP Request"

\* Variant: the status is looked at first.
ClassifyRequestStatusFirst(shown, status) ==
  LET fits == {i \in DOMAIN RequestRules : RequestRules[i].on \in shown}
  IN  IF fits = {} \/ status >= 400 THEN [type |-> StatusType(status), adds |-> <<>>]
                                     ELSE RequestRules[Min(fits)]

\* The patterns are tried in their order, on the decoded path.
ClassifyRequest(shown, status) ==
  LET fits == {i \in DOMAIN RequestRules : RequestRules[i].on \in shown}
  IN  IF fits # {} THEN RequestRules[Min(fits)] ELSE [type |-> StatusType(status), adds |-> <<>>]

\* dest_port is 80, which is no IOC.
RequestFields == [source_ip |-> <<"ip">>, username |-> <<"user">>, url |-> <<"path">>]

\* scan_path is the decoded path.
Decoded(l, names) ==
  [i \in DOMAIN names |-> IF names[i] = "path" /\ "decoded_path" \in DOMAIN l.got
                          THEN "decoded_path" ELSE names[i]]

ApacheRequest(l) ==
  LET class == ClassifyRequest(Shows("apache_access", l), l.number)
  IN  NormalizedEventOf("apache_access", class.type, Taken(l.got, RequestFields),
        Data(l.got, <<"referer", "decoded_path">> \o Decoded(l, class.adds)), l.raw)

ApacheError(l) ==
  NormalizedEventOf("apache_access", "Web Server Error",
    Taken(l.got, [source_ip |-> <<"ip">>]), Data(l.got, <<"message">>), l.raw)

ApacheEvent(l) ==
  CASE l.shape = "access"       -> ApacheRequest(l)
    [] l.shape = "apache_error" -> ApacheError(l)
    [] OTHER                    -> Unparsed

NginxRequest(l) ==
  LET class == ClassifyRequest(Shows("nginx_access", l), l.number)
  IN  NormalizedEventOf("nginx_access", class.type, Taken(l.got, RequestFields),
        Data(l.got, <<"referer">> \o Decoded(l, class.adds)), l.raw)

\* An upstream takes priority over the level.
NginxErrorType(l) ==
  CASE "upstream" \in l.says -> "Upstream Proxy Error"
    [] "error" \in l.says /\ "upstream" \notin l.says -> "Web Server Error"
    [] "warn" \in l.says /\ l.says \cap {"upstream", "error"} = {} -> "Web Server Warning"
    [] OTHER -> "Web Server Event"

NginxError(l) ==
  NormalizedEventOf("nginx_access", NginxErrorType(l),
    Taken(l.got, [source_ip |-> <<"ip">>, url |-> <<"path">>, hostname |-> <<"host", "server">>]),
    Data(l.got, <<"message", "upstream">>), l.raw)

\* A request that is not an HTTP one is a path of its own.
NginxEvent(l) ==
  CASE l.shape = "nginx_error"               -> NginxError(l)
    [] l.shape \in {"access", "raw_request"} -> NginxRequest(l)
    [] OTHER                                 -> Unparsed

-----------------------------------------------------------------------------
(* WindowsEventParser *)

\* event_id_tag: <EventID>n</EventID>, without attributes.
WindowsFact == {"event_id", "event_id_tag", "single_quoted"}

WindowsType(id) ==
  CASE id = 4624 -> "Successful Login"          [] id = 4625 -> "Failed Login"
    [] id = 4627 -> "Group Membership"          [] id = 4648 -> "Explicit Credential Logon"
    [] id \in {4656, 4663} -> "Object Access"   [] id = 4672 -> "Privilege Escalation"
    [] id = 4688 -> "Process Creation"          [] id = 4698 -> "Scheduled Task Created"
    [] id = 4699 -> "Scheduled Task Deleted"    [] id = 4702 -> "Scheduled Task Modified"
    [] id = 4720 -> "User Account Created"      [] id = 4722 -> "User Account Enabled"
    [] id = 4724 -> "Password Reset"            [] id = 4725 -> "User Account Disabled"
    [] id = 4726 -> "User Account Deleted"      [] id = 4732 -> "Security Group Modified"
    [] id = 4740 -> "Account Lockout"           [] id = 4768 -> "Kerberos TGT Request"
    [] id = 4769 -> "Kerberos Service Ticket"   [] id = 4771 -> "Kerberos Pre-auth Failure"
    [] id = 4776 -> "NTLM Authentication"       [] id = 7045 -> "Service Installed"
    [] id = 4657 -> "Registry Value Modified"   [] id = 4660 -> "Object Deleted"
    [] id = 4670 -> "Permissions Changed"       [] OTHER -> "Windows Event"

\* <Data Name='...'> is read, <Data Name="..."> is not.
XmlGroups(l) ==
  IF "single_quoted" \in l.says THEN l.got ELSE Taken(l.got, [hostname |-> <<"hostname">>])

\* data_fields is a dictionary: its strings are not among the data.
WindowsXml(l) ==
  IF "event_id" \notin l.says THEN Unparsed
  ELSE NormalizedEventOf("windows_event", WindowsType(l.number),
         Taken(XmlGroups(l),
           [hostname     |-> <<"hostname">>,
            username     |-> <<"targetusername", "subjectusername">>,
            source_ip    |-> <<"ipaddress", "sourceaddress">>,
            process_name |-> <<"newprocessname", "processname">>,
            command_line |-> <<"commandline">>,
            source_port  |-> <<"ipport", "sourceport">>]),
         <<>>, l.raw)

\* What _extract_fields_into passes over.
NoField == [username |-> {"-", "SYSTEM"}, source_ip |-> {"-", "::1", "127.0.0.1"}, dest_ip |-> {"-"}]

ExtractFields(l) ==
  LET found == Taken(l.got, [username |-> <<"account_name">>, source_ip |-> <<"source_ip">>,
                             source_port |-> <<"source_port">>, process_name |-> <<"process_name">>,
                             command_line |-> <<"command_line">>, dest_ip |-> <<"dest_ip">>,
                             dest_port |-> <<"dest_port">>])
      kept == {f \in DOMAIN found : f \in DOMAIN NoField => found[f].text \notin NoField[f]}
  IN  [f \in kept |-> found[f]]

WindowsText(l) ==
  NormalizedEventOf("windows_event", WindowsType(l.number), ExtractFields(l), <<>>, l.raw)

\* A line of a record without its event ID; one with nothing of note is skipped.
WindowsFieldLine(l) ==
  IF DOMAIN ExtractFields(l) \cap {"username", "source_ip", "process_name", "command_line"} = {}
  THEN Unparsed
  ELSE NormalizedEventOf("windows_event", "Windows Event", ExtractFields(l), <<>>, l.raw)

WindowsEvent(l) ==
  CASE l.shape = "xml" -> WindowsXml(l)
    [] l.shape # "xml" /\ "event_id" \in l.says -> WindowsText(l)
    [] OTHER -> WindowsFieldLine(l)

-----------------------------------------------------------------------------
(* SysmonParser *)

SysmonFact == {"mimikatz", "encoded_command", "office_parent", "lolbin", "suspicious_path",
               "unsigned", "lsass", "persistence_key"}

SysmonType(id) ==
  CASE id = 1  -> "Process Creation"       [] id = 2  -> "File Timestamp Modified"
    [] id = 3  -> "Network Connection"     [] id = 5  -> "Process Terminated"
    [] id = 7  -> "DLL Loaded"             [] id = 8  -> "Remote Thread Created"
    [] id = 10 -> "Process Access"         [] id = 11 -> "File Created"
    [] id = 12 -> "Registry Key Created"   [] id = 13 -> "Registry Value Set"
    [] id = 15 -> "Alternate Data Stream"  [] id = 17 -> "Pipe Created"
    [] id = 18 -> "Pipe Connected"         [] id = 22 -> "DNS Query"
    [] id = 23 -> "File Deleted"           [] id = 25 -> "Process Tampering"
    [] OTHER   -> "Sysmon Event N"

C2Ports == {"4444", "5555", "8080", "8443", "1337", "31337", "6666", "6667"}

\* In the order in which the enrichers prefer them.
SysmonRules == <<
  [ids |-> {1},  needs |-> {"mimikatz"},        type |-> "Credential Dumping Attempt"],
  [ids |-> {1},  needs |-> {"encoded_command"}, type |-> "Encoded PowerShell"],
  [ids |-> {1},  needs |-> {"office_parent", "lolbin"}, type |-> "Suspicious Child Process"],
  [ids |-> {1},  needs |-> {"lolbin"},          type |-> "LOLBin Execution"],
  [ids |-> {3},  needs |-> {"c2_port"},         type |-> "Suspicious Network Connection"],
  [ids |-> {7},  needs |-> {"suspicious_path"}, type |-> "DLL from Suspicious Path"],
  [ids |-> {7},  needs |-> {"unsigned"},        type |-> "Unsigned DLL Loaded"],
  [ids |-> {8},  needs |-> {"lsass"},           type |-> "LSASS Injection"],
  [ids |-> {10}, needs |-> {"lsass"},           type |-> "LSASS Access (Credential Dump)"],
  [ids |-> {11}, needs |-> {"suspicious_path"}, type |-> "File Created in Suspicious Location"],
  [ids |-> {12, 13}, needs |-> {"persistence_key"}, type |-> "Registry Persistence"]>>

\* The patterns are applied to the Data that were read.
Seen(l) ==
  LET got == XmlGroups(l)
      c2  == "destinationport" \in DOMAIN got /\ got["destinationport"].text \in C2Ports
  IN  (IF "single_quoted" \in l.says THEN l.says ELSE {}) \cup (IF c2 THEN {"c2_port"} ELSE {})

Image == [process_name |-> <<"image">>]

SysmonFields(id) ==
  CASE id = 1 -> Over(Image, [command_line |-> <<"commandline">>, username |-> <<"user">>,
                              file_path |-> <<"image">>])
    [] id = 3 -> Over(Image, [source_ip |-> <<"sourceip">>, dest_ip |-> <<"destinationip">>,
                              source_port |-> <<"sourceport">>, dest_port |-> <<"destinationport">>,
                              username |-> <<"user">>,
                              hostname |-> <<"destinationhostname", "hostname">>])
    [] id = 7 -> Over(Image, [file_path |-> <<"imagepath", "imageloaded">>])
    [] id \in {8, 10}  -> [process_name |-> <<"sourceimage">>]
    [] id \in {11, 23} -> Over(Image, [file_path |-> <<"targetfilename">>])
    [] id \in {12, 13} -> Over(Image, [file_path |-> <<"targetobject">>])
    [] id = 22 -> Over(Image, [url |-> <<"queryname">>])
    [] OTHER   -> NoFields

SysmonData(id) ==
  CASE id = 1  -> <<"hashes", "parentimage">>
    [] id = 7  -> <<"signaturestatus", "hashes">>
    [] id = 8  -> <<"sourceimage", "targetimage", "startaddress">>
    [] id = 10 -> <<"targetimage", "grantedaccess">>
    [] id \in {12, 13} -> <<"details">>
    [] id = 22 -> <<"querytype", "queryresults">>
    [] OTHER   -> <<>>

\* Any line that holds an EventID without attributes is taken.
SysmonEvent(l) ==
  LET got    == XmlGroups(l)
      fields == Over(Taken(got, SysmonFields(l.number)), Taken(got, [hostname |-> <<"hostname">>]))
      fits   == {i \in DOMAIN SysmonRules : /\ l.number \in SysmonRules[i].ids
                                           /\ SysmonRules[i].needs \subseteq Seen(l)}
      type   == IF fits # {} THEN SysmonRules[Min(fits)].type ELSE SysmonType(l.number)
  IN  IF "event_id_tag" \notin l.says THEN Unparsed
      ELSE NormalizedEventOf("sysmon", type,
             [f \in DOMAIN fields |-> IF f = "process_name"
                THEN [fields[f] EXCEPT !.text = BaseName(@)] ELSE fields[f]],
             Data(got, SysmonData(l.number)), l.head)

-----------------------------------------------------------------------------
(* BaseParser.parse, of one line, and the registry *)

ParseWith(f, l) ==
  CASE l.shape = "blank" -> Unparsed
    [] l.shape # "blank" /\ f = "linux_syslog"  ->
         IF l.shape = "syslog" THEN SyslogEvent(l) ELSE Unparsed
    [] l.shape # "blank" /\ f = "apache_access" -> ApacheEvent(l)
    [] l.shape # "blank" /\ f = "nginx_access"  -> NginxEvent(l)
    [] l.shape # "blank" /\ f = "windows_event" -> WindowsEvent(l)
    [] l.shape # "blank" /\ f = "sysmon"        -> SysmonEvent(l)
    [] OTHER -> Unparsed
=============================================================================
