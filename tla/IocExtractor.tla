---------------------------- MODULE IocExtractor ----------------------------
(***************************************************************************)
(* IOCExtractor.extract_from_event: the IOCs of one event, from its fields *)
(* and then from its raw line.  A text is given by the matches of the IOC  *)
(* patterns in it, [pattern, text, kind] in the order of their places; the *)
(* kind says what the validation of the pattern asks.  Confidences are in  *)
(* percent; contexts and source fields are left out.                       *)
(***************************************************************************)
EXTENDS Naturals, SequencesExt

\* The canonical form of a value: lower or upper case, the address as Python prints it.
CONSTANT Folded(_)

P(pattern, type, confidence, folds, rejects) ==
  [pattern |-> pattern, type |-> type, confidence |-> confidence, folds |-> folds,
   rejects |-> rejects]

\* In the order of _extract_all.  Domains are checked with tldextract.
Patterns == <<
  P("sha256",        "SHA256",    100, TRUE,  {"benign"}),
  P("sha1",          "SHA1",      100, TRUE,  {"benign"}),
  P("md5",           "MD5",        90, TRUE,  {"benign"}),
  P("ipv4",          "IPV4",      100, TRUE,
    {"invalid", "loopback", "unspecified", "multicast", "private"}),
  P("ipv6",          "IPV6",      100, TRUE,  {"invalid", "loopback", "unspecified"}),
  P("cve",           "CVE",       100, TRUE,  {}),
  P("email",         "EMAIL",      95, TRUE,  {}),
  P("url",           "URL",        95, FALSE, {}),
  P("domain",        "DOMAIN",     90, TRUE,  {"benign", "number", "no_suffix"}),
  P("win_path",      "FILE_PATH",  90, FALSE, {}),
  P("unix_path",     "FILE_PATH",  85, FALSE, {"short"}),
  P("registry_key",  "FILE_PATH", 100, FALSE, {}),
  P("filename",      "FILENAME",   75, TRUE,  {}),
  P("sysmon_sha256", "SHA256",    100, TRUE,  {"benign"}),
  P("sysmon_sha1",   "SHA1",      100, TRUE,  {"benign"}),
  P("sysmon_md5",    "MD5",        90, TRUE,  {"benign"})>>

\* The fields that are validated as a whole.
FieldPatterns == [
  ipv4     |-> P("ipv4",     "IPV4",     100, TRUE,
                {"invalid", "loopback", "unspecified", "private"}),
  ipv6     |-> P("ipv6",     "IPV6",     100, TRUE,  {"invalid", "loopback"}),
  username |-> P("username", "USERNAME",  90, FALSE, {"skip", "length"}),
  domain   |-> P("domain",   "DOMAIN",    80, TRUE,  {"benign", "number", "short"}),
  filename |-> P("filename", "FILENAME",  85, TRUE,  {"other"}),
  port     |-> P("port",     "PORT",      90, FALSE, {"out_of_range"})]

ExtractedIOC(m, p) ==
  [key |-> <<p.type, IF p.folds THEN Folded(m.text) ELSE m.text>>, confidence |-> p.confidence]

\* The IOCs that one pattern finds among the matches in a text.
Find(p, found) ==
  FlattenSeq([i \in DOMAIN found |->
    IF found[i].pattern = p.pattern /\ found[i].kind \notin p.rejects
    THEN <<ExtractedIOC(found[i], p)>> ELSE <<>>])

ExtractAll(found) == FlattenSeq([i \in DOMAIN Patterns |-> Find(Patterns[i], found)])

Has(seen, key) == \E i \in DOMAIN seen : seen[i].key = key

\* Variant: the first match of a value is kept.
AddFirst(seen, ioc) == IF Has(seen, ioc.key) THEN seen ELSE Append(seen, ioc)

\* The higher confidence is kept, in the place of the first match.
Add(seen, ioc) ==
  IF ~Has(seen, ioc.key) THEN Append(seen, ioc)
  ELSE [i \in DOMAIN seen |->
         IF seen[i].key = ioc.key /\ ioc.confidence > seen[i].confidence THEN ioc ELSE seen[i]]

ExtractFromText(found) == FoldLeft(Add, <<>>, ExtractAll(found))

-----------------------------------------------------------------------------
\* A field whose value is one IOC, if it is valid.
WholeField(e, f, patterns) ==
  IF f \notin DOMAIN e.fields \/ e.fields[f].pattern \notin patterns THEN <<>>
  ELSE Find(FieldPatterns[e.fields[f].pattern], <<e.fields[f]>>)

TextField(e, f) == IF f \in DOMAIN e.fields THEN ExtractFromText(e.fields[f].holds) ELSE <<>>

BoringPorts == {"80", "443", "22", "21", "25", "53", "8080", "8443", "3389", "445", "139", "135",
                "137", "138", "389", "636", "1433", "3306", "5432", "6379", "27017"}

PortField(e, f) ==
  IF f \in DOMAIN e.fields /\ e.fields[f].text \in BoringPorts THEN <<>>
  ELSE WholeField(e, f, {"port"})

\* The IOCs of the structured fields in the order of the scan; user_agent is not
\* scanned.
FieldIocs(e) ==
  WholeField(e, "source_ip", {"ipv4", "ipv6"}) \o WholeField(e, "dest_ip", {"ipv4", "ipv6"})
  \o TextField(e, "url") \o WholeField(e, "username", {"username"})
  \o WholeField(e, "hostname", {"domain"}) \o WholeField(e, "process_name", {"filename"})
  \o TextField(e, "command_line") \o TextField(e, "file_path")
  \o PortField(e, "source_port") \o PortField(e, "dest_port")
  \o FlattenSeq([i \in DOMAIN e.data |-> ExtractFromText(e.data[i].holds)])

AddRaw(seen, ioc) ==
  IF Has(seen, ioc.key) THEN seen
  ELSE Append(seen, [ioc EXCEPT !.confidence = (@ * 4) \div 5])

\* Variant: the raw line is read before the fields.
ExtractFromEventRawFirst(e) ==
  FoldLeft(Add, FoldLeft(AddRaw, <<>>, ExtractFromText(e.raw)), FieldIocs(e))

ExtractFromEvent(e) ==
  FoldLeft(AddRaw, FoldLeft(Add, <<>>, FieldIocs(e)), ExtractFromText(e.raw))
=============================================================================
