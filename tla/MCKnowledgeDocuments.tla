----------------------- MODULE MCKnowledgeDocuments -----------------------
(***************************************************************************)
(* A small instance of KnowledgeDocuments: a note of three chunks; lines   *)
(* of which some are no use and the first good one is an NVD record with   *)
(* the text of the note; a text too short to be accepted; a file with a    *)
(* text that cannot be encoded; and a picture.                             *)
(***************************************************************************)
EXTENDS KnowledgeDocuments, TLC

CONSTANTS note, record, scrap, odd, picture

Text(id, chars, words, nodes) ==
  [id |-> id, chars |-> chars, words |-> words, utf8 |-> TRUE, nodes |-> nodes,
   technique |-> "", cve |-> ""]
Blank == Text("blank", 0, 0, 0)
Guide == [Text("guide", 900, 150, 3) EXCEPT !.technique = "T1059.001", !.cve = "cve-2021-44228"]
Alert == Text("alert", 50, 10, 0)
Scrap == Text("scrap", 49, 10, 1)
Surrogate == [Text("surrogate", 80, 12, 1) EXCEPT !.utf8 = FALSE]

Object(texts, fields) == [kind |-> "object", texts |-> texts, fields |-> fields, rest |-> Blank]
No == [technique |-> "", cve |-> ""]
File_(path, parts, ext, body) ==
  [path |-> path, parts |-> parts, ext |-> ext, stem |-> No, body |-> body]

MCSource ==
  (note :> File_("note", <<"raw", "playbooks", "owasp">>, ".md", [kind |-> "text", text |-> Guide]))
  @@ (record :> File_("record", <<"raw", "vulnerabilities">>, ".jsonl",
       [kind |-> "lines", items |-> <<[kind |-> "broken"], Object([text |-> Blank], [id |-> "x"]),
          Object([text |-> Blank, description |-> Guide],
                 [id |-> "nvd-1", cveId |-> "cve-2021-44228", severity |-> "",
                  baseSeverity |-> "HIGH", source_type |-> "advisory"]),
          Object([body |-> Alert], [id |-> "cve-2020-0001", severity |-> "Moderate"])>>]))
  @@ (scrap :> File_("scrap", <<"raw", "rules">>, ".md", [kind |-> "text", text |-> Scrap]))
  @@ (odd :> File_("odd", <<"raw">>, ".jsonl",
       [kind |-> "lines", items |-> <<Object([text |-> Alert], [id |-> "x"]),
                                      Object([text |-> Surrogate], [id |-> "y"])>>]))
  @@ (picture :> File_("picture", <<"raw">>, ".png", [kind |-> "bytes"]))

MCDocs ==
  [f \in File |->
    CASE f = note -> <<"guide">>
      [] f = record -> <<"guide", "alert">>
      [] f = scrap -> <<"scrap">>
      [] OTHER -> <<>>]

MCBatches == [d \in Doc |-> IF d = "guide" THEN 2 ELSE 1]

MCLower(s) == CASE s = "HIGH" -> "high" [] s = "Moderate" -> "moderate" [] OTHER -> s
MCUpper(s) == CASE s = "cve-2021-44228" -> "CVE-2021-44228"
                [] s = "cve-2020-0001" -> "CVE-2020-0001" [] OTHER -> s
MCIsCve(s) == s \in {"cve-2021-44228", "cve-2020-0001", "CVE-2021-44228", "CVE-2020-0001"}

Symmetry == Permutations(Call)
=============================================================================
