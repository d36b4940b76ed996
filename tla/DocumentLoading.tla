--------------------------- MODULE DocumentLoading ---------------------------
(***************************************************************************)
(* What the loaders, the validator and the splitter make of a file: its    *)
(* documents, which of them are accepted, and the payloads of their        *)
(* chunks.                                                                 *)
(*                                                                         *)
(* A file is [path, parts, ext, stem, body]: the lower-case parts of its   *)
(* path, what its name tells of a technique and of a CVE, and what reading *)
(* and decoding it gives.  A text is [id, chars, words, utf8, nodes,       *)
(* technique, cve]: its hash, its stripped length, its words, whether it   *)
(* can be encoded, how many nodes SentenceSplitter makes of it together    *)
(* with the metadata of the document that holds it (0 if it raises; two    *)
(* documents with one content may differ in it), and the first IDs in its  *)
(* first 500 characters.  An absent string is "".                          *)
(***************************************************************************)
EXTENDS Naturals, SequencesExt

CONSTANTS
  Lower(_), Upper(_),   \* a string in lower and in upper case
  IsCve(_),             \* a string begins with a CVE identifier, in any case
  UpsertBatchSize       \* points in one request, 100 in the code

ASSUME BatchSizeAssumption == UpsertBatchSize \in Nat \ {0}

SourceType == {"mitre", "nvd", "sigma", "owasp", "cisa", "playbook", "custom"}

PluralAliases ==
  [playbooks |-> "playbook", advisories |-> "cisa", vulnerabilities |-> "nvd",
   techniques |-> "mitre", rules |-> "sigma"]

SeverityAliases ==
  [informational |-> "info", critical |-> "critical", high |-> "high", medium |-> "medium",
   moderate |-> "medium", low |-> "low", info |-> "info"]

\* {**under, **over}
Over(over, under) ==
  [k \in DOMAIN over \cup DOMAIN under |-> IF k \in DOMAIN over THEN over[k] ELSE under[k]]

\* a or b or ...
FirstOf(strings) ==
  LET given == SelectSeq(strings, LAMBDA s : s # "") IN IF given = <<>> THEN "" ELSE given[1]

\* The first part of the whole path that names a type decides.
InferSourceType(parts) ==
  LET known == {i \in DOMAIN parts : parts[i] \in SourceType \cup DOMAIN PluralAliases}
      first == parts[Min(known)]
  IN  CASE known = {} -> "custom"
        [] known # {} /\ first \in SourceType -> first
        [] OTHER -> PluralAliases[first]

InferTechniqueId(source, text) == FirstOf(<<source.stem.technique, text.technique>>)
InferCveId(source, text) == Upper(FirstOf(<<source.stem.cve, text.cve>>))

NormaliseSeverity(raw) ==
  IF Lower(raw) \in DOMAIN SeverityAliases THEN SeverityAliases[Lower(raw)] ELSE ""

KnowledgeDocument(source, text, metadata, source_url, technique_id, cve_id, severity) ==
  [doc_hash |-> text.id, content |-> text, source_path |-> source.path,
   source_type |-> InferSourceType(source.parts), metadata |-> metadata,
   source_url |-> source_url, technique_id |-> technique_id, cve_id |-> cve_id,
   severity |-> severity]

-----------------------------------------------------------------------------
(* The loaders: a load that raises gives no document, as an empty file *)

\* PlainTextLoader and PDFLoader make one document of all the text.
LoadText(source) ==
  IF source.body.kind # "text" \/ source.body.text.chars = 0 THEN <<>>
  ELSE LET text == source.body.text
           metadata == [filename |-> source.path, file_extension |-> source.ext]
       IN  <<KnowledgeDocument(source, text, metadata, "",
               InferTechniqueId(source, text), InferCveId(source, text), "")>>

ContentKeys == <<"content", "text", "description", "body", "summary", "details", "narrative",
                 "rule", "definition">>

\* The first content key with a text; else the scalar fields are written out.
ExtractContent(object) ==
  LET usable == SelectSeq(ContentKeys,
                  LAMBDA k : k \in DOMAIN object.texts /\ object.texts[k].chars > 0)
  IN  IF usable = <<>> THEN object.rest ELSE object.texts[usable[1]]

Get(object, key) == IF key \in DOMAIN object.fields THEN object.fields[key] ELSE ""

\* Variant: an identifier of its own field keeps its spelling.
ExtractCveIdAsGiven(object, source, text) ==
  LET explicit == FirstOf(<<Get(object, "cve_id"), Get(object, "cveId")>>)
  IN  CASE IsCve(Get(object, "id")) -> Upper(Get(object, "id"))
        [] ~IsCve(Get(object, "id")) /\ explicit # "" -> explicit
        [] OTHER -> InferCveId(source, text)

ExtractCveId(object, source, text) ==
  LET explicit == FirstOf(<<Get(object, "cve_id"), Get(object, "cveId")>>)
  IN  CASE IsCve(Get(object, "id")) -> Upper(Get(object, "id"))
        [] ~IsCve(Get(object, "id")) /\ explicit # "" -> Upper(explicit)
        [] OTHER -> InferCveId(source, text)

Skipped == ToSet(ContentKeys) \cup
           {"id", "_id", "hash", "embedding", "vector", "embeddings", "source_url", "url", "link",
            "technique_id", "cve_id", "cveId", "severity", "baseSeverity"}

\* Its other scalar fields become metadata.
Metadata(object, source) ==
  Over([k \in DOMAIN object.fields \ Skipped |-> object.fields[k]], [filename |-> source.path])

DocFromObj(object, source) ==
  LET text == ExtractContent(object)
  IN  KnowledgeDocument(source, text, Metadata(object, source),
        FirstOf(<<Get(object, "source_url"), Get(object, "url"), Get(object, "link")>>),
        FirstOf(<<Get(object, "technique_id"), Get(object, "techniqueId"),
                  InferTechniqueId(source, text)>>),
        ExtractCveId(object, source, text),
        NormaliseSeverity(FirstOf(<<Get(object, "severity"), Get(object, "baseSeverity")>>)))

\* The lines of a .jsonl file that cannot be read are left out one by one; a .json
\* file is read as a whole.
JsonObjects(source) ==
  SelectSeq(source.body.items, LAMBDA i : i.kind = "object" /\ ExtractContent(i).chars > 0)

\* A text that cannot be encoded has no hash: the exception of its document ends the
\* load of the file.
LoadJson(source) ==
  LET objects == JsonObjects(source)
  IN  IF \/ source.body.kind \notin {"lines", "list", "object"}
         \/ \E i \in DOMAIN objects : ~ExtractContent(objects[i]).utf8
      THEN <<>>
      ELSE [i \in DOMAIN objects |-> DocFromObj(objects[i], source)]

\* LoaderRegistry
TextExtensions == {".txt", ".md", ".markdown", ".log", ".rst", ".pdf"}
JsonExtensions == {".json", ".jsonl"}
Supports(source) == source.ext \in TextExtensions \cup JsonExtensions

LoadFile(source) ==
  CASE source.ext \in TextExtensions -> LoadText(source)
    [] source.ext \in JsonExtensions -> LoadJson(source)
    [] OTHER -> <<>>

-----------------------------------------------------------------------------
(* DocumentValidator; path and type are never empty *)

MinLength == 50
MaxLength == 5000000
MinWords  == 10

IsValid(doc) ==
  /\ doc.content.chars \in MinLength .. MaxLength
  /\ doc.content.words >= MinWords
  /\ doc.content.utf8

-----------------------------------------------------------------------------
(* KnowledgeSplitter and the batches of upsert_nodes *)

\* Without a node the whole text is the one chunk.
TotalChunks(doc) == IF doc.content.nodes = 0 THEN 1 ELSE doc.content.nodes

\* The metadata is spread last: a field with the name of a key takes its place.
ToPayload(doc, chunk_index) ==
  Over(doc.metadata,
    [doc_hash |-> doc.doc_hash, source_path |-> doc.source_path, source_type |-> doc.source_type,
     source_url |-> doc.source_url, technique_id |-> doc.technique_id, cve_id |-> doc.cve_id,
     severity |-> doc.severity, chunk_index |-> chunk_index, total_chunks |-> TotalChunks(doc)])

BatchCount(doc) == ((TotalChunks(doc) - 1) \div UpsertBatchSize) + 1

\* Variant: the slice of a batch ends one point early.
SliceShort(doc, batch) ==
  {i \in 1 .. TotalChunks(doc) : (batch - 1) * UpsertBatchSize < i /\ i < batch * UpsertBatchSize}

\* The chunks of a batch, the last of which may be partly filled.
Slice(doc, batch) ==
  {i \in 1 .. TotalChunks(doc) : (batch - 1) * UpsertBatchSize < i /\ i <= batch * UpsertBatchSize}
=============================================================================
