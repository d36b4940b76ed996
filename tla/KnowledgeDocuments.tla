------------------------- MODULE KnowledgeDocuments -------------------------
(***************************************************************************)
(* Ingestion with its documents: what KnowledgeIngestion takes as given of *)
(* a file is what the loaders, the validator and the splitter make of it,  *)
(* and the payloads of the points are known.                               *)
(***************************************************************************)
EXTENDS KnowledgeIngestion, DocumentLoading

CONSTANT Source   \* of each file: what it is made of

Loaded(f) == LoadFile(Source[f])

\* The constants of KnowledgeIngestion are those of these files.  A JSON object with
\* a field doc_hash would be stored under a hash that is not the one the duplicate
\* check looks for.
ASSUME SourceAssumption ==
  \A f \in File :
    /\ Source[f].parts \in Seq(STRING)
    /\ f \in Unsupported <=> ~Supports(Source[f])
    /\ Docs[f] = [i \in DOMAIN Loaded(f) |-> Loaded(f)[i].doc_hash]
    /\ \A i \in DOMAIN Loaded(f) :
         LET doc == Loaded(f)[i]
         IN  /\ doc.content.nodes \in Nat
             /\ doc.doc_hash \in Invalid <=> ~IsValid(doc)
             /\ Batches[doc.doc_hash] = BatchCount(doc)
             /\ "doc_hash" \notin DOMAIN doc.metadata

VARIABLE stored   \* the points in the collection: a chunk of the first document of a file

docVars == <<vars, stored>>

-----------------------------------------------------------------------------
DocsInit == Init /\ stored = {}

Payload(p) == ToPayload(Loaded(p[1])[1], p[2] - 1)

\* A batch that arrives brings its chunks.
Store(c) ==
  /\ UpsertBatch(c) \/ UpsertFails(c)
  /\ stored' = IF points' = points THEN stored
               ELSE stored \cup {file[c]} \X Slice(Loaded(file[c])[1], sent[c] + 1)

\* Every other step of KnowledgeIngestion leaves the collection as it is.
DocsNext ==
  \/ \E c \in Call :
       \/ Store(c)
       \/ /\ \/ RequestDirectory(c) \/ Finish(c)
             \/ CheckDuplicate(c) \/ SkipDuplicate(c)
             \/ Embed(c) \/ ModelFails(c) \/ EmbedFails(c) \/ Indexed(c) \/ Refused(c)
             \/ \E f \in File :
                  RequestFile(c, f) \/ SkipUnsupported(c, f) \/ LoadFails(c, f) \/ Load(c, f)
          /\ UNCHANGED stored
  \/ (\E f \in File : Restore(f)) /\ UNCHANGED stored
  \/ Crash /\ UNCHANGED stored

DocsSpec == DocsInit /\ [][DocsNext]_docVars

-----------------------------------------------------------------------------
(* Properties *)

\* "chunk_index (0-based) and total_chunks are embedded in every node so retrieval
\* results can be presented in reading order": the points of an indexed document are
\* numbered from 0 without a gap, all of them and of one file, although attempts with
\* another file of the same content may have failed half-way.
ReadingOrder ==
  \A c \in Call, f \in File : results[c][f] = "indexed" =>
    LET mine == {p \in {Payload(s) : s \in stored} : p.doc_hash = DocOf(f)}
    IN  /\ mine # {}
        /\ \A p \in mine : /\ {q.chunk_index : q \in mine} = 0 .. p.total_chunks - 1
                           /\ p.source_path = Source[f].path

\* The search compares its filters with the payloads letter by letter: whatever way a
\* file spells a CVE or a severity, and in whichever field, every stored point has it
\* in the one spelling, and a source type of the vocabulary, unless an object of its
\* file has a field of that name, which takes its place.
FiltersFindPoints ==
  \A s \in stored :
    LET p == Payload(s)
    IN  /\ p.cve_id = Upper(p.cve_id)
        /\ p.severity \in {"", "critical", "high", "medium", "low", "info"}
        /\ p.source_type \in SourceType \/ "source_type" \in DOMAIN Loaded(s[1])[1].metadata
=============================================================================
