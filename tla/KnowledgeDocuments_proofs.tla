---------------------- MODULE KnowledgeDocuments_proofs ----------------------
(***************************************************************************)
(* Theorems about KnowledgeDocuments, for every set of files and whatever  *)
(* they are made of: what the payloads of the stored points say, and that  *)
(* an indexed document is in the collection with all its chunks, in        *)
(* reading order.                                                          *)
(***************************************************************************)
EXTENDS KnowledgeDocuments, KnowledgeIngestion_proofs, WellFoundedInduction

-----------------------------------------------------------------------------
(* The document of a file *)

\* The assumption of FiltersAgree: writing in upper case what is in upper case
\* changes nothing.
UpperIdempotent == \A s : Upper(Upper(s)) = Upper(s)

Levels == {"critical", "high", "medium", "low", "info"}
Severities == {""} \cup Levels

\* The document ingest_file takes, and the numbers of its chunks.
First(f) == Loaded(f)[1]
Chunks(f) == 1 .. TotalChunks(First(f))

\* A set of numbers that is not empty has a smallest one.
LEMMA MinIsMember ==
  ASSUME NEW S \in SUBSET Nat, S # {}
  PROVE  Min(S) \in S
  <1>1. PICK x \in S : \A y \in S : ~ (<<y, x>> \in OpToRel(<, Nat))
    BY NatLessThanWellFounded, WFMin
  <1>2. ASSUME NEW y \in S PROVE x <= y
    <2>1. x \in Nat /\ y \in Nat /\ <<y, x>> \in Nat \X Nat
      OBVIOUS
    <2>2. <<y, x>>[1] = y /\ <<y, x>>[2] = x
      OBVIOUS
    <2>3. ~(y < x)
      BY <1>1, <2>1, <2>2 DEF OpToRel
    <2>. QED  BY <2>1, <2>3
  <1>. QED  BY <1>1, <1>2 DEF Min

\* The aliases stand for types of the vocabulary, and for its levels.
LEMMA Aliases ==
  /\ \A a \in DOMAIN PluralAliases : PluralAliases[a] \in SourceType
  /\ \A a \in DOMAIN SeverityAliases : SeverityAliases[a] \in Levels
  BY DEF PluralAliases, SourceType, SeverityAliases, Levels

\* Whatever directories a file is in, its type is one of the vocabulary.
LEMMA InferredType ==
  ASSUME NEW parts \in Seq(STRING)
  PROVE  InferSourceType(parts) \in SourceType
  <1> DEFINE known == {i \in DOMAIN parts : parts[i] \in SourceType \cup DOMAIN PluralAliases}
  <1>1. CASE known = {}
    BY <1>1 DEF InferSourceType, SourceType
  <1>2. CASE known # {}
    <2>1. known \in SUBSET Nat
      OBVIOUS
    <2>2. Min(known) \in known
      BY <1>2, <2>1, MinIsMember
    <2>3. parts[Min(known)] \in SourceType \cup DOMAIN PluralAliases
      BY <2>2
    <2>4. InferSourceType(parts) =
            IF parts[Min(known)] \in SourceType THEN parts[Min(known)]
            ELSE PluralAliases[parts[Min(known)]]
      BY <1>2 DEF InferSourceType
    <2>. QED  BY <2>3, <2>4, Aliases
  <1>. QED  BY <1>1, <1>2

\* A severity is written as one of the levels, or left out.
LEMMA SeverityLevel ==
  ASSUME NEW raw
  PROVE  NormaliseSeverity(raw) \in Severities
  BY Aliases DEF NormaliseSeverity, Severities

\* A usable file has a first document, whose hash is that of DocOf.
LEMMA UsableDocument ==
  ASSUME NEW f \in File, Usable(f)
  PROVE  /\ 1 \in DOMAIN Loaded(f)
         /\ DocOf(f) = First(f).doc_hash
         /\ Batches[DocOf(f)] = BatchCount(First(f))
         /\ "doc_hash" \notin DOMAIN First(f).metadata
         /\ First(f).content.nodes \in Nat
  <1>1. Docs[f] \in Seq(Doc) /\ Docs[f] # <<>>
    BY IngestionAssumption DEF Usable
  <1>2. Docs[f] = [i \in DOMAIN Loaded(f) |-> Loaded(f)[i].doc_hash]
    BY SourceAssumption
  <1>3. 1 \in DOMAIN Docs[f]
    BY <1>1
  <1>4. 1 \in DOMAIN Loaded(f)
    BY <1>2, <1>3
  <1>5. DocOf(f) = First(f).doc_hash
    BY <1>2, <1>4 DEF DocOf, First
  <1>6. \A i \in DOMAIN Loaded(f) :
          /\ Loaded(f)[i].content.nodes \in Nat
          /\ Batches[Loaded(f)[i].doc_hash] = BatchCount(Loaded(f)[i])
          /\ "doc_hash" \notin DOMAIN Loaded(f)[i].metadata
    BY SourceAssumption
  <1>7. /\ First(f).content.nodes \in Nat
        /\ Batches[First(f).doc_hash] = BatchCount(First(f))
        /\ "doc_hash" \notin DOMAIN First(f).metadata
    BY <1>4, <1>6 DEF First
  <1>. QED  BY <1>4, <1>5, <1>7

\* An identifier that is found has been written in upper case.
LEMMA CveInUpperCase ==
  ASSUME UpperIdempotent, NEW object, NEW source, NEW text
  PROVE  /\ LET cve == InferCveId(source, text) IN Upper(cve) = cve
         /\ LET cve == ExtractCveId(object, source, text) IN Upper(cve) = cve
  <1>1. \A s : Upper(Upper(s)) = Upper(s)
    BY DEF UpperIdempotent
  <1>2. LET cve == InferCveId(source, text) IN Upper(cve) = cve
    BY <1>1 DEF InferCveId
  <1>3. \/ \E s : ExtractCveId(object, source, text) = Upper(s)
        \/ ExtractCveId(object, source, text) = InferCveId(source, text)
    BY DEF ExtractCveId
  <1>. QED  BY <1>1, <1>2, <1>3

\* The other fields of an object never take the place of the two.
LEMMA MetadataFields ==
  ASSUME NEW object, NEW source
  PROVE  {"cve_id", "severity"} \cap DOMAIN Metadata(object, source) = {}
  <1>1. DOMAIN Metadata(object, source) = (DOMAIN object.fields \ Skipped) \cup {"filename"}
    BY DEF Metadata, Over
  <1>2. {"cve_id", "severity"} \subseteq Skipped
    BY DEF Skipped
  <1>. QED  BY <1>1, <1>2

\* What the loaders put in the fields of a document.
LEMMA FirstFields ==
  ASSUME NEW f \in File, 1 \in DOMAIN Loaded(f)
  PROVE  /\ First(f).source_path = Source[f].path
         /\ UpperIdempotent => Upper(First(f).cve_id) = First(f).cve_id
         /\ First(f).severity \in Severities
         /\ First(f).source_type \in SourceType
         /\ {"cve_id", "severity"} \cap DOMAIN First(f).metadata = {}
  <1> DEFINE source == Source[f]
  <1>1. source.parts \in Seq(STRING)
    BY SourceAssumption
  <1>2. CASE source.ext \in TextExtensions
    <2>1. Loaded(f) = LoadText(source)
      BY <1>2 DEF Loaded, LoadFile, TextExtensions, JsonExtensions
    <2> DEFINE metadata == [filename |-> source.path, file_extension |-> source.ext]
               text == source.body.text
               cve == InferCveId(source, text)
               technique == InferTechniqueId(source, text)
               none == ""
               doc == KnowledgeDocument(source, text, metadata, none, technique, cve, none)
    <2>8. LoadText(source) \in {<<>>, <<doc>>}
      BY DEF LoadText
    <2>2. First(f) = doc
      <3> HIDE DEF doc
      <3>. QED  BY <2>1, <2>8 DEF First
    <2>3. UpperIdempotent => Upper(cve) = cve
      BY CveInUpperCase
    <2>4. {"cve_id", "severity"} \cap DOMAIN metadata = {}
      OBVIOUS
    <2>5. /\ First(f).source_path = source.path /\ First(f).cve_id = cve
          /\ First(f).severity \in Severities /\ First(f).source_type \in SourceType
          /\ {"cve_id", "severity"} \cap DOMAIN First(f).metadata = {}
      <3>1. none \in Severities
        BY DEF Severities
      <3> HIDE DEF metadata, text, technique, cve, none
      <3>. QED  BY <1>1, <2>2, <2>4, <3>1, InferredType DEF KnowledgeDocument
    <2>. HIDE DEF cve
    <2>. QED  BY <2>3, <2>5 DEF UpperIdempotent
  <1>3. CASE source.ext \notin TextExtensions /\ source.ext \in JsonExtensions
    <2>1. Loaded(f) = LoadJson(source)
      BY <1>3 DEF Loaded, LoadFile
    <2> DEFINE object == JsonObjects(source)[1]
               text == ExtractContent(object)
               metadata == Metadata(object, source)
               cve == ExtractCveId(object, source, text)
               severity == NormaliseSeverity(FirstOf(<<Get(object, "severity"),
                                                       Get(object, "baseSeverity")>>))
    <2>2. First(f) = DocFromObj(object, source)
      BY <2>1 DEF First, LoadJson
    <2>3. \E url, technique : First(f) =
            KnowledgeDocument(source, text, metadata, url, technique, cve, severity)
      BY <2>2 DEF DocFromObj
    <2>4. UpperIdempotent => Upper(cve) = cve
      BY CveInUpperCase
    <2>5. severity \in Severities
      BY SeverityLevel
    <2>6. {"cve_id", "severity"} \cap DOMAIN metadata = {}
      BY MetadataFields
    <2>7. /\ First(f).source_path = source.path /\ First(f).cve_id = cve
          /\ First(f).severity \in Severities /\ First(f).source_type \in SourceType
          /\ {"cve_id", "severity"} \cap DOMAIN First(f).metadata = {}
      <3> HIDE DEF metadata, text, cve, severity, source, object
      <3>. QED  BY <1>1, <2>3, <2>5, <2>6, InferredType DEF KnowledgeDocument
    <2>. HIDE DEF cve
    <2>. QED  BY <2>4, <2>7 DEF UpperIdempotent
  <1>4. source.ext \in TextExtensions \cup JsonExtensions
    <2>1. source.ext \notin TextExtensions \cup JsonExtensions => Loaded(f) = <<>>
      BY DEF Loaded, LoadFile
    <2>. QED  BY <2>1
  <1>. QED  BY <1>2, <1>3, <1>4

\* The fields of a payload, unless the metadata has one of the name.
LEMMA PayloadFields ==
  ASSUME NEW doc, NEW chunk_index
  PROVE  LET p == ToPayload(doc, chunk_index)
         IN  /\ "doc_hash" \notin DOMAIN doc.metadata => p.doc_hash = doc.doc_hash
             /\ "cve_id" \notin DOMAIN doc.metadata => p.cve_id = doc.cve_id
             /\ "severity" \notin DOMAIN doc.metadata => p.severity = doc.severity
             /\ "source_type" \notin DOMAIN doc.metadata => p.source_type = doc.source_type
             /\ "source_path" \notin DOMAIN doc.metadata => p.source_path = doc.source_path
             /\ "chunk_index" \notin DOMAIN doc.metadata => p.chunk_index = chunk_index
             /\ "total_chunks" \notin DOMAIN doc.metadata => p.total_chunks = TotalChunks(doc)
  BY DEF ToPayload, Over

-----------------------------------------------------------------------------
(* Batches and slices *)

\* The batch a chunk is sent in.
BatchOf(k) == ((k - 1) \div UpsertBatchSize) + 1

\* A slice holds the chunks of its batch, and every chunk is in one of the batches.
LEMMA Slices ==
  ASSUME NEW doc, doc.content.nodes \in Nat
  PROVE  /\ TotalChunks(doc) \in Nat \ {0}
         /\ \A k \in 1 .. TotalChunks(doc) : BatchOf(k) \in 1 .. BatchCount(doc)
         /\ \A b \in Nat \ {0} :
              Slice(doc, b) = {k \in 1 .. TotalChunks(doc) : BatchOf(k) = b}
  <1> DEFINE T == TotalChunks(doc)
             U == UpsertBatchSize
  <1>1. T \in Nat \ {0}
    BY DEF TotalChunks
  <1>2. U \in Nat \ {0}
    BY BatchSizeAssumption
  <1> HIDE DEF T, U
  <1>3. \A k \in 1 .. T : /\ (k - 1) \div U \in Nat
                          /\ ((k - 1) \div U) * U <= k - 1
                          /\ k - 1 < (((k - 1) \div U) + 1) * U
    BY <1>1, <1>2
  <1>4. ASSUME NEW k \in 1 .. T PROVE (k - 1) \div U <= (T - 1) \div U
    <2>1. /\ (k - 1) \div U \in Nat /\ (T - 1) \div U \in Nat
          /\ ((k - 1) \div U) * U <= k - 1 /\ T - 1 < (((T - 1) \div U) + 1) * U
      BY <1>1, <1>3
    <2>2. ((k - 1) \div U) * U < (((T - 1) \div U) + 1) * U
      BY <1>1, <1>2, <2>1
    <2> DEFINE a == (k - 1) \div U
               b == ((T - 1) \div U) + 1
    <2>3. a \in Nat /\ b \in Nat /\ a * U < b * U
      BY <2>1, <2>2
    <2> HIDE DEF a, b
    <2>4. a < b
      BY <1>2, <2>3
    <2>. QED  BY <2>1, <2>4 DEF a, b
  <1>5. \A k \in 1 .. T : BatchOf(k) \in 1 .. BatchCount(doc)
    BY <1>1, <1>2, <1>3, <1>4 DEF BatchOf, BatchCount, T, U
  <1>6. ASSUME NEW b \in Nat \ {0}, NEW k \in 1 .. T
        PROVE  (b - 1) * U < k /\ k <= b * U <=> ((k - 1) \div U) + 1 = b
    <2> DEFINE a == (k - 1) \div U
    <2>1. a \in Nat /\ a * U <= k - 1 /\ k - 1 < (a + 1) * U
      BY <1>3
    <2> HIDE DEF a
    <2>2. a + 1 = b => (b - 1) * U < k /\ k <= b * U
      <3> SUFFICES ASSUME a + 1 = b PROVE (b - 1) * U < k /\ k <= b * U
        OBVIOUS
      <3>1. b - 1 = a
        BY <2>1
      <3>2. a * U \in Nat /\ b * U \in Nat
        BY <1>2, <2>1
      <3>. QED  BY <1>1, <2>1, <3>1, <3>2
    <2>3. ASSUME (b - 1) * U < k, k <= b * U PROVE a + 1 = b
      <3>1. (b - 1) * U < (a + 1) * U
        BY <1>1, <1>2, <2>1, <2>3
      <3>2. a * U < b * U
        BY <1>1, <1>2, <2>1, <2>3
      <3> DEFINE d == b - 1
                 e == a + 1
      <3>3. d \in Nat /\ e \in Nat /\ d * U < e * U
        BY <2>1, <3>1
      <3>4. d < e
        <4> HIDE DEF d, e
        <4>. QED  BY <1>2, <3>3
      <3>5. a < b
        BY <1>2, <2>1, <3>2
      <3>. QED  BY <2>1, <3>4, <3>5
    <2>. QED  BY <2>2, <2>3 DEF a
  <1>7. ASSUME NEW b \in Nat \ {0}
        PROVE  Slice(doc, b) = {k \in 1 .. T : BatchOf(k) = b}
    BY <1>6 DEF Slice, BatchOf, T, U
  <1>. QED  BY <1>1, <1>5, <1>7 DEF T

\* The chunks of a usable file, and the batches they are in.
LEMMA UsableChunks ==
  ASSUME NEW f \in File, Usable(f)
  PROVE  /\ TotalChunks(First(f)) \in Nat \ {0}
         /\ \A k \in Chunks(f) : /\ k \in Nat
                                 /\ BatchOf(k) \in Nat \ {0}
                                 /\ BatchOf(k) <= Batches[DocOf(f)]
                                 /\ <<DocOf(f), BatchOf(k)>> \in Batch
         /\ \A b \in Nat \ {0} : Slice(First(f), b) = {k \in Chunks(f) : BatchOf(k) = b}
  <1>1. First(f).content.nodes \in Nat /\ Batches[DocOf(f)] = BatchCount(First(f))
    BY UsableDocument
  <1>2. DocOf(f) \in Doc
    BY DocType
  <1>3. \A k \in Chunks(f) : BatchOf(k) \in 1 .. Batches[DocOf(f)]
    BY <1>1, Slices DEF Chunks
  <1>4. \A k \in Chunks(f) : <<DocOf(f), BatchOf(k)>> \in Batch
    BY <1>2, <1>3 DEF Batch
  <1>5. \A k \in Chunks(f) : BatchOf(k) \in Nat \ {0} /\ BatchOf(k) <= Batches[DocOf(f)]
    <2>1. Batches[DocOf(f)] \in Nat
      BY DocType
    <2>. QED  BY <1>3, <2>1
  <1>. QED  BY <1>1, <1>4, <1>5, Slices DEF Chunks

-----------------------------------------------------------------------------
(* The steps of ingestion with its documents *)

\* Each of them is a step of KnowledgeIngestion.
LEMMA DocsStep == [DocsNext]_docVars => [Next]_vars
  <1>1. ASSUME NEW c \in Call, Store(c) PROVE Next
    BY <1>1 DEF Store, Next, Step
  <1>2. DocsNext => Next
    BY <1>1 DEF DocsNext, Next, Step
  <1>. QED  BY <1>2 DEF docVars

\* The ingestion of documents does what KnowledgeIngestion promises of any.
THEOREM DocumentsImplement == DocsSpec => Spec
  <1>1. DocsInit => Init
    BY DEF DocsInit
  <1>. QED  BY <1>1, DocsStep, PTL DEF DocsSpec, Spec

\* The points change only with a batch that arrives, and then the collection has its
\* chunks.
LEMMA StoredChange ==
  ASSUME TypeOK, Sending, [DocsNext]_docVars
  PROVE  \/ UNCHANGED stored
         \/ \E c \in Call :
              /\ UpsertBatch(c) \/ UpsertFails(c)
              /\ StoreBatch(c)
              /\ points' # points
              /\ stored' = stored \cup {file[c]} \X Slice(First(file[c]), sent[c] + 1)
  <1>1. ASSUME NEW c \in Call, Store(c), points' # points
        PROVE  StoreBatch(c)
    BY <1>1 DEF Store, UpsertBatch, UpsertFails
  <1>2. \/ UNCHANGED stored
        \/ \E c \in Call : Store(c)
    BY DEF DocsNext, docVars
  <1>. QED  BY <1>1, <1>2 DEF Store, First

\* A batch that is acknowledged has brought its chunks.
LEMMA BatchArrives ==
  ASSUME TypeOK, Sending, [DocsNext]_docVars, NEW c \in Call, UpsertBatch(c)
  PROVE  stored' = stored \cup {file[c]} \X Slice(First(file[c]), sent[c] + 1)
  <1>1. points' # points
    <2>1. NextBatch(c) \in Batch /\ points'[NextBatch(c)] = points[NextBatch(c)] + 1
      BY StoreType DEF UpsertBatch
    <2>2. points[NextBatch(c)] \in Nat
      BY <2>1 DEF TypeOK
    <2>. QED  BY <2>1, <2>2
  <1>2. ASSUME NEW o \in Call, Store(o) PROVE o = c
    <2>1. sent'[c] = sent[c] + 1 /\ sent[c] \in Nat
      BY DEF UpsertBatch, TypeOK
    <2>2. o # c => sent'[c] = sent[c]
      BY <1>2 DEF Store, UpsertBatch, UpsertFails, progress, TypeOK
    <2>. QED  BY <2>1, <2>2
  <1>3. ASSUME ~ Store(c) PROVE points' = points
    <2>1. ~ \E o \in Call : Store(o)
      BY <1>2, <1>3
    <2>. QED  BY <2>1 DEF DocsNext, docVars, vars, RequestFile, RequestDirectory, Begin,
           SkipUnsupported, LoadFails, Load, Finish, CheckDuplicate, SkipDuplicate, Embed,
           ModelFails, EmbedFails, Indexed, Refused, Crash, Restore
  <1>. QED  BY <1>1, <1>3 DEF Store, First

\* A call is in the loop of the upsert because it was, with the same file, or because
\* it has made its vectors; only an acknowledged batch counts as sent.
LEMMA InLoop ==
  ASSUME TypeOK, [Next]_vars, NEW o \in Call, pc'[o] \in {"upsert", "stored"}
  PROVE  /\ file'[o] = file[o]
         /\ \/ Embed(o) /\ UNCHANGED points
            \/ UpsertBatch(o)
            \/ pc[o] \in {"upsert", "stored"} /\ sent'[o] = sent[o]
  <1>1. CASE UNCHANGED <<pc, file, sent>>
    BY <1>1
  <1>2. ASSUME NEW c \in Call, c # o,
               Step(c) \/ RequestDirectory(c) \/ \E f \in File : RequestFile(c, f)
        PROVE  pc'[o] = pc[o] /\ file'[o] = file[o] /\ sent'[o] = sent[o]
    BY <1>2 DEF Step, RequestFile, RequestDirectory, Begin, SkipUnsupported, LoadFails,
           Load, Finish, CheckDuplicate, SkipDuplicate, Embed, ModelFails, EmbedFails,
           UpsertBatch, UpsertFails, Indexed, Refused, Report, Goto, progress, TypeOK
  <1>3. CASE Embed(o)
    BY <1>3 DEF Embed, progress
  <1>4. CASE UpsertBatch(o)
    BY <1>4 DEF UpsertBatch
  <1>5. ASSUME \/ RequestDirectory(o) \/ \E f \in File : RequestFile(o, f)
               \/ Step(o) /\ ~Embed(o) /\ ~UpsertBatch(o)
        PROVE  FALSE
    BY <1>5 DEF Step, RequestFile, RequestDirectory, Begin, SkipUnsupported, LoadFails,
           Load, Finish, CheckDuplicate, SkipDuplicate, ModelFails, EmbedFails,
           UpsertFails, Indexed, Refused, Report, Goto, TypeOK
  <1>6. CASE Crash
    BY <1>6 DEF Crash, Active, AtFile, TypeOK
  <1>7. (\E f \in File : Restore(f)) \/ UNCHANGED vars => UNCHANGED <<pc, file, sent>>
    BY DEF Restore, vars, progress
  <1>. QED  BY <1>1, <1>2, <1>3, <1>4, <1>5, <1>6, <1>7 DEF Next

-----------------------------------------------------------------------------
(* What is in the collection *)

\* Every point is a chunk of a usable file, and its batch has been counted.
StoredIsSent ==
  /\ stored \subseteq File \X Nat
  /\ \A s \in stored : /\ Usable(s[1]) /\ s[2] \in Chunks(s[1])
                       /\ points[<<DocOf(s[1]), BatchOf(s[2])>>] > 0

\* What a call has sent of its file is in the collection.
SentIsStored ==
  \A c \in Call : pc[c] \in {"upsert", "stored"} =>
    \A k \in Chunks(file[c]) : BatchOf(k) <= sent[c] => <<file[c], k>> \in stored

\* An indexed file has all its chunks in the collection, and not only those of some
\* other file with the same document.
IndexedIsWhole ==
  \A c \in Call, f \in File : results[c][f] = "indexed" =>
    \A k \in Chunks(f) : <<f, k>> \in stored

\* No step takes a point away.
LEMMA StoredGrows ==
  ASSUME TypeOK, Sending, [DocsNext]_docVars
  PROVE  stored \subseteq stored'
  BY StoredChange

LEMMA StoredIsSentStep ==
  ASSUME TypeOK, Sending, StoredIsSent, [DocsNext]_docVars
  PROVE  StoredIsSent'
  <1>1. [Next]_vars /\ TypeOK'
    BY DocsStep, TypeOKStep
  <1>2. ASSUME NEW s \in stored
        PROVE  s \in File \X Nat /\ Usable(s[1]) /\ s[2] \in Chunks(s[1])
               /\ points'[<<DocOf(s[1]), BatchOf(s[2])>>] > 0
    <2>1. s \in File \X Nat /\ s[1] \in File /\ Usable(s[1]) /\ s[2] \in Chunks(s[1])
      BY DEF StoredIsSent
    <2> DEFINE b == <<DocOf(s[1]), BatchOf(s[2])>>
    <2>2. b \in Batch
      BY <2>1, UsableChunks
    <2>3. points[b] > 0
      BY DEF StoredIsSent
    <2>4. points[b] \in Nat /\ points'[b] \in Nat
      BY <1>1, <2>2 DEF TypeOK
    <2>5. points'[b] >= points[b]
      BY <1>1, <2>2, PointsGrow
    <2> HIDE DEF b
    <2>6. points'[b] > 0
      BY <2>3, <2>4, <2>5
    <2>. QED  BY <2>1, <2>6 DEF b
  <1>3. ASSUME NEW c \in Call, UpsertBatch(c) \/ UpsertFails(c), StoreBatch(c),
               NEW k \in Slice(First(file[c]), sent[c] + 1)
        PROVE  /\ file[c] \in File /\ k \in Nat /\ Usable(file[c]) /\ k \in Chunks(file[c])
               /\ points'[<<DocOf(file[c]), BatchOf(k)>>] > 0
    <2>1. pc[c] = "upsert"
      BY <1>3 DEF UpsertBatch, UpsertFails
    <2>2. file[c] \in File /\ Usable(file[c])
      BY <2>1, AtFileType DEF AtFile
    <2>3. sent[c] + 1 \in Nat \ {0}
      BY DEF TypeOK
    <2>4. k \in Chunks(file[c]) /\ BatchOf(k) = sent[c] + 1
      BY <1>3, <2>2, <2>3, UsableChunks
    <2>5. <<DocOf(file[c]), BatchOf(k)>> = NextBatch(c)
      BY <2>4 DEF NextBatch, CurrentDoc
    <2>6. NextBatch(c) \in Batch /\ points'[NextBatch(c)] = points[NextBatch(c)] + 1
      BY <1>3, <2>1, StoreType
    <2>7. points[NextBatch(c)] \in Nat
      BY <2>6 DEF TypeOK
    <2>8. points'[NextBatch(c)] > 0
      BY <2>6, <2>7
    <2>. QED  BY <2>2, <2>4, <2>5, <2>8, UsableChunks
  <1>4. CASE UNCHANGED stored
    BY <1>2, <1>4 DEF StoredIsSent
  <1>5. ASSUME NEW c \in Call, UpsertBatch(c) \/ UpsertFails(c), StoreBatch(c),
               stored' = stored \cup {file[c]} \X Slice(First(file[c]), sent[c] + 1)
        PROVE  StoredIsSent'
    <2> SUFFICES ASSUME NEW s \in stored'
                 PROVE  s \in File \X Nat /\ Usable(s[1]) /\ s[2] \in Chunks(s[1])
                        /\ points'[<<DocOf(s[1]), BatchOf(s[2])>>] > 0
      BY DEF StoredIsSent
    <2>1. CASE s \in stored
      BY <1>2, <2>1
    <2>2. CASE s \in {file[c]} \X Slice(First(file[c]), sent[c] + 1)
      BY <1>3, <1>5, <2>2
    <2>. QED  BY <1>5, <2>1, <2>2
  <1>. QED  BY <1>4, <1>5, StoredChange

LEMMA SentIsStoredStep ==
  ASSUME TypeOK, Sending, SentIsStored, [DocsNext]_docVars
  PROVE  SentIsStored'
  <1>1. [Next]_vars
    BY DocsStep
  <1> SUFFICES ASSUME NEW o \in Call, pc'[o] \in {"upsert", "stored"},
                      NEW k \in Chunks(file'[o]), BatchOf(k) <= sent'[o]
               PROVE  <<file'[o], k>> \in stored'
    BY DEF SentIsStored, Chunks, First, BatchOf
  <1>2. file'[o] = file[o] /\ k \in Chunks(file[o])
    BY <1>1, InLoop
  <1>3. CASE Embed(o)
    <2>1. sent'[o] = 0
      BY <1>3 DEF Embed, progress, Sending, SendingAt
    <2>2. file[o] \in File /\ Usable(file[o])
      BY <1>3, AtFileType DEF Embed, AtFile
    <2>3. BatchOf(k) \in Nat \ {0}
      BY <1>2, <2>2, UsableChunks
    <2>. QED  BY <2>1, <2>3
  <1>4. CASE UpsertBatch(o)
    <2>1. sent'[o] = sent[o] + 1 /\ sent[o] \in Nat /\ pc[o] = "upsert"
      BY <1>4 DEF UpsertBatch, TypeOK
    <2>2. file[o] \in File /\ Usable(file[o])
      BY <2>1, AtFileType DEF AtFile
    <2>3. BatchOf(k) \in Nat
      BY <1>2, <2>2, UsableChunks
    <2>4. CASE BatchOf(k) <= sent[o]
      BY <1>2, <2>1, <2>4, StoredGrows DEF SentIsStored
    <2>5. CASE BatchOf(k) = sent[o] + 1
      <3>1. k \in Slice(First(file[o]), sent[o] + 1)
        BY <1>2, <2>1, <2>2, <2>5, UsableChunks
      <3>. QED  BY <1>2, <1>4, <3>1, BatchArrives
    <2>. QED  BY <2>1, <2>3, <2>4, <2>5
  <1>5. CASE pc[o] \in {"upsert", "stored"} /\ sent'[o] = sent[o]
    BY <1>2, <1>5, StoredGrows DEF SentIsStored
  <1>. QED  BY <1>1, <1>3, <1>4, <1>5, InLoop

LEMMA IndexedIsWholeStep ==
  ASSUME TypeOK, Sending, SentIsStored, IndexedIsWhole, [DocsNext]_docVars
  PROVE  IndexedIsWhole'
  <1>1. [Next]_vars
    BY DocsStep
  <1> SUFFICES ASSUME NEW c \in Call, NEW f \in File, results'[c][f] = "indexed",
                      NEW k \in Chunks(f)
               PROVE  <<f, k>> \in stored
    BY StoredGrows DEF IndexedIsWhole, Chunks, First
  <1>2. CASE results[c][f] = "indexed"
    BY <1>2 DEF IndexedIsWhole
  <1>3. CASE Indexed(c) /\ f = file[c]
    <2>1. pc[c] = "stored"
      BY <1>3 DEF Indexed
    <2>2. Usable(f) /\ sent[c] = Batches[DocOf(f)] /\ Batches[DocOf(f)] \in Nat
      BY <1>3, <2>1, AtFileType DEF AtFile, Sending, SendingAt, CurrentDoc
    <2>3. BatchOf(k) <= sent[c]
      BY <2>2, UsableChunks
    <2>. QED  BY <1>3, <2>1, <2>3 DEF SentIsStored
  <1>. QED  BY <1>1, <1>2, <1>3, OnlyIndexed

\* With one call at a time, a document that is being stored, or is indexed, is in the
\* collection under one file.
OneFile ==
  \A c \in Call :
    /\ pc[c] \in {"upsert", "stored"} =>
         \A s \in stored : DocOf(s[1]) = CurrentDoc(c) => s[1] = file[c]
    /\ \A f \in File : results[c][f] = "indexed" =>
         \A s \in stored : DocOf(s[1]) = DocOf(f) => s[1] = f

\* A call that has made its vectors finds nothing of its document.
LEMMA NothingStored ==
  ASSUME TypeOK, SInv, StoredIsSent, NEW c \in Call, Embed(c), NEW s \in stored
  PROVE  DocOf(s[1]) # CurrentDoc(c)
  <1>1. \A b \in BatchesOf(CurrentDoc(c)) : points[b] = 0
    BY DEF Embed, SInv, Fresh
  <1>2. /\ s[1] \in File /\ Usable(s[1]) /\ s[2] \in Chunks(s[1])
        /\ points[<<DocOf(s[1]), BatchOf(s[2])>>] > 0
    BY DEF StoredIsSent
  <1>3. <<DocOf(s[1]), BatchOf(s[2])>> \in BatchesOf(DocOf(s[1]))
    <2>1. BatchOf(s[2]) \in Nat \ {0} /\ BatchOf(s[2]) <= Batches[DocOf(s[1])]
          /\ Batches[DocOf(s[1])] \in Nat
      BY <1>2, UsableChunks, DocType
    <2>. QED  BY <2>1 DEF BatchesOf
  <1>. QED  BY <1>1, <1>2, <1>3

\* What is indexed is not stored again.
LEMMA NotAgain ==
  ASSUME TypeOK, Sending, SInv, Backed, NEW c \in Call, pc[c] = "upsert",
         NEW d \in Call, NEW f \in File, results[d][f] = "indexed"
  PROVE  CurrentDoc(c) # DocOf(f)
  <1>1. /\ CurrentDoc(c) \in Doc /\ Batches[CurrentDoc(c)] \in Nat \ {0}
        /\ sent[c] \in Nat /\ sent[c] < Batches[CurrentDoc(c)]
    BY AtFileType DEF AtFile, Sending, SendingAt, TypeOK
  <1>2. sent[c] + 1 \in sent[c] + 1 .. Batches[CurrentDoc(c)]
    BY <1>1
  <1>3. points[<<CurrentDoc(c), sent[c] + 1>>] = 0
    BY <1>2 DEF SInv, Fresh
  <1>4. Complete(DocOf(f))
    BY DEF Backed
  <1>5. <<CurrentDoc(c), sent[c] + 1>> \in BatchesOf(CurrentDoc(c))
    BY <1>1 DEF BatchesOf
  <1>. QED  BY <1>3, <1>4, <1>5 DEF Complete

LEMMA OneFileStep ==
  ASSUME Serial, TypeOK, Sending, SInv, Backed, StoredIsSent, OneFile, [DocsNext]_docVars
  PROVE  OneFile'
  <1>1. [Next]_vars
    BY DocsStep
  <1>2. ASSUME NEW s \in stored', s \notin stored
        PROVE  \E c \in Call : pc[c] = "upsert" /\ s[1] = file[c] /\ DocOf(s[1]) = CurrentDoc(c)
                               /\ points' # points
    <2>1. PICK c \in Call :
            /\ UpsertBatch(c) \/ UpsertFails(c)
            /\ points' # points
            /\ stored' = stored \cup {file[c]} \X Slice(First(file[c]), sent[c] + 1)
      BY <1>2, StoredChange
    <2>2. s[1] = file[c]
      BY <1>2, <2>1
    <2>. QED  BY <2>1, <2>2 DEF UpsertBatch, UpsertFails, CurrentDoc
  <1>3. ASSUME NEW o \in Call, pc'[o] \in {"upsert", "stored"},
               NEW s \in stored', DocOf(s[1]) = CurrentDoc(o)'
        PROVE  s[1] = file'[o]
    <2>1. file'[o] = file[o] /\ CurrentDoc(o)' = CurrentDoc(o)
      BY <1>1, <1>3, InLoop DEF CurrentDoc
    <2>2. CASE Embed(o) /\ UNCHANGED points
      <3>1. s \in stored
        BY <1>2, <2>2
      <3>. QED  BY <1>3, <2>1, <2>2, <3>1, NothingStored
    <2>3. CASE pc[o] \in {"upsert", "stored"}
      <3>1. CASE s \in stored
        BY <1>3, <2>1, <2>3, <3>1 DEF OneFile
      <3>2. CASE s \notin stored
        <4>1. PICK c \in Call : pc[c] = "upsert" /\ s[1] = file[c]
          BY <1>2, <3>2
        <4>2. c = o
          BY <2>3, <4>1 DEF SInv, AtMostOneActive, Active, AtFile
        <4>. QED  BY <2>1, <4>1, <4>2
      <3>. QED  BY <3>1, <3>2
    <2>4. UpsertBatch(o) => pc[o] = "upsert"
      BY DEF UpsertBatch
    <2>. QED  BY <1>1, <1>3, <2>2, <2>3, <2>4, InLoop
  <1>4. ASSUME NEW o \in Call, NEW f \in File, results'[o][f] = "indexed",
               NEW s \in stored', DocOf(s[1]) = DocOf(f)
        PROVE  s[1] = f
    <2>1. CASE results[o][f] = "indexed"
      <3>1. s \in stored
        BY <1>2, <1>4, <2>1, NotAgain
      <3>. QED  BY <1>4, <2>1, <3>1 DEF OneFile
    <2>2. CASE Indexed(o) /\ f = file[o]
      <3>1. pc[o] = "stored" /\ points' = points
        BY <2>2 DEF Indexed
      <3>2. s \in stored
        BY <1>2, <3>1
      <3>. QED  BY <1>4, <2>2, <3>1, <3>2 DEF OneFile, CurrentDoc
    <2>. QED  BY <1>1, <1>4, <2>1, <2>2, OnlyIndexed
  <1>. QED  BY <1>3, <1>4 DEF OneFile, DocOf

-----------------------------------------------------------------------------
(* The theorems *)

\* The invariant of ingestion with its documents.
DocsInv == TypeOK /\ Sending /\ Backed /\ StoredIsSent /\ SentIsStored /\ IndexedIsWhole

LEMMA DocsInvInit == DocsInit => DocsInv
  <1>1. Init => TypeOK /\ Sending
    BY DEF Init, TypeOK, Place, Sending, SendingAt, Active, AtFile, Ended, Status
  <1>2. Init => Backed
    BY DEF Init, Backed
  <1>3. DocsInit => StoredIsSent /\ SentIsStored /\ IndexedIsWhole
    BY DEF DocsInit, Init, StoredIsSent, SentIsStored, IndexedIsWhole
  <1>. QED  BY <1>1, <1>2, <1>3 DEF DocsInit, DocsInv

LEMMA DocsInvStep == DocsInv /\ [DocsNext]_docVars => DocsInv'
  BY DocsStep, TypeOKStep, SendingStep, BackedStep, StoredIsSentStep, SentIsStoredStep,
     IndexedIsWholeStep DEF DocsInv

LEMMA DocsInvHolds == DocsSpec => []DocsInv
  BY DocsInvInit, DocsInvStep, PTL DEF DocsSpec

\* Whatever ran or failed at the same time, and even when the duplicate check did not
\* answer, each file reported as indexed has each of its chunks in the collection
\* under its own path.
THEOREM IndexedWhole == DocsSpec => []IndexedIsWhole
  <1>1. DocsInv => IndexedIsWhole
    BY DEF DocsInv
  <1>. QED  BY <1>1, DocsInvHolds, PTL

\* Every point has the one spelling of its CVE, a severity of the vocabulary or none,
\* and a source type of the vocabulary or of a field of its object: filters that are
\* compared letter by letter find it, however its file spelled them.
THEOREM FiltersAgree == ASSUME UpperIdempotent PROVE DocsSpec => []FiltersFindPoints
  <1>1. DocsInv => FiltersFindPoints
    <2> SUFFICES ASSUME DocsInv, NEW s \in stored
                 PROVE  /\ Payload(s).cve_id = Upper(Payload(s).cve_id)
                        /\ Payload(s).severity \in {"", "critical", "high", "medium", "low", "info"}
                        /\ \/ Payload(s).source_type \in SourceType
                           \/ "source_type" \in DOMAIN Loaded(s[1])[1].metadata
      BY DEF FiltersFindPoints
    <2> DEFINE doc == First(s[1])
    <2>1. s[1] \in File /\ Usable(s[1])
      BY DEF DocsInv, StoredIsSent
    <2>2. 1 \in DOMAIN Loaded(s[1])
      BY <2>1, UsableDocument
    <2>3. /\ Upper(doc.cve_id) = doc.cve_id
          /\ doc.severity \in Severities
          /\ doc.source_type \in SourceType
          /\ "cve_id" \notin DOMAIN doc.metadata /\ "severity" \notin DOMAIN doc.metadata
      BY <2>1, <2>2, FirstFields
    <2>4. Payload(s) = ToPayload(doc, s[2] - 1)
      BY DEF Payload, First
    <2> HIDE DEF doc
    <2>5. /\ Payload(s).cve_id = doc.cve_id
          /\ Payload(s).severity = doc.severity
          /\ "source_type" \notin DOMAIN doc.metadata => Payload(s).source_type = doc.source_type
      BY <2>3, <2>4, PayloadFields
    <2>6. Payload(s).severity \in Severities
      BY <2>3, <2>5
    <2>7. Payload(s).cve_id = Upper(Payload(s).cve_id)
      BY <2>3, <2>5
    <2>8. \/ Payload(s).source_type \in SourceType
          \/ "source_type" \in DOMAIN Loaded(s[1])[1].metadata
      BY <2>3, <2>5 DEF doc, First
    <2>. QED  BY <2>6, <2>7, <2>8 DEF Severities, Levels
  <1>. QED  BY <1>1, DocsInvHolds, PTL

\* No object has a field with the name of one of these keys, which the metadata, spread
\* last, would overwrite.
PlainMetadata ==
  \A f \in File : Usable(f) =>
    {"source_path", "chunk_index", "total_chunks"} \cap DOMAIN First(f).metadata = {}

\* The points of an indexed document can be put in reading order.
LEMMA WholeIsOrdered ==
  ASSUME PlainMetadata, DocsInv, OneFile PROVE ReadingOrder
  <1> SUFFICES ASSUME NEW c \in Call, NEW f \in File, results[c][f] = "indexed"
               PROVE  LET mine == {p \in {Payload(s) : s \in stored} : p.doc_hash = DocOf(f)}
                      IN  /\ mine # {}
                          /\ \A p \in mine :
                               /\ {q.chunk_index : q \in mine} = 0 .. p.total_chunks - 1
                               /\ p.source_path = Source[f].path
    BY DEF ReadingOrder
  <1> DEFINE mine == {p \in {Payload(s) : s \in stored} : p.doc_hash = DocOf(f)}
             T == TotalChunks(First(f))
  <1>1. Usable(f) /\ T \in Nat \ {0} /\ \A k \in 1 .. T : <<f, k>> \in stored
    BY UsableChunks DEF DocsInv, Backed, IndexedIsWhole, Chunks
  <1>2. ASSUME NEW s \in stored
        PROVE  /\ Payload(s).doc_hash = DocOf(s[1])
               /\ Payload(s).source_path = Source[s[1]].path
               /\ Payload(s).chunk_index = s[2] - 1
               /\ Payload(s).total_chunks = TotalChunks(First(s[1]))
               /\ s \in File \X Nat /\ s[2] \in 1 .. TotalChunks(First(s[1]))
    <2> DEFINE doc == First(s[1])
    <2>1. s[1] \in File /\ Usable(s[1]) /\ s[2] \in Chunks(s[1]) /\ s \in File \X Nat
      BY DEF DocsInv, StoredIsSent
    <2>2. /\ 1 \in DOMAIN Loaded(s[1]) /\ DocOf(s[1]) = doc.doc_hash
          /\ "doc_hash" \notin DOMAIN doc.metadata
      BY <2>1, UsableDocument
    <2>3. doc.source_path = Source[s[1]].path
      BY <2>1, <2>2, FirstFields
    <2>4. /\ "source_path" \notin DOMAIN doc.metadata
          /\ "chunk_index" \notin DOMAIN doc.metadata
          /\ "total_chunks" \notin DOMAIN doc.metadata
      BY <2>1 DEF PlainMetadata
    <2>5. Payload(s) = ToPayload(doc, s[2] - 1)
      BY DEF Payload, First
    <2> HIDE DEF doc
    <2>6. /\ Payload(s).doc_hash = doc.doc_hash
          /\ Payload(s).source_path = doc.source_path
          /\ Payload(s).chunk_index = s[2] - 1
          /\ Payload(s).total_chunks = TotalChunks(doc)
      BY <2>2, <2>4, <2>5, PayloadFields
    <2>. QED  BY <2>1, <2>2, <2>3, <2>6 DEF doc, Chunks
  <1>3. ASSUME NEW p \in mine
        PROVE  \E k \in 1 .. T : p = Payload(<<f, k>>)
    <2>1. PICK s \in stored : p = Payload(s) /\ p.doc_hash = DocOf(f)
      OBVIOUS
    <2>2. s[1] = f
      BY <1>2, <2>1 DEF OneFile
    <2>3. s = <<f, s[2]>> /\ s[2] \in 1 .. T
      BY <1>2, <2>2
    <2>. QED  BY <2>1, <2>3
  <1>4. ASSUME NEW k \in 1 .. T
        PROVE  /\ Payload(<<f, k>>) \in mine
               /\ Payload(<<f, k>>).chunk_index = k - 1
               /\ Payload(<<f, k>>).total_chunks = T
               /\ Payload(<<f, k>>).source_path = Source[f].path
    <2>1. <<f, k>> \in stored
      BY <1>1
    <2>2. /\ Payload(<<f, k>>).doc_hash = DocOf(f)
          /\ Payload(<<f, k>>).source_path = Source[f].path
          /\ Payload(<<f, k>>).chunk_index = k - 1
          /\ Payload(<<f, k>>).total_chunks = T
      BY <1>2, <2>1
    <2>. QED  BY <2>1, <2>2
  <1> HIDE DEF mine, T
  <1>5. mine # {}
    <2>1. 1 \in 1 .. T
      BY <1>1
    <2>. QED  BY <1>4, <2>1
  <1>6. {q.chunk_index : q \in mine} = 0 .. T - 1
    <2>1. ASSUME NEW q \in mine PROVE q.chunk_index \in 0 .. T - 1
      <3>1. PICK k \in 1 .. T : q = Payload(<<f, k>>)
        BY <1>3
      <3>2. q.chunk_index = k - 1
        BY <1>4, <3>1
      <3>. QED  BY <1>1, <3>2
    <2>2. ASSUME NEW i \in 0 .. T - 1 PROVE \E q \in mine : q.chunk_index = i
      <3>1. i + 1 \in 1 .. T
        BY <1>1
      <3>2. Payload(<<f, i + 1>>) \in mine /\ Payload(<<f, i + 1>>).chunk_index = (i + 1) - 1
        BY <1>4, <3>1
      <3>. QED  BY <3>2
    <2>. QED  BY <2>1, <2>2
  <1>7. \A p \in mine : p.total_chunks = T /\ p.source_path = Source[f].path
    BY <1>3, <1>4
  <1>. QED  BY <1>5, <1>6, <1>7 DEF mine

\* With one call at a time and a duplicate check that answers, the points of an
\* indexed document are numbered from 0 without a gap and are all of one file,
\* however often other files of the same content failed before.
THEOREM PointsInReadingOrder ==
  ASSUME Serial, PlainMetadata PROVE DocsSpec => []ReadingOrder
  <1>1. DocsInit => SInv /\ OneFile
    BY DEF DocsInit, Init, Active, AtFile, SInv, AtMostOneActive, Fresh, NoDuplicateChunks,
           OneFile
  <1>2. DocsInv /\ SInv /\ OneFile /\ [DocsNext]_docVars => SInv' /\ OneFile'
    BY DocsStep, AtMostOneActiveStep, FreshStep, OneFileStep DEF SInv, DocsInv
  <1>3. DocsInv /\ OneFile => ReadingOrder
    BY WholeIsOrdered
  <1>. QED  BY <1>1, <1>2, <1>3, DocsInvInit, DocsInvStep, PTL DEF DocsSpec
=============================================================================
