------------------------- MODULE KnowledgeIngestion -------------------------
(***************************************************************************)
(* Ingestion of knowledge documents: IngestionPipeline.ingest_file and     *)
(* ingest_directory, over the raw/, processed/ and failed/ directories and *)
(* the Qdrant collection, which share no transaction.                      *)
(*                                                                         *)
(* Calls interleave at the awaits: the duplicate check and every upsert of *)
(* a batch of points.  What lies between two awaits is one action, cut     *)
(* where the code goes on to the next file of a directory.                 *)
(***************************************************************************)
EXTENDS Naturals, Sequences

CONSTANTS
  File,          \* the files under KNOWLEDGE_RAW_DIR
  NoFile,        \* a call that is at no file
  Call,          \* calls of the two ingest endpoints, each made at most once
  Doc,           \* document contents, that is SHA-256 hashes
  Docs,          \* the documents the loader finds in a file, <<>> if it fails
  Unsupported,   \* files whose extension no loader supports
  Invalid,       \* documents DocumentValidator rejects
  Batches,       \* how many batches of 100 points the chunks of a document fill
  Faults,        \* the failures that may happen
  SerialCalls    \* TRUE: one call at a time

FaultKinds == {"dedup", "model", "embed", "upsert", "upsert_ack", "move", "crash"}

ASSUME IngestionAssumption ==
  /\ NoFile \notin File
  /\ Docs \in [File -> Seq(Doc)]
  /\ Unsupported \subseteq File
  /\ Invalid \subseteq Doc
  /\ Batches \in [Doc -> Nat \ {0}]
  /\ Faults \subseteq FaultKinds
  /\ SerialCalls \in BOOLEAN

VARIABLES
  place,      \* the directory a file is in
  points,     \* how often each batch of a document is in the collection
  embedder,   \* the module-level BGEEmbedder singleton
  pc,         \* where each call is
  todo,       \* the files a call has yet to ingest
  file,       \* the file a call is at
  dup,        \* what its duplicate check has answered
  sent,       \* the batches of that file it has upserted
  results     \* the status of each file in a call's report

progress == <<todo, file, dup, sent, results>>
vars == <<place, points, embedder, pc, progress>>

-----------------------------------------------------------------------------
(* The collection *)

\* A batch of points; point ids are fresh UUIDs, so storing it again adds copies.
Batch == UNION {{d} \X (1 .. Batches[d]) : d \in Doc}

BatchesOf(d) == {d} \X (1 .. Batches[d])

Present(d) == \E b \in BatchesOf(d) : points[b] > 0
Complete(d) == \A b \in BatchesOf(d) : points[b] > 0

\* ingest_file takes the first document of a file and leaves the others.
DocOf(f) == Docs[f][1]
Usable(f) == Docs[f] # <<>> /\ DocOf(f) \notin Invalid

\* The document a call is at.
CurrentDoc(c) == DocOf(file[c])
NextBatch(c) == <<CurrentDoc(c), sent[c] + 1>>

Place == {"raw", "processed", "failed"}
Status == {"none", "indexed", "skipped_duplicate", "skipped_unsupported", "failed"}
AtFile == {"dedup", "prepare", "upsert", "stored", "refused"}
Active == {"open"} \cup AtFile
Ended == {"done", "error", "dead"}

Init ==
  /\ place = [f \in File |-> "raw"]
  /\ points = [b \in Batch |-> 0]
  /\ embedder = "absent"
  /\ pc = [c \in Call |-> "idle"]
  /\ todo = [c \in Call |-> {}]
  /\ file = [c \in Call |-> NoFile]
  /\ dup = [c \in Call |-> FALSE]
  /\ sent = [c \in Call |-> 0]
  /\ results = [c \in Call |-> [f \in File |-> "none"]]

Goto(c, label) == pc' = [pc EXCEPT ![c] = label]

\* The result of one file is appended to the report; the call goes on.
Report(c, f, status) ==
  /\ results' = [results EXCEPT ![c][f] = status]
  /\ todo' = [todo EXCEPT ![c] = @ \ {f}]
  /\ file' = [file EXCEPT ![c] = NoFile]
  /\ dup' = [dup EXCEPT ![c] = FALSE]
  /\ sent' = [sent EXCEPT ![c] = 0]
  /\ Goto(c, "open")

\* _move_to_processed, _move_to_failed: best effort.
MoveTo(f, directory) ==
  \/ /\ place[f] = "raw"
     /\ place' = [place EXCEPT ![f] = directory]
  \/ /\ place[f] # "raw" \/ "move" \in Faults
     /\ UNCHANGED place

-----------------------------------------------------------------------------
(* The calls and their files *)

MayStart(c) ==
  /\ pc[c] = "idle"
  /\ SerialCalls => \A o \in Call : pc[o] \notin Active

Begin(c, files) ==
  /\ MayStart(c)
  /\ todo' = [todo EXCEPT ![c] = files]
  /\ Goto(c, "open")
  /\ UNCHANGED <<place, points, embedder, file, dup, sent, results>>

\* POST /ingest/file: a path that does not exist is refused at once.
RequestFile(c, f) == place[f] = "raw" /\ Begin(c, {f})

\* POST /ingest/directory: the files are listed once, in the order of the file system.
RequestDirectory(c) == Begin(c, {f \in File : place[f] = "raw"})

SkipUnsupported(c, f) ==
  /\ pc[c] = "open"
  /\ f \in todo[c] \cap Unsupported
  /\ Report(c, f, "skipped_unsupported")
  /\ UNCHANGED <<place, points, embedder>>

\* Variant: a file that cannot be loaded is tried again.
LoadFailsRetried(c, f) ==
  /\ pc[c] = "open"
  /\ f \in todo[c] \ Unsupported
  /\ place[f] # "raw" \/ ~Usable(f)
  /\ MoveTo(f, "failed")
  /\ UNCHANGED <<points, embedder, pc, progress>>

\* The file is gone, cannot be loaded, holds no document or an invalid one.
LoadFails(c, f) ==
  /\ pc[c] = "open"
  /\ f \in todo[c] \ Unsupported
  /\ place[f] # "raw" \/ ~Usable(f)
  /\ MoveTo(f, "failed")
  /\ Report(c, f, "failed")
  /\ UNCHANGED <<points, embedder>>

Load(c, f) ==
  /\ pc[c] = "open"
  /\ f \in todo[c] \ Unsupported
  /\ place[f] = "raw" /\ Usable(f)
  /\ file' = [file EXCEPT ![c] = f]
  /\ Goto(c, "dedup")
  /\ UNCHANGED <<place, points, embedder, todo, dup, sent, results>>

Finish(c) ==
  /\ pc[c] = "open"
  /\ todo[c] = {}
  /\ Goto(c, "done")
  /\ UNCHANGED <<place, points, embedder, progress>>

-----------------------------------------------------------------------------
(* Duplicate check, chunking and embedding *)

\* Variant: a document counts as indexed when none of its chunks is missing.
CheckDuplicateComplete(c) ==
  /\ pc[c] = "dedup"
  /\ \E answer \in {Complete(CurrentDoc(c))} \cup (IF "dedup" \in Faults THEN {FALSE} ELSE {}) :
       dup' = [dup EXCEPT ![c] = answer]
  /\ Goto(c, "prepare")
  /\ UNCHANGED <<place, points, embedder, todo, file, sent, results>>

\* is_duplicate is fail-open: an error of the scroll counts as "new".
CheckDuplicate(c) ==
  /\ pc[c] = "dedup"
  /\ \E answer \in {Present(CurrentDoc(c))} \cup (IF "dedup" \in Faults THEN {FALSE} ELSE {}) :
       dup' = [dup EXCEPT ![c] = answer]
  /\ Goto(c, "prepare")
  /\ UNCHANGED <<place, points, embedder, todo, file, sent, results>>

SkipDuplicate(c) ==
  /\ pc[c] = "prepare"
  /\ dup[c]
  /\ Report(c, file[c], "skipped_duplicate")
  /\ UNCHANGED <<place, points, embedder>>

\* Chunks and vectors are ready.
Embed(c) ==
  /\ pc[c] = "prepare"
  /\ ~dup[c]
  /\ embedder' = "loaded"
  /\ Goto(c, "upsert")
  /\ UNCHANGED <<place, points, progress>>

\* get_embedder publishes the instance before load() raises, and it is called
\* outside every try block of ingest_file: the whole call ends.
ModelFails(c) ==
  /\ pc[c] = "prepare"
  /\ ~dup[c]
  /\ "model" \in Faults
  /\ embedder = "absent"
  /\ embedder' = "published"
  /\ Goto(c, "error")
  /\ UNCHANGED <<place, points, progress>>

\* Splitting raises or gives no node before the embedder is asked for, encoding
\* raises, or a published instance fails to load again.
EmbedFails(c) ==
  /\ pc[c] = "prepare"
  /\ ~dup[c]
  /\ \/ "embed" \in Faults /\ embedder' \in {embedder, "loaded"}
     \/ "model" \in Faults /\ embedder = "published" /\ UNCHANGED embedder
  /\ MoveTo(file[c], "failed")
  /\ Report(c, file[c], "failed")
  /\ UNCHANGED points

-----------------------------------------------------------------------------
(* Upsert, one request per batch *)

StoreBatch(c) == points' = [points EXCEPT ![NextBatch(c)] = @ + 1]

\* Variant: the last, partly filled batch is never sent.
UpsertBatchNoTail(c) ==
  /\ pc[c] = "upsert"
  /\ StoreBatch(c)
  /\ sent' = [sent EXCEPT ![c] = @ + 1]
  /\ Goto(c, IF sent[c] + 2 >= Batches[CurrentDoc(c)] THEN "stored" ELSE "upsert")
  /\ UNCHANGED <<place, embedder, todo, file, dup, results>>

UpsertBatch(c) ==
  /\ pc[c] = "upsert"
  /\ StoreBatch(c)
  /\ sent' = [sent EXCEPT ![c] = @ + 1]
  /\ Goto(c, IF sent[c] + 1 = Batches[CurrentDoc(c)] THEN "stored" ELSE "upsert")
  /\ UNCHANGED <<place, embedder, todo, file, dup, results>>

\* Variant: the error of one batch is logged and the upsert ends as if complete.
UpsertFailsSwallowed(c) ==
  /\ pc[c] = "upsert"
  /\ \/ "upsert" \in Faults /\ UNCHANGED points
     \/ "upsert_ack" \in Faults /\ StoreBatch(c)
  /\ Goto(c, "stored")
  /\ UNCHANGED <<place, embedder, progress>>

\* The request fails, or succeeds and its answer is lost: upsert_nodes raises and
\* the batches sent before stay.
UpsertFails(c) ==
  /\ pc[c] = "upsert"
  /\ \/ "upsert" \in Faults /\ UNCHANGED points
     \/ "upsert_ack" \in Faults /\ StoreBatch(c)
  /\ Goto(c, "refused")
  /\ UNCHANGED <<place, embedder, progress>>

Indexed(c) ==
  /\ pc[c] = "stored"
  /\ MoveTo(file[c], "processed")
  /\ Report(c, file[c], "indexed")
  /\ UNCHANGED <<points, embedder>>

\* Variant: a status the report does not count.
RefusedUncounted(c) ==
  /\ pc[c] = "refused"
  /\ MoveTo(file[c], "failed")
  /\ Report(c, file[c], "error")
  /\ UNCHANGED <<points, embedder>>

Refused(c) ==
  /\ pc[c] = "refused"
  /\ MoveTo(file[c], "failed")
  /\ Report(c, file[c], "failed")
  /\ UNCHANGED <<points, embedder>>

-----------------------------------------------------------------------------
(* The environment *)

Crash ==
  /\ "crash" \in Faults
  /\ \E c \in Call : pc[c] \in Active
  /\ pc' = [c \in Call |-> IF pc[c] \in Active THEN "dead" ELSE pc[c]]
  /\ embedder' = "absent"
  /\ todo' = [c \in Call |-> {}]
  /\ UNCHANGED <<place, points, file, dup, sent, results>>

\* An operator puts a failed file back for another attempt.
Restore(f) ==
  /\ place[f] = "failed"
  /\ place' = [place EXCEPT ![f] = "raw"]
  /\ UNCHANGED <<points, embedder, pc, progress>>

Step(c) ==
  \/ \E f \in File : SkipUnsupported(c, f) \/ LoadFails(c, f) \/ Load(c, f)
  \/ Finish(c) \/ CheckDuplicate(c) \/ SkipDuplicate(c)
  \/ Embed(c) \/ ModelFails(c) \/ EmbedFails(c)
  \/ UpsertBatch(c) \/ UpsertFails(c) \/ Indexed(c) \/ Refused(c)

Next ==
  \/ \E c \in Call : RequestDirectory(c) \/ Step(c) \/ \E f \in File : RequestFile(c, f)
  \/ \E f \in File : Restore(f)
  \/ Crash

Spec == Init /\ [][Next]_vars

\* The event loop and Qdrant serve every call that has begun; a move that is
\* possible or a fault is never owed, an answer to the caller is.
FairSpec == Spec /\ \A c \in Call : WF_vars(Step(c))

-----------------------------------------------------------------------------
(* Properties *)

\* Every variable keeps its type; a call is at a file exactly at the awaits of
\* ingest_file, and then at one it can ingest.
TypeOK ==
  /\ place \in [File -> Place]
  /\ points \in [Batch -> Nat]
  /\ embedder \in {"absent", "published", "loaded"}
  /\ pc \in [Call -> {"idle"} \cup Active \cup Ended]
  /\ todo \in [Call -> SUBSET File]
  /\ file \in [Call -> File \cup {NoFile}]
  /\ dup \in [Call -> BOOLEAN]
  /\ sent \in [Call -> Nat]
  /\ results \in [Call -> [File -> Status]]
  /\ \A c \in Call : pc[c] \in AtFile => file[c] \in todo[c] /\ Usable(file[c])

\* What is reported as indexed, or lies in processed/, is in the collection with
\* every one of its chunks, whatever else ran or failed at the same time.
IndexedIsStored ==
  /\ \A c \in Call, f \in File : results[c][f] = "indexed" => Complete(DocOf(f))
  /\ \A f \in File : place[f] = "processed" => Complete(DocOf(f))

\* A document is half in the collection only while a call upserts it, or after a
\* call has reported it as failed or has died at it.
HalfIndexedHasCause ==
  \A d \in Doc : Present(d) /\ ~Complete(d) =>
    \E c \in Call :
      \/ pc[c] \in {"upsert", "refused", "dead"} /\ file[c] # NoFile /\ CurrentDoc(c) = d
      \/ \E f \in File : results[c][f] = "failed" /\ Usable(f) /\ DocOf(f) = d

\* With one call at a time and an honest duplicate check, no chunk is stored
\* twice: failed, retried and interrupted ingests of the same content included.
NoDuplicateChunks == \A b \in Batch : points[b] <= 1

\* "document already indexed; skip ingestion": what is skipped as a duplicate has
\* all its chunks in the collection.
DuplicateIsIndexed ==
  \A c \in Call, f \in File : results[c][f] = "skipped_duplicate" => Complete(DocOf(f))

\* Every ingest call that has begun is answered: again and again no call is at work,
\* and a call that has left its work never takes it up again.
CallsEnd == []<>(\A c \in Call : pc[c] \notin Active)
=============================================================================
