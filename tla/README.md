# SentinelX AI: a TLA+ verification project

SentinelX AI is a FastAPI backend that stores uploaded security logs, extracts
events, indicators of compromise (IOCs) and incidents from them, and keeps a
knowledge base of security documents that is searched by vectors and keywords.
This directory holds TLA+ models of its stateful parts, the TLC configurations
that check them on small instances, and theorems about them proved with TLAPS.

All line numbers refer to `src/`.

## 1. Inventory

| Part | State it keeps | Operations | Talks to |
|---|---|---|---|
| Log upload and parsing (`backend/services/log_service.py`, `backend/repositories/`) | `security_logs` (status, counters, parse_error), `parsed_events`, `ioc_entities`, `incident_events` in PostgreSQL | `upload_log`, `process_log`, read queries, `update_incident_status`, `get_statistics` | NLP pipeline (worker thread), PostgreSQL |
| NLP pipeline (`backend/nlp/`) | none between runs; registries of parsers | detect, parse, extract, classify, merge | called by `process_log` |
| Knowledge ingestion (`rag/pipeline.py`, `rag/ingestion/`, `rag/chunking/`, `vector_db/search.py`) | files in `raw/`, `processed/`, `failed/`; points of the Qdrant collection; the embedder singleton | `ingest_file`, `ingest_directory` | file system, Qdrant, embedding model |
| Sparse index and hybrid search (`rag/retrieval/`) | the BM25 corpus in memory | `build`, `search`, `rrf_fuse` | Qdrant |
| Authentication and audit (`backend/services/auth_service.py`, `backend/repositories/user_repository.py`, `audit_repository.py`, `backend/dependencies.py`) | `users`, `audit_logs` | `register`, `login`, `deactivate`, the guards of routes | PostgreSQL |
| Start-up (`backend/app.py`, `vector_db/collections.py`) | the collection and its payload indexes | `lifespan`, `_seed_admin`, `ensure_knowledge_collection` | all stores |
| Dashboard, health, middleware, schemas | none | reads and conversions | the stores |
| Agents, MCP, orchestrator, graph RAG, LLM, communication, monitoring | none | none: empty files | |
| Frontend | client side only | | REST API |

How they interact: every request is an asyncio task with a database session of
its own (`backend/dependencies.py:35`), so requests interleave at every `await`.
`process_log` runs the pipeline in a worker thread between two transactions.
Ingestion works on two stores, the file system and Qdrant, with no transaction
over both. Search reads a corpus that only a rebuild refreshes.

What is hard, by part, and what makes it correct:

* **Log parsing.** The status is checked at one await and written at a later
  one; the results of a run go through four statements and one commit; errors
  are handled by further statements, which can fail too. Correct means: the
  counters a log shows describe rows that are committed, an answer of success is
  durable, no increment of `occurrence_count` is lost, a log in PROCESSING has a
  call that works on it, and every call ends.
* **Ingestion.** A document is stored in batches, checked for duplicates by one
  point, and moved after the last batch; calls overlap. Correct means: what is
  reported as indexed is stored, what is half stored has a call that says so, a
  chunk is stored once, every call ends.
* **Search.** The index is read page by page while documents arrive; rebuilds
  overlap; two rankings are merged with integer ranks and weights. Correct
  means: a successful rebuild covers what was there when it began, and only one that
  overlaps with it can undo it; an answer never contradicts both rankings, and a search that finds returns.
* **Pipeline.** Threads share the registry of parsers, which the first of them
  fill; lines fail at different stages of the loop. Correct means: a run that
  goes on finds every parser, a bad line changes nothing for the others, the
  counters are those of the result, and the IOCs are those of the lines read.
  An attack a parser reads is classified as a threat, and the confidence of an
  IOC does not depend on the order in which the fields were scanned.
* **Documents.** Identifiers come from names, texts and JSON keys in any
  spelling, and chunks travel in slices. Correct means: an indexed document has
  all its chunks, numbered without a gap, and the filters of the search find them.
* **Reports and incidents.** Readers see each query at its own moment. Correct
  means: figures of one report fit each other, and paging misses no row.
* **Accounts and start-up.** Checks, inserts and audit entries are commits of
  their own; starts of several processes overlap with each other and die.
  Correct means: accounts are unique, no session undoes what another wrote, an
  answer of success and a refusal have their audit entry, a server that has
  seeded has an administrator, and a missing payload index has a cause in the log.

`PROJECT.json` lists the single hazards with their lines ("hazards").

## 2. Modules

| Module | What it is |
|---|---|
| `LogLifecycle` | abstract specification: what parsing promises to the readers of the result tables |
| `LogProcessing` | `upload_log` and `process_log`, one action per await; implements `LogLifecycle` |
| `LogProcessing_proofs` | theorems about `LogProcessing`: for any concurrency and any fault, then under one call at a time on a log |
| `MCLogProcessing` | instances for TLC |
| `LogReports` | extends `LogProcessing` by its readers: statistics, listings, status changes of incidents |
| `LogReports_proofs` | theorems about the readers and the incidents |
| `MCLogReports` | an instance for TLC |
| `KnowledgeIngestion` | `ingest_file` and `ingest_directory`, the three directories, the collection |
| `KnowledgeIngestion_proofs` | theorems about it |
| `MCKnowledgeIngestion` | instances for TLC |
| `DocumentLoading` | loaders, validator, splitter and batches, as operators |
| `KnowledgeDocuments` | composes `KnowledgeIngestion` with `DocumentLoading`: the payloads of the points |
| `KnowledgeDocuments_proofs` | theorems about the stored points |
| `MCKnowledgeDocuments` | an instance for TLC |
| `NlpPipeline` | `NLPPipeline.process` in worker threads, from the lazy import of the parsers to its result |
| `NlpPipeline_proofs` | theorems about it |
| `LogParsers` | the five parsers: from what a line holds to a normalised event |
| `IocExtractor` | `IOCExtractor.extract_from_event` |
| `MitreRules`, `EventClassifier` | the 47 rules, and how they are matched |
| `LogDetector` | the signatures of the formats and their scores |
| `LogAnalysis` | composes `NlpPipeline` with these parts |
| `LogAnalysis_proofs` | theorems about the pipeline with its parsers, its extractor and its rules |
| `MCNlpPipeline` | an instance for TLC, with the contents of 29 lines |
| `Accounts` | `register`, `login`, the guards, the audit trail |
| `Startup` | extends `Accounts` by the processes: `lifespan`, the seeding, the collection |
| `Startup_proofs` | theorems about both |
| `MCStartup` | an instance for TLC |
| `RankFusion` | `rrf_fuse` and the cut, as operators |
| `KnowledgeSearch` | BM25 rebuild, hybrid search; extends `RankFusion` |
| `KnowledgeSearch_proofs` | lemmas about the fused order and the cut, theorems about rebuilds and answers |
| `MCKnowledgeSearch` | instances for TLC |

Operators whose comment begins with "Variant:" are not part of a specification.
Each is a definition changed the way a plausible bug would change it; putting it
in place of the original must break the property that `PROJECT.json` names
("mutants"). They show that the properties can fail.

### LogProcessing

| TLA+ | Code |
|---|---|
| `status`, `counters`, `failure` | `security_logs.status`, `.parsed_event_count` and `.ioc_count`, `.parse_error IS NOT NULL` |
| `rows` | committed rows of `parsed_events`, `ioc_entities.occurrence_count` by key, `incident_events`, by log |
| `tx` | what a call's transaction has flushed |
| `pc` | the await a call of `process_log` stands at |
| `Upload` | `log_service.py:95` with `LogRepository.create` |
| `Validate` ... `MarkFailed` | `log_service.py:201-278`, one action per await |
| `WaitsFor` | the unique index `uq_ioc_log_type_value`: an upsert waits for open transactions that hold one of its keys |
| `Storable` | what one `INSERT ... ON CONFLICT` can carry: no key twice (values are cut to 2048 characters after deduplication) and at most 32767 parameters |
| `Crash` | the process ends; open transactions are rolled back; start-up does not look at logs |

Abstractions. The pipeline's result is the constant `Outcome`, by log and
override. An UPDATE and the commit that follows it at once are one action:
another transaction sees nothing in between, except for row locks. A statement
takes all its index entries at once; PostgreSQL may take them one by one and
abort one of two transactions that would wait for each other. That deadlock is
not in the model, whose `PersistFails` stands for the error the loser gets;
`CallsEnd` speaks of waits between statements only. Timestamps, `log_type` and `line_count` are left out.
The route refuses an invalid override before the service is called
(`backend/schemas/logs.py:164`); the service checks again, and the model keeps
that path. `SerialClients` is a constant so that the same module answers for
racing and for waiting clients.

### KnowledgeIngestion

| TLA+ | Code |
|---|---|
| `place` | the directory a file is in |
| `points` | how many copies of each batch of 100 chunks the collection holds: ids are fresh UUIDs, so a second upsert adds |
| `embedder` | `_embedder_instance`: absent, published but not loaded, loaded |
| `todo`, `file`, `dup`, `sent` | the local variables of a call |
| `results` | the statuses in its report |
| `CheckDuplicate` | `deduplicator.py:76`, fail-open |
| `UpsertBatch`, `UpsertFails` | one round of the loop `vector_db/search.py:98` |
| `ModelFails` | `get_embedder` raises outside every `try` of `ingest_file` |
| `MoveTo` | `_move_to_processed`, `_move_to_failed`, best effort |
| `Restore` | external: an operator puts a failed file back |

Abstractions. What the loaders find in a file (`Docs`), what the validator
rejects (`Invalid`) and how many batches the chunks fill (`Batches`) are
constants; in `KnowledgeDocuments` they are those of the files. Only the first document of a file is ingested (`rag/pipeline.py:213`).
`EmbedFails` is the failure of splitting, which comes before the embedder is
asked for, and of encoding, which comes after. The code goes from the end of one file to the load of the next
without an await; the model cuts there, which only adds interleavings. A
request for a path that does not exist is answered with 404 and changes
nothing. Embedding runs on the event loop, without an await.

### DocumentLoading and KnowledgeDocuments

| TLA+ | Code |
|---|---|
| `Source` | the files: path, name, and what reading and decoding them gives |
| `LoadText`, `LoadJson`, `LoadFile` | `PlainTextLoader` and `PDFLoader`, `JSONLoader`, `LoaderRegistry` |
| `ExtractContent`, `ExtractCveId`, `Metadata`, `DocFromObj` | the methods of `JSONLoader` |
| `IsValid` | `DocumentValidator.validate` |
| `TotalChunks`, `ToPayload` | `KnowledgeSplitter.split`, `ChunkedNode.to_payload`: the metadata is spread last |
| `BatchCount`, `Slice` | the slices of `upsert_nodes` |
| `stored` | the points of the collection, as chunks of files |

`SourceAssumption` ties the constants of `KnowledgeIngestion` to the files: what
`Docs`, `Invalid`, `Unsupported` and `Batches` say is what the operators of
`DocumentLoading` give, and TLC evaluates it. It also excludes a JSON object with
a field `doc_hash`, which would be stored under another hash than the one the
duplicate check looks for. A text is a record of its hash, its lengths and the
identifiers in it; where SentenceSplitter cuts is the number `nodes`. The
splitter is given the metadata too (`rag/chunking/splitter.py:217`), so `nodes`
belongs to a text with its document: two documents with one content may differ
in it, as long as their chunks fill the same number of batches, which
`SourceAssumption` demands because `Batches` is a function of the content. Upper and
lower case are constants (`Upper`, `Lower`). PDF files without a text layer, and
loads that raise, give no document.

### LogReports

| TLA+ | Code |
|---|---|
| `uploads` | the order of `security_logs.created_at` |
| `handling` | `incident_events.status`; `closed_at` is left out |
| `report` | `get_statistics` between two of its queries |
| `walk` | a client that calls `GET /logs` page after page |
| `Query` | one query; at READ COMMITTED each has a snapshot of its own |
| `Patch` | `update_incident_status`: one UPDATE and its commit |
| `Page` | `list_logs`: newest first, OFFSET and LIMIT |

A behaviour follows one section of the report; the queries of the other
sections only pass time, which the steps between two queries do as well. A
breakdown is represented by its sum. The answer of `PATCH` is read again
after the commit and may show the status another caller has set since; it is
left out. The client of `walk` reads until a page is not full. One that trusts
the `total_pages` of the first answer can miss the rows that later uploads push
beyond it. Filters, and the listings of events, IOCs and incidents, which page
in the same way, are left out.

### Accounts and Startup

| TLA+ | Code |
|---|---|
| `users`, `audit` | the tables `users` and `audit_logs` |
| `call`, `pc`, `found` | the arguments of a request, the await it stands at, the row it has read |
| `CheckEmail` ... `WriteAudit` | `auth_service.py:42-140`, one action per await |
| `Violates` | the unique constraints of the model `User` |
| `Assign` | SQLAlchemy writes the changed column only, of the row as it is now |
| `CurrentUser` | `get_current_user` and `require_role` |
| `stage`, `step`, `attempts`, `warned` | where a start is in `lifespan`, and which best-effort steps it has logged as failed |
| `exists`, `indexed` | the collection and its payload indexes |
| `Connect`, `ConnectFails` | one attempt of `init_db`, `init_redis`, `init_neo4j`, `init_qdrant`, retried by tenacity; the tables of the development mode included |
| `SeedRead` ... `SeedFails` | `_seed_admin`, all of whose errors become a warning |
| `ListCollections` ... `BuildIndex` | `_init_knowledge_layer` |
| `Crash` | the end of a process and of the requests it serves |

Passwords and tokens are what a call and a login say they are: `good` tells
whether the password is right, `Token` holds the tokens that answered logins
have given out. A login with a wrong password, and one for an account that does
not exist, write the entry of the refusal; one for a deactivated account writes
none (`auth_service.py:110`). `deactivate` has no caller in this version; it is an action that
may happen at any time. No route gives the role analyst, so the guard
`AnalystOrAdmin` lets administrators pass only.

### NlpPipeline

| TLA+ | Code |
|---|---|
| `registry`, `loaded` | `parser_registry`, `_PARSERS_LOADED`: what the threads share |
| `run` | the local variables of each call of `process` |
| `run[r].module` | how far its `from backend.nlp.parsers import ...` has come |
| `run[r].processed`, `.merged`, `.stats` | `processed_events` (the line and its score), `global_ioc_map`, `PipelineStats` |
| `Start` ... `ParsersLoaded` | `_ensure_parsers_loaded`; one action per imported module |
| `DetectType` | stages 1 and 2; `Best` keeps the first of equal scores, as `max` over the dictionary does |
| `SkipLine` | `BaseParser.parse`: blank lines, lines without an event, lines whose parsing raises |
| `ExtractFails`, `ClassifyFails` | the `except` of the loop, before and after the IOCs were merged |
| `Finish` | the end of the lines, or one more event at the limit |

Abstractions. `NlpPipeline` takes as constants what its parts answer: the event of
a line for each format (`ParseLine`), the IOCs the extractor gives (`Iocs`, which
holds no key twice, as its dictionary `seen` ensures), the scores of the matching
rules (`Matched`), the score of a text for each format (`Score`), and what raises
(`Broken`). The theorems hold for any such answers; `LogAnalysis` computes them
with the modules of the parts. The
interpreter executes a module once and lets a second importer wait, so an import
is one action. Decoding, the cut at 100 MB, `total_lines`, `iocs_extracted`,
`ioc_type_counts` and the write back into the event are left out.

### LogParsers, IocExtractor, MitreRules, EventClassifier, LogDetector

A line is described by what the regular expressions find in it: its `shape` (the
pattern that matches it as a whole), the groups it has (`got`), the facts searched
for (`says`), its event number, and the signatures of the detector it shows.
`LogParsers` holds the decisions of the five parsers: which pattern is tried
first, which event type follows, which groups become fields, what goes into
`normalized_data`. `IocExtractor` takes texts as the list of pattern matches in
them and decides which are valid, in which order they are met, which of two
confidences stays, and what the raw line adds. `MitreRules` has the rule table
with the event types, formats and scores; a rule matches the types that contain
one of its patterns, which `Includes` of `EventClassifier` lists: the equal ones
and the three longer names that the parsers give. `LogDetector` has the signatures and their
weights; scores are exact, in units of 1/`CommonTotal`, a common multiple of the
total weights of the formats.

The descriptions of the 29 lines in `MCNlpPipeline` come from real lines: for
each of them events, types, scores, IOCs with their confidences, and detector
scores of the model agree with what the Python code computes for it. Timestamps,
MITRE names and tactics, descriptions, tags, contexts and source fields of IOCs
are left out.

### RankFusion and KnowledgeSearch

Scores are integers in units of 1/(10 * `Scale`), where `Scale` is a common
multiple of all `RrfK + rank`, so ties and comparisons are exact; the rounding
to 8 digits is ignored. Qdrant and BM25Okapi may return any ranking of what
they hold, without a point twice. Duplicate ids within a list, which the dictionary of
`rrf_fuse` would merge, do not come from either. The pages of a scroll go by point id. `base`
records the collection as it was when a rebuild began; it is a history variable
that no guard reads.

## 3. Runs

| Run | Instance | Shows |
|---|---|---|
| `log_parallel` | 2 logs, 3 calls, every fault, racing clients | types, counters and rows agree, success is durable, no lost increment, `LogLifecycle` is implemented |
| `log_serial` | 3 logs (one not storable), 2 waiting calls, pages of 1, incident updates, one reader | exact rows, completed is final; figures fit each other, paging is complete |
| `log_live` | 1 log, 3 calls, faults that do not touch the status updates, fairness | no orphaned PROCESSING, calls and processing end |
| `log_race` | racing clients | **violation**: a completed log goes back to PROCESSING |
| `log_orphan` | a status update fails or its answer is lost | **violation**: PROCESSING without a call |
| `ingest_parallel` | 2 files with the same two-batch document, one no loader knows, 2 racing calls, faults, fairness | indexed is stored, half-stored has a cause, calls end |
| `ingest_serial` | 5 files (a note, JSON lines with the same text, a text too short, lines that cannot be encoded, a picture), 2 calls one after another, faults | no duplicate chunk, reading order, filters find the points |
| `ingest_retry` | 1 failing upsert, one retry | **violation**: a half-stored document is skipped as a duplicate |
| `search` | 3 chunks (one blank, one tagged), pages of 1, 2 rebuilds, 1 query, restart | what a rebuild found is lost only to another that began before; answers respect both rankings |
| `pipeline` | 2 threads, 5 formats, 12 logs of up to four of 29 lines, overrides, an import may fail | every parser is found, counters are those of the result, bad lines are isolated, one IOC a key, attacks are threats, confidences do not depend on the order, fields come before the raw line |
| `startup` | 2 starts, 2 requests, 2 attempts a service, 2 payload fields, every fault | unique accounts, no lost update, audited answers, an administrator, missing indexes have a cause |
| `search_default` | configured threshold and weights | **violation**: a search that finds returns nothing |

Why the bounds are enough. Two calls are enough for a race on one log and the
third meets what they leave; the two overrides give results that share one IOC,
and one log has a result that is not storable. Two batches are the least that
can be half stored, two files of one content the least that can race on it; with
serial calls the first fails half-way or dies and the second meets what is left.
Three chunks in batches of two leave the last batch partly filled. In
`ingest_serial` an upsert that arrives without an answer is followed by a second
call as well as one that fails. Three chunks in pages
of one make every page a place for an ingestion; two rebuilds can overlap in
every order. Values are cut to `MaxUpsertRows = 2` where the code has 3640.
`MaxEvents = 3` and `MaxIocs = 4` stand for 10,000 and 50: there are logs with
sound lines beyond the limit and bad lines before, between and after the ones
that fill it, and lines with more IOCs than are kept. Two threads are enough for
the registry, which only grows and is read through one flag. In `log_serial`
each section of the report has two or three queries: the
figures differ when one upload, publication or update falls between two
queries. In `startup` the two requests reach the first process and the second
start overlaps with it or follows its death; `MaxAttempts` is 2 (10 in the code)
and two of the five payload fields are indexed, so that a failure may hit the
first, the last, or all.

`CHECK_DEADLOCK FALSE` is set because each call is made at most once: when all
are answered the instance stops. That calls do not stop before is what
`CallsEnd` says.

Fairness. `log_live`: weak fairness of the fault-free steps of each call that
has begun (`Serve`), which is what the event loop, the worker threads and the
database owe it; an upsert that cannot be stored fails by itself. Faults are
never owed and nobody has to call. `ingest_parallel`: weak fairness of the steps
of each call; in the model each of its steps, failing ones included, brings the
call nearer to its answer, and none is owed in particular.

## 4. Proofs

For every set of logs, calls, values and faults:

* `TypeCorrect`, then `CountsNotLost`, `Refinement`, `CountersTruthful` and
  `SuccessDurable` for `LogProcessing`. `StagedCountsCurrent` is not inductive:
  a commit changes the counts other transactions started from unless their keys
  are disjoint. The invariant `IInv` adds `KeysExclusive` (two open transactions
  never hold the same key of a log) and `Staged` (what each await has flushed).
  The refinement maps every step to a step of `LogLifecycle` or to a stutter;
  the commit is `Publish`, and it adds the counts to the *current* rows only
  because of `StagedCountsCurrent`.
* `ProcessingIsOwned`: a log in PROCESSING has a call at work on it. It needs
  `NothingOrphans`, which excludes exactly the failures with which `log_orphan`
  shows the opposite: a crash, a status update that fails, one whose answer is
  lost. Everything else may fail.
* `SerialRowsMatch` and `SerialCompletedFinal` assume `Serial`: one call at a time
  on a log and no lost commit answer; `log_race` is what happens without. Their
  invariant says that the running call is the only owner of its log's status and
  that a log holds one result or none.
* For `LogReports`: `ReportsImplement` maps every step to a step of
  `LogProcessing` or a stutter, so all of the above holds with readers at work.
  The other two properties are not inductive. `RInv` adds to `IInv`:
  `RowsOfStored` (rows only of stored logs, finitely many), `ListedOnce` (the
  listing is a permutation of the stored logs), `Handled`, `AnswersBounded`
  and `UnseenAhead`. `FiguresFit` comes from `AnswersBounded`: the tables only
  grow, and in each section the query the others are compared with comes last, so
  an earlier answer is at most the present total. `NothingMissed` comes from
  `UnseenAhead`: a log the client has not seen is on a page still to come, because
  an upload enters at the front and moves it back only.
* For `KnowledgeIngestion`: `TypeCorrect` with `Sending` (the batches before
  `sent` are stored; the loop is left after the last one), `IndexedStored`
  (points only grow, and `Indexed` comes after the last batch),
  `HalfIndexedCaused` (with `Unreported`: a result is never written over, so a
  cause lasts), and, under `SerialCalls` and a duplicate check that answers,
  `SerialNoDuplicates` (what the running call has yet to send is not stored).
* For `KnowledgeDocuments`: `DocumentsImplement` makes the theorems above hold of
  the files. `DocsInv` relates the two views of the collection: a chunk is stored
  only when its batch is (`StoredIsSent`) and a stored batch brought all chunks of
  its slice from some file (`SentIsStored`). `IndexedWhole` follows for any
  concurrency and faults. `FiltersAgree` is a statement about the loaders: each of
  the ways in which they find a CVE, a severity or a source type ends in one
  spelling. It assumes that upper case does not change what is in upper case
  (`UpperIdempotent`, true of `str.upper`). `PointsInReadingOrder` needs more:
  two files of one content have chunks of equal number but different path. Under
  `Serial`, `OneFile` says that an attempt that goes on, or has succeeded, finds
  no points of another file. `PlainMetadata` excludes files with a field called
  `source_path`, `chunk_index` or `total_chunks`, which `to_payload` would let
  take the place of the real one.

* For `RankFusion`, in `KnowledgeSearch_proofs`: `Ahead` is a strict total order of what was found (equal
  scores are told apart by where an id entered the dictionary), so positions are
  a bijection and `rrf_fuse` is a permutation (`FuseIsPermutation`); the cut is
  a prefix of it (`CutIsHead`). `AnswersFollowRankings` for `KnowledgeSearch`
  rests on them and on `DominatesAhead`: an id both lists prefer has a score that
  is not smaller, because integer division is monotone, and entered earlier.
* For `KnowledgeSearch`: `TypeCorrect`, and two theorems by `Covered` (a build
  has fetched what lies before its cursor). `LossExplained` is for any overlap:
  when a build installs its pages over those of another, either the other's base
  is part of its own, or it is the witness the property asks for. It permits that
  loss. `RebuildsKeepChunks` is the property without that escape, for behaviours
  in which no two rebuilds overlap (`[]OneAtATime`): `OneRebuild` says that a
  running build found all that earlier ones did. Nothing in the code keeps two
  rebuilds apart.

* For `NlpPipeline` all five properties of its run: `TypeCorrect`;
  `ParsersAreComplete` by `Registered` (the modules a thread has passed are
  registered, and the flag says that all are). The other three are invariants of
  the record of one run, so `EveryStep` first reduces every action to one of six
  moves of a record, and each invariant is proved move by move: `Counted` for
  `StatsAreOfResult`, `FirstSeen` (which adds that every key of a line read is
  there) for `MergedOncePerKey`, and `Isolated` (the result is the sound lines
  passed so far, and their number) for `BadLinesAreIsolated`.
* For `LogAnalysis`: `AttacksAreThreats`, for every content of lines and not only
  the 29 of the run. Lemmas about the operators show that a parser that takes the
  first fitting entry of its table ends, for a line that shows an attack, at a type
  that a rule of score 5 or more takes, also where an earlier entry fits. The
  invariant `AllScored` says that each kept event has the highest score of the
  rules its line's event matches. `AnalysisAssumption` says that the constants of
  `NlpPipeline` are what the parts compute. A line that the parser of sshd reads is
  not an attack of sudo (`linux_syslog.py:177` comes before `:212`), and
  `AttackLine` says so: the proof found that the first wording of the property
  claimed more than the code does.
* `ConfidencesFit` and `FieldsFirst`, too, hold for lines with any number of
  matches. They need to know what `FoldLeft` and `FlattenSeq` compute. The
  library's induction theorems take an operator as a parameter, which the provers
  cannot instantiate, so `UpTo` states induction over the *set* of the lengths that
  have a property: the least number outside it leads to a contradiction.
  `FoldExists` builds with it the function that `FoldLeft` chooses, and `FoldSteps`
  turns the fold into a sequence of lists, one for each step of the loop. The
  invariant of the loop over the fields is `Lists`: each key met so far is in the
  list once, with its highest confidence. That of the loop over the raw line is
  `RawAfter`: the list of the fields stays in front, and what follows has a key
  that no field shows. `EventExtracted` draws from both what one event gives, for
  any event that is `Readable`, and `ParsedReadable` goes through the parsers to
  show that all their events are. `FirstSeen` carries it to the IOCs of a run.

* For `Startup` all six properties of its run. The argument reduces every step to one of
  two changes of the table `users` (`UsersChangeStep`): a row that violates no
  constraint is inserted, or every row is rewritten to one that keeps its id,
  address, name and what other sessions have set. `AccountsUnique`, `UpdatesKept`
  and most of `AdminSeeded` follow from that alone. `AnswersAudited` adds that
  rows are never removed and stay deactivated, that what a session has found is
  the id of a row (`FoundIsStored`), that each await belongs to one kind of call
  (`StepFitsCall`) and that nobody has an entry before it is called
  (`WriterIsCalled`); that the deactivated row is the one a login has found needs
  `AccountsUnique`. `AdminSeeded` that a promotion has a row to promote
  (`PromoteReady`), `MissingIndexCaused` that the fields before `step` are indexed
  or their failure was logged.

The assumptions on the constants (`ConstantsAssumption`, `ReportsAssumption`,
`IngestionAssumption`, `BatchSizeAssumption`, `SourceAssumption`,
`FusionAssumption`, `SearchAssumption`, `PipelineAssumption`,
`CommonTotalAssumption`,
`ContentAssumption`, `AnalysisAssumption`, `AccountsAssumption`,
`StartupAssumption`) are evaluated by TLC in the runs of their modules. The
hypotheses of single theorems (`Serial`, `NothingOrphans`, `OneAtATime`,
`PlainMetadata`, `UpperIdempotent`) are named where they are used. The instances of the runs
that check the same property satisfy them, except `OneAtATime`: `RebuildsKeepChunks`
has no run of its own, and the behaviours of `search` without an overlap are among
those that `LossNeedsOverlap` is checked on.

Only model-checked: the liveness properties (`CallsEnd`, `ProcessingEnds`), since
liveness under fairness is outside what the installed provers can do. Every
invariant and action property of the passing runs is a theorem.

## 5. Where code and documents disagree

Four runs end in a violation of what a comment, a docstring or a document says;
each quotes it in `PROJECT.json` ("findings"). Others, met while reading, have no
run:

* `rag/pipeline.py:211` says that JSONL files with several documents are handled
  in `ingest_directory`; nothing does, and all but the first document are lost.
* `rag/pipeline.py:15` says "Each file is processed atomically: if any stage
  fails the file is moved to KNOWLEDGE_FAILED_DIR [...] but processing of other
  files continues." An error of `get_embedder` leaves
  `ingest_file` outside its `try` blocks (`:272`) and ends the call: the rest of
  the directory is not processed (`ModelFails`).
* `rag/ingestion/deduplicator.py:4` says "Prevents duplicate documents from being
  indexed in Qdrant." The check and the first upsert are two awaits: two
  ingests of one content that overlap both store it. `NoDuplicateChunks` is
  therefore a property of serial calls only.
* `POST /knowledge/index/rebuild` is said to rebuild "from all currently indexed
  Qdrant chunks" (`backend/routes/knowledge.py:329`). Of two rebuilds that overlap the one that
  began first may install its older corpus last (`bm25_index.py:177`), and what
  was ingested in between is gone from the index until the next one.
* Weights of 0.7 and 0.3 over lists of 30 put every dense hit above every hit
  that only the keyword list has: 0.7/90 > 0.3/61.
* `docs/phase2_nlp.md:91` and `:94` say that 100 lines are sampled and that the
  threshold is 0.3; the code has 30 and 0.40 (`backend/nlp/detector.py:37`).
  `docs/phase2_nlp.md:336` says `score >= 4` for a threat, its own table at `:346`
  and the code say 5.
* `docs/phase2_nlp.md:316` says that of IOCs with the same type and value "the one
  with the highest confidence is kept". That holds within an event
  (`IocConfidence`); across the events of a log the first one stays, whatever its
  confidence (`backend/nlp/pipeline.py:337`). `OneIocPerKey` says what the merge
  does ensure: each key once, as one of the lines gave it.
* IOCs of an event whose classification fails stay in the result
  (`backend/nlp/pipeline.py:337` comes before the classifier).
* `PipelineStats.skipped_lines` is never written.

Incidents and start-up:

* `backend/services/log_service.py:471` gives the transitions open → investigating
  → contained → closed; every transition is accepted, and `closed_at` is kept when
  an incident is reopened. Closing a closed incident again overwrites it
  (`incident_repository.py:223`), although `backend/models/incident_event.py:168`
  calls it the time the incident was closed. `frontend/src/api/logs.js:93` names a status
  "resolved" that the service refuses.
* A seed that fails because the name "admin" is taken, or that loses a race, is
  only a warning: the server then serves without an administrator.
* `backend/app.py:76` says that the seeding does nothing if the user already
  exists; an account with the address that somebody has registered is promoted to
  administrator (`:88`), with its own password.
* `backend/app.py:120` says that a failed step of `_init_knowledge_layer` can be
  retried by `POST /knowledge/index/rebuild`; that route builds the BM25 index
  only and never creates the collection.
* `audit_repository.py:43` says "Never raises"; `:67` raises the error again, and
  the request whose account or login is already committed is answered with it.
  `AuditFails` is what the code does, and `AnswersAreAudited` holds because of it.
* `vector_db/collections.py:14` says that the payload indexes are created with the
  collection. A process that dies between `:101` and `:128` leaves a collection
  without them, and no later start repairs it: `:91` returns when the collection
  exists.
* `vector_db/collections.py:9` says that start-up is aborted when the collection
  cannot be created; `backend/app.py:127` turns the error into a warning.
* A login for a deactivated account leaves no audit entry (`auth_service.py:110`).

Documents:

* `ToPayload`: the metadata is spread last, so fields of a JSON object with the
  names `source_type`, `source_path`, `chunk_index` or `doc_hash` replace the
  provenance that `rag/ingestion/base.py` calls mandatory.
* One line of a JSONL file whose text cannot be encoded fails the whole file,
  although bad lines are meant to be skipped; the encoding check of the
  validator is never reached.
* The source type is taken from the first matching part of the whole path,
  directories above the knowledge base included.

Parsing and classification:

* `can_parse` of the parsers is never called, although
  `backend/nlp/parsers/base.py:36` says that the detector uses it.
* The event type "HTTP Server Error" cannot be produced.
* A Windows XML export scores 38 % as a Windows log and stays below the
  threshold; nginx access logs are taken for apache; a syslog file of cron or
  kernel lines only, and an apache error log alone, are unknown.
* The Sysmon signatures look for `Name="`, the parser reads only `Name='`. The
  Sysmon parser takes a Windows XML event for a "Sysmon Event 4625".
* `backend/nlp/parsers/nginx_access.py:38` says "same logic as Apache"; the lists
  differ.
* Some rules of the MEDIUM section score as LOW. Types that no rule takes (DLL
  Loaded, File Created, Network Connection and others) get the score 1.
* A URL also gives the FILE_PATH IOCs "p://..." and "//host/...", a file name
  after a slash loses its first letter, and a host name without a suffix becomes
  a DOMAIN. `backend/nlp/extractor/ioc_extractor.py` leaves `user_agent` out, but
  scans `normalized_data.scanner_ua`, which holds the same text.

## 6. Plan

1. Composition of `LogAnalysis` and `LogProcessing`: `Outcome` as the result of a
   run of the pipeline.
2. The health checks of the dashboard, which run concurrently and fold four
   answers into one status.

## 7. What is not modelled

What the regular expressions match, character by character; timestamps, MITRE
names and texts; where sentences are cut, and the vectors; hashing, encoding and
expiry of tokens; Redis and Neo4j beyond their connection, since only health
checks use them; the dashboard's fixed figures and the health checks, which read
only; the request log and the mapping of errors to answers, which keep no state;
formatting and logging; the frontend; and the packages that are still empty.
