--------------------------- MODULE LogProcessing ---------------------------
(***************************************************************************)
(* Upload and parsing of security logs: LogService.upload_log and          *)
(* LogService.process_log with the repositories they call.                 *)
(*                                                                         *)
(* Every request is an asyncio task with a database session of its own, so *)
(* requests interleave at each await.  One action is one await: a          *)
(* statement, a commit, or the pipeline run in a worker thread.            *)
(***************************************************************************)
EXTENDS Naturals, FiniteSets

CONSTANTS
  Log,              \* primary keys of security_logs
  Request,          \* calls of process_log; each call is made at most once
  Override,         \* values of force_log_type, None included
  InvalidOverride,  \* those LogType(...) rejects
  File,             \* what is uploaded as a log: [blank, bytes, force]
  MaxUploadBytes,   \* the 100 MB limit of upload_log
  Value,            \* IOC (type, value) pairs as the extractor returns them
  Key,              \* the pairs as stored, with the value cut to its column
  Trunc,            \* value[:2048]
  MaxUpsertRows,    \* rows one INSERT can carry: 9 parameters a row, 32767 at most
  Outcome,          \* what the pipeline makes of a log under an override
  Faults,           \* the failures that may happen
  SerialClients     \* TRUE: a client waits for the answer before the next call

FaultKinds == {"pipeline", "persist", "mark", "ack_start", "ack_commit", "crash"}

PipelineResult == [events : Nat, iocs : SUBSET Value, incidents : Nat]

ASSUME ConstantsAssumption ==
  /\ InvalidOverride \subseteq Override
  /\ File \in [Log -> [blank : BOOLEAN, bytes : Nat, force : Override]]
  /\ MaxUploadBytes \in Nat
  /\ Trunc \in [Value -> Key]
  /\ MaxUpsertRows \in Nat
  /\ Outcome \in [Log -> [Override -> PipelineResult]]
  /\ \A l \in Log, o \in Override : IsFiniteSet(Outcome[l][o].iocs)
  /\ Faults \subseteq FaultKinds
  /\ SerialClients \in BOOLEAN

VARIABLES
  status,     \* security_logs.status, "absent" before the upload
  counters,   \* security_logs.parsed_event_count and ioc_count
  failure,    \* security_logs.parse_error is not NULL
  rows,       \* committed rows of the result tables, by log
  job,        \* the arguments of each call: [log, force]
  pc,         \* where each call is
  tx          \* rows flushed by a call's open transaction

table == <<status, counters, failure, rows>>
vars == <<status, counters, failure, rows, job, pc, tx>>

-----------------------------------------------------------------------------
(* The data of a request *)

LogOf(r) == job[r].log
ResultOf(r) == Outcome[LogOf(r)][job[r].force]

\* The keys of a result's rows in ioc_entities.
KeysOf(res) == {Trunc[v] : v \in res.iocs}
Keys(r) == KeysOf(ResultOf(r))

\* One INSERT ... ON CONFLICT DO UPDATE carries all rows: it cannot touch a
\* key twice and cannot carry more parameters than the protocol allows.
Storable(res) ==
  /\ \A v, w \in res.iocs : Trunc[v] = Trunc[w] => v = w
  /\ Cardinality(res.iocs) <= MaxUpsertRows

Stats(res) == [events |-> res.events, iocs |-> Cardinality(res.iocs)]

NoRows == [events |-> 0, occ |-> [k \in Key |-> 0], incidents |-> 0]
NoStats == [events |-> 0, iocs |-> 0]

\* Calls that run: past the status check and not yet answered.
Writing == {"events", "iocs", "incidents", "complete"}
Active == {"validated", "marked", "running", "failing"} \cup Writing
Ended == {"ok", "rejected", "error", "dead"}

\* Calls whose open transaction holds the unique-index entries of its keys.
Holding(r) == pc[r] \in {"incidents", "complete"}

-----------------------------------------------------------------------------
Init ==
  /\ status = [l \in Log |-> "absent"]
  /\ counters = [l \in Log |-> NoStats]
  /\ failure = [l \in Log |-> FALSE]
  /\ rows = [l \in Log |-> NoRows]
  /\ job \in [Request -> [log : Log, force : Override]]
  /\ pc = [r \in Request |-> "idle"]
  /\ tx = [r \in Request |-> NoRows]

Goto(r, label) == pc' = [pc EXCEPT ![r] = label]

-----------------------------------------------------------------------------
(* upload_log *)

Accepted(f) ==
  /\ ~f.blank
  /\ f.bytes <= MaxUploadBytes
  /\ f.force \notin InvalidOverride

Upload(l) ==
  /\ status[l] = "absent"
  /\ Accepted(File[l])
  /\ status' = [status EXCEPT ![l] = "pending"]
  /\ UNCHANGED <<counters, failure, rows, job, pc, tx>>

-----------------------------------------------------------------------------
(* process_log: fetch and validate, mark as processing *)

MayCall(r) ==
  SerialClients => \A s \in Request : pc[s] \in Active => LogOf(s) # LogOf(r)

\* Variant: a completed log is not refused.
ValidateAcceptsCompleted(r) ==
  /\ pc[r] = "idle"
  /\ MayCall(r)
  /\ IF status[LogOf(r)] \in {"absent", "processing"}
       THEN Goto(r, "rejected")
       ELSE Goto(r, "validated")
  /\ UNCHANGED <<table, job, tx>>

Validate(r) ==
  /\ pc[r] = "idle"
  /\ MayCall(r)
  /\ IF status[LogOf(r)] \in {"absent", "processing", "completed"}
       THEN Goto(r, "rejected")
       ELSE Goto(r, "validated")
  /\ UNCHANGED <<table, job, tx>>

MarkProcessing(r) ==
  /\ pc[r] = "validated"
  /\ status' = [status EXCEPT ![LogOf(r)] = "processing"]
  /\ Goto(r, "marked")
  /\ UNCHANGED <<counters, failure, rows, job, tx>>

\* The exception of a failed UPDATE or commit is not caught by process_log.
MarkProcessingFails(r) ==
  /\ pc[r] = "validated"
  /\ \/ /\ "mark" \in Faults
        /\ UNCHANGED status
     \/ /\ "ack_start" \in Faults
        /\ status' = [status EXCEPT ![LogOf(r)] = "processing"]
  /\ Goto(r, "error")
  /\ UNCHANGED <<counters, failure, rows, job, tx>>

\* Variant: an invalid override is reported without marking the log as failed.
ResolveOverrideNoMark(r) ==
  /\ pc[r] = "marked"
  /\ Goto(r, IF job[r].force \in InvalidOverride THEN "error" ELSE "running")
  /\ UNCHANGED <<table, job, tx>>

ResolveOverride(r) ==
  /\ pc[r] = "marked"
  /\ Goto(r, IF job[r].force \in InvalidOverride THEN "failing" ELSE "running")
  /\ UNCHANGED <<table, job, tx>>

-----------------------------------------------------------------------------
(* process_log: the pipeline in a worker thread, no transaction open *)

PipelineSucceeds(r) ==
  /\ pc[r] = "running"
  /\ Goto(r, "events")
  /\ UNCHANGED <<table, job, tx>>

\* Variant: the exception of the pipeline is not caught.
PipelineFailsUncaught(r) ==
  /\ pc[r] = "running"
  /\ "pipeline" \in Faults
  /\ Goto(r, "error")
  /\ UNCHANGED <<table, job, tx>>

PipelineFails(r) ==
  /\ pc[r] = "running"
  /\ "pipeline" \in Faults
  /\ Goto(r, "failing")
  /\ UNCHANGED <<table, job, tx>>

-----------------------------------------------------------------------------
(* process_log: persist in one transaction *)

InsertEvents(r) ==
  /\ pc[r] = "events"
  /\ tx' = [tx EXCEPT ![r].events = ResultOf(r).events]
  /\ Goto(r, "iocs")
  /\ UNCHANGED <<table, job>>

\* Variant: no unique constraint on (log_id, ioc_type, value) to wait at.
WaitsForNone(r) == {}

\* Variant: the key entries are taken before the statement that waits for them.
WaitsForEarly(r) ==
  {s \in Request \ {r} :
     /\ pc[s] \in {"iocs", "incidents", "complete"}
     /\ LogOf(s) = LogOf(r)
     /\ Keys(s) \cap Keys(r) # {}}

\* Variant: a transaction gives up its key entries before it ends.
WaitsForFlushed(r) == {s \in WaitsForEarly(r) : pc[s] = "incidents"}

\* An entry that another open transaction has inserted or updated makes the
\* statement wait until that transaction ends; it then sees what was committed.
WaitsFor(r) ==
  {s \in Request \ {r} : Holding(s) /\ LogOf(s) = LogOf(r) /\ Keys(s) \cap Keys(r) # {}}

UpsertIocs(r) ==
  /\ pc[r] = "iocs"
  /\ Storable(ResultOf(r))
  /\ WaitsFor(r) = {}
  /\ tx' = [tx EXCEPT ![r].occ =
              [k \in Key |-> IF k \in Keys(r) THEN rows[LogOf(r)].occ[k] + 1 ELSE 0]]
  /\ Goto(r, "incidents")
  /\ UNCHANGED <<table, job>>

InsertIncidents(r) ==
  /\ pc[r] = "incidents"
  /\ tx' = [tx EXCEPT ![r].incidents = ResultOf(r).incidents]
  /\ Goto(r, "complete")
  /\ UNCHANGED <<table, job>>

\* Variant: the session of the results is closed without a commit of its own.
CommitResultRowsLost(r) ==
  LET l == LogOf(r) IN
  /\ status' = [status EXCEPT ![l] = "completed"]
  /\ counters' = [counters EXCEPT ![l] = Stats(ResultOf(r))]
  /\ tx' = [tx EXCEPT ![r] = NoRows]
  /\ UNCHANGED <<failure, job, rows>>

\* mark_completed: the UPDATE and the commit that also publishes the rows.
CommitResult(r) ==
  LET l == LogOf(r) IN
  /\ status' = [status EXCEPT ![l] = "completed"]
  /\ counters' = [counters EXCEPT ![l] = Stats(ResultOf(r))]
  /\ rows' = [rows EXCEPT ![l] =
       [events    |-> rows[l].events + tx[r].events,
        occ       |-> [k \in Key |-> IF k \in Keys(r) THEN tx[r].occ[k] ELSE rows[l].occ[k]],
        incidents |-> rows[l].incidents + tx[r].incidents]]
  /\ tx' = [tx EXCEPT ![r] = NoRows]
  /\ UNCHANGED <<failure, job>>

\* Variant: a step after the commit, still in the try block, raises.
MarkCompletedThenRaise(r) ==
  /\ pc[r] = "complete"
  /\ CommitResult(r)
  /\ Goto(r, "failing")

MarkCompleted(r) ==
  /\ pc[r] = "complete"
  /\ CommitResult(r)
  /\ Goto(r, "ok")

\* The server commits, the connection breaks before the answer arrives: to
\* process_log this is a persistence error like any other.
CommitAckLost(r) ==
  /\ pc[r] = "complete"
  /\ "ack_commit" \in Faults
  /\ CommitResult(r)
  /\ Goto(r, "failing")

\* Variant: the persistence error is logged and swallowed.
PersistFailsSwallowed(r) ==
  /\ pc[r] \in Writing
  /\ \/ "persist" \in Faults
     \/ pc[r] = "iocs" /\ ~Storable(ResultOf(r))
  /\ tx' = [tx EXCEPT ![r] = NoRows]
  /\ Goto(r, "ok")
  /\ UNCHANGED <<table, job>>

\* A statement fails, the session rolls back.  The upsert fails by itself when
\* its rows are not storable in one statement.
PersistFails(r) ==
  /\ pc[r] \in Writing
  /\ \/ "persist" \in Faults
     \/ pc[r] = "iocs" /\ ~Storable(ResultOf(r))
  /\ tx' = [tx EXCEPT ![r] = NoRows]
  /\ Goto(r, "failing")
  /\ UNCHANGED <<table, job>>

-----------------------------------------------------------------------------
(* process_log: the error paths *)

\* Variant: the status is set to a value outside LogStatus.
MarkFailedOther(r) ==
  /\ pc[r] = "failing"
  /\ status' = [status EXCEPT ![LogOf(r)] = "error"]
  /\ failure' = [failure EXCEPT ![LogOf(r)] = TRUE]
  /\ Goto(r, "error")
  /\ UNCHANGED <<counters, rows, job, tx>>

MarkFailed(r) ==
  /\ pc[r] = "failing"
  /\ status' = [status EXCEPT ![LogOf(r)] = "failed"]
  /\ failure' = [failure EXCEPT ![LogOf(r)] = TRUE]
  /\ Goto(r, "error")
  /\ UNCHANGED <<counters, rows, job, tx>>

MarkFailedFails(r) ==
  /\ pc[r] = "failing"
  /\ "mark" \in Faults
  /\ Goto(r, "error")
  /\ UNCHANGED <<table, job, tx>>

\* The process dies: every call is gone, every open transaction is rolled back.
\* Start-up does not look at security_logs.
Crash ==
  /\ "crash" \in Faults
  /\ \E r \in Request : pc[r] \in Active
  /\ pc' = [r \in Request |-> IF pc[r] \in Active THEN "dead" ELSE pc[r]]
  /\ tx' = [r \in Request |-> NoRows]
  /\ UNCHANGED <<table, job>>

-----------------------------------------------------------------------------
Step(r) ==
  \/ MarkProcessing(r) \/ MarkProcessingFails(r) \/ ResolveOverride(r)
  \/ PipelineSucceeds(r) \/ PipelineFails(r)
  \/ InsertEvents(r) \/ UpsertIocs(r) \/ InsertIncidents(r)
  \/ MarkCompleted(r) \/ CommitAckLost(r) \/ PersistFails(r)
  \/ MarkFailed(r) \/ MarkFailedFails(r)

Next ==
  \/ \E l \in Log : Upload(l)
  \/ \E r \in Request : Validate(r) \/ Step(r)
  \/ Crash

Spec == Init /\ [][Next]_vars

\* What the event loop, the worker threads and the database owe a call that has
\* begun.  An upsert that cannot be stored fails by itself; the other failures
\* are never owed.
Serve(r) ==
  \/ MarkProcessing(r) \/ ResolveOverride(r) \/ PipelineSucceeds(r)
  \/ InsertEvents(r) \/ UpsertIocs(r) \/ InsertIncidents(r) \/ MarkCompleted(r)
  \/ pc[r] = "iocs" /\ ~Storable(ResultOf(r)) /\ PersistFails(r)
  \/ MarkFailed(r)

\* Nothing obliges a client to upload or to call.
FairSpec == Spec /\ \A r \in Request : WF_vars(Serve(r))

-----------------------------------------------------------------------------
(* Properties *)

\* Every variable keeps its type; a stored log has one of the four statuses of
\* LogStatus, and a call is at one of the awaits of process_log.
TypeOK ==
  /\ status \in [Log -> {"absent", "pending", "processing", "completed", "failed"}]
  /\ counters \in [Log -> [events : Nat, iocs : Nat]]
  /\ failure \in [Log -> BOOLEAN]
  /\ rows \in [Log -> [events : Nat, occ : [Key -> Nat], incidents : Nat]]
  /\ job \in [Request -> [log : Log, force : Override]]
  /\ pc \in [Request -> {"idle"} \cup Active \cup Ended]
  /\ tx \in [Request -> [events : Nat, occ : [Key -> Nat], incidents : Nat]]

\* The rows of a log contain all that one run of the pipeline found.
Contains(l, res) ==
  /\ rows[l].events >= res.events
  /\ \A k \in KeysOf(res) : rows[l].occ[k] >= 1
  /\ rows[l].incidents >= res.incidents

\* The counters a log shows are those of one pipeline result whose rows are all
\* committed, however many calls raced on the log and however they failed; a log
\* that shows no counters was never completed and has no rows.
CountersDescribeRows ==
  \A l \in Log :
    \/ /\ status[l] # "completed"
       /\ counters[l] = NoStats
       /\ rows[l] = NoRows
    \/ \E o \in Override \ InvalidOverride :
         /\ counters[l] = Stats(Outcome[l][o])
         /\ Contains(l, Outcome[l][o])

\* A call answered with success has all its rows committed, and no later call
\* on the same log, failed or not, takes them away.
SuccessIsDurable ==
  \A r \in Request : pc[r] = "ok" => Contains(LogOf(r), ResultOf(r))

\* No lost update of occurrence_count: until a transaction ends, the count it
\* has written is one more than the committed one.
StagedCountsCurrent ==
  \A r \in Request : Holding(r) =>
    \A k \in Keys(r) : tx[r].occ[k] = rows[LogOf(r)].occ[k] + 1

\* Readers of the result tables see whole pipeline results, added in the step
\* that completes the log.
Contribution ==
  [l \in Log |->
    {[events |-> Outcome[l][o].events, keys |-> KeysOf(Outcome[l][o]),
      incidents |-> Outcome[l][o].incidents] : o \in Override \ InvalidOverride}]

Lifecycle == INSTANCE LogLifecycle WITH state <- status, results <- rows

ImplementsLifecycle == Lifecycle!AbsSpec

\* With one call at a time on a log and no lost commit answer, a completed log
\* has exactly the rows its counters announce, each IOC counted once, and a log
\* that is not completed has none: failed runs and retries leave nothing behind.
RowsMatchCounters ==
  \A l \in Log :
    IF status[l] = "completed"
      THEN /\ rows[l].events = counters[l].events
           /\ \A k \in Key : rows[l].occ[k] <= 1
           /\ Cardinality({k \in Key : rows[l].occ[k] = 1}) = counters[l].iocs
      ELSE rows[l] = NoRows /\ counters[l] = NoStats

\* "Lifecycle: PENDING -> PROCESSING -> COMPLETED | FAILED": nothing follows
\* COMPLETED.
CompletedIsFinal ==
  [][\A l \in Log : status[l] = "completed" => status'[l] = "completed"]_vars

\* A log is PROCESSING only while some call works on it; otherwise no call could
\* ever take it up again, since PROCESSING logs are refused.
NoOrphanedProcessing ==
  \A l \in Log : status[l] = "processing" =>
    \E r \in Request : LogOf(r) = l /\ pc[r] \in Active \ {"validated"}

\* Every call that has begun is answered, also when calls wait for each other's
\* index entries.
CallsEnd == \A r \in Request : pc[r] \in Active ~> pc[r] \in Ended

\* A log in PROCESSING ends COMPLETED or FAILED.
ProcessingEnds ==
  \A l \in Log : status[l] = "processing" ~> status[l] \in {"completed", "failed"}
=============================================================================
