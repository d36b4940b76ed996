----------------------------- MODULE LogReports -----------------------------
(***************************************************************************)
(* What readers see of the logs and what analysts do with the incidents,   *)
(* while logs are uploaded and parsed: the paged listings, get_statistics  *)
(* and update_incident_status of LogService.                               *)
(*                                                                         *)
(* A session reads at READ COMMITTED: each query sees the tables of its    *)
(* own moment, so a reader is a sequence of steps, one for each query.     *)
(***************************************************************************)
EXTENDS LogProcessing, Sequences

CONSTANTS
  Statuses,     \* what clients pass to PATCH /incidents/{id}/status
  PageSize      \* page_size of the listing, at most 100 in the code

IncidentStatus == {"open", "investigating", "contained", "closed", "false_positive"}

ASSUME ReportsAssumption == PageSize \in Nat \ {0}

VARIABLES
  uploads,    \* the stored logs in the order of created_at
  handling,   \* the status of each incident; closed_at is left out
  report,     \* a section of get_statistics and the answers read so far
  walk        \* a client that reads the listing of logs page after page

views == <<uploads, handling, report, walk>>

-----------------------------------------------------------------------------
(* The tables *)

Stored == {l \in Log : status[l] # "absent"}

\* Committed rows, each known by its log and its number or key.
EventRows == UNION {{l} \X (1 .. rows[l].events) : l \in Log}
IocRows == {p \in Log \X Key : rows[p[1]].occ[p[2]] > 0}
Incidents == UNION {{l} \X (1 .. rows[l].incidents) : l \in Log}

\* What create_from_pipeline_result stores of an incident that is analysed.
Created == "open"

\* The incidents a commit publishes join those that are there.
AddIncidents ==
  handling' = [i \in Incidents' |-> IF i \in DOMAIN handling THEN handling[i] ELSE Created]

-----------------------------------------------------------------------------
(* update_incident_status: UPDATE and commit; another call may change the   *)
(* incident before it is read again for the answer.                         *)

\* Every transition is accepted; an unknown status or incident changes nothing.
Patch(i, s) ==
  /\ s \in IncidentStatus
  /\ handling' = [handling EXCEPT ![i] = s]
  /\ UNCHANGED <<vars, uploads, report, walk>>

-----------------------------------------------------------------------------
(* get_statistics: one query after another.  A behaviour follows one section *)
(* of the report; the queries of the others only pass time.                 *)

\* Variant: each section reads its total first.
QueriesTotalsFirst ==
  [logs      |-> <<"list_logs", "count_by_status">>,
   events    |-> <<"global_severity_breakdown", "total_event_count">>,
   iocs      |-> <<"ioc_type_summary", "total_ioc_count", "unique_ioc_value_count">>,
   incidents |-> <<"total_incident_count", "open", "severe">>]

Queries ==
  [logs      |-> <<"count_by_status", "list_logs">>,
   events    |-> <<"total_event_count", "global_severity_breakdown">>,
   iocs      |-> <<"total_ioc_count", "unique_ioc_value_count", "ioc_type_summary">>,
   incidents |-> <<"open", "severe", "total_incident_count">>]

\* A breakdown is represented by its sum.  Incidents are created for events of
\* high or critical severity only.
Answer(query) ==
  CASE query \in {"count_by_status", "list_logs"} -> Cardinality(Stored)
    [] query \in {"total_event_count", "global_severity_breakdown"} -> Cardinality(EventRows)
    [] query \in {"total_ioc_count", "ioc_type_summary"} -> Cardinality(IocRows)
    [] query = "unique_ioc_value_count" -> Cardinality({p[2] : p \in IocRows})
    [] query = "open" -> Cardinality({i \in Incidents : handling[i] = "open"})
    [] query \in {"severe", "total_incident_count"} -> Cardinality(Incidents)

NoReport == [section |-> "none", answers |-> <<>>]
NoWalk == [page |-> 0, due |-> {}, seen |-> {}, done |-> FALSE]

\* One reader at a time: of the statistics, or of the listing.
StartReport ==
  /\ report = NoReport
  /\ walk = NoWalk
  /\ \E section \in DOMAIN Queries : report' = [NoReport EXCEPT !.section = section]
  /\ UNCHANGED <<vars, uploads, handling, walk>>

Query ==
  /\ report # NoReport
  /\ LET asked == Queries[report.section]
         n == Len(report.answers) + 1
     IN report' = IF n > Len(asked)
                    THEN NoReport
                    ELSE [report EXCEPT !.answers = Append(report.answers, Answer(asked[n]))]
  /\ UNCHANGED <<vars, uploads, handling, walk>>

-----------------------------------------------------------------------------
(* list_logs: newest first, by offset *)

\* Variant: pages are counted from zero.
OffsetFromZero(page) == page * PageSize

Offset(page) == (page - 1) * PageSize

NewestFirst == [n \in DOMAIN uploads |-> uploads[Len(uploads) + 1 - n]]

Page(page) ==
  {NewestFirst[n] : n \in {m \in DOMAIN uploads :
                             Offset(page) < m /\ m <= Offset(page) + PageSize}}

StartWalk ==
  /\ walk = NoWalk
  /\ report = NoReport
  /\ walk' = [NoWalk EXCEPT !.page = 1, !.due = Stored]
  /\ UNCHANGED <<vars, uploads, handling, report>>

\* The client asks for the next page until one is not full.
ReadPage ==
  /\ walk.page > 0
  /\ walk' = IF walk.done
               THEN NoWalk
               ELSE [walk EXCEPT
                       !.page = walk.page + 1,
                       !.seen = walk.seen \cup Page(walk.page),
                       !.done = Cardinality(Page(walk.page)) < PageSize]
  /\ UNCHANGED <<vars, uploads, handling, report>>

-----------------------------------------------------------------------------
ReportsInit ==
  /\ Init
  /\ uploads = <<>>
  /\ handling = [i \in Incidents |-> Created]
  /\ report = NoReport
  /\ walk = NoWalk

\* LogRepository.create stamps the row when it is inserted.
UploadLog(l) ==
  /\ Upload(l)
  /\ uploads' = Append(uploads, l)
  /\ UNCHANGED <<handling, report, walk>>

ReportsNext ==
  \/ \E l \in Log : UploadLog(l)
  \/ (\E r \in Request : Validate(r) \/ Step(r)) /\ AddIncidents /\ UNCHANGED <<uploads, report, walk>>
  \/ Crash /\ UNCHANGED views
  \/ \E i \in Incidents, s \in Statuses : Patch(i, s)
  \/ StartReport \/ Query \/ StartWalk \/ ReadPage

ReportsSpec == ReportsInit /\ [][ReportsNext]_<<vars, views>>

-----------------------------------------------------------------------------
(* Properties *)

\* The figures of one report fit each other although every query has seen
\* another state: statuses add up to at most the logs, events and IOCs are at
\* most the sum of their breakdowns, and no class of incidents is larger than
\* the total.  It rests on the order of the queries and on rows never being
\* deleted.
StatisticsConsistent ==
  LET asked == Queries[report.section]
      at(q) == report.answers[CHOOSE n \in DOMAIN asked : asked[n] = q]
  IN report # NoReport /\ Len(report.answers) = Len(asked) =>
       CASE report.section = "logs" -> at("count_by_status") <= at("list_logs")
         [] report.section = "events" ->
              at("total_event_count") <= at("global_severity_breakdown")
         [] report.section = "iocs" ->
              /\ at("total_ioc_count") <= at("ioc_type_summary")
              /\ at("unique_ioc_value_count") <= at("ioc_type_summary")
         [] report.section = "incidents" ->
              /\ at("open") <= at("total_incident_count")
              /\ at("severe") <= at("total_incident_count")

\* Reading page after page misses no log that was there at the start, whatever
\* is uploaded in between: new rows push the others to later pages only.
WalkComplete == walk.done => walk.due \subseteq walk.seen
=============================================================================
