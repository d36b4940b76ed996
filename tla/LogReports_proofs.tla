------------------------- MODULE LogReports_proofs -------------------------
(***************************************************************************)
(* Theorems about LogReports: readers and analysts disturb nothing that is *)
(* proved of LogProcessing, and what they are shown while calls go on is   *)
(* consistent and complete.                                                *)
(***************************************************************************)
EXTENDS LogReports, LogProcessing_proofs

-----------------------------------------------------------------------------
(* LogReports implements LogProcessing *)

\* Every step is a step of an upload or a call, or leaves their variables alone.
LEMMA ReportsStep == [ReportsNext]_<<vars, views>> => [Next]_vars
  <1> SUFFICES ASSUME [ReportsNext]_<<vars, views>> PROVE [Next]_vars
    OBVIOUS
  <1>1. ASSUME NEW l \in Log, UploadLog(l) PROVE Next
    BY <1>1 DEF UploadLog, Next
  <1>2. CASE \E i \in Incidents, s \in Statuses : Patch(i, s)
    BY <1>2 DEF Patch
  <1>3. CASE StartReport \/ Query \/ StartWalk \/ ReadPage
    BY <1>3 DEF StartReport, Query, StartWalk, ReadPage
  <1>. QED  BY <1>1, <1>2, <1>3 DEF ReportsNext, Next

\* What is proved of LogProcessing holds with readers and analysts at work.
THEOREM ReportsImplement == ReportsSpec => Spec
  <1>1. ReportsInit => Init
    BY DEF ReportsInit
  <1>. QED  BY <1>1, ReportsStep, PTL DEF ReportsSpec, Spec

\* In particular the guarantees for serial calls.
THEOREM ReportsSerial ==
  ASSUME Serial PROVE ReportsSpec => []RowsMatchCounters /\ CompletedIsFinal
  BY ReportsImplement, SerialRowsMatch, SerialCompletedFinal, PTL

-----------------------------------------------------------------------------
(* The tables only grow *)

\* Rows belong to stored logs, and a log has finitely many IOCs.
RowsOfStored ==
  \A l \in Log : /\ status[l] = "absent" => rows[l] = NoRows
                 /\ IsFiniteSet({k \in Key : rows[l].occ[k] > 0})

\* The listing has every stored log once.
ListedOnce ==
  /\ uploads \in Seq(Log)
  /\ Stored = {uploads[n] : n \in DOMAIN uploads}
  /\ \A m, n \in DOMAIN uploads : uploads[m] = uploads[n] => m = n

\* Every committed incident, and no other, has a status.
Handled == handling \in [Incidents -> IncidentStatus]

\* What the answers of a section are compared with.
Total(section) ==
  CASE section = "logs"      -> Cardinality(Stored)
    [] section = "events"    -> Cardinality(EventRows)
    [] section = "iocs"      -> Cardinality(IocRows)
    [] section = "incidents" -> Cardinality(Incidents)

\* Until the last of a section's queries the answers are at most its present
\* total; the last one is the total of its own moment.
Within(answers, queries, total) ==
  /\ Len(answers) <= queries
  /\ \A n \in DOMAIN answers : n < queries => answers[n] <= total
  /\ Len(answers) = queries => \A n \in DOMAIN answers : answers[n] <= answers[queries]

AnswersBounded ==
  /\ report.section \in {"none"} \cup DOMAIN Queries
  /\ report.answers \in Seq(Nat)
  /\ report = [section |-> report.section, answers |-> report.answers]
  /\ report.section = "none" => report = NoReport
  /\ \A section \in DOMAIN Queries :
       report.section = section => Within(report.answers, Len(Queries[section]), Total(section))

\* A log that was there at the start and has not been seen is on a later page.
UnseenAhead ==
  /\ walk \in [page : Nat, due : SUBSET Log, seen : SUBSET Log, done : BOOLEAN]
  /\ walk.due \subseteq Stored
  /\ walk.page = 0 => walk = NoWalk
  /\ walk.done => walk.due \subseteq walk.seen
  /\ walk.page > 0 =>
       \A n \in DOMAIN uploads :
         uploads[n] \in walk.due \ walk.seen => Offset(walk.page) < Len(uploads) + 1 - n

RInv == RowsOfStored /\ ListedOnce /\ Handled /\ AnswersBounded /\ UnseenAhead

\* A step adds rows to one log or to none.
LEMMA RowsGrow ==
  ASSUME IInv, [Next]_vars, NEW l \in Log
  PROVE  \/ rows'[l] = rows[l]
         \/ /\ rows'[l].events \in Nat /\ rows'[l].events >= rows[l].events
            /\ rows'[l].incidents \in Nat /\ rows'[l].incidents >= rows[l].incidents
            /\ \A k \in Key : rows'[l].occ[k] >= rows[l].occ[k]
            /\ status'[l] = "completed"
            /\ \E r \in Request : \A k \in Key \ Keys(r) : rows'[l].occ[k] = rows[l].occ[k]
  <1>1. ASSUME NEW r \in Request, pc[r] = "complete", CommitResult(r), LogOf(r) = l
        PROVE  /\ rows'[l].events \in Nat /\ rows'[l].events >= rows[l].events
               /\ rows'[l].incidents \in Nat /\ rows'[l].incidents >= rows[l].incidents
               /\ \A k \in Key : rows'[l].occ[k] >= rows[l].occ[k]
               /\ status'[l] = "completed"
               /\ \A k \in Key \ Keys(r) : rows'[l].occ[k] = rows[l].occ[k]
    <2> DEFINE c == ContributionOf(ResultOf(r))
    <2>1. rows'[l] = Lifecycle!Plus(rows[l], c)
      BY <1>1, CommitAddsResult DEF IInv, TypeOK
    <2>2. /\ rows'[l].events = rows[l].events + ResultOf(r).events
          /\ rows'[l].incidents = rows[l].incidents + ResultOf(r).incidents
          /\ \A k \in Key : rows'[l].occ[k] =
                IF k \in Keys(r) THEN rows[l].occ[k] + 1 ELSE rows[l].occ[k]
      BY <2>1 DEF Lifecycle!Plus, ContributionOf, Keys
    <2>3. /\ rows[l] \in [events : Nat, occ : [Key -> Nat], incidents : Nat]
          /\ ResultOf(r).events \in Nat /\ ResultOf(r).incidents \in Nat
      BY JobType DEF IInv, TypeOK, PipelineResult
    <2>4. status'[l] = "completed"
      BY <1>1 DEF CommitResult, IInv, TypeOK
    <2>. QED  BY <2>2, <2>3, <2>4
  <1>2. ASSUME NEW r \in Request, CommitResult(r), LogOf(r) # l PROVE rows'[l] = rows[l]
    BY <1>2 DEF CommitResult, IInv, TypeOK
  <1>. QED  BY <1>1, <1>2, OnlyCommitsPublish DEF IInv

\* No log is removed, and logs keep their status until a call commits.
LEMMA LogsStay ==
  ASSUME TypeOK, [Next]_vars
  PROVE  Stored \subseteq Stored'
  BY DEF Stored, TypeOK, Next, vars, table, Step, Upload, Validate, MarkProcessing,
     MarkProcessingFails, ResolveOverride, PipelineSucceeds, PipelineFails, InsertEvents,
     UpsertIocs, InsertIncidents, MarkCompleted, CommitAckLost, CommitResult, PersistFails,
     MarkFailed, MarkFailedFails, Crash

\* Reports compare a state with a later one: no table loses a row.
LEMMA TablesGrow ==
  ASSUME IInv, [Next]_vars
  PROVE  /\ Stored \subseteq Stored'
         /\ EventRows \subseteq EventRows'
         /\ IocRows \subseteq IocRows'
         /\ Incidents \subseteq Incidents'
  <1>1. ASSUME NEW l \in Log
        PROVE  /\ 1 .. rows[l].events \subseteq 1 .. rows'[l].events
               /\ 1 .. rows[l].incidents \subseteq 1 .. rows'[l].incidents
               /\ \A k \in Key : rows[l].occ[k] > 0 => rows'[l].occ[k] > 0
    <2>1. rows[l] \in [events : Nat, occ : [Key -> Nat], incidents : Nat]
      BY DEF IInv, TypeOK
    <2>2. rows'[l] \in [events : Nat, occ : [Key -> Nat], incidents : Nat]
      BY TypeOKStep DEF IInv, TypeOK
    <2>. QED  BY <2>1, <2>2, RowsGrow
  <1>2. EventRows \subseteq EventRows' /\ Incidents \subseteq Incidents'
    BY <1>1 DEF EventRows, Incidents
  <1>3. IocRows \subseteq IocRows'
    BY <1>1 DEF IocRows
  <1>. QED  BY <1>2, <1>3, LogsStay DEF IInv

\* Rows appear with the commit of a stored log, finitely many at a time.
LEMMA RowsOfStoredStep == IInv /\ RowsOfStored /\ [Next]_vars => RowsOfStored'
  <1> SUFFICES ASSUME IInv, RowsOfStored, [Next]_vars, NEW l \in Log
               PROVE  /\ status'[l] = "absent" => rows'[l] = NoRows
                      /\ IsFiniteSet({k \in Key : rows'[l].occ[k] > 0})
    BY DEF RowsOfStored, NoRows
  <1>1. status'[l] = "absent" => status[l] = "absent"
    BY LogsStay DEF Stored, IInv
  <1>2. CASE rows'[l] = rows[l]
    BY <1>1, <1>2 DEF RowsOfStored
  <1>3. CASE /\ status'[l] = "completed"
             /\ \E r \in Request : \A k \in Key \ Keys(r) : rows'[l].occ[k] = rows[l].occ[k]
    <2>1. PICK r \in Request : \A k \in Key \ Keys(r) : rows'[l].occ[k] = rows[l].occ[k]
      BY <1>3
    <2>2. IsFiniteSet(Keys(r))
      <3> DEFINE I == ResultOf(r).iocs
                 f == [v \in I |-> Trunc[v]]
      <3>1. f \in Surjection(I, Keys(r))
        BY DEF Surjection, Keys, KeysOf
      <3>2. IsFiniteSet(I)
        BY JobType DEF IInv
      <3>. QED  BY <3>1, <3>2, FS_Surjection
    <2>3. IsFiniteSet({k \in Key : rows[l].occ[k] > 0} \cup Keys(r))
      BY <2>2, FS_Union DEF RowsOfStored
    <2>4. {k \in Key : rows'[l].occ[k] > 0} \subseteq {k \in Key : rows[l].occ[k] > 0} \cup Keys(r)
      BY <2>1
    <2>5. IsFiniteSet({k \in Key : rows'[l].occ[k] > 0})
      BY <2>3, <2>4, FS_Subset
    <2>. QED  BY <1>3, <2>5
  <1>. QED  BY <1>2, <1>3, RowsGrow

\* Uploads alone store logs: a call sets the status of a stored log only.
LEMMA StoredByUpload ==
  ASSUME IInv, [ReportsNext]_<<vars, views>>
  PROVE  \/ \E l \in Log : UploadLog(l)
         \/ Stored' = Stored /\ uploads' = uploads
  <1>1. ASSUME NEW r \in Request, Validate(r) \/ Step(r) PROVE Stored' = Stored
    <2>1. LogOf(r) \in Log /\ (pc[r] \in Active => status[LogOf(r)] # "absent")
      BY JobType DEF IInv, Staged
    <2>2. \/ status' = status
          \/ pc[r] \in Active /\ \E x \in {"processing", "completed", "failed"} :
                                  status' = [status EXCEPT ![LogOf(r)] = x]
      BY <1>1 DEF Step, Validate, MarkProcessing, MarkProcessingFails, ResolveOverride,
         PipelineSucceeds, PipelineFails, InsertEvents, UpsertIocs, InsertIncidents,
         MarkCompleted, CommitAckLost, CommitResult, PersistFails, MarkFailed,
         MarkFailedFails, table, Active, Writing
    <2>. QED  BY <2>1, <2>2 DEF Stored, IInv, TypeOK
  <1>2. CASE Crash /\ UNCHANGED views
    BY <1>2 DEF Crash, table, Stored, views
  <1>3. CASE UNCHANGED vars /\ UNCHANGED uploads
    BY <1>3 DEF vars, Stored
  <1>. QED
    BY <1>1, <1>2, <1>3
    DEF ReportsNext, views, Patch, StartReport, Query, StartWalk, ReadPage

\* A new log is listed when it is stored.
LEMMA ListedOnceStep ==
  IInv /\ ListedOnce /\ [ReportsNext]_<<vars, views>> => ListedOnce'
  <1> SUFFICES ASSUME IInv, ListedOnce, [ReportsNext]_<<vars, views>>
               PROVE  ListedOnce'
    OBVIOUS
  <1>1. ASSUME NEW l \in Log, UploadLog(l) PROVE ListedOnce'
    <2>1. /\ l \notin Stored
          /\ Stored' = Stored \cup {l}
          /\ uploads' = Append(uploads, l)
      BY <1>1 DEF UploadLog, Upload, Stored, IInv, TypeOK
    <2>2. /\ uploads' \in Seq(Log)
          /\ DOMAIN uploads' = 1 .. Len(uploads) + 1
          /\ DOMAIN uploads = 1 .. Len(uploads)
          /\ Len(uploads) \in Nat
          /\ \A n \in DOMAIN uploads : uploads'[n] = uploads[n]
          /\ uploads'[Len(uploads) + 1] = l
      BY <2>1 DEF ListedOnce
    <2>3. \A n \in DOMAIN uploads : uploads[n] # l
      BY <2>1 DEF ListedOnce
    <2>4. Stored' = {uploads'[n] : n \in DOMAIN uploads'}
      <3>1. ASSUME NEW x \in Stored' PROVE \E n \in DOMAIN uploads' : x = uploads'[n]
        BY <2>1, <2>2 DEF ListedOnce
      <3>2. ASSUME NEW n \in DOMAIN uploads' PROVE uploads'[n] \in Stored'
        BY <2>1, <2>2 DEF ListedOnce
      <3>. QED  BY <3>1, <3>2
    <2>5. \A m, n \in DOMAIN uploads' : uploads'[m] = uploads'[n] => m = n
      BY <2>2, <2>3 DEF ListedOnce
    <2>. QED  BY <2>2, <2>4, <2>5 DEF ListedOnce
  <1>2. CASE Stored' = Stored /\ uploads' = uploads
    BY <1>2 DEF ListedOnce
  <1>. QED  BY <1>1, <1>2, StoredByUpload

\* A commit adds its incidents as they are created, and changes none that is there.
LEMMA HandledStep ==
  IInv /\ Handled /\ [ReportsNext]_<<vars, views>> => Handled'
  <1> SUFFICES ASSUME IInv, Handled, [ReportsNext]_<<vars, views>>
               PROVE  Handled'
    OBVIOUS
  <1>1. CASE (\E r \in Request : Validate(r) \/ Step(r)) /\ AddIncidents
    BY <1>1 DEF AddIncidents, Handled, Created, IncidentStatus
  <1>2. ASSUME NEW i \in Incidents, NEW s \in Statuses, Patch(i, s) PROVE Handled'
    BY <1>2 DEF Patch, vars, Handled, Incidents
  <1>3. CASE UNCHANGED <<rows, handling>>
    BY <1>3 DEF Handled, Incidents
  <1>. QED
    BY <1>1, <1>2, <1>3
    DEF ReportsNext, UploadLog, Upload, Crash, table, views, vars, StartReport, Query,
        StartWalk, ReadPage

-----------------------------------------------------------------------------
(* The listing *)

\* Pages follow one another without a gap.
LEMMA OffsetNext ==
  ASSUME NEW page \in Nat
  PROVE  Offset(page) \in Int /\ Offset(page + 1) = Offset(page) + PageSize
  BY ReportsAssumption DEF Offset

\* A page is a finite set of logs.
LEMMA PageFinite ==
  ASSUME ListedOnce, NEW page \in Nat
  PROVE  Cardinality(Page(page)) \in Nat
  <1> DEFINE D == {m \in DOMAIN uploads : Offset(page) < m /\ m <= Offset(page) + PageSize}
             f == [n \in D |-> NewestFirst[n]]
  <1>1. DOMAIN uploads = 1 .. Len(uploads) /\ Len(uploads) \in Nat
    BY DEF ListedOnce
  <1>2. IsFiniteSet(DOMAIN uploads)
    BY <1>1, FS_Interval
  <1>3. IsFiniteSet(D)
    BY <1>2, FS_Subset
  <1> HIDE DEF D
  <1>4. Page(page) = {NewestFirst[n] : n \in D}
    BY DEF Page, D
  <1>5. f \in Surjection(D, Page(page))
    BY <1>4 DEF Surjection
  <1>. QED  BY <1>3, <1>5, FS_Surjection, FS_CardinalityType

\* A page that is not full is the last one.
LEMMA LastPage ==
  ASSUME ListedOnce, NEW page \in Nat \ {0}, Cardinality(Page(page)) < PageSize
  PROVE  Len(uploads) < Offset(page) + PageSize
  <1> SUFFICES ASSUME Offset(page) + PageSize <= Len(uploads) PROVE FALSE
    <2>1. Len(uploads) \in Nat
      BY DEF ListedOnce
    <2>2. Offset(page) + PageSize \in Int
      BY ReportsAssumption DEF Offset
    <2>. QED  BY <2>1, <2>2
  <1> DEFINE first == Offset(page) + 1
             last == Offset(page) + PageSize
             f == [n \in first .. last |-> NewestFirst[n]]
  <1>1. /\ Offset(page) \in Nat /\ first \in Int /\ last \in Int
        /\ first <= last /\ last - first + 1 = PageSize
        /\ Len(uploads) \in Nat /\ DOMAIN uploads = 1 .. Len(uploads)
    BY ReportsAssumption DEF Offset, ListedOnce
  <1>2. first .. last \subseteq DOMAIN uploads
    BY <1>1
  <1>3. Page(page) = {NewestFirst[n] : n \in first .. last}
    <2>1. {m \in DOMAIN uploads : Offset(page) < m /\ m <= Offset(page) + PageSize} = first .. last
      BY <1>1, <1>2
    <2>. QED  BY <2>1, Zenon DEF Page
  <1>4. \A n \in DOMAIN uploads :
          NewestFirst[n] = uploads[Len(uploads) + 1 - n] /\ Len(uploads) + 1 - n \in DOMAIN uploads
    BY <1>1 DEF NewestFirst
  <1>5. f \in Bijection(first .. last, Page(page))
    <2>1. f \in [first .. last -> Page(page)]
      BY <1>3
    <2>2. ASSUME NEW m \in first .. last, NEW n \in first .. last, f[m] = f[n] PROVE m = n
      <3>1. m \in DOMAIN uploads /\ n \in DOMAIN uploads /\ NewestFirst[m] = NewestFirst[n]
        BY <1>2, <2>2
      <3>2. Len(uploads) + 1 - m = Len(uploads) + 1 - n
        BY <1>4, <3>1 DEF ListedOnce
      <3>. QED  BY <1>1, <3>2
    <2>3. \A x \in Page(page) : \E n \in first .. last : f[n] = x
      BY <1>3
    <2> HIDE DEF f
    <2>. QED  BY <2>1, <2>2, <2>3 DEF Bijection, Injection, IsInjective, Surjection
  <1>6. IsFiniteSet(first .. last) /\ Cardinality(first .. last) = PageSize
    BY <1>1, FS_Interval, ReportsAssumption
  <1>7. Cardinality(Page(page)) = PageSize
    BY <1>5, <1>6, FS_Bijection DEF ExistsBijection
  <1>. QED  BY <1>7, ReportsAssumption

\* An upload pushes the logs of the walk one place further; a page takes what
\* stands on it and moves the start of the rest by its size.
LEMMA UnseenAheadStep ==
  IInv /\ ListedOnce /\ UnseenAhead /\ [ReportsNext]_<<vars, views>> => UnseenAhead'
  <1> SUFFICES ASSUME IInv, ListedOnce, UnseenAhead, [ReportsNext]_<<vars, views>>
               PROVE  UnseenAhead'
    OBVIOUS
  <1>0. /\ Len(uploads) \in Nat /\ DOMAIN uploads = 1 .. Len(uploads)
        /\ walk.page \in Nat /\ Offset(walk.page) \in Int
    BY OffsetNext DEF ListedOnce, UnseenAhead
  <1>1. CASE Stored' = Stored /\ uploads' = uploads /\ walk' = walk
    BY <1>1 DEF UnseenAhead, Offset
  <1>2. ASSUME NEW l \in Log, UploadLog(l) PROVE UnseenAhead'
    <2>1. l \notin Stored /\ Stored \subseteq Stored' /\ walk' = walk /\ uploads' = Append(uploads, l)
      BY <1>2 DEF UploadLog, Upload, Stored, IInv, TypeOK
    <2>2. /\ Len(uploads') = Len(uploads) + 1
          /\ DOMAIN uploads' = 1 .. Len(uploads) + 1
          /\ \A n \in DOMAIN uploads : uploads'[n] = uploads[n]
          /\ uploads'[Len(uploads) + 1] = l
      BY <2>1 DEF ListedOnce
    <2>3. l \notin walk.due
      BY <2>1 DEF UnseenAhead
    <2>4. ASSUME walk.page > 0, NEW n \in DOMAIN uploads', uploads'[n] \in walk.due \ walk.seen
          PROVE  Offset(walk.page) < Len(uploads') + 1 - n
      <3>1. n \in DOMAIN uploads /\ uploads[n] \in walk.due \ walk.seen
        BY <1>0, <2>2, <2>3, <2>4
      <3>2. Offset(walk.page) < Len(uploads) + 1 - n
        BY <2>4, <3>1 DEF UnseenAhead
      <3>. QED  BY <1>0, <2>2, <3>1, <3>2
    <2>. QED  BY <2>1, <2>4 DEF UnseenAhead, Offset
  <1>3. CASE StartWalk
    <2>1. /\ walk' = [NoWalk EXCEPT !.page = 1, !.due = Stored]
          /\ Stored' = Stored /\ uploads' = uploads
      BY <1>3 DEF StartWalk, vars, Stored
    <2>2. Offset(1) = 0
      BY ReportsAssumption DEF Offset
    <2>3. /\ walk'.page = 1 /\ walk'.due = Stored /\ walk'.seen = {} /\ walk'.done = FALSE
          /\ walk' \in [page : Nat, due : SUBSET Log, seen : SUBSET Log, done : BOOLEAN]
      BY <2>1 DEF NoWalk, Stored
    <2>4. \A n \in DOMAIN uploads : Offset(1) < Len(uploads) + 1 - n
      BY <1>0, <2>2
    <2>. QED  BY <2>1, <2>3, <2>4 DEF UnseenAhead, Offset
  <1>4. CASE ReadPage /\ walk.done
    BY <1>4 DEF ReadPage, UnseenAhead, NoWalk
  <1>5. CASE ReadPage /\ ~walk.done
    <2> DEFINE page == walk.page
               full == Cardinality(Page(page)) < PageSize
    <2>1. /\ page \in Nat \ {0}
          /\ walk' = [walk EXCEPT !.page = page + 1, !.seen = walk.seen \cup Page(page), !.done = full]
          /\ Stored' = Stored /\ uploads' = uploads
      BY <1>0, <1>5 DEF ReadPage, vars, Stored
    <2>2. /\ walk'.page = page + 1 /\ walk'.due = walk.due
          /\ walk'.seen = walk.seen \cup Page(page) /\ walk'.done = full
      BY <2>1 DEF UnseenAhead
    <2>3. Page(page) \subseteq Log
      BY <1>0 DEF Page, NewestFirst, ListedOnce
    <2>4. walk' \in [page : Nat, due : SUBSET Log, seen : SUBSET Log, done : BOOLEAN]
      <3>1. full \in BOOLEAN
        BY <2>1, PageFinite, ReportsAssumption
      <3>2. page + 1 \in Nat /\ walk.seen \cup Page(page) \in SUBSET Log
        BY <2>1, <2>3 DEF UnseenAhead
      <3> HIDE DEF full
      <3>. QED  BY <2>1, <3>1, <3>2 DEF UnseenAhead
    <2>5. ASSUME NEW n \in DOMAIN uploads, uploads[n] \in walk'.due \ walk'.seen
          PROVE  Offset(page) + PageSize < Len(uploads) + 1 - n
      <3> DEFINE m == Len(uploads) + 1 - n
      <3>1. Offset(page) < m
        BY <2>1, <2>2, <2>5 DEF UnseenAhead
      <3>2. m \in DOMAIN uploads /\ NewestFirst[m] = uploads[n]
        BY <1>0 DEF NewestFirst
      <3>3. NewestFirst[m] \notin Page(page)
        BY <2>2, <2>5, <3>2
      <3>4. ~(m <= Offset(page) + PageSize)
        BY <3>1, <3>2, <3>3 DEF Page
      <3>. QED  BY <1>0, <3>2, <3>4, ReportsAssumption
    <2>6. walk'.done => walk'.due \subseteq walk'.seen
      <3> SUFFICES ASSUME full, NEW l \in walk.due, l \notin walk'.seen PROVE FALSE
        BY <2>2
      <3>1. PICK n \in DOMAIN uploads : uploads[n] = l
        BY DEF UnseenAhead, ListedOnce
      <3>2. Offset(page) + PageSize < Len(uploads) + 1 - n
        BY <2>2, <2>5, <3>1
      <3>3. Len(uploads) < Offset(page) + PageSize
        BY <2>1, LastPage
      <3>. QED  BY <1>0, <3>2, <3>3, ReportsAssumption
    <2>7. Offset(page + 1) = Offset(page) + PageSize
      BY <1>0, OffsetNext
    <2>8. Offset(walk.page)' = Offset(page + 1)
      BY <2>2 DEF Offset
    <2> HIDE DEF full, page
    <2>9. walk.due \subseteq Stored'
      BY <2>1 DEF UnseenAhead
    <2>10. walk'.page # 0
      BY <2>1, <2>2
    <2>. QED  BY <2>1, <2>2, <2>4, <2>5, <2>6, <2>7, <2>8, <2>9, <2>10 DEF UnseenAhead
  <1>. QED
    BY <1>1, <1>2, <1>3, <1>4, <1>5, StoredByUpload
    DEF ReportsNext, UploadLog, Patch, StartReport, Query, StartWalk, ReadPage, views

-----------------------------------------------------------------------------
(* The statistics *)

\* Finitely many logs with finitely many rows each have finitely many rows.
LEMMA FiniteRows ==
  ASSUME NEW L, NEW S \in SUBSET L, IsFiniteSet(S),
         NEW g, \A x \in S : IsFiniteSet(g[x]), \A x \in L \ S : g[x] = {}
  PROVE  IsFiniteSet(UNION {{x} \X g[x] : x \in L})
  <1> DEFINE T == {{x} \X g[x] : x \in S}
             f == [x \in S |-> {x} \X g[x]]
  <1>1. f \in Surjection(S, T)
    BY DEF Surjection
  <1>2. IsFiniteSet(T)
    BY <1>1, FS_Surjection
  <1>3. ASSUME NEW x \in S PROVE IsFiniteSet({x} \X g[x])
    BY FS_Singleton, FS_Product
  <1>4. \A U \in T : IsFiniteSet(U)
    BY <1>3
  <1>5. UNION {{x} \X g[x] : x \in L} = UNION T
    OBVIOUS
  <1> HIDE DEF T
  <1>. QED  BY <1>2, <1>4, <1>5, FS_UNION

\* The tables are finite at all times.
LEMMA TablesFinite ==
  TypeOK /\ RowsOfStored /\ ListedOnce =>
    /\ IsFiniteSet(Stored) /\ IsFiniteSet(EventRows)
    /\ IsFiniteSet(IocRows) /\ IsFiniteSet(Incidents)
  <1> SUFFICES ASSUME TypeOK, RowsOfStored, ListedOnce
               PROVE  /\ IsFiniteSet(Stored) /\ IsFiniteSet(EventRows)
                      /\ IsFiniteSet(IocRows) /\ IsFiniteSet(Incidents)
    OBVIOUS
  <1>0. Stored \in SUBSET Log
    BY DEF Stored
  <1>1. IsFiniteSet(Stored)
    <2> DEFINE f == [n \in DOMAIN uploads |-> uploads[n]]
    <2>1. DOMAIN uploads = 1 .. Len(uploads) /\ Len(uploads) \in Nat
      BY DEF ListedOnce
    <2>2. IsFiniteSet(DOMAIN uploads)
      BY <2>1, FS_Interval
    <2>3. f \in Surjection(DOMAIN uploads, Stored)
      BY DEF Surjection, ListedOnce
    <2>. QED  BY <2>2, <2>3, FS_Surjection
  <1>2. ASSUME NEW l \in Log
        PROVE  rows[l].events \in Nat /\ rows[l].incidents \in Nat
    BY DEF TypeOK
  <1>3. ASSUME NEW l \in Log \ Stored
        PROVE  rows[l].events = 0 /\ rows[l].incidents = 0 /\ \A k \in Key : rows[l].occ[k] = 0
    <2>1. rows[l] = NoRows
      BY DEF RowsOfStored, Stored
    <2>. QED  BY <2>1 DEF NoRows
  <1>4. \A n \in Nat : IsFiniteSet(1 .. n) /\ (n = 0 => 1 .. n = {})
    BY FS_Interval
  <1>5. IsFiniteSet(EventRows)
    <2> DEFINE g == [l \in Log |-> 1 .. rows[l].events]
    <2>1. /\ \A l \in Stored : IsFiniteSet(g[l])
          /\ \A l \in Log \ Stored : g[l] = {}
      BY <1>2, <1>3, <1>4 DEF Stored
    <2>2. EventRows = UNION {{l} \X g[l] : l \in Log}
      BY DEF EventRows
    <2> HIDE DEF g
    <2>3. IsFiniteSet(UNION {{l} \X g[l] : l \in Log})
      BY <1>1, <1>0, <2>1, FiniteRows
    <2>. QED  BY <2>2, <2>3
  <1>6. IsFiniteSet(Incidents)
    <2> DEFINE g == [l \in Log |-> 1 .. rows[l].incidents]
    <2>1. /\ \A l \in Stored : IsFiniteSet(g[l])
          /\ \A l \in Log \ Stored : g[l] = {}
      BY <1>2, <1>3, <1>4 DEF Stored
    <2>2. Incidents = UNION {{l} \X g[l] : l \in Log}
      BY DEF Incidents
    <2> HIDE DEF g
    <2>3. IsFiniteSet(UNION {{l} \X g[l] : l \in Log})
      BY <1>1, <1>0, <2>1, FiniteRows
    <2>. QED  BY <2>2, <2>3
  <1>7. IsFiniteSet(IocRows)
    <2> DEFINE g == [l \in Log |-> {k \in Key : rows[l].occ[k] > 0}]
    <2>1. /\ \A l \in Stored : IsFiniteSet(g[l])
          /\ \A l \in Log \ Stored : g[l] = {}
      BY <1>3 DEF RowsOfStored, Stored
    <2>2. IocRows = UNION {{l} \X g[l] : l \in Log}
      BY DEF IocRows
    <2> HIDE DEF g
    <2>3. IsFiniteSet(UNION {{l} \X g[l] : l \in Log})
      BY <1>1, <1>0, <2>1, FiniteRows
    <2>. QED  BY <2>2, <2>3
  <1>. QED  BY <1>1, <1>5, <1>6, <1>7

\* Every query of a section answers with a part of what its last query counts.
LEMMA AnswerAtMostTotal ==
  ASSUME TypeOK, RowsOfStored, ListedOnce,
         NEW section \in DOMAIN Queries, NEW n \in DOMAIN Queries[section]
  PROVE  /\ Answer(Queries[section][n]) \in Nat
         /\ Answer(Queries[section][n]) <= Total(section)
         /\ Total(section) \in Nat
         /\ n = Len(Queries[section]) => Answer(Queries[section][n]) = Total(section)
  <1>1. /\ Cardinality(Stored) \in Nat /\ Cardinality(EventRows) \in Nat
        /\ Cardinality(IocRows) \in Nat /\ Cardinality(Incidents) \in Nat
    BY TablesFinite, FS_CardinalityType
  <1>2. /\ Cardinality({p[2] : p \in IocRows}) \in Nat
        /\ Cardinality({p[2] : p \in IocRows}) <= Cardinality(IocRows)
    <2> DEFINE f == [p \in IocRows |-> p[2]]
    <2>1. f \in Surjection(IocRows, {p[2] : p \in IocRows})
      BY DEF Surjection
    <2>. QED  BY <2>1, TablesFinite, FS_Surjection, FS_CardinalityType
  <1>3. /\ Cardinality({i \in Incidents : handling[i] = "open"}) \in Nat
        /\ Cardinality({i \in Incidents : handling[i] = "open"}) <= Cardinality(Incidents)
    BY TablesFinite, FS_Subset, FS_CardinalityType
  <1>4. CASE section = "logs"
    BY <1>1, <1>4 DEF Queries, Answer, Total
  <1>5. CASE section = "events"
    BY <1>1, <1>5 DEF Queries, Answer, Total
  <1>6. CASE section = "iocs"
    BY <1>1, <1>2, <1>6 DEF Queries, Answer, Total
  <1>7. CASE section = "incidents"
    BY <1>1, <1>3, <1>7 DEF Queries, Answer, Total
  <1>. QED  BY <1>4, <1>5, <1>6, <1>7 DEF Queries

\* Answers that are within a total are within a later, larger one.
LEMMA WithinLater ==
  ASSUME NEW answers \in Seq(Nat), NEW queries \in Nat, NEW t \in Nat, NEW u \in Nat,
         t <= u, Within(answers, queries, t)
  PROVE  Within(answers, queries, u)
  <1>1. ASSUME NEW n \in DOMAIN answers, n < queries PROVE answers[n] <= u
    <2>1. answers[n] \in Nat /\ answers[n] <= t
      BY <1>1 DEF Within
    <2>. QED  BY <2>1
  <1>. QED  BY <1>1 DEF Within

\* One more answer: at most the total, and the total itself if it is the last.
LEMMA WithinAppend ==
  ASSUME NEW answers \in Seq(Nat), NEW queries \in Nat, NEW t \in Nat, NEW a \in Nat,
         Within(answers, queries, t), Len(answers) < queries,
         a <= t, Len(answers) + 1 = queries => a = t
  PROVE  Within(Append(answers, a), queries, t)
  <1> DEFINE b == Append(answers, a)
  <1>1. /\ Len(answers) \in Nat /\ Len(b) = Len(answers) + 1
        /\ DOMAIN answers = 1 .. Len(answers) /\ DOMAIN b = 1 .. Len(b)
        /\ \A n \in DOMAIN answers : b[n] = answers[n] /\ answers[n] \in Nat
        /\ b[Len(b)] = a
    OBVIOUS
  <1> HIDE DEF b
  <1>2. \A n \in DOMAIN b : b[n] <= t
    <2> TAKE n \in DOMAIN b
    <2>1. CASE n = Len(b)
      BY <1>1, <2>1
    <2>2. CASE n # Len(b)
      <3>1. n \in DOMAIN answers /\ n < queries
        BY <1>1, <2>2
      <3>. QED  BY <1>1, <3>1 DEF Within
    <2>. QED  BY <2>1, <2>2
  <1>3. Len(b) = queries => b[queries] = t
    BY <1>1
  <1>4. Len(b) <= queries
    BY <1>1
  <1>5. Len(b) = queries => \A n \in DOMAIN b : b[n] <= b[queries]
    BY <1>2, <1>3
  <1>6. Within(b, queries, t)
    BY <1>2, <1>4, <1>5 DEF Within
  <1>. QED  BY <1>6 DEF b

\* Totals never fall.
LEMMA TotalsGrow ==
  ASSUME IInv, RowsOfStored, ListedOnce, [ReportsNext]_<<vars, views>>,
         NEW section \in DOMAIN Queries
  PROVE  Total(section) \in Nat /\ Total(section)' \in Nat /\ Total(section) <= Total(section)'
  <1>0. [Next]_vars
    BY ReportsStep
  <1>1. TypeOK' /\ RowsOfStored' /\ ListedOnce'
    BY <1>0, TypeOKStep, RowsOfStoredStep, ListedOnceStep DEF IInv
  <1>2. TypeOK' /\ RowsOfStored' /\ ListedOnce' =>
          /\ IsFiniteSet(Stored)' /\ IsFiniteSet(EventRows)'
          /\ IsFiniteSet(IocRows)' /\ IsFiniteSet(Incidents)'
    BY TablesFinite, PTL
  <1>3. ASSUME NEW S, NEW T, IsFiniteSet(T), S \subseteq T
        PROVE  Cardinality(S) \in Nat /\ Cardinality(T) \in Nat /\ Cardinality(S) <= Cardinality(T)
    BY <1>3, FS_Subset, FS_CardinalityType
  <1>4. /\ Cardinality(Stored) \in Nat /\ Cardinality(Stored') \in Nat
        /\ Cardinality(Stored) <= Cardinality(Stored')
    BY <1>0, <1>1, <1>2, <1>3, TablesGrow
  <1>5. /\ Cardinality(EventRows) \in Nat /\ Cardinality(EventRows') \in Nat
        /\ Cardinality(EventRows) <= Cardinality(EventRows')
    BY <1>0, <1>1, <1>2, <1>3, TablesGrow
  <1>6. /\ Cardinality(IocRows) \in Nat /\ Cardinality(IocRows') \in Nat
        /\ Cardinality(IocRows) <= Cardinality(IocRows')
    BY <1>0, <1>1, <1>2, <1>3, TablesGrow
  <1>7. /\ Cardinality(Incidents) \in Nat /\ Cardinality(Incidents') \in Nat
        /\ Cardinality(Incidents) <= Cardinality(Incidents')
    BY <1>0, <1>1, <1>2, <1>3, TablesGrow
  <1>8. section \in {"logs", "events", "iocs", "incidents"}
    BY DEF Queries
  <1>. QED  BY <1>4, <1>5, <1>6, <1>7, <1>8 DEF Total

\* The last query of a section reads its total, the others a part of it, and the
\* total does not fall in between.
LEMMA AnswersBoundedStep ==
  IInv /\ RowsOfStored /\ ListedOnce /\ AnswersBounded /\ [ReportsNext]_<<vars, views>>
    => AnswersBounded'
  <1> SUFFICES ASSUME IInv, RowsOfStored, ListedOnce, AnswersBounded,
                      [ReportsNext]_<<vars, views>>
               PROVE  AnswersBounded'
    OBVIOUS
  <1>1. \A section \in DOMAIN Queries :
          /\ Total(section) \in Nat /\ Total(section)' \in Nat
          /\ Total(section) <= Total(section)'
    BY TotalsGrow
  <1>2. \A section \in DOMAIN Queries : section # "none" /\ Len(Queries[section]) \in {2, 3}
    BY DEF Queries
  <1>3. CASE report' = report
    <2>1. ASSUME NEW section \in DOMAIN Queries, report.section = section
          PROVE  Within(report.answers, Len(Queries[section]), Total(section)')
      BY <1>1, <1>2, <2>1, WithinLater DEF AnswersBounded
    <2>. QED  BY <1>3, <2>1 DEF AnswersBounded
  <1>4. CASE StartReport
    <2>1. PICK sec \in DOMAIN Queries : report' = [NoReport EXCEPT !.section = sec]
      BY <1>4 DEF StartReport
    <2>2. report' = [section |-> sec, answers |-> <<>>]
      BY <2>1 DEF NoReport
    <2>3. \A total : Within(<<>>, Len(Queries[sec]), total)
      BY <1>2 DEF Within
    <2>. QED  BY <1>2, <2>2, <2>3 DEF AnswersBounded
  <1>5. CASE Query
    <2>1. PICK sec \in DOMAIN Queries : report.section = sec
      BY <1>5 DEF Query, AnswersBounded
    <2> DEFINE asked == Queries[sec]
               n == Len(report.answers) + 1
    <2>2. report' = IF n > Len(asked) THEN NoReport
                      ELSE [report EXCEPT !.answers = Append(report.answers, Answer(asked[n]))]
      BY <1>5, <2>1 DEF Query
    <2>3. /\ report.answers \in Seq(Nat) /\ n \in Nat \ {0} /\ Len(asked) \in Nat
          /\ Within(report.answers, Len(asked), Total(sec))
      BY <1>2, <2>1 DEF AnswersBounded
    <2>4. CASE n > Len(asked)
      <3>1. report' = [section |-> "none", answers |-> <<>>]
        BY <2>2, <2>4 DEF NoReport
      <3>. QED  BY <1>2, <3>1 DEF AnswersBounded, NoReport
    <2>5. CASE ~(n > Len(asked))
      <3>1. n \in DOMAIN asked /\ n <= Len(asked)
        BY <2>3, <2>5 DEF Queries
      <3> DEFINE a == Answer(asked[n])
      <3>2. a \in Nat /\ a <= Total(sec) /\ (n = Len(asked) => a = Total(sec))
        BY <3>1, AnswerAtMostTotal DEF IInv
      <3>3. report' = [section |-> sec, answers |-> Append(report.answers, a)]
        BY <2>1, <2>2, <2>5 DEF AnswersBounded
      <3> HIDE DEF a, asked
      <3>4. Within(Append(report.answers, a), Len(asked), Total(sec))
        BY <1>1, <2>3, <3>1, <3>2, WithinAppend
      <3>5. Append(report.answers, a) \in Seq(Nat)
        BY <2>3, <3>2
      <3>6. Within(Append(report.answers, a), Len(asked), Total(sec)')
        BY <1>1, <2>3, <3>4, <3>5, WithinLater
      <3>. QED  BY <1>2, <3>3, <3>5, <3>6 DEF AnswersBounded, asked
    <2>. QED  BY <2>4, <2>5
  <1>. QED
    BY <1>3, <1>4, <1>5
    DEF ReportsNext, UploadLog, Patch, StartWalk, ReadPage, views

-----------------------------------------------------------------------------
(* The invariant and what follows from it *)

\* RInv is inductive on top of what is proved of LogProcessing.
LEMMA RInvInductive == ReportsSpec => [](IInv /\ RInv)
  <1>1. ReportsInit => RInv
    <2> SUFFICES ASSUME ReportsInit PROVE RInv
      OBVIOUS
    <2> USE DEF ReportsInit, Init
    <2>1. RowsOfStored
      <3>1. ASSUME NEW l \in Log PROVE {k \in Key : rows[l].occ[k] > 0} = {}
        BY DEF NoRows
      <3>. QED  BY <3>1, FS_EmptySet DEF RowsOfStored
    <2>2. ListedOnce
      BY DEF ListedOnce, Stored
    <2>3. Handled
      BY DEF Handled, Created, IncidentStatus
    <2>4. AnswersBounded
      BY DEF AnswersBounded, NoReport, Queries
    <2>5. UnseenAhead
      BY DEF UnseenAhead, NoWalk
    <2>. QED  BY <2>1, <2>2, <2>3, <2>4, <2>5 DEF RInv
  <1>2. IInv /\ RInv /\ [ReportsNext]_<<vars, views>> => RInv'
    BY ReportsStep, RowsOfStoredStep, ListedOnceStep, HandledStep, AnswersBoundedStep,
       UnseenAheadStep DEF RInv
  <1>3. ReportsSpec => []IInv
    BY ReportsImplement, IInvInductive, PTL
  <1>. QED  BY <1>1, <1>2, <1>3, PTL DEF ReportsSpec

\* The walk over the pages misses no log that was there when it began.
THEOREM NothingMissed == ReportsSpec => []WalkComplete
  <1>1. RInv => WalkComplete
    BY DEF RInv, UnseenAhead, WalkComplete
  <1>. QED  BY <1>1, RInvInductive, PTL

\* The figures of a report fit each other, whatever happened between its queries.
THEOREM FiguresFit == ReportsSpec => []StatisticsConsistent
  <1>1. RInv => StatisticsConsistent
    <2> SUFFICES ASSUME AnswersBounded, report # NoReport,
                        Len(report.answers) = Len(Queries[report.section])
                 PROVE  StatisticsConsistent
      BY DEF RInv, StatisticsConsistent
    <2>1. PICK section \in DOMAIN Queries : report.section = section
      BY DEF AnswersBounded
    <2> DEFINE asked == Queries[section]
               at(q) == report.answers[CHOOSE n \in DOMAIN asked : asked[n] = q]
    <2>2. ASSUME NEW q, NEW m \in DOMAIN asked, asked[m] = q,
                 NEW total, asked[Len(asked)] = total, \A n \in DOMAIN asked : asked[n] = total => n = Len(asked)
          PROVE  at(q) <= at(total)
      <3> DEFINE k == CHOOSE n \in DOMAIN asked : asked[n] = q
                 t == CHOOSE n \in DOMAIN asked : asked[n] = total
      <3>1. k \in DOMAIN asked /\ asked[k] = q
        BY <2>2
      <3>2. Len(asked) \in DOMAIN asked
        BY DEF Queries
      <3>3. t \in DOMAIN asked /\ asked[t] = total
        BY <2>2, <3>2
      <3>4. t = Len(asked)
        BY <2>2, <3>3
      <3>5. DOMAIN report.answers = DOMAIN asked
        BY <2>1 DEF AnswersBounded, Queries
      <3>6. report.answers[k] <= report.answers[Len(asked)]
        BY <2>1, <3>1, <3>5 DEF AnswersBounded, Within
      <3>. QED  BY <3>4, <3>6
    <2> HIDE DEF at
    <2>3. CASE section = "logs"
      <3>1. at("count_by_status") <= at("list_logs")
        BY <2>2, <2>3 DEF Queries
      <3>. QED  BY <2>1, <2>3, <3>1 DEF StatisticsConsistent, at
    <2>4. CASE section = "events"
      <3>1. at("total_event_count") <= at("global_severity_breakdown")
        BY <2>2, <2>4 DEF Queries
      <3>. QED  BY <2>1, <2>4, <3>1 DEF StatisticsConsistent, at
    <2>5. CASE section = "iocs"
      <3>1. at("total_ioc_count") <= at("ioc_type_summary")
        BY <2>2, <2>5 DEF Queries
      <3>2. at("unique_ioc_value_count") <= at("ioc_type_summary")
        BY <2>2, <2>5 DEF Queries
      <3>. QED  BY <2>1, <2>5, <3>1, <3>2 DEF StatisticsConsistent, at
    <2>6. CASE section = "incidents"
      <3>1. at("open") <= at("total_incident_count")
        BY <2>2, <2>6 DEF Queries
      <3>2. at("severe") <= at("total_incident_count")
        BY <2>2, <2>6 DEF Queries
      <3>. QED  BY <2>1, <2>6, <3>1, <3>2 DEF StatisticsConsistent, at
    <2>. QED  BY <2>3, <2>4, <2>5, <2>6 DEF Queries
  <1>. QED  BY <1>1, RInvInductive, PTL
=============================================================================
