----------------------- MODULE LogProcessing_proofs -----------------------
(***************************************************************************)
(* Theorems about LogProcessing, for every set of logs, calls and faults.  *)
(***************************************************************************)
EXTENDS LogProcessing, FiniteSetTheorems, TLAPS

-----------------------------------------------------------------------------
(* Typing *)

\* What a call works with has the type the constants give it.
LEMMA JobType ==
  ASSUME TypeOK, NEW r \in Request
  PROVE  /\ LogOf(r) \in Log
         /\ job[r].force \in Override
         /\ ResultOf(r) \in PipelineResult
         /\ IsFiniteSet(ResultOf(r).iocs)
         /\ Keys(r) \subseteq Key
  <1>1. LogOf(r) \in Log /\ job[r].force \in Override
    BY DEF TypeOK, LogOf
  <1>2. ResultOf(r) \in PipelineResult /\ IsFiniteSet(ResultOf(r).iocs)
    BY <1>1, ConstantsAssumption DEF ResultOf
  <1>3. ResultOf(r).iocs \subseteq Value
    BY <1>2 DEF PipelineResult
  <1>4. Keys(r) \subseteq Key
    BY <1>3, ConstantsAssumption DEF Keys, KeysOf
  <1>. QED  BY <1>1, <1>2, <1>4

\* The two counters of a result are numbers.
LEMMA StatsType ==
  ASSUME NEW res \in PipelineResult, IsFiniteSet(res.iocs)
  PROVE  Stats(res) \in [events : Nat, iocs : Nat]
  BY FS_CardinalityType DEF Stats, PipelineResult

\* Typing is inductive: one step per action.
LEMMA TypeOKStep == TypeOK /\ [Next]_vars => TypeOK'
  <1> SUFFICES ASSUME TypeOK, [Next]_vars PROVE TypeOK'
    OBVIOUS
  <1> USE DEF TypeOK, Goto, table, Active, Ended, Writing
  <1>1. ASSUME NEW l \in Log, Upload(l) PROVE TypeOK'
    BY <1>1 DEF Upload
  <1>2. ASSUME NEW r \in Request, Validate(r) PROVE TypeOK'
    BY <1>2 DEF Validate
  <1>3. ASSUME NEW r \in Request, MarkProcessing(r) PROVE TypeOK'
    BY <1>3 DEF MarkProcessing, LogOf
  <1>4. ASSUME NEW r \in Request, MarkProcessingFails(r) PROVE TypeOK'
    BY <1>4 DEF MarkProcessingFails, LogOf
  <1>5. ASSUME NEW r \in Request, ResolveOverride(r) PROVE TypeOK'
    BY <1>5 DEF ResolveOverride
  <1>6. ASSUME NEW r \in Request, PipelineSucceeds(r) PROVE TypeOK'
    BY <1>6 DEF PipelineSucceeds
  <1>7. ASSUME NEW r \in Request, PipelineFails(r) PROVE TypeOK'
    BY <1>7 DEF PipelineFails
  <1>8. ASSUME NEW r \in Request, InsertEvents(r) PROVE TypeOK'
    <2>1. ResultOf(r).events \in Nat
      BY JobType DEF PipelineResult
    <2>. QED  BY <1>8, <2>1 DEF InsertEvents
  <1>9. ASSUME NEW r \in Request, UpsertIocs(r) PROVE TypeOK'
    <2>1. LogOf(r) \in Log
      BY JobType
    <2>2. [k \in Key |-> IF k \in Keys(r) THEN rows[LogOf(r)].occ[k] + 1 ELSE 0]
            \in [Key -> Nat]
      BY <2>1
    <2>. QED  BY <1>9, <2>2 DEF UpsertIocs
  <1>10. ASSUME NEW r \in Request, InsertIncidents(r) PROVE TypeOK'
    <2>1. ResultOf(r).incidents \in Nat
      BY JobType DEF PipelineResult
    <2>. QED  BY <1>10, <2>1 DEF InsertIncidents
  <1>11. ASSUME NEW r \in Request, CommitResult(r), pc' \in [Request -> {"idle"} \cup Active \cup Ended]
         PROVE  TypeOK'
    <2> DEFINE l == LogOf(r)
               new == [events    |-> rows[l].events + tx[r].events,
                       occ       |-> [k \in Key |-> IF k \in Keys(r) THEN tx[r].occ[k]
                                                                     ELSE rows[l].occ[k]],
                       incidents |-> rows[l].incidents + tx[r].incidents]
    <2>1. l \in Log
      BY JobType
    <2>2. Stats(ResultOf(r)) \in [events : Nat, iocs : Nat]
      BY JobType, StatsType
    <2>3. new \in [events : Nat, occ : [Key -> Nat], incidents : Nat]
      BY <2>1
    <2>4. NoRows \in [events : Nat, occ : [Key -> Nat], incidents : Nat]
      BY DEF NoRows
    <2>5. /\ status' = [status EXCEPT ![l] = "completed"]
          /\ counters' = [counters EXCEPT ![l] = Stats(ResultOf(r))]
          /\ rows' = [rows EXCEPT ![l] = new]
          /\ tx' = [tx EXCEPT ![r] = NoRows]
          /\ UNCHANGED <<failure, job>>
      BY <1>11 DEF CommitResult
    <2> HIDE DEF l, new
    <2>. QED  BY <1>11, <2>1, <2>2, <2>3, <2>4, <2>5
  <1>12. ASSUME NEW r \in Request, MarkCompleted(r) PROVE TypeOK'
    BY <1>11, <1>12 DEF MarkCompleted
  <1>13. ASSUME NEW r \in Request, CommitAckLost(r) PROVE TypeOK'
    BY <1>11, <1>13 DEF CommitAckLost
  <1>14. ASSUME NEW r \in Request, PersistFails(r) PROVE TypeOK'
    BY <1>14 DEF PersistFails, NoRows
  <1>15. ASSUME NEW r \in Request, MarkFailed(r) PROVE TypeOK'
    BY <1>15 DEF MarkFailed, LogOf
  <1>16. ASSUME NEW r \in Request, MarkFailedFails(r) PROVE TypeOK'
    BY <1>16 DEF MarkFailedFails
  <1>17. ASSUME Crash PROVE TypeOK'
    BY <1>17 DEF Crash, NoRows
  <1>18. CASE UNCHANGED vars
    BY <1>18 DEF vars
  <1>. QED
    BY <1>1, <1>2, <1>3, <1>4, <1>5, <1>6, <1>7, <1>8, <1>9, <1>10, <1>12, <1>13,
       <1>14, <1>15, <1>16, <1>17, <1>18 DEF Next, Step

\* Every variable of the parsing of logs keeps its type.
THEOREM TypeCorrect == Spec => []TypeOK
  <1>1. Init => TypeOK
    BY DEF Init, TypeOK, NoRows, NoStats
  <1>. QED  BY <1>1, TypeOKStep, PTL DEF Spec

-----------------------------------------------------------------------------
(* The open transactions *)

\* What a call has flushed so far, and that it works on a stored log under a
\* valid override.
Staged ==
  \A r \in Request :
    /\ pc[r] \in Active => status[LogOf(r)] # "absent"
    /\ pc[r] \in Writing \cup {"running"} => job[r].force \notin InvalidOverride
    /\ pc[r] \in {"iocs", "incidents", "complete"} => tx[r].events = ResultOf(r).events
    /\ pc[r] = "complete" => tx[r].incidents = ResultOf(r).incidents

\* Two open transactions never hold the same key of the same log.
KeysExclusive ==
  \A r, s \in Request :
    r # s /\ Holding(r) /\ Holding(s) /\ LogOf(r) = LogOf(s) => Keys(r) \cap Keys(s) = {}

\* StagedCountsCurrent is not inductive alone: a commit changes the counts the
\* other transactions started from unless their keys are disjoint.
IInv == TypeOK /\ Staged /\ KeysExclusive /\ StagedCountsCurrent

\* A step that leaves the calls' arguments alone leaves what they stand for alone.
LEMMA JobFixed ==
  ASSUME job' = job, NEW r \in Request
  PROVE  LogOf(r)' = LogOf(r) /\ ResultOf(r)' = ResultOf(r) /\ Keys(r)' = Keys(r)
  BY DEF LogOf, ResultOf, Keys

\* No action changes the arguments of a call.
LEMMA JobConstant == [Next]_vars => job' = job
  BY DEF Next, vars, Step, Upload, Validate, MarkProcessing, MarkProcessingFails,
         ResolveOverride, PipelineSucceeds, PipelineFails, InsertEvents, UpsertIocs,
         InsertIncidents, MarkCompleted, CommitAckLost, CommitResult, PersistFails,
         MarkFailed, MarkFailedFails, Crash

\* The steps of one call leave the other calls alone, and the committed rows
\* too unless the call commits.
LEMMA StepShape ==
  ASSUME TypeOK, NEW r \in Request, Validate(r) \/ Step(r)
  PROVE  /\ \A s \in Request \ {r} : pc'[s] = pc[s] /\ tx'[s] = tx[s]
         /\ pc[r] = "idle" \/ pc[r] \in Active
         /\ \/ rows' = rows
            \/ pc[r] = "complete" /\ pc'[r] \in {"ok", "failing"} /\ CommitResult(r)
  <1> USE DEF TypeOK, Goto, table, Active, Writing
  <1>1. CASE Validate(r)
    BY <1>1 DEF Validate
  <1>2. CASE MarkProcessing(r) \/ MarkProcessingFails(r) \/ ResolveOverride(r)
    BY <1>2 DEF MarkProcessing, MarkProcessingFails, ResolveOverride
  <1>3. CASE PipelineSucceeds(r) \/ PipelineFails(r)
    BY <1>3 DEF PipelineSucceeds, PipelineFails
  <1>4. CASE InsertEvents(r)
    BY <1>4, Zenon DEF InsertEvents
  <1>5. CASE UpsertIocs(r)
    BY <1>5, Zenon DEF UpsertIocs
  <1>6. CASE InsertIncidents(r)
    BY <1>6, Zenon DEF InsertIncidents
  <1>7. CASE MarkCompleted(r) \/ CommitAckLost(r)
    BY <1>7 DEF MarkCompleted, CommitAckLost, CommitResult
  <1>8. CASE PersistFails(r)
    BY <1>8 DEF PersistFails
  <1>9. CASE MarkFailed(r) \/ MarkFailedFails(r)
    BY <1>9 DEF MarkFailed, MarkFailedFails
  <1>. QED
    BY <1>1, <1>2, <1>3, <1>4, <1>5, <1>6, <1>7, <1>8, <1>9 DEF Step

\* Staged is inductive: a call flushes its own result, piece by piece.
LEMMA StagedStep == TypeOK /\ Staged /\ [Next]_vars => Staged'
  <1> DEFINE P(s) ==
        /\ pc[s] \in Active => status[LogOf(s)] # "absent"
        /\ pc[s] \in Writing \cup {"running"} => job[s].force \notin InvalidOverride
        /\ pc[s] \in {"iocs", "incidents", "complete"} => tx[s].events = ResultOf(s).events
        /\ pc[s] = "complete" => tx[s].incidents = ResultOf(s).incidents
  <1> SUFFICES ASSUME TypeOK, Staged, [Next]_vars, NEW s \in Request
               PROVE  P(s)'
    BY DEF Staged
  <1>0. P(s) /\ LogOf(s) \in Log
    BY JobType DEF Staged
  <1>j. job' = job /\ LogOf(s)' = LogOf(s) /\ ResultOf(s)' = ResultOf(s)
    BY JobConstant, JobFixed
  <1> USE <1>0, <1>j DEF TypeOK, Goto, table, Active, Writing
  <1>1. ASSUME NEW l \in Log, Upload(l) PROVE P(s)'
    BY <1>1 DEF Upload
  <1>2. ASSUME NEW r \in Request, Validate(r) PROVE P(s)'
    BY <1>2 DEF Validate
  <1>3. ASSUME NEW r \in Request, MarkProcessing(r) \/ MarkProcessingFails(r) PROVE P(s)'
    BY <1>3 DEF MarkProcessing, MarkProcessingFails
  <1>4. ASSUME NEW r \in Request, ResolveOverride(r) PROVE P(s)'
    BY <1>4 DEF ResolveOverride
  <1>5. ASSUME NEW r \in Request, PipelineSucceeds(r) \/ PipelineFails(r) PROVE P(s)'
    BY <1>5 DEF PipelineSucceeds, PipelineFails
  <1>6. ASSUME NEW r \in Request, InsertEvents(r) PROVE P(s)'
    BY <1>6 DEF InsertEvents
  <1>7. ASSUME NEW r \in Request, UpsertIocs(r) PROVE P(s)'
    BY <1>7 DEF UpsertIocs
  <1>8. ASSUME NEW r \in Request, InsertIncidents(r) PROVE P(s)'
    BY <1>8 DEF InsertIncidents
  <1>9. ASSUME NEW r \in Request, MarkCompleted(r) \/ CommitAckLost(r) PROVE P(s)'
    BY <1>9 DEF MarkCompleted, CommitAckLost, CommitResult
  <1>10. ASSUME NEW r \in Request, PersistFails(r) PROVE P(s)'
    BY <1>10 DEF PersistFails
  <1>11. ASSUME NEW r \in Request, MarkFailed(r) \/ MarkFailedFails(r) PROVE P(s)'
    BY <1>11 DEF MarkFailed, MarkFailedFails
  <1>12. ASSUME Crash PROVE P(s)'
    BY <1>12 DEF Crash
  <1>13. CASE UNCHANGED vars
    BY <1>13 DEF vars
  <1>. QED
    BY <1>1, <1>2, <1>3, <1>4, <1>5, <1>6, <1>7, <1>8, <1>9, <1>10, <1>11, <1>12, <1>13
    DEF Next, Step

\* Only the upsert makes a call hold keys, and it does so when nobody else
\* holds one of them.
LEMMA HoldingShape ==
  ASSUME TypeOK, NEW r \in Request, Validate(r) \/ Step(r), Holding(r)'
  PROVE  \/ Holding(r) /\ tx'[r].occ = tx[r].occ /\ rows' = rows
         \/ /\ WaitsFor(r) = {}
            /\ rows' = rows
            /\ \A k \in Keys(r) : tx'[r].occ[k] = rows[LogOf(r)].occ[k] + 1
  <1> USE DEF TypeOK, Goto, table, Holding
  <1>1. CASE UpsertIocs(r)
    <2>1. Keys(r) \subseteq Key
      BY JobType
    <2>. QED  BY <1>1, <2>1 DEF UpsertIocs
  <1>2. CASE InsertIncidents(r)
    BY <1>2 DEF InsertIncidents
  <1>3. CASE ~UpsertIocs(r) /\ ~InsertIncidents(r)
    BY <1>3 DEF Step, Validate, MarkProcessing, MarkProcessingFails, ResolveOverride,
                PipelineSucceeds, PipelineFails, InsertEvents, MarkCompleted,
                CommitAckLost, PersistFails, MarkFailed, MarkFailedFails
  <1>. QED  BY <1>1, <1>2, <1>3

\* Holding a key is exclusive: the upsert waits for the holders of its keys.
LEMMA KeysExclusiveStep == TypeOK /\ KeysExclusive /\ [Next]_vars => KeysExclusive'
  <1> SUFFICES ASSUME TypeOK, KeysExclusive, [Next]_vars,
                      NEW r \in Request, NEW s \in Request, r # s,
                      Holding(r)', Holding(s)', LogOf(r) = LogOf(s)
               PROVE  Keys(r) \cap Keys(s) = {}
    BY JobConstant, JobFixed DEF KeysExclusive
  <1>1. CASE UNCHANGED pc
    BY <1>1 DEF KeysExclusive, Holding
  <1>2. CASE Crash
    BY <1>2 DEF Crash, Holding, Active, Writing
  <1>3. ASSUME NEW q \in Request, Validate(q) \/ Step(q)
        PROVE  Keys(r) \cap Keys(s) = {}
    <2>1. \A p \in Request \ {q} : Holding(p)' = Holding(p)
      BY <1>3, StepShape DEF Holding
    <2>2. Holding(q)' => Holding(q) \/ WaitsFor(q) = {}
      BY <1>3, HoldingShape
    <2>. QED  BY <2>1, <2>2 DEF KeysExclusive, WaitsFor
  <1>. QED  BY <1>1, <1>2, <1>3 DEF Next, vars, Upload

\* A commit changes the counts of its own keys only.
LEMMA CommitFrame ==
  ASSUME TypeOK, NEW r \in Request, CommitResult(r), NEW l \in Log, NEW k \in Key,
         l # LogOf(r) \/ k \notin Keys(r)
  PROVE  rows'[l].occ[k] = rows[l].occ[k]
  <1>1. LogOf(r) \in Log
    BY JobType
  <1>. QED  BY <1>1 DEF CommitResult, TypeOK

\* A commit of another call changes none of the keys a call holds.
LEMMA StagedCountsStep == IInv /\ [Next]_vars => StagedCountsCurrent'
  <1> SUFFICES ASSUME IInv, [Next]_vars, NEW r \in Request, Holding(r)', NEW k \in Keys(r)
               PROVE  tx'[r].occ[k] = rows'[LogOf(r)].occ[k] + 1
    BY JobConstant, JobFixed DEF StagedCountsCurrent
  <1> USE DEF IInv
  <1>0. LogOf(r) \in Log /\ k \in Key
    BY JobType
  <1>1. CASE UNCHANGED <<pc, tx, rows>>
    BY <1>1 DEF StagedCountsCurrent, Holding
  <1>2. CASE Crash
    BY <1>2 DEF Crash, Holding, Active, Writing
  <1>3. ASSUME NEW q \in Request, Validate(q) \/ Step(q)
        PROVE  tx'[r].occ[k] = rows'[LogOf(r)].occ[k] + 1
    <2>1. CASE q = r
      BY <1>3, <2>1, HoldingShape DEF StagedCountsCurrent
    <2>2. CASE q # r
      <3>1. Holding(r) /\ tx'[r] = tx[r]
        BY <1>3, <2>2, StepShape DEF Holding
      <3>2. tx[r].occ[k] = rows[LogOf(r)].occ[k] + 1
        BY <3>1 DEF StagedCountsCurrent
      <3>3. CASE rows' = rows
        BY <3>1, <3>2, <3>3
      <3>4. CASE pc[q] = "complete" /\ CommitResult(q)
        <4>1. LogOf(r) # LogOf(q) \/ k \notin Keys(q)
          BY <2>2, <3>1, <3>4 DEF KeysExclusive, Holding
        <4>2. rows'[LogOf(r)].occ[k] = rows[LogOf(r)].occ[k]
          BY <1>0, <3>4, <4>1, CommitFrame
        <4>. QED  BY <3>1, <3>2, <4>2
      <3>. QED  BY <1>3, <3>3, <3>4, StepShape
    <2>. QED  BY <2>1, <2>2
  <1>. QED  BY <1>1, <1>2, <1>3 DEF Next, vars, Upload

\* The strengthened invariant is inductive.
LEMMA IInvInductive == Spec => []IInv
  <1>1. Init => IInv
    BY DEF Init, IInv, TypeOK, Staged, KeysExclusive, StagedCountsCurrent, Holding,
           NoRows, NoStats, Active, Writing
  <1>2. IInv /\ [Next]_vars => IInv'
    BY TypeOKStep, StagedStep, KeysExclusiveStep, StagedCountsStep DEF IInv
  <1>. QED  BY <1>1, <1>2, PTL DEF Spec

\* No lost update of occurrence_count, however the calls interleave.
THEOREM CountsNotLost == Spec => []StagedCountsCurrent
  BY IInvInductive, PTL DEF IInv

-----------------------------------------------------------------------------
(* Whole results only: LogProcessing implements LogLifecycle *)

\* What the readers of the result tables see of one result.
ContributionOf(res) ==
  [events |-> res.events, keys |-> KeysOf(res), incidents |-> res.incidents]

\* A commit adds the call's whole result, computed from the rows as they are.
LEMMA CommitAddsResult ==
  ASSUME IInv, NEW r \in Request, pc[r] = "complete", CommitResult(r)
  PROVE  LET l == LogOf(r) IN
         /\ rows' = [rows EXCEPT ![l] = Lifecycle!Plus(rows[l], ContributionOf(ResultOf(r)))]
         /\ ContributionOf(ResultOf(r)) \in Contribution[l]
         /\ counters' = [counters EXCEPT ![l] = Stats(ResultOf(r))]
  <1> DEFINE l == LogOf(r)
  <1>1. l \in Log /\ job[r].force \in Override
    BY JobType DEF IInv
  <1>2. /\ tx[r].events = ResultOf(r).events
        /\ tx[r].incidents = ResultOf(r).incidents
        /\ job[r].force \notin InvalidOverride
    BY DEF IInv, Staged, Writing
  <1>3. \A k \in Keys(r) : tx[r].occ[k] = rows[l].occ[k] + 1
    BY DEF IInv, StagedCountsCurrent, Holding
  <1>4. [k \in Key |-> IF k \in Keys(r) THEN tx[r].occ[k] ELSE rows[l].occ[k]]
          = [k \in Key |-> IF k \in Keys(r) THEN rows[l].occ[k] + 1 ELSE rows[l].occ[k]]
    BY <1>3
  <1>5. rows' = [rows EXCEPT ![l] = Lifecycle!Plus(rows[l], ContributionOf(ResultOf(r)))]
    BY <1>2, <1>4 DEF CommitResult, Lifecycle!Plus, ContributionOf, Keys
  <1>6. ContributionOf(ResultOf(r)) \in Contribution[l]
    BY <1>1, <1>2 DEF Contribution, ContributionOf, ResultOf
  <1>7. counters' = [counters EXCEPT ![l] = Stats(ResultOf(r))]
    BY DEF CommitResult
  <1>. QED  BY <1>5, <1>6, <1>7

\* Every step of a call is a step of the abstract log or leaves it alone.
LEMMA StepRefines ==
  ASSUME IInv, NEW r \in Request, Validate(r) \/ Step(r)
  PROVE  Lifecycle!AbsNext \/ UNCHANGED <<status, rows>>
  <1> DEFINE l == LogOf(r)
  <1>1. l \in Log
    BY JobType DEF IInv
  <1>2. pc[r] \in Active => status[l] # "absent"
    BY DEF IInv, Staged
  <1>3. CASE MarkProcessing(r) \/ MarkProcessingFails(r)
    <2>1. UNCHANGED status \/ status' = [status EXCEPT ![l] = "processing"]
      BY <1>3 DEF MarkProcessing, MarkProcessingFails
    <2>2. UNCHANGED rows /\ status[l] # "absent"
      BY <1>2, <1>3 DEF MarkProcessing, MarkProcessingFails, Active
    <2>. QED  BY <1>1, <2>1, <2>2 DEF Lifecycle!AbsNext, Lifecycle!Start
  <1>4. CASE MarkFailed(r)
    <2>1. /\ status' = [status EXCEPT ![l] = "failed"]
          /\ UNCHANGED rows
          /\ status[l] # "absent"
      BY <1>2, <1>4 DEF MarkFailed, Active
    <2>. QED  BY <1>1, <2>1 DEF Lifecycle!AbsNext, Lifecycle!Fail
  <1>5. CASE MarkCompleted(r) \/ CommitAckLost(r)
    <2>1. pc[r] = "complete" /\ CommitResult(r)
      BY <1>5 DEF MarkCompleted, CommitAckLost
    <2>2. \E c \in Contribution[l] : rows' = [rows EXCEPT ![l] = Lifecycle!Plus(rows[l], c)]
      BY <2>1, CommitAddsResult
    <2>3. status' = [status EXCEPT ![l] = "completed"] /\ status[l] # "absent"
      BY <1>2, <2>1 DEF CommitResult, Active, Writing
    <2>. QED  BY <1>1, <2>2, <2>3 DEF Lifecycle!AbsNext, Lifecycle!Publish
  <1>6. CASE ~(MarkProcessing(r) \/ MarkProcessingFails(r) \/ MarkFailed(r)
               \/ MarkCompleted(r) \/ CommitAckLost(r))
    BY <1>6 DEF Step, Validate, ResolveOverride, PipelineSucceeds, PipelineFails, table,
                InsertEvents, UpsertIocs, InsertIncidents, PersistFails, MarkFailedFails
  <1>. QED  BY <1>3, <1>4, <1>5, <1>6

\* Whatever interleaves and whatever fails, the result tables change only by one
\* whole pipeline result, in the step that completes its log.
THEOREM Refinement == Spec => ImplementsLifecycle
  <1>1. Init => Lifecycle!AbsInit
    BY DEF Init, Lifecycle!AbsInit, NoRows, Lifecycle!NoRows
  <1>2. IInv /\ [Next]_vars => [Lifecycle!AbsNext]_(Lifecycle!absVars)
    <2> SUFFICES ASSUME IInv, [Next]_vars
                 PROVE  Lifecycle!AbsNext \/ UNCHANGED <<status, rows>>
      BY DEF Lifecycle!absVars
    <2>1. ASSUME NEW l \in Log, Upload(l) PROVE Lifecycle!AbsNext
      BY <2>1 DEF Upload, Lifecycle!AbsNext, Lifecycle!Submit
    <2>2. ASSUME NEW r \in Request, Validate(r) \/ Step(r)
          PROVE  Lifecycle!AbsNext \/ UNCHANGED <<status, rows>>
      BY <2>2, StepRefines
    <2>3. CASE Crash \/ UNCHANGED vars
      BY <2>3 DEF Crash, vars, table
    <2>. QED  BY <2>1, <2>2, <2>3 DEF Next
  <1>. QED
    BY <1>1, <1>2, IInvInductive, PTL DEF Spec, ImplementsLifecycle, Lifecycle!AbsSpec

-----------------------------------------------------------------------------
(* What is committed stays committed *)

\* Rows, counters and the status "completed" come from commits alone.
LEMMA OnlyCommitsPublish ==
  ASSUME TypeOK, [Next]_vars
  PROVE  \/ /\ UNCHANGED <<rows, counters>>
            /\ \A l \in Log : status'[l] = "completed" => status[l] = "completed"
         \/ \E r \in Request :
              /\ pc[r] = "complete"
              /\ MarkCompleted(r) \/ CommitAckLost(r)
              /\ CommitResult(r)
  <1> USE DEF TypeOK, table
  <1>1. ASSUME NEW l \in Log, Upload(l)
        PROVE  /\ UNCHANGED <<rows, counters>>
               /\ \A m \in Log : status'[m] = "completed" => status[m] = "completed"
    BY <1>1 DEF Upload
  <1>2. ASSUME NEW r \in Request, Validate(r) \/ Step(r), ~(MarkCompleted(r) \/ CommitAckLost(r))
        PROVE  /\ UNCHANGED <<rows, counters>>
               /\ \A m \in Log : status'[m] = "completed" => status[m] = "completed"
    BY <1>2 DEF Step, Validate, MarkProcessing, MarkProcessingFails, ResolveOverride,
                PipelineSucceeds, PipelineFails, InsertEvents, UpsertIocs, InsertIncidents,
                PersistFails, MarkFailed, MarkFailedFails
  <1>3. ASSUME NEW r \in Request, MarkCompleted(r) \/ CommitAckLost(r)
        PROVE  pc[r] = "complete" /\ CommitResult(r)
    BY <1>3 DEF MarkCompleted, CommitAckLost
  <1>4. CASE Crash \/ UNCHANGED vars
    BY <1>4 DEF Crash, vars
  <1>. QED  BY <1>1, <1>2, <1>3, <1>4 DEF Next

\* A commit leaves its own result in the rows, and everything that was there.
LEMMA CommitContains ==
  ASSUME IInv, NEW r \in Request, pc[r] = "complete", CommitResult(r)
  PROVE  /\ Contains(LogOf(r), ResultOf(r))'
         /\ \A l \in Log, o \in Override :
              Contains(l, Outcome[l][o]) => Contains(l, Outcome[l][o])'
  <1> DEFINE l == LogOf(r)
             c == ContributionOf(ResultOf(r))
  <1>1. /\ l \in Log
        /\ ResultOf(r) \in PipelineResult
        /\ KeysOf(ResultOf(r)) \subseteq Key
    BY JobType DEF IInv, Keys
  <1>2. rows' = [rows EXCEPT ![l] = Lifecycle!Plus(rows[l], c)]
    BY CommitAddsResult
  <1>3. /\ rows'[l].events = rows[l].events + ResultOf(r).events
        /\ \A k \in Key : rows'[l].occ[k] =
              IF k \in KeysOf(ResultOf(r)) THEN rows[l].occ[k] + 1 ELSE rows[l].occ[k]
        /\ rows'[l].incidents = rows[l].incidents + ResultOf(r).incidents
    BY <1>1, <1>2 DEF IInv, TypeOK, Lifecycle!Plus, ContributionOf
  <1>4. /\ rows[l] \in [events : Nat, occ : [Key -> Nat], incidents : Nat]
        /\ ResultOf(r).events \in Nat /\ ResultOf(r).incidents \in Nat
    BY <1>1 DEF IInv, TypeOK, PipelineResult
  <1>5. Contains(l, ResultOf(r))'
    <2>1. job' = job
      BY DEF CommitResult
    <2>2. Contains(l, ResultOf(r))' <=>
            /\ rows'[l].events >= ResultOf(r).events
            /\ \A k \in KeysOf(ResultOf(r)) : rows'[l].occ[k] >= 1
            /\ rows'[l].incidents >= ResultOf(r).incidents
      BY <2>1, JobFixed DEF Contains, KeysOf
    <2>3. \A k \in KeysOf(ResultOf(r)) : rows'[l].occ[k] >= 1
      BY <1>1, <1>3, <1>4
    <2>. QED  BY <1>3, <1>4, <2>2, <2>3
  <1>6. ASSUME NEW m \in Log, NEW o \in Override, Contains(m, Outcome[m][o])
        PROVE  Contains(m, Outcome[m][o])'
    <2>0. Outcome[m][o] \in PipelineResult /\ KeysOf(Outcome[m][o]) \subseteq Key
      BY ConstantsAssumption DEF KeysOf, PipelineResult
    <2>1. CASE m # l
      <3>1. rows'[m] = rows[m]
        BY <1>2, <2>1 DEF IInv, TypeOK
      <3>. QED  BY <1>6, <3>1 DEF Contains, KeysOf
    <2>2. CASE m = l
      BY <1>3, <1>4, <1>6, <2>0, <2>2 DEF Contains, KeysOf, PipelineResult
    <2>. QED  BY <2>1, <2>2
  <1>. QED  BY <1>5, <1>6

\* A commit sets counters and rows together; nothing else touches either.
LEMMA CountersStep ==
  IInv /\ CountersDescribeRows /\ [Next]_vars => CountersDescribeRows'
  <1> SUFFICES ASSUME IInv, CountersDescribeRows, [Next]_vars, NEW l \in Log
               PROVE  \/ /\ status'[l] # "completed"
                         /\ counters'[l] = NoStats
                         /\ rows'[l] = NoRows
                      \/ \E o \in Override \ InvalidOverride :
                           /\ counters'[l] = Stats(Outcome[l][o])
                           /\ Contains(l, Outcome[l][o])'
    BY DEF CountersDescribeRows, Stats
  <1>1. CASE /\ UNCHANGED <<rows, counters>>
             /\ \A m \in Log : status'[m] = "completed" => status[m] = "completed"
    BY <1>1 DEF CountersDescribeRows, Contains, KeysOf
  <1>2. ASSUME NEW r \in Request, pc[r] = "complete", CommitResult(r)
        PROVE  \/ /\ status'[l] # "completed"
                  /\ counters'[l] = NoStats
                  /\ rows'[l] = NoRows
               \/ \E o \in Override \ InvalidOverride :
                    /\ counters'[l] = Stats(Outcome[l][o])
                    /\ Contains(l, Outcome[l][o])'
    <2>1. LogOf(r) \in Log /\ job[r].force \in Override \ InvalidOverride
      BY <1>2, JobType DEF IInv, Staged, Writing
    <2>2. CASE l = LogOf(r)
      <3>1. PICK o \in Override \ InvalidOverride : o = job[r].force
        BY <2>1
      <3>2. ResultOf(r) = Outcome[l][o]
        BY <2>2, <3>1 DEF ResultOf
      <3>3. counters'[l] = Stats(Outcome[l][o])
        BY <1>2, <2>2, <3>2 DEF CommitResult, IInv, TypeOK
      <3>4. Contains(l, ResultOf(r))' /\ ResultOf(r)' = ResultOf(r)
        BY <1>2, <2>2, CommitContains, JobFixed DEF CommitResult, LogOf
      <3>5. Contains(l, Outcome[l][o])'
        BY <3>2, <3>4 DEF Contains, KeysOf
      <3>. QED  BY <3>3, <3>5
    <2>3. CASE l # LogOf(r)
      <3>1. /\ rows'[l] = rows[l]
            /\ counters'[l] = counters[l]
            /\ status'[l] = status[l]
        BY <1>2, <2>1, <2>3 DEF CommitResult, IInv, TypeOK
      <3>. QED  BY <3>1 DEF CountersDescribeRows, Contains, KeysOf
    <2>. QED  BY <2>2, <2>3
  <1>. QED  BY <1>1, <1>2, OnlyCommitsPublish DEF IInv

\* The counters of a log are those of one result whose rows are all there.
THEOREM CountersTruthful == Spec => []CountersDescribeRows
  <1>1. Init => CountersDescribeRows
    BY DEF Init, CountersDescribeRows
  <1>. QED  BY <1>1, IInvInductive, CountersStep, PTL DEF Spec

\* A call becomes successful by its own commit, and commits only add.
LEMMA SuccessStep ==
  IInv /\ SuccessIsDurable /\ [Next]_vars => SuccessIsDurable'
  <1> SUFFICES ASSUME IInv, SuccessIsDurable, [Next]_vars,
                      NEW r \in Request, pc'[r] = "ok"
               PROVE  Contains(LogOf(r), ResultOf(r))'
    BY DEF SuccessIsDurable
  <1>1. /\ LogOf(r) \in Log /\ job[r].force \in Override
        /\ job' = job /\ LogOf(r)' = LogOf(r) /\ ResultOf(r)' = ResultOf(r)
    BY JobType, JobConstant, JobFixed DEF IInv
  <1>2. CASE MarkCompleted(r)
    <2>1. pc[r] = "complete" /\ CommitResult(r)
      BY <1>2 DEF MarkCompleted
    <2>. QED  BY <1>1, <2>1, CommitContains
  <1>3. CASE ~MarkCompleted(r)
    <2>1. pc[r] = "ok"
      BY <1>3 DEF Next, vars, Step, Upload, Validate, MarkProcessing, MarkProcessingFails,
         ResolveOverride, PipelineSucceeds, PipelineFails, InsertEvents, UpsertIocs,
         InsertIncidents, MarkCompleted, CommitAckLost, PersistFails,
         MarkFailed, MarkFailedFails, Crash, Goto, IInv, TypeOK
    <2>2. Contains(LogOf(r), ResultOf(r))
      BY <2>1 DEF SuccessIsDurable
    <2>3. CASE UNCHANGED rows
      BY <1>1, <2>2, <2>3 DEF Contains, KeysOf
    <2>4. CASE \E q \in Request : pc[q] = "complete" /\ CommitResult(q)
      <3>1. PICK l \in Log, o \in Override : l = LogOf(r) /\ o = job[r].force
        BY <1>1
      <3>2. ResultOf(r) = Outcome[l][o]
        BY <3>1 DEF ResultOf
      <3>3. Contains(l, Outcome[l][o])'
        BY <2>2, <2>4, <3>1, <3>2, CommitContains
      <3>. QED  BY <1>1, <3>1, <3>2, <3>3 DEF Contains, KeysOf
    <2>. QED  BY <2>3, <2>4, OnlyCommitsPublish DEF IInv
  <1>. QED  BY <1>2, <1>3

\* What a successful call has written is there for good.
THEOREM SuccessDurable == Spec => []SuccessIsDurable
  <1>1. Init => SuccessIsDurable
    BY DEF Init, SuccessIsDurable
  <1>. QED  BY <1>1, IInvInductive, SuccessStep, PTL DEF Spec

-----------------------------------------------------------------------------
(* No log is left in PROCESSING *)

\* The three failures after which nobody owns a PROCESSING log: run MCLogOrphan.
NothingOrphans == Faults \cap {"mark", "ack_start", "crash"} = {}

\* A call takes its log out of PROCESSING in the step in which it ends, and no
\* other step ends a call that works on a log.
LEMMA OrphanStep ==
  ASSUME NothingOrphans
  PROVE  TypeOK /\ NoOrphanedProcessing /\ [Next]_vars => NoOrphanedProcessing'
  <1> DEFINE Works(r, l) == LogOf(r) = l /\ pc[r] \in Active \ {"validated"}
  <1> SUFFICES ASSUME TypeOK, NoOrphanedProcessing, [Next]_vars,
                      NEW l \in Log, status'[l] = "processing"
               PROVE  \E r \in Request : Works(r, l)'
    BY DEF NoOrphanedProcessing
  <1>0. status[l] = "processing" => \E r \in Request : Works(r, l)
    BY DEF NoOrphanedProcessing
  <1>1. \A r \in Request : LogOf(r)' = LogOf(r) /\ LogOf(r) \in Log
    BY JobConstant, JobFixed, JobType
  <1> USE DEF Active, Writing
  <1>2. CASE UNCHANGED <<status, pc>>
    BY <1>0, <1>1, <1>2
  <1>3. ASSUME NEW m \in Log, Upload(m) PROVE \E r \in Request : Works(r, l)'
    BY <1>0, <1>1, <1>3 DEF Upload, TypeOK
  <1>4. ASSUME NEW r \in Request, Validate(r) \/ Step(r)
        PROVE  \E s \in Request : Works(s, l)'
    <2>1. \A s \in Request \ {r} : pc'[s] = pc[s]
      BY <1>4, StepShape
    <2>2. CASE MarkProcessing(r)
      <3>1. pc'[r] = "marked"
        BY <2>2 DEF MarkProcessing, Goto, TypeOK
      <3>2. CASE LogOf(r) = l
        BY <1>1, <3>1, <3>2
      <3>3. CASE LogOf(r) # l
        <4>1. status[l] = "processing"
          BY <2>2, <3>3 DEF MarkProcessing, TypeOK
        <4>2. PICK s \in Request : Works(s, l)
          BY <1>0, <4>1
        <4>. QED  BY <1>1, <2>1, <3>3, <4>2
      <3>. QED  BY <3>2, <3>3
    <2>3. CASE ~MarkProcessing(r)
      <3>1. ~MarkProcessingFails(r) /\ ~MarkFailedFails(r)
        BY DEF NothingOrphans, MarkProcessingFails, MarkFailedFails
      <3>2. /\ status[l] = "processing"
            /\ pc[r] \in Active \ {"validated"}
                 => pc'[r] \in Active \ {"validated"} \/ LogOf(r) # l
        <4>1. CASE Validate(r) \/ ResolveOverride(r) \/ PipelineSucceeds(r) \/ PipelineFails(r)
          BY <1>4, <4>1 DEF Validate, ResolveOverride, PipelineSucceeds, PipelineFails,
             table, Goto, TypeOK
        <4>2. CASE InsertEvents(r) \/ UpsertIocs(r) \/ InsertIncidents(r) \/ PersistFails(r)
          BY <4>2 DEF InsertEvents, UpsertIocs, InsertIncidents, PersistFails,
             table, Goto, TypeOK
        <4>3. CASE MarkCompleted(r) \/ CommitAckLost(r) \/ MarkFailed(r)
          BY <1>1, <4>3 DEF MarkCompleted, CommitAckLost, CommitResult, MarkFailed, TypeOK
        <4>. QED  BY <1>4, <2>3, <3>1, <4>1, <4>2, <4>3 DEF Step
      <3>3. PICK s \in Request : Works(s, l)
        BY <1>0, <3>2
      <3>4. pc'[s] \in Active \ {"validated"}
        BY <2>1, <3>2, <3>3
      <3>. QED  BY <1>1, <3>3, <3>4
    <2>. QED  BY <2>2, <2>3
  <1>5. ~Crash
    BY DEF NothingOrphans, Crash
  <1>. QED  BY <1>2, <1>3, <1>4, <1>5 DEF Next, vars

\* Without these failures a log in PROCESSING has a call at work on it, which
\* will take it out again.
THEOREM ProcessingIsOwned == ASSUME NothingOrphans PROVE Spec => []NoOrphanedProcessing
  <1>1. Init => NoOrphanedProcessing
    BY DEF Init, NoOrphanedProcessing
  <1>2. TypeOK /\ NoOrphanedProcessing /\ [Next]_vars => NoOrphanedProcessing'
    BY OrphanStep
  <1>. QED  BY <1>1, <1>2, TypeCorrect, PTL DEF Spec

-----------------------------------------------------------------------------
(* Serial calls: when the calls on a log do not overlap and no answer of a   *)
(* commit is lost, the documented guarantees hold in full.  Both conditions  *)
(* are needed (runs MCLogRace and MCLogParallel).                            *)

\* No two calls work on one log.
OneCallPerLog ==
  \A r, s \in Request :
    r # s /\ pc[r] \in Active /\ pc[s] \in Active => LogOf(r) # LogOf(s)

\* The status a call has read, and then the one it has set, is still the log's.
StatusOwned ==
  \A r \in Request :
    /\ pc[r] = "validated" => status[LogOf(r)] \in {"pending", "failed"}
    /\ pc[r] \in Active \ {"validated"} => status[LogOf(r)] = "processing"

\* A call that went past the upsert had a storable result.
UpsertStorable == \A r \in Request : Holding(r) => Storable(ResultOf(r))

\* A log has the rows and the counters of one result, or nothing at all.
OneResult(l) ==
  IF status[l] = "completed"
    THEN \E o \in Override \ InvalidOverride :
           /\ Storable(Outcome[l][o])
           /\ counters[l] = Stats(Outcome[l][o])
           /\ rows[l] = Lifecycle!Plus(NoRows, ContributionOf(Outcome[l][o]))
    ELSE rows[l] = NoRows /\ counters[l] = NoStats

OneResultEach == \A l \in Log : OneResult(l)

SInv == OneCallPerLog /\ StatusOwned /\ UpsertStorable /\ OneResultEach

Serial == SerialClients /\ "ack_commit" \notin Faults

-----------------------------------------------------------------------------
\* A call that passes the status check is the only one at work on its log.
LEMMA OneCallStep ==
  ASSUME Serial
  PROVE  IInv /\ OneCallPerLog /\ [Next]_vars => OneCallPerLog'
  <1> SUFFICES ASSUME IInv, OneCallPerLog, [Next]_vars,
                      NEW r \in Request, NEW s \in Request, r # s,
                      pc'[r] \in Active, pc'[s] \in Active
               PROVE  LogOf(r) # LogOf(s)
    BY JobConstant, JobFixed DEF OneCallPerLog
  <1>1. CASE UNCHANGED pc
    BY <1>1 DEF OneCallPerLog
  <1>2. CASE Crash
    BY <1>2 DEF Crash, Active, Writing
  <1>3. ASSUME NEW q \in Request, Validate(q) \/ Step(q)
        PROVE  LogOf(r) # LogOf(s)
    <2>1. \A p \in Request \ {q} : pc'[p] = pc[p]
      BY <1>3, StepShape DEF IInv
    <2>2. CASE Validate(q)
      <3>1. \A p \in Request : pc[p] \in Active => LogOf(p) # LogOf(q)
        BY <2>2 DEF Validate, MayCall, Serial
      <3>. QED  BY <2>1, <3>1 DEF OneCallPerLog
    <2>3. CASE Step(q)
      <3>1. pc[q] \in Active
        BY <2>3 DEF Step, MarkProcessing, MarkProcessingFails, ResolveOverride,
           PipelineSucceeds, PipelineFails, InsertEvents, UpsertIocs, InsertIncidents,
           MarkCompleted, CommitAckLost, PersistFails, MarkFailed, MarkFailedFails,
           Active, Writing
      <3>. QED  BY <2>1, <3>1 DEF OneCallPerLog
    <2>. QED  BY <1>3, <2>2, <2>3
  <1>. QED  BY <1>1, <1>2, <1>3 DEF Next, vars, Upload

\* Only the upsert takes a call past the upsert, and it stores only what is storable.
LEMMA StorableStep == IInv /\ UpsertStorable /\ [Next]_vars => UpsertStorable'
  <1> SUFFICES ASSUME IInv, UpsertStorable, [Next]_vars, NEW r \in Request, Holding(r)'
               PROVE  Storable(ResultOf(r))
    BY JobConstant, JobFixed DEF UpsertStorable, Storable
  <1>1. CASE Holding(r)
    BY <1>1 DEF UpsertStorable
  <1>2. CASE ~Holding(r)
    <2>1. CASE UpsertIocs(r)
      BY <2>1 DEF UpsertIocs
    <2>2. CASE ~UpsertIocs(r)
      BY <1>2, <2>2 DEF Next, vars, Step, Upload, Validate, MarkProcessing,
         MarkProcessingFails, ResolveOverride, PipelineSucceeds, PipelineFails, InsertEvents,
         UpsertIocs, InsertIncidents, MarkCompleted, CommitAckLost, PersistFails,
         MarkFailed, MarkFailedFails, Crash, Goto, Holding, IInv, TypeOK
    <2>. QED  BY <2>1, <2>2
  <1>. QED  BY <1>1, <1>2

\* The status of a log follows the one call that works on it.
LEMMA StatusStep ==
  ASSUME Serial
  PROVE  IInv /\ OneCallPerLog /\ StatusOwned /\ [Next]_vars => StatusOwned'
  <1> DEFINE P(s) ==
        /\ pc[s] = "validated" => status[LogOf(s)] \in {"pending", "failed"}
        /\ pc[s] \in Active \ {"validated"} => status[LogOf(s)] = "processing"
  <1> SUFFICES ASSUME IInv, OneCallPerLog, StatusOwned, [Next]_vars, NEW s \in Request
               PROVE  P(s)'
    BY DEF StatusOwned
  <1>0. P(s) /\ LogOf(s) \in Log /\ LogOf(s)' = LogOf(s)
    BY JobType, JobConstant, JobFixed DEF StatusOwned, IInv
  <1> USE <1>0 DEF IInv, TypeOK, Goto, table, Active, Writing
  <1>1. ASSUME NEW l \in Log, Upload(l) PROVE P(s)'
    BY <1>1 DEF Upload
  <1>2. ASSUME NEW r \in Request, Validate(r) PROVE P(s)'
    BY <1>2 DEF Validate
  <1>3. ASSUME NEW r \in Request, Step(r), r = s PROVE P(s)'
    <2>1. ~CommitAckLost(r)
      BY DEF Serial, CommitAckLost
    <2>2. CASE MarkProcessing(r) \/ MarkProcessingFails(r) \/ ResolveOverride(r)
      BY <1>3, <2>2 DEF MarkProcessing, MarkProcessingFails, ResolveOverride
    <2>3. CASE PipelineSucceeds(r) \/ PipelineFails(r) \/ PersistFails(r)
      BY <1>3, <2>3 DEF PipelineSucceeds, PipelineFails, PersistFails
    <2>4. CASE InsertEvents(r) \/ UpsertIocs(r) \/ InsertIncidents(r)
      BY <1>3, <2>4 DEF InsertEvents, UpsertIocs, InsertIncidents
    <2>5. CASE MarkCompleted(r) \/ MarkFailed(r) \/ MarkFailedFails(r)
      BY <1>3, <2>5 DEF MarkCompleted, CommitResult, MarkFailed, MarkFailedFails
    <2>. QED  BY <1>3, <2>1, <2>2, <2>3, <2>4, <2>5 DEF Step
  <1>4. ASSUME NEW r \in Request, Step(r), r # s PROVE P(s)'
    <2>1. pc'[s] = pc[s]
      BY <1>4, StepShape
    <2>2. pc[r] \in Active
      BY <1>4 DEF Step, MarkProcessing, MarkProcessingFails, ResolveOverride,
         PipelineSucceeds, PipelineFails, InsertEvents, UpsertIocs, InsertIncidents,
         MarkCompleted, CommitAckLost, PersistFails, MarkFailed, MarkFailedFails
    <2>3. pc[s] \in Active => LogOf(s) # LogOf(r)
      BY <1>4, <2>2 DEF OneCallPerLog
    <2>4. \A l \in Log : l # LogOf(r) => status'[l] = status[l]
      BY <1>4 DEF Step, MarkProcessing, MarkProcessingFails, ResolveOverride,
         PipelineSucceeds, PipelineFails, InsertEvents, UpsertIocs, InsertIncidents,
         MarkCompleted, CommitAckLost, CommitResult, PersistFails, MarkFailed, MarkFailedFails
    <2>. QED  BY <2>1, <2>3, <2>4
  <1>5. CASE Crash \/ UNCHANGED vars
    BY <1>5 DEF Crash, vars
  <1>. QED  BY <1>1, <1>2, <1>3, <1>4, <1>5 DEF Next

\* Publishing finds a log without rows and leaves it with those of one result; a
\* completed log is left alone.
LEMMA OneResultStep ==
  ASSUME Serial
  PROVE  IInv /\ SInv /\ [Next]_vars => OneResultEach'
  <1> SUFFICES ASSUME IInv, SInv, [Next]_vars, NEW l \in Log
               PROVE  OneResult(l)'
    BY DEF OneResultEach
  <1> USE DEF IInv, SInv
  <1>0. OneResult(l)
    BY DEF OneResultEach
  <1>1. CASE UNCHANGED <<rows, counters>> /\ (status'[l] = "completed" <=> status[l] = "completed")
    BY <1>0, <1>1 DEF OneResult, Storable, Stats, NoRows, NoStats, ContributionOf, Lifecycle!Plus
  <1>2. ASSUME NEW r \in Request, pc[r] = "complete", CommitResult(r)
        PROVE  OneResult(l)'
    <2>1. LogOf(r) \in Log /\ job[r].force \in Override \ InvalidOverride
      BY <1>2, JobType DEF Staged, Writing
    <2>2. CASE l = LogOf(r)
      <3>1. PICK o \in Override \ InvalidOverride : o = job[r].force
        BY <2>1
      <3>2. ResultOf(r) = Outcome[l][o]
        BY <2>2, <3>1 DEF ResultOf
      <3>3. status[l] = "processing"
        BY <1>2, <2>2 DEF StatusOwned, Active, Writing
      <3>4. rows[l] = NoRows
        BY <1>0, <3>3 DEF OneResult
      <3>5. rows'[l] = Lifecycle!Plus(NoRows, ContributionOf(Outcome[l][o]))
        BY <1>2, <2>1, <2>2, <3>2, <3>4, CommitAddsResult DEF TypeOK
      <3>6. status'[l] = "completed" /\ counters'[l] = Stats(Outcome[l][o])
        BY <1>2, <2>1, <2>2, <3>2 DEF CommitResult, TypeOK
      <3>7. Storable(Outcome[l][o])
        BY <1>2, <3>2 DEF UpsertStorable, Holding
      <3>. QED
        BY <3>5, <3>6, <3>7 DEF OneResult, Storable, Stats, NoRows, ContributionOf, Lifecycle!Plus
    <2>3. CASE l # LogOf(r)
      <3>1. /\ rows'[l] = rows[l]
            /\ counters'[l] = counters[l]
            /\ status'[l] = status[l]
        BY <1>2, <2>1, <2>3 DEF CommitResult, TypeOK
      <3>. QED
        BY <1>0, <3>1
        DEF OneResult, Storable, Stats, NoRows, NoStats, ContributionOf, Lifecycle!Plus
    <2>. QED  BY <2>2, <2>3
  <1>3. CASE /\ UNCHANGED <<rows, counters>>
             /\ \A m \in Log : status'[m] = "completed" => status[m] = "completed"
             /\ status[l] = "completed"
             /\ status'[l] # "completed"
    <2>1. \A r \in Request : pc[r] \in Active => status[LogOf(r)] # "completed"
      BY DEF StatusOwned
    <2>. QED
      BY <1>3, <2>1 DEF Next, vars, table, Step, Upload, Validate, MarkProcessing,
         MarkProcessingFails, ResolveOverride, PipelineSucceeds, PipelineFails, InsertEvents,
         UpsertIocs, InsertIncidents, MarkCompleted, CommitAckLost, CommitResult, PersistFails,
         MarkFailed, MarkFailedFails, Crash, TypeOK, Active, Writing
  <1>. QED  BY <1>1, <1>2, <1>3, OnlyCommitsPublish

\* The strengthening for serial calls is inductive on top of IInv.
LEMMA SInvInductive == ASSUME Serial PROVE Spec => []SInv
  <1>1. Init => SInv
    BY DEF Init, SInv, OneCallPerLog, StatusOwned, UpsertStorable, Holding, OneResultEach,
           OneResult, Active, Writing
  <1>2. IInv /\ SInv /\ [Next]_vars => SInv'
    BY OneCallStep, StorableStep, StatusStep, OneResultStep DEF SInv
  <1>. QED  BY <1>1, <1>2, IInvInductive, PTL DEF Spec

-----------------------------------------------------------------------------
\* A storable result has as many keys as values.
LEMMA StorableCardinality ==
  ASSUME NEW res \in PipelineResult, IsFiniteSet(res.iocs), Storable(res)
  PROVE  Cardinality(KeysOf(res)) = Cardinality(res.iocs)
  <1> DEFINE f == [v \in res.iocs |-> Trunc[v]]
  <1>1. f \in [res.iocs -> KeysOf(res)]
    BY DEF KeysOf
  <1>2. f \in Injection(res.iocs, KeysOf(res))
    BY <1>1 DEF Injection, IsInjective, Storable
  <1>3. f \in Surjection(res.iocs, KeysOf(res))
    BY <1>1 DEF Surjection, KeysOf
  <1>4. ExistsBijection(res.iocs, KeysOf(res))
    BY <1>2, <1>3 DEF ExistsBijection, Bijection
  <1>. QED  BY <1>4, FS_Bijection

\* What one result leaves is what the counters say, for log l.
LEMMA OneResultCounts ==
  ASSUME NEW l \in Log, OneResult(l)
  PROVE  IF status[l] = "completed"
           THEN /\ rows[l].events = counters[l].events
                /\ \A k \in Key : rows[l].occ[k] <= 1
                /\ Cardinality({k \in Key : rows[l].occ[k] = 1}) = counters[l].iocs
           ELSE rows[l] = NoRows /\ counters[l] = NoStats
  <1>1. CASE status[l] # "completed"
    BY <1>1 DEF OneResult
  <1>2. CASE status[l] = "completed"
    <2>1. PICK o \in Override \ InvalidOverride :
            /\ Storable(Outcome[l][o])
            /\ counters[l] = Stats(Outcome[l][o])
            /\ rows[l] = Lifecycle!Plus(NoRows, ContributionOf(Outcome[l][o]))
      BY <1>2 DEF OneResult
    <2> DEFINE res == Outcome[l][o]
    <2>2. res \in PipelineResult /\ IsFiniteSet(res.iocs)
      BY ConstantsAssumption
    <2>3. KeysOf(res) \subseteq Key
      BY <2>2, ConstantsAssumption DEF KeysOf, PipelineResult
    <2>4. /\ rows[l].events = 0 + res.events
          /\ \A k \in Key : rows[l].occ[k] = IF k \in KeysOf(res) THEN 0 + 1 ELSE 0
      BY <2>1 DEF Lifecycle!Plus, NoRows, ContributionOf
    <2>5. {k \in Key : rows[l].occ[k] = 1} = KeysOf(res)
      BY <2>3, <2>4
    <2>6. counters[l].events = res.events /\ counters[l].iocs = Cardinality(res.iocs)
      BY <2>1 DEF Stats
    <2>7. Cardinality(KeysOf(res)) = Cardinality(res.iocs)
      BY <2>1, <2>2, StorableCardinality
    <2>8. rows[l].events = counters[l].events
      BY <2>2, <2>4, <2>6 DEF PipelineResult
    <2>. QED  BY <1>2, <2>4, <2>5, <2>6, <2>7, <2>8
  <1>. QED  BY <1>1, <1>2

\* Serial calls: completed logs have exactly the rows their counters announce,
\* all others have none.
THEOREM SerialRowsMatch == ASSUME Serial PROVE Spec => []RowsMatchCounters
  <1>1. SInv => RowsMatchCounters
    BY OneResultCounts DEF SInv, OneResultEach, RowsMatchCounters
  <1>. QED  BY <1>1, SInvInductive, PTL

\* Serial calls: nothing follows "completed".
THEOREM SerialCompletedFinal == ASSUME Serial PROVE Spec => CompletedIsFinal
  <1>1. IInv /\ SInv /\ [Next]_vars
          => [\A l \in Log : status[l] = "completed" => status'[l] = "completed"]_vars
    <2> SUFFICES ASSUME IInv, SInv, [Next]_vars, NEW l \in Log, status[l] = "completed"
                 PROVE  status'[l] = "completed"
      OBVIOUS
    <2>1. \A r \in Request : pc[r] \in Active => status[LogOf(r)] # "completed"
      BY DEF SInv, StatusOwned
    <2>. QED
      BY <2>1 DEF Next, vars, table, Step, Upload, Validate, MarkProcessing,
         MarkProcessingFails, ResolveOverride, PipelineSucceeds, PipelineFails, InsertEvents,
         UpsertIocs, InsertIncidents, MarkCompleted, CommitAckLost, CommitResult, PersistFails,
         MarkFailed, MarkFailedFails, Crash, IInv, TypeOK, Active, Writing
  <1>. QED  BY <1>1, IInvInductive, SInvInductive, PTL DEF Spec, CompletedIsFinal
=============================================================================
