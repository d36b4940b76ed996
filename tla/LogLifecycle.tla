---------------------------- MODULE LogLifecycle ----------------------------
(***************************************************************************)
(* What parsing promises to the readers of the result tables, whatever the *)
(* interleaving of the parse requests and whatever fails: the rows of a    *)
(* log change only when one whole pipeline result is added to them, and in *)
(* the same step the log becomes "completed".  The status itself promises  *)
(* little: concurrent requests can start, publish and fail a log in any    *)
(* order.                                                                  *)
(***************************************************************************)
EXTENDS Naturals

CONSTANTS
  Log,           \* primary keys of security_logs
  Key,           \* (ioc_type, value) pairs of ioc_entities
  Contribution   \* what the pipeline can make of a log, by log

VARIABLES
  state,         \* status of a log, "absent" before the upload
  results        \* the rows a log has in the three result tables

absVars == <<state, results>>

\* The rows of a log: parsed_events, occurrence_count by IOC, incidents.
NoRows == [events |-> 0, occ |-> [k \in Key |-> 0], incidents |-> 0]

\* One whole pipeline result on top of the rows: every IOC of the result is
\* inserted with count 1 or has its count incremented.
Plus(r, c) ==
  [events    |-> r.events + c.events,
   occ       |-> [k \in Key |-> IF k \in c.keys THEN r.occ[k] + 1 ELSE r.occ[k]],
   incidents |-> r.incidents + c.incidents]

AbsInit ==
  /\ state = [l \in Log |-> "absent"]
  /\ results = [l \in Log |-> NoRows]

Submit(l) ==
  /\ state[l] = "absent"
  /\ state' = [state EXCEPT ![l] = "pending"]
  /\ UNCHANGED results

Start(l) ==
  /\ state[l] # "absent"
  /\ state' = [state EXCEPT ![l] = "processing"]
  /\ UNCHANGED results

Publish(l) ==
  /\ state[l] # "absent"
  /\ state' = [state EXCEPT ![l] = "completed"]
  /\ \E c \in Contribution[l] : results' = [results EXCEPT ![l] = Plus(results[l], c)]

Fail(l) ==
  /\ state[l] # "absent"
  /\ state' = [state EXCEPT ![l] = "failed"]
  /\ UNCHANGED results

AbsNext == \E l \in Log : Submit(l) \/ Start(l) \/ Publish(l) \/ Fail(l)

AbsSpec == AbsInit /\ [][AbsNext]_absVars
=============================================================================
