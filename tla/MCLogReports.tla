---------------------------- MODULE MCLogReports ----------------------------
(***************************************************************************)
(* The instance of MCLogProcessing with readers and analysts: clients ask  *)
(* for two of the five statuses and for one that does not exist.           *)
(***************************************************************************)
EXTENDS LogReports, TLC

CONSTANTS l1, l2, big, v1, v2, v3, k1, k2

MCValue == {v1, v2, v3}
MCKey == {k1, k2}
MCTrunc == (v1 :> k1) @@ (v2 :> k2) @@ (v3 :> k2)
MCOverride == {"none", "sysmon", "bogus"}
MCInvalid == {"bogus"}
MCStatuses == {"open", "closed", "resolved"}

Res(e, i, n) == [events |-> e, iocs |-> i, incidents |-> n]

MCOutcome ==
  [l \in Log |->
    [o \in MCOverride |->
      CASE l = l1 /\ o = "none"   -> Res(2, {v1, v2}, 1)
        [] l = l1 /\ o = "sysmon" -> Res(1, {v2}, 0)
        [] l = l2 /\ o = "none"   -> Res(1, {v2, v3}, 1)
        [] OTHER                  -> Res(0, {}, 0)]]

MCFile ==
  [l \in Log |-> [blank |-> FALSE, bytes |-> IF l = big THEN 2 ELSE 1, force |-> "none"]]

Symmetry == Permutations(Request)
=============================================================================
