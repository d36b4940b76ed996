-------------------------- MODULE MCLogProcessing --------------------------
(***************************************************************************)
(* Small instances of LogProcessing.  The values are chosen so that two    *)
(* calls of one log collide on an IOC (l1 under both overrides), a result  *)
(* is not storable because two values share their first 2048 characters    *)
(* (l2, v2 and v3), and one upload is over the limit (big).                *)
(***************************************************************************)
EXTENDS LogProcessing, TLC

CONSTANTS l1, l2, big, v1, v2, v3, k1, k2

MCValue == {v1, v2, v3}
MCKey == {k1, k2}
MCTrunc == (v1 :> k1) @@ (v2 :> k2) @@ (v3 :> k2)
MCOverride == {"none", "sysmon", "bogus"}
MCInvalid == {"bogus"}

Res(e, i, n) == [events |-> e, iocs |-> i, incidents |-> n]

MCOutcome ==
  [l \in Log |->
    [o \in MCOverride |->
      CASE l = l1 /\ o = "none"   -> Res(2, {v1, v2}, 1)
        [] l = l1 /\ o = "sysmon" -> Res(1, {v2}, 0)
        [] l = l2 /\ o = "none"   -> Res(1, {v2, v3}, 1)
        [] OTHER                  -> Res(0, {}, 0)]]

MCFile ==
  [l \in Log |-> [blank |-> FALSE, bytes |-> IF l = big THEN 2 ELSE 1, force |-> "none"]]

Symmetry == Permutations(Request)
=============================================================================
