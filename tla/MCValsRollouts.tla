--------------------------- MODULE MCValsRollouts ---------------------------
(* A small instance of ValsRollouts: one object, one Secret, two workloads. *)
EXTENDS ValsRollouts, TLC

CONSTANTS n1, s1, w1, w2

One == {n1}
OneSecret == {s1}
SingleTarget == n1 :> s1
Rollouts2 == n1 :> {w1, w2}
PlainDef == {[ref |-> "a", ttl |-> 0, labels |-> {}]}
CutShortFaults == {"lag", "crash", "api", "eval", "lost", "db", "rollout", "delete", "tamper"}
=============================================================================
