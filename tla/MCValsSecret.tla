---------------------------- MODULE MCValsSecret ----------------------------
(* Small instances of ValsSecret: one object per target, or two that share it. *)
EXTENDS ValsSecret, TLC

CONSTANTS n1, n2, s1, s2, w1, w2

One == {n1}
Two == {n1, n2}
OneSecret == {s1}
TwoSecrets == {s1, s2}
OwnTarget == n1 :> s1 @@ n2 :> s2
SingleTarget == n1 :> s1
SharedTarget == n1 :> s1 @@ n2 :> s1
NoRollouts1 == n1 :> {}
Rollouts1 == n1 :> {w1}
Rollouts12 == n1 :> {w1} @@ n2 :> {}

Def(r, t, l) == [ref |-> r, ttl |-> t, labels |-> l]
PlainDef == {Def("a", 0, {})}
TwoDefs == {Def("a", 0, {}), Def("b", 1, {})}
LabelDefs == {Def("a", 1, {}), Def("a", 1, {"team"})}

NoFaults == {}
SafetyFaults == {"lag", "crash", "api", "eval", "db", "write", "lost",
                 "delete", "tamper", "plant"}
RetriedFaults == {"lag", "crash", "api", "eval", "rollout", "delete", "tamper"}
WriteFault == {"write"}
=============================================================================
