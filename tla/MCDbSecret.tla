----------------------------- MODULE MCDbSecret -----------------------------
(* Small instances of DbSecret. *)
EXTENDS DbSecret, TLC

CONSTANTS n1, n2, s1, w1, l1, l2, l3, r1, r2, a, b, bad

One == {n1}
Two == {n1, n2}
OneSecret == {s1}
SingleTarget == n1 :> s1
SharedTarget == n1 :> s1 @@ n2 :> s1
NoRollouts1 == n1 :> {}
Rollouts1 == n1 :> {w1}
Rollouts12 == n1 :> {w1} @@ n2 :> {}
ThreeLeases == {l1, l2, l3}

Def(r, t, re) == [role |-> r, tmpl |-> t, renew |-> re]
RawDef == {Def(r1, {}, FALSE)}
PlainDefs == {Def(r1, {a}, FALSE), Def(r1, {}, FALSE), Def(r2, {}, FALSE)}
MixedDefs == {Def(r1, {a}, TRUE), Def(r2, {}, FALSE), Def(r1, {b, bad}, FALSE)}
TemplateGone == {Def(r1, {a}, TRUE), Def(r1, {}, TRUE)}

NoFaults == {}
SafetyFaults == {"lag", "crash", "api", "vault", "write", "lost", "rollout", "delete", "tamper",
                 "plant"}
RetriedFaults == {"lag", "api", "vault", "lookup", "revoke", "delete", "tamper"}
=============================================================================
