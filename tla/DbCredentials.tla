---------------------------- MODULE DbCredentials ----------------------------
(***************************************************************************)
(* What the DbSecret controller promises about database credentials,       *)
(* without saying how: every lease it is granted is put into at most one   *)
(* Secret, once, and never comes back after it was replaced or withdrawn;  *)
(* only what a claimed DbSecret asked for is in a Secret; a lease is only  *)
(* extended while it lasts; and a DbSecret is released only when it holds  *)
(* nothing.                                                                *)
(***************************************************************************)
EXTENDS Naturals

CONSTANTS Names, Secrets, Target, Leases, Term, Nobody

VARIABLES
    claimed,    \* DbSecrets that cannot vanish without the controller
    holder,     \* the DbSecret a Secret belongs to
    lease,      \* the lease of the credentials in a Secret
    life,       \* ticks each lease has left
    granted     \* leases that were granted and are in no Secret yet

credentialVars == <<claimed, holder, lease, life, granted>>

Init ==
    /\ claimed = {} /\ granted = {}
    /\ holder = [t \in Secrets |-> Nobody] /\ lease = holder
    /\ life = [l \in Leases |-> 0]

Published(l) == \E t \in Secrets : lease[t] = l

Claim(n) ==
    claimed' = claimed \cup {n} /\ UNCHANGED <<holder, lease, life, granted>>

\* Whether the controller hears of it or not.
Grant(l) ==
    /\ life[l] = 0 /\ ~Published(l)
    /\ life' = [life EXCEPT ![l] = Term]
    /\ granted' \in {granted, granted \cup {l}}
    /\ UNCHANGED <<claimed, holder, lease>>

Publish(n, l) ==
    /\ n \in claimed /\ l \in granted
    /\ lease' = [lease EXCEPT ![Target[n]] = l]
    /\ holder' = [holder EXCEPT ![Target[n]] = n]
    /\ granted' = granted \ {l}
    /\ UNCHANGED <<claimed, life>>

\* Granted credentials that nobody will ever see.
Lose(l) ==
    granted' = granted \ {l} /\ UNCHANGED <<claimed, holder, lease, life>>

Extend(l) ==
    /\ life[l] > 0
    /\ \E ticks \in life[l] .. Term : life' = [life EXCEPT ![l] = ticks]
    /\ UNCHANGED <<claimed, holder, lease, granted>>

Elapse ==
    /\ life' = [l \in Leases |-> IF life[l] > 0 THEN life[l] - 1 ELSE 0]
    /\ UNCHANGED <<claimed, holder, lease, granted>>

\* Vault takes a lease back.
Revoke(l) ==
    life' = [life EXCEPT ![l] = 0] /\ UNCHANGED <<claimed, holder, lease, granted>>

\* The Secret goes, by whoever's hand.
Withdraw(t) ==
    /\ holder' = [holder EXCEPT ![t] = Nobody]
    /\ lease' = [lease EXCEPT ![t] = Nobody]
    /\ UNCHANGED <<claimed, life, granted>>

Release(n) ==
    /\ n \in claimed /\ \A t \in Secrets : holder[t] # n
    /\ claimed' = claimed \ {n}
    /\ UNCHANGED <<holder, lease, life, granted>>

Next ==
    \/ \E n \in Names : Claim(n) \/ Release(n) \/ \E l \in Leases : Publish(n, l)
    \/ \E l \in Leases : Grant(l) \/ Lose(l) \/ Extend(l) \/ Revoke(l)
    \/ \E t \in Secrets : Withdraw(t)
    \/ Elapse

Spec == Init /\ [][Next]_credentialVars

\* Whoever holds a Secret is claimed.
HeldByClaimed == \A t \in Secrets : holder[t] # Nobody => holder[t] \in claimed

\* A lease is in one Secret at most, and in none while it is to be published.
PublishedOnce ==
    /\ \A s, t \in Secrets : lease[s] = lease[t] /\ lease[s] # Nobody => s = t
    /\ \A t \in Secrets : lease[t] # Nobody => lease[t] \notin granted
=============================================================================
