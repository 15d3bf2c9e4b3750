------------------------------ MODULE ValsSync ------------------------------
(***************************************************************************)
(* What the ValsSecret controller promises about the Secrets it writes,    *)
(* without saying how: a Secret is held by at most one ValsSecret, only    *)
(* one that the controller has claimed; what is published is never older   *)
(* than what it replaces, nor newer than the store; and a ValsSecret is    *)
(* released only when it holds nothing.                                    *)
(***************************************************************************)
EXTENDS Integers

CONSTANTS Names, Secrets, Target, Nobody

VARIABLES
    store,      \* version of the secrets store
    claimed,    \* ValsSecrets that cannot vanish without the controller
    holder,     \* the ValsSecret a Secret belongs to
    version     \* the version of the store a Secret was made from

syncVars == <<store, claimed, holder, version>>

Unknown == -1   \* no Secret, or content the controller did not write

Init ==
    /\ store = 0 /\ claimed = {}
    /\ holder = [t \in Secrets |-> Nobody]
    /\ version = [t \in Secrets |-> Unknown]

Advance == store' = store + 1 /\ UNCHANGED <<claimed, holder, version>>

Claim(n) ==
    claimed' = claimed \cup {n} /\ UNCHANGED <<store, holder, version>>

Publish(n) ==
    /\ n \in claimed
    /\ \E v \in 0 .. store :
         /\ v >= version[Target[n]]
         /\ version' = [version EXCEPT ![Target[n]] = v]
    /\ holder' = [holder EXCEPT ![Target[n]] = n]
    /\ UNCHANGED <<store, claimed>>

\* The Secret goes, by whoever's hand.
Withdraw(t) ==
    /\ holder' = [holder EXCEPT ![t] = Nobody]
    /\ version' = [version EXCEPT ![t] = Unknown]
    /\ UNCHANGED <<store, claimed>>

\* Somebody else edits the Secret.
Deface(t) ==
    version' = [version EXCEPT ![t] = Unknown] /\ UNCHANGED <<store, claimed, holder>>

Release(n) ==
    /\ n \in claimed /\ \A t \in Secrets : holder[t] # n
    /\ claimed' = claimed \ {n}
    /\ UNCHANGED <<store, holder, version>>

Next ==
    \/ Advance
    \/ \E n \in Names : Claim(n) \/ Publish(n) \/ Release(n)
    \/ \E t \in Secrets : Withdraw(t) \/ Deface(t)

Spec == Init /\ [][Next]_syncVars

\* Whoever holds a Secret is claimed.
HeldByClaimed == \A t \in Secrets : holder[t] # Nobody => holder[t] \in claimed
=============================================================================
