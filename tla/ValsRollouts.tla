---------------------------- MODULE ValsRollouts ----------------------------
(***************************************************************************)
(* ValsSecret with a record of the updates that the operator has let go:   *)
(* once the Secret is written, a database or a workload whose update fails *)
(* or is cut short by a crash or a panic is not tried again until the      *)
(* Secret changes.  No action reads the record.                            *)
(***************************************************************************)
EXTENDS ValsSecret

VARIABLE missed  \* the databases of a ValsSecret, and its workloads

rolloutVars == <<vars, missed>>

MissedTypeOK == missed \subseteq Names \cup (Names \X Workloads)

\* What a reconcile has still to update after writing the Secret.
DueDatabases == IF pc = "db" THEN {cur} \cap DbUsers ELSE {}
DueWorkloads == {cur} \X (IF pc = "db" THEN Rollouts[cur]
                           ELSE IF pc = "rollout" THEN todo ELSE {})
Abandon == missed' = missed \cup DueDatabases \cup DueWorkloads

InitRollouts == Init /\ missed = {}

Databases == UpdateDatabases /\ missed' = missed \ {cur}
DatabasesFail == DatabaseError /\ missed' = missed \cup {cur}

Restart(w) == Rollout(w) /\ missed' = missed \ {<<cur, w>>}
RestartFails(w) == RolloutError(w) /\ missed' = missed \cup {<<cur, w>>}

\* Whatever ends the reconcile before its last step.
CutShort ==
    /\ Crash \/ DatabasePanic \/ \E w \in Workloads : RolloutPanic(w)
    /\ Abandon

\* The write of the Secret takes effect without the operator hearing of it: its
\* databases and workloads are not looked at.
WriteAnswerLost ==
    /\ AnswerLost
    /\ missed' = IF pc = "upsert"
                 THEN missed \cup ({cur} \cap DbUsers) \cup ({cur} \X Rollouts[cur])
                 ELSE missed

\* The other steps of a reconcile, up to the write of the Secret and at its end.
Others ==
    \/ \E n \in Names : PickIgnored(n) \/ PickLive(n) \/ PickDeleting(n)
    \/ AddFinalizer \/ DeleteSecret \/ RemoveFinalizer
    \/ NotExpired \/ Expired \/ Eval \/ UpsertSkip \/ UpsertSecret \/ Done
    \/ ApiError \/ EvalError \/ UpsertError

NextRollouts ==
    \/ (Environment \/ Plumbing \/ Others) /\ UNCHANGED missed
    \/ Databases \/ DatabasesFail \/ CutShort \/ WriteAnswerLost
    \/ \E w \in Workloads : Restart(w) \/ RestartFails(w)

SpecRollouts == InitRollouts /\ [][NextRollouts]_rolloutVars /\ Fairness

-----------------------------------------------------------------------------
(* Properties *)

Published(n) == vs[n] # None /\ sec[Target[n]] # None

\* README.md, rollout: "to make the pods use new secret".  Through crashes, stale
\* reads and errors, the pods of every workload end up with the content of the
\* Secret, but for those whose last update the operator has let go (lines 238-250).
PodsCatchUp ==
    \A n \in Names : \A w \in Rollouts[n] :
        <>[](Published(n) =>
               \/ running[w] = sec[Target[n]].data
               \/ <<n, w>> \in missed)

\* The Secret has a label or annotation that its ValsSecret lacks: it was put
\* there by hand, or is one that the user has since taken off the ValsSecret.
StrayLabel(n) == Published(n) /\ ~(sec[Target[n]].labels \subseteq vs[n].def.labels)

\* Once users and the store are quiet, the rollouts cease: no TTL that runs out,
\* no stale read, lost answer or panic makes the operator write a Secret and
\* restart its workloads again and again; but a stray label does, for ever, as it
\* is merged into what is written and compared exactly (lines 313-316, 407-419).
RolloutsCease ==
    \A n \in Names :
        <>[][~(cur = n /\ pc = "upsert" /\ pc' = "db")]_vars \/ <>[]StrayLabel(n)

\* README.md: "keep the secrets in sync between your secrets store, Kubernetes
\* and the database".  The databases end up with the password in the Secret, but
\* for those whose last update has failed (lines 348-350, 396-401).
DatabasesCatchUp ==
    \A n \in DbUsers :
        <>[](Published(n) => db[n] = sec[Target[n]].data \/ n \in missed)
=============================================================================
