------------------------------ MODULE DbSecret ------------------------------
(***************************************************************************)
(* The DbSecret controller (controllers/dbsecret_controller.go): it asks   *)
(* Vault for database credentials, which live as long as their lease, puts *)
(* them in a Secret, renews the lease before it ends or asks for new       *)
(* credentials, and restarts the workloads that use them.                  *)
(*                                                                         *)
(* Time passes in ticks while no reconcile runs: a reconcile is short      *)
(* against a lease and its grace period of two minutes.                    *)
(***************************************************************************)
EXTENDS Naturals, FiniteSets

CONSTANTS
    Names,       \* keys of DbSecret objects
    Excluded,    \* the keys whose namespace is in -exclude-namespaces
    Secrets,     \* keys of the Secrets they write
    Target,      \* getSecretName
    Defs,        \* definitions: [role, tmpl, renew]
    Roles,       \* Vault roles
    TemplateKeys,\* the keys, each with its text, of Spec.Template
    Broken,      \* those whose text cannot be parsed or executed
    Workloads, Rollouts, Bare,   \* as in ValsSecret
    Leases,      \* bound: leases that Vault may have at a time (a quota)
    Term,        \* the lease duration, in ticks
    Grace,       \* credentials this close to their end are replaced
    Budget,      \* bound: disturbances by users, and crashes
    Faults,      \* which disturbances and failures happen
    Foreign,     \* a value put into a Secret by hand
    None

FaultKinds == {"lag", "crash", "api", "vault", "lookup", "write", "lost", "cap",
               "revoke", "rollout", "delete", "tamper", "plant"}

\* The keys of the Secret's data: what Vault returns (username and password,
\* connection_url and hosts), or what the template makes of it.
Login == "login"
Details == "details"
Keys == {Login, Details} \cup TemplateKeys
Rendered(d) == IF d.tmpl = {} THEN {Login, Details} ELSE d.tmpl

\* renderTemplate: it ends at the first text that fails, in no fixed order, with
\* what it has by then.
Outputs(d) == IF d.tmpl \cap Broken = {} THEN {d.tmpl} ELSE SUBSET (d.tmpl \ Broken)

\* CreateFakeHash: of a template that fails there is no hash.
Hash(d) == IF d.tmpl \cap Broken = {} THEN d.tmpl ELSE None

DbSecrets == [def : Defs, fin : BOOLEAN, del : BOOLEAN]

\* Under each key a value made of the credentials of a lease, one put there by
\* hand, or nothing.
Contents == [Keys -> Leases \cup {Foreign, None}]

\* lease and hash are annotations, expires is the time left to expires-on.  A
\* Secret the operator did not write has none of them, like one that expired.
K8sSecrets == [data : Contents, lease : Leases \cup {None},
               hash : {d.tmpl : d \in Defs} \cup {None}, expires : 0 .. Term,
               force : BOOLEAN, owner : Names \cup {None}]

ASSUME DbAssumption ==
    /\ Excluded \subseteq Names
    /\ Target \in [Names -> Secrets]
    /\ Roles # {} /\ Broken \subseteq TemplateKeys
    /\ \A d \in Defs : d.role \in Roles /\ d.tmpl \subseteq TemplateKeys /\ d.renew \in BOOLEAN
    /\ Rollouts \in [Names -> SUBSET Workloads] /\ Bare \subseteq Workloads
    /\ Term \in Nat \ {0} /\ Grace \in Nat
    /\ Budget \in Nat
    /\ Faults \subseteq FaultKinds
    /\ None \notin Names /\ None \notin Leases
    /\ Foreign \notin Leases /\ Foreign # None /\ None \notin {d.tmpl : d \in Defs}
    /\ None \notin DbSecrets /\ None \notin K8sSecrets

\* How a copy of a Secret relates to the Secret in the API server: the same,
\* an earlier state of it, or a state of another Secret of that name.
Copies == {"same", "earlier", "other"}

VARIABLES
    ds, sec,      \* DbSecrets and Secrets in the API server
    dc, sc,       \* the informer cache's copies of both
    dcOld, scIs,  \* names whose copy is old; how the Secrets' copies relate
    dsEvt, secEvt,\* undelivered events that pass the predicate
    q,            \* the work queue
    pc, cur,      \* the worker: its step and its key
    obj, objOld,  \* its copy of the DbSecret; whether that is old
    seen, seenIs, \* its copy of the Secret, and how that relates
    cred,         \* the lease of the credentials it was given
    todo,         \* rollouts left to do
    life, role,   \* Vault: the ticks each lease has left, and its role
    running,      \* the lease each workload's pods were last started with
    left          \* disturbances left

api == <<ds, sec>>
cache == <<dc, sc, dcOld, scIs, dsEvt, secEvt>>
worker == <<pc, cur, obj, objOld, seen, seenIs, cred, todo>>
vault == <<life, role>>
vars == <<ds, sec, dc, sc, dcOld, scIs, dsEvt, secEvt, q, pc, cur, obj, objOld,
          seen, seenIs, cred, todo, life, role, running, left>>

ApiTypeOK ==
    /\ ds \in [Names -> DbSecrets \cup {None}]
    /\ sec \in [Secrets -> K8sSecrets \cup {None}]

CacheTypeOK ==
    /\ dc \in [Names -> DbSecrets \cup {None}]
    /\ sc \in [Secrets -> K8sSecrets \cup {None}]
    /\ dcOld \in SUBSET Names /\ scIs \in [Secrets -> Copies]
    /\ dsEvt \in SUBSET Names /\ secEvt \in [Secrets -> SUBSET Names]

WorkerTypeOK ==
    /\ pc \in {"idle", "claim", "delete", "release", "check", "renew", "save",
               "force", "request", "upsert", "rollout"}
    /\ IF pc = "idle" THEN cur = None /\ obj = None
                      ELSE cur \in Names /\ obj \in DbSecrets
    /\ objOld \in BOOLEAN
    /\ seen \in K8sSecrets \cup {None} /\ seenIs \in Copies
    /\ pc \in {"renew", "save", "force"} => seen # None /\ seen.lease # None
    /\ IF pc = "upsert" THEN cred \in Leases ELSE cred = None
    /\ todo \in SUBSET Workloads

QueueTypeOK == q \in [Names -> {"none", "later", "ready"}]

VaultTypeOK ==
    /\ life \in [Leases -> 0 .. Term] /\ role \in [Leases -> Roles]

OutsideTypeOK ==
    /\ running \in [Workloads -> Leases \cup {None}]
    /\ left \in 0 .. Budget

\* The types of all variables; the worker's locals are set exactly while the
\* step it is in needs them.
TypeOK ==
    /\ ApiTypeOK /\ CacheTypeOK /\ WorkerTypeOK
    /\ QueueTypeOK /\ VaultTypeOK /\ OutsideTypeOK

-----------------------------------------------------------------------------
(* Helpers *)

Outdate(n) ==
    /\ dcOld' = dcOld \cup {n}
    /\ objOld' = (objOld \/ cur = n)

\* The owner of a Secret hears of its creation and deletion, not of updates.
Notify(t, owner) == secEvt' = [secEvt EXCEPT ![t] = @ \cup ({owner} \cap Names)]

secretName == Target[cur]

\* A write to the Secret t, or its deletion, and the copies there are of it.
Relate(t, how) ==
    /\ scIs' = [scIs EXCEPT ![t] = IF @ = "other" THEN @ ELSE how]
    /\ seenIs' = IF cur # None /\ t = secretName /\ seenIs # "other" THEN how ELSE seenIs

\* The definitions with an underscore in their name are not part of the model:
\* each is a mistake the code could make, and some property fails with it.
Requeue_Forgotten(n) == UNCHANGED q

Requeue(n) == q' = [q EXCEPT ![n] = IF @ = "none" THEN "later" ELSE @]
Wake(queue, S) == [n \in Names |-> IF n \in S THEN "ready" ELSE queue[n]]

Forget == obj' = None /\ objOld' = FALSE /\ seen' = None /\ seenIs' = "same"

Idle_KeepsCredentials ==
    pc' = "idle" /\ cur' = None /\ Forget /\ UNCHANGED cred /\ todo' = {}

Idle == pc' = "idle" /\ cur' = None /\ Forget /\ cred' = None /\ todo' = {}
Goto(step) == pc' = step /\ UNCHANGED <<cur, obj, objOld, seen, seenIs, cred, todo>>

\* vault.IsLeaseValid: the lease is looked up under the role of the definition.
isLeaseValid(d, s) == s.lease # None /\ life[s.lease] > 0 /\ role[s.lease] = d.role

Expiring(s) == s.expires <= Grace

Pruned_Never(d, s) == s

\* Without a template, or with one that is gone, all but the login is dropped
\* from the copy.
Pruned(d, s) ==
    IF d.tmpl = {} THEN [s EXCEPT !.data = [k \in Keys |-> IF k = Login THEN @[k] ELSE None]]
                   ELSE s

FirstStep_NoFinalizer(v) == "check"

FirstStep(v) == IF v.fin THEN "check" ELSE "claim"

-----------------------------------------------------------------------------
Init ==
    /\ ds = [n \in Names |-> None] /\ dc = ds
    /\ sec = [t \in Secrets |-> None] /\ sc = sec
    /\ dcOld = {} /\ scIs = [t \in Secrets |-> "same"]
    /\ dsEvt = {} /\ secEvt = [t \in Secrets |-> {}]
    /\ q = [n \in Names |-> "none"]
    /\ pc = "idle" /\ cur = None /\ obj = None /\ objOld = FALSE
    /\ seen = None /\ seenIs = "same" /\ cred = None /\ todo = {}
    /\ life = [l \in Leases |-> 0] /\ role \in [Leases -> {CHOOSE r \in Roles : TRUE}]
    /\ running = [w \in Workloads |-> None]
    /\ left = Budget

-----------------------------------------------------------------------------
(* Users, time, the informer cache and the work queue *)

Disturb == left > 0 /\ left' = left - 1

Apply(n, d) ==
    /\ Disturb
    /\ \/ ds[n] = None /\ ds' = [ds EXCEPT ![n] = [def |-> d, fin |-> FALSE, del |-> FALSE]]
       \/ /\ ds[n] # None /\ ds[n].def # d /\ ~ds[n].del
          /\ ds' = [ds EXCEPT ![n].def = d]
    /\ dsEvt' = dsEvt \cup {n} /\ Outdate(n)
    /\ UNCHANGED <<sec, dc, sc, scIs, secEvt, q, pc, cur, obj, seen, seenIs, cred,
                   todo, vault, running>>

Delete(n) ==
    /\ "delete" \in Faults /\ Disturb
    /\ ds[n] # None /\ ~ds[n].del
    /\ ds' = [ds EXCEPT ![n] = IF @.fin THEN [@ EXCEPT !.del = TRUE] ELSE None]
    /\ dsEvt' = dsEvt \cup {n} /\ Outdate(n)
    /\ UNCHANGED <<sec, dc, sc, scIs, secEvt, q, pc, cur, obj, seen, seenIs, cred,
                   todo, vault, running>>

\* A user deletes the Secret.
Tamper(t) ==
    /\ "tamper" \in Faults /\ Disturb
    /\ sec[t] # None
    /\ sec' = [sec EXCEPT ![t] = None] /\ Notify(t, sec[t].owner) /\ Relate(t, "other")
    /\ UNCHANGED <<ds, dc, sc, dcOld, dsEvt, q, pc, cur, obj, objOld, seen, cred,
                   todo, vault, running>>

\* A user creates a Secret of that name by hand.
Plant(t) ==
    /\ "plant" \in Faults /\ Disturb
    /\ sec[t] = None
    /\ sec' = [sec EXCEPT ![t] = [data |-> [k \in Keys |-> Foreign], lease |-> None,
                                  hash |-> None, expires |-> 0, force |-> FALSE,
                                  owner |-> None]]
    /\ Relate(t, "other")
    /\ UNCHANGED <<ds, dc, sc, dcOld, dsEvt, secEvt, q, pc, cur, obj, objOld, seen,
                   cred, todo, vault, running>>

\* Vault revokes a lease before its time.
Revoke(l) ==
    /\ "revoke" \in Faults /\ Disturb
    /\ life[l] > 0
    /\ life' = [life EXCEPT ![l] = 0]
    /\ UNCHANGED <<api, cache, q, worker, role, running>>

Older(s) == IF s # None /\ s.expires > 0 THEN [s EXCEPT !.expires = @ - 1] ELSE s

\* A tick brings every lease, and every expires-on, nearer to its end.
Tick ==
    /\ pc = "idle"
    /\ \/ \E l \in Leases : life[l] > 0
       \/ \E t \in Secrets : Older(sec[t]) # sec[t] \/ Older(sc[t]) # sc[t]
    /\ life' = [l \in Leases |-> IF life[l] > 0 THEN life[l] - 1 ELSE 0]
    /\ sec' = [t \in Secrets |-> Older(sec[t])]
    /\ sc' = [t \in Secrets |-> Older(sc[t])]
    /\ UNCHANGED <<ds, dc, dcOld, scIs, dsEvt, secEvt, q, worker, role, running, left>>

DeliverDb(n) ==
    /\ n \in dcOld
    /\ dc' = [dc EXCEPT ![n] = ds[n]]
    /\ dcOld' = dcOld \ {n} /\ dsEvt' = dsEvt \ {n}
    /\ q' = IF n \in dsEvt THEN Wake(q, {n}) ELSE q
    /\ UNCHANGED <<api, sc, scIs, secEvt, worker, vault, running, left>>

DeliverSecret(t) ==
    /\ scIs[t] # "same" \/ secEvt[t] # {}
    /\ sc' = [sc EXCEPT ![t] = sec[t]] /\ scIs' = [scIs EXCEPT ![t] = "same"]
    /\ secEvt' = [secEvt EXCEPT ![t] = {}] /\ q' = Wake(q, secEvt[t])
    /\ UNCHANGED <<api, dc, dcOld, dsEvt, worker, vault, running, left>>

Due(n) ==
    /\ q[n] = "later" /\ q' = [q EXCEPT ![n] = "ready"]
    /\ UNCHANGED <<api, cache, worker, vault, running, left>>

CaughtUp == dcOld = {} /\ \A t \in Secrets : scIs[t] = "same" /\ secEvt[t] = {}

\* The operator is killed and starts again; credentials it was given and had
\* not written are lost with it.
Crash ==
    /\ "crash" \in Faults /\ Disturb
    /\ Idle
    /\ dc' = ds /\ sc' = sec /\ dcOld' = {} /\ scIs' = [t \in Secrets |-> "same"]
    /\ dsEvt' = {} /\ secEvt' = [t \in Secrets |-> {}]
    /\ q' = [n \in Names |-> IF ds[n] = None THEN "none" ELSE "ready"]
    /\ UNCHANGED <<api, vault, running>>

-----------------------------------------------------------------------------
(* Reconcile *)

Keep == UNCHANGED <<ds, sec, dc, sc, dcOld, scIs, dsEvt, secEvt, running, left>>
Finish == Requeue(cur) /\ Idle /\ Keep

Pick(n) ==
    /\ pc = "idle" /\ q[n] = "ready"
    /\ "lag" \in Faults \/ CaughtUp
    /\ q' = [q EXCEPT ![n] = "none"]
    /\ Keep /\ UNCHANGED vault

\* The Secret is read before the finalizer is looked at, and only here.
Start(n, step) ==
    /\ pc' = step /\ cur' = n /\ obj' = dc[n] /\ objOld' = (n \in dcOld)
    /\ seen' = sc[Target[n]] /\ seenIs' = scIs[Target[n]]
    /\ cred' = None /\ todo' = {}

PickIgnored(n) ==
    /\ Pick(n)
    /\ dc[n] = None \/ n \in Excluded
    /\ UNCHANGED worker

\* The Secret cannot be read: the error is returned and the key retried.
ReadError(n) ==
    /\ pc = "idle" /\ q[n] = "ready" /\ "api" \in Faults
    /\ "lag" \in Faults \/ CaughtUp
    /\ dc[n] # None /\ n \notin Excluded
    /\ q' = [q EXCEPT ![n] = "later"]
    /\ Keep /\ UNCHANGED <<worker, vault>>

PickLive(n) ==
    /\ Pick(n)
    /\ dc[n] # None /\ n \notin Excluded /\ ~dc[n].del
    /\ Start(n, FirstStep(dc[n]))

PickDeleting(n) ==
    /\ Pick(n)
    /\ dc[n] # None /\ n \notin Excluded /\ dc[n].del /\ dc[n].fin
    /\ Start(n, "delete")

\* Update with the copy's resourceVersion: refused when the copy is old.
Claiming ==
    /\ pc = "claim" /\ ~objOld
    /\ ds' = [ds EXCEPT ![cur] = [obj EXCEPT !.fin = TRUE]]
    /\ dcOld' = dcOld \cup {cur}
    /\ UNCHANGED <<sec, dc, sc, scIs, dsEvt, secEvt, vault, running, left>>

AddFinalizer ==
    /\ Claiming
    /\ obj' = ds'[cur] /\ pc' = "check"
    /\ UNCHANGED <<q, cur, objOld, seen, seenIs, cred, todo>>

\* revokeLease returns at once for any Secret that has a name (line 238), so
\* no lease is revoked; then deleteSecret, by name.
Deleting ==
    /\ pc = "delete"
    /\ sec' = [sec EXCEPT ![secretName] = None]
    /\ scIs' = [scIs EXCEPT ![secretName] = IF sec[secretName] = None THEN @ ELSE "other"]
    /\ IF sec[secretName] = None THEN UNCHANGED secEvt
                                 ELSE Notify(secretName, sec[secretName].owner)
    /\ UNCHANGED <<ds, dc, sc, dcOld, dsEvt, vault, running, left>>

DeleteSecret == Deleting /\ Goto("release") /\ UNCHANGED q

Releasing ==
    /\ pc = "release" /\ ~objOld
    /\ ds' = [ds EXCEPT ![cur] = None]
    /\ dcOld' = dcOld \cup {cur} /\ dsEvt' = dsEvt \cup {cur}
    /\ UNCHANGED <<sec, dc, sc, scIs, secEvt, vault, running, left>>

RemoveFinalizer == Releasing /\ Idle /\ UNCHANGED q

ApiError_Swallowed ==
    /\ pc \in {"claim", "delete", "release"} /\ (objOld \/ "api" \in Faults)
    /\ Idle /\ Keep /\ UNCHANGED <<q, vault>>

\* The API server refuses a call: the error is returned, the key is retried.
ApiError ==
    /\ \/ pc \in {"claim", "release"} /\ objOld
       \/ pc \in {"claim", "delete", "release"} /\ "api" \in Faults
    /\ Finish /\ UNCHANGED vault

\* A lookup that fails, for whatever reason, makes the lease invalid.
Lookups == {isLeaseValid(obj.def, seen)} \cup (IF "lookup" \in Faults THEN {FALSE} ELSE {})

\* newHash != "" and the annotation is neither absent nor the same.
TemplateChanged_Never(d, s) == FALSE

TemplateChanged(d, s) == Hash(d) # None /\ s.hash # None /\ s.hash # Hash(d)

shouldUpdate_Always(valid) == TRUE

shouldUpdate(valid) == Expiring(seen) \/ ~valid \/ TemplateChanged(obj.def, seen)

canRenew(valid) == valid /\ ~seen.force /\ obj.def.renew

UpToDate ==
    /\ pc = "check" /\ seen # None
    /\ \E valid \in Lookups : ~shouldUpdate(valid)
    /\ Finish /\ UNCHANGED vault

\* A changed template is a reason to update, and yet renewal is tried first.
ChooseRenewal ==
    /\ pc = "check" /\ seen # None
    /\ \E valid \in Lookups : shouldUpdate(valid) /\ canRenew(valid)
    /\ seen' = Pruned(obj.def, seen)
    /\ pc' = "renew"
    /\ Keep /\ UNCHANGED <<q, cur, obj, objOld, seenIs, cred, todo, vault>>

\* "revoke any possible old ones" (line 200) is done now, and does nothing.
ChooseRequest ==
    /\ pc = "check"
    /\ seen # None => \E valid \in Lookups : shouldUpdate(valid) /\ ~canRenew(valid)
    /\ seen' = IF seen = None THEN None ELSE Pruned(obj.def, seen)
    /\ pc' = "request"
    /\ Keep /\ UNCHANGED <<q, cur, obj, objOld, seenIs, cred, todo, vault>>

RenewLease_Skipped ==
    /\ pc = "renew"
    /\ seen' = [seen EXCEPT !.expires = Term]
    /\ pc' = "save"
    /\ Keep /\ UNCHANGED <<q, cur, obj, objOld, seenIs, cred, todo, vault>>

Renewing ==
    /\ pc = "renew" /\ life[seen.lease] > 0
    /\ \E ticks \in (IF "cap" \in Faults THEN life[seen.lease] ELSE Term) .. Term :
         life' = [life EXCEPT ![seen.lease] = ticks]
    /\ Keep /\ UNCHANGED role

\* vault.RenewDbCredentials: what Vault granted is not looked at.
RenewLease ==
    /\ Renewing
    /\ seen' = [seen EXCEPT !.expires = Term]
    /\ pc' = "save"
    /\ UNCHANGED <<q, cur, obj, objOld, seenIs, cred, todo>>

SaveRenewal_Unchecked ==
    /\ pc \in {"save", "force"} /\ sec[secretName] # None
    /\ sec' = [sec EXCEPT ![secretName] = seen]
    /\ scIs' = [scIs EXCEPT ![secretName] = IF @ = "same" THEN "earlier" ELSE @]
    /\ Requeue(cur) /\ Idle
    /\ UNCHANGED <<ds, dc, sc, dcOld, dsEvt, secEvt, vault, running, left>>

\* Update with the copy's resourceVersion; the second one, after a failure,
\* only differs by the annotation that forces new credentials next time.
Saving ==
    /\ pc \in {"save", "force"} /\ seenIs = "same"
    /\ sec' = [sec EXCEPT ![secretName] = seen]
    /\ scIs' = [scIs EXCEPT ![secretName] = IF @ = "same" THEN "earlier" ELSE @]
    /\ UNCHANGED <<ds, dc, sc, dcOld, dsEvt, secEvt, vault, running, left>>

SaveRenewal == Saving /\ Requeue(cur) /\ Idle

SaveError ==
    /\ pc = "save" /\ (seenIs # "same" \/ "write" \in Faults)
    /\ seen' = [seen EXCEPT !.force = TRUE]
    /\ pc' = "force"
    /\ Keep /\ UNCHANGED <<q, cur, obj, objOld, seenIs, cred, todo, vault>>

ForceError ==
    /\ pc = "force" /\ (seenIs # "same" \/ "write" \in Faults)
    /\ Finish /\ UNCHANGED vault

\* Leases that Vault can hand out: the others live, or are still referred to.
Mentions(s, l) == s # None /\ (s.lease = l \/ \E k \in Keys : s.data[k] = l)

Free == {l \in Leases : /\ life[l] = 0
                        /\ \A t \in Secrets : ~Mentions(sec[t], l) /\ ~Mentions(sc[t], l)
                        /\ ~Mentions(seen, l)
                        /\ \A w \in Workloads : running[w] # l}

Granting(l) ==
    /\ pc = "request" /\ Free # {} /\ l = CHOOSE f \in Free : TRUE
    /\ life' = [life EXCEPT ![l] = Term] /\ role' = [role EXCEPT ![l] = obj.def.role]
    /\ Keep

\* vault.GetDbCredentials
RequestCredentials ==
    /\ \E l \in Leases : Granting(l) /\ cred' = l
    /\ pc' = "upsert"
    /\ UNCHANGED <<q, cur, obj, objOld, seen, seenIs, todo>>

\* Vault refuses to renew, or to give credentials: the error is returned.
VaultError ==
    /\ \/ pc \in {"renew", "request"} /\ "vault" \in Faults
       \/ pc = "renew" /\ life[seen.lease] = 0
       \/ pc = "request" /\ Free = {}
    /\ Finish /\ UNCHANGED vault

\* SetControllerReference refuses a copy that another object controls.
Controllable == ~(seen # None /\ seen.owner \notin {None, cur})

\* An Update that carries the UID of a Secret since deleted is refused.
WrongUID == sec[secretName] # None /\ seen # None /\ seenIs = "other"

\* The Secret to write.  A template's output replaces the data; without any
\* output, StringData is merged into the data of the copy.
NewData(out) ==
    [k \in Keys |->
       IF k \in out \/ (out = {} /\ k \in {Login, Details}) THEN cred
       ELSE IF out = {} /\ seen # None THEN seen.data[k] ELSE None]

Issued(out) ==
    [data |-> NewData(out), lease |-> cred, hash |-> Hash(obj.def),
     expires |-> Term, force |-> FALSE, owner |-> cur]

Upserting ==
    /\ pc = "upsert" /\ Controllable /\ ~WrongUID
    /\ \E out \in Outputs(obj.def) : sec' = [sec EXCEPT ![secretName] = Issued(out)]
    /\ IF sec[secretName] = None
       THEN Notify(secretName, cur) /\ scIs' = [scIs EXCEPT ![secretName] = "other"]
       ELSE /\ scIs' = [scIs EXCEPT ![secretName] = IF @ = "same" THEN "earlier" ELSE @]
            /\ UNCHANGED secEvt
    /\ UNCHANGED <<ds, dc, sc, dcOld, dsEvt, vault, running, left>>

UpsertSecret_NoRollout ==
    /\ Upserting
    /\ pc' = "rollout" /\ todo' = {}
    /\ seen' = None /\ seenIs' = "same" /\ cred' = None
    /\ UNCHANGED <<q, cur, obj, objOld>>

UpsertSecret ==
    /\ Upserting
    /\ pc' = "rollout" /\ todo' = Rollouts[cur]
    /\ seen' = None /\ seenIs' = "same" /\ cred' = None
    /\ UNCHANGED <<q, cur, obj, objOld>>

\* Logged, and the reconcile ends with an empty Result and no error; nothing
\* remembers the credentials that Vault has just given.
UpsertError ==
    /\ pc = "upsert"
    /\ ~Controllable \/ WrongUID \/ "write" \in Faults
    /\ Idle
    /\ Keep /\ UNCHANGED <<q, vault>>

\* A call takes effect and its answer is lost: the code goes on as if it had
\* failed, and the second write of a renewal is refused because of the first.
AnswerLost ==
    /\ "lost" \in Faults
    /\ \/ (Claiming \/ Deleting \/ Releasing \/ Renewing) /\ Requeue(cur) /\ Idle
       \/ (\E l \in Leases : Granting(l)) /\ Requeue(cur) /\ Idle
       \/ /\ Saving /\ pc = "save"
          /\ seen' = [seen EXCEPT !.force = TRUE] /\ seenIs' = "earlier" /\ pc' = "force"
          /\ UNCHANGED <<q, cur, obj, objOld, cred, todo>>
       \/ Saving /\ pc = "force" /\ Requeue(cur) /\ Idle
       \/ Upserting /\ Idle /\ UNCHANGED q

Rollout(w) ==
    /\ pc = "rollout" /\ w \in todo \ Bare
    /\ running' = [running EXCEPT ![w] = IF sec[secretName] = None THEN None
                                         ELSE sec[secretName].lease]
    /\ todo' = todo \ {w}
    /\ UNCHANGED <<api, cache, q, pc, cur, obj, objOld, seen, seenIs, cred, vault, left>>

\* The workload is missing or cannot be updated: logged, the next one is tried.
RolloutError(w) ==
    /\ pc = "rollout" /\ w \in todo /\ "rollout" \in Faults
    /\ todo' = todo \ {w}
    /\ Keep /\ UNCHANGED <<q, pc, cur, obj, objOld, seen, seenIs, cred, vault>>

\* A StatefulSet without pod annotations: the assignment to the nil map panics.
RolloutPanic(w) ==
    /\ pc = "rollout" /\ w \in todo \cap Bare
    /\ Finish /\ UNCHANGED vault

Done ==
    /\ pc = "rollout" /\ todo = {}
    /\ Finish /\ UNCHANGED vault

-----------------------------------------------------------------------------
Environment ==
    \/ \E n \in Names, d \in Defs : Apply(n, d)
    \/ \E n \in Names : Delete(n)
    \/ \E t \in Secrets : Tamper(t) \/ Plant(t)
    \/ \E l \in Leases : Revoke(l)

Plumbing ==
    \/ \E n \in Names : DeliverDb(n) \/ Due(n)
    \/ \E t \in Secrets : DeliverSecret(t)
    \/ Tick

Progress ==
    \/ AddFinalizer \/ DeleteSecret \/ RemoveFinalizer
    \/ UpToDate \/ ChooseRenewal \/ ChooseRequest \/ RenewLease \/ SaveRenewal
    \/ RequestCredentials \/ UpsertSecret \/ Done
    \/ \E w \in Workloads : Rollout(w)

Errors ==
    \/ ApiError \/ SaveError \/ ForceError \/ VaultError \/ UpsertError \/ AnswerLost
    \/ \E w \in Workloads : RolloutError(w) \/ RolloutPanic(w)

Reconcile ==
    \/ \E n \in Names : PickIgnored(n) \/ ReadError(n) \/ PickLive(n) \/ PickDeleting(n)
    \/ Progress \/ Errors

Next == Environment \/ Plumbing \/ Reconcile \/ Crash

Spec == Init /\ [][Next]_vars

(***************************************************************************)
(* As for ValsSecret; besides, Vault answers at last when it is asked over *)
(* and over, and so does the API server.  Whether time passes is left to   *)
(* each property: credentials that never expire are a case of their own.   *)
(***************************************************************************)
Fairness ==
    /\ \A n \in Names :
         /\ WF_vars(DeliverDb(n)) /\ WF_vars(Due(n))
         /\ SF_vars(PickIgnored(n) \/ PickLive(n) \/ PickDeleting(n))
    /\ \A t \in Secrets : WF_vars(DeliverSecret(t))
    /\ WF_vars(Reconcile)
    /\ SF_vars(AddFinalizer) /\ SF_vars(DeleteSecret) /\ SF_vars(RemoveFinalizer)
    /\ SF_vars(RequestCredentials) /\ SF_vars(RenewLease) /\ SF_vars(SaveRenewal)

FairSpec == Spec /\ Fairness

\* Strong fairness: the model stops time during a reconcile.
TimePasses == SF_vars(Tick)

-----------------------------------------------------------------------------
(* Properties *)

Claimed(n) == ds[n] # None /\ ds[n].fin

\* A Secret the operator wrote never outlives its DbSecret: the credentials in
\* it would never be renewed or removed again (lines 101-138, 372-379).
NoOrphan ==
    \A t \in Secrets : sec[t] # None /\ sec[t].owner # None => Claimed(sec[t].owner)

OwnedAtTarget ==
    \A t \in Secrets : sec[t] # None /\ sec[t].owner # None => Target[sec[t].owner] = t

CacheIsCurrent == \A n \in Names \ dcOld : dc[n] = ds[n]

\* However old, a cached copy that is live and has the finalizer is no illusion.
CachedClaims ==
    \A n \in Names : dc[n] # None /\ dc[n].fin /\ ~dc[n].del => Claimed(n)

SameCopies == \A t \in Secrets : scIs[t] = "same" => sc[t] = sec[t]

Claims ==
    /\ pc \in {"check", "renew", "save", "force", "request", "upsert", "rollout"} =>
         Claimed(cur)
    /\ pc \in {"claim", "delete", "release"} /\ ~objOld =>
         cur \notin dcOld /\ ds[cur] = obj
    /\ pc \in {"delete", "release"} => obj.del /\ obj.fin
    /\ pc = "release" => ~(sec[secretName] # None /\ sec[secretName].owner = cur)

\* Both are there, with the same lease and owner, or neither is.
Kin(s, u) ==
    /\ s = None <=> u = None
    /\ s # None => s.lease = u.lease /\ s.owner = u.owner

\* A copy of the Secret that is current, the worker's changes to it apart.
SeenIsKin ==
    pc \in {"claim", "check", "renew", "save", "force", "request", "upsert"}
      /\ seenIs = "same" => Kin(seen, sec[secretName])

\* The inductive invariant behind NoOrphan and ImplementsCredentials.
LifeInv ==
    /\ NoOrphan /\ OwnedAtTarget /\ CacheIsCurrent /\ CachedClaims
    /\ SameCopies /\ Claims /\ SeenIsKin

\* What expires-on says of the credentials in a Secret is no later than what
\* Vault says, through conflicts and renewals that are never written down: the
\* controller decides by it when to renew (lines 147-157, 292-299).
ExpiryIsHonest ==
    \A t \in Secrets : sec[t] # None /\ sec[t].lease # None =>
        sec[t].expires <= life[sec[t].lease]

\* The inductive invariant behind ExpiryIsHonest, as long as Vault grants what is
\* asked and revokes nothing.
ExpiryInv ==
    /\ ExpiryIsHonest
    /\ pc \in {"save", "force"} => life[seen.lease] = Term
    /\ pc = "upsert" => life[cred] = Term

\* Whatever templates came and went, every value in a Secret the operator wrote
\* is of the lease that the Secret names: no key is left with a login that is
\* no longer renewed (lines 172-179, 338-342).  Only a template that fails, whose
\* Secret has no hash, leaves the values of the last one beside the new login.
Fresh(s) ==
    s # None /\ s.owner # None /\ s.hash # None =>
        \A k \in Keys : s.data[k] \in {None, s.lease}

NoStaleLogin == \A t \in Secrets : Fresh(sec[t])

\* The inductive invariant behind NoStaleLogin: the copies are like the Secret, and
\* what is left to merge into is pruned.
FreshInv ==
    /\ NoStaleLogin
    /\ \A t \in Secrets : Fresh(sc[t])
    /\ pc \in {"claim", "check", "renew", "save", "force", "request", "upsert"} => Fresh(seen)
    /\ pc \in {"request", "upsert"} /\ obj.def.tmpl = {} /\ seen # None =>
         \A k \in Keys \ {Login} : seen.data[k] = None

KeysOf(s) == {k \in Keys : s.data[k] # None}

\* There is a login in the Secret, or what a template made of it.
HasLogin ==
    \A t \in Secrets : sec[t] # None /\ sec[t].owner # None =>
        KeysOf(sec[t]) \cap ({Login} \cup TemplateKeys) # {}

\* Live credentials that are not about to end, of a template that did not
\* change, stay in the Secret: no workload loses its login without need.  Only
\* a copy of the Secret that is old by now can make the controller replace them.
CredentialsStay ==
    [][\A t \in Secrets :
         (pc = "upsert" /\ pc' = "rollout" /\ t = secretName /\ sec[t] # None
            /\ seenIs = "same" /\ ~TemplateChanged(obj.def, sec[t])
            /\ isLeaseValid(obj.def, sec[t]))
         => Expiring(sec[t])]_vars

Alike(s, u) ==
    /\ s = None <=> u = None
    /\ s # None => s.lease = u.lease /\ s.hash = u.hash /\ s.expires = u.expires

\* The inductive invariant behind CredentialsStay, as long as Vault answers when
\* a lease is looked up: what the worker decided by is true of the Secret still.
StayInv ==
    /\ pc \in {"claim", "check", "request", "upsert"} /\ seenIs = "same" =>
         Alike(seen, sec[secretName])
    /\ pc \in {"request", "upsert"} /\ seen # None =>
         shouldUpdate(isLeaseValid(obj.def, seen))

\* The comment at line 200: "Because we're about to request a new credential,
\* revoke any possible old ones".
RevokesBeforeRequest ==
    [][(pc = "request" /\ pc' = "upsert" /\ seen # None /\ seen.lease # None)
       => life[seen.lease] = 0]_vars

\* Credentials in use: live, and of the role that the DbSecret asks for.
Serves(n) ==
    /\ sec[Target[n]] # None /\ sec[Target[n]].lease # None
    /\ isLeaseValid(ds[n].def, sec[Target[n]])

\* README.md: "you need these credentials in Kubernertes where your applications
\* are".  If leases that nobody renews end at last, a DbSecret has live credentials
\* of its role in its Secret again and again, whatever expired, was deleted or
\* failed before.
CredentialsReturn ==
    TimePasses => \A n \in Names \ Excluded : []<>(ds[n] # None /\ ~ds[n].del => Serves(n))

\* "Hash to check for changes later on" (line 365): a Secret ends up with the keys
\* that the template of its DbSecret gives it, although its credentials may stay
\* valid for ever, unless Vault's quota is used up.  This is of definitions that
\* do not renew: with renew, the renewal comes first and the template waits until
\* the lease is invalid.
TemplateApplied ==
    \A n \in Names \ Excluded :
        []<>(ds[n] # None /\ ~ds[n].del /\ sec[Target[n]] # None =>
               KeysOf(sec[Target[n]]) = Rendered(ds[n].def) \/ Free = {})

\* A deleted DbSecret goes away, and its Secret before it.
DeletionCompletes ==
    \A n \in Names \ Excluded : (ds[n] # None /\ ds[n].del) ~> ds[n] = None

\* README.md, rollout: "to make the pods use new credentials".
PodsCatchUp ==
    \A n \in Names \ Excluded : \A w \in Rollouts[n] :
        []<>(ds[n] # None /\ sec[Target[n]] # None =>
               running[w] = sec[Target[n]].lease)

-----------------------------------------------------------------------------
(* The controller implements DbCredentials *)

claimedNow == {n \in Names : Claimed(n)}
holderOf == [t \in Secrets |-> IF sec[t] = None THEN None ELSE sec[t].owner]
leaseIn == [t \in Secrets |-> IF sec[t] = None THEN None ELSE sec[t].lease]
inHand == {cred} \ {None}

Credentials == INSTANCE DbCredentials WITH
                 Nobody <- None, claimed <- claimedNow, holder <- holderOf,
                 lease <- leaseIn, granted <- inHand

\* Every lease goes into one Secret, once: no renewal that is written late, no
\* copy that is stale brings back credentials that were replaced, and none are
\* left in a Secret when its DbSecret goes (lines 299-315, 346-379).
ImplementsCredentials == Credentials!Spec
=============================================================================
