----------------------------- MODULE ValsSecret -----------------------------
(***************************************************************************)
(* The ValsSecret controller (controllers/valssecret_controller.go): one   *)
(* worker takes a key from the work queue, reads the ValsSecret and its    *)
(* target Secret through the informer cache, evaluates the references      *)
(* against the secrets store, writes the Secret and restarts the           *)
(* workloads that use it.                                                  *)
(*                                                                         *)
(* The API server, the informer cache, the work queue and the users are    *)
(* the environment.  The cache may lag behind the API server without       *)
(* bound; the operator may crash between any two steps.                    *)
(***************************************************************************)
EXTENDS Naturals, Integers, FiniteSets

CONSTANTS
    Names,        \* keys of ValsSecret objects
    Excluded,     \* the keys whose namespace is in -exclude-namespaces
    Secrets,      \* keys of the Secrets they write
    Target,       \* Spec.Name, or the name of the ValsSecret
    Defs,         \* definitions a user may apply: [ref, ttl, labels]
    Labels,       \* label and annotation keys that users put on objects
    Workloads,    \* Deployments and StatefulSets
    Rollouts,     \* the workloads a ValsSecret restarts
    Bare,         \* StatefulSets whose pod template has no annotations
    DbUsers,      \* the ValsSecrets that list databases
    DefaultTTL,   \* flag -ttl, in ticks
    MaxTTL,       \* bound: no definition has a larger ttl
    MaxErr,       \* bound: the error count saturates here
    Budget,       \* bound: disturbances by users, by the store, and crashes
    Faults,       \* which disturbances and failures happen
    None,         \* no object, no owner, no key
    Foreign       \* content written by somebody else than the operator

FaultKinds == {"lag", "crash", "api", "eval", "write", "lost", "db", "rollout",
               "delete", "tamper", "plant"}

\* What a definition evaluates to on version v of the secrets store.
Render(d, v) == <<d.ref, v>>
Contents == {Render(d, v) : d \in Defs, v \in 0 .. Budget} \cup {Foreign}

MaxAge == MaxTTL + 1
Ages == 0 .. MaxAge

ValsSecrets == [def : Defs, fin : BOOLEAN, del : BOOLEAN]
K8sSecrets == [data : Contents, labels : SUBSET Labels,
               owner : Names \cup {None}, age : Ages]

ASSUME SecretsAssumption ==
    /\ Excluded \subseteq Names /\ DbUsers \subseteq Names
    /\ Target \in [Names -> Secrets]
    /\ Rollouts \in [Names -> SUBSET Workloads] /\ Bare \subseteq Workloads
    /\ MaxTTL \in Nat /\ DefaultTTL \in 0 .. MaxTTL
    /\ \A d \in Defs : d.ttl \in Int /\ d.ttl <= MaxTTL /\ d.labels \subseteq Labels
    /\ MaxErr \in Nat /\ Budget \in Nat
    /\ Faults \subseteq FaultKinds
    /\ None \notin Names /\ None \notin ValsSecrets
    /\ None \notin K8sSecrets /\ None \notin Contents
    /\ \A d \in Defs, v \in 0 .. Budget : Foreign # Render(d, v)

VARIABLES
    vs,         \* ValsSecrets in the API server
    sec,        \* Secrets in the API server
    vc, sc,     \* the informer cache's copies of both
    vcOld,      \* names whose cached copy has an old resourceVersion
    reborn,     \* Secrets deleted and recreated since the cached copy: the UID differs
    vsEvt,      \* names with an undelivered event that passes the predicate
    secEvt,     \* same, for the owners of a Secret
    q,          \* the work queue
    pc, cur,    \* the worker: its step and its key
    obj,        \* its copy of the ValsSecret
    objOld,     \* the copy's resourceVersion is not the current one
    data,       \* the content it evaluated
    todo,       \* rollouts left to do
    errs,       \* errorCounts
    store,      \* version of the secrets store
    db,         \* the password set in the databases
    running,    \* what each workload's pods were last started with
    left        \* disturbances left

api == <<vs, sec>>
cache == <<vc, sc, vcOld, reborn, vsEvt, secEvt>>
worker == <<pc, cur, obj, objOld, data, todo>>
outside == <<store, db, running>>
vars == <<vs, sec, vc, sc, vcOld, reborn, vsEvt, secEvt, q, pc, cur, obj,
          objOld, data, todo, errs, store, db, running, left>>

Steps == {"idle", "claim", "delete", "release", "read", "eval", "upsert",
          "db", "rollout"}

ApiTypeOK ==
    /\ vs \in [Names -> ValsSecrets \cup {None}]
    /\ sec \in [Secrets -> K8sSecrets \cup {None}]

CacheTypeOK ==
    /\ vc \in [Names -> ValsSecrets \cup {None}]
    /\ sc \in [Secrets -> K8sSecrets \cup {None}]
    /\ vcOld \in SUBSET Names /\ reborn \in SUBSET Secrets
    /\ vsEvt \in SUBSET Names /\ secEvt \in [Secrets -> SUBSET Names]

WorkerTypeOK ==
    /\ pc \in Steps /\ objOld \in BOOLEAN /\ todo \in SUBSET Workloads
    /\ IF pc = "idle" THEN cur = None /\ obj = None
                      ELSE cur \in Names /\ obj \in ValsSecrets
    /\ IF pc \in {"upsert", "db", "rollout"} THEN data \in Contents
                                             ELSE data = None

QueueTypeOK ==
    /\ q \in [Names -> {"none", "later", "ready"}]
    /\ errs \in [Names -> 0 .. MaxErr]

\* Every version of the store was paid for out of the budget.
BudgetTypeOK == store \in Nat /\ left \in Nat /\ store + left <= Budget

OutsideTypeOK ==
    /\ db \in [Names -> Contents \cup {None}]
    /\ running \in [Workloads -> Contents \cup {None}]

\* The types of all variables; the worker's locals are set exactly while the
\* step it is in needs them.
TypeOK ==
    /\ ApiTypeOK /\ CacheTypeOK /\ WorkerTypeOK
    /\ QueueTypeOK /\ BudgetTypeOK /\ OutsideTypeOK

-----------------------------------------------------------------------------
(* Helpers *)

\* A write to a ValsSecret by somebody else makes every copy of it old.
Outdate(n) ==
    /\ vcOld' = vcOld \cup {n}
    /\ objOld' = (objOld \/ cur = n)

\* The owner of a Secret hears of its creation and deletion.  Updates of a
\* Secret never pass GenerationChangedPredicate: Secrets have no generation.
Notify(t, owner) ==
    secEvt' = [secEvt EXCEPT ![t] = @ \cup ({owner} \cap Names)]

\* Bring an item's due time forward.
Wake(queue, S) == [n \in Names |-> IF n \in S THEN "ready" ELSE queue[n]]

Requeue_Forgotten(n) == UNCHANGED q

\* AddAfter: an item that is already queued keeps the earlier time.
Requeue(n) == q' = [q EXCEPT ![n] = IF @ = "none" THEN "later" ELSE @]

\* The definitions with an underscore in their name are not part of the model:
\* each is a mistake the code could make, and some property fails with it.
Idle_KeepsData ==
    /\ pc' = "idle" /\ cur' = None /\ obj' = None /\ objOld' = FALSE
    /\ UNCHANGED data /\ todo' = {}

Idle ==
    /\ pc' = "idle" /\ cur' = None /\ obj' = None /\ objOld' = FALSE
    /\ data' = None /\ todo' = {}

Goto(step) == pc' = step /\ UNCHANGED <<cur, obj, objOld, data, todo>>

secretName == Target[cur]

TTL(d) == IF d.ttl <= 0 THEN DefaultTTL ELSE d.ttl

\* An age of MaxAge also stands for a missing or unreadable last-updated.
hasSecretExpired(d, s) == s.age > TTL(d) \/ s.age = MaxAge

secretNeedsUpdate_NewOnly(d, s, new) == s = None

\* The comparison without the annotations it ignores: last-updated differs.
secretNeedsUpdate_Always(d, s, new) == TRUE

secretNeedsUpdate(d, s, new) ==
    ~(s # None /\ s.data = new /\ s.labels = d.labels)

\* Lines 102-108: the finalizer is there, or is added first.
FirstStep_NoFinalizer(v) == "read"
FirstStep(v) == IF v.fin THEN "read" ELSE "claim"

clearErrorCount_Missed(n) == errs' = errs
clearErrorCount(n) == errs' = [errs EXCEPT ![n] = 0]

-----------------------------------------------------------------------------
Init ==
    /\ vs = [n \in Names |-> None] /\ vc = vs
    /\ sec = [t \in Secrets |-> None] /\ sc = sec
    /\ vcOld = {} /\ reborn = {} /\ vsEvt = {}
    /\ secEvt = [t \in Secrets |-> {}]
    /\ q = [n \in Names |-> "none"]
    /\ pc = "idle" /\ cur = None /\ obj = None /\ objOld = FALSE
    /\ data = None /\ todo = {}
    /\ errs = [n \in Names |-> 0]
    /\ store = 0 /\ db = [n \in Names |-> None]
    /\ running = [w \in Workloads |-> None]
    /\ left = Budget

-----------------------------------------------------------------------------
(* Users and the secrets store *)

Disturb == left > 0 /\ left' = left - 1

\* The generation counts changes of the spec: those of labels and annotations
\* alone do not pass the predicate.
SameSpec(d, e) == d.ref = e.ref /\ d.ttl = e.ttl

\* kubectl apply: create a ValsSecret or change its definition.
Apply(n, d) ==
    /\ Disturb
    /\ \/ vs[n] = None /\ vs' = [vs EXCEPT ![n] = [def |-> d, fin |-> FALSE, del |-> FALSE]]
       \/ /\ vs[n] # None /\ vs[n].def # d /\ ~vs[n].del
          /\ vs' = [vs EXCEPT ![n].def = d]
    /\ vsEvt' = IF vs[n] # None /\ SameSpec(vs[n].def, d) THEN vsEvt ELSE vsEvt \cup {n}
    /\ Outdate(n)
    /\ UNCHANGED <<sec, vc, sc, reborn, secEvt, q, pc, cur, obj, data, todo,
                   errs, store, db, running>>

\* kubectl delete: the object stays while it has a finalizer.
Delete(n) ==
    /\ "delete" \in Faults /\ Disturb
    /\ vs[n] # None /\ ~vs[n].del
    /\ vs' = [vs EXCEPT ![n] = IF @.fin THEN [@ EXCEPT !.del = TRUE] ELSE None]
    /\ vsEvt' = vsEvt \cup {n} /\ Outdate(n)
    /\ UNCHANGED <<sec, vc, sc, reborn, secEvt, q, pc, cur, obj, data, todo,
                   errs, store, db, running>>

\* A user deletes the Secret, or edits its data or its labels and annotations.
Tamper(t) ==
    /\ "tamper" \in Faults /\ Disturb
    /\ sec[t] # None
    /\ \/ sec' = [sec EXCEPT ![t] = None] /\ Notify(t, sec[t].owner)
       \/ sec' = [sec EXCEPT ![t].data = Foreign] /\ UNCHANGED secEvt
       \/ /\ \E l \in SUBSET Labels : sec' = [sec EXCEPT ![t].labels = l]
          /\ UNCHANGED secEvt
    /\ UNCHANGED <<vs, vc, sc, vcOld, reborn, vsEvt, q, worker, errs, outside>>

\* A user creates a Secret of that name by hand.
Plant(t) ==
    /\ "plant" \in Faults /\ Disturb
    /\ sec[t] = None
    /\ \E l \in SUBSET Labels :
         sec' = [sec EXCEPT ![t] = [data |-> Foreign, labels |-> l,
                                    owner |-> None, age |-> MaxAge]]
    /\ reborn' = IF sc[t] # None THEN reborn \cup {t} ELSE reborn
    /\ UNCHANGED <<vs, vc, sc, vcOld, vsEvt, secEvt, q, worker, errs, outside>>

\* A value in the secrets store changes.
StoreChange ==
    /\ Disturb
    /\ store' = store + 1
    /\ UNCHANGED <<api, cache, q, worker, errs, db, running>>

Older(s) == IF s # None /\ s.age < MaxAge THEN [s EXCEPT !.age = @ + 1] ELSE s

\* Time passes: the last-updated annotation of every copy gets older.
Tick ==
    /\ \E t \in Secrets : Older(sec[t]) # sec[t] \/ Older(sc[t]) # sc[t]
    /\ sec' = [t \in Secrets |-> Older(sec[t])]
    /\ sc' = [t \in Secrets |-> Older(sc[t])]
    /\ UNCHANGED <<vs, vc, vcOld, reborn, vsEvt, secEvt, q, worker, errs, outside, left>>

-----------------------------------------------------------------------------
(* The informer cache and the work queue *)

DeliverVals(n) ==
    /\ n \in vcOld
    /\ vc' = [vc EXCEPT ![n] = vs[n]]
    /\ vcOld' = vcOld \ {n} /\ vsEvt' = vsEvt \ {n}
    /\ q' = IF n \in vsEvt THEN Wake(q, {n}) ELSE q
    /\ UNCHANGED <<api, sc, reborn, secEvt, worker, errs, outside, left>>

DeliverSecret(t) ==
    /\ sc[t] # sec[t] \/ secEvt[t] # {} \/ t \in reborn
    /\ sc' = [sc EXCEPT ![t] = sec[t]]
    /\ reborn' = reborn \ {t}
    /\ secEvt' = [secEvt EXCEPT ![t] = {}]
    /\ q' = Wake(q, secEvt[t])
    /\ UNCHANGED <<api, vc, vcOld, vsEvt, worker, errs, outside, left>>

\* A RequeueAfter or a rate-limited retry falls due.
Due(n) ==
    /\ q[n] = "later" /\ q' = [q EXCEPT ![n] = "ready"]
    /\ UNCHANGED <<api, cache, worker, errs, outside, left>>

CaughtUp == vcOld = {} /\ \A t \in Secrets : sc[t] = sec[t] /\ secEvt[t] = {}

\* The operator is killed and starts again: the queue, the error counts and
\* the worker are lost, the cache is listed anew and every object is queued.
Crash ==
    /\ "crash" \in Faults /\ Disturb
    /\ Idle
    /\ vc' = vs /\ sc' = sec
    /\ vcOld' = {} /\ reborn' = {} /\ vsEvt' = {}
    /\ secEvt' = [t \in Secrets |-> {}]
    /\ q' = [n \in Names |-> IF vs[n] = None THEN "none" ELSE "ready"]
    /\ errs' = [n \in Names |-> 0]
    /\ UNCHANGED <<api, outside>>

-----------------------------------------------------------------------------
(* Reconcile *)

Keep == UNCHANGED <<vs, sec, vc, sc, vcOld, reborn, vsEvt, secEvt,
                    store, db, running, left>>

\* The worker takes a key; the cached copy decides what the reconcile does.
Pick(n) ==
    /\ pc = "idle" /\ q[n] = "ready"
    /\ "lag" \in Faults \/ CaughtUp
    /\ q' = [q EXCEPT ![n] = "none"]
    /\ Keep

Start(n, step) ==
    /\ pc' = step /\ cur' = n /\ obj' = vc[n] /\ objOld' = (n \in vcOld)
    /\ data' = None /\ todo' = {}

\* Not found, or in an excluded namespace: the key is forgotten.
PickIgnored(n) ==
    /\ Pick(n)
    /\ vc[n] = None \/ n \in Excluded
    /\ UNCHANGED <<worker, errs>>

PickLive(n) ==
    /\ Pick(n)
    /\ vc[n] # None /\ n \notin Excluded /\ ~vc[n].del
    /\ Start(n, FirstStep(vc[n]))
    /\ UNCHANGED errs

PickDeleting(n) ==
    /\ Pick(n)
    /\ vc[n] # None /\ n \notin Excluded /\ vc[n].del /\ vc[n].fin
    /\ Start(n, "delete")
    /\ clearErrorCount(n)

\* Update with the copy's resourceVersion: refused when the copy is old.
Claiming ==
    /\ pc = "claim" /\ ~objOld
    /\ vs' = [vs EXCEPT ![cur] = [obj EXCEPT !.fin = TRUE]]
    /\ vcOld' = vcOld \cup {cur}
    /\ UNCHANGED <<sec, vc, sc, reborn, vsEvt, secEvt, errs, outside, left>>

AddFinalizer ==
    /\ Claiming
    /\ obj' = [obj EXCEPT !.fin = TRUE] /\ pc' = "read"
    /\ UNCHANGED <<q, cur, objOld, data, todo>>

DeleteSecret_Unchecked ==
    /\ pc = "delete" /\ Goto("release")
    /\ UNCHANGED <<api, cache, q, errs, outside, left>>

\* deleteSecret: by name, and a Secret that is not there is no error.
Deleting ==
    /\ pc = "delete"
    /\ sec' = [sec EXCEPT ![secretName] = None]
    /\ IF sec[secretName] = None THEN UNCHANGED secEvt
                                 ELSE Notify(secretName, sec[secretName].owner)
    /\ UNCHANGED <<vs, vc, sc, vcOld, reborn, vsEvt, errs, outside, left>>

DeleteSecret == Deleting /\ Goto("release") /\ UNCHANGED q

\* The last finalizer goes, and with it the object.
Releasing ==
    /\ pc = "release" /\ ~objOld
    /\ vs' = [vs EXCEPT ![cur] = None]
    /\ vcOld' = vcOld \cup {cur} /\ vsEvt' = vsEvt \cup {cur}
    /\ UNCHANGED <<sec, vc, sc, reborn, secEvt, errs, outside, left>>

RemoveFinalizer == Releasing /\ Idle /\ UNCHANGED q

ApiError_Swallowed ==
    /\ pc \in {"claim", "delete", "release"} /\ (objOld \/ "api" \in Faults)
    /\ Idle
    /\ Keep /\ UNCHANGED <<q, errs>>

\* A call of the finalizer section is refused, or the Secret cannot be read: the
\* error is returned and the key retried with a delay.
ApiError ==
    /\ \/ pc \in {"claim", "release"} /\ objOld
       \/ pc \in {"claim", "delete", "release", "read"} /\ "api" \in Faults
    /\ Requeue(cur) /\ Idle
    /\ Keep /\ UNCHANGED errs

Finish ==
    /\ Requeue(cur) /\ Idle /\ Keep

WithinTTL ==
    sc[secretName] # None /\ ~hasSecretExpired(obj.def, sc[secretName])

\* The cached Secret has not outlived its TTL: nothing to do in this period.
NotExpired ==
    /\ pc = "read" /\ WithinTTL
    /\ Finish /\ UNCHANGED errs

Expired ==
    /\ pc = "read" /\ ~WithinTTL
    /\ Goto("eval")
    /\ Keep /\ UNCHANGED <<q, errs>>

Eval_OldReplica ==
    /\ pc = "eval"
    /\ \E v \in 0 .. store : data' = Render(obj.def, v)
    /\ pc' = "upsert"
    /\ Keep /\ UNCHANGED <<q, cur, obj, objOld, todo, errs>>

\* vals.Eval, base64 decoding and the templates.
Eval ==
    /\ pc = "eval"
    /\ data' = Render(obj.def, store)
    /\ pc' = "upsert"
    /\ Keep /\ UNCHANGED <<q, cur, obj, objOld, todo, errs>>

\* A reference cannot be read or decoded: errorBackoff.  Its Update of the
\* unchanged object changes nothing, whether it is refused or not.
EvalError ==
    /\ pc = "eval" /\ "eval" \in Faults
    /\ errs' = [errs EXCEPT ![cur] = IF @ < MaxErr THEN @ + 1 ELSE @]
    /\ Finish

\* upsertSecret finds nothing to update: last-updated stays as it is.
UpsertSkip ==
    /\ pc = "upsert"
    /\ ~secretNeedsUpdate(obj.def, sc[secretName], data)
    /\ clearErrorCount(cur)
    /\ Finish

\* The Secret to write: labels and annotations are merged into the cached copy's.
Upserted ==
    [data |-> data, owner |-> cur, age |-> 0,
     labels |-> obj.def.labels \cup
                (IF sc[secretName] = None THEN {} ELSE sc[secretName].labels)]

Controllable_Always == TRUE

\* SetControllerReference refuses a copy that another object controls.
Controllable ==
    ~(sc[secretName] # None /\ sc[secretName].owner \notin {None, cur})

\* Create, or Update without a resourceVersion; an Update that carries the UID
\* of a Secret since deleted is refused.
Upserting ==
    /\ pc = "upsert"
    /\ secretNeedsUpdate(obj.def, sc[secretName], data)
    /\ Controllable
    /\ sec[secretName] = None \/ secretName \notin reborn
    /\ sec' = [sec EXCEPT ![secretName] = Upserted]
    /\ IF sec[secretName] # None
       THEN UNCHANGED <<secEvt, reborn>>
       ELSE /\ Notify(secretName, cur)
            /\ reborn' = IF sc[secretName] = None THEN reborn
                                                  ELSE reborn \cup {secretName}
    /\ UNCHANGED <<vs, vc, sc, vcOld, vsEvt, errs, outside, left>>

UpsertSecret == Upserting /\ Goto("db") /\ UNCHANGED q

\* Any error of upsertSecret: logged, and the reconcile ends with an empty
\* Result and no error, so the key is neither retried nor requeued.
UpsertError ==
    /\ pc = "upsert"
    /\ secretNeedsUpdate(obj.def, sc[secretName], data)
    /\ \/ ~Controllable
       \/ sec[secretName] # None /\ secretName \in reborn
       \/ "write" \in Faults
    /\ Idle
    /\ Keep /\ UNCHANGED <<q, errs>>

\* A call of the API server takes effect and its answer is lost: the code goes
\* on as if it had failed.
AnswerLost ==
    /\ "lost" \in Faults
    /\ \/ (Claiming \/ Deleting \/ Releasing) /\ Requeue(cur)
       \/ Upserting /\ UNCHANGED q
    /\ Idle

UpdateDatabases_OldCopy ==
    /\ pc = "db"
    /\ db' = [db EXCEPT ![cur] = IF sc[secretName] = None THEN None
                                 ELSE sc[secretName].data]
    /\ pc' = "rollout" /\ todo' = Rollouts[cur]
    /\ UNCHANGED <<api, cache, q, cur, obj, objOld, data, errs, store, running, left>>

UpdateDatabases_NoRollout ==
    /\ pc = "db"
    /\ db' = [db EXCEPT ![cur] = data]
    /\ pc' = "rollout" /\ todo' = {}
    /\ UNCHANGED <<api, cache, q, cur, obj, objOld, data, errs, store, running, left>>

\* updateDatabases, the last part of upsertSecret: every database has the password.
UpdateDatabases ==
    /\ pc = "db"
    /\ db' = IF cur \in DbUsers THEN [db EXCEPT ![cur] = data] ELSE db
    /\ pc' = "rollout" /\ todo' = Rollouts[cur]
    /\ UNCHANGED <<api, cache, q, cur, obj, objOld, data, errs, store, running, left>>

\* The login cannot be found, or a statement fails: the error is only logged.
DatabaseError ==
    /\ pc = "db" /\ cur \in DbUsers /\ "db" \in Faults
    /\ pc' = "rollout" /\ todo' = Rollouts[cur]
    /\ Keep /\ UNCHANGED <<q, cur, obj, objOld, data, errs>>

\* A host of an elastic database cannot be reached: the driver uses the response
\* it has not got and panics (db/elastic/elastic.go line 63); the controller
\* recovers and retries the key.
DatabasePanic ==
    /\ pc = "db" /\ cur \in DbUsers /\ "db" \in Faults
    /\ Finish /\ UNCHANGED errs

\* Restart a workload: its pods start with the Secret as it is now.
Rollout(w) ==
    /\ pc = "rollout" /\ w \in todo \ Bare
    /\ running' = [running EXCEPT ![w] = IF sec[secretName] = None THEN None
                                         ELSE sec[secretName].data]
    /\ todo' = todo \ {w}
    /\ UNCHANGED <<api, cache, q, pc, cur, obj, objOld, data, errs, store, db, left>>

\* The workload is missing or cannot be updated: logged, the next one is tried.
RolloutError(w) ==
    /\ pc = "rollout" /\ w \in todo /\ "rollout" \in Faults
    /\ todo' = todo \ {w}
    /\ Keep /\ UNCHANGED <<q, pc, cur, obj, objOld, data, errs>>

\* A StatefulSet without pod annotations: the assignment to the nil map panics
\* (line 597), the controller recovers and retries the key.
RolloutPanic(w) ==
    /\ pc = "rollout" /\ w \in todo \cap Bare
    /\ Finish /\ UNCHANGED errs

Done ==
    /\ pc = "rollout" /\ todo = {}
    /\ clearErrorCount(cur)
    /\ Finish

-----------------------------------------------------------------------------
Environment ==
    \/ \E n \in Names, d \in Defs : Apply(n, d)
    \/ \E n \in Names : Delete(n)
    \/ \E t \in Secrets : Tamper(t) \/ Plant(t)
    \/ StoreChange

Plumbing ==
    \/ \E n \in Names : DeliverVals(n) \/ Due(n)
    \/ \E t \in Secrets : DeliverSecret(t)
    \/ Tick

\* The steps of a reconcile that go forward.
Progress ==
    \/ AddFinalizer \/ DeleteSecret \/ RemoveFinalizer
    \/ NotExpired \/ Expired \/ Eval \/ UpsertSkip \/ UpsertSecret
    \/ UpdateDatabases \/ Done
    \/ \E w \in Workloads : Rollout(w)

Errors ==
    \/ ApiError \/ EvalError \/ UpsertError \/ AnswerLost
    \/ DatabaseError \/ DatabasePanic
    \/ \E w \in Workloads : RolloutError(w) \/ RolloutPanic(w)

Reconcile ==
    \/ \E n \in Names : PickIgnored(n) \/ PickLive(n) \/ PickDeleting(n)
    \/ Progress \/ Errors

Next == Environment \/ Plumbing \/ Reconcile \/ Crash

Spec == Init /\ [][Next]_vars

(***************************************************************************)
(* Time passes, the cache catches up, delays elapse.  The queue hands out  *)
(* every ready key.  A worker inside Reconcile goes on, with a success or  *)
(* an error, and a call that is retried for ever succeeds at last.         *)
(***************************************************************************)
Fairness ==
    /\ WF_vars(Tick)
    /\ \A n \in Names :
         /\ WF_vars(DeliverVals(n)) /\ WF_vars(Due(n))
         /\ SF_vars(PickIgnored(n) \/ PickLive(n) \/ PickDeleting(n))
    /\ \A t \in Secrets : WF_vars(DeliverSecret(t))
    /\ WF_vars(Reconcile)
    /\ SF_vars(AddFinalizer) /\ SF_vars(DeleteSecret) /\ SF_vars(RemoveFinalizer)
    /\ SF_vars(NotExpired \/ Expired) /\ SF_vars(Eval) /\ SF_vars(UpsertSecret)

FairSpec == Spec /\ Fairness

-----------------------------------------------------------------------------
(* Properties *)

\* The object cannot vanish before the controller takes its finalizer away.
Claimed(n) == vs[n] # None /\ vs[n].fin

\* A Secret the operator wrote never outlives the ValsSecret that owns it:
\* while it exists, its owner exists and still carries the finalizer, through
\* stale cache reads, conflicts and crashes (lines 100-131, 321-327).
NoOrphan ==
    \A t \in Secrets : sec[t] # None /\ sec[t].owner # None => Claimed(sec[t].owner)

\* errorCounts has no entry for a ValsSecret that is gone: deleting clears it
\* before the finalizer goes, and nothing counts again after (lines 111, 513).
NoErrorCountLeft == \A n \in Names : errs[n] > 0 => Claimed(n)

OwnedAtTarget ==
    \A t \in Secrets : sec[t] # None /\ sec[t].owner # None => Target[sec[t].owner] = t

CacheIsCurrent == \A n \in Names \ vcOld : vc[n] = vs[n]

\* However old, a cached copy that is live and has the finalizer is no illusion.
CachedClaims ==
    \A n \in Names : vc[n] # None /\ vc[n].fin /\ ~vc[n].del => Claimed(n)

WorkerClaims ==
    /\ pc \in {"read", "eval", "upsert", "db", "rollout"} => Claimed(cur)
    /\ pc \in {"claim", "delete", "release"} /\ ~objOld =>
         cur \notin vcOld /\ vs[cur] = obj
    /\ pc \in {"delete", "release"} => obj.del /\ obj.fin /\ errs[cur] = 0
    /\ pc = "release" => ~(sec[secretName] # None /\ sec[secretName].owner = cur)

\* The inductive invariant behind NoOrphan and NoErrorCountLeft.
LifeInv ==
    /\ NoOrphan /\ OwnedAtTarget /\ NoErrorCountLeft
    /\ CacheIsCurrent /\ CachedClaims /\ WorkerClaims

\* Every ValsSecret that is not excluded has a future: it is queued, being
\* reconciled, or an event that will queue it is on its way.
NoLostWork ==
    \A n \in Names \ Excluded : vs[n] # None =>
        \/ q[n] # "none" \/ cur = n
        \/ n \in vsEvt \/ \E t \in Secrets : n \in secEvt[t]

\* Every call that fails is tried again, and users create no Secrets by hand.
RetriedOnly == Faults \cap {"write", "lost", "plant"} = {}

\* No two ValsSecrets write the same Secret.
OwnTargets == \A m, n \in Names : Target[m] = Target[n] => m = n

\* The inductive invariant behind NoLostWork: what the cache does not have yet,
\* or has of a Secret since replaced, comes with an event that queues its key.
WorkInv ==
    /\ NoLostWork
    /\ \A n \in Names : vs[n] # None /\ vc[n] = None => n \in vsEvt
    /\ \A n \in Names : Target[n] \in reborn => n \in secEvt[Target[n]]
    /\ \A t \in Secrets : sc[t] # None /\ sc[t].owner # None => Target[sc[t].owner] = t

\* A newer version of the store is never overwritten by an older one, although
\* the value is read long before it is written and the write is unconditional.
NeverRegresses ==
    [][\A t \in Secrets :
         (sec[t] # None /\ sec'[t] # None /\ Foreign \notin {sec[t].data, sec'[t].data})
         => sec'[t].data[2] >= sec[t].data[2]]_vars

\* Of two ValsSecrets that name the same Secret, the second cannot take it from
\* the first, unless the informer has not yet shown it whose Secret that is.
NoTakeover ==
    [][\A t \in Secrets :
         (sec[t] # None /\ sec'[t] # None /\ sec[t].owner # None
            /\ sc[t] # None /\ sc[t].owner = sec[t].owner)
         => sec'[t].owner = sec[t].owner]_vars

\* What README.md promises: "The secret will be kept in sync".  Once users and
\* the store are quiet, every Secret ends up with what its ValsSecret says.
InSync ==
    \A n \in Names \ Excluded : vs[n] # None /\ ~vs[n].del =>
        /\ sec[Target[n]] # None
        /\ sec[Target[n]].data = Render(vs[n].def, store)

Converges == <>[]InSync

\* A ValsSecret that a user deletes goes away, and its Secret before it.
DeletionCompletes ==
    \A n \in Names \ Excluded : (vs[n] # None /\ vs[n].del) ~> vs[n] = None

\* What a write can change in a Secret, last-updated apart.
Content(s) == IF s = None THEN None ELSE <<s.data, s.labels>>

\* CHANGELOG.md: no rollout "when a secret value was checked but not updated".
\* A write, which restarts the workloads, changes the Secret, unless the informer
\* has not yet shown what is in it.
RolloutOnlyOnChange ==
    [][\A n \in Names :
         (cur = n /\ pc = "upsert" /\ pc' = "db" /\ sc[Target[n]] = sec[Target[n]])
         => Content(sec'[Target[n]]) # Content(sec[Target[n]])]_vars

\* A Secret that has what the worker's definition says and the store holds, its
\* labels included, is not written and its workloads not restarted, however long
\* ago the value was read, unless the informer has not yet shown it so.
SettledIsLeftAlone ==
    [][\A n \in Names :
         (cur = n /\ pc = "upsert" /\ pc' = "db"
            /\ sec[Target[n]] # None /\ sc[Target[n]] = sec[Target[n]])
         => \/ sec[Target[n]].data # Render(obj.def, store)
            \/ sec[Target[n]].labels # obj.def.labels]_vars

-----------------------------------------------------------------------------
(* The controller implements ValsSync *)

syncHolder == [t \in Secrets |-> IF sec[t] = None THEN None ELSE sec[t].owner]

syncVersion == [t \in Secrets |->
                  IF sec[t] = None THEN -1
                  ELSE IF sec[t].data = Foreign THEN -1 ELSE sec[t].data[2]]

Sync == INSTANCE ValsSync WITH
          Nobody <- None,
          claimed <- {n \in Names : Claimed(n)},
          holder <- syncHolder, version <- syncVersion

\* The inductive invariant behind NeverRegresses and ImplementsSync: what is in
\* the Secret, and what the worker is about to put there, comes from the store.
VersionInv ==
    /\ \A t \in Secrets : syncVersion[t] <= store
    /\ pc = "upsert" => \E v \in 0 .. store : /\ data = Render(obj.def, v)
                                               /\ syncVersion[secretName] <= v

\* A Secret is published only while its ValsSecret is claimed, never with an
\* older value than it has, and a ValsSecret leaves only when it holds nothing.
ImplementsSync == Sync!Spec

=============================================================================
