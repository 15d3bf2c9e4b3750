--------------------------- MODULE ValsWorkProofs ---------------------------
(* No ValsSecret is forgotten, and none takes the Secret of another.         *)
EXTENDS ValsSecretProofs

LEMMA TypeNow ==
    ASSUME TypeOK
    PROVE  /\ vs \in [Names -> ValsSecrets \cup {None}]
           /\ sec \in [Secrets -> K8sSecrets \cup {None}]
           /\ vc \in [Names -> ValsSecrets \cup {None}]
           /\ sc \in [Secrets -> K8sSecrets \cup {None}]
           /\ vcOld \in SUBSET Names /\ reborn \in SUBSET Secrets
           /\ vsEvt \in SUBSET Names /\ secEvt \in [Secrets -> SUBSET Names]
           /\ q \in [Names -> {"none", "later", "ready"}]
           /\ pc = "idle" => cur = None
           /\ pc # "idle" => cur \in Names /\ obj \in ValsSecrets /\ secretName \in Secrets
BY ConstantTypes DEF TypeOK, ApiTypeOK, CacheTypeOK, WorkerTypeOK, QueueTypeOK, secretName

-----------------------------------------------------------------------------
(* What reaches the cache *)

\* A ValsSecret that the cache does not have yet has an event.
Announced == \A n \in Names : vs[n] # None /\ vc[n] = None => n \in vsEvt

LEMMA AnnouncedStep ==
    ASSUME TypeOK, LifeInv, Announced, [Next]_vars
    PROVE  Announced'
<1>1. ASSUME NEW n \in Names, (\E d \in Defs : Apply(n, d)) \/ Delete(n) PROVE Announced'
  <2>1. /\ UNCHANGED vc /\ vsEvt \subseteq vsEvt' /\ (n \in vsEvt' \/ vs[n] # None)
        /\ \A m \in Names \ {n} : vs'[m] = vs[m]
    BY <1>1, TypeNow DEF Apply, Delete
  <2> QED
    BY <2>1 DEF Announced
<1>2. CASE Claiming
  <2>1. cur \in Names /\ vs[cur] # None /\ UNCHANGED <<vc, vsEvt>>
    BY <1>2, TypeNow, SecretsAssumption DEF Claiming, LifeInv, WorkerClaims
  <2>2. \A m \in Names \ {cur} : vs'[m] = vs[m]
    BY <1>2, TypeNow DEF Claiming
  <2> QED
    BY <2>1, <2>2 DEF Announced
<1>3. CASE Releasing
  <2>1. UNCHANGED vc /\ vsEvt \subseteq vsEvt' /\ \A m \in Names : vs'[m] \in {vs[m], None}
    BY <1>3, TypeNow DEF Releasing
  <2> QED
    BY <2>1 DEF Announced
<1>4. ASSUME NEW n \in Names, DeliverVals(n) PROVE Announced'
  <2>1. /\ UNCHANGED vs /\ vsEvt' = vsEvt \ {n} /\ vc'[n] = vs[n]
        /\ \A m \in Names \ {n} : vc'[m] = vc[m]
    BY <1>4, TypeNow DEF DeliverVals, api
  <2> QED
    BY <2>1 DEF Announced
<1>5. CASE Crash
  BY <1>5 DEF Crash, Announced, api
<1>6. CASE UNCHANGED <<vs, vc, vsEvt>>
  BY <1>6 DEF Announced
<1>7. Environment =>
        \/ \E n \in Names : (\E d \in Defs : Apply(n, d)) \/ Delete(n)
        \/ UNCHANGED <<vs, vc, vsEvt>>
  BY DEF Environment, Tamper, Plant, StoreChange, api, cache
<1>8. Plumbing => (\E n \in Names : DeliverVals(n)) \/ UNCHANGED <<vs, vc, vsEvt>>
  BY DEF Plumbing, Due, DeliverSecret, Tick, api, cache
<1>9. ASSUME NEW n \in Names, PickIgnored(n) \/ PickLive(n) \/ PickDeleting(n)
      PROVE  UNCHANGED <<vs, vc, vsEvt>>
  BY <1>9 DEF PickIgnored, PickLive, PickDeleting, Pick, Keep
<1>10. Progress /\ ~Claiming /\ ~Releasing => UNCHANGED <<vs, vc, vsEvt>>
  BY DEF Progress, AddFinalizer, DeleteSecret, Deleting, RemoveFinalizer, NotExpired, Expired,
     Eval, UpsertSkip, UpsertSecret, Upserting, UpdateDatabases, Done, Rollout, Finish, Keep,
     api, cache
<1>11. Errors /\ ~Claiming /\ ~Releasing => UNCHANGED <<vs, vc, vsEvt>>
  BY DEF Errors, AnswerLost, Deleting, Upserting, ApiError, EvalError, UpsertError,
     RolloutError, RolloutPanic, DatabaseError, DatabasePanic, Finish, Keep
<1> QED
  BY <1>1, <1>2, <1>3, <1>4, <1>5, <1>6, <1>7, <1>8, <1>9, <1>10, <1>11
     DEF Next, Reconcile, vars

\* The steps that change what the cache knows of Secrets.
LEMMA SecretCacheWriters ==
    ASSUME TypeOK, [Next]_vars
    PROVE  \/ Tick \/ Crash \/ Upserting
           \/ \E t \in Secrets : DeliverSecret(t) \/ Plant(t)
           \/ /\ UNCHANGED <<sc, reborn>>
              /\ \A t \in Secrets : secEvt[t] \subseteq secEvt'[t]
<1> DEFINE Grows == /\ UNCHANGED <<sc, reborn>>
                    /\ \A t \in Secrets : secEvt[t] \subseteq secEvt'[t]
<1>1. UNCHANGED <<sc, reborn, secEvt>> => Grows
  OBVIOUS
<1>2. ASSUME NEW t \in Secrets, NEW o, Notify(t, o), UNCHANGED <<sc, reborn>> PROVE Grows
  BY <1>2, TypeNow DEF Notify
<1>3. ASSUME NEW t \in Secrets, Tamper(t) PROVE Grows
  BY <1>1, <1>2, <1>3 DEF Tamper
<1>4. ASSUME Deleting PROVE Grows
  <2>1. secretName \in Secrets
    BY <1>4, TypeNow DEF Deleting
  <2> QED
    BY <1>1, <1>2, <1>4, <2>1 DEF Deleting
<1>5. Environment => (\E t \in Secrets : Plant(t)) \/ Grows
  BY <1>1, <1>3 DEF Environment, Apply, Delete, StoreChange, cache
<1>6. Plumbing => Tick \/ (\E t \in Secrets : DeliverSecret(t)) \/ Grows
  BY <1>1 DEF Plumbing, DeliverVals, Due, cache
<1>7. ASSUME NEW n \in Names, PickIgnored(n) \/ PickLive(n) \/ PickDeleting(n) PROVE Grows
  BY <1>1, <1>7 DEF PickIgnored, PickLive, PickDeleting, Pick, Keep
<1>8. Progress => Upserting \/ Grows
  BY <1>1, <1>4 DEF Progress, AddFinalizer, Claiming, DeleteSecret, RemoveFinalizer, Releasing,
     NotExpired, Expired, Eval, UpsertSkip, UpsertSecret, UpdateDatabases, Done, Rollout,
     Finish, Keep, cache
<1>9. Errors => Upserting \/ Grows
  BY <1>1, <1>4 DEF Errors, AnswerLost, Claiming, Releasing, ApiError, EvalError, UpsertError,
     RolloutError, RolloutPanic, DatabaseError, DatabasePanic, Finish, Keep
<1>10. UNCHANGED vars => Grows
  BY <1>1 DEF vars
<1> HIDE DEF Grows
<1>11. (Plumbing \/ Crash \/ Environment \/ UNCHANGED vars) =>
         \/ Tick \/ Crash \/ (\E t \in Secrets : DeliverSecret(t) \/ Plant(t)) \/ Grows
  BY <1>5, <1>6, <1>10
<1>12. Reconcile => Upserting \/ Grows
  BY <1>7, <1>8, <1>9 DEF Reconcile
<1>13. Tick \/ Crash \/ Upserting \/ (\E t \in Secrets : DeliverSecret(t) \/ Plant(t)) \/ Grows
  BY <1>11, <1>12 DEF Next
<1> QED
  BY <1>13 DEF Grows

CachedAtTarget ==
    \A t \in Secrets : sc[t] # None /\ sc[t].owner # None => Target[sc[t].owner] = t

LEMMA CachedAtTargetStep ==
    ASSUME TypeOK, LifeInv, CachedAtTarget, [Next]_vars
    PROVE  CachedAtTarget'
<1>1. CASE Tick
  BY <1>1, OlderSecret, TypeNow DEF Tick, CachedAtTarget
<1>2. CASE Crash
  BY <1>2 DEF Crash, CachedAtTarget, LifeInv, OwnedAtTarget
<1>3. ASSUME NEW t \in Secrets, DeliverSecret(t) PROVE CachedAtTarget'
  BY <1>3, TypeNow DEF DeliverSecret, CachedAtTarget, LifeInv, OwnedAtTarget
<1>4. CASE UNCHANGED sc
  BY <1>4 DEF CachedAtTarget
<1>5. Upserting \/ (\E t \in Secrets : Plant(t)) => UNCHANGED sc
  BY DEF Upserting, Plant
<1> QED
  BY <1>1, <1>2, <1>3, <1>4, <1>5, SecretCacheWriters

\* A Secret that replaced the one in the cache has an event for its owner.
RebornHeard == \A n \in Names : Target[n] \in reborn => n \in secEvt[Target[n]]

LEMMA RebornStep ==
    ASSUME TypeOK, RetriedOnly, OwnTargets, RebornHeard, [Next]_vars
    PROVE  RebornHeard'
<1>1. CASE Tick
  BY <1>1 DEF Tick, RebornHeard
<1>2. CASE Crash
  BY <1>2 DEF Crash, RebornHeard
<1>3. ASSUME NEW t \in Secrets, DeliverSecret(t) PROVE RebornHeard'
  <2>1. reborn' = reborn \ {t} /\ \A u \in Secrets \ {t} : secEvt'[u] = secEvt[u]
    BY <1>3, TypeNow DEF DeliverSecret
  <2> QED
    BY <2>1, ConstantTypes DEF RebornHeard
<1>4. CASE Upserting
  <2>1. cur \in Names /\ secretName \in Secrets /\ secretName = Target[cur]
    BY <1>4, TypeNow DEF Upserting, secretName
  <2>2. CASE UNCHANGED <<reborn, secEvt>>
    BY <2>2 DEF RebornHeard
  <2>3. CASE Notify(secretName, cur) /\ reborn' \subseteq reborn \cup {secretName}
    <3>1. /\ secEvt' \in [Secrets -> SUBSET Names] /\ cur \in secEvt'[secretName]
          /\ \A u \in Secrets : secEvt[u] \subseteq secEvt'[u]
      BY <2>1, <2>3, TypeNow DEF Notify
    <3> QED
      BY <2>1, <2>3, <3>1, ConstantTypes DEF RebornHeard, OwnTargets
  <2> QED
    BY <1>4, <2>2, <2>3 DEF Upserting
<1>5. ~\E t \in Secrets : Plant(t)
  BY DEF Plant, RetriedOnly
<1>6. CASE UNCHANGED reborn /\ \A t \in Secrets : secEvt[t] \subseteq secEvt'[t]
  BY <1>6, ConstantTypes DEF RebornHeard
<1> QED
  BY <1>1, <1>2, <1>3, <1>4, <1>5, <1>6, SecretCacheWriters

-----------------------------------------------------------------------------
(* Every ValsSecret has a future *)

Coming(n) == q[n] # "none" \/ n \in vsEvt \/ \E t \in Secrets : n \in secEvt[t]

LEMMA WorkDef ==
    NoLostWork <=> \A n \in Names \ Excluded : vs[n] # None => Coming(n) \/ cur = n
BY DEF NoLostWork, Coming

\* upsertSecret fails only when the cache is behind, and an event says so.
LEMMA UpsertErrorHeard ==
    ASSUME TypeOK, RetriedOnly, OwnTargets, CachedAtTarget, RebornHeard, UpsertError
    PROVE  cur \in Names /\ Coming(cur)
<1>1. cur \in Names /\ secretName \in Secrets /\ secretName = Target[cur]
  BY TypeNow DEF UpsertError, secretName
<1>2. Controllable
  <2>1. sc[secretName] # None =>
          /\ sc[secretName].owner \in Names \cup {None}
          /\ sc[secretName].owner # None => Target[sc[secretName].owner] = secretName
    BY <1>1, TypeNow DEF CachedAtTarget, K8sSecrets
  <2> QED
    BY <1>1, <2>1 DEF Controllable, OwnTargets
<1>3. secretName \in reborn
  BY <1>2 DEF UpsertError, RetriedOnly
<1> QED
  BY <1>1, <1>3 DEF RebornHeard, Coming

LEMMA FutureStep ==
    ASSUME TypeOK, LifeInv, RetriedOnly, OwnTargets, NoLostWork, Announced, CachedAtTarget,
           RebornHeard, [Next]_vars
    PROVE  NoLostWork'
<1> SUFFICES ASSUME NEW n \in Names \ Excluded, vs'[n] # None
             PROVE  Coming(n)' \/ cur' = n
  BY DEF NoLostWork, Coming
<1>0. vs[n] # None => Coming(n) \/ cur = n
  BY WorkDef
<1> DEFINE Safe == Coming(n)' \/ cur' = n
           Grows == vsEvt \subseteq vsEvt' /\ \A t \in Secrets : secEvt[t] \subseteq secEvt'[t]
<1>1. ASSUME NEW m \in Names, (\E d \in Defs : Apply(m, d)) \/ Delete(m) PROVE Safe
  <2>1. /\ UNCHANGED <<q, cur, secEvt>> /\ vsEvt \subseteq vsEvt'
        /\ n \in vsEvt' \/ vs[n] # None
    BY <1>1, TypeNow DEF Apply, Delete
  <2> QED
    BY <1>0, <2>1 DEF Coming
\* From here on, a ValsSecret that is there was there before.
<1>2. CASE AddFinalizer
  <2>1. cur \in Names /\ vs[cur] # None /\ UNCHANGED <<q, cur, vsEvt, secEvt>>
    BY <1>2, TypeNow, SecretsAssumption DEF AddFinalizer, Claiming, LifeInv, WorkerClaims
  <2>2. n # cur => vs'[n] = vs[n]
    BY <1>2, TypeNow DEF AddFinalizer, Claiming
  <2> QED
    BY <1>0, <2>1, <2>2 DEF Coming
<1>3. CASE RemoveFinalizer
  <2>1. UNCHANGED <<q, secEvt>> /\ vsEvt \subseteq vsEvt' /\ cur \in Names
    BY <1>3, TypeNow DEF RemoveFinalizer, Releasing
  <2>2. cur # n /\ vs'[n] = vs[n]
    BY <1>3, <2>1, TypeNow DEF RemoveFinalizer, Releasing
  <2> QED
    BY <1>0, <2>1, <2>2 DEF Coming
<1>4. ASSUME UNCHANGED vs, Grows, UNCHANGED <<q, cur>> PROVE Safe
  BY <1>0, <1>4 DEF Coming
<1>5. ASSUME NEW m \in Names, DeliverVals(m) PROVE Safe
  <2>1. UNCHANGED <<vs, cur, secEvt>> /\ vsEvt' = vsEvt \ {m}
    BY <1>5 DEF DeliverVals, api, worker
  <2>2. (q[n] # "none" => q'[n] # "none") /\ (n \in vsEvt /\ n = m => q'[n] # "none")
    BY <1>5, TypeNow DEF DeliverVals, Wake
  <2> QED
    BY <1>0, <2>1, <2>2 DEF Coming
<1>6. ASSUME NEW t \in Secrets, DeliverSecret(t) PROVE Safe
  <2>1. UNCHANGED <<vs, cur, vsEvt>> /\ \A u \in Secrets \ {t} : secEvt'[u] = secEvt[u]
    BY <1>6, TypeNow DEF DeliverSecret, api, worker
  <2>2. (q[n] # "none" => q'[n] # "none") /\ (n \in secEvt[t] => q'[n] # "none")
    BY <1>6, TypeNow DEF DeliverSecret, Wake
  <2> QED
    BY <1>0, <2>1, <2>2 DEF Coming
<1>7. ASSUME NEW m \in Names, Due(m) PROVE Safe
  <2>1. UNCHANGED <<vs, cur, vsEvt, secEvt>> /\ (q[n] # "none" => q'[n] # "none")
    BY <1>7, TypeNow DEF Due, api, worker, cache
  <2> QED
    BY <1>0, <2>1 DEF Coming
<1>8. CASE Crash
  <2>1. UNCHANGED vs /\ q'[n] = (IF vs[n] = None THEN "none" ELSE "ready")
    BY <1>8 DEF Crash, api
  <2> QED
    BY <2>1 DEF Coming
\* The key that the worker takes leaves the queue: it is at work, or heard of.
<1>9. ASSUME NEW m \in Names, PickIgnored(m) \/ PickLive(m) \/ PickDeleting(m) PROVE Safe
  <2>1. /\ UNCHANGED <<vs, vc, vsEvt, secEvt>> /\ cur = None /\ cur # n
        /\ n # m => q'[n] = q[n]
    BY <1>9, TypeNow, SecretsAssumption DEF PickIgnored, PickLive, PickDeleting, Pick, Keep
  <2>2. CASE PickIgnored(m) /\ n = m
    <3>1. n \in vsEvt'
      BY <2>1, <2>2 DEF PickIgnored, Announced
    <3> QED
      BY <3>1 DEF Coming
  <2>3. CASE ~PickIgnored(m) /\ n = m
    BY <1>9, <2>3 DEF PickLive, PickDeleting, Start
  <2>4. CASE n # m
    BY <1>0, <2>1, <2>4 DEF Coming
  <2> QED
    BY <2>2, <2>3, <2>4
\* A reconcile that ends with its key in the queue again.
<1>10. ASSUME pc # "idle", Finish \/ ApiError PROVE Safe
  <2>1. cur \in Names /\ Requeue(cur) /\ UNCHANGED <<vs, vsEvt, secEvt>>
    BY <1>10, TypeNow DEF Finish, ApiError, Keep
  <2>2. (q[n] # "none" => q'[n] # "none") /\ (cur = n => q'[n] # "none")
    BY <2>1, TypeNow DEF Requeue
  <2> QED
    BY <1>0, <2>1, <2>2 DEF Coming
<1>11. CASE UpsertError
  <2>1. cur \in Names /\ Coming(cur)
    BY <1>11, UpsertErrorHeard
  <2>2. UNCHANGED <<vs, q, vsEvt, secEvt>>
    BY <1>11 DEF UpsertError, Keep
  <2> QED
    BY <1>0, <2>1, <2>2 DEF Coming
<1>12. ~AnswerLost
  BY DEF AnswerLost, RetriedOnly
<1>13. ASSUME Deleting \/ Upserting, UNCHANGED <<q, cur>> PROVE Safe
  <2>1. UNCHANGED <<vs, vsEvt>> /\ secretName \in Secrets
    BY <1>13, TypeNow DEF Deleting, Upserting
  <2>2. \A t \in Secrets : secEvt[t] \subseteq secEvt'[t]
    BY <1>13, <2>1, TypeNow DEF Deleting, Upserting, Notify
  <2> QED
    BY <1>4, <1>13, <2>1, <2>2
<1>14. CASE Environment
  <2>1. ASSUME NEW t \in Secrets, Tamper(t) \/ Plant(t) PROVE Safe
    <3>1. UNCHANGED <<vs, vsEvt, q, cur>> /\ \A u \in Secrets : secEvt[u] \subseteq secEvt'[u]
      BY <2>1, TypeNow DEF Tamper, Plant, Notify, worker
    <3> QED
      BY <1>4, <3>1
  <2>2. CASE StoreChange
    BY <1>4, <2>2 DEF StoreChange, api, cache, worker
  <2> QED
    BY <1>1, <1>14, <2>1, <2>2 DEF Environment
<1>15. CASE Plumbing
  <2>1. CASE Tick
    BY <1>4, <2>1 DEF Tick, worker
  <2> QED
    BY <1>5, <1>6, <1>7, <1>15, <2>1 DEF Plumbing
<1>16. CASE Progress
  <2>1. CASE DeleteSecret \/ UpsertSecret
    BY <1>13, <2>1 DEF DeleteSecret, UpsertSecret, Goto
  <2>2. CASE NotExpired \/ UpsertSkip \/ Done
    BY <1>10, <2>2 DEF NotExpired, UpsertSkip, Done
  <2>3. CASE Expired \/ Eval \/ UpdateDatabases \/ \E w \in Workloads : Rollout(w)
    BY <1>4, <2>3 DEF Expired, Eval, UpdateDatabases, Rollout, Goto, Keep, api, cache
  <2> QED
    BY <1>2, <1>3, <1>16, <2>1, <2>2, <2>3 DEF Progress
<1>17. CASE Errors
  <2>1. CASE ApiError \/ EvalError \/ DatabasePanic \/ \E w \in Workloads : RolloutPanic(w)
    BY <1>10, <2>1 DEF ApiError, EvalError, DatabasePanic, RolloutPanic
  <2>2. CASE DatabaseError \/ \E w \in Workloads : RolloutError(w)
    BY <1>4, <2>2 DEF DatabaseError, RolloutError, Keep
  <2> QED
    BY <1>11, <1>12, <1>17, <2>1, <2>2 DEF Errors
<1>18. CASE UNCHANGED vars
  BY <1>4, <1>18 DEF vars
<1> QED
  BY <1>8, <1>9, <1>14, <1>15, <1>16, <1>17, <1>18 DEF Next, Reconcile

LEMMA WorkParts == WorkInv <=> NoLostWork /\ Announced /\ CachedAtTarget /\ RebornHeard
BY Zenon DEF WorkInv, Announced, CachedAtTarget, RebornHeard

LEMMA WorkStep ==
    ASSUME RetriedOnly, OwnTargets PROVE TypeOK /\ LifeInv /\ WorkInv /\ [Next]_vars => WorkInv'
<1> SUFFICES ASSUME TypeOK, LifeInv, WorkInv, [Next]_vars PROVE WorkInv'
  OBVIOUS
<1>1. NoLostWork /\ Announced /\ CachedAtTarget /\ RebornHeard
  BY WorkParts
<1>2. NoLostWork' /\ Announced' /\ CachedAtTarget' /\ RebornHeard'
  BY <1>1, AnnouncedStep, CachedAtTargetStep, RebornStep, FutureStep
<1> QED
  BY <1>2 DEF WorkInv, Announced, CachedAtTarget, RebornHeard

\* No ValsSecret is ever forgotten: whatever the cache is behind with, whatever
\* crashes and whoever deletes or edits the Secret, a ValsSecret that is not
\* excluded is queued, at work, or about to be queued by an event (lines 80-131,
\* 283-302) if every failed call is tried again and no two share a Secret.
THEOREM WorkIsNeverLost ==
    ASSUME RetriedOnly, OwnTargets PROVE Spec => []NoLostWork
<1>1. Init => WorkInv
  BY SecretsAssumption DEF Init, WorkInv, NoLostWork
<1>2. TypeOK /\ LifeInv /\ WorkInv /\ [Next]_vars => WorkInv'
  BY WorkStep
<1>3. WorkInv => NoLostWork
  BY DEF WorkInv
<1> QED
  BY <1>1, <1>2, <1>3, TypeCorrect, LifeCorrect, PTL DEF Spec
-----------------------------------------------------------------------------
(* What is written into a Secret *)

\* The steps that change Secrets of the API server.
LEMMA SecretWriters ==
    ASSUME TypeOK, [Next]_vars
    PROVE  \/ UNCHANGED sec
           \/ Tick \/ Deleting \/ Upserting
           \/ \E t \in Secrets : Tamper(t) \/ Plant(t)
<1>1. Environment => UNCHANGED sec \/ \E t \in Secrets : Tamper(t) \/ Plant(t)
  BY DEF Environment, Apply, Delete, StoreChange, api
<1>2. Plumbing => UNCHANGED sec \/ Tick
  BY DEF Plumbing, DeliverVals, DeliverSecret, Due, api
<1>3. Crash \/ UNCHANGED vars => UNCHANGED sec
  BY DEF Crash, api, vars
<1>4. ASSUME NEW n \in Names, PickIgnored(n) \/ PickLive(n) \/ PickDeleting(n)
      PROVE  UNCHANGED sec
  BY <1>4 DEF PickIgnored, PickLive, PickDeleting, Pick, Keep
<1>5. Progress => UNCHANGED sec \/ Deleting \/ Upserting
  BY DEF Progress, AddFinalizer, Claiming, DeleteSecret, RemoveFinalizer, Releasing,
     NotExpired, Expired, Eval, UpsertSkip, UpsertSecret, UpdateDatabases, Done, Rollout,
     Finish, Keep, api
<1>6. Errors => UNCHANGED sec \/ Deleting \/ Upserting
  BY DEF Errors, AnswerLost, Claiming, Releasing, ApiError, EvalError, UpsertError,
     RolloutError, RolloutPanic, DatabaseError, DatabasePanic, Finish, Keep
<1> QED
  BY <1>1, <1>2, <1>3, <1>4, <1>5, <1>6 DEF Next, Reconcile

\* What users and time do to a Secret that stays.
LEMMA Touched ==
    ASSUME TypeOK, NEW t \in Secrets, Tick \/ \E u \in Secrets : Tamper(u),
           sec'[t] # None
    PROVE  sec[t] # None /\ sec'[t].owner = sec[t].owner
<1>1. CASE Tick
  <2>1. sec'[t] = Older(sec[t]) /\ sec[t] \in K8sSecrets \cup {None}
    BY <1>1, TypeNow DEF Tick
  <2> QED
    BY <2>1, SecretsAssumption DEF Older, K8sSecrets
<1>2. ASSUME NEW u \in Secrets, Tamper(u)
      PROVE  sec[t] # None /\ sec'[t].owner = sec[t].owner
  <2>1. sec[u] # None /\ sec[u] \in K8sSecrets
    BY <1>2, TypeNow DEF Tamper
  <2>2. /\ [sec[u] EXCEPT !.data = Foreign].owner = sec[u].owner
        /\ \A l : [sec[u] EXCEPT !.labels = l].owner = sec[u].owner
    BY <2>1 DEF K8sSecrets
  <2>3. PICK s : sec' = [sec EXCEPT ![u] = s] /\ (s = None \/ s.owner = sec[u].owner)
    BY <1>2, <2>2 DEF Tamper
  <2> QED
    BY <2>1, <2>3, TypeNow
<1> QED
  BY <1>1, <1>2

LEMMA TakeoverStep ==
    ASSUME TypeOK, [Next]_vars, NEW t \in Secrets,
           sec[t] # None, sec'[t] # None, sec[t].owner # None,
           sc[t] # None, sc[t].owner = sec[t].owner
    PROVE  sec'[t].owner = sec[t].owner
<1>1. CASE Tick \/ \E u \in Secrets : Tamper(u)
  BY <1>1, Touched
<1>2. CASE Deleting \/ \E u \in Secrets : Plant(u)
  <2>1. CASE Deleting
    BY <2>1, TypeNow DEF Deleting
  <2>2. ASSUME NEW u \in Secrets, Plant(u) PROVE sec'[t] = sec[t]
    BY <2>2, TypeNow DEF Plant
  <2> QED
    BY <1>2, <2>1, <2>2
<1>3. CASE Upserting
  <2>1. secretName \in Secrets /\ sec' = [sec EXCEPT ![secretName] = Upserted] /\ Controllable
    BY <1>3, TypeNow DEF Upserting
  <2>2. CASE t = secretName
    <3>1. sec[t].owner = cur
      BY <2>1, <2>2 DEF Controllable
    <3> QED
      BY <2>1, <2>2, <3>1, TypeNow DEF Upserted
  <2>3. CASE t # secretName
    BY <2>1, <2>3, TypeNow
  <2> QED
    BY <2>2, <2>3
<1> QED
  BY <1>1, <1>2, <1>3, SecretWriters

\* Of two ValsSecrets with one target, the second leaves the Secret to the first
\* as soon as the cache knows whose it is (SetControllerReference, line 359).
THEOREM NoSecretIsTaken == Spec => NoTakeover
<1>1. TypeOK /\ [Next]_vars =>
        [\A t \in Secrets :
           (sec[t] # None /\ sec'[t] # None /\ sec[t].owner # None
              /\ sc[t] # None /\ sc[t].owner = sec[t].owner)
           => sec'[t].owner = sec[t].owner]_vars
  BY TakeoverStep
<1> QED
  BY <1>1, TypeCorrect, PTL DEF Spec, NoTakeover
=============================================================================
