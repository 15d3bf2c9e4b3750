--------------------------- MODULE ValsSyncProofs ---------------------------
(* ValsSecret implements ValsSync, never publishes an older value, and leaves *)
(* a settled Secret alone.                                                    *)
EXTENDS ValsSecretProofs

\* The version of the content c of a Secret, as ValsSync sees it.
VersionOf(s) ==
    IF s = None THEN -1 ELSE IF s.data = Foreign THEN -1 ELSE s.data[2]

LEMMA SyncVersions == \A t \in Secrets : syncVersion[t] = VersionOf(sec[t])
BY DEF syncVersion, VersionOf

\* Content has a version between those of Unknown content and the budget's.
LEMMA VersionTypes ==
    ASSUME NEW s \in K8sSecrets \cup {None}
    PROVE  VersionOf(s) \in Int /\ (s # None /\ s.data # Foreign => VersionOf(s) = s.data[2])
<1>1. CASE s \in K8sSecrets /\ s.data # Foreign
  <2>1. PICK d \in Defs, v \in 0 .. Budget : s.data = Render(d, v)
    BY <1>1 DEF K8sSecrets, Contents
  <2>2. s.data[2] = v
    BY <2>1 DEF Render
  <2> QED
    BY <1>1, <2>2, SecretsAssumption DEF VersionOf
<1>2. CASE ~(s \in K8sSecrets /\ s.data # Foreign)
  BY <1>2 DEF VersionOf
<1> QED
  BY <1>1, <1>2

LEMMA SyncInit == Init => Sync!Init
BY SecretsAssumption DEF Init, Sync!Init, syncHolder, syncVersion, Claimed, Sync!Unknown

\* What the worker writes, whether it hears of its success or not.
LEMMA UpsertEffect ==
    ASSUME TypeOK, VersionInv, Upserting
    PROVE  /\ cur \in Names /\ secretName \in Secrets
           /\ sec' = [sec EXCEPT ![secretName] = Upserted] /\ UNCHANGED <<vs, store>>
           /\ Upserted \in K8sSecrets /\ Upserted.owner = cur
           /\ \E v \in 0 .. store : /\ VersionOf(Upserted) = v
                                    /\ VersionOf(sec[secretName]) <= v
<1>1. pc = "upsert" /\ sec' = [sec EXCEPT ![secretName] = Upserted] /\ UNCHANGED <<vs, store>>
  BY DEF Upserting, outside
<1>2. /\ cur \in Names /\ secretName \in Secrets /\ Upserted \in K8sSecrets
      /\ Upserted.data = data /\ Upserted.owner = cur
  BY <1>1, UpsertedSecret
<1>3. PICK v \in 0 .. store : data = Render(obj.def, v) /\ syncVersion[secretName] <= v
  BY <1>1 DEF VersionInv
<1>4. v \in 0 .. Budget /\ obj.def \in Defs
  <2>1. store \in Nat /\ left \in Nat /\ store + left <= Budget
    BY DEF TypeOK, BudgetTypeOK
  <2>2. obj \in ValsSecrets
    BY <1>1 DEF TypeOK, WorkerTypeOK
  <2>3. obj.def \in Defs
    BY <2>2, ValsSecretEdits
  <2>4. v \in 0 .. Budget
    BY <2>1, SecretsAssumption
  <2> QED
    BY <2>3, <2>4
<1>5. data # Foreign /\ data[2] = v
  BY <1>3, <1>4, SecretsAssumption DEF Render
<1>6. VersionOf(Upserted) = v
  BY <1>2, <1>5, SecretsAssumption DEF VersionOf
<1>7. VersionOf(sec[secretName]) <= v
  BY <1>2, <1>3, SyncVersions
<1> QED
  BY <1>1, <1>2, <1>6, <1>7

\* No Secret, or content that the operator did not write.
Blank(s) == s = None \/ s.data = Foreign

\* What a step other than these writes and Eval can do to the versions.
Harmless ==
    /\ \A t \in Secrets : VersionOf(sec'[t]) = VersionOf(sec[t]) \/ Blank(sec'[t])
    /\ store' \in {store, store + 1}
    /\ pc' = "upsert" => UNCHANGED <<pc, cur, obj, data>>

\* An edit of the labels changes neither the content nor the owner.
LEMMA SameVersion ==
    ASSUME NEW s \in K8sSecrets, NEW l \in SUBSET Labels
    PROVE  /\ VersionOf([s EXCEPT !.labels = l]) = VersionOf(s)
           /\ [s EXCEPT !.labels = l].owner = s.owner
           /\ [s EXCEPT !.labels = l] \in K8sSecrets
<1> DEFINE r == [s EXCEPT !.labels = l]
<1>1. r.data = s.data /\ r.owner = s.owner /\ r \in K8sSecrets
  BY DEF K8sSecrets
<1> HIDE DEF r
<1>2. VersionOf(r) = VersionOf(s)
  BY <1>1, SecretsAssumption DEF VersionOf
<1> QED
  BY <1>1, <1>2 DEF r

LEMMA TickEffect == ASSUME TypeOK, Tick PROVE Harmless
<1>1. \A t \in Secrets : sec'[t] = Older(sec[t])
  BY DEF Tick
<1>2. ASSUME NEW t \in Secrets PROVE VersionOf(Older(sec[t])) = VersionOf(sec[t])
  <2>1. CASE sec[t] = None
    BY <2>1 DEF Older
  <2>2. CASE sec[t] # None
    <3>1. sec[t] \in K8sSecrets
      BY <2>2 DEF TypeOK, ApiTypeOK
    <3>2. Older(sec[t]) \in K8sSecrets /\ Older(sec[t]).data = sec[t].data
      BY <3>1, OlderSecret, SecretsAssumption DEF Older, K8sSecrets
    <3> QED
      BY <3>1, <3>2, SecretsAssumption DEF VersionOf
  <2> QED
    BY <2>1, <2>2
<1> QED
  BY <1>1, <1>2 DEF Tick, Harmless, worker, outside

LEMMA Effects ==
    ASSUME TypeOK, [Next]_vars
    PROVE  (Upserting /\ pc' # "upsert") \/ Eval \/ Harmless
<1>1. CASE UNCHANGED vars
  BY <1>1 DEF vars, Harmless
<1>2. CASE Environment
  <2>1. ASSUME NEW n \in Names, (\E d \in Defs : Apply(n, d)) \/ Delete(n) PROVE Harmless
    BY <2>1 DEF Apply, Delete, Harmless
  <2>2. ASSUME NEW t \in Secrets, Tamper(t) PROVE Harmless
    <3>1. sec[t] \in K8sSecrets
      BY <2>2 DEF TypeOK, ApiTypeOK, Tamper
    <3>2. Blank([sec[t] EXCEPT !.data = Foreign]) /\ Blank(None)
      BY <3>1 DEF Blank, K8sSecrets
    <3>3. \A l \in SUBSET Labels : VersionOf([sec[t] EXCEPT !.labels = l]) = VersionOf(sec[t])
      BY <3>1, SameVersion
    <3>4. PICK s : /\ Blank(s) \/ VersionOf(s) = VersionOf(sec[t])
                   /\ sec' = [sec EXCEPT ![t] = s]
      BY <2>2, <3>2, <3>3 DEF Tamper
    <3>5. \A u \in Secrets : VersionOf(sec'[u]) = VersionOf(sec[u]) \/ Blank(sec'[u])
      BY <2>2, <3>4 DEF TypeOK, ApiTypeOK
    <3> QED
      BY <2>2, <3>5 DEF Tamper, Harmless, worker, outside
  <2>3. ASSUME NEW t \in Secrets, Plant(t) PROVE Harmless
    <3>1. PICK s : Blank(s) /\ sec' = [sec EXCEPT ![t] = s]
      BY <2>3 DEF Plant, Blank
    <3>2. \A u \in Secrets : sec'[u] = sec[u] \/ Blank(sec'[u])
      BY <2>3, <3>1 DEF TypeOK, ApiTypeOK
    <3> QED
      BY <2>3, <3>2 DEF Plant, Harmless, worker, outside
  <2>4. CASE StoreChange
    BY <2>4 DEF StoreChange, Harmless, api, worker
  <2> QED
    BY <1>2, <2>1, <2>2, <2>3, <2>4 DEF Environment
<1>3. CASE Plumbing
  BY <1>3, TickEffect
     DEF Plumbing, DeliverVals, DeliverSecret, Due, api, worker, outside, Harmless, cache
<1>4. CASE Progress
  <2>1. CASE DeleteSecret
    BY <2>1 DEF DeleteSecret, Deleting, Goto, Harmless, Blank, TypeOK, ApiTypeOK, outside
  <2>2. CASE AddFinalizer \/ RemoveFinalizer \/ NotExpired \/ Expired \/ UpsertSkip
             \/ UpdateDatabases \/ Done \/ \E w \in Workloads : Rollout(w)
    BY <2>2 DEF AddFinalizer, Claiming, RemoveFinalizer, Releasing, NotExpired, Expired, UpsertSkip,
                UpdateDatabases, Done, Rollout, Finish, Idle, Keep, Goto, api,
                outside, cache, Harmless
  <2>3. UpsertSecret => Upserting /\ pc' # "upsert"
    BY DEF UpsertSecret, Goto
  <2> QED
    BY <1>4, <2>1, <2>2, <2>3 DEF Progress
<1>5. CASE Errors /\ AnswerLost
  <2>1. CASE Deleting
    BY <1>5, <2>1 DEF AnswerLost, Deleting, Idle, Harmless, Blank, TypeOK, ApiTypeOK, outside
  <2> QED
    BY <1>5, <2>1 DEF AnswerLost, Claiming, Releasing, Idle, outside, Harmless
<1>6. CASE Errors /\ ~AnswerLost
  BY <1>6 DEF Errors, ApiError, EvalError, UpsertError, RolloutError, RolloutPanic,
              DatabaseError, DatabasePanic, Finish, Idle, Keep, outside, Harmless
<1>7. CASE \E n \in Names : PickIgnored(n) \/ PickLive(n) \/ PickDeleting(n)
  BY <1>7 DEF PickIgnored, PickLive, PickDeleting, Pick, Keep, Start, FirstStep,
              worker, Harmless
<1>8. CASE Crash
  BY <1>8 DEF Crash, Idle, api, outside, Harmless
<1> QED
  BY <1>1, <1>2, <1>3, <1>4, <1>5, <1>6, <1>7, <1>8 DEF Next, Reconcile

LEMMA VersionInit == Init => VersionInv
BY SecretsAssumption DEF Init, VersionInv, syncVersion

LEMMA VersionStep ==
    ASSUME TypeOK, TypeOK', VersionInv, [Next]_vars
    PROVE  VersionInv'
<1>1. /\ store \in Nat /\ store' \in Nat
      /\ \A t \in Secrets : /\ VersionOf(sec[t]) \in Int /\ VersionOf(sec[t]) <= store
                            /\ syncVersion'[t] = VersionOf(sec'[t])
                            /\ Blank(sec'[t]) => VersionOf(sec'[t]) = -1
  BY SyncVersions, VersionTypes
     DEF TypeOK, ApiTypeOK, BudgetTypeOK, VersionInv, syncVersion, VersionOf, Blank
<1>2. CASE Upserting /\ pc' # "upsert"
  <2>1. PICK v \in 0 .. store : VersionOf(Upserted) = v
    BY <1>2, UpsertEffect
  <2>2. /\ store' = store
        /\ \A t \in Secrets : VersionOf(sec'[t]) \in {VersionOf(sec[t]), v}
    BY <1>2, <2>1, UpsertEffect DEF TypeOK, ApiTypeOK
  <2> QED
    BY <1>1, <1>2, <2>2 DEF VersionInv
<1>3. CASE Eval
  <2>1. data' = Render(obj.def, store) /\ UNCHANGED <<sec, store, obj, cur>>
    BY <1>3 DEF Eval, Keep
  <2>2. cur \in Names /\ secretName \in Secrets
    BY <1>3, ConstantTypes DEF Eval, TypeOK, WorkerTypeOK, secretName
  <2> QED
    BY <1>1, <2>1, <2>2 DEF VersionInv, secretName
<1>4. CASE Harmless
  <2>1. \A t \in Secrets : VersionOf(sec'[t]) <= store'
    BY <1>1, <1>4 DEF Harmless
  <2>2. ASSUME pc' = "upsert"
        PROVE  \E v \in 0 .. store' : data' = Render(obj'.def, v)
                                      /\ syncVersion'[secretName'] <= v
    <3>1. pc = "upsert" /\ UNCHANGED <<cur, obj, data>>
      BY <1>4, <2>2 DEF Harmless
    <3>2. PICK v \in 0 .. store : data = Render(obj.def, v) /\ syncVersion[secretName] <= v
      BY <3>1 DEF VersionInv
    <3>3. secretName \in Secrets /\ secretName' = secretName
      BY <3>1, ConstantTypes DEF TypeOK, WorkerTypeOK, secretName
    <3>4. v \in 0 .. store'
      BY <1>1, <1>4 DEF Harmless
    <3>5. syncVersion'[secretName] <= v
      BY <1>1, <1>4, <3>2, <3>3, SyncVersions DEF Harmless
    <3> QED
      BY <3>1, <3>2, <3>3, <3>4, <3>5
  <2> QED
    BY <1>1, <2>1, <2>2 DEF VersionInv
<1> QED
  BY <1>2, <1>3, <1>4, Effects

THEOREM VersionCorrect == Spec => []VersionInv
BY TypeCorrect, VersionInit, VersionStep, PTL DEF Spec

LEMMA RegressStep ==
    ASSUME TypeOK, TypeOK', VersionInv, [Next]_vars,
           NEW t \in Secrets, sec[t] # None, sec'[t] # None,
           Foreign \notin {sec[t].data, sec'[t].data}
    PROVE  sec'[t].data[2] >= sec[t].data[2]
<1>1. /\ VersionOf(sec[t]) = sec[t].data[2] /\ VersionOf(sec'[t]) = sec'[t].data[2]
      /\ VersionOf(sec[t]) \in Int
  BY VersionTypes DEF TypeOK, ApiTypeOK
<1>2. CASE Upserting
  <2>1. PICK v \in 0 .. store : VersionOf(Upserted) = v /\ VersionOf(sec[secretName]) <= v
    BY <1>2, UpsertEffect
  <2>2. sec'[t] = IF t = secretName THEN Upserted ELSE sec[t]
    BY <1>2, UpsertEffect DEF TypeOK, ApiTypeOK
  <2> QED
    BY <1>1, <2>1, <2>2
<1>3. CASE Eval \/ Harmless
  BY <1>1, <1>3 DEF Eval, Keep, Harmless, Blank
<1> QED
  BY <1>2, <1>3, Effects

\* A Secret never goes back to an older version of the store, although the
\* value is read long before it is written and the write is unconditional.
THEOREM SecretsNeverRegress == Spec => NeverRegresses
<1>1. TypeOK /\ TypeOK' /\ VersionInv /\ [Next]_vars
        => [\A t \in Secrets :
             (sec[t] # None /\ sec'[t] # None /\ Foreign \notin {sec[t].data, sec'[t].data})
             => sec'[t].data[2] >= sec[t].data[2]]_vars
  BY RegressStep
<1> QED
  BY <1>1, TypeCorrect, VersionCorrect, PTL DEF Spec, NeverRegresses

-----------------------------------------------------------------------------
(* What is written, and what is left alone *)

\* Workloads are looked at after a write only.
LEMMA RolloutAfterWrite ==
    ASSUME TypeOK, [Next]_vars, pc = "upsert", pc' = "db"
    PROVE  Upserting
<1>1. ~(Environment \/ Plumbing \/ Crash \/ UNCHANGED vars)
  BY DEF Environment, Apply, Delete, Tamper, Plant, StoreChange, Plumbing, DeliverVals,
     DeliverSecret, Due, Tick, Crash, Idle, worker, vars
<1>2. ~\E n \in Names : PickIgnored(n) \/ PickLive(n) \/ PickDeleting(n)
  BY DEF PickIgnored, PickLive, PickDeleting, Pick
<1>3. ~Errors
  BY DEF Errors, AnswerLost, ApiError, EvalError, UpsertError, RolloutError, RolloutPanic,
     DatabaseError, DatabasePanic, Finish, Idle
<1>4. Progress => UpsertSecret
  BY DEF Progress, AddFinalizer, Claiming, DeleteSecret, Deleting, RemoveFinalizer, Releasing,
     NotExpired, Expired, Eval, UpsertSkip, UpdateDatabases, Done, Rollout, Finish, Idle
<1> QED
  BY <1>1, <1>2, <1>3, <1>4 DEF Next, Reconcile, UpsertSecret

\* What the worker has read is at least as new as what is in the Secret: if that
\* is what the store holds, so is what the worker has.
LEMMA SettledStep ==
    ASSUME TypeOK, VersionInv, [Next]_vars, NEW n \in Names,
           cur = n, pc = "upsert", pc' = "db",
           sec[Target[n]] # None, sc[Target[n]] = sec[Target[n]]
    PROVE  \/ sec[Target[n]].data # Render(obj.def, store)
           \/ sec[Target[n]].labels # obj.def.labels
<1> SUFFICES ASSUME sec[Target[n]].data = Render(obj.def, store),
                    sec[Target[n]].labels = obj.def.labels
             PROVE  FALSE
  OBVIOUS
<1>1. secretName = Target[n] /\ secretName \in Secrets /\ obj.def \in Defs
  BY ConstantTypes, ValsSecretEdits DEF secretName, TypeOK, WorkerTypeOK
<1>2. secretNeedsUpdate(obj.def, sec[secretName], data)
  BY <1>1, RolloutAfterWrite DEF Upserting
<1>3. sec[secretName].data # data
  BY <1>1, <1>2 DEF secretNeedsUpdate
<1>4. PICK v \in 0 .. store : data = Render(obj.def, v) /\ syncVersion[secretName] <= v
  BY DEF VersionInv
<1>5. store \in 0 .. Budget /\ store \in Nat
  BY SecretsAssumption DEF TypeOK, BudgetTypeOK
<1>6. sec[secretName].data # Foreign /\ sec[secretName].data[2] = store
  <2>1. Render(obj.def, store) # Foreign
    BY <1>1, <1>5, SecretsAssumption
  <2>2. Render(obj.def, store)[2] = store
    BY DEF Render
  <2> QED
    BY <1>1, <2>1, <2>2
<1>7. syncVersion[secretName] = store
  BY <1>1, <1>6, SyncVersions DEF VersionOf
<1>8. v = store
  BY <1>4, <1>5, <1>7
<1> QED
  BY <1>1, <1>3, <1>4, <1>8

\* A Secret that has what the worker's definition says and the store holds, its
\* labels included, is neither written nor are its workloads restarted, however
\* long ago the value was read, once the cache shows it (lines 283-302, 408-419).
THEOREM SettledSecretsAreLeft == Spec => SettledIsLeftAlone
<1>1. TypeOK /\ VersionInv /\ [Next]_vars =>
        [\A n \in Names :
           (cur = n /\ pc = "upsert" /\ pc' = "db"
              /\ sec[Target[n]] # None /\ sc[Target[n]] = sec[Target[n]])
           => \/ sec[Target[n]].data # Render(obj.def, store)
              \/ sec[Target[n]].labels # obj.def.labels]_vars
  BY SettledStep
<1> QED
  BY <1>1, TypeCorrect, VersionCorrect, PTL DEF Spec, SettledIsLeftAlone

-----------------------------------------------------------------------------
(* Every step is a step of ValsSync or leaves its variables alone. *)

claimedNames == {n \in Names : Claimed(n)}
HolderOf(s) == IF s = None THEN None ELSE s.owner

\* How the writes to the API server appear in ValsSync.
LEMMA SyncWrites ==
    /\ UNCHANGED vs => claimedNames' = claimedNames
    /\ UNCHANGED sec => UNCHANGED <<syncHolder, syncVersion>>
    /\ \A t \in Secrets : \A s :
         TypeOK /\ sec' = [sec EXCEPT ![t] = s] =>
           /\ syncHolder' = [syncHolder EXCEPT ![t] = HolderOf(s)]
           /\ syncVersion' = [syncVersion EXCEPT ![t] = VersionOf(s)]
<1>1. UNCHANGED vs => claimedNames' = claimedNames
  BY DEF claimedNames, Claimed
<1>2. UNCHANGED sec => UNCHANGED <<syncHolder, syncVersion>>
  BY DEF syncHolder, syncVersion
<1>3. ASSUME NEW t \in Secrets, NEW s, TypeOK, sec' = [sec EXCEPT ![t] = s]
      PROVE  /\ syncHolder' = [syncHolder EXCEPT ![t] = HolderOf(s)]
             /\ syncVersion' = [syncVersion EXCEPT ![t] = VersionOf(s)]
  BY <1>3 DEF syncHolder, syncVersion, HolderOf, VersionOf, TypeOK, ApiTypeOK
<1> QED
  BY <1>1, <1>2, <1>3

\* A user's edit claims nothing and, the finalizer in place, releases nothing.
LEMMA EditClaims ==
    ASSUME TypeOK, NEW n \in Names, (\E d \in Defs : Apply(n, d)) \/ Delete(n)
    PROVE  claimedNames' = claimedNames /\ UNCHANGED <<sec, store>>
<1>1. ASSUME NEW d \in Defs, Apply(n, d), NEW m \in Names PROVE Claimed(m)' <=> Claimed(m)
  BY <1>1, SecretsAssumption DEF Apply, Claimed, TypeOK, ApiTypeOK, ValsSecrets
<1>2. ASSUME Delete(n), NEW m \in Names PROVE Claimed(m)' <=> Claimed(m)
  BY <1>2, SecretsAssumption DEF Delete, Claimed, TypeOK, ApiTypeOK, ValsSecrets
<1>3. UNCHANGED <<sec, store>>
  BY DEF Apply, Delete
<1> QED
  BY <1>1, <1>2, <1>3 DEF claimedNames

\* The new version of ValsSync's variables, when the API server's stay.
LEMMA SyncStutter ==
    ASSUME UNCHANGED <<syncHolder, syncVersion, store>>, claimedNames' = claimedNames
    PROVE  UNCHANGED Sync!syncVars
BY DEF Sync!syncVars, claimedNames

LEMMA SyncTick == ASSUME TypeOK, Tick PROVE UNCHANGED Sync!syncVars
<1>1. \A t \in Secrets : sec'[t] = Older(sec[t])
  BY DEF Tick
<1>2. ASSUME NEW t \in Secrets
      PROVE  HolderOf(sec'[t]) = HolderOf(sec[t]) /\ VersionOf(sec'[t]) = VersionOf(sec[t])
  <2>1. CASE sec[t] = None
    BY <1>1, <2>1 DEF Older
  <2>2. CASE sec[t] # None
    <3>1. sec[t] \in K8sSecrets
      BY <2>2 DEF TypeOK, ApiTypeOK
    <3>2. /\ Older(sec[t]) \in K8sSecrets /\ Older(sec[t]).data = sec[t].data
          /\ Older(sec[t]).owner = sec[t].owner
      BY <3>1, OlderSecret, SecretsAssumption DEF Older, K8sSecrets
    <3> QED
      BY <1>1, <3>1, <3>2, SecretsAssumption DEF VersionOf, HolderOf
  <2> QED
    BY <2>1, <2>2
<1>3. UNCHANGED <<syncHolder, syncVersion, vs, store>>
  BY <1>2 DEF Tick, syncHolder, syncVersion, HolderOf, VersionOf, outside
<1> QED
  BY <1>3, SyncWrites, SyncStutter

\* A value put where it was before changes nothing.
LEMMA SameAgain ==
    ASSUME NEW S, NEW f, f = [x \in S |-> f[x]], NEW t, NEW v, f[t] = v
    PROVE  [f EXCEPT ![t] = v] = f
OBVIOUS

LEMMA SyncTamper ==
    ASSUME TypeOK, NEW t \in Secrets, Tamper(t)
    PROVE  Sync!Withdraw(t) \/ Sync!Deface(t) \/ UNCHANGED Sync!syncVars
<1>1. sec[t] \in K8sSecrets
  BY DEF TypeOK, ApiTypeOK, Tamper
<1>2. claimedNames' = claimedNames /\ UNCHANGED store
  BY SyncWrites DEF Tamper, outside
<1>3. CASE sec' = [sec EXCEPT ![t] = None]
  BY <1>2, <1>3, SyncWrites DEF HolderOf, VersionOf, Sync!Withdraw, Sync!Unknown, claimedNames
<1>4. CASE sec' = [sec EXCEPT ![t].data = Foreign]
  <2> DEFINE s == [sec[t] EXCEPT !.data = Foreign]
  <2>1. s \in K8sSecrets /\ s.data = Foreign /\ s.owner = sec[t].owner
    BY <1>1, ConstantTypes DEF K8sSecrets
  <2>2. HolderOf(s) = syncHolder[t] /\ VersionOf(s) = -1
    BY <1>1, <2>1, SecretsAssumption DEF HolderOf, VersionOf, syncHolder
  <2>3. sec' = [sec EXCEPT ![t] = s]
    BY <1>4
  <2>4. syncHolder' = [syncHolder EXCEPT ![t] = HolderOf(s)]
        /\ syncVersion' = [syncVersion EXCEPT ![t] = VersionOf(s)]
    BY <2>3, SyncWrites
  <2> HIDE DEF s
  <2>5. syncHolder' = syncHolder
    BY <2>2, <2>4 DEF syncHolder
  <2> QED
    BY <1>2, <2>2, <2>4, <2>5 DEF Sync!Deface, Sync!Unknown, claimedNames
<1>5. ASSUME NEW l \in SUBSET Labels, sec' = [sec EXCEPT ![t].labels = l]
      PROVE  UNCHANGED Sync!syncVars
  <2> DEFINE s == [sec[t] EXCEPT !.labels = l]
  <2>1. s \in K8sSecrets /\ s.owner = sec[t].owner /\ VersionOf(s) = VersionOf(sec[t])
    BY <1>1, SameVersion
  <2>2. sec' = [sec EXCEPT ![t] = s]
    BY <1>5
  <2>3. syncHolder' = [syncHolder EXCEPT ![t] = HolderOf(s)]
        /\ syncVersion' = [syncVersion EXCEPT ![t] = VersionOf(s)]
    BY <2>2, SyncWrites
  <2> HIDE DEF s
  <2>4. syncHolder[t] = HolderOf(s) /\ syncVersion[t] = VersionOf(s)
    BY <1>1, <2>1, SyncVersions, SecretsAssumption DEF HolderOf, syncHolder
  <2>5. /\ syncHolder = [u \in Secrets |-> syncHolder[u]]
        /\ syncVersion = [u \in Secrets |-> syncVersion[u]]
    BY DEF syncHolder, syncVersion
  <2>6. UNCHANGED <<syncHolder, syncVersion>>
    BY <2>3, <2>4, <2>5, SameAgain
  <2> QED
    BY <1>2, <2>6, SyncStutter
<1> QED
  BY <1>3, <1>4, <1>5 DEF Tamper

LEMMA SyncPlant ==
    ASSUME TypeOK, NEW t \in Secrets, Plant(t)
    PROVE  UNCHANGED Sync!syncVars
<1>0. PICK l \in SUBSET Labels :
         sec' = [sec EXCEPT ![t] = [data |-> Foreign, labels |-> l,
                                    owner |-> None, age |-> MaxAge]]
  BY DEF Plant
<1> DEFINE s == [data |-> Foreign, labels |-> l, owner |-> None, age |-> MaxAge]
<1>1. sec' = [sec EXCEPT ![t] = s] /\ sec[t] = None /\ UNCHANGED <<vs, store>>
  BY <1>0 DEF Plant, outside
<1>2. HolderOf(s) = None /\ VersionOf(s) = -1
  BY DEF HolderOf, VersionOf
<1>3. syncHolder[t] = None /\ syncVersion[t] = -1
  BY <1>1 DEF syncHolder, syncVersion
<1>4. /\ syncHolder' = [syncHolder EXCEPT ![t] = HolderOf(s)]
      /\ syncVersion' = [syncVersion EXCEPT ![t] = VersionOf(s)]
  BY <1>1, SyncWrites
<1> HIDE DEF s
<1>5. /\ syncHolder = [u \in Secrets |-> syncHolder[u]]
      /\ syncVersion = [u \in Secrets |-> syncVersion[u]]
  BY DEF syncHolder, syncVersion
<1>6. /\ [syncHolder EXCEPT ![t] = None] = syncHolder
      /\ [syncVersion EXCEPT ![t] = -1] = syncVersion
  BY <1>3, <1>5, SameAgain
<1>7. UNCHANGED <<syncHolder, syncVersion>>
  BY <1>2, <1>4, <1>6
<1> QED
  BY <1>1, <1>7, SyncWrites, SyncStutter

LEMMA SyncClaiming == ASSUME TypeOK, Claiming PROVE Sync!Claim(cur)
<1> DEFINE new == [obj EXCEPT !.fin = TRUE]
<1>1. cur \in Names /\ new \in ValsSecrets /\ new.fin
      /\ vs' = [vs EXCEPT ![cur] = new] /\ UNCHANGED <<sec, store>>
  BY DEF Claiming, TypeOK, WorkerTypeOK, ValsSecrets, outside
<1> HIDE DEF new
<1>2. vs' = [n \in Names |-> IF n = cur THEN new ELSE vs[n]]
  BY <1>1 DEF TypeOK, ApiTypeOK
<1>3. \A n \in Names : Claimed(n)' <=> n = cur \/ Claimed(n)
  BY <1>1, <1>2, SecretsAssumption DEF Claimed
<1>4. claimedNames' = claimedNames \cup {cur}
  BY <1>1, <1>3 DEF claimedNames
<1> QED
  BY <1>1, <1>4, SyncWrites DEF Sync!Claim, claimedNames

LEMMA SyncDeleting == ASSUME TypeOK, Deleting PROVE Sync!Withdraw(secretName)
<1>1. secretName \in Secrets /\ sec' = [sec EXCEPT ![secretName] = None]
      /\ UNCHANGED <<vs, store>>
  BY ConstantTypes DEF Deleting, TypeOK, WorkerTypeOK, secretName, outside
<1> QED
  BY <1>1, SyncWrites DEF HolderOf, VersionOf, Sync!Withdraw, Sync!Unknown, claimedNames

LEMMA SyncReleasing == ASSUME TypeOK, LifeInv, Releasing PROVE Sync!Release(cur)
<1>1. pc = "release" /\ ~objOld /\ cur \in Names /\ vs' = [vs EXCEPT ![cur] = None]
      /\ UNCHANGED <<sec, store>>
  BY DEF Releasing, TypeOK, WorkerTypeOK, outside
<1>2. vs[cur] = obj /\ obj.fin /\ obj \in ValsSecrets
      /\ ~(sec[secretName] # None /\ sec[secretName].owner = cur)
  BY <1>1 DEF LifeInv, WorkerClaims, TypeOK, WorkerTypeOK
<1>3. cur \in claimedNames
  BY <1>1, <1>2, SecretsAssumption DEF claimedNames, Claimed
<1>4. \A t \in Secrets : syncHolder[t] # cur
  BY <1>1, <1>2, SecretsAssumption DEF syncHolder, LifeInv, OwnedAtTarget, secretName
<1>5. vs' = [n \in Names |-> IF n = cur THEN None ELSE vs[n]]
  BY <1>1 DEF TypeOK, ApiTypeOK
<1>6. claimedNames' = claimedNames \ {cur}
  BY <1>5 DEF claimedNames, Claimed
<1> QED
  BY <1>1, <1>3, <1>4, <1>6, SyncWrites DEF Sync!Release, claimedNames

LEMMA SyncUpserting ==
    ASSUME TypeOK, LifeInv, VersionInv, Upserting
    PROVE  Sync!Publish(cur)
<1>1. /\ cur \in Names /\ secretName \in Secrets /\ secretName = Target[cur]
      /\ sec' = [sec EXCEPT ![secretName] = Upserted] /\ UNCHANGED <<vs, store>>
      /\ Upserted \in K8sSecrets /\ Upserted.owner = cur
  BY UpsertEffect DEF secretName
<1>2. PICK v \in 0 .. store : VersionOf(Upserted) = v /\ VersionOf(sec[secretName]) <= v
  BY UpsertEffect
<1>3. cur \in claimedNames
  BY <1>1 DEF LifeInv, WorkerClaims, claimedNames, Upserting
<1>4. HolderOf(Upserted) = cur
  BY <1>1, SecretsAssumption DEF HolderOf
<1>5. /\ syncHolder' = [syncHolder EXCEPT ![secretName] = cur]
      /\ syncVersion' = [syncVersion EXCEPT ![secretName] = v]
  <2>1. /\ syncHolder' = [syncHolder EXCEPT ![secretName] = HolderOf(Upserted)]
        /\ syncVersion' = [syncVersion EXCEPT ![secretName] = VersionOf(Upserted)]
    BY <1>1, SyncWrites
  <2> QED
    BY <1>2, <1>4, <2>1
<1>6. VersionOf(sec[secretName]) \in Int /\ v \in Int
  BY <1>1, VersionTypes DEF TypeOK, ApiTypeOK
<1>7. v >= syncVersion[Target[cur]]
  BY <1>1, <1>2, <1>6, SyncVersions
<1>8. claimedNames' = claimedNames
  BY <1>1, SyncWrites
<1>9. \E u \in 0 .. store : /\ u >= syncVersion[Target[cur]]
                            /\ syncVersion' = [syncVersion EXCEPT ![Target[cur]] = u]
  BY <1>1, <1>5, <1>7
<1>10. syncHolder' = [syncHolder EXCEPT ![Target[cur]] = cur]
  BY <1>1, <1>5
<1> QED
  BY <1>1, <1>3, <1>8, <1>9, <1>10 DEF Sync!Publish, claimedNames

LEMMA SyncStep ==
    TypeOK /\ LifeInv /\ VersionInv /\ [Next]_vars => [Sync!Next]_(Sync!syncVars)
<1> SUFFICES ASSUME TypeOK, LifeInv, VersionInv, [Next]_vars
             PROVE  Sync!Next \/ UNCHANGED Sync!syncVars
  OBVIOUS
<1>1. UNCHANGED <<vs, sec, store>> => UNCHANGED Sync!syncVars
  BY SyncWrites, SyncStutter
<1>2. CASE Environment
  <2>1. ASSUME NEW n \in Names, (\E d \in Defs : Apply(n, d)) \/ Delete(n)
        PROVE  UNCHANGED Sync!syncVars
    BY <2>1, EditClaims, SyncWrites, SyncStutter
  <2>2. ASSUME NEW t \in Secrets, Tamper(t) PROVE Sync!Next \/ UNCHANGED Sync!syncVars
    BY <2>2, SyncTamper DEF Sync!Next
  <2>3. ASSUME NEW t \in Secrets, Plant(t) PROVE UNCHANGED Sync!syncVars
    BY <2>3, SyncPlant
  <2>4. ASSUME StoreChange PROVE Sync!Next
    BY <2>4, SyncWrites DEF StoreChange, api, Sync!Next, Sync!Advance, claimedNames
  <2> QED
    BY <1>2, <2>1, <2>2, <2>3, <2>4 DEF Environment
<1>3. CASE Plumbing
  BY <1>1, <1>3, SyncTick DEF Plumbing, DeliverVals, DeliverSecret, Due, api, outside
<1>4. CASE Claiming \/ Deleting \/ Releasing \/ Upserting
  <2>1. cur \in Names /\ secretName \in Secrets
    BY <1>4, ConstantTypes
       DEF Claiming, Deleting, Releasing, Upserting, TypeOK, WorkerTypeOK, secretName
  <2> QED
    BY <1>4, <2>1, SyncClaiming, SyncDeleting, SyncReleasing, SyncUpserting DEF Sync!Next
<1>5. CASE Progress \/ Errors
  <2>1. CASE AddFinalizer \/ DeleteSecret \/ RemoveFinalizer \/ UpsertSecret \/ AnswerLost
    BY <1>4, <2>1
       DEF AddFinalizer, DeleteSecret, RemoveFinalizer, UpsertSecret, AnswerLost
  <2>2. CASE NotExpired \/ Expired \/ Eval \/ UpsertSkip \/ UpdateDatabases \/ Done
             \/ \E w \in Workloads : Rollout(w)
    BY <1>1, <2>2 DEF NotExpired, Expired, Eval, UpsertSkip, UpdateDatabases, Done, Rollout,
       Finish, Keep, api
  <2>3. CASE Errors /\ ~AnswerLost
    BY <1>1, <2>3 DEF Errors, ApiError, EvalError, UpsertError, RolloutError, RolloutPanic,
       DatabaseError, DatabasePanic, Finish, Keep
  <2> QED
    BY <1>5, <2>1, <2>2, <2>3 DEF Progress
<1>6. CASE \E n \in Names : PickIgnored(n) \/ PickLive(n) \/ PickDeleting(n)
  BY <1>1, <1>6 DEF PickIgnored, PickLive, PickDeleting, Pick, Keep
<1>7. CASE Crash \/ UNCHANGED vars
  BY <1>1, <1>7 DEF Crash, api, outside, vars
<1> QED
  BY <1>2, <1>3, <1>5, <1>6, <1>7 DEF Next, Reconcile

\* The controller implements ValsSync: it publishes only for a ValsSecret it has
\* claimed, never an older value, and lets go of one only when it holds nothing.
THEOREM ControllerImplementsSync == Spec => ImplementsSync
<1>1. TypeOK /\ LifeInv /\ VersionInv /\ [Next]_vars => [Sync!Next]_(Sync!syncVars)
  BY SyncStep
<1> QED
  BY <1>1, SyncInit, TypeCorrect, LifeCorrect, VersionCorrect, PTL
     DEF Spec, ImplementsSync, Sync!Spec

\* In every system that meets ValsSync, whoever holds a Secret is claimed: what
\* NoOrphan says of the controller, from its promise alone.
THEOREM HoldersAreClaimed == Sync!Spec => []Sync!HeldByClaimed
<1> DEFINE Inv == Sync!HeldByClaimed /\ syncHolder \in [Secrets -> Names \cup {None}]
<1>1. Sync!Init => Inv
  BY DEF Sync!Init, Sync!HeldByClaimed
<1>2. Inv /\ [Sync!Next]_(Sync!syncVars) => Inv'
  <2> SUFFICES ASSUME Inv, [Sync!Next]_(Sync!syncVars) PROVE Inv'
    OBVIOUS
  <2> USE DEF Sync!HeldByClaimed
  <2>1. CASE Sync!Advance \/ UNCHANGED Sync!syncVars
    BY <2>1 DEF Sync!Advance, Sync!syncVars
  <2>2. ASSUME NEW n \in Names, Sync!Claim(n) PROVE Inv'
    BY <2>2 DEF Sync!Claim
  <2>3. ASSUME NEW n \in Names, Sync!Publish(n) PROVE Inv'
    BY <2>3, ConstantTypes DEF Sync!Publish
  <2>4. ASSUME NEW n \in Names, Sync!Release(n) PROVE Inv'
    BY <2>4 DEF Sync!Release
  <2>5. ASSUME NEW t \in Secrets, Sync!Withdraw(t) \/ Sync!Deface(t) PROVE Inv'
    BY <2>5 DEF Sync!Withdraw, Sync!Deface
  <2> QED
    BY <2>1, <2>2, <2>3, <2>4, <2>5 DEF Sync!Next
<1>3. Inv => Sync!HeldByClaimed
  OBVIOUS
<1> QED
  BY <1>1, <1>2, <1>3, PTL DEF Sync!Spec
=============================================================================
