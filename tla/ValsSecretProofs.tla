-------------------------- MODULE ValsSecretProofs --------------------------
(* Proofs about ValsSecret for every value of its constants.                *)
EXTENDS ValsSecret, TLAPS

LEMMA TypeInit == Init => TypeOK
<1> SUFFICES ASSUME Init PROVE TypeOK
  OBVIOUS
<1>1. ApiTypeOK
  BY DEF Init, ApiTypeOK
<1>2. CacheTypeOK
  BY DEF Init, CacheTypeOK
<1>3. WorkerTypeOK
  BY DEF Init, WorkerTypeOK, Steps
<1>4. QueueTypeOK
  BY SecretsAssumption DEF Init, QueueTypeOK
<1>5. BudgetTypeOK
  BY SecretsAssumption DEF Init, BudgetTypeOK
<1>6. OutsideTypeOK
  BY DEF Init, OutsideTypeOK
<1> QED
  BY <1>1, <1>2, <1>3, <1>4, <1>5, <1>6 DEF TypeOK

\* What the edits of a ValsSecret leave is a ValsSecret.
LEMMA ValsSecretEdits ==
    /\ \A d \in Defs : [def |-> d, fin |-> FALSE, del |-> FALSE] \in ValsSecrets
    /\ \A v \in ValsSecrets : /\ \A d \in Defs : [v EXCEPT !.def = d] \in ValsSecrets
                              /\ [v EXCEPT !.fin = TRUE] \in ValsSecrets
                              /\ [v EXCEPT !.del = TRUE] \in ValsSecrets
                              /\ v.def \in Defs
BY DEF ValsSecrets

\* A write by somebody else only marks copies as old.
LEMMA TypeOutdate ==
    ASSUME TypeOK, NEW n \in Names, Outdate(n)
    PROVE vcOld' \in SUBSET Names /\ objOld' \in BOOLEAN
<1>1. vcOld' \in SUBSET Names
  BY DEF TypeOK, CacheTypeOK, Outdate
<1>2. objOld' \in BOOLEAN
  BY Zenon DEF Outdate
<1> QED
  BY <1>1, <1>2

\* A disturbance is paid for.
LEMMA TypeDisturb ==
    ASSUME TypeOK, Disturb, UNCHANGED store
    PROVE BudgetTypeOK'
BY SecretsAssumption DEF TypeOK, BudgetTypeOK, Disturb

\* What the definitions of the constants say of the types.
LEMMA ConstantTypes ==
    /\ \A n \in Names : Target[n] \in Secrets /\ Rollouts[n] \in SUBSET Workloads
    /\ 0 \in Ages /\ MaxAge \in Ages /\ MaxErr \in Nat
    /\ Foreign \in Contents
    /\ \A d \in Defs : d.labels \in SUBSET Labels
BY SecretsAssumption DEF Ages, MaxAge, Contents

\* A part of the state that a step leaves alone keeps its type.
LEMMA Frames ==
    ASSUME TypeOK
    PROVE  /\ UNCHANGED <<vs, sec>> => ApiTypeOK'
           /\ UNCHANGED <<vc, sc, vcOld, reborn, vsEvt, secEvt>> => CacheTypeOK'
           /\ UNCHANGED <<pc, cur, obj, objOld, data, todo>> => WorkerTypeOK'
           /\ UNCHANGED <<q, errs>> => QueueTypeOK'
           /\ UNCHANGED <<store, left>> => BudgetTypeOK'
           /\ UNCHANGED <<db, running>> => OutsideTypeOK'
<1>1. UNCHANGED <<vs, sec>> => ApiTypeOK'
  BY DEF TypeOK, ApiTypeOK
<1>2. UNCHANGED <<vc, sc, vcOld, reborn, vsEvt, secEvt>> => CacheTypeOK'
  BY DEF TypeOK, CacheTypeOK
<1>3. UNCHANGED <<pc, cur, obj, objOld, data, todo>> => WorkerTypeOK'
  BY DEF TypeOK, WorkerTypeOK
<1>4. UNCHANGED <<q, errs>> => QueueTypeOK'
  BY DEF TypeOK, QueueTypeOK
<1>5. UNCHANGED <<store, left>> => BudgetTypeOK'
  BY DEF TypeOK, BudgetTypeOK
<1>6. UNCHANGED <<db, running>> => OutsideTypeOK'
  BY DEF TypeOK, OutsideTypeOK
<1> QED
  BY <1>1, <1>2, <1>3, <1>4, <1>5, <1>6

\* A worker that has ended its reconcile.
LEMMA TypeIdle == Idle => WorkerTypeOK'
BY DEF Idle, WorkerTypeOK, Steps

\* A reconcile that ends and queues its key again.
LEMMA TypeFinish ==
    ASSUME TypeOK, pc # "idle", Finish
    PROVE  /\ ApiTypeOK' /\ CacheTypeOK' /\ WorkerTypeOK'
           /\ BudgetTypeOK' /\ OutsideTypeOK'
           /\ q' \in [Names -> {"none", "later", "ready"}]
<1>1. q' \in [Names -> {"none", "later", "ready"}]
  BY DEF TypeOK, QueueTypeOK, Finish, Requeue
<1>2. WorkerTypeOK'
  BY TypeIdle DEF Finish
<1>3. ApiTypeOK' /\ CacheTypeOK' /\ BudgetTypeOK' /\ OutsideTypeOK'
  BY Frames DEF Finish, Keep
<1> QED
  BY <1>1, <1>2, <1>3

\* One Secret of the API server is replaced.
LEMMA TypeSecretWrite ==
    ASSUME TypeOK, NEW t \in Secrets, NEW s \in K8sSecrets \cup {None},
           sec' = [sec EXCEPT ![t] = s], UNCHANGED vs
    PROVE ApiTypeOK'
BY DEF TypeOK, ApiTypeOK

\* One ValsSecret of the API server is replaced.
LEMMA TypeValsWrite ==
    ASSUME TypeOK, NEW n \in Names, NEW v \in ValsSecrets \cup {None},
           vs' = [vs EXCEPT ![n] = v], UNCHANGED sec
    PROVE ApiTypeOK'
BY DEF TypeOK, ApiTypeOK

\* Events name owners.
LEMMA TypeNotify ==
    ASSUME TypeOK, NEW t \in Secrets, NEW o, Notify(t, o)
    PROVE secEvt' \in [Secrets -> SUBSET Names]
BY DEF TypeOK, CacheTypeOK, Notify

LEMMA TypeApply ==
    ASSUME TypeOK, NEW n \in Names, NEW d \in Defs, Apply(n, d)
    PROVE TypeOK'
<1>0. Outdate(n) /\ Disturb
  BY DEF Apply
<1>1. ApiTypeOK'
  <2>1. PICK x \in ValsSecrets : vs' = [vs EXCEPT ![n] = x]
    <3>1. CASE vs[n] = None
      BY <3>1, ValsSecretEdits DEF Apply
    <3>2. CASE vs[n] # None
      <4>1. vs[n] \in ValsSecrets
        BY <3>2 DEF TypeOK, ApiTypeOK
      <4>2. [vs[n] EXCEPT !.def = d] \in ValsSecrets
        BY <4>1, ValsSecretEdits
      <4>3. vs' = [vs EXCEPT ![n] = [vs[n] EXCEPT !.def = d]]
        BY <3>2 DEF Apply
      <4> QED
        BY <4>2, <4>3
    <3> QED
      BY <3>1, <3>2
  <2>2. UNCHANGED sec
    BY DEF Apply
  <2> QED
    BY <2>1, <2>2, TypeValsWrite
<1>2. CacheTypeOK'
  <2>1. vsEvt' \in SUBSET Names
    BY DEF TypeOK, CacheTypeOK, Apply
  <2>2. vcOld' \in SUBSET Names
    BY TypeOutdate, <1>0
  <2>3. UNCHANGED <<vc, sc, reborn, secEvt>>
    BY DEF Apply
  <2> QED
    BY <2>1, <2>2, <2>3 DEF TypeOK, CacheTypeOK
<1>3. WorkerTypeOK'
  <2>1. objOld' \in BOOLEAN
    BY TypeOutdate, <1>0
  <2>2. UNCHANGED <<pc, cur, obj, data, todo>>
    BY DEF Apply
  <2> QED
    BY <2>1, <2>2 DEF TypeOK, WorkerTypeOK
<1>4. BudgetTypeOK'
  BY TypeDisturb, <1>0 DEF Apply
<1>5. QueueTypeOK' /\ OutsideTypeOK'
  BY Frames DEF Apply
<1> QED
  BY <1>1, <1>2, <1>3, <1>4, <1>5 DEF TypeOK

LEMMA TypeDelete ==
    ASSUME TypeOK, NEW n \in Names, Delete(n)
    PROVE TypeOK'
<1>0. Outdate(n) /\ Disturb
  BY DEF Delete
<1>1. ApiTypeOK'
  <2>1. vs[n] \in ValsSecrets
    BY DEF Delete, TypeOK, ApiTypeOK
  <2>2. PICK x \in ValsSecrets \cup {None} : vs' = [vs EXCEPT ![n] = x]
    BY <2>1, ValsSecretEdits DEF Delete
  <2>3. UNCHANGED sec
    BY DEF Delete
  <2> QED
    BY <2>2, <2>3, TypeValsWrite
<1>2. CacheTypeOK'
  BY TypeOutdate, <1>0 DEF TypeOK, CacheTypeOK, Delete
<1>3. WorkerTypeOK'
  <2>1. objOld' \in BOOLEAN
    BY TypeOutdate, <1>0
  <2>2. UNCHANGED <<pc, cur, obj, data, todo>>
    BY DEF Delete
  <2> QED
    BY <2>1, <2>2 DEF TypeOK, WorkerTypeOK
<1>4. BudgetTypeOK'
  BY TypeDisturb, <1>0 DEF Delete
<1>5. QueueTypeOK' /\ OutsideTypeOK'
  BY Frames DEF Delete
<1> QED
  BY <1>1, <1>2, <1>3, <1>4, <1>5 DEF TypeOK

LEMMA TypeTamper ==
    ASSUME TypeOK, NEW t \in Secrets, Tamper(t)
    PROVE TypeOK'
<1>1. ApiTypeOK'
  <2>1. sec[t] \in K8sSecrets
    BY DEF TypeOK, ApiTypeOK, Tamper
  <2>2. [sec[t] EXCEPT !.data = Foreign] \in K8sSecrets
    BY <2>1, ConstantTypes DEF K8sSecrets
  <2>3. \A l \in SUBSET Labels : [sec[t] EXCEPT !.labels = l] \in K8sSecrets
    BY <2>1 DEF K8sSecrets
  <2>4. PICK s \in K8sSecrets \cup {None} : sec' = [sec EXCEPT ![t] = s]
    BY <2>2, <2>3 DEF Tamper
  <2> QED
    BY <2>4, TypeSecretWrite DEF Tamper
<1>2. CacheTypeOK'
  <2>1. secEvt' \in [Secrets -> SUBSET Names]
    <3>1. CASE Notify(t, sec[t].owner)
      BY <3>1, TypeNotify
    <3>2. CASE UNCHANGED secEvt
      BY <3>2 DEF TypeOK, CacheTypeOK
    <3> QED
      BY <3>1, <3>2 DEF Tamper
  <2> QED
    BY <2>1 DEF TypeOK, CacheTypeOK, Tamper
<1>3. BudgetTypeOK'
  BY TypeDisturb DEF Tamper, outside
<1>4. WorkerTypeOK' /\ QueueTypeOK' /\ OutsideTypeOK'
  BY Frames DEF Tamper, worker, outside
<1> QED
  BY <1>1, <1>2, <1>3, <1>4 DEF TypeOK

LEMMA TypePlant ==
    ASSUME TypeOK, NEW t \in Secrets, Plant(t)
    PROVE TypeOK'
<1>1. ApiTypeOK'
  <2>1. PICK l \in SUBSET Labels :
           sec' = [sec EXCEPT ![t] = [data |-> Foreign, labels |-> l,
                                      owner |-> None, age |-> MaxAge]]
    BY DEF Plant
  <2>2. [data |-> Foreign, labels |-> l, owner |-> None, age |-> MaxAge] \in K8sSecrets
    BY ConstantTypes DEF K8sSecrets
  <2> QED
    BY <2>1, <2>2, TypeSecretWrite DEF Plant
<1>2. CacheTypeOK'
  BY DEF TypeOK, CacheTypeOK, Plant
<1>3. BudgetTypeOK'
  BY TypeDisturb DEF Plant, outside
<1>4. WorkerTypeOK' /\ QueueTypeOK' /\ OutsideTypeOK'
  BY Frames DEF Plant, worker, outside
<1> QED
  BY <1>1, <1>2, <1>3, <1>4 DEF TypeOK

LEMMA TypeStoreChange ==
    ASSUME TypeOK, StoreChange
    PROVE TypeOK'
<1>1. BudgetTypeOK'
  BY SecretsAssumption DEF TypeOK, BudgetTypeOK, StoreChange, Disturb
<1>2. ApiTypeOK' /\ CacheTypeOK' /\ WorkerTypeOK' /\ QueueTypeOK' /\ OutsideTypeOK'
  BY Frames DEF StoreChange, api, cache, worker
<1> QED
  BY <1>1, <1>2 DEF TypeOK

\* A copy that gets older is still a Secret, of the same content and owner.
LEMMA OlderSecret ==
    ASSUME NEW s \in K8sSecrets \cup {None}
    PROVE  /\ Older(s) \in K8sSecrets \cup {None}
           /\ Older(s) = None <=> s = None
           /\ s # None => Older(s).owner = s.owner /\ Older(s).data = s.data
BY SecretsAssumption DEF Older, K8sSecrets, Ages, MaxAge

LEMMA TypeTick ==
    ASSUME TypeOK, Tick
    PROVE TypeOK'
<1>1. ApiTypeOK'
  BY OlderSecret DEF TypeOK, ApiTypeOK, Tick
<1>2. CacheTypeOK'
  BY OlderSecret DEF TypeOK, CacheTypeOK, Tick
<1>3. WorkerTypeOK' /\ QueueTypeOK' /\ BudgetTypeOK' /\ OutsideTypeOK'
  BY Frames DEF Tick, worker, outside
<1> QED
  BY <1>1, <1>2, <1>3 DEF TypeOK

LEMMA TypeDeliver ==
    ASSUME TypeOK,
           \/ \E n \in Names : DeliverVals(n) \/ Due(n)
           \/ \E t \in Secrets : DeliverSecret(t)
    PROVE TypeOK'
<1>1. ASSUME NEW n \in Names, DeliverVals(n) PROVE TypeOK'
  <2>1. CacheTypeOK'
    BY <1>1 DEF TypeOK, ApiTypeOK, CacheTypeOK, DeliverVals
  <2>2. QueueTypeOK'
    BY <1>1 DEF TypeOK, QueueTypeOK, DeliverVals, Wake
  <2>3. ApiTypeOK' /\ WorkerTypeOK' /\ BudgetTypeOK' /\ OutsideTypeOK'
    BY <1>1, Frames DEF DeliverVals, api, worker, outside
  <2> QED
    BY <2>1, <2>2, <2>3 DEF TypeOK
<1>2. ASSUME NEW n \in Names, Due(n) PROVE TypeOK'
  <2>1. QueueTypeOK'
    BY <1>2 DEF TypeOK, QueueTypeOK, Due
  <2>2. ApiTypeOK' /\ CacheTypeOK' /\ WorkerTypeOK' /\ BudgetTypeOK' /\ OutsideTypeOK'
    BY <1>2, Frames DEF Due, api, cache, worker, outside
  <2> QED
    BY <2>1, <2>2 DEF TypeOK
<1>3. ASSUME NEW t \in Secrets, DeliverSecret(t) PROVE TypeOK'
  <2>1. CacheTypeOK'
    BY <1>3 DEF TypeOK, ApiTypeOK, CacheTypeOK, DeliverSecret
  <2>2. QueueTypeOK'
    BY <1>3 DEF TypeOK, QueueTypeOK, DeliverSecret, Wake
  <2>3. ApiTypeOK' /\ WorkerTypeOK' /\ BudgetTypeOK' /\ OutsideTypeOK'
    BY <1>3, Frames DEF DeliverSecret, api, worker, outside
  <2> QED
    BY <2>1, <2>2, <2>3 DEF TypeOK
<1> QED
  BY <1>1, <1>2, <1>3

LEMMA TypeCrash ==
    ASSUME TypeOK, Crash
    PROVE TypeOK'
<1>1. CacheTypeOK'
  BY DEF TypeOK, ApiTypeOK, CacheTypeOK, Crash
<1>2. QueueTypeOK'
  BY ConstantTypes DEF QueueTypeOK, Crash
<1>3. WorkerTypeOK'
  BY TypeIdle DEF Crash
<1>4. BudgetTypeOK'
  BY TypeDisturb DEF Crash, outside
<1>5. ApiTypeOK' /\ OutsideTypeOK'
  BY Frames DEF Crash, api, outside
<1> QED
  BY <1>1, <1>2, <1>3, <1>4, <1>5 DEF TypeOK

\* The worker takes up a key it has read.
LEMMA TypePick ==
    ASSUME TypeOK, NEW n \in Names, PickIgnored(n) \/ PickLive(n) \/ PickDeleting(n)
    PROVE TypeOK'
<1>1. ApiTypeOK' /\ CacheTypeOK' /\ BudgetTypeOK' /\ OutsideTypeOK'
  BY Frames DEF PickIgnored, PickLive, PickDeleting, Pick, Keep
<1>2. QueueTypeOK'
  <2>1. q' \in [Names -> {"none", "later", "ready"}]
    BY DEF TypeOK, QueueTypeOK, PickIgnored, PickLive, PickDeleting, Pick
  <2>2. errs' \in [Names -> 0 .. MaxErr]
    BY ConstantTypes DEF TypeOK, QueueTypeOK, PickIgnored, PickLive, PickDeleting,
       clearErrorCount
  <2> QED
    BY <2>1, <2>2 DEF QueueTypeOK
<1>3. WorkerTypeOK'
  <2>1. CASE PickIgnored(n)
    BY <2>1, Frames DEF PickIgnored, worker
  <2>2. CASE PickLive(n) \/ PickDeleting(n)
    <3>1. vc[n] \in ValsSecrets
      BY <2>2 DEF TypeOK, CacheTypeOK, PickLive, PickDeleting
    <3>2. PICK step \in {"read", "claim", "delete"} : Start(n, step)
      BY <2>2 DEF PickLive, PickDeleting, clearErrorCount, FirstStep
    <3>3. objOld' \in BOOLEAN
      <4>1. (n \in vcOld) \in BOOLEAN
        OBVIOUS
      <4>2. objOld' = (n \in vcOld)
        BY <3>2 DEF Start
      <4> QED
        BY <4>1, <4>2, Zenon
    <3> QED
      BY <3>1, <3>2, <3>3 DEF WorkerTypeOK, Steps, Start
  <2> QED
    BY <2>1, <2>2
<1> QED
  BY <1>1, <1>2, <1>3 DEF TypeOK

\* The Secret that upsertSecret writes is well-formed.
LEMMA UpsertedSecret ==
    ASSUME TypeOK, pc = "upsert"
    PROVE  /\ cur \in Names /\ secretName \in Secrets /\ Upserted \in K8sSecrets
           /\ Upserted.data = data /\ Upserted.owner = cur
<1>1. cur \in Names /\ obj \in ValsSecrets /\ data \in Contents
  BY DEF TypeOK, WorkerTypeOK
<1>2. secretName \in Secrets
  BY <1>1, ConstantTypes DEF secretName
<1>3. obj.def.labels \in SUBSET Labels
  BY <1>1, ValsSecretEdits, ConstantTypes
<1>4. sc[secretName] # None => sc[secretName].labels \in SUBSET Labels
  BY <1>2 DEF TypeOK, CacheTypeOK, K8sSecrets
<1>5. Upserted.labels \in SUBSET Labels
  BY <1>3, <1>4 DEF Upserted
<1> QED
  BY <1>1, <1>2, <1>5, ConstantTypes DEF Upserted, K8sSecrets

\* The calls that write, whether their answer arrives or not.
LEMMA TypeWrite ==
    ASSUME TypeOK, Claiming \/ Deleting \/ Releasing \/ Upserting
    PROVE  /\ ApiTypeOK' /\ CacheTypeOK' /\ BudgetTypeOK' /\ OutsideTypeOK'
           /\ UNCHANGED errs /\ cur \in Names
<1>1. cur \in Names /\ secretName \in Secrets /\ obj \in ValsSecrets
  BY ConstantTypes DEF TypeOK, WorkerTypeOK, Claiming, Deleting, Releasing, Upserting,
     secretName
<1>2. ApiTypeOK'
  <2>1. CASE Claiming
    <3>1. [obj EXCEPT !.fin = TRUE] \in ValsSecrets
      BY <1>1, ValsSecretEdits
    <3> QED
      BY <1>1, <2>1, <3>1, TypeValsWrite DEF Claiming
  <2>2. CASE Releasing
    BY <1>1, <2>2, TypeValsWrite DEF Releasing
  <2>3. CASE Deleting
    BY <1>1, <2>3, TypeSecretWrite DEF Deleting
  <2>4. CASE Upserting
    BY <2>4, UpsertedSecret, TypeSecretWrite DEF Upserting
  <2> QED
    BY <2>1, <2>2, <2>3, <2>4
<1>3. CacheTypeOK'
  <2>1. secEvt' \in [Secrets -> SUBSET Names]
    <3>1. \/ \E o : Notify(secretName, o)
          \/ UNCHANGED secEvt
      BY DEF Claiming, Deleting, Releasing, Upserting
    <3>2. CASE \E o : Notify(secretName, o)
      BY <1>1, <3>2, TypeNotify
    <3>3. CASE UNCHANGED secEvt
      BY <3>3 DEF TypeOK, CacheTypeOK
    <3> QED
      BY <3>1, <3>2, <3>3
  <2>2. reborn' \in SUBSET Secrets
    BY <1>1 DEF TypeOK, CacheTypeOK, Claiming, Deleting, Releasing, Upserting
  <2>3. vcOld' \in SUBSET Names /\ vsEvt' \in SUBSET Names /\ UNCHANGED <<vc, sc>>
    BY <1>1 DEF TypeOK, CacheTypeOK, Claiming, Deleting, Releasing, Upserting
  <2> QED
    BY <2>1, <2>2, <2>3 DEF TypeOK, CacheTypeOK
<1>4. BudgetTypeOK' /\ OutsideTypeOK' /\ UNCHANGED errs
  BY Frames DEF Claiming, Deleting, Releasing, Upserting, outside
<1> QED
  BY <1>1, <1>2, <1>3, <1>4

\* The same calls, when the answer arrives.
LEMMA TypeAnswer ==
    ASSUME TypeOK, AddFinalizer \/ DeleteSecret \/ RemoveFinalizer \/ UpsertSecret
    PROVE  TypeOK'
<1>1. ApiTypeOK' /\ CacheTypeOK' /\ BudgetTypeOK' /\ OutsideTypeOK' /\ QueueTypeOK'
  BY TypeWrite DEF AddFinalizer, DeleteSecret, RemoveFinalizer, UpsertSecret,
     TypeOK, QueueTypeOK
<1>2. CASE AddFinalizer
  <2>1. cur \in Names /\ obj \in ValsSecrets /\ data = None
    BY <1>2 DEF TypeOK, WorkerTypeOK, AddFinalizer, Claiming
  <2>2. obj' \in ValsSecrets
    BY <1>2, <2>1, ValsSecretEdits DEF AddFinalizer
  <2>3. WorkerTypeOK'
    BY <1>2, <2>1, <2>2 DEF TypeOK, WorkerTypeOK, AddFinalizer, Steps
  <2> QED
    BY <1>1, <2>3 DEF TypeOK
<1>3. CASE DeleteSecret
  BY <1>1, <1>3 DEF TypeOK, WorkerTypeOK, DeleteSecret, Deleting, Goto, Steps
<1>4. CASE RemoveFinalizer
  BY <1>1, <1>4, TypeIdle DEF TypeOK, RemoveFinalizer
<1>5. CASE UpsertSecret
  BY <1>1, <1>5 DEF TypeOK, WorkerTypeOK, UpsertSecret, Upserting, Goto, Steps
<1> QED
  BY <1>2, <1>3, <1>4, <1>5

LEMMA TypeAnswerLost ==
    ASSUME TypeOK, AnswerLost
    PROVE  TypeOK'
<1>1. Claiming \/ Deleting \/ Releasing \/ Upserting
  BY DEF AnswerLost
<1>2. WorkerTypeOK'
  BY TypeIdle DEF AnswerLost
<1>3. QueueTypeOK'
  BY <1>1, TypeWrite DEF AnswerLost, Requeue, TypeOK, QueueTypeOK
<1> QED
  BY <1>1, <1>2, <1>3, TypeWrite DEF TypeOK

\* The steps that end a reconcile.
LEMMA TypeEnd ==
    ASSUME TypeOK,
           \/ ApiError \/ NotExpired \/ EvalError \/ UpsertSkip \/ UpsertError \/ Done
           \/ DatabasePanic \/ \E w \in Workloads : RolloutPanic(w)
    PROVE TypeOK'
<1>1. CASE UpsertError
  <2>1. WorkerTypeOK'
    BY <1>1, TypeIdle DEF UpsertError
  <2> QED
    BY <1>1, <2>1, Frames DEF UpsertError, Keep, TypeOK
<1>2. CASE ~UpsertError
  <2>1. pc # "idle" /\ Finish
    BY <1>2 DEF ApiError, NotExpired, EvalError, UpsertSkip, Done, RolloutPanic,
       DatabasePanic, Finish
  <2>2. cur \in Names
    BY <2>1 DEF TypeOK, WorkerTypeOK
  <2>3. errs' \in [Names -> 0 .. MaxErr]
    <3>1. CASE UNCHANGED errs \/ errs' = [errs EXCEPT ![cur] = 0]
      BY <2>2, <3>1, ConstantTypes DEF TypeOK, QueueTypeOK
    <3>2. CASE EvalError
      BY <2>2, <3>2, ConstantTypes DEF TypeOK, QueueTypeOK, EvalError
    <3> QED
      BY <1>2, <3>1, <3>2 DEF ApiError, NotExpired, UpsertSkip, Done, RolloutPanic,
         DatabasePanic, clearErrorCount
  <2> QED
    BY <2>1, <2>3, TypeFinish DEF TypeOK, QueueTypeOK
<1> QED
  BY <1>1, <1>2

\* The steps that only move the worker.
LEMMA TypeMove ==
    ASSUME TypeOK, Expired \/ Eval \/ \E w \in Workloads : RolloutError(w)
    PROVE TypeOK'
<1>1. ApiTypeOK' /\ CacheTypeOK' /\ QueueTypeOK' /\ BudgetTypeOK' /\ OutsideTypeOK'
  BY Frames DEF Expired, Eval, RolloutError, Keep
<1>2. WorkerTypeOK'
  <2>1. CASE Expired
    BY <2>1 DEF TypeOK, WorkerTypeOK, Expired, Goto, Steps
  <2>2. CASE Eval
    <3>1. Render(obj.def, store) \in Contents
      <4>1. obj.def \in Defs
        BY <2>2, ValsSecretEdits DEF TypeOK, WorkerTypeOK, Eval
      <4>2. store \in 0 .. Budget
        BY SecretsAssumption DEF TypeOK, BudgetTypeOK
      <4> QED
        BY <4>1, <4>2 DEF Contents
    <3> QED
      BY <2>2, <3>1 DEF TypeOK, WorkerTypeOK, Eval, Steps
  <2>3. CASE \E w \in Workloads : RolloutError(w)
    BY <2>3 DEF TypeOK, WorkerTypeOK, RolloutError
  <2> QED
    BY <2>1, <2>2, <2>3
<1> QED
  BY <1>1, <1>2 DEF TypeOK

\* The steps that reach the databases and the workloads.
LEMMA TypeOutside ==
    ASSUME TypeOK, UpdateDatabases \/ DatabaseError \/ \E w \in Workloads : Rollout(w)
    PROVE TypeOK'
<1>1. ApiTypeOK' /\ CacheTypeOK' /\ QueueTypeOK' /\ BudgetTypeOK'
  BY Frames DEF UpdateDatabases, DatabaseError, Keep, Rollout, api, cache
<1>2. cur \in Names /\ data \in Contents
  BY DEF TypeOK, WorkerTypeOK, UpdateDatabases, DatabaseError, Keep, Rollout
<1>3. WorkerTypeOK'
  BY <1>2, ConstantTypes DEF TypeOK, WorkerTypeOK, UpdateDatabases, DatabaseError, Keep, Rollout, Steps
<1>4. OutsideTypeOK'
  <2>1. CASE UpdateDatabases \/ DatabaseError
    BY <1>2, <2>1 DEF TypeOK, OutsideTypeOK, UpdateDatabases, DatabaseError, Keep
  <2>2. CASE \E w \in Workloads : Rollout(w)
    <3>1. secretName \in Secrets
      BY <1>2, ConstantTypes DEF secretName
    <3>2. sec[secretName] # None => sec[secretName].data \in Contents
      BY <3>1 DEF TypeOK, ApiTypeOK, K8sSecrets
    <3> QED
      BY <2>2, <3>2 DEF TypeOK, OutsideTypeOK, Rollout
  <2> QED
    BY <2>1, <2>2
<1> QED
  BY <1>1, <1>3, <1>4 DEF TypeOK

\* Every step keeps the types.
LEMMA TypeStep == TypeOK /\ [Next]_vars => TypeOK'
<1> SUFFICES ASSUME TypeOK, [Next]_vars PROVE TypeOK'
  OBVIOUS
<1>1. CASE Environment
  BY <1>1, TypeApply, TypeDelete, TypeTamper, TypePlant, TypeStoreChange DEF Environment
<1>2. CASE Plumbing
  BY <1>2, TypeDeliver, TypeTick DEF Plumbing
<1>3. CASE \E n \in Names : PickIgnored(n) \/ PickLive(n) \/ PickDeleting(n)
  BY <1>3, TypePick
<1>4. CASE Progress
  BY <1>4, TypeAnswer, TypeEnd, TypeMove, TypeOutside DEF Progress
<1>5. CASE Errors
  BY <1>5, TypeAnswerLost, TypeEnd, TypeMove, TypeOutside DEF Errors
<1>6. CASE Crash
  BY <1>6, TypeCrash
<1>7. CASE UNCHANGED vars
  BY <1>7, Frames DEF vars, TypeOK
<1> QED
  BY <1>1, <1>2, <1>3, <1>4, <1>5, <1>6, <1>7 DEF Next, Reconcile

\* Every variable keeps its type, and the worker's locals are set exactly
\* while the step it is in needs them.
THEOREM TypeCorrect == Spec => []TypeOK
BY TypeInit, TypeStep, PTL DEF Spec

\* What a step of anybody but the last one of a deletion leaves claimed.
LEMMA ClaimsKept ==
    ASSUME TypeOK, LifeInv, [Next]_vars, ~(Releasing /\ pc' # pc)
    PROVE  \A n \in Names : Claimed(n) => Claimed(n)'
<1> SUFFICES ASSUME NEW n \in Names, Claimed(n) PROVE Claimed(n)'
  OBVIOUS
<1>0. vs[n] \in ValsSecrets /\ vs[n].fin
  BY DEF Claimed, TypeOK, ApiTypeOK
<1>1. ASSUME NEW m \in Names, NEW d \in Defs, Apply(m, d) PROVE Claimed(n)'
  BY <1>0, <1>1, SecretsAssumption DEF Apply, Claimed, TypeOK, ApiTypeOK, ValsSecrets
<1>2. ASSUME NEW m \in Names, Delete(m) PROVE Claimed(n)'
  BY <1>0, <1>2, SecretsAssumption DEF Delete, Claimed, TypeOK, ApiTypeOK, ValsSecrets
<1>3. CASE Claiming
  <2> DEFINE new == [obj EXCEPT !.fin = TRUE]
  <2>1. new \in ValsSecrets /\ new.fin /\ vs' = [vs EXCEPT ![cur] = new]
    BY <1>3 DEF Claiming, TypeOK, WorkerTypeOK, ValsSecrets
  <2> HIDE DEF new
  <2> QED
    BY <1>0, <2>1, SecretsAssumption DEF Claimed, TypeOK, ApiTypeOK
<1>4. CASE UNCHANGED vs
  BY <1>0, <1>4 DEF Claimed
<1>5. ASSUME NEW t \in Secrets, Tamper(t) \/ Plant(t) PROVE UNCHANGED vs
  BY <1>5 DEF Tamper, Plant
<1>6. StoreChange \/ Plumbing \/ Crash => UNCHANGED vs
  BY DEF StoreChange, Plumbing, Crash, DeliverVals, DeliverSecret, Due, Tick, api
<1>7. ASSUME NEW m \in Names, PickIgnored(m) \/ PickLive(m) \/ PickDeleting(m)
      PROVE UNCHANGED vs
  BY <1>7 DEF PickIgnored, PickLive, PickDeleting, Pick, Keep
<1>8. Progress /\ ~Claiming => UNCHANGED vs
  BY DEF Progress, AddFinalizer, DeleteSecret, Deleting, RemoveFinalizer, Releasing, Idle,
     NotExpired, Expired, Eval, UpsertSkip, UpsertSecret, Upserting,
     UpdateDatabases, Done, Rollout, Finish, Keep, api
<1>9. Errors /\ ~Claiming => UNCHANGED vs
  BY DEF Errors, AnswerLost, Deleting, Releasing, Idle, Upserting, ApiError, EvalError, UpsertError, RolloutError, RolloutPanic, DatabaseError, DatabasePanic,
     Finish, Keep
<1> QED
  BY <1>1, <1>2, <1>3, <1>4, <1>5, <1>6, <1>7, <1>8, <1>9 DEF Next, Environment, Reconcile,
     vars

\* Only upsertSecret makes a ValsSecret the owner of a Secret.
LEMMA NoNewOwner ==
    ASSUME TypeOK, [Next]_vars, ~(Upserting /\ pc' # pc)
    PROVE  \A t \in Secrets : sec'[t] # None /\ sec'[t].owner # None =>
                sec[t] # None /\ sec[t].owner = sec'[t].owner
<1>1. ASSUME NEW n \in Names, NEW d \in Defs, Apply(n, d) PROVE UNCHANGED sec
  BY <1>1 DEF Apply
<1>2. ASSUME NEW n \in Names, Delete(n) PROVE UNCHANGED sec
  BY <1>2 DEF Delete
<1>3. ASSUME NEW t \in Secrets, Tamper(t), NEW u \in Secrets,
             sec'[u] # None, sec'[u].owner # None
      PROVE sec[u] # None /\ sec[u].owner = sec'[u].owner
  <2>1. sec[t] \in K8sSecrets
    BY <1>3 DEF Tamper, TypeOK, ApiTypeOK
  <2>2. /\ [sec[t] EXCEPT !.data = Foreign].owner = sec[t].owner
        /\ \A l : [sec[t] EXCEPT !.labels = l].owner = sec[t].owner
    BY <2>1 DEF K8sSecrets
  <2>3. sec' = [sec EXCEPT ![t] = None] \/ (sec'[u] # None /\ sec'[u].owner = sec[u].owner)
    BY <1>3, <2>1, <2>2 DEF Tamper, TypeOK, ApiTypeOK
  <2> QED
    BY <1>3, <2>1, <2>3, SecretsAssumption DEF Tamper, TypeOK, ApiTypeOK
<1>4. ASSUME NEW t \in Secrets, Plant(t), NEW u \in Secrets,
             sec'[u] # None, sec'[u].owner # None
      PROVE sec[u] # None /\ sec[u].owner = sec'[u].owner
  BY <1>4 DEF Plant, TypeOK, ApiTypeOK
<1>5. ASSUME Tick, NEW u \in Secrets, sec'[u] # None, sec'[u].owner # None
      PROVE sec[u] # None /\ sec[u].owner = sec'[u].owner
  BY <1>5, OlderSecret DEF Tick, TypeOK, ApiTypeOK
<1>6. ASSUME Deleting, NEW u \in Secrets, sec'[u] # None, sec'[u].owner # None
      PROVE sec[u] # None /\ sec[u].owner = sec'[u].owner
  BY <1>6 DEF Deleting, TypeOK, ApiTypeOK
<1>7. StoreChange \/ Crash => UNCHANGED sec
  BY DEF StoreChange, Crash, api
<1>8. ASSUME NEW n \in Names, DeliverVals(n) \/ Due(n) PROVE UNCHANGED sec
  BY <1>8 DEF DeliverVals, Due, api
<1>9. ASSUME NEW t \in Secrets, DeliverSecret(t) PROVE UNCHANGED sec
  BY <1>9 DEF DeliverSecret, api
<1>10. ASSUME NEW m \in Names, PickIgnored(m) \/ PickLive(m) \/ PickDeleting(m)
       PROVE UNCHANGED sec
  BY <1>10 DEF PickIgnored, PickLive, PickDeleting, Pick, Keep
<1>11. Progress /\ ~Deleting => UNCHANGED sec
  BY DEF Progress, AddFinalizer, Claiming, DeleteSecret, RemoveFinalizer, Releasing,
     NotExpired, Expired, Eval, UpsertSkip, UpsertSecret, Upserting, Goto,
     UpdateDatabases, Done, Rollout, Finish, Keep, api
<1>12. Errors /\ ~Deleting => UNCHANGED sec
  BY DEF Errors, AnswerLost, Claiming, Releasing, Upserting, Idle, ApiError, EvalError, UpsertError, RolloutError, RolloutPanic, DatabaseError, DatabasePanic,
     Finish, Keep
<1> QED
  BY <1>1, <1>2, <1>3, <1>4, <1>5, <1>6, <1>7, <1>8, <1>9, <1>10, <1>11, <1>12
     DEF Next, Environment, Plumbing, Reconcile, vars

LEMMA OwnerStep ==
    ASSUME TypeOK, LifeInv, [Next]_vars
    PROVE  NoOrphan' /\ OwnedAtTarget'
<1> USE DEF LifeInv
<1>1. CASE Upserting
  <2>1. pc = "upsert"
    BY <1>1 DEF Upserting
  <2>2. /\ cur \in Names /\ secretName \in Secrets
        /\ Upserted \in K8sSecrets /\ Upserted.owner = cur
    BY <2>1, UpsertedSecret
  <2>3. sec' = [sec EXCEPT ![secretName] = Upserted] /\ UNCHANGED vs
    BY <1>1 DEF Upserting
  <2>4. Claimed(cur)
    BY <2>1 DEF WorkerClaims
  <2>5. NoOrphan'
    BY <2>2, <2>3, <2>4 DEF NoOrphan, Claimed, TypeOK, ApiTypeOK
  <2>6. OwnedAtTarget'
    BY <2>2, <2>3 DEF OwnedAtTarget, secretName, TypeOK, ApiTypeOK
  <2> QED
    BY <2>5, <2>6
<1>2. CASE ~Upserting /\ ~Releasing
  <2>1. \A t \in Secrets : sec[t] # None /\ sec[t].owner # None => sec[t].owner \in Names
    BY DEF TypeOK, ApiTypeOK, K8sSecrets
  <2> QED
    BY <1>2, <2>1, NoNewOwner, ClaimsKept DEF NoOrphan, OwnedAtTarget
<1>3. CASE Releasing
  <2>1. cur \in Names /\ vs' = [vs EXCEPT ![cur] = None] /\ UNCHANGED sec /\ pc = "release"
    BY <1>3 DEF Releasing, TypeOK, WorkerTypeOK
  <2>2. ASSUME NEW t \in Secrets, sec[t] # None, sec[t].owner # None
        PROVE  sec[t].owner # cur /\ sec[t].owner \in Names
    BY <2>1, <2>2 DEF OwnedAtTarget, WorkerClaims, secretName, TypeOK, ApiTypeOK, K8sSecrets
  <2>3. NoOrphan'
    BY <2>1, <2>2 DEF NoOrphan, Claimed, TypeOK, ApiTypeOK
  <2>4. OwnedAtTarget'
    BY <2>1 DEF OwnedAtTarget
  <2> QED
    BY <2>3, <2>4
<1> QED
  BY <1>1, <1>2, <1>3

LEMMA ErrorStep ==
    ASSUME TypeOK, LifeInv, [Next]_vars
    PROVE  NoErrorCountLeft'
<1> USE DEF LifeInv
<1>0. errs \in [Names -> 0 .. MaxErr] /\ MaxErr \in Nat
  BY SecretsAssumption DEF TypeOK, QueueTypeOK
<1>1. CASE Releasing
  <2>1. cur \in Names /\ vs' = [vs EXCEPT ![cur] = None] /\ UNCHANGED errs /\ errs[cur] = 0
    BY <1>1 DEF Releasing, TypeOK, WorkerTypeOK, WorkerClaims
  <2> QED
    BY <1>0, <2>1 DEF NoErrorCountLeft, Claimed, TypeOK, ApiTypeOK
<1>2. CASE EvalError
  <2>1. cur \in Names /\ Claimed(cur) /\ UNCHANGED vs
    BY <1>2 DEF EvalError, Finish, Keep, TypeOK, WorkerTypeOK, WorkerClaims
  <2>2. \A n \in Names \ {cur} : errs'[n] = errs[n]
    BY <1>0, <1>2 DEF EvalError
  <2> QED
    BY <2>1, <2>2 DEF NoErrorCountLeft, Claimed
<1>3. CASE ~Releasing /\ ~EvalError
  <2>1. ASSUME NEW m \in Names PROVE errs'[m] = errs[m] \/ errs'[m] = 0
    <3>1. ASSUME NEW n \in Names, (\E d \in Defs : Apply(n, d)) \/ Delete(n) PROVE UNCHANGED errs
      BY <3>1 DEF Apply, Delete
    <3>2. ASSUME NEW t \in Secrets, Tamper(t) \/ Plant(t) \/ DeliverSecret(t)
          PROVE UNCHANGED errs
      BY <3>2 DEF Tamper, Plant, DeliverSecret
    <3>3. ASSUME NEW n \in Names, DeliverVals(n) \/ Due(n) PROVE UNCHANGED errs
      BY <3>3 DEF DeliverVals, Due
    <3>4. StoreChange \/ Tick \/ UNCHANGED vars => UNCHANGED errs
      BY DEF StoreChange, Tick, vars
    <3>5. ASSUME NEW n \in Names, PickIgnored(n) \/ PickLive(n) \/ PickDeleting(n)
          PROVE errs'[m] = errs[m] \/ errs'[m] = 0
      BY <1>0, <3>5 DEF PickIgnored, PickLive, PickDeleting, clearErrorCount
    <3>6. ASSUME UpsertSkip \/ Done \/ Crash
          PROVE errs'[m] = errs[m] \/ errs'[m] = 0
      BY <1>0, <3>6 DEF UpsertSkip, Done, Crash, clearErrorCount
    <3>7. Progress /\ ~UpsertSkip /\ ~Done => UNCHANGED errs
      BY DEF Progress, AddFinalizer, Claiming, DeleteSecret, Deleting, RemoveFinalizer,
         Releasing, NotExpired, Expired, Eval, UpsertSecret, Upserting,
         UpdateDatabases, Rollout
    <3>8. Errors /\ ~EvalError => UNCHANGED errs
      BY DEF Errors, AnswerLost, Claiming, Deleting, Releasing, Upserting, ApiError, UpsertError, RolloutError, RolloutPanic,
         DatabaseError, DatabasePanic
    <3>9. CASE Environment \/ Plumbing \/ UNCHANGED vars
      BY <3>9, <3>1, <3>2, <3>3, <3>4 DEF Environment, Plumbing
    <3>10. CASE Reconcile \/ Crash
      BY <1>3, <3>10, <3>5, <3>6, <3>7, <3>8 DEF Reconcile
    <3> QED
      BY <3>9, <3>10 DEF Next
  <2> QED
    BY <1>3, <2>1, ClaimsKept DEF NoErrorCountLeft
<1> QED
  BY <1>1, <1>2, <1>3


LEMMA CacheStep ==
    ASSUME TypeOK, LifeInv, [Next]_vars
    PROVE  CacheIsCurrent' /\ CachedClaims'
<1> USE DEF LifeInv
<1>1. ASSUME NEW n \in Names, (\E d \in Defs : Apply(n, d)) \/ Delete(n) PROVE CacheIsCurrent'
  BY <1>1 DEF Apply, Delete, Outdate, CacheIsCurrent, TypeOK, ApiTypeOK
<1>2. CASE Claiming \/ Releasing
  <2>1. cur \in Names
    BY <1>2 DEF Claiming, Releasing, TypeOK, WorkerTypeOK
  <2>2. CacheIsCurrent'
    BY <1>2, <2>1 DEF Claiming, Releasing, CacheIsCurrent, TypeOK, ApiTypeOK
  <2>3. ASSUME Releasing PROVE CachedClaims'
    <3>1. vc[cur] = obj /\ obj.del /\ UNCHANGED vc /\ vs' = [vs EXCEPT ![cur] = None]
      BY <2>1, <2>3 DEF Releasing, WorkerClaims, CacheIsCurrent
    <3> QED
      BY <2>1, <3>1 DEF CachedClaims, Claimed, TypeOK, ApiTypeOK
  <2>4. ASSUME Claiming, ~Releasing PROVE CachedClaims'
    BY <2>4, ClaimsKept DEF Claiming, CachedClaims
  <2> QED
    BY <1>2, <2>2, <2>3, <2>4
<1>3. ASSUME NEW n \in Names, (\E d \in Defs : Apply(n, d)) \/ Delete(n) PROVE CachedClaims'
  <2>1. ~Releasing /\ UNCHANGED vc
    <3>1. \/ left' = left - 1 /\ left \in Nat
      BY <1>3 DEF Apply, Delete, Disturb, TypeOK, BudgetTypeOK
    <3> QED
      BY <1>3, <3>1 DEF Apply, Delete, Releasing
  <2> QED
    BY <2>1, ClaimsKept DEF CachedClaims
<1>4. ASSUME NEW n \in Names, DeliverVals(n) PROVE CacheIsCurrent' /\ CachedClaims'
  BY <1>4 DEF DeliverVals, CacheIsCurrent, CachedClaims, Claimed, api, TypeOK, CacheTypeOK
<1>5. CASE Crash
  BY <1>5 DEF Crash, CacheIsCurrent, CachedClaims, Claimed, api
<1>6. CASE UNCHANGED <<vs, vc, vcOld>>
  BY <1>6 DEF CacheIsCurrent, CachedClaims, Claimed
<1>7. ASSUME NEW t \in Secrets, Tamper(t) \/ Plant(t) \/ DeliverSecret(t)
      PROVE  UNCHANGED <<vs, vc, vcOld>>
  BY <1>7 DEF Tamper, Plant, DeliverSecret, api
<1>8. ASSUME NEW n \in Names, Due(n) PROVE UNCHANGED <<vs, vc, vcOld>>
  BY <1>8 DEF Due, api, cache
<1>9. StoreChange \/ Tick => UNCHANGED <<vs, vc, vcOld>>
  BY DEF StoreChange, Tick, api, cache
<1>10. ASSUME NEW m \in Names, PickIgnored(m) \/ PickLive(m) \/ PickDeleting(m)
       PROVE UNCHANGED <<vs, vc, vcOld>>
  BY <1>10 DEF PickIgnored, PickLive, PickDeleting, Pick, Keep
<1>11. Progress /\ ~Claiming /\ ~Releasing => UNCHANGED <<vs, vc, vcOld>>
  BY DEF Progress, AddFinalizer, DeleteSecret, Deleting, RemoveFinalizer, NotExpired,
     Expired, Eval, UpsertSkip, UpsertSecret, Upserting,
     UpdateDatabases, Done, Rollout, Finish, Keep, api, cache
<1>12. Errors /\ ~Claiming /\ ~Releasing => UNCHANGED <<vs, vc, vcOld>>
  BY DEF Errors, AnswerLost, Deleting, Upserting, ApiError, EvalError, UpsertError, RolloutError, RolloutPanic, DatabaseError, DatabasePanic,
     Finish, Keep
<1>13. CASE Environment
  BY <1>13, <1>1, <1>3, <1>6, <1>7, <1>9 DEF Environment
<1>14. CASE Plumbing
  BY <1>14, <1>4, <1>6, <1>7, <1>8, <1>9 DEF Plumbing
<1>15. CASE Reconcile
  BY <1>15, <1>2, <1>6, <1>10, <1>11, <1>12 DEF Reconcile
<1> QED
  BY <1>5, <1>6, <1>13, <1>14, <1>15 DEF Next, vars

LEMMA WorkerStep ==
    ASSUME TypeOK, LifeInv, [Next]_vars
    PROVE  WorkerClaims'
<1> USE DEF LifeInv
<1> DEFINE Held == <<pc, cur, obj>>
<1>1. CASE pc' = "idle"
  BY <1>1 DEF WorkerClaims
\* Somebody else's step, which may make the worker's copy old.
<1>2. ASSUME UNCHANGED Held, pc # "idle",
             \A n \in Names : errs'[n] = errs[n] \/ errs'[n] = 0,
             ~objOld' => ~objOld /\ (cur \notin vcOld => cur \notin vcOld') /\ vs'[cur] = vs[cur]
      PROVE  WorkerClaims'
  <2>1. cur \in Names /\ secretName \in Secrets /\ cur # None
    BY <1>2, ConstantTypes, SecretsAssumption DEF TypeOK, WorkerTypeOK, secretName
  <2>2. pc \in {"read", "eval", "upsert", "db", "rollout"} => Claimed(cur)'
    <3>1. ASSUME pc \in {"read", "eval", "upsert", "db", "rollout"} PROVE Claimed(cur)'
      <4>1. Claimed(cur)
        BY <3>1 DEF WorkerClaims
      <4> QED
        BY <1>2, <2>1, <4>1, ClaimsKept DEF Claimed
    <3> QED
      BY <3>1
  <2>3. pc \in {"claim", "delete",
                "release"} /\ ~objOld' => cur \notin vcOld' /\ vs'[cur] = obj
    BY <1>2 DEF WorkerClaims
  <2>4. pc \in {"delete", "release"} => obj.del /\ obj.fin /\ errs'[cur] = 0
    BY <1>2, <2>1 DEF WorkerClaims
  <2>5. pc = "release" => ~(sec'[secretName] # None /\ sec'[secretName].owner = cur)
    BY <1>2, <2>1, NoNewOwner DEF WorkerClaims
  <2> QED
    BY <1>2, <2>2, <2>3, <2>4, <2>5 DEF WorkerClaims, secretName
\* A step of the worker after it has claimed its key.
<1>3. ASSUME pc \in {"read", "eval", "upsert", "db", "rollout"}, cur' = cur, UNCHANGED vs,
             pc' \in {"read", "eval", "upsert", "db", "rollout"}
      PROVE  WorkerClaims'
  BY <1>3 DEF WorkerClaims, Claimed
<1>4. ASSUME NEW n \in Names, (\E d \in Defs : Apply(n, d)) \/ Delete(n), pc # "idle"
      PROVE  WorkerClaims'
  <2>1. UNCHANGED Held /\ UNCHANGED errs
    BY <1>4 DEF Apply, Delete
  <2>2. ~objOld' => ~objOld /\ cur # n
    BY <1>4, Zenon DEF Apply, Delete, Outdate
  <2>3. cur # n => (cur \notin vcOld => cur \notin vcOld') /\ vs'[cur] = vs[cur]
    <3>1. cur \in Names /\ vs \in [Names -> ValsSecrets \cup {None}]
      BY <1>4 DEF TypeOK, ApiTypeOK, WorkerTypeOK
    <3>2. vcOld' = vcOld \cup {n}
      BY <1>4 DEF Apply, Delete, Outdate
    <3>3. cur # n => vs'[cur] = vs[cur]
      BY <1>4, <3>1 DEF Apply, Delete
    <3> QED
      BY <3>2, <3>3
  <2> QED
    BY <1>2, <1>4, <2>1, <2>2, <2>3
<1>5. ASSUME NEW n \in Names, DeliverVals(n) \/ Due(n), pc # "idle" PROVE WorkerClaims'
  <2>1. UNCHANGED <<vs, pc, cur, obj, objOld, errs,
                    sec>> /\ (cur \notin vcOld => cur \notin vcOld')
    BY <1>5 DEF DeliverVals, Due, api, cache, worker
  <2> QED
    BY <2>1 DEF WorkerClaims, Claimed, secretName
<1>6. ASSUME NEW t \in Secrets, Tamper(t) \/ Plant(t) \/ DeliverSecret(t), pc # "idle"
      PROVE  WorkerClaims'
  <2>1. UNCHANGED <<vs, pc, cur, obj, objOld, errs, vcOld>>
    BY <1>6 DEF Tamper, Plant, DeliverSecret, api, worker
  <2> QED
    BY <1>2, <1>6, <2>1
<1>7. ASSUME StoreChange \/ Tick \/ UNCHANGED vars, pc # "idle" PROVE WorkerClaims'
  <2>1. UNCHANGED <<vs, pc, cur, obj, objOld, errs, vcOld>>
    BY <1>7 DEF StoreChange, Tick, vars, api, cache, worker
  <2> QED
    BY <1>2, <1>7, <2>1
<1>8. ASSUME NEW n \in Names, PickIgnored(n) \/ PickLive(n) \/ PickDeleting(n) PROVE WorkerClaims'
  <2>1. CASE PickIgnored(n)
    BY <1>1, <2>1 DEF PickIgnored, Pick, worker
  <2>2. CASE PickLive(n)
    <3>1. vc[n] # None /\ ~vc[n].del /\ UNCHANGED <<vs, vcOld>> /\ cur' = n /\ obj' = vc[n]
      BY <2>2 DEF PickLive, Pick, Keep, Start
    <3>2. CASE vc[n].fin
      BY <2>2, <3>1, <3>2 DEF PickLive, Start, CachedClaims, WorkerClaims, Claimed, FirstStep
    <3>3. CASE ~vc[n].fin
      <4>1. pc' = "claim" /\ objOld' = (n \in vcOld)
        BY <2>2, <3>3 DEF PickLive, Start, FirstStep
      <4> QED
        BY <3>1, <4>1 DEF CacheIsCurrent, WorkerClaims
    <3> QED
      BY <3>2, <3>3
  <2>3. CASE PickDeleting(n)
    <3>1. /\ pc' = "delete" /\ cur' = n /\ obj' = vc[n] /\ objOld' = (n \in vcOld)
          /\ UNCHANGED <<vs, vcOld>> /\ vc[n].del /\ vc[n].fin
      BY <2>3 DEF PickDeleting, Pick, Keep, Start
    <3>2. errs'[n] = 0
      BY <2>3 DEF PickDeleting, TypeOK, QueueTypeOK, clearErrorCount
    <3> QED
      BY <3>1, <3>2 DEF CacheIsCurrent, WorkerClaims
  <2> QED
    BY <1>8, <2>1, <2>2, <2>3
<1>9. CASE AddFinalizer
  <2>1. cur \in Names /\ obj \in ValsSecrets
    BY <1>9 DEF AddFinalizer, Claiming, TypeOK, WorkerTypeOK
  <2>2. obj' \in ValsSecrets /\ obj'.fin /\ vs'[cur] = obj' /\ cur' = cur /\ pc' = "read"
    BY <1>9, <2>1 DEF AddFinalizer, Claiming, ValsSecrets, TypeOK, ApiTypeOK
  <2> QED
    BY <2>2, SecretsAssumption DEF WorkerClaims, Claimed
<1>10. CASE DeleteSecret
  <2>1. cur \in Names /\ secretName \in Secrets
    BY <1>10, ConstantTypes DEF DeleteSecret, Deleting, TypeOK, WorkerTypeOK, secretName
  <2>2. sec'[secretName] = None
    BY <1>10, <2>1 DEF DeleteSecret, Deleting, TypeOK, ApiTypeOK
  <2>3. pc = "delete" /\ pc' = "release" /\ UNCHANGED <<vs, vcOld, errs, cur, obj, objOld>>
    BY <1>10 DEF DeleteSecret, Deleting, Goto
  <2> QED
    BY <2>2, <2>3 DEF WorkerClaims, secretName
<1>11. CASE Expired \/ Eval \/ UpsertSecret \/ UpdateDatabases \/ DatabaseError
            \/ \E w \in Workloads : Rollout(w) \/ RolloutError(w)
  BY <1>3, <1>11 DEF Expired, Eval, UpsertSecret, Upserting, UpdateDatabases, DatabaseError, Rollout, RolloutError,
     Goto, Keep, api
<1>12. CASE RemoveFinalizer \/ NotExpired \/ UpsertSkip \/ Done \/ Crash
            \/ ApiError \/ EvalError \/ UpsertError \/ AnswerLost
            \/ DatabasePanic \/ \E w \in Workloads : RolloutPanic(w)
  BY <1>1, <1>12 DEF RemoveFinalizer, NotExpired, UpsertSkip, Done, Crash, ApiError,
     EvalError, UpsertError, AnswerLost, RolloutPanic, DatabasePanic, Finish, Idle
<1>13. CASE pc = "idle" /\ (Environment \/ Plumbing \/ UNCHANGED vars)
  BY <1>1, <1>13 DEF Environment, Plumbing, vars, worker, Apply, Delete, Tamper, Plant,
     StoreChange,
     DeliverVals, Due, DeliverSecret, Tick
<1>14. CASE pc # "idle" /\ (Environment \/ Plumbing \/ UNCHANGED vars)
  BY <1>4, <1>5, <1>6, <1>7, <1>14 DEF Environment, Plumbing
<1>15. CASE Reconcile
  BY <1>8, <1>9, <1>10, <1>11, <1>12, <1>15 DEF Reconcile, Progress, Errors
<1> QED
  BY <1>12, <1>13, <1>14, <1>15 DEF Next

LEMMA LifeInit == Init => LifeInv
BY SecretsAssumption DEF Init, LifeInv, NoOrphan, OwnedAtTarget, NoErrorCountLeft,
   CacheIsCurrent,
   CachedClaims, WorkerClaims

LEMMA LifeStep == TypeOK /\ LifeInv /\ [Next]_vars => LifeInv'
BY OwnerStep, ErrorStep, CacheStep, WorkerStep DEF LifeInv

THEOREM LifeCorrect == Spec => []LifeInv
BY TypeCorrect, LifeInit, LifeStep, PTL DEF Spec

\* A Secret that the operator wrote has an owner that exists and still carries
\* the finalizer, whatever the cache shows, whatever fails, whenever it crashes.
THEOREM SecretsHaveOwners == Spec => []NoOrphan
BY LifeCorrect, PTL DEF LifeInv

\* errorCounts keeps no entry for a ValsSecret that is gone.
THEOREM ErrorCountsAreCleared == Spec => []NoErrorCountLeft
BY LifeCorrect, PTL DEF LifeInv
=============================================================================
