------------------------ MODULE DbCredentialsProofs ------------------------
(* DbSecret implements DbCredentials.                                       *)
EXTENDS DbSecretProofs

LEMMA CredentialsInit == Init => Credentials!Init
<1> SUFFICES ASSUME Init PROVE Credentials!Init
  OBVIOUS
<1>1. claimedNow = {}
  BY DEF Init, claimedNow, Claimed
<1>2. holderOf = [t \in Secrets |-> None] /\ leaseIn = [t \in Secrets |-> None]
  BY DEF Init, holderOf, leaseIn
<1>3. inHand = {}
  BY DEF Init, inHand
<1> QED
  BY <1>1, <1>2, <1>3 DEF Init, Credentials!Init

\* Credentials are in the worker's hand only between their grant and their write.
LEMMA EmptyHand ==
    ASSUME TypeOK, pc # "upsert"
    PROVE  cred = None /\ inHand = {}
BY DEF TypeOK, WorkerTypeOK, inHand

\* What DbCredentials sees of a step that leaves the lease and owner of every
\* Secret alone.
LEMMA SameViews ==
    ASSUME \A t \in Secrets : Kin(sec'[t], sec[t])
    PROVE  UNCHANGED <<holderOf, leaseIn>>
<1>1. \A t \in Secrets : /\ sec'[t] = None <=> sec[t] = None
                         /\ sec[t] # None => /\ sec'[t].lease = sec[t].lease
                                             /\ sec'[t].owner = sec[t].owner
  BY DEF Kin
<1>2. holderOf' = holderOf
  BY <1>1 DEF holderOf
<1>3. leaseIn' = leaseIn
  BY <1>1 DEF leaseIn
<1> QED
  BY <1>2, <1>3

\* What it sees of a Secret that is replaced, or gone.
LEMMA NewViews ==
    ASSUME TypeOK, NEW t \in Secrets, NEW s, sec' = [sec EXCEPT ![t] = s]
    PROVE  /\ holderOf' = [holderOf EXCEPT ![t] = IF s = None THEN None ELSE s.owner]
           /\ leaseIn' = [leaseIn EXCEPT ![t] = IF s = None THEN None ELSE s.lease]
<1>1. sec \in [Secrets -> K8sSecrets \cup {None}]
  BY DEF TypeOK, ApiTypeOK
<1>2. sec'[t] = s /\ \A u \in Secrets \ {t} : sec'[u] = sec[u]
  BY <1>1
<1>3. holderOf' = [holderOf EXCEPT ![t] = IF s = None THEN None ELSE s.owner]
  <2> DEFINE o == IF s = None THEN None ELSE s.owner
  <2>1. holderOf' = [u \in Secrets |-> IF u = t THEN o ELSE holderOf[u]]
    BY <1>2 DEF holderOf
  <2> HIDE DEF o
  <2>2. holderOf \in [Secrets -> {holderOf[u] : u \in Secrets}]
    BY DEF holderOf
  <2>3. holderOf' = [holderOf EXCEPT ![t] = o]
    BY <2>1, <2>2
  <2> QED
    BY <2>3 DEF o
<1>4. leaseIn' = [leaseIn EXCEPT ![t] = IF s = None THEN None ELSE s.lease]
  <2> DEFINE o == IF s = None THEN None ELSE s.lease
  <2>1. leaseIn' = [u \in Secrets |-> IF u = t THEN o ELSE leaseIn[u]]
    BY <1>2 DEF leaseIn
  <2> HIDE DEF o
  <2>2. leaseIn \in [Secrets -> {leaseIn[u] : u \in Secrets}]
    BY DEF leaseIn
  <2>3. leaseIn' = [leaseIn EXCEPT ![t] = o]
    BY <2>1, <2>2
  <2> QED
    BY <2>3 DEF o
<1> QED
  BY <1>3, <1>4

\* What it sees of claims that nobody touches.
LEMMA SameClaims == UNCHANGED ds => UNCHANGED claimedNow
BY DEF claimedNow, Claimed

LEMMA ClaimMaps ==
    ASSUME TypeOK, Claiming, cred' = None
    PROVE  Credentials!Claim(cur)
<1>1. cur \in Names /\ cred = None
  BY EmptyHand, Inside DEF Claiming
<1>2. claimedNow' = claimedNow \cup {cur}
  <2> DEFINE new == [obj EXCEPT !.fin = TRUE]
  <2>1. new \in DbSecrets /\ new.fin /\ ds' = [ds EXCEPT ![cur] = new]
    BY Inside, DbSecretEdits DEF Claiming
  <2> HIDE DEF new
  <2>2. new # None
    BY <2>1, ConstantTypes
  <2>3. \A n \in Names : Claimed(n)' <=> Claimed(n) \/ n = cur
    BY <1>1, <2>1, <2>2 DEF Claimed, TypeOK, ApiTypeOK
  <2> QED
    BY <1>1, <2>3 DEF claimedNow
<1>3. UNCHANGED <<holderOf, leaseIn, life, inHand>>
  BY <1>1 DEF Claiming, holderOf, leaseIn, inHand, vault
<1> QED
  BY <1>2, <1>3 DEF Credentials!Claim

LEMMA ReleaseMaps ==
    ASSUME TypeOK, LifeInv, Releasing, cred' = None
    PROVE  Credentials!Release(cur)
<1>1. cur \in Names /\ cred = None /\ pc = "release"
  BY EmptyHand, Inside DEF Releasing
<1>2. ds' = [ds EXCEPT ![cur] = None] /\ UNCHANGED <<sec, life>>
  BY DEF Releasing, vault
<1>3. cur \in claimedNow
  <2>1. ds[cur] = obj /\ obj.fin /\ obj \in DbSecrets
    BY <1>1, Inside DEF Releasing, LifeInv, Claims
  <2> QED
    BY <1>1, <2>1, ConstantTypes DEF claimedNow, Claimed
<1>4. claimedNow' = claimedNow \ {cur}
  <2>1. \A n \in Names : Claimed(n)' <=> Claimed(n) /\ n # cur
    BY <1>1, <1>2 DEF Claimed, TypeOK, ApiTypeOK
  <2> QED
    BY <2>1 DEF claimedNow
<1>5. ASSUME NEW t \in Secrets PROVE holderOf[t] # cur
  <2>1. CASE sec[t] = None \/ sec[t].owner = None
    BY <1>1, <2>1, ConstantTypes DEF holderOf
  <2>2. CASE sec[t] # None /\ sec[t].owner # None
    BY <1>1, <2>2 DEF holderOf, LifeInv, OwnedAtTarget, Claims, secretName
  <2> QED
    BY <2>1, <2>2
<1>6. UNCHANGED <<holderOf, leaseIn, life, inHand>>
  BY <1>1, <1>2 DEF holderOf, leaseIn, inHand
<1> QED
  BY <1>3, <1>4, <1>5, <1>6 DEF Credentials!Release

LEMMA WithdrawMaps ==
    ASSUME TypeOK, NEW t \in Secrets, sec' = [sec EXCEPT ![t] = None],
           UNCHANGED <<ds, life, cred>>
    PROVE  Credentials!Withdraw(t)
BY NewViews, SameClaims DEF Credentials!Withdraw, inHand

LEMMA ExtendMaps ==
    ASSUME TypeOK, Renewing, cred' = None
    PROVE  seen.lease \in Leases /\ Credentials!Extend(seen.lease)
<1>1. seen.lease \in Leases /\ cred = None /\ life[seen.lease] \in 0 .. Term
  BY Renewable, EmptyHand DEF Renewing, TypeOK, VaultTypeOK
<1>2. \E ticks \in life[seen.lease] .. Term : life' = [life EXCEPT ![seen.lease] = ticks]
  <2>1. PICK ticks \in (IF "cap" \in Faults THEN life[seen.lease] ELSE Term) .. Term :
          life' = [life EXCEPT ![seen.lease] = ticks]
    BY DEF Renewing
  <2>2. ticks \in life[seen.lease] .. Term
    BY <1>1, <2>1, ConstantTypes
  <2> QED
    BY <2>1, <2>2
<1>3. UNCHANGED <<claimedNow, holderOf, leaseIn, inHand>>
  BY <1>1, SameClaims DEF Renewing, Keep, holderOf, leaseIn, inHand
<1> QED
  BY <1>1, <1>2, <1>3 DEF Credentials!Extend, Renewing

LEMMA GrantMaps ==
    ASSUME TypeOK, NEW l \in Leases, Granting(l), cred' \in {None, l}
    PROVE  Credentials!Grant(l)
<1>1. cred = None /\ inHand = {}
  BY EmptyHand DEF Granting
<1>2. l \in Free
  BY DEF Granting
<1>3. life[l] = 0 /\ \A t \in Secrets : sec[t] = None \/ sec[t].lease # l
  BY <1>2 DEF Free, Mentions
<1>4. ~Credentials!Published(l)
  BY <1>3, ConstantTypes DEF Credentials!Published, leaseIn
<1>5. inHand' \in {inHand, inHand \cup {l}}
  BY <1>1, ConstantTypes DEF inHand
<1>6. UNCHANGED <<claimedNow, holderOf, leaseIn>>
  BY SameClaims DEF Granting, Keep, holderOf, leaseIn
<1> QED
  BY <1>3, <1>4, <1>5, <1>6 DEF Credentials!Grant, Granting

LEMMA PublishMaps ==
    ASSUME TypeOK, LifeInv, Upserting, cred' = None
    PROVE  cur \in Names /\ cred \in Leases /\ Credentials!Publish(cur, cred)
<1>1. /\ cur \in Names /\ secretName \in Secrets /\ cred \in Leases /\ cred # None
      /\ UNCHANGED <<ds, life>>
  BY Inside, UpsertWrites DEF Upserting, vault
<1>2. PICK s \in K8sSecrets : /\ sec' = [sec EXCEPT ![secretName] = s] /\ s # None
                              /\ s.lease = cred /\ s.owner = cur
  BY UpsertWrites, ConstantTypes
<1>3. /\ holderOf' = [holderOf EXCEPT ![Target[cur]] = cur]
      /\ leaseIn' = [leaseIn EXCEPT ![Target[cur]] = cred]
  BY <1>1, <1>2, NewViews DEF secretName
<1>4. cur \in claimedNow
  BY <1>1 DEF Upserting, LifeInv, Claims, claimedNow
<1>5. cred \in inHand /\ inHand' = inHand \ {cred}
  BY <1>1 DEF inHand
<1> QED
  BY <1>1, <1>2, <1>3, <1>4, <1>5, SameClaims DEF Credentials!Publish

LEMMA LoseMaps ==
    ASSUME TypeOK, cred # None, UNCHANGED <<ds, sec, life>>, cred' = None
    PROVE  cred \in Leases /\ Credentials!Lose(cred)
<1>1. cred \in Leases
  BY DEF TypeOK, WorkerTypeOK
<1>2. inHand' = inHand \ {cred}
  BY DEF inHand
<1>3. UNCHANGED <<claimedNow, holderOf, leaseIn>>
  BY SameClaims DEF holderOf, leaseIn
<1> QED
  BY <1>1, <1>2, <1>3 DEF Credentials!Lose

\* Nothing that DbCredentials sees.
Unseen == UNCHANGED <<claimedNow, holderOf, leaseIn, life, inHand>>

LEMMA QuietSteps ==
    ASSUME UNCHANGED <<ds, sec, life, cred>>
    PROVE  Unseen
BY SameClaims DEF Unseen, holderOf, leaseIn, inHand

\* An edit or a deletion by a user leaves the claims as they are.
LEMMA EditSteps ==
    ASSUME TypeOK, NEW n \in Names, (\E d \in Defs : Apply(n, d)) \/ Delete(n)
    PROVE  Unseen
<1>1. \A m \in Names : Claimed(m)' <=> Claimed(m)
  <2>1. \A m \in Names \ {n} : ds'[m] = ds[m]
    BY DEF Apply, Delete, TypeOK, ApiTypeOK
  <2>2. Claimed(n)' <=> Claimed(n)
    <3>1. CASE ds[n] = None
      <4>1. PICK d \in Defs : ds' = [ds EXCEPT ![n] = [def |-> d, fin |-> FALSE, del |-> FALSE]]
        BY <3>1 DEF Apply, Delete
      <4>2. ~ds'[n].fin
        BY <4>1 DEF TypeOK, ApiTypeOK
      <4> QED
        BY <3>1, <4>2 DEF Claimed
    <3>2. CASE ds[n] # None
      <4>1. ds[n] \in DbSecrets
        BY <3>2 DEF TypeOK, ApiTypeOK
      <4>2. \/ \E d \in Defs : ds'[n] = [ds[n] EXCEPT !.def = d]
            \/ ds[n].fin /\ ds'[n] = [ds[n] EXCEPT !.del = TRUE]
            \/ ~ds[n].fin /\ ds'[n] = None
        BY <3>2 DEF Apply, Delete, TypeOK, ApiTypeOK
      <4>3. \A d \in Defs : /\ [ds[n] EXCEPT !.def = d] \in DbSecrets
                            /\ [ds[n] EXCEPT !.def = d].fin = ds[n].fin
        BY <4>1 DEF DbSecrets
      <4>4. /\ [ds[n] EXCEPT !.del = TRUE] \in DbSecrets
            /\ [ds[n] EXCEPT !.del = TRUE].fin = ds[n].fin
        BY <4>1 DEF DbSecrets
      <4> QED
        BY <3>2, <4>2, <4>3, <4>4, ConstantTypes DEF Claimed
    <3> QED
      BY <3>1, <3>2
  <2> QED
    BY <2>1, <2>2 DEF Claimed
<1>2. claimedNow' = claimedNow
  BY <1>1 DEF claimedNow
<1>3. UNCHANGED <<holderOf, leaseIn, life, inHand>>
  BY DEF Apply, Delete, holderOf, leaseIn, inHand, vault
<1> QED
  BY <1>2, <1>3 DEF Unseen

\* Time passes for DbCredentials as for the controller.
LEMMA TickMaps ==
    ASSUME TypeOK, Tick
    PROVE  Credentials!Elapse
<1>1. ASSUME NEW t \in Secrets PROVE Kin(sec'[t], sec[t])
  <2>1. sec[t] \in K8sSecrets \cup {None} /\ sec'[t] = Older(sec[t])
    BY DEF Tick, TypeOK, ApiTypeOK
  <2> QED
    BY <2>1, OlderSecret DEF Kin
<1>2. UNCHANGED <<holderOf, leaseIn>>
  BY <1>1, SameViews
<1> QED
  BY <1>2, SameClaims DEF Tick, Credentials!Elapse, inHand, worker

\* The write of a renewal, whether it is heard of or not, changes nothing that
\* DbCredentials sees: what is written is the Secret that was read.
LEMMA SavingSteps ==
    ASSUME TypeOK, LifeInv, Saving, cred' = None
    PROVE  Unseen
<1>1. pc \in {"save", "force"} /\ cred = None /\ UNCHANGED <<ds, life>>
  BY EmptyHand DEF Saving, vault
<1>2. secretName \in Secrets
  BY <1>1, Inside
<1>3. sec' = [sec EXCEPT ![secretName] = seen] /\ Kin(seen, sec[secretName])
  BY DEF Saving, LifeInv, SeenIsKin
<1>4. \A t \in Secrets : Kin(sec'[t], sec[t])
  BY <1>2, <1>3 DEF Kin, TypeOK, ApiTypeOK
<1> QED
  BY <1>1, <1>4, SameViews, SameClaims DEF Unseen, inHand

\* Every step of the controller, of Vault and of users is one that DbCredentials
\* allows, or one that it does not see.
LEMMA CredentialsStep ==
    ASSUME TypeOK, LifeInv, [Next]_vars
    PROVE  Credentials!Next \/ Unseen
<1>1. CASE Environment
  <2>1. ASSUME NEW t \in Secrets, Tamper(t) PROVE Credentials!Withdraw(t)
    BY <2>1, WithdrawMaps DEF Tamper, vault
  <2>2. ASSUME NEW t \in Secrets, Plant(t) PROVE Unseen
    <3> DEFINE s == [data |-> [k \in Keys |-> Foreign], lease |-> None, hash |-> None,
                     expires |-> 0, force |-> FALSE, owner |-> None]
    <3>1. sec' = [sec EXCEPT ![t] = s] /\ sec[t] = None /\ UNCHANGED <<ds, life, cred>>
      BY <2>2 DEF Plant, vault
    <3>2. s.owner = None /\ s.lease = None
      OBVIOUS
    <3> HIDE DEF s
    <3>3. sec'[t] = s /\ \A u \in Secrets \ {t} : sec'[u] = sec[u]
      BY <3>1 DEF TypeOK, ApiTypeOK
    <3>4. holderOf' = holderOf
      BY <3>1, <3>2, <3>3 DEF holderOf
    <3>5. leaseIn' = leaseIn
      BY <3>1, <3>2, <3>3 DEF leaseIn
    <3> QED
      BY <3>1, <3>4, <3>5, SameClaims DEF Unseen, inHand
  <2>3. ASSUME NEW l \in Leases, Revoke(l) PROVE Credentials!Revoke(l)
    BY <2>3, SameClaims DEF Revoke, Credentials!Revoke, holderOf, leaseIn, inHand, api, worker
  <2> QED
    BY <1>1, <2>1, <2>2, <2>3, EditSteps DEF Environment, Credentials!Next
<1>2. CASE Plumbing \/ UNCHANGED vars
  <2>1. CASE Tick
    BY <2>1, TickMaps DEF Credentials!Next
  <2>2. CASE ~Tick
    BY <1>2, <2>2, QuietSteps DEF Plumbing, DeliverDb, DeliverSecret, Due, api, worker, vault, vars
  <2> QED
    BY <2>1, <2>2
<1>3. CASE Crash \/ UpsertError
  <2>1. UNCHANGED <<ds, sec, life>> /\ cred' = None
    BY <1>3 DEF Crash, UpsertError, Idle, Keep, api, vault
  <2>2. CASE cred = None
    BY <2>1, <2>2, QuietSteps
  <2>3. CASE cred # None
    BY <2>1, <2>3, LoseMaps DEF Credentials!Next
  <2> QED
    BY <2>2, <2>3
<1>4. ASSUME NEW n \in Names, PickIgnored(n) \/ ReadError(n) \/ PickLive(n) \/ PickDeleting(n) PROVE Unseen
  <2>1. UNCHANGED <<ds, sec, life>>
    BY <1>4 DEF PickIgnored, ReadError, PickLive, PickDeleting, Pick, Keep, vault
  <2>2. cred = None
    BY <1>4, EmptyHand DEF PickIgnored, ReadError, PickLive, PickDeleting, Pick
  <2>3. UNCHANGED cred
    BY <1>4, <2>2 DEF PickIgnored, ReadError, PickLive, PickDeleting, Start, worker
  <2> QED
    BY <2>1, <2>3, QuietSteps
\* The calls that have an effect, with an answer or without.
<1>5. CASE cred' = None /\ (Claiming \/ Deleting \/ Releasing \/ Renewing \/ Saving \/ Upserting)
  <2>1. ASSUME Deleting PROVE \E t \in Secrets : Credentials!Withdraw(t)
    <3>1. secretName \in Secrets /\ cred = None
      BY <2>1, Inside, EmptyHand DEF Deleting
    <3> QED
      BY <1>5, <2>1, <3>1, WithdrawMaps DEF Deleting, vault
  <2>2. Claiming \/ Releasing => cur \in Names
    BY Inside DEF Claiming, Releasing
  <2> QED
    BY <1>5, <2>1, <2>2, ClaimMaps, ReleaseMaps, ExtendMaps, SavingSteps, PublishMaps
       DEF Credentials!Next
<1>6. ASSUME NEW l \in Leases, Granting(l), cred' \in {None, l} PROVE Credentials!Next
  BY <1>6, GrantMaps DEF Credentials!Next
<1>7. CASE Progress
  <2>1. CASE AddFinalizer \/ DeleteSecret \/ RemoveFinalizer \/ RenewLease \/ SaveRenewal
             \/ UpsertSecret
    <3>1. cred' = None
      BY <2>1, EmptyHand DEF AddFinalizer, Claiming, DeleteSecret, Deleting, Goto, RemoveFinalizer,
         RenewLease, Renewing, SaveRenewal, UpsertSecret, Idle
    <3> QED
      BY <1>5, <2>1, <3>1 DEF AddFinalizer, DeleteSecret, RemoveFinalizer, RenewLease,
         SaveRenewal, UpsertSecret
  <2>2. CASE RequestCredentials
    BY <1>6, <2>2 DEF RequestCredentials
  <2>3. CASE UpToDate \/ ChooseRenewal \/ ChooseRequest \/ Done \/ \E w \in Workloads : Rollout(w)
    <3>1. UNCHANGED <<ds, sec, life>>
      BY <2>3 DEF UpToDate, ChooseRenewal, ChooseRequest, Done, Rollout, Finish, Keep, api, vault
    <3>2. cred = None
      BY <2>3, EmptyHand DEF UpToDate, ChooseRenewal, ChooseRequest, Done, Rollout
    <3>3. UNCHANGED cred
      BY <2>3, <3>2 DEF UpToDate, ChooseRenewal, ChooseRequest, Done, Rollout, Finish, Idle
    <3> QED
      BY <3>1, <3>3, QuietSteps
  <2> QED
    BY <1>7, <2>1, <2>2, <2>3 DEF Progress
<1>8. CASE AnswerLost
  <2>1. CASE \E l \in Leases : Granting(l) /\ Idle
    BY <1>6, <2>1 DEF Idle
  <2>2. CASE Saving /\ pc = "save" /\ UNCHANGED cred
    BY <1>5, <2>2, EmptyHand
  <2>3. CASE Idle /\ (Claiming \/ Deleting \/ Releasing \/ Renewing \/ Saving \/ Upserting)
    BY <1>5, <2>3 DEF Idle
  <2> QED
    BY <1>8, <2>1, <2>2, <2>3 DEF AnswerLost
<1>9. CASE ApiError \/ SaveError \/ ForceError \/ VaultError
           \/ \E w \in Workloads : RolloutError(w) \/ RolloutPanic(w)
  <2>1. UNCHANGED <<ds, sec, life>>
    BY <1>9 DEF ApiError, SaveError, ForceError, VaultError, RolloutError, RolloutPanic,
       Finish, Keep, vault
  <2>2. cred = None
    BY <1>9, EmptyHand DEF ApiError, SaveError, ForceError, VaultError, RolloutError, RolloutPanic
  <2>3. UNCHANGED cred
    BY <1>9, <2>2 DEF ApiError, SaveError, ForceError, VaultError, RolloutError, RolloutPanic,
       Finish, Idle
  <2> QED
    BY <2>1, <2>3, QuietSteps
<1> QED
  BY <1>1, <1>2, <1>3, <1>4, <1>7, <1>8, <1>9 DEF Next, Reconcile, Errors

\* Every lease goes into one Secret, once, for a DbSecret that is claimed, and
\* is extended only while it lasts, through stale copies, refused and lost
\* writes, crashes and revocations: the controller implements DbCredentials.
THEOREM CredentialsCorrect == Spec => ImplementsCredentials
<1>1. Init => Credentials!Init
  BY CredentialsInit
<1>2. TypeOK /\ LifeInv /\ [Next]_vars => [Credentials!Next]_(Credentials!credentialVars)
  BY CredentialsStep DEF Unseen, Credentials!credentialVars
<1> QED
  BY <1>1, <1>2, TypeCorrect, LifeCorrect, PTL
     DEF Spec, ImplementsCredentials, Credentials!Spec

-----------------------------------------------------------------------------
(* What follows from the promise alone *)

PromiseInv ==
    /\ holderOf \in [Secrets -> Names \cup {None}]
    /\ leaseIn \in [Secrets -> Leases \cup {None}]
    /\ Credentials!HeldByClaimed
    /\ Credentials!PublishedOnce

LEMMA PromiseStep == PromiseInv /\ [Credentials!Next]_(Credentials!credentialVars) => PromiseInv'
<1> SUFFICES ASSUME PromiseInv, [Credentials!Next]_(Credentials!credentialVars)
             PROVE  PromiseInv'
  OBVIOUS
<1> USE DEF PromiseInv, Credentials!HeldByClaimed, Credentials!PublishedOnce
<1>0. \A n \in Names : Target[n] \in Secrets
  BY DbAssumption
<1> HIDE DEF holderOf, leaseIn, claimedNow, inHand
<1>1. CASE UNCHANGED <<claimedNow, holderOf, leaseIn, inHand>>
  BY <1>1
<1>2. ASSUME NEW n \in Names, Credentials!Claim(n) PROVE PromiseInv'
  BY <1>2 DEF Credentials!Claim
<1>3. ASSUME NEW n \in Names, Credentials!Release(n) PROVE PromiseInv'
  BY <1>3 DEF Credentials!Release
<1>4. ASSUME NEW n \in Names, NEW l \in Leases, Credentials!Publish(n, l) PROVE PromiseInv'
  <2>1. /\ n \in claimedNow /\ l \in inHand /\ Target[n] \in Secrets
        /\ leaseIn' = [leaseIn EXCEPT ![Target[n]] = l]
        /\ holderOf' = [holderOf EXCEPT ![Target[n]] = n]
        /\ inHand' = inHand \ {l} /\ claimedNow' = claimedNow
    BY <1>0, <1>4 DEF Credentials!Publish
  <2>2. \A t \in Secrets : leaseIn[t] # None => leaseIn[t] # l
    BY <2>1
  <2>3. (\A s, t \in Secrets : leaseIn[s] = leaseIn[t] /\ leaseIn[s] # None => s = t)'
    BY <2>1, <2>2
  <2>4. (\A t \in Secrets : leaseIn[t] # None => leaseIn[t] \notin inHand)'
    BY <2>1, <2>2
  <2> QED
    BY <2>1, <2>3, <2>4
<1>5. ASSUME NEW l \in Leases, Credentials!Grant(l) PROVE PromiseInv'
  <2>1. \A t \in Secrets : leaseIn[t] # l
    BY <1>5 DEF Credentials!Grant, Credentials!Published
  <2> QED
    BY <1>5, <2>1 DEF Credentials!Grant
<1>6. ASSUME NEW l \in Leases, Credentials!Lose(l) PROVE PromiseInv'
  BY <1>6 DEF Credentials!Lose
<1>7. ASSUME NEW l \in Leases, Credentials!Extend(l) \/ Credentials!Revoke(l) PROVE PromiseInv'
  BY <1>7 DEF Credentials!Extend, Credentials!Revoke
<1>8. ASSUME NEW t \in Secrets, Credentials!Withdraw(t) PROVE PromiseInv'
  BY <1>8 DEF Credentials!Withdraw
<1>9. CASE Credentials!Elapse
  BY <1>9 DEF Credentials!Elapse
<1> QED
  BY <1>1, <1>2, <1>3, <1>4, <1>5, <1>6, <1>7, <1>8, <1>9
     DEF Credentials!Next, Credentials!credentialVars

\* In every system that meets DbCredentials, whoever holds a Secret is claimed,
\* and no lease is in two Secrets, nor in one while it waits to be published.
THEOREM PromiseKept ==
    Credentials!Spec => [](Credentials!HeldByClaimed /\ Credentials!PublishedOnce)
<1>1. Credentials!Init => PromiseInv
  BY DEF Credentials!Init, PromiseInv, Credentials!HeldByClaimed, Credentials!PublishedOnce
<1>2. PromiseInv => Credentials!HeldByClaimed /\ Credentials!PublishedOnce
  BY DEF PromiseInv
<1> QED
  BY <1>1, <1>2, PromiseStep, PTL DEF Credentials!Spec

\* Two applications never share credentials: no lease is in the Secrets of two
\* DbSecrets, whatever was lost, repeated or written late (lines 218-224, 299-315).
THEOREM NoSharedLease ==
    Spec => [](\A s, t \in Secrets : /\ sec[s] # None /\ sec[t] # None
                                     /\ sec[s].lease = sec[t].lease /\ sec[s].lease # None
                                     => s = t)
<1>1. Credentials!PublishedOnce
        => \A s, t \in Secrets : /\ sec[s] # None /\ sec[t] # None
                                 /\ sec[s].lease = sec[t].lease /\ sec[s].lease # None
                                 => s = t
  BY DEF Credentials!PublishedOnce, leaseIn
<1> QED
  BY <1>1, CredentialsCorrect, PromiseKept, PTL DEF ImplementsCredentials
=============================================================================
