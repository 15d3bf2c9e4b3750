--------------------------- MODULE DbSecretProofs ---------------------------
(* Proofs about DbSecret for every value of its constants.                  *)
EXTENDS DbSecret, TLAPS

\* What the definitions of the constants say of the types.
LEMMA ConstantTypes ==
    /\ \A n \in Names : Target[n] \in Secrets /\ Rollouts[n] \in SUBSET Workloads
    /\ \A d \in Defs : d.role \in Roles /\ d.tmpl \subseteq TemplateKeys
    /\ Term \in Nat /\ Term > 0 /\ 0 \in 0 .. Term /\ Term \in 0 .. Term
    /\ Budget \in Nat
    /\ None \notin Names /\ None \notin Leases
    /\ None \notin DbSecrets /\ None \notin K8sSecrets
BY DbAssumption

LEMMA TypeInit == Init => TypeOK
<1> SUFFICES ASSUME Init PROVE TypeOK
  OBVIOUS
<1>1. ApiTypeOK
  BY DEF Init, ApiTypeOK
<1>2. CacheTypeOK
  BY DEF Init, CacheTypeOK, Copies
<1>3. WorkerTypeOK
  BY DEF Init, WorkerTypeOK, Copies
<1>4. QueueTypeOK
  BY DEF Init, QueueTypeOK
<1>5. VaultTypeOK
  <2>1. (CHOOSE r \in Roles : TRUE) \in Roles
    BY DbAssumption
  <2> QED
    BY <2>1, ConstantTypes DEF Init, VaultTypeOK
<1>6. OutsideTypeOK
  BY ConstantTypes DEF Init, OutsideTypeOK
<1> QED
  BY <1>1, <1>2, <1>3, <1>4, <1>5, <1>6 DEF TypeOK

\* What the edits of a DbSecret leave is a DbSecret.
LEMMA DbSecretEdits ==
    /\ \A d \in Defs : [def |-> d, fin |-> FALSE, del |-> FALSE] \in DbSecrets
    /\ \A v \in DbSecrets : /\ \A d \in Defs : [v EXCEPT !.def = d] \in DbSecrets
                            /\ [v EXCEPT !.fin = TRUE] \in DbSecrets
                            /\ [v EXCEPT !.fin = TRUE].fin
                            /\ [v EXCEPT !.del = TRUE] \in DbSecrets
                            /\ v.def \in Defs
BY DEF DbSecrets

\* What the controller's edits of its copy of a Secret leave is a Secret, of the
\* same lease and owner.
LEMMA SecretEdits ==
    ASSUME NEW s \in K8sSecrets
    PROVE  /\ \A d \in Defs : /\ Pruned(d, s) \in K8sSecrets
                              /\ Pruned(d, s).lease = s.lease /\ Pruned(d, s).owner = s.owner
           /\ [s EXCEPT !.expires = Term] \in K8sSecrets
           /\ [s EXCEPT !.expires = Term].lease = s.lease
           /\ [s EXCEPT !.expires = Term].owner = s.owner
           /\ [s EXCEPT !.expires = Term].expires = Term
           /\ [s EXCEPT !.force = TRUE] \in K8sSecrets
           /\ [s EXCEPT !.force = TRUE].lease = s.lease
           /\ [s EXCEPT !.force = TRUE].owner = s.owner
           /\ [s EXCEPT !.force = TRUE].expires = s.expires
<1>1. \A d \in Defs : Pruned(d, s) \in K8sSecrets
                      /\ Pruned(d, s).lease = s.lease /\ Pruned(d, s).owner = s.owner
  BY DEF Pruned, K8sSecrets, Contents
<1> QED
  BY <1>1, ConstantTypes DEF K8sSecrets

\* A copy that gets older is still a Secret, of the same lease and owner.
LEMMA OlderSecret ==
    ASSUME NEW s \in K8sSecrets \cup {None}
    PROVE  /\ Older(s) \in K8sSecrets \cup {None}
           /\ Older(s) = None <=> s = None
           /\ s # None => /\ Older(s).owner = s.owner /\ Older(s).lease = s.lease
                          /\ Older(s).expires = IF s.expires > 0 THEN s.expires - 1 ELSE 0
BY ConstantTypes DEF Older, K8sSecrets

\* A part of the state that a step leaves alone keeps its type.
LEMMA Frames ==
    ASSUME TypeOK
    PROVE  /\ UNCHANGED <<ds, sec>> => ApiTypeOK'
           /\ UNCHANGED <<dc, sc, dcOld, scIs, dsEvt, secEvt>> => CacheTypeOK'
           /\ UNCHANGED <<pc, cur, obj, objOld, seen, seenIs, cred, todo>> => WorkerTypeOK'
           /\ UNCHANGED q => QueueTypeOK'
           /\ UNCHANGED <<life, role>> => VaultTypeOK'
           /\ UNCHANGED <<running, left>> => OutsideTypeOK'
<1>1. UNCHANGED <<ds, sec>> => ApiTypeOK'
  BY DEF TypeOK, ApiTypeOK
<1>2. UNCHANGED <<dc, sc, dcOld, scIs, dsEvt, secEvt>> => CacheTypeOK'
  BY DEF TypeOK, CacheTypeOK
<1>3. UNCHANGED <<pc, cur, obj, objOld, seen, seenIs, cred, todo>> => WorkerTypeOK'
  BY DEF TypeOK, WorkerTypeOK
<1>4. UNCHANGED q => QueueTypeOK'
  BY DEF TypeOK, QueueTypeOK
<1>5. UNCHANGED <<life, role>> => VaultTypeOK'
  BY DEF TypeOK, VaultTypeOK
<1>6. UNCHANGED <<running, left>> => OutsideTypeOK'
  BY DEF TypeOK, OutsideTypeOK
<1> QED
  BY <1>1, <1>2, <1>3, <1>4, <1>5, <1>6

\* A disturbance is paid for.
LEMMA TypeDisturb ==
    ASSUME TypeOK, Disturb, UNCHANGED running
    PROVE  OutsideTypeOK' /\ left' # left
BY ConstantTypes DEF TypeOK, OutsideTypeOK, Disturb

\* A write by somebody else only marks copies as old.
LEMMA TypeOutdate ==
    ASSUME TypeOK, NEW n \in Names, Outdate(n)
    PROVE dcOld' \in SUBSET Names /\ objOld' \in BOOLEAN
<1>1. dcOld' \in SUBSET Names
  BY DEF TypeOK, CacheTypeOK, Outdate
<1>2. objOld' \in BOOLEAN
  BY Zenon DEF Outdate
<1> QED
  BY <1>1, <1>2

\* Events name owners.
LEMMA TypeNotify ==
    ASSUME TypeOK, NEW t \in Secrets, NEW o, Notify(t, o)
    PROVE secEvt' \in [Secrets -> SUBSET Names]
BY DEF TypeOK, CacheTypeOK, Notify

LEMMA TypeRelate ==
    ASSUME TypeOK, NEW t \in Secrets, NEW how \in Copies, Relate(t, how)
    PROVE  scIs' \in [Secrets -> Copies] /\ seenIs' \in Copies
BY DEF TypeOK, CacheTypeOK, WorkerTypeOK, Relate

\* One Secret of the API server is replaced.
LEMMA TypeSecretWrite ==
    ASSUME TypeOK, NEW t \in Secrets, NEW s \in K8sSecrets \cup {None},
           sec' = [sec EXCEPT ![t] = s], UNCHANGED ds
    PROVE ApiTypeOK'
BY DEF TypeOK, ApiTypeOK

\* One DbSecret of the API server is replaced.
LEMMA TypeDbWrite ==
    ASSUME TypeOK, NEW n \in Names, NEW v \in DbSecrets \cup {None},
           ds' = [ds EXCEPT ![n] = v], UNCHANGED sec
    PROVE ApiTypeOK'
BY DEF TypeOK, ApiTypeOK

\* A worker that has ended its reconcile.
LEMMA TypeIdle == Idle => WorkerTypeOK'
BY DEF Idle, Forget, WorkerTypeOK, Copies

\* A step that queues the worker's key again.
LEMMA TypeRequeue ==
    ASSUME TypeOK, pc # "idle", Requeue(cur)
    PROVE  QueueTypeOK'
BY DEF TypeOK, QueueTypeOK, WorkerTypeOK, Requeue

\* A reconcile that ends and leaves everything else as it is.
LEMMA TypeFinish ==
    ASSUME TypeOK, pc # "idle", Finish, UNCHANGED vault
    PROVE  TypeOK'
<1>1. WorkerTypeOK' /\ QueueTypeOK'
  BY TypeIdle, TypeRequeue DEF Finish
<1>2. ApiTypeOK' /\ CacheTypeOK' /\ VaultTypeOK' /\ OutsideTypeOK'
  BY Frames DEF Finish, Keep, vault
<1> QED
  BY <1>1, <1>2 DEF TypeOK

LEMMA TypeApply ==
    ASSUME TypeOK, NEW n \in Names, NEW d \in Defs, Apply(n, d)
    PROVE TypeOK'
<1>0. Outdate(n) /\ Disturb
  BY DEF Apply
<1>1. ApiTypeOK'
  <2>1. PICK x \in DbSecrets : ds' = [ds EXCEPT ![n] = x]
    <3>1. CASE ds[n] = None
      BY <3>1, DbSecretEdits DEF Apply
    <3>2. CASE ds[n] # None
      <4>1. ds[n] \in DbSecrets
        BY <3>2 DEF TypeOK, ApiTypeOK
      <4>2. [ds[n] EXCEPT !.def = d] \in DbSecrets
        BY <4>1, DbSecretEdits
      <4>3. ds' = [ds EXCEPT ![n] = [ds[n] EXCEPT !.def = d]]
        BY <3>2 DEF Apply
      <4> QED
        BY <4>2, <4>3
    <3> QED
      BY <3>1, <3>2
  <2>2. UNCHANGED sec
    BY DEF Apply
  <2> QED
    BY <2>1, <2>2, TypeDbWrite
<1>2. CacheTypeOK'
  BY TypeOutdate, <1>0 DEF TypeOK, CacheTypeOK, Apply
<1>3. WorkerTypeOK'
  <2>1. objOld' \in BOOLEAN
    BY TypeOutdate, <1>0
  <2>2. UNCHANGED <<pc, cur, obj, seen, seenIs, cred, todo>>
    BY DEF Apply
  <2> QED
    BY <2>1, <2>2 DEF TypeOK, WorkerTypeOK
<1>4. OutsideTypeOK'
  BY TypeDisturb, <1>0 DEF Apply
<1>5. QueueTypeOK' /\ VaultTypeOK'
  BY Frames DEF Apply, vault
<1> QED
  BY <1>1, <1>2, <1>3, <1>4, <1>5 DEF TypeOK

LEMMA TypeDelete ==
    ASSUME TypeOK, NEW n \in Names, Delete(n)
    PROVE TypeOK'
<1>0. Outdate(n) /\ Disturb
  BY DEF Delete
<1>1. ApiTypeOK'
  <2>1. ds[n] \in DbSecrets
    BY DEF Delete, TypeOK, ApiTypeOK
  <2>2. PICK x \in DbSecrets \cup {None} : ds' = [ds EXCEPT ![n] = x]
    BY <2>1, DbSecretEdits DEF Delete
  <2>3. UNCHANGED sec
    BY DEF Delete
  <2> QED
    BY <2>2, <2>3, TypeDbWrite
<1>2. CacheTypeOK'
  BY TypeOutdate, <1>0 DEF TypeOK, CacheTypeOK, Delete
<1>3. WorkerTypeOK'
  <2>1. objOld' \in BOOLEAN
    BY TypeOutdate, <1>0
  <2>2. UNCHANGED <<pc, cur, obj, seen, seenIs, cred, todo>>
    BY DEF Delete
  <2> QED
    BY <2>1, <2>2 DEF TypeOK, WorkerTypeOK
<1>4. OutsideTypeOK'
  BY TypeDisturb, <1>0 DEF Delete
<1>5. QueueTypeOK' /\ VaultTypeOK'
  BY Frames DEF Delete, vault
<1> QED
  BY <1>1, <1>2, <1>3, <1>4, <1>5 DEF TypeOK

LEMMA TypeHand ==
    ASSUME TypeOK, NEW t \in Secrets, Tamper(t) \/ Plant(t)
    PROVE TypeOK'
<1>1. ApiTypeOK'
  <2>1. PICK s \in K8sSecrets \cup {None} : sec' = [sec EXCEPT ![t] = s]
    <3>1. [data |-> [k \in Keys |-> Foreign], lease |-> None, hash |-> None,
           expires |-> 0, force |-> FALSE, owner |-> None] \in K8sSecrets
      BY ConstantTypes DEF K8sSecrets, Contents
    <3> QED
      BY <3>1 DEF Tamper, Plant
  <2> QED
    BY <2>1, TypeSecretWrite DEF Tamper, Plant
<1>2. scIs' \in [Secrets -> Copies] /\ seenIs' \in Copies
  BY TypeRelate DEF Tamper, Plant, Copies
<1>3. CacheTypeOK'
  <2>1. secEvt' \in [Secrets -> SUBSET Names]
    <3>1. CASE Tamper(t)
      BY <3>1, TypeNotify DEF Tamper
    <3>2. CASE Plant(t)
      BY <3>2 DEF TypeOK, CacheTypeOK, Plant
    <3> QED
      BY <3>1, <3>2
  <2> QED
    BY <1>2, <2>1 DEF TypeOK, CacheTypeOK, Tamper, Plant
<1>4. WorkerTypeOK'
  <2>1. UNCHANGED <<pc, cur, obj, objOld, seen, cred, todo>>
    BY DEF Tamper, Plant
  <2> QED
    BY <1>2, <2>1 DEF TypeOK, WorkerTypeOK
<1>5. OutsideTypeOK'
  BY TypeDisturb DEF Tamper, Plant
<1>6. QueueTypeOK' /\ VaultTypeOK'
  BY Frames DEF Tamper, Plant, vault
<1> QED
  BY <1>1, <1>3, <1>4, <1>5, <1>6 DEF TypeOK

LEMMA TypeRevoke ==
    ASSUME TypeOK, NEW l \in Leases, Revoke(l)
    PROVE TypeOK'
<1>1. VaultTypeOK'
  BY ConstantTypes DEF TypeOK, VaultTypeOK, Revoke
<1>2. OutsideTypeOK'
  BY TypeDisturb DEF Revoke
<1>3. ApiTypeOK' /\ CacheTypeOK' /\ WorkerTypeOK' /\ QueueTypeOK'
  BY Frames DEF Revoke, api, cache, worker
<1> QED
  BY <1>1, <1>2, <1>3 DEF TypeOK

LEMMA TypeTick ==
    ASSUME TypeOK, Tick
    PROVE TypeOK'
<1>1. ApiTypeOK'
  BY OlderSecret DEF TypeOK, ApiTypeOK, Tick
<1>2. CacheTypeOK'
  BY OlderSecret DEF TypeOK, CacheTypeOK, Tick
<1>3. VaultTypeOK'
  BY ConstantTypes DEF TypeOK, VaultTypeOK, Tick
<1>4. WorkerTypeOK' /\ QueueTypeOK' /\ OutsideTypeOK'
  BY Frames DEF Tick, worker
<1> QED
  BY <1>1, <1>2, <1>3, <1>4 DEF TypeOK

LEMMA TypeDeliver ==
    ASSUME TypeOK,
           \/ \E n \in Names : DeliverDb(n) \/ Due(n)
           \/ \E t \in Secrets : DeliverSecret(t)
    PROVE TypeOK'
<1>1. ASSUME NEW n \in Names, DeliverDb(n) PROVE TypeOK'
  <2>1. CacheTypeOK'
    BY <1>1 DEF TypeOK, ApiTypeOK, CacheTypeOK, DeliverDb
  <2>2. QueueTypeOK'
    BY <1>1 DEF TypeOK, QueueTypeOK, DeliverDb, Wake
  <2>3. ApiTypeOK' /\ WorkerTypeOK' /\ VaultTypeOK' /\ OutsideTypeOK'
    BY <1>1, Frames DEF DeliverDb, api, worker, vault
  <2> QED
    BY <2>1, <2>2, <2>3 DEF TypeOK
<1>2. ASSUME NEW n \in Names, Due(n) PROVE TypeOK'
  <2>1. QueueTypeOK'
    BY <1>2 DEF TypeOK, QueueTypeOK, Due
  <2>2. ApiTypeOK' /\ CacheTypeOK' /\ WorkerTypeOK' /\ VaultTypeOK' /\ OutsideTypeOK'
    BY <1>2, Frames DEF Due, api, cache, worker, vault
  <2> QED
    BY <2>1, <2>2 DEF TypeOK
<1>3. ASSUME NEW t \in Secrets, DeliverSecret(t) PROVE TypeOK'
  <2>1. CacheTypeOK'
    BY <1>3 DEF TypeOK, ApiTypeOK, CacheTypeOK, DeliverSecret, Copies
  <2>2. QueueTypeOK'
    BY <1>3 DEF TypeOK, QueueTypeOK, DeliverSecret, Wake
  <2>3. ApiTypeOK' /\ WorkerTypeOK' /\ VaultTypeOK' /\ OutsideTypeOK'
    BY <1>3, Frames DEF DeliverSecret, api, worker, vault
  <2> QED
    BY <2>1, <2>2, <2>3 DEF TypeOK
<1> QED
  BY <1>1, <1>2, <1>3

LEMMA TypeCrash ==
    ASSUME TypeOK, Crash
    PROVE TypeOK'
<1>1. CacheTypeOK'
  BY DEF TypeOK, ApiTypeOK, CacheTypeOK, Crash, Copies
<1>2. QueueTypeOK'
  BY DEF QueueTypeOK, Crash
<1>3. WorkerTypeOK'
  BY TypeIdle DEF Crash
<1>4. OutsideTypeOK'
  BY TypeDisturb DEF Crash
<1>5. ApiTypeOK' /\ VaultTypeOK'
  BY Frames DEF Crash, api, vault
<1> QED
  BY <1>1, <1>2, <1>3, <1>4, <1>5 DEF TypeOK

\* The worker takes up a key it has read.
LEMMA TypePick ==
    ASSUME TypeOK, NEW n \in Names, PickIgnored(n) \/ ReadError(n) \/ PickLive(n) \/ PickDeleting(n)
    PROVE TypeOK'
<1>1. ApiTypeOK' /\ CacheTypeOK' /\ VaultTypeOK' /\ OutsideTypeOK'
  BY Frames DEF PickIgnored, ReadError, PickLive, PickDeleting, Pick, Keep, vault
<1>2. QueueTypeOK'
  BY DEF TypeOK, QueueTypeOK, PickIgnored, ReadError, PickLive, PickDeleting, Pick
<1>3. WorkerTypeOK'
  <2>1. CASE PickIgnored(n) \/ ReadError(n)
    BY <2>1, Frames DEF PickIgnored, ReadError, worker
  <2>2. CASE PickLive(n) \/ PickDeleting(n)
    <3>1. dc[n] \in DbSecrets
      BY <2>2 DEF TypeOK, CacheTypeOK, PickLive, PickDeleting
    <3>2. PICK step \in {"check", "claim", "delete"} : Start(n, step)
      BY <2>2 DEF PickLive, PickDeleting, FirstStep
    <3>3. objOld' \in BOOLEAN
      <4>1. (n \in dcOld) \in BOOLEAN
        OBVIOUS
      <4>2. objOld' = (n \in dcOld)
        BY <3>2 DEF Start
      <4> QED
        BY <4>1, <4>2, Zenon
    <3>4. seen' \in K8sSecrets \cup {None} /\ seenIs' \in Copies
      BY <3>2, ConstantTypes DEF Start, TypeOK, CacheTypeOK
    <3> QED
      BY <3>1, <3>2, <3>3, <3>4 DEF WorkerTypeOK, Start
  <2> QED
    BY <2>1, <2>2
<1> QED
  BY <1>1, <1>2, <1>3 DEF TypeOK

\* What the worker holds while it is inside Reconcile.
LEMMA Inside ==
    ASSUME TypeOK, pc # "idle"
    PROVE  /\ cur \in Names /\ cur # None /\ secretName \in Secrets
           /\ obj \in DbSecrets /\ obj.def \in Defs
           /\ obj.def.role \in Roles /\ obj.def.tmpl \subseteq TemplateKeys
<1>1. cur \in Names /\ obj \in DbSecrets
  BY DEF TypeOK, WorkerTypeOK
<1>2. obj.def \in Defs
  BY <1>1, DbSecretEdits
<1> QED
  BY <1>1, <1>2, ConstantTypes DEF secretName

\* The copy of a Secret that is renewed has a lease.
LEMMA Renewable ==
    ASSUME TypeOK, pc \in {"renew", "save", "force"}
    PROVE  seen \in K8sSecrets /\ seen # None /\ seen.lease \in Leases
BY DEF TypeOK, WorkerTypeOK, K8sSecrets

\* The Secret that new credentials are written into is well-formed, whatever comes
\* of the template.
LEMMA IssuedSecret ==
    ASSUME TypeOK, pc = "upsert", NEW out \in Outputs(obj.def)
    PROVE  /\ Issued(out) \in K8sSecrets
           /\ Issued(out).lease = cred /\ Issued(out).owner = cur
           /\ Issued(out).expires = Term
<1>1. cred \in Leases
  BY DEF TypeOK, WorkerTypeOK
<1>2. Hash(obj.def) \in {d.tmpl : d \in Defs} \cup {None}
  BY Inside DEF Hash
<1>3. NewData(out) \in Contents
  <2>1. seen # None => seen.data \in Contents
    BY DEF TypeOK, WorkerTypeOK, K8sSecrets
  <2> QED
    BY <1>1, <2>1 DEF NewData, Contents
<1> QED
  BY <1>1, <1>2, <1>3, Inside, ConstantTypes DEF Issued, K8sSecrets

\* The write of new credentials.
LEMMA UpsertWrites ==
    ASSUME TypeOK, Upserting
    PROVE  /\ cred \in Leases /\ cred # None
           /\ \E s \in K8sSecrets : /\ sec' = [sec EXCEPT ![secretName] = s]
                                    /\ s.lease = cred /\ s.owner = cur /\ s.expires = Term
<1>1. pc = "upsert"
  BY DEF Upserting
<1>2. PICK out \in Outputs(obj.def) : sec' = [sec EXCEPT ![secretName] = Issued(out)]
  BY DEF Upserting
<1>3. cred \in Leases /\ cred # None
  BY <1>1, ConstantTypes DEF TypeOK, WorkerTypeOK
<1> QED
  BY <1>1, <1>2, <1>3, IssuedSecret

\* The calls that write to the API server, whether their answer arrives or not.
LEMMA TypeWrite ==
    ASSUME TypeOK, Claiming \/ Deleting \/ Releasing \/ Saving \/ Upserting
    PROVE  /\ ApiTypeOK' /\ CacheTypeOK' /\ VaultTypeOK' /\ OutsideTypeOK'
           /\ pc # "idle"
<1>1. pc # "idle"
  BY DEF Claiming, Deleting, Releasing, Saving, Upserting
<1>2. cur \in Names /\ secretName \in Secrets /\ obj \in DbSecrets
  BY <1>1, Inside
<1>3. ApiTypeOK'
  <2>1. CASE Claiming
    BY <1>2, <2>1, DbSecretEdits, TypeDbWrite DEF Claiming
  <2>2. CASE Releasing
    BY <1>2, <2>2, TypeDbWrite DEF Releasing
  <2>3. CASE Deleting
    BY <1>2, <2>3, TypeSecretWrite DEF Deleting
  <2>4. CASE Saving
    BY <1>2, <2>4, Renewable, TypeSecretWrite DEF Saving
  <2>5. CASE Upserting
    <3>1. PICK s \in K8sSecrets : sec' = [sec EXCEPT ![secretName] = s]
      BY <2>5, UpsertWrites
    <3> QED
      BY <1>2, <2>5, <3>1, TypeSecretWrite DEF Upserting
  <2> QED
    BY <2>1, <2>2, <2>3, <2>4, <2>5
<1>4. CacheTypeOK'
  <2>1. secEvt' \in [Secrets -> SUBSET Names]
    <3>1. \/ \E o : Notify(secretName, o)
          \/ UNCHANGED secEvt
      BY DEF Claiming, Deleting, Releasing, Saving, Upserting
    <3>2. CASE \E o : Notify(secretName, o)
      BY <1>2, <3>2, TypeNotify
    <3>3. CASE UNCHANGED secEvt
      BY <3>3 DEF TypeOK, CacheTypeOK
    <3> QED
      BY <3>1, <3>2, <3>3
  <2>2. scIs' \in [Secrets -> Copies]
    <3>1. \/ UNCHANGED scIs
          \/ \E c \in Copies : scIs' = [scIs EXCEPT ![secretName] = c]
      <4>1. scIs[secretName] \in Copies
        BY <1>2 DEF TypeOK, CacheTypeOK
      <4> QED
        BY <4>1 DEF Claiming, Deleting, Releasing, Saving, Upserting, Copies
    <3> QED
      BY <1>2, <3>1 DEF TypeOK, CacheTypeOK
  <2>3. dcOld' \in SUBSET Names /\ dsEvt' \in SUBSET Names /\ UNCHANGED <<dc, sc>>
    BY <1>2 DEF TypeOK, CacheTypeOK, Claiming, Deleting, Releasing, Saving, Upserting
  <2> QED
    BY <2>1, <2>2, <2>3 DEF TypeOK, CacheTypeOK
<1>5. VaultTypeOK' /\ OutsideTypeOK'
  BY Frames DEF Claiming, Deleting, Releasing, Saving, Upserting, vault
<1> QED
  BY <1>1, <1>3, <1>4, <1>5

\* The calls of Vault.
LEMMA TypeVault ==
    ASSUME TypeOK, Renewing \/ \E l \in Leases : Granting(l)
    PROVE  /\ ApiTypeOK' /\ CacheTypeOK' /\ VaultTypeOK' /\ OutsideTypeOK'
           /\ pc # "idle"
<1>1. pc # "idle"
  BY DEF Renewing, Granting
<1>2. ApiTypeOK' /\ CacheTypeOK' /\ OutsideTypeOK'
  BY Frames DEF Renewing, Granting, Keep
<1>3. CASE Renewing
  <2>1. seen.lease \in Leases
    BY <1>3, Renewable DEF Renewing
  <2>2. PICK ticks \in 0 .. Term : life' = [life EXCEPT ![seen.lease] = ticks]
    <3>1. life[seen.lease] \in 0 .. Term
      BY <2>1 DEF TypeOK, VaultTypeOK
    <3>2. PICK ticks \in (IF "cap" \in Faults THEN life[seen.lease] ELSE Term) .. Term :
            life' = [life EXCEPT ![seen.lease] = ticks]
      BY <1>3 DEF Renewing
    <3>3. ticks \in 0 .. Term
      BY <3>1, <3>2, ConstantTypes
    <3> QED
      BY <3>2, <3>3
  <2>3. VaultTypeOK'
    BY <1>3, <2>2 DEF TypeOK, VaultTypeOK, Renewing
  <2> QED
    BY <1>1, <1>2, <2>3
<1>4. CASE \E l \in Leases : Granting(l)
  <2>1. VaultTypeOK'
    BY <1>1, <1>4, Inside, ConstantTypes DEF TypeOK, VaultTypeOK, Granting
  <2> QED
    BY <1>1, <1>2, <2>1
<1> QED
  BY <1>3, <1>4

\* The same calls, when the answer arrives.
LEMMA TypeAnswer ==
    ASSUME TypeOK,
           \/ AddFinalizer \/ DeleteSecret \/ RemoveFinalizer \/ UpsertSecret
           \/ SaveRenewal \/ RenewLease \/ RequestCredentials
    PROVE  TypeOK'
<1>1. ApiTypeOK' /\ CacheTypeOK' /\ VaultTypeOK' /\ OutsideTypeOK' /\ pc # "idle"
  BY TypeWrite, TypeVault DEF AddFinalizer, DeleteSecret, RemoveFinalizer, UpsertSecret,
     SaveRenewal, RenewLease, RequestCredentials
<1>2. QueueTypeOK'
  BY <1>1, Frames, TypeRequeue DEF AddFinalizer, DeleteSecret, RemoveFinalizer, UpsertSecret,
     SaveRenewal, RenewLease, RequestCredentials
<1>3. WorkerTypeOK'
  <2>1. CASE AddFinalizer
    <3>1. obj' \in DbSecrets
      BY <1>1, <2>1, Inside, DbSecretEdits DEF AddFinalizer, Claiming, TypeOK, ApiTypeOK
    <3> QED
      BY <2>1, <3>1 DEF TypeOK, WorkerTypeOK, AddFinalizer, Claiming
  <2>2. CASE DeleteSecret
    BY <2>2 DEF TypeOK, WorkerTypeOK, DeleteSecret, Deleting, Goto
  <2>3. CASE RemoveFinalizer \/ SaveRenewal
    BY <2>3, TypeIdle DEF RemoveFinalizer, SaveRenewal
  <2>4. CASE UpsertSecret
    <3>1. Rollouts[cur] \in SUBSET Workloads
      BY <1>1, Inside, ConstantTypes
    <3> QED
      BY <2>4, <3>1 DEF TypeOK, WorkerTypeOK, UpsertSecret, Upserting, Copies
  <2>5. CASE RenewLease
    <3>1. pc = "renew" /\ seen' = [seen EXCEPT !.expires = Term]
      BY <2>5 DEF RenewLease, Renewing
    <3>2. seen' \in K8sSecrets /\ seen' # None /\ seen'.lease # None
      BY <3>1, Renewable, SecretEdits, ConstantTypes
    <3> QED
      BY <2>5, <3>1, <3>2 DEF TypeOK, WorkerTypeOK, RenewLease
  <2>6. CASE RequestCredentials
    BY <2>6 DEF TypeOK, WorkerTypeOK, RequestCredentials, Granting
  <2> QED
    BY <2>1, <2>2, <2>3, <2>4, <2>5, <2>6
<1> QED
  BY <1>1, <1>2, <1>3 DEF TypeOK

\* The worker turns to its second write of a renewal.
LEMMA TypeForce ==
    ASSUME TypeOK, pc = "save", seen' = [seen EXCEPT !.force = TRUE], seenIs' \in Copies,
           pc' = "force", UNCHANGED <<cur, obj, objOld, cred, todo>>
    PROVE  WorkerTypeOK'
<1>1. seen' \in K8sSecrets /\ seen' # None /\ seen'.lease # None
  BY Renewable, SecretEdits, ConstantTypes
<1> QED
  BY <1>1 DEF TypeOK, WorkerTypeOK

LEMMA TypeAnswerLost ==
    ASSUME TypeOK, AnswerLost
    PROVE  TypeOK'
<1>1. ApiTypeOK' /\ CacheTypeOK' /\ VaultTypeOK' /\ OutsideTypeOK' /\ pc # "idle"
  BY TypeWrite, TypeVault DEF AnswerLost
<1>2. QueueTypeOK'
  BY <1>1, Frames, TypeRequeue DEF AnswerLost
<1>3. WorkerTypeOK'
  BY TypeIdle, TypeForce DEF AnswerLost, Copies
<1> QED
  BY <1>1, <1>2, <1>3 DEF TypeOK

\* The steps that end a reconcile and write nothing.
LEMMA TypeEnd ==
    ASSUME TypeOK,
           \/ ApiError \/ UpToDate \/ ForceError \/ VaultError \/ UpsertError \/ Done
           \/ \E w \in Workloads : RolloutPanic(w)
    PROVE TypeOK'
<1>1. CASE UpsertError
  BY <1>1, TypeIdle, Frames DEF UpsertError, Keep, vault, TypeOK
<1>2. CASE ~UpsertError
  <2>1. pc # "idle" /\ Finish /\ UNCHANGED vault
    BY <1>2 DEF ApiError, UpToDate, ForceError, VaultError, Done, RolloutPanic
  <2> QED
    BY <2>1, TypeFinish
<1> QED
  BY <1>1, <1>2

\* The steps that only move the worker, or restart a workload.
LEMMA TypeMove ==
    ASSUME TypeOK,
           \/ ChooseRenewal \/ ChooseRequest \/ SaveError
           \/ \E w \in Workloads : Rollout(w) \/ RolloutError(w)
    PROVE TypeOK'
<1>1. ApiTypeOK' /\ CacheTypeOK' /\ QueueTypeOK' /\ VaultTypeOK'
  BY Frames DEF ChooseRenewal, ChooseRequest, SaveError, Rollout, RolloutError, Keep,
     api, cache, vault
<1>2. CASE ChooseRenewal
  <2>1. pc = "check" /\ seen # None /\ seen \in K8sSecrets /\ seen.lease # None
    BY <1>2 DEF ChooseRenewal, canRenew, Lookups, isLeaseValid, TypeOK, WorkerTypeOK
  <2>2. Pruned(obj.def, seen) \in K8sSecrets /\ Pruned(obj.def, seen).lease # None
    BY <2>1, Inside, SecretEdits
  <2>3. WorkerTypeOK'
    BY <1>2, <2>1, <2>2, ConstantTypes DEF ChooseRenewal, TypeOK, WorkerTypeOK
  <2>4. OutsideTypeOK'
    BY <1>2, Frames DEF ChooseRenewal, Keep
  <2> QED
    BY <1>1, <2>3, <2>4 DEF TypeOK
<1>3. CASE ChooseRequest
  <2>1. seen' \in K8sSecrets \cup {None}
    <3>1. seen # None => seen \in K8sSecrets
      BY DEF TypeOK, WorkerTypeOK
    <3>2. pc # "idle"
      BY <1>3 DEF ChooseRequest
    <3> QED
      BY <1>3, <3>1, <3>2, Inside, SecretEdits DEF ChooseRequest
  <2>2. WorkerTypeOK'
    BY <1>3, <2>1 DEF ChooseRequest, TypeOK, WorkerTypeOK
  <2>3. OutsideTypeOK'
    BY <1>3, Frames DEF ChooseRequest, Keep
  <2> QED
    BY <1>1, <2>2, <2>3 DEF TypeOK
<1>4. CASE SaveError
  <2>1. WorkerTypeOK'
    BY <1>4, TypeForce DEF SaveError, TypeOK, WorkerTypeOK
  <2>2. OutsideTypeOK'
    BY <1>4, Frames DEF SaveError, Keep
  <2> QED
    BY <1>1, <2>1, <2>2 DEF TypeOK
<1>5. CASE \E w \in Workloads : Rollout(w) \/ RolloutError(w)
  <2>1. WorkerTypeOK'
    BY <1>5 DEF TypeOK, WorkerTypeOK, Rollout, RolloutError
  <2>2. OutsideTypeOK'
    <3>1. secretName \in Secrets
      BY <1>5, Inside DEF Rollout, RolloutError
    <3>2. sec[secretName] # None => sec[secretName].lease \in Leases \cup {None}
      BY <3>1 DEF TypeOK, ApiTypeOK, K8sSecrets
    <3> QED
      BY <1>5, <3>2 DEF TypeOK, OutsideTypeOK, Rollout, RolloutError, Keep
  <2> QED
    BY <1>1, <2>1, <2>2 DEF TypeOK
<1> QED
  BY <1>2, <1>3, <1>4, <1>5

\* Every step keeps the types.
LEMMA TypeStep == TypeOK /\ [Next]_vars => TypeOK'
<1> SUFFICES ASSUME TypeOK, [Next]_vars PROVE TypeOK'
  OBVIOUS
<1>1. CASE Environment
  BY <1>1, TypeApply, TypeDelete, TypeHand, TypeRevoke DEF Environment
<1>2. CASE Plumbing
  BY <1>2, TypeDeliver, TypeTick DEF Plumbing
<1>3. CASE \E n \in Names : PickIgnored(n) \/ ReadError(n) \/ PickLive(n) \/ PickDeleting(n)
  BY <1>3, TypePick
<1>4. CASE Progress
  BY <1>4, TypeAnswer, TypeEnd, TypeMove DEF Progress
<1>5. CASE Errors
  BY <1>5, TypeAnswerLost, TypeEnd, TypeMove DEF Errors
<1>6. CASE Crash
  BY <1>6, TypeCrash
<1>7. CASE UNCHANGED vars
  BY <1>7, Frames DEF vars, TypeOK
<1> QED
  BY <1>1, <1>2, <1>3, <1>4, <1>5, <1>6, <1>7 DEF Next, Reconcile

\* Every variable keeps its type, and the worker's locals are set exactly
\* while the step it is in needs them.
THEOREM TypeCorrect == Spec => []TypeOK
BY TypeInit, TypeStep, PTL DEF Spec

\* Who writes DbSecrets, and what else such a step touches.
LEMMA DbWriters ==
    ASSUME [Next]_vars
    PROVE  \/ \E n \in Names : Delete(n) \/ \E d \in Defs : Apply(n, d)
           \/ Claiming \/ (Releasing /\ pc' # pc)
           \/ UNCHANGED ds
<1>1. Environment => \/ \E n \in Names : Delete(n) \/ \E d \in Defs : Apply(n, d)
                     \/ UNCHANGED ds
  BY DEF Environment, Tamper, Plant, Revoke, api
<1>2. Plumbing \/ Crash \/ UNCHANGED vars => UNCHANGED ds
  BY DEF Plumbing, DeliverDb, DeliverSecret, Due, Tick, Crash, api, vars
<1>3. ASSUME NEW n \in Names,
             PickIgnored(n) \/ ReadError(n) \/ PickLive(n) \/ PickDeleting(n)
      PROVE UNCHANGED ds
  BY <1>3 DEF PickIgnored, ReadError, PickLive, PickDeleting, Pick, Keep
<1>4. Progress => Claiming \/ (Releasing /\ pc' # pc) \/ UNCHANGED ds
  BY DEF Progress, AddFinalizer, DeleteSecret, Deleting, RemoveFinalizer, Releasing, Idle,
     UpToDate,
     ChooseRenewal, ChooseRequest, RenewLease, Renewing, SaveRenewal, Saving,
     RequestCredentials, Granting, UpsertSecret, Upserting, Done, Rollout, Finish, Keep, api
<1>5. Errors => Claiming \/ (Releasing /\ pc' # pc) \/ UNCHANGED ds
  BY DEF Errors, ApiError, SaveError, ForceError, VaultError, UpsertError, AnswerLost,
     Deleting, Releasing, Idle, Renewing, Saving, Granting, Upserting, RolloutError, RolloutPanic, Finish, Keep
<1> QED
  BY <1>1, <1>2, <1>3, <1>4, <1>5 DEF Next, Reconcile

\* Who writes Secrets.
LEMMA SecretWriters ==
    ASSUME [Next]_vars
    PROVE  \/ \E t \in Secrets : Tamper(t) \/ Plant(t)
           \/ Tick \/ Deleting \/ Saving \/ (Upserting /\ pc' # pc)
           \/ UNCHANGED sec
<1>1. Environment => \/ \E t \in Secrets : Tamper(t) \/ Plant(t)
                     \/ UNCHANGED sec
  BY DEF Environment, Apply, Delete, Revoke, api
<1>2. Plumbing \/ Crash \/ UNCHANGED vars => Tick \/ UNCHANGED sec
  BY DEF Plumbing, DeliverDb, DeliverSecret, Due, Crash, api, vars
<1>3. ASSUME NEW n \in Names,
             PickIgnored(n) \/ ReadError(n) \/ PickLive(n) \/ PickDeleting(n)
      PROVE UNCHANGED sec
  BY <1>3 DEF PickIgnored, ReadError, PickLive, PickDeleting, Pick, Keep
<1>4. Progress => Deleting \/ Saving \/ (Upserting /\ pc' # pc) \/ UNCHANGED sec
  BY DEF Progress, AddFinalizer, Claiming, DeleteSecret, RemoveFinalizer, Releasing,
     UpToDate, ChooseRenewal, ChooseRequest, RenewLease, Renewing, SaveRenewal,
     RequestCredentials, Granting, UpsertSecret, Upserting, Idle, Done, Rollout, Finish, Keep, api
<1>5. Errors => Deleting \/ Saving \/ (Upserting /\ pc' # pc) \/ UNCHANGED sec
  BY DEF Errors, ApiError, SaveError, ForceError, VaultError, UpsertError, AnswerLost,
     Claiming, Releasing, Renewing, Granting, Upserting, Idle, RolloutError, RolloutPanic, Finish, Keep
<1> QED
  BY <1>1, <1>2, <1>3, <1>4, <1>5 DEF Next, Reconcile

\* Nothing but the last call of a deletion takes a claim away.
LEMMA ClaimsKept ==
    ASSUME TypeOK, [Next]_vars, ~(Releasing /\ pc' # pc)
    PROVE  \A n \in Names : Claimed(n) => Claimed(n)'
<1> SUFFICES ASSUME NEW n \in Names, Claimed(n) PROVE Claimed(n)'
  OBVIOUS
<1>0. ds[n] \in DbSecrets /\ ds[n].fin
  BY DEF Claimed, TypeOK, ApiTypeOK
<1>1. ASSUME NEW m \in Names, NEW d \in Defs, Apply(m, d) PROVE Claimed(n)'
  BY <1>0, <1>1, ConstantTypes DEF Apply, Claimed, TypeOK, ApiTypeOK, DbSecrets
<1>2. ASSUME NEW m \in Names, Delete(m) PROVE Claimed(n)'
  BY <1>0, <1>2, ConstantTypes DEF Delete, Claimed, TypeOK, ApiTypeOK, DbSecrets
<1>3. CASE Claiming
  <2> DEFINE new == [obj EXCEPT !.fin = TRUE]
  <2>1. new \in DbSecrets /\ new.fin /\ ds' = [ds EXCEPT ![cur] = new]
    BY <1>3, Inside, DbSecretEdits DEF Claiming
  <2> HIDE DEF new
  <2> QED
    BY <1>0, <2>1, ConstantTypes DEF Claimed, TypeOK, ApiTypeOK
<1>4. CASE UNCHANGED ds
  BY <1>4 DEF Claimed
<1> QED
  BY <1>1, <1>2, <1>3, <1>4, DbWriters

\* Only new credentials make a DbSecret the owner of a Secret.
LEMMA NoNewOwner ==
    ASSUME TypeOK, LifeInv, [Next]_vars, ~(Upserting /\ pc' # pc)
    PROVE  \A t \in Secrets : sec'[t] # None /\ sec'[t].owner # None =>
                sec[t] # None /\ sec[t].owner = sec'[t].owner
<1>1. ASSUME NEW t \in Secrets, Tamper(t) \/ Plant(t), NEW u \in Secrets,
             sec'[u] # None, sec'[u].owner # None
      PROVE sec[u] # None /\ sec[u].owner = sec'[u].owner
  BY <1>1 DEF Tamper, Plant, TypeOK, ApiTypeOK
<1>2. ASSUME Tick, NEW u \in Secrets, sec'[u] # None, sec'[u].owner # None
      PROVE sec[u] # None /\ sec[u].owner = sec'[u].owner
  BY <1>2, OlderSecret DEF Tick, TypeOK, ApiTypeOK
<1>3. ASSUME Deleting, NEW u \in Secrets, sec'[u] # None, sec'[u].owner # None
      PROVE sec[u] # None /\ sec[u].owner = sec'[u].owner
  BY <1>3 DEF Deleting, TypeOK, ApiTypeOK
<1>4. ASSUME Saving, NEW u \in Secrets, sec'[u] # None, sec'[u].owner # None
      PROVE sec[u] # None /\ sec[u].owner = sec'[u].owner
  <2>1. sec' = [sec EXCEPT ![secretName] = seen] /\ Kin(seen, sec[secretName])
    BY <1>4 DEF Saving, LifeInv, SeenIsKin
  <2> QED
    BY <1>4, <2>1 DEF Kin, TypeOK, ApiTypeOK
<1> QED
  BY <1>1, <1>2, <1>3, <1>4, SecretWriters

LEMMA OwnerStep ==
    ASSUME TypeOK, LifeInv, [Next]_vars
    PROVE  NoOrphan' /\ OwnedAtTarget'
<1> USE DEF LifeInv
<1>1. CASE Upserting
  <2>1. pc = "upsert"
    BY <1>1 DEF Upserting
  <2>2. cur \in Names /\ secretName \in Secrets
    BY <2>1, Inside
  <2>3. PICK s \in K8sSecrets : sec' = [sec EXCEPT ![secretName] = s] /\ s.owner = cur
    BY <1>1, UpsertWrites
  <2>4. Claimed(cur)
    BY <2>1 DEF Claims
  <2>5. NoOrphan'
    BY <1>1, <2>2, <2>3, <2>4 DEF Upserting, NoOrphan, Claimed, TypeOK, ApiTypeOK
  <2>6. OwnedAtTarget'
    BY <2>2, <2>3 DEF OwnedAtTarget, secretName, TypeOK, ApiTypeOK
  <2> QED
    BY <2>5, <2>6
<1>2. CASE ~Upserting /\ ~Releasing
  <2>1. \A t \in Secrets : sec[t] # None /\ sec[t].owner # None => sec[t].owner \in Names
    BY DEF TypeOK, ApiTypeOK, K8sSecrets
  <2> QED
    BY <1>2, <2>1, NoNewOwner, ClaimsKept DEF NoOrphan, OwnedAtTarget
<1>3. CASE Releasing
  <2>1. cur \in Names /\ ds' = [ds EXCEPT ![cur] = None] /\ UNCHANGED sec /\ pc = "release"
    BY <1>3 DEF Releasing, TypeOK, WorkerTypeOK
  <2>2. ASSUME NEW t \in Secrets, sec[t] # None, sec[t].owner # None
        PROVE  sec[t].owner # cur /\ sec[t].owner \in Names
    BY <2>1, <2>2 DEF OwnedAtTarget, Claims, secretName, TypeOK, ApiTypeOK, K8sSecrets
  <2>3. NoOrphan'
    BY <2>1, <2>2 DEF NoOrphan, Claimed, TypeOK, ApiTypeOK
  <2>4. OwnedAtTarget'
    BY <2>1 DEF OwnedAtTarget
  <2> QED
    BY <2>3, <2>4
<1> QED
  BY <1>1, <1>2, <1>3

\* What a step does to the copies of DbSecrets.
LEMMA DbCopies ==
    ASSUME [Next]_vars
    PROVE  \/ \E n \in Names : Delete(n) \/ \E d \in Defs : Apply(n, d)
           \/ Claiming \/ Releasing \/ Crash
           \/ \E n \in Names : DeliverDb(n)
           \/ UNCHANGED <<ds, dc, dcOld>>
<1>1. Environment => \/ \E n \in Names : Delete(n) \/ \E d \in Defs : Apply(n, d)
                     \/ UNCHANGED <<ds, dc, dcOld>>
  BY DEF Environment, Tamper, Plant, Revoke, api, cache
<1>2. Plumbing \/ UNCHANGED vars => \/ \E n \in Names : DeliverDb(n)
                                    \/ UNCHANGED <<ds, dc, dcOld>>
  BY DEF Plumbing, DeliverSecret, Due, Tick, api, cache, vars
<1>3. ASSUME NEW n \in Names,
             PickIgnored(n) \/ ReadError(n) \/ PickLive(n) \/ PickDeleting(n)
      PROVE UNCHANGED <<ds, dc, dcOld>>
  BY <1>3 DEF PickIgnored, ReadError, PickLive, PickDeleting, Pick, Keep
<1>4. Progress => Claiming \/ Releasing \/ UNCHANGED <<ds, dc, dcOld>>
  BY DEF Progress, AddFinalizer, DeleteSecret, Deleting, RemoveFinalizer, UpToDate,
     ChooseRenewal, ChooseRequest, RenewLease, Renewing, SaveRenewal, Saving,
     RequestCredentials, Granting, UpsertSecret, Upserting, Done, Rollout, Finish, Keep,
     api, cache
<1>5. Errors => Claiming \/ Releasing \/ UNCHANGED <<ds, dc, dcOld>>
  BY DEF Errors, ApiError, SaveError, ForceError, VaultError, UpsertError, AnswerLost,
     Deleting, Renewing, Saving, Granting, Upserting, RolloutError, RolloutPanic, Finish, Keep
<1> QED
  BY <1>1, <1>2, <1>3, <1>4, <1>5 DEF Next, Reconcile

LEMMA CacheStep ==
    ASSUME TypeOK, LifeInv, [Next]_vars
    PROVE  CacheIsCurrent' /\ CachedClaims'
<1> USE DEF LifeInv
<1>1. ASSUME NEW n \in Names, (\E d \in Defs : Apply(n, d)) \/ Delete(n)
      PROVE CacheIsCurrent' /\ CachedClaims'
  <2>1. CacheIsCurrent'
    BY <1>1 DEF Apply, Delete, Outdate, CacheIsCurrent, TypeOK, ApiTypeOK
  <2>2. left' # left
    BY <1>1, TypeDisturb DEF Apply, Delete
  <2>3. ~Releasing /\ UNCHANGED dc
    BY <1>1, <2>2 DEF Releasing, Apply, Delete
  <2> QED
    BY <2>1, <2>3, ClaimsKept DEF CachedClaims
<1>2. CASE Releasing
  <2>1. cur \in Names
    BY <1>2 DEF Releasing, TypeOK, WorkerTypeOK
  <2>2. CacheIsCurrent'
    BY <1>2, <2>1 DEF Releasing, CacheIsCurrent, TypeOK, ApiTypeOK
  <2>3. dc[cur] = obj /\ obj.del /\ UNCHANGED dc /\ ds' = [ds EXCEPT ![cur] = None]
    BY <1>2, <2>1 DEF Releasing, Claims, CacheIsCurrent
  <2>4. CachedClaims'
    BY <2>1, <2>3 DEF CachedClaims, Claimed, TypeOK, ApiTypeOK
  <2> QED
    BY <2>2, <2>4
<1>3. CASE Claiming
  <2>1. cur \in Names
    BY <1>3 DEF Claiming, TypeOK, WorkerTypeOK
  <2>2. CacheIsCurrent'
    BY <1>3, <2>1 DEF Claiming, CacheIsCurrent, TypeOK, ApiTypeOK
  <2>3. ~Releasing /\ UNCHANGED dc
    BY <1>3 DEF Claiming, Releasing
  <2> QED
    BY <2>2, <2>3, ClaimsKept DEF CachedClaims
<1>4. ASSUME NEW n \in Names, DeliverDb(n) PROVE CacheIsCurrent' /\ CachedClaims'
  BY <1>4 DEF DeliverDb, CacheIsCurrent, CachedClaims, Claimed, api, TypeOK, CacheTypeOK
<1>5. CASE Crash
  BY <1>5 DEF Crash, CacheIsCurrent, CachedClaims, Claimed, api
<1>6. CASE UNCHANGED <<ds, dc, dcOld>>
  BY <1>6 DEF CacheIsCurrent, CachedClaims, Claimed
<1> QED
  BY <1>1, <1>2, <1>3, <1>4, <1>5, <1>6, DbCopies

\* The steps after the finalizer is known to be there.
LEMMA ClaimsStep ==
    ASSUME TypeOK, LifeInv, [Next]_vars
    PROVE  Claims'
<1> USE DEF LifeInv
<1> DEFINE Later == {"check", "renew", "save", "force", "request", "upsert", "rollout"}
<1>1. CASE pc' = "idle"
  BY <1>1 DEF Claims
\* Somebody else's step, which may make the worker's copy old.
<1>2. ASSUME UNCHANGED <<pc, cur, obj>>, pc # "idle",
             ~objOld' => ~objOld /\ (cur \notin dcOld => cur \notin dcOld') /\ ds'[cur] = ds[cur]
      PROVE  Claims'
  <2>1. cur \in Names /\ secretName \in Secrets /\ cur # None
    BY <1>2, Inside
  <2>2. pc \in Later => Claimed(cur)'
    <3>1. ASSUME pc \in Later PROVE Claimed(cur)'
      <4>1. Claimed(cur)
        BY <3>1 DEF Claims
      <4> QED
        BY <1>2, <2>1, <4>1, ClaimsKept DEF Claimed
    <3> QED
      BY <3>1
  <2>3. pc \in {"claim", "delete", "release"} /\ ~objOld' => cur \notin dcOld' /\ ds'[cur] = obj
    BY <1>2 DEF Claims
  <2>4. pc = "release" => ~(sec'[secretName] # None /\ sec'[secretName].owner = cur)
    BY <1>2, <2>1, NoNewOwner DEF Claims
  <2> QED
    BY <1>2, <2>2, <2>3, <2>4 DEF Claims, secretName
\* A step of the worker after it has claimed its key.
<1>3. ASSUME pc \in Later, pc' \in Later, cur' = cur, UNCHANGED ds
      PROVE  Claims'
  BY <1>3 DEF Claims, Claimed
<1>4. ASSUME NEW n \in Names, (\E d \in Defs : Apply(n, d)) \/ Delete(n), pc # "idle"
      PROVE  Claims'
  <2>1. UNCHANGED <<pc, cur, obj>>
    BY <1>4 DEF Apply, Delete
  <2>2. ~objOld' => ~objOld /\ cur # n
    BY <1>4, Zenon DEF Apply, Delete, Outdate
  <2>3. cur # n => (cur \notin dcOld => cur \notin dcOld') /\ ds'[cur] = ds[cur]
    <3>1. cur \in Names /\ ds \in [Names -> DbSecrets \cup {None}]
      BY <1>4 DEF TypeOK, ApiTypeOK, WorkerTypeOK
    <3>2. dcOld' = dcOld \cup {n}
      BY <1>4 DEF Apply, Delete, Outdate
    <3>3. cur # n => ds'[cur] = ds[cur]
      BY <1>4, <3>1 DEF Apply, Delete
    <3> QED
      BY <3>2, <3>3
  <2> QED
    BY <1>2, <1>4, <2>1, <2>2, <2>3
<1>5. ASSUME NEW n \in Names, DeliverDb(n) \/ Due(n), pc # "idle" PROVE Claims'
  <2>1. UNCHANGED <<ds, pc, cur, obj, objOld, sec>> /\ (cur \notin dcOld => cur \notin dcOld')
    BY <1>5 DEF DeliverDb, Due, api, cache, worker
  <2> QED
    BY <2>1 DEF Claims, Claimed, secretName
<1>6. ASSUME NEW t \in Secrets, Tamper(t) \/ Plant(t) \/ DeliverSecret(t), pc # "idle"
      PROVE  Claims'
  <2>1. UNCHANGED <<ds, pc, cur, obj, objOld, dcOld>>
    BY <1>6 DEF Tamper, Plant, DeliverSecret, api, worker
  <2> QED
    BY <1>2, <1>6, <2>1
<1>7. ASSUME (\E l \in Leases : Revoke(l)) \/ UNCHANGED vars, pc # "idle" PROVE Claims'
  <2>1. UNCHANGED <<ds, pc, cur, obj, objOld, dcOld>>
    BY <1>7 DEF Revoke, vars, api, cache, worker
  <2> QED
    BY <1>2, <1>7, <2>1
<1>8. ASSUME NEW n \in Names, PickIgnored(n) \/ ReadError(n) \/ PickLive(n) \/ PickDeleting(n) PROVE Claims'
  <2>1. CASE PickIgnored(n) \/ ReadError(n)
    BY <1>1, <2>1 DEF PickIgnored, ReadError, Pick, worker
  <2>2. CASE PickLive(n)
    <3>1. dc[n] # None /\ ~dc[n].del /\ UNCHANGED <<ds, dcOld>> /\ cur' = n /\ obj' = dc[n]
      BY <2>2 DEF PickLive, Pick, Keep, Start
    <3>2. CASE dc[n].fin
      BY <2>2, <3>1, <3>2 DEF PickLive, Start, CachedClaims, Claims, Claimed, FirstStep
    <3>3. CASE ~dc[n].fin
      <4>1. pc' = "claim" /\ objOld' = (n \in dcOld)
        BY <2>2, <3>3 DEF PickLive, Start, FirstStep
      <4> QED
        BY <3>1, <4>1 DEF CacheIsCurrent, Claims
    <3> QED
      BY <3>2, <3>3
  <2>3. CASE PickDeleting(n)
    <3>1. /\ pc' = "delete" /\ cur' = n /\ obj' = dc[n] /\ objOld' = (n \in dcOld)
          /\ UNCHANGED <<ds, dcOld>> /\ dc[n].del /\ dc[n].fin
      BY <2>3 DEF PickDeleting, Pick, Keep, Start
    <3> QED
      BY <3>1 DEF CacheIsCurrent, Claims
  <2> QED
    BY <1>8, <2>1, <2>2, <2>3
<1>9. CASE AddFinalizer
  <2>1. cur \in Names /\ obj \in DbSecrets /\ [obj EXCEPT !.fin = TRUE] \in DbSecrets
        /\ [obj EXCEPT !.fin = TRUE].fin
    BY <1>9, Inside, DbSecretEdits DEF AddFinalizer, Claiming
  <2>2. obj' \in DbSecrets /\ obj'.fin /\ ds'[cur] = obj' /\ cur' = cur /\ pc' = "check"
    BY <1>9, <2>1 DEF AddFinalizer, Claiming, TypeOK, ApiTypeOK
  <2> QED
    BY <2>2, ConstantTypes DEF Claims, Claimed
<1>10. CASE DeleteSecret
  <2>1. cur \in Names /\ secretName \in Secrets
    BY <1>10, Inside DEF DeleteSecret, Deleting
  <2>2. sec'[secretName] = None
    BY <1>10, <2>1 DEF DeleteSecret, Deleting, TypeOK, ApiTypeOK
  <2>3. pc = "delete" /\ pc' = "release" /\ UNCHANGED <<ds, dcOld, cur, obj, objOld>>
    BY <1>10 DEF DeleteSecret, Deleting, Goto
  <2> QED
    BY <2>2, <2>3 DEF Claims, secretName
<1>11. CASE \/ ChooseRenewal \/ ChooseRequest \/ RenewLease \/ SaveError
            \/ RequestCredentials \/ UpsertSecret
            \/ \E w \in Workloads : Rollout(w) \/ RolloutError(w)
  BY <1>3, <1>11 DEF ChooseRenewal, ChooseRequest, RenewLease, Renewing, SaveError,
     RequestCredentials, Granting, UpsertSecret, Upserting, Rollout, RolloutError, Keep, api
<1>12. CASE AnswerLost
  <2>1. \/ pc' = "idle"
        \/ pc = "save" /\ pc' = "force" /\ cur' = cur /\ UNCHANGED ds
    BY <1>12 DEF AnswerLost, Idle, Saving
  <2> QED
    BY <1>1, <1>3, <2>1
<1>13. CASE \/ RemoveFinalizer \/ UpToDate \/ SaveRenewal \/ Done \/ Crash \/ Tick
            \/ ApiError \/ ForceError \/ VaultError \/ UpsertError
            \/ \E w \in Workloads : RolloutPanic(w)
  BY <1>1, <1>13 DEF RemoveFinalizer, UpToDate, SaveRenewal, Done, Crash, Tick, ApiError,
     ForceError, VaultError, UpsertError, RolloutPanic, Finish, Idle, worker
<1>14. CASE pc = "idle" /\ (Environment \/ Plumbing \/ UNCHANGED vars)
  BY <1>1, <1>14 DEF Environment, Plumbing, vars, worker, Apply, Delete, Tamper, Plant,
     Revoke, DeliverDb, Due, DeliverSecret, Tick
<1>15. CASE pc # "idle" /\ (Environment \/ Plumbing \/ UNCHANGED vars)
  BY <1>4, <1>5, <1>6, <1>7, <1>13, <1>15 DEF Environment, Plumbing
<1>16. CASE Reconcile
  BY <1>8, <1>9, <1>10, <1>11, <1>12, <1>13, <1>16 DEF Reconcile, Progress, Errors
<1> QED
  BY <1>13, <1>14, <1>15, <1>16 DEF Next

\* What a step does to the copies of Secrets.
LEMMA SecretCopies ==
    ASSUME [Next]_vars
    PROVE  \/ \E t \in Secrets : Tamper(t) \/ Plant(t) \/ DeliverSecret(t)
           \/ Tick \/ Crash \/ Deleting \/ Saving \/ Upserting
           \/ UNCHANGED <<sec, sc, scIs>>
<1>1. Environment => \/ \E t \in Secrets : Tamper(t) \/ Plant(t)
                     \/ UNCHANGED <<sec, sc, scIs>>
  BY DEF Environment, Apply, Delete, Revoke, api, cache
<1>2. Plumbing \/ UNCHANGED vars => \/ \E t \in Secrets : DeliverSecret(t)
                                    \/ Tick
                                    \/ UNCHANGED <<sec, sc, scIs>>
  BY DEF Plumbing, DeliverDb, Due, api, cache, vars
<1>3. ASSUME NEW n \in Names,
             PickIgnored(n) \/ ReadError(n) \/ PickLive(n) \/ PickDeleting(n)
      PROVE UNCHANGED <<sec, sc, scIs>>
  BY <1>3 DEF PickIgnored, ReadError, PickLive, PickDeleting, Pick, Keep
<1>4. Progress => Deleting \/ Saving \/ Upserting \/ UNCHANGED <<sec, sc, scIs>>
  BY DEF Progress, AddFinalizer, Claiming, DeleteSecret, RemoveFinalizer, Releasing,
     UpToDate, ChooseRenewal, ChooseRequest, RenewLease, Renewing, SaveRenewal,
     RequestCredentials, Granting, UpsertSecret, Done, Rollout, Finish, Keep, api, cache
<1>5. Errors => Deleting \/ Saving \/ Upserting \/ UNCHANGED <<sec, sc, scIs>>
  BY DEF Errors, ApiError, SaveError, ForceError, VaultError, UpsertError, AnswerLost,
     Claiming, Releasing, Renewing, Granting, RolloutError, RolloutPanic, Finish, Keep
<1> QED
  BY <1>1, <1>2, <1>3, <1>4, <1>5 DEF Next, Reconcile

LEMMA CopiesStep ==
    ASSUME TypeOK, LifeInv, [Next]_vars
    PROVE  SameCopies'
<1>0. SameCopies
  BY DEF LifeInv
<1>1. ASSUME NEW t \in Secrets, Tamper(t) \/ Plant(t) PROVE SameCopies'
  <2>1. scIs' = [scIs EXCEPT ![t] = "other"] /\ UNCHANGED sc
    <3>1. Relate(t, "other") /\ UNCHANGED sc
      BY <1>1 DEF Tamper, Plant
    <3> QED
      BY <3>1 DEF Relate
  <2>2. \A u \in Secrets \ {t} : sec'[u] = sec[u]
    BY <1>1 DEF Tamper, Plant, TypeOK, ApiTypeOK
  <2> QED
    BY <1>0, <2>1, <2>2 DEF SameCopies, TypeOK, CacheTypeOK
<1>2. ASSUME NEW t \in Secrets, DeliverSecret(t) PROVE SameCopies'
  BY <1>0, <1>2 DEF DeliverSecret, SameCopies, api, TypeOK, CacheTypeOK
<1>3. CASE Tick
  BY <1>0, <1>3 DEF Tick, SameCopies
<1>4. CASE Crash
  BY <1>4 DEF Crash, SameCopies, api
<1>5. CASE Deleting \/ Saving \/ Upserting
  <2>1. pc # "idle" /\ UNCHANGED sc
    BY <1>5 DEF Deleting, Saving, Upserting
  <2>2. secretName \in Secrets
    BY <2>1, Inside
  <2>3. \A u \in Secrets \ {secretName} : sec'[u] = sec[u] /\ scIs'[u] = scIs[u]
    BY <1>5, <2>2 DEF Deleting, Saving, Upserting, TypeOK, ApiTypeOK, CacheTypeOK
  <2>4. scIs'[secretName] = "same" => sec'[secretName] = sec[secretName]
                                      /\ scIs[secretName] = "same"
    BY <1>5, <2>2 DEF Deleting, Saving, Upserting, TypeOK, ApiTypeOK, CacheTypeOK
  <2> QED
    BY <1>0, <2>1, <2>2, <2>3, <2>4 DEF SameCopies
<1>6. CASE UNCHANGED <<sec, sc, scIs>>
  BY <1>0, <1>6 DEF SameCopies
<1> QED
  BY <1>1, <1>2, <1>3, <1>4, <1>5, <1>6, SecretCopies

\* The worker's copy of the Secret stays what the Secret is, as long as nobody
\* else writes it.
LEMMA KinStep ==
    ASSUME TypeOK, LifeInv, [Next]_vars
    PROVE  SeenIsKin'
<1> DEFINE Looking == {"claim", "check", "renew", "save", "force", "request", "upsert"}
<1>0. SeenIsKin /\ SameCopies
  BY DEF LifeInv
<1>1. CASE pc' \notin Looking
  BY <1>1 DEF SeenIsKin
<1>2. ASSUME pc \in Looking, cur' = cur, UNCHANGED <<sec, seenIs>>,
             seen' = None <=> seen = None,
             seen # None => seen'.lease = seen.lease /\ seen'.owner = seen.owner
      PROVE  SeenIsKin'
  BY <1>0, <1>2 DEF SeenIsKin, Kin, secretName
<1>3. ASSUME NEW t \in Secrets, Tamper(t) \/ Plant(t), pc \in Looking PROVE SeenIsKin'
  <2>1. Relate(t, "other") /\ UNCHANGED <<pc, cur, seen>>
    BY <1>3 DEF Tamper, Plant
  <2>2. cur # None /\ secretName \in Secrets
    BY <1>3, Inside
  <2>3. CASE t = secretName
    BY <2>1, <2>2, <2>3 DEF Relate, SeenIsKin
  <2>4. CASE t # secretName
    <3>1. sec'[secretName] = sec[secretName]
      BY <1>3, <2>2, <2>4 DEF Tamper, Plant, TypeOK, ApiTypeOK
    <3>2. seenIs' = seenIs
      BY <2>1, <2>4 DEF Relate
    <3> QED
      BY <1>0, <1>3, <2>1, <3>1, <3>2 DEF SeenIsKin, secretName
  <2> QED
    BY <2>3, <2>4
<1>4. ASSUME NEW n \in Names, PickLive(n) PROVE SeenIsKin'
  <2>1. /\ cur' = n /\ seen' = sc[Target[n]] /\ seenIs' = scIs[Target[n]]
        /\ UNCHANGED sec /\ Target[n] \in Secrets
    BY <1>4, ConstantTypes DEF PickLive, Pick, Keep, Start
  <2> QED
    BY <1>0, <2>1 DEF SeenIsKin, SameCopies, Kin, secretName
<1>5. ASSUME NEW n \in Names, PickIgnored(n) \/ ReadError(n) \/ PickDeleting(n) PROVE pc' \notin Looking
  BY <1>5 DEF PickIgnored, ReadError, PickDeleting, Pick, Start, worker
<1>6. CASE ChooseRenewal \/ ChooseRequest \/ RenewLease \/ SaveError
  <2>1. pc \in Looking /\ cur' = cur /\ UNCHANGED <<sec, seenIs>>
    BY <1>6 DEF ChooseRenewal, ChooseRequest, RenewLease, Renewing, SaveError, Keep
  <2>2. /\ seen' = None <=> seen = None
        /\ seen # None => seen'.lease = seen.lease /\ seen'.owner = seen.owner
    <3>1. CASE seen = None
      BY <1>6, <3>1, Renewable DEF ChooseRenewal, ChooseRequest, RenewLease, Renewing, SaveError
    <3>2. CASE seen # None
      <4>1. seen \in K8sSecrets /\ obj.def \in Defs
        BY <2>1, <3>2, Inside DEF TypeOK, WorkerTypeOK
      <4>2. CASE ChooseRenewal \/ ChooseRequest
        <5>1. seen' = Pruned(obj.def, seen)
          BY <3>2, <4>2 DEF ChooseRenewal, ChooseRequest
        <5>2. /\ seen' \in K8sSecrets
              /\ seen'.lease = seen.lease /\ seen'.owner = seen.owner
          BY <4>1, <5>1, SecretEdits
        <5> QED
          BY <3>2, <5>2, ConstantTypes
      <4>3. CASE RenewLease
        <5>1. seen' = [seen EXCEPT !.expires = Term]
          BY <4>3 DEF RenewLease
        <5>2. /\ seen' \in K8sSecrets
              /\ seen'.lease = seen.lease /\ seen'.owner = seen.owner
          BY <4>1, <5>1, SecretEdits
        <5> QED
          BY <3>2, <5>2, ConstantTypes
      <4>4. CASE SaveError
        <5>1. seen' = [seen EXCEPT !.force = TRUE]
          BY <4>4 DEF SaveError
        <5>2. /\ seen' \in K8sSecrets
              /\ seen'.lease = seen.lease /\ seen'.owner = seen.owner
          BY <4>1, <5>1, SecretEdits
        <5> QED
          BY <3>2, <5>2, ConstantTypes
      <4> QED
        BY <1>6, <4>2, <4>3, <4>4
    <3> QED
      BY <3>1, <3>2
  <2> QED
    BY <1>2, <2>1, <2>2
<1>7. CASE AddFinalizer \/ RequestCredentials
  BY <1>2, <1>7 DEF AddFinalizer, Claiming, RequestCredentials, Granting, Keep
<1>8. CASE AnswerLost
  <2>1. pc' = "idle" \/ seenIs' = "earlier"
    BY <1>8 DEF AnswerLost, Idle
  <2> QED
    BY <1>1, <2>1 DEF SeenIsKin
<1>9. CASE \/ DeleteSecret \/ RemoveFinalizer \/ UpToDate \/ SaveRenewal \/ Done \/ Crash
           \/ Tick \/ UpsertSecret \/ ApiError \/ ForceError \/ VaultError \/ UpsertError
           \/ \E w \in Workloads : Rollout(w) \/ RolloutError(w) \/ RolloutPanic(w)
  BY <1>1, <1>9 DEF DeleteSecret, RemoveFinalizer, UpToDate, SaveRenewal, Done, Crash, Tick,
     UpsertSecret, ApiError, ForceError, VaultError, UpsertError, Rollout, RolloutError,
     RolloutPanic, Finish, Idle, Goto, worker
<1>10. CASE UNCHANGED <<pc, cur, seen, seenIs, sec>>
  BY <1>0, <1>10 DEF SeenIsKin, Kin, secretName
<1>11. CASE Environment
  <2>1. ASSUME NEW t \in Secrets, Tamper(t) \/ Plant(t) PROVE SeenIsKin'
    <3>1. UNCHANGED pc
      BY <2>1 DEF Tamper, Plant
    <3> QED
      BY <1>1, <1>3, <2>1, <3>1
  <2>2. \/ \E t \in Secrets : Tamper(t) \/ Plant(t)
        \/ UNCHANGED <<pc, cur, seen, seenIs, sec>>
    BY <1>11 DEF Environment, Apply, Delete, Revoke, api, worker
  <2> QED
    BY <1>10, <2>1, <2>2
<1>12. CASE Plumbing
  BY <1>9, <1>10, <1>12 DEF Plumbing, DeliverDb, Due, DeliverSecret, api, worker
<1>13. CASE Reconcile
  BY <1>1, <1>4, <1>5, <1>6, <1>7, <1>8, <1>9, <1>13 DEF Reconcile, Progress, Errors
<1> QED
  BY <1>9, <1>10, <1>11, <1>12, <1>13 DEF Next, vars

LEMMA LifeInit == Init => LifeInv
BY ConstantTypes DEF Init, LifeInv, NoOrphan, OwnedAtTarget, CacheIsCurrent, CachedClaims,
   SameCopies, Claims, SeenIsKin

LEMMA LifeStep == TypeOK /\ LifeInv /\ [Next]_vars => LifeInv'
BY OwnerStep, CacheStep, ClaimsStep, CopiesStep, KinStep DEF LifeInv

THEOREM LifeCorrect == Spec => []LifeInv
BY TypeCorrect, LifeInit, LifeStep, PTL DEF Spec

\* A Secret that the operator wrote has an owner that exists and still carries
\* the finalizer, whatever the cache shows, whatever fails, whenever it crashes.
THEOREM SecretsHaveOwners == Spec => []NoOrphan
BY LifeCorrect, PTL DEF LifeInv
\* Who changes how long leases last.
LEMMA LifeWriters ==
    ASSUME [Next]_vars
    PROVE  \/ \E l \in Leases : Revoke(l) \/ Granting(l)
           \/ Renewing \/ Tick
           \/ UNCHANGED life
<1>1. Environment => (\E l \in Leases : Revoke(l)) \/ UNCHANGED life
  BY DEF Environment, Apply, Delete, Tamper, Plant, vault
<1>2. Plumbing \/ Crash \/ UNCHANGED vars => Tick \/ UNCHANGED life
  BY DEF Plumbing, DeliverDb, DeliverSecret, Due, Crash, vault, vars
<1>3. ASSUME NEW n \in Names,
             PickIgnored(n) \/ ReadError(n) \/ PickLive(n) \/ PickDeleting(n)
      PROVE UNCHANGED life
  BY <1>3 DEF PickIgnored, ReadError, PickLive, PickDeleting, Pick, vault
<1>4. Progress => Renewing \/ (\E l \in Leases : Granting(l)) \/ UNCHANGED life
  BY DEF Progress, AddFinalizer, Claiming, DeleteSecret, Deleting, RemoveFinalizer,
     Releasing, UpToDate, ChooseRenewal, ChooseRequest, RenewLease, SaveRenewal, Saving,
     RequestCredentials, UpsertSecret, Upserting, Done, Rollout, vault
<1>5. Errors => Renewing \/ (\E l \in Leases : Granting(l)) \/ UNCHANGED life
  BY DEF Errors, ApiError, SaveError, ForceError, VaultError, UpsertError, AnswerLost,
     Claiming, Deleting, Releasing, Saving, Upserting, RolloutError, RolloutPanic, vault
<1> QED
  BY <1>1, <1>2, <1>3, <1>4, <1>5 DEF Next, Reconcile

\* Vault grants the term it is asked for, and takes nothing back.
Generous == "cap" \notin Faults /\ "revoke" \notin Faults

\* A call of Vault makes one lease last the full term, and none less than before.
LEMMA Prolonged ==
    ASSUME TypeOK, Generous, Renewing \/ \E l \in Leases : Granting(l)
    PROVE  /\ \A l \in Leases : life'[l] \in 0 .. Term /\ life'[l] >= life[l]
           /\ Renewing => life'[seen.lease] = Term
           /\ \A l \in Leases : Granting(l) => life'[l] = Term
<1>0. life \in [Leases -> 0 .. Term]
  BY DEF TypeOK, VaultTypeOK
<1>1. ASSUME Renewing
      PROVE  /\ \A l \in Leases : life'[l] \in 0 .. Term /\ life'[l] >= life[l]
             /\ life'[seen.lease] = Term
  <2>1. seen.lease \in Leases
    BY <1>1, Renewable DEF Renewing
  <2>2. PICK ticks \in Term .. Term : life' = [life EXCEPT ![seen.lease] = ticks]
    BY <1>1 DEF Renewing, Generous
  <2>3. ticks = Term
    BY <2>2, ConstantTypes
  <2> QED
    BY <1>0, <2>1, <2>2, <2>3, ConstantTypes
<1>2. ASSUME NEW l \in Leases, Granting(l)
      PROVE  /\ \A k \in Leases : life'[k] \in 0 .. Term /\ life'[k] >= life[k]
             /\ life'[l] = Term
  BY <1>0, <1>2, ConstantTypes DEF Granting
<1> QED
  BY <1>1, <1>2

LEMMA HonestStep ==
    ASSUME TypeOK, Generous, ExpiryInv, [Next]_vars
    PROVE  ExpiryIsHonest'
<1>0. /\ \A t \in Secrets : sec[t] # None /\ sec[t].lease # None =>
             sec[t].expires <= life[sec[t].lease]
      /\ pc \in {"save", "force"} => life[seen.lease] = Term
      /\ pc = "upsert" => life[cred] = Term
  BY DEF ExpiryInv, ExpiryIsHonest
<1>1. /\ life \in [Leases -> 0 .. Term]
      /\ \A t \in Secrets : sec[t] # None =>
           /\ sec[t] \in K8sSecrets /\ sec[t].expires \in 0 .. Term
           /\ sec[t].lease \in Leases \cup {None}
  BY DEF TypeOK, VaultTypeOK, ApiTypeOK, K8sSecrets
<1>2. CASE Tick
  <2> SUFFICES ASSUME NEW t \in Secrets, sec'[t] # None, sec'[t].lease # None
               PROVE  sec'[t].expires <= life'[sec'[t].lease]
    BY DEF ExpiryIsHonest
  <2>1. sec[t] \in K8sSecrets \cup {None} /\ sec'[t] = Older(sec[t])
    BY <1>2 DEF Tick, TypeOK, ApiTypeOK
  <2>2. /\ sec[t] # None /\ sec'[t].lease = sec[t].lease
        /\ sec'[t].expires = IF sec[t].expires > 0 THEN sec[t].expires - 1 ELSE 0
    BY <2>1, OlderSecret
  <2>3. sec[t].lease \in Leases /\ sec[t].expires <= life[sec[t].lease]
    BY <1>0, <1>1, <2>2
  <2>4. life'[sec[t].lease] = IF life[sec[t].lease] > 0 THEN life[sec[t].lease] - 1 ELSE 0
    BY <1>2, <2>3 DEF Tick
  <2> QED
    BY <1>1, <2>2, <2>3, <2>4, ConstantTypes
\* The Secrets stay, and no lease ends earlier.
<1>3. ASSUME UNCHANGED sec,
             \A l \in Leases : life'[l] \in 0 .. Term /\ life'[l] >= life[l]
      PROVE  ExpiryIsHonest'
  <2> SUFFICES ASSUME NEW t \in Secrets, sec[t] # None, sec[t].lease # None
               PROVE  sec[t].expires <= life'[sec[t].lease]
    BY <1>3 DEF ExpiryIsHonest
  <2>1. /\ sec[t].lease \in Leases /\ sec[t].expires <= life[sec[t].lease]
        /\ sec[t].expires \in 0 .. Term
    BY <1>0, <1>1
  <2>2. life[sec[t].lease] \in 0 .. Term
    BY <1>1, <2>1
  <2> QED
    BY <1>3, <2>1, <2>2, ConstantTypes
\* One Secret is written or goes, and the leases stay.
<1>4. ASSUME NEW t \in Secrets, UNCHANGED life,
             \A u \in Secrets \ {t} : sec'[u] = sec[u],
             sec'[t] # None /\ sec'[t].lease # None => sec'[t].expires <= life[sec'[t].lease]
      PROVE  ExpiryIsHonest'
  BY <1>0, <1>4 DEF ExpiryIsHonest
<1>5. ASSUME NEW t \in Secrets, Tamper(t) \/ Plant(t) PROVE ExpiryIsHonest'
  <2>1. UNCHANGED life /\ \A u \in Secrets \ {t} : sec'[u] = sec[u]
    BY <1>5 DEF Tamper, Plant, TypeOK, ApiTypeOK, vault
  <2>2. sec'[t] = None \/ sec'[t].lease = None
    BY <1>5 DEF Tamper, Plant, TypeOK, ApiTypeOK
  <2> QED
    BY <1>4, <2>1, <2>2
<1>6. CASE Deleting \/ Saving \/ Upserting
  <2>1. pc # "idle" /\ UNCHANGED life
    BY <1>6 DEF Deleting, Saving, Upserting, vault
  <2>2. secretName \in Secrets
    BY <2>1, Inside
  <2>3. \A u \in Secrets \ {secretName} : sec'[u] = sec[u]
    BY <1>6, <2>2 DEF Deleting, Saving, Upserting, TypeOK, ApiTypeOK
  <2>4. CASE Deleting
    <3>1. sec'[secretName] = None
      BY <2>2, <2>4 DEF Deleting, TypeOK, ApiTypeOK
    <3> QED
      BY <1>4, <2>1, <2>2, <2>3, <3>1
  <2>5. CASE Saving
    <3>1. sec'[secretName] = seen /\ pc \in {"save", "force"}
      BY <2>2, <2>5 DEF Saving, TypeOK, ApiTypeOK
    <3>2. seen.expires \in 0 .. Term /\ life[seen.lease] = Term
      BY <1>0, <3>1, Renewable DEF K8sSecrets
    <3>3. seen.expires <= life[seen.lease]
      BY <3>2, ConstantTypes
    <3> QED
      BY <1>4, <2>1, <2>2, <2>3, <3>1, <3>3
  <2>6. CASE Upserting
    <3>1. PICK s \in K8sSecrets : /\ sec' = [sec EXCEPT ![secretName] = s]
                                  /\ s.lease = cred /\ s.expires = Term
      BY <2>6, UpsertWrites
    <3>2. sec'[secretName] = s
      BY <2>2, <3>1 DEF TypeOK, ApiTypeOK
    <3>3. life[cred] = Term
      BY <1>0, <2>6 DEF Upserting
    <3>4. s.expires <= life[s.lease]
      BY <3>1, <3>3, ConstantTypes
    <3> QED
      BY <1>4, <2>1, <2>2, <2>3, <3>2, <3>4
  <2> QED
    BY <1>6, <2>4, <2>5, <2>6
<1>7. CASE UNCHANGED sec /\ ~Tick
  <2>1. CASE Renewing \/ \E l \in Leases : Granting(l)
    BY <1>3, <1>7, <2>1, Prolonged
  <2>2. CASE UNCHANGED life
    <3>1. \A l \in Leases : life'[l] \in 0 .. Term /\ life'[l] >= life[l]
      BY <1>1, <2>2, ConstantTypes
    <3> QED
      BY <1>3, <1>7, <3>1
  <2>3. \A l \in Leases : ~Revoke(l)
    BY DEF Revoke, Generous
  <2> QED
    BY <1>7, <2>1, <2>2, <2>3, LifeWriters
<1> QED
  BY <1>2, <1>5, <1>6, <1>7, SecretWriters

\* What the worker is about to write lasts the full term.
LEMMA PendingStep ==
    ASSUME TypeOK, Generous, ExpiryInv, [Next]_vars
    PROVE  /\ pc' \in {"save", "force"} => life'[seen'.lease] = Term
           /\ pc' = "upsert" => life'[cred'] = Term
<1> DEFINE Pending == /\ pc \in {"save", "force"} => life[seen.lease] = Term
                      /\ pc = "upsert" => life[cred] = Term
<1> SUFFICES Pending'
  OBVIOUS
<1>0. Pending
  BY DEF ExpiryInv
<1>1. CASE UNCHANGED <<pc, seen, cred, life>>
  BY <1>0, <1>1
<1>2. CASE pc' \notin {"save", "force", "upsert"}
  BY <1>2
<1>3. Environment => UNCHANGED <<pc, seen, cred, life>>
  BY DEF Environment, Apply, Delete, Tamper, Plant, Revoke, Generous, vault
<1>4. Plumbing => UNCHANGED <<pc, seen, cred, life>> \/ pc' \notin {"save", "force", "upsert"}
  BY DEF Plumbing, DeliverDb, Due, DeliverSecret, Tick, worker, vault
<1>5. ASSUME NEW n \in Names, PickIgnored(n) \/ ReadError(n) \/ PickLive(n) \/ PickDeleting(n)
      PROVE pc' \notin {"save", "force", "upsert"}
  BY <1>5 DEF PickIgnored, ReadError, PickLive, PickDeleting, Pick, Start, FirstStep, worker
<1>6. CASE RenewLease
  <2>1. pc = "renew" /\ pc' = "save" /\ Renewing /\ seen' = [seen EXCEPT !.expires = Term]
    BY <1>6 DEF RenewLease, Renewing
  <2>2. seen'.lease = seen.lease
    BY <2>1, Renewable, SecretEdits
  <2> QED
    BY <2>1, <2>2, Prolonged
<1>7. CASE RequestCredentials
  <2>1. PICK l \in Leases : Granting(l) /\ cred' = l
    BY <1>7 DEF RequestCredentials
  <2>2. pc' = "upsert"
    BY <1>7 DEF RequestCredentials
  <2> QED
    BY <2>1, <2>2, Prolonged
<1>8. ASSUME pc = "save", pc' = "force", seen' = [seen EXCEPT !.force = TRUE], UNCHANGED life
      PROVE Pending'
  <2>1. seen'.lease = seen.lease
    BY <1>8, Renewable, SecretEdits
  <2> QED
    BY <1>0, <1>8, <2>1
<1>9. SaveError => pc = "save" /\ pc' = "force" /\ seen' = [seen EXCEPT !.force = TRUE]
                   /\ UNCHANGED life
  BY DEF SaveError, vault
<1>10. AnswerLost => \/ pc' = "idle"
                     \/ pc = "save" /\ pc' = "force" /\ seen' = [seen EXCEPT !.force = TRUE]
                        /\ UNCHANGED life
  BY DEF AnswerLost, Idle, Saving, vault
<1>11. Progress => RenewLease \/ RequestCredentials \/ pc' \notin {"save", "force", "upsert"}
  BY DEF Progress, AddFinalizer, DeleteSecret, RemoveFinalizer, UpToDate, ChooseRenewal,
     ChooseRequest, SaveRenewal, UpsertSecret, Done, Rollout, Finish, Idle, Goto
<1>12. Errors => SaveError \/ AnswerLost \/ pc' \notin {"save", "force", "upsert"}
  BY DEF Errors, ApiError, ForceError, VaultError, UpsertError, RolloutError, RolloutPanic,
     Finish, Idle
<1>13. Crash => pc' = "idle"
  BY DEF Crash, Idle
<1> QED
  BY <1>1, <1>2, <1>3, <1>4, <1>5, <1>6, <1>7, <1>8, <1>9, <1>10, <1>11, <1>12, <1>13
     DEF Next, Reconcile, vars

LEMMA ExpiryInit == Init => ExpiryInv
BY DEF Init, ExpiryInv, ExpiryIsHonest

\* As long as Vault grants the term it is asked for and revokes nothing, what
\* expires-on says of credentials is never later than their lease ends, however
\* many writes of renewals are refused, lost, or cut short by a crash.
THEOREM ExpiryCorrect == ASSUME Generous PROVE Spec => []ExpiryIsHonest
<1>1. Init => ExpiryInv
  BY ExpiryInit
<1>2. TypeOK /\ ExpiryInv /\ [Next]_vars => ExpiryInv'
  BY HonestStep, PendingStep DEF ExpiryInv
<1>3. ExpiryInv => ExpiryIsHonest
  BY DEF ExpiryInv
<1> QED
  BY <1>1, <1>2, <1>3, TypeCorrect, PTL DEF Spec
-----------------------------------------------------------------------------
(* What the worker goes by *)

LEMMA TypeNow ==
    ASSUME TypeOK
    PROVE  /\ sec \in [Secrets -> K8sSecrets \cup {None}]
           /\ sc \in [Secrets -> K8sSecrets \cup {None}]
           /\ scIs \in [Secrets -> Copies]
           /\ seen \in K8sSecrets \cup {None}
           /\ life \in [Leases -> 0 .. Term] /\ role \in [Leases -> Roles]
           /\ pc = "idle" => cur = None
BY DEF TypeOK, ApiTypeOK, CacheTypeOK, WorkerTypeOK, VaultTypeOK

Looking == {"claim", "check", "renew", "save", "force", "request", "upsert"}

\* A step that leaves the worker's copies alone; somebody may have written the
\* Secret meanwhile.
Unread ==
    /\ pc \in Looking /\ UNCHANGED <<cur, seen>>
    /\ pc' = pc \/ (pc = "claim" /\ pc' = "check") \/ (pc = "request" /\ pc' = "upsert")
    /\ pc # "claim" => UNCHANGED obj
    /\ UNCHANGED seenIs \/ \E t \in Secrets : Tamper(t) \/ Plant(t)

\* What a step does to the worker's copy of the Secret while it needs it.
LEMMA SeenWriters ==
    ASSUME [Next]_vars, pc' \in Looking
    PROVE  \/ \E n \in Names : PickLive(n)
           \/ ChooseRenewal \/ ChooseRequest \/ RenewLease \/ SaveError
           \/ Saving /\ seen' = [seen EXCEPT !.force = TRUE] /\ pc' = "force" /\ pc = "save"
           \/ Unread
<1>1. /\ UNCHANGED <<pc, cur, seen, obj>>
      /\ UNCHANGED seenIs \/ \E t \in Secrets : Tamper(t) \/ Plant(t)
      => Unread
  BY DEF Unread
<1>2. Environment \/ Plumbing \/ Crash \/ UNCHANGED vars => Unread
  BY <1>1 DEF Environment, Apply, Delete, Tamper, Plant, Revoke, Plumbing, DeliverDb,
     DeliverSecret, Due, Tick, Crash, Idle, worker, vars, Looking
<1>3. ASSUME NEW n \in Names, PickIgnored(n) \/ ReadError(n) \/ PickDeleting(n) PROVE Unread
  BY <1>1, <1>3 DEF PickIgnored, ReadError, PickDeleting, Start, worker, Looking
<1>4. Progress => ChooseRenewal \/ ChooseRequest \/ RenewLease \/ Unread
  BY <1>1 DEF Progress, AddFinalizer, Claiming, DeleteSecret, Goto, RemoveFinalizer, UpToDate,
     SaveRenewal, Granting, RequestCredentials, UpsertSecret, Done, Rollout, Finish, Idle, Looking, Unread
<1>5. Errors => \/ SaveError \/ Unread
                \/ Saving /\ seen' = [seen EXCEPT !.force = TRUE] /\ pc' = "force" /\ pc = "save"
  BY <1>1 DEF Errors, ApiError, ForceError, VaultError, UpsertError, AnswerLost, RolloutError,
     RolloutPanic, Finish, Idle, Looking, Unread
<1> QED
  BY <1>2, <1>3, <1>4, <1>5 DEF Next, Reconcile

-----------------------------------------------------------------------------
(* The values in a Secret *)

\* What renewals, time and pruning do to a Secret brings no other login into it.
LEMMA FreshEdits ==
    ASSUME NEW s \in K8sSecrets, Fresh(s)
    PROVE  /\ Fresh(Older(s))
           /\ Fresh([s EXCEPT !.expires = Term]) /\ Fresh([s EXCEPT !.force = TRUE])
           /\ \A d \in Defs : Fresh(Pruned(d, s))
<1> DEFINE Same(u) == u.data = s.data /\ u.lease = s.lease /\ u.hash = s.hash /\ u.owner = s.owner
<1>1. ASSUME NEW u, Same(u) PROVE Fresh(u)
  <2>1. s # None
    BY ConstantTypes
  <2> QED
    BY <1>1, <2>1 DEF Fresh
<1>2. /\ \A x : Same([s EXCEPT !.expires = x])
      /\ Same([s EXCEPT !.force = TRUE])
  BY DEF K8sSecrets
<1> HIDE DEF Same
<1>3. Fresh(Older(s))
  BY <1>1, <1>2 DEF Older
<1>4. ASSUME NEW d \in Defs PROVE Fresh(Pruned(d, s))
  <2>1. CASE d.tmpl = {}
    <3> DEFINE data == [k \in Keys |-> IF k = Login THEN s.data[k] ELSE None]
    <3> DEFINE u == [s EXCEPT !.data = data]
    <3>1. u.data = data /\ u.lease = s.lease /\ u.hash = s.hash /\ u.owner = s.owner
      BY DEF K8sSecrets
    <3>2. \A k \in Keys : data[k] \in {None, s.data[k]}
      OBVIOUS
    <3>3. Pruned(d, s) = u
      BY <2>1 DEF Pruned
    <3> HIDE DEF data, u
    <3>4. Fresh(u)
      BY <3>1, <3>2, ConstantTypes DEF Fresh
    <3> QED
      BY <3>3, <3>4
  <2>2. CASE d.tmpl # {}
    BY <2>2 DEF Pruned
  <2> QED
    BY <2>1, <2>2
<1> QED
  BY <1>1, <1>2, <1>3, <1>4

\* What new credentials are merged into, or put in the place of, has no other
\* login, unless the template fails.
LEMMA IssuedFresh ==
    ASSUME TypeOK, FreshInv, pc = "upsert", NEW out \in Outputs(obj.def)
    PROVE  Fresh(Issued(out))
<1>1. CASE Hash(obj.def) = None
  BY <1>1 DEF Fresh, Issued
<1>2. CASE Hash(obj.def) # None
  <2>1. out = obj.def.tmpl
    BY <1>2 DEF Hash, Outputs
  <2>2. out = {} /\ seen # None => \A k \in Keys \ {Login} : seen.data[k] = None
    BY <2>1 DEF FreshInv
  <2>3. \A k \in Keys : NewData(out)[k] \in {None, cred}
    BY <2>2 DEF NewData
  <2> QED
    BY <2>3 DEF Fresh, Issued
<1> QED
  BY <1>1, <1>2

LEMMA FreshStep ==
    ASSUME TypeOK, FreshInv, [Next]_vars, NEW t \in Secrets
    PROVE  Fresh(sec[t])' /\ Fresh(sc[t])'
<1>0. Fresh(sec[t]) /\ Fresh(sc[t]) /\ Fresh(None)
  BY DEF FreshInv, NoStaleLogin, Fresh
<1>1. ASSUME NEW u \in Secrets, Tamper(u) \/ Plant(u) PROVE Fresh(sec[t])' /\ Fresh(sc[t])'
  <2>1. UNCHANGED sc /\ (sec'[t] = sec[t] \/ sec'[t] = None \/ sec'[t].owner = None)
    BY <1>1, TypeNow DEF Tamper, Plant
  <2> QED
    BY <1>0, <2>1 DEF Fresh
<1>2. ASSUME NEW u \in Secrets, DeliverSecret(u) PROVE Fresh(sec[t])' /\ Fresh(sc[t])'
  <2>1. UNCHANGED sec /\ sc'[t] \in {sc[t], sec[t]}
    BY <1>2, TypeNow DEF DeliverSecret, api
  <2> QED
    BY <1>0, <2>1 DEF Fresh
<1>3. CASE Tick
  <2>1. sec'[t] = Older(sec[t]) /\ sc'[t] = Older(sc[t])
    BY <1>3 DEF Tick
  <2>2. Fresh(Older(sec[t])) /\ Fresh(Older(sc[t]))
    BY <1>0, FreshEdits, TypeNow DEF Older
  <2> QED
    BY <2>1, <2>2 DEF Fresh
<1>4. CASE Crash
  BY <1>0, <1>4 DEF Crash, api, Fresh
<1>5. CASE Deleting
  <2>1. UNCHANGED sc /\ sec'[t] \in {sec[t], None}
    BY <1>5, TypeNow DEF Deleting
  <2> QED
    BY <1>0, <2>1 DEF Fresh
<1>6. CASE Saving
  <2>1. UNCHANGED sc /\ sec'[t] \in {sec[t], seen} /\ Fresh(seen)
    BY <1>6, TypeNow DEF Saving, FreshInv
  <2> QED
    BY <1>0, <2>1 DEF Fresh
<1>7. CASE Upserting
  <2>1. PICK out \in Outputs(obj.def) : sec' = [sec EXCEPT ![secretName] = Issued(out)]
    BY <1>7 DEF Upserting
  <2>2. Fresh(Issued(out))
    BY <1>7, IssuedFresh DEF Upserting
  <2>3. UNCHANGED sc /\ sec'[t] \in {sec[t], Issued(out)}
    BY <1>7, <2>1, TypeNow DEF Upserting
  <2> QED
    BY <1>0, <2>2, <2>3 DEF Fresh
<1>8. CASE UNCHANGED <<sec, sc>>
  BY <1>0, <1>8 DEF Fresh
<1> QED
  BY <1>1, <1>2, <1>3, <1>4, <1>5, <1>6, <1>7, <1>8, SecretCopies

\* The copy that the worker will write back, or merge new credentials into.
LEMMA MergeStep ==
    ASSUME TypeOK, FreshInv, [Next]_vars, pc' \in Looking
    PROVE  /\ Fresh(seen)'
           /\ pc' \in {"request", "upsert"} /\ obj'.def.tmpl = {} /\ seen' # None =>
                \A k \in Keys \ {Login} : seen'.data[k] = None
<1>1. ASSUME NEW n \in Names, PickLive(n) PROVE Fresh(seen)' /\ pc' \notin {"request", "upsert"}
  <2>1. seen' = sc[Target[n]] /\ Target[n] \in Secrets /\ pc' \in {"claim", "check"}
    BY <1>1, ConstantTypes DEF PickLive, Start, FirstStep
  <2> QED
    BY <2>1 DEF FreshInv, Fresh
<1>2. CASE ChooseRenewal \/ RenewLease \/ SaveError
           \/ (Saving /\ seen' = [seen EXCEPT !.force = TRUE] /\ pc' = "force" /\ pc = "save")
  <2>1. pc \in Looking /\ pc # "idle" /\ seen # None /\ seen \in K8sSecrets /\ Fresh(seen)
    BY <1>2, Renewable, TypeNow DEF ChooseRenewal, RenewLease, Renewing, SaveError, FreshInv, Looking
  <2>2. \/ seen' = Pruned(obj.def, seen)
        \/ seen' = [seen EXCEPT !.expires = Term]
        \/ seen' = [seen EXCEPT !.force = TRUE]
    BY <1>2 DEF ChooseRenewal, RenewLease, SaveError
  <2>3. obj.def \in Defs /\ pc' \notin {"request", "upsert"}
    BY <1>2, <2>1, Inside DEF ChooseRenewal, RenewLease, SaveError
  <2>4. /\ Fresh(Pruned(obj.def, seen))
        /\ Fresh([seen EXCEPT !.expires = Term])
        /\ Fresh([seen EXCEPT !.force = TRUE])
    BY <2>1, <2>3, FreshEdits
  <2> QED
    BY <2>2, <2>3, <2>4 DEF Fresh
<1>3. CASE ChooseRequest
  <2>1. pc = "check" /\ Fresh(seen) /\ UNCHANGED obj /\ obj.def \in Defs
    BY <1>3, Inside DEF ChooseRequest, FreshInv
  <2>2. CASE seen = None
    BY <1>3, <2>2 DEF ChooseRequest, Fresh
  <2>3. CASE seen # None
    <3>1. seen \in K8sSecrets /\ seen' = Pruned(obj.def, seen)
      BY <1>3, <2>3, TypeNow DEF ChooseRequest
    <3>2. Fresh(Pruned(obj.def, seen))
      BY <2>1, <3>1, FreshEdits
    <3>3. obj.def.tmpl = {} => \A k \in Keys \ {Login} : Pruned(obj.def, seen).data[k] = None
      BY <3>1 DEF Pruned, K8sSecrets
    <3> QED
      BY <2>1, <3>1, <3>2, <3>3 DEF Fresh
  <2> QED
    BY <2>2, <2>3
<1>4. CASE Unread
  <2>1. pc \in Looking /\ UNCHANGED seen
    BY <1>4 DEF Unread
  <2>2. pc' \in {"request", "upsert"} => pc \in {"request", "upsert"} /\ UNCHANGED obj
    BY <1>4 DEF Unread
  <2> QED
    BY <2>1, <2>2 DEF FreshInv, Fresh, Looking
<1> QED
  BY <1>1, <1>2, <1>3, <1>4, SeenWriters

\* No Secret of the operator's keeps a value of a lease it no longer names, whatever
\* templates came and went, whichever copies were stale and whichever writes failed
\* (lines 172-179, 327-345), unless a template fails: neither a renewal, which
\* writes the pruned copy back, nor new credentials, which are merged into it.
THEOREM NoStaleCredentials == Spec => []NoStaleLogin
<1>1. Init => FreshInv
  BY DEF Init, FreshInv, NoStaleLogin, Fresh
<1>2. TypeOK /\ FreshInv /\ [Next]_vars => FreshInv'
  BY FreshStep, MergeStep DEF FreshInv, NoStaleLogin, Looking
<1>3. FreshInv => NoStaleLogin
  BY DEF FreshInv
<1> QED
  BY <1>1, <1>2, <1>3, TypeCorrect, PTL DEF Spec
-----------------------------------------------------------------------------
(* Credentials that are replaced *)

\* A lookup that fails makes the controller take a good lease for a bad one.
LookupsAnswer == "lookup" \notin Faults

Deciding == {"claim", "check", "request", "upsert"}

LEMMA PrunedAlike ==
    ASSUME NEW s \in K8sSecrets, NEW d \in Defs
    PROVE  /\ Pruned(d, s).lease = s.lease /\ Pruned(d, s).hash = s.hash
           /\ Pruned(d, s).expires = s.expires /\ Pruned(d, s) \in K8sSecrets
<1>1. Pruned(d, s).hash = s.hash /\ Pruned(d, s).expires = s.expires
  BY DEF Pruned, K8sSecrets
<1> QED
  BY <1>1, SecretEdits

\* While the worker decides, a copy that stays current is of a Secret that stays.
LEMMA Untouched ==
    ASSUME TypeOK, [Next]_vars, pc' \in Deciding, seenIs' = "same",
           ChooseRequest \/ Unread
    PROVE  seenIs = "same" /\ sec'[secretName] = sec[secretName] /\ pc \in Deciding
<1>1. pc \in Deciding /\ pc # "idle"
  BY DEF ChooseRequest, Unread, Deciding, Looking
<1>2. secretName \in Secrets /\ cur # None
  BY <1>1, Inside
<1>3. ASSUME NEW t \in Secrets, Tamper(t) \/ Plant(t)
      PROVE  seenIs = "same" /\ sec'[secretName] = sec[secretName]
  <2>1. Relate(t, "other") /\ \A u \in Secrets \ {t} : sec'[u] = sec[u]
    BY <1>3, TypeNow DEF Tamper, Plant
  <2>2. t # secretName /\ seenIs = "same"
    BY <1>2, <2>1 DEF Relate
  <2> QED
    BY <1>2, <2>1, <2>2
<1>4. ~Tick /\ ~Deleting /\ ~Saving
  BY <1>1 DEF Tick, Deleting, Saving, Deciding
<1>5. ~(Upserting /\ pc' # pc)
  BY DEF Upserting, ChooseRequest, Unread
<1>6. UNCHANGED seenIs \/ \E t \in Secrets : Tamper(t) \/ Plant(t)
  BY DEF ChooseRequest, Unread
<1> QED
  BY <1>1, <1>3, <1>4, <1>5, <1>6, SecretWriters

LEMMA AlikeStep ==
    ASSUME TypeOK, LifeInv, StayInv, [Next]_vars, pc' \in Deciding, seenIs' = "same"
    PROVE  Alike(seen, sec[secretName])'
<1>1. ASSUME NEW n \in Names, PickLive(n) PROVE Alike(seen, sec[secretName])'
  <2>1. /\ cur' = n /\ Target[n] \in Secrets /\ UNCHANGED sec
        /\ seen' = sc[Target[n]] /\ scIs[Target[n]] = "same"
    BY <1>1, ConstantTypes DEF PickLive, Pick, Start, Keep
  <2>2. seen' = sec'[Target[n]]
    BY <2>1 DEF LifeInv, SameCopies
  <2> QED
    BY <2>1, <2>2 DEF Alike, secretName
<1>2. CASE ChooseRequest \/ Unread
  <2>1. seenIs = "same" /\ sec'[secretName] = sec[secretName] /\ pc \in Deciding
    BY <1>2, Untouched
  <2>2. Alike(seen, sec[secretName])
    BY <2>1 DEF StayInv, Deciding
  <2>3. UNCHANGED cur /\ secretName' = secretName
    BY <1>2 DEF ChooseRequest, Unread, secretName
  <2>4. CASE ChooseRequest
    <3>1. obj.def \in Defs
      BY <2>4, Inside DEF ChooseRequest
    <3>2. CASE seen = None
      BY <2>1, <2>2, <2>3, <2>4, <3>2 DEF ChooseRequest, Alike
    <3>3. CASE seen # None
      <4>1. seen \in K8sSecrets /\ seen' = Pruned(obj.def, seen)
        BY <2>4, <3>3, TypeNow DEF ChooseRequest
      <4>2. /\ seen'.lease = seen.lease /\ seen'.hash = seen.hash
            /\ seen'.expires = seen.expires /\ seen' # None
        BY <3>1, <4>1, PrunedAlike, ConstantTypes
      <4> QED
        BY <2>1, <2>2, <2>3, <3>3, <4>2 DEF Alike
    <3> QED
      BY <3>2, <3>3
  <2>5. CASE Unread
    BY <2>1, <2>2, <2>3, <2>5 DEF Unread, Alike
  <2> QED
    BY <1>2, <2>4, <2>5
<1>3. ~ChooseRenewal /\ ~RenewLease /\ ~SaveError
  BY DEF ChooseRenewal, RenewLease, SaveError, Deciding
<1> QED
  BY <1>1, <1>2, <1>3, SeenWriters DEF Deciding, Looking

\* The role of a lease changes when Vault grants it anew.
LEMMA RoleWriters ==
    ASSUME [Next]_vars PROVE UNCHANGED role \/ \E l \in Leases : Granting(l)
<1>1. Environment \/ Plumbing \/ Crash \/ UNCHANGED vars => UNCHANGED role
  BY DEF Environment, Apply, Delete, Tamper, Plant, Revoke, Plumbing, DeliverDb,
     DeliverSecret, Due, Tick, Crash, vault, vars
<1>2. ASSUME NEW n \in Names, PickIgnored(n) \/ ReadError(n) \/ PickLive(n) \/ PickDeleting(n)
      PROVE UNCHANGED role
  BY <1>2 DEF PickIgnored, ReadError, PickLive, PickDeleting, Pick, vault
<1>3. Progress => UNCHANGED role \/ \E l \in Leases : Granting(l)
  BY DEF Progress, AddFinalizer, Claiming, DeleteSecret, Deleting, RemoveFinalizer,
     Releasing, UpToDate, ChooseRenewal, ChooseRequest, RenewLease, Renewing, SaveRenewal,
     Saving, RequestCredentials, UpsertSecret, Upserting, Done, Rollout, vault
<1>4. Errors => UNCHANGED role \/ \E l \in Leases : Granting(l)
  BY DEF Errors, ApiError, SaveError, ForceError, VaultError, UpsertError, AnswerLost,
     Claiming, Deleting, Releasing, Renewing, Saving, Upserting, RolloutError, RolloutPanic,
     vault
<1> QED
  BY <1>1, <1>2, <1>3, <1>4 DEF Next, Reconcile

\* A lease that is not valid does not become so while the worker knows of it.
LEMMA InvalidStays ==
    ASSUME TypeOK, [Next]_vars, pc # "renew", seen # None, UNCHANGED <<obj, seen>>,
           isLeaseValid(obj.def, seen)'
    PROVE  isLeaseValid(obj.def, seen)
<1>1. seen.lease \in Leases
  BY TypeNow DEF isLeaseValid, K8sSecrets
<1>2. life'[seen.lease] > 0 /\ role'[seen.lease] = obj.def.role /\ seen.lease # None
  BY DEF isLeaseValid
<1>3. ASSUME NEW l \in Leases, Granting(l)
      PROVE  life'[seen.lease] = life[seen.lease] /\ role'[seen.lease] = role[seen.lease]
  <2>1. l \in Free
    BY <1>3 DEF Granting
  <2>2. l # seen.lease
    BY <2>1 DEF Free, Mentions
  <2> QED
    BY <1>1, <1>3, <2>2, TypeNow DEF Granting
<1>4. CASE Tick \/ \E l \in Leases : Revoke(l)
  <2>1. UNCHANGED role
    BY <1>4 DEF Tick, Revoke
  <2>2. life[seen.lease] > 0
    BY <1>1, <1>2, <1>4, TypeNow, ConstantTypes DEF Tick, Revoke
  <2> QED
    BY <1>2, <2>1, <2>2 DEF isLeaseValid
<1>5. ~Renewing
  BY DEF Renewing
<1>6. CASE UNCHANGED <<life, role>>
  BY <1>2, <1>6 DEF isLeaseValid
<1> QED
  BY <1>2, <1>3, <1>4, <1>5, <1>6, LifeWriters, RoleWriters DEF isLeaseValid

LEMMA ReasonStep ==
    ASSUME TypeOK, LookupsAnswer, StayInv, [Next]_vars,
           pc' \in {"request", "upsert"}, seen' # None
    PROVE  shouldUpdate(isLeaseValid(obj.def, seen))'
<1>1. CASE ChooseRequest
  <2>1. seen # None /\ seen \in K8sSecrets /\ seen' = Pruned(obj.def, seen) /\ obj.def \in Defs
    BY <1>1, TypeNow, Inside DEF ChooseRequest
  <2>2. shouldUpdate(isLeaseValid(obj.def, seen))
    BY <1>1, <2>1 DEF ChooseRequest, Lookups, LookupsAnswer
  <2>3. /\ seen'.lease = seen.lease /\ seen'.hash = seen.hash /\ seen'.expires = seen.expires
        /\ UNCHANGED <<obj, life, role>>
    BY <1>1, <2>1, PrunedAlike DEF ChooseRequest, vault
  <2> QED
    BY <2>2, <2>3 DEF shouldUpdate, isLeaseValid, Expiring, TemplateChanged
<1>2. CASE Unread
  <2>1. pc \in {"request", "upsert"} /\ UNCHANGED <<obj, seen>>
    BY <1>2 DEF Unread
  <2>2. shouldUpdate(isLeaseValid(obj.def, seen))
    BY <2>1 DEF StayInv
  <2>3. isLeaseValid(obj.def, seen)' => isLeaseValid(obj.def, seen)
    BY <2>1, InvalidStays
  <2> QED
    BY <2>1, <2>2, <2>3 DEF shouldUpdate, Expiring
<1>3. /\ ~ChooseRenewal /\ ~RenewLease /\ ~SaveError
      /\ \A n \in Names : ~PickLive(n)
  BY DEF ChooseRenewal, RenewLease, SaveError, PickLive, Start, FirstStep
<1> QED
  BY <1>1, <1>2, <1>3, SeenWriters DEF Looking

\* Live credentials, of the right role and template and not about to end, are not
\* replaced unless the worker's copy of the Secret is old (lines 140-165, 238-270),
\* as long as Vault answers when the lease is looked up.
THEOREM CredentialsAreKept == ASSUME LookupsAnswer PROVE Spec => CredentialsStay
<1>1. Init => StayInv
  BY DEF Init, StayInv
<1>2. TypeOK /\ LifeInv /\ StayInv /\ [Next]_vars => StayInv'
  BY AlikeStep, ReasonStep DEF StayInv, Deciding
<1>3. ASSUME TypeOK, StayInv, NEW t \in Secrets, pc = "upsert", t = secretName,
             sec[t] # None, seenIs = "same", ~TemplateChanged(obj.def, sec[t]),
             isLeaseValid(obj.def, sec[t])
      PROVE  Expiring(sec[t])
  <2>1. Alike(seen, sec[t]) /\ seen # None
    BY <1>3 DEF StayInv, Alike
  <2>2. shouldUpdate(isLeaseValid(obj.def, seen))
    BY <1>3, <2>1 DEF StayInv
  <2>3. seen.lease = sec[t].lease /\ seen.hash = sec[t].hash /\ seen.expires = sec[t].expires
    BY <2>1 DEF Alike
  <2> QED
    BY <1>3, <2>2, <2>3 DEF shouldUpdate, isLeaseValid, Expiring, TemplateChanged
<1>4. TypeOK /\ StayInv /\ [Next]_vars =>
        [\A t \in Secrets :
           (pc = "upsert" /\ pc' = "rollout" /\ t = secretName /\ sec[t] # None
              /\ seenIs = "same" /\ ~TemplateChanged(obj.def, sec[t])
              /\ isLeaseValid(obj.def, sec[t]))
           => Expiring(sec[t])]_vars
  BY <1>3
<1> QED
  BY <1>1, <1>2, <1>4, TypeCorrect, LifeCorrect, PTL DEF Spec, CredentialsStay
=============================================================================
