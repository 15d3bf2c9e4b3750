# Formal model of vals-operator

vals-operator is a Kubernetes operator. It reads values from a secrets store
through the `vals` library and writes them to Secrets (`ValsSecret`), it asks
Vault or OpenBao for database credentials and keeps them alive in Secrets
(`DbSecret`), and it restarts the workloads that use either. This directory
holds a TLA+ model of it, the TLC configurations that check the model on small
instances, and proofs of its main safety properties for every instance.

All line numbers below are of files in the repository;
`V` is `controllers/valssecret_controller.go`, `D` is
`controllers/dbsecret_controller.go`.

## 1. The system

| Part | State | Operations | Interacts with | Hard about it | Correct when |
|---|---|---|---|---|---|
| ValsSecret controller (`V`) | `errorCounts` in memory; finalizer on the object; Secret with data, labels, owner, `last-updated` | `Reconcile`: finalizer, deletion, TTL, evaluate, upsert, databases, rollouts; error backoff | API server (writes), informer cache (reads), work queue, secrets store, databases, workloads | stale reads, conflicts, crashes between writes, keys that must be requeued by hand, failures treated differently on each path | no orphaned or stolen Secret, no regression of a value, no forgotten key, Secret converges to the store, pods follow, no restart without a change |
| DbSecret controller (`D`) | annotations on the Secret: lease, `expires-on`, template hash, `force` | `Reconcile`: finalizer, deletion, renew or request, template, upsert, rollouts | the same, and the lease calls of `vault/vault.go` | clock in the Secret against clock in Vault, a renewal and its record are two calls, templates that come and go | `expires-on` never promises too much, live credentials come back, are not replaced without need, are the only ones in the Secret, reach the pods |
| Token goroutine (`vault/vault.go`, `vault_client.go`, `openbao_client.go`) | client token, `VAULT_TOKEN` and others in the environment | `Start`, `tokenRenewer`, `manageTokenLifecycle` | vals reads the environment, the DbSecret controller uses the client, a watcher renews | outages at any moment, two copies of the token, three names of the variable, forwarders left behind by each `RenewCh` | the copies agree, a live token returns, logins do not pile up |
| Map utilities (`utils/utils.go`) | none | `ByteMapsMatch`, `StringMapsMatch`, `MergeMap` | decide whether a Secret is written | equal sizes with different keys, nil maps, ignored keys | comparison is equality, a write settles it |
| Backend factory and clients (`vault/common.go`, both clients' constructors and logins) | none | choose the store, its client and the way to log in from the environment | called by `Start` | two prefixes with a fallback between them, but not everywhere | the user's variables are found, one store is used |
| Database drivers (`db/*`) | none | set a password on the first host that answers | called by `updateDatabases` | partial failure over hosts and databases | the password is set or the error reported, and where not is known |
| Manager (`main.go`) | flags | parses lists of namespaces; wiring, leader election (off by default) | everything | blanks and empty names in lists | the lists mean what the README says |
| Metrics, API types, charts | gauges, declarations | none that decide anything | | | |

Both controllers run one worker each (`MaxConcurrentReconciles` is left at its
default), so that within one controller reconciles do not overlap. What does
overlap with a reconcile is everything else: users, the secrets store, the
informer cache, other objects' deletion, and crashes.

`PROJECT.json` lists, under `hazards`, each place where this code is hard to
test, with the properties that watch it or the reason why none does yet.

## 2. Modules

| Module | Models | Code |
|---|---|---|
| `ValsSecret` | the ValsSecret controller and its environment | `V`, `controllers/common.go`, `apis/.../valssecret_types.go` |
| `ValsRollouts` | the same, with a record of the updates it has let go | V:228-252, V:347-402 |
| `ValsSync` | what that controller promises: claim, publish, withdraw, release | abstract |
| `ValsSecretProofs` | type correctness, `LifeInv` and what follows | |
| `ValsSyncProofs` | `VersionInv`, no regression, no rewrite of a Secret that is right, the refinement of `ValsSync` | |
| `ValsWorkProofs` | no forgotten key, no stolen Secret | |
| `DbSecret` | the DbSecret controller, its environment, and Vault's leases | `D`, lease calls of `vault/vault.go` |
| `DbCredentials` | what that controller promises: leases are granted, published once, extended, withdrawn | abstract |
| `DbSecretProofs` | type correctness, `LifeInv`, that `expires-on` is honest, that no old credentials stay, that live ones are kept | |
| `DbCredentialsProofs` | the refinement of `DbCredentials`, and what follows from it | |
| `VaultToken` | the goroutine that keeps the operator logged in | `vault/vault.go`, `vault_client.go`, `openbao_client.go` |
| `BackendConfig` | which variables choose which store, client and login | `vault/common.go`, the clients' constructors and logins |
| `VaultTokenProofs` | type correctness, one token, one store, logins that succeed, few tokens | |
| `SecretMaps` | comparing and merging maps | `utils/utils.go`, their use in `V` |
| `SecretMapsProofs` | what they compute, for all finite maps | |
| `Backoff` | the delay after repeated failures | V:510-545 |
| `Namespaces` | the lists of namespaces in the flags and what they allow | `main.go`, V:269, V:447-462 |
| `PasswordSync` | the databases of a ValsSecret and the four drivers | V:354-405, `db/*` |
| `LeaseIds` | what is kept of a lease's id and made of it again | D:256-269, D:359-361 |
| `OperatorsProofs` | that the functions of these five have their properties for all inputs | |
| `MC*` | constants for the instances that TLC checks; `MCOperators` runs the functions of the last five | |

A definition whose name has an underscore (`Requeue_Forgotten`) is no part of a
model: it is the mistake of the same name, kept beside the definition it would
replace, and it shows which property would catch it. (The exceptions are the
constants of `BackendConfig` that name an environment variable, as `VAULT_ADDR`.)

### ValsSecret

State and code:

- `vs`, `sec` are the objects in the API server, `vc`, `sc` their copies in the
  informer cache, from which `Reconcile` reads. A copy may be arbitrarily old
  (`DeliverVals`, `DeliverSecret` bring it up to date). resourceVersions are not
  counted: `vcOld` and `objOld` say that a copy of a ValsSecret is not current,
  which is all that an optimistic update depends on; `reborn` says that a Secret
  was deleted and recreated after the copy was taken, so that its UID differs.
- Updates of the Secret carry no resourceVersion (the object is built anew,
  V:290-331), so `UpsertSecret` succeeds on a stale copy unless the UID differs.
- `vsEvt`, `secEvt` are events not yet delivered that pass
  `GenerationChangedPredicate` (V:79): creations, deletions and changes of a
  spec, for owned Secrets only creations and deletions, as Secrets have no
  generation.
- `q` is the work queue: a key is absent, waits for its time, or is ready.
- `pc`, `cur`, `obj`, `data`, `todo` are the locals of a running `Reconcile`,
  `errs` is `errorCounts`.
- `age` is the time since `last-updated`, in ticks; its largest value also
  stands for a missing annotation.

Every step of `Reconcile` that changes something outside it is an action:
`PickIgnored`, `PickLive`, `PickDeleting` (V:82-113), `AddFinalizer`,
`DeleteSecret`, `RemoveFinalizer`, `NotExpired`/`Expired` (V:136-150), `Eval`,
`EvalError`, `UpsertSkip`, `UpsertSecret`, `UpsertError`, `UpdateDatabases`,
`DatabaseError`, `DatabasePanic`, `Rollout`, `RolloutError`, `RolloutPanic`,
`Done`. The effect of each call that writes to the API server is an operator of
its own (`Claiming`, `Deleting`, `Releasing`, `Upserting`): with the answer it is
an action like `AddFinalizer`, without it, `AnswerLost`, in which the server does
what it was asked and the code goes on as after an error. Users create, change, delete
ValsSecrets, and delete, edit or plant Secrets; the operator crashes between
any two steps and lists everything anew.

Data are abstract: a content is the reference and the version of the store it
was read at; labels and annotations are a set of keys, which users edit on the
ValsSecret (`Apply`, without an event that passes the predicate if nothing else
changes: `SameSpec`) and on the Secret (`Tamper`, `Plant`).

`ValsRollouts` adds a history variable, `missed`: the databases and workloads
whose last update the operator has let go, because it failed, because a crash or
a panic came first, or because the write of the Secret was not confirmed. It
takes an entry out when that update succeeds after all. No action reads it; it
lets `PodsCatchUp` and `DatabasesCatchUp` say that nothing else stays behind.

### DbSecret

The same environment. Vault is a set of leases, each with the ticks it has left
and its role. A Secret has under each of its keys (`login`, `details`, or those of a
template) the lease whose credentials the value is made of, and the annotations:
its lease, the hash of the template, the time left to `expires-on`, and the mark
that forces new credentials. A template is a set of keys, some of whose texts
are `Broken`: rendering ends at the first of these, in no fixed order, with what
it has by then (`Outputs`, D:543-558), and there is no hash (`Hash`). An output
replaces the data of the copy, an empty one leaves it and the raw credentials are
merged in (`NewData`, D:338-342). The worker's copy of the Secret is taken
once, at the start (D:94), and `seenIs` says what has become of the original:
the same, changed, or another Secret by the same name. `ChooseRenewal` and
`ChooseRequest` are the two ways out of the decision at D:147-200, both with the
pruning of keys at D:172-179; a renewal is `RenewLease`, then `SaveRenewal` or
`SaveError`, then `SaveRenewal` or `ForceError` (D:292-312). Answers are lost
here too: a lease may be granted or extended without the controller knowing, and
a renewal that was written is followed by a second write which is refused.

Time passes only while no reconcile is running: a reconcile takes seconds, the
grace period is two minutes.

### VaultToken

`Start`, `Login`, `LoginFails`, `SetEnv`, `SetToken`, `Renewed`, `Done`, `Wake`
are the steps of the goroutine; `WatcherRenews` is the client library's watcher,
`Outage` and `Revoke` the store's doing. `env` is the environment of the process,
`client` the client the controllers share: vals reads the first, with the names
it knows, and the client has its own address, token and way to log in. Which
client that is, and whether a login has what it needs, is `BackendConfig`, from
the variables in `given` that the user set; all of `Settings` are initial states.
`stale` counts goroutines that an earlier turn of `manageTokenLifecycle` left
waiting on the renewer's channel (`vault_client.go` line 232): each may take a
renewal that the current turn then never sees (`RenewalLost`).

### Functions

In `SecretMaps` a map is a function with a finite domain; `Written` is what
`upsertSecret` makes of the annotations of a Secret, `AnnotationsDiffer` what
`secretNeedsUpdate` then says of them. `Backoff` has the arithmetic of
`errorBackoff` at a scaled width: durations wrap at `Limit`, and a float that
is out of range, as every power from `Beyond` on is, converts to the least or to
the greatest duration, as the platform has it.
`Namespaces` has flags as sequences of names and blanks, and `MayReference`, the
table of the repository's README, as reference. `PasswordSync` gives each host one
of the things it may do (take the password, refuse, fail after taking it, be
down), each driver its loop over them, and `updateDatabases` the loop over the
databases: `set` and `failed` are the databases that get the password, and those
of which an event says that they did not. `LeaseIds` has an id as the sequence of its parts.

### How they fit together

`ValsSecret` and `DbSecret` share no state: their Secrets, queues and caches are
disjoint unless a user points both at one name, which the owner reference
prevents in the same way as between two ValsSecrets (`Controllable`). What they
take from the modules of functions is one decision or one outcome each:
`secretNeedsUpdate`, in which labels are a set and the data a value, is the
comparison of `SecretMaps`; `Requeue` is a delay of `Backoff`, which is why its
range matters; `Excluded` and the evaluation that fails are `Namespaces`;
`UpdateDatabases`, `DatabaseError` and `DatabasePanic` are the outcomes of
`PasswordSync`, and `isLeaseValid` compares what `LeaseIds` puts together.
`VaultToken` extends `BackendConfig` and shows that both controllers call one
store with one token.

`ValsSync` is composed with `ValsSecret` by the refinement mapping at the end of
that module: claimed are the objects with a finalizer, the holder of a Secret is
its owner, its version that of its content. `DbCredentials` is composed with
`DbSecret` likewise: the lease of a Secret is its annotation, and granted is the
lease that the worker has and has not written. A renewal is `Extend`, and writing
it down is no step: it must leave the Secret's lease and owner as they are, which
it does only because a stale copy is refused.

## 3. What the runs check

| Run | Instance | Shows |
|---|---|---|
| `vals_safe` | two ValsSecrets on one Secret, one definition, a workload and a database; lag, crashes, failing calls of every kind, lost answers, deletions, tampering, planting; 4 disturbances | `TypeOK`, `NoOrphan`, `NoErrorCountLeft`, `LifeInv`, `NeverRegresses`, `NoTakeover`, `ImplementsSync` |
| `vals_live` | two ValsSecrets, each with its Secret, the second's namespace excluded; two definitions with different TTLs; a StatefulSet whose restart panics; 3 disturbances; every failure that the code retries | `NoLostWork`, `Converges`, `DeletionCompletes` |
| `vals_pods` | one ValsSecret, two workloads, one of which makes the rollout panic, a database; data and labels edited by hand; every failure but a refused write, crashes, lost answers; 3 disturbances | `PodsCatchUp`, `DatabasesCatchUp`, `RolloutsCease`, `SettledIsLeftAlone` |
| `db_safe` | two DbSecrets on one Secret; a definition with a template and renewal, one of another role without template, one whose template fails; three leases of two ticks with one tick of grace; every failure but a cut renewal, a revocation and a failing lookup, lost answers; 2 disturbances | `TypeOK`, `NoOrphan`, `ExpiryIsHonest`, `NoStaleLogin`, `CredentialsStay`, `ImplementsCredentials` |
| `db_live` | one DbSecret whose template changes, or whose role does, without renewal; lookups, Vault and finalizer calls that fail, revocations, deletions; leases may live for ever except in `CredentialsReturn`; 2 disturbances | `CredentialsReturn`, `DeletionCompletes`, `PodsCatchUp`, `TemplateApplied` |
| `vault_safe` | four tokens of two ticks; addresses of no, one or both stores, with tokens, AppRoles, Kubernetes roles and users in the variables of either; outages and revocations; 3 disturbances | `TypeOK`, `TokensAgree`, `StoresAgree`, `FewTokens`, `UnmixedLogsIn`, `RenewerServes` |
| `operators` | all pairs of maps over four keys (two of them the ignored annotations) and two values; 24 failures in a row; all lists of one or two items out of names and names with blanks; a database of any kind with up to two hosts before or after an easy one; mounts of up to four parts | `MatchIsEquality`, `MatchIsFair`, `SettlesUnlessStale`, `DelayInRange`, `DelayGrows`, `NamespaceTable`, `FailuresAreReported`, `SomeHostSuffices`, `DatabasesAreIndependent`, `LeaseIdReturns` |

And what a document, comment or message says, and the code does not do (each
run ends with a counterexample; see `findings` in `PROJECT.json`):

| Run | Says | Does |
|---|---|---|
| `vals_stuck` | README.md:351 "kept in sync" | after one failed write of the Secret the key is dropped (V:230): `Converges` fails |
| `vals_labels` | V:313 "Replace all labels and annotations", CHANGELOG.md:48 no rollout without an update | labels are merged: one that is removed stays, and the Secret is rewritten and its workloads restarted every TTL: `RolloutOnlyOnChange` fails |
| `db_wiped` | README.md:367 credentials "where your applications are" | a template that is removed, with renewal: the Secret is written without credentials (D:176): `HasLogin` fails |
| `db_revoke` | D:200 "revoke any possible old ones" | `revokeLease` always returns at once (D:238): `RevokesBeforeRequest` fails |
| `vault_gives_up` | vault.go:112 "Re-attempting login" | one failed login ends the goroutine (vault.go:49): `TokenReturns` fails |

A run leaves out the failures that a finding is about; where a property holds
only without some failure, its hazard in `PROJECT.json` says so. `vals_live` and
`db_live` have no failing write of the Secret, nor a lost answer of one: that is
`vals_stuck`. In `vals_pods` there are crashes, panics and failures between the
write of the Secret and the last restart, after which the code keeps no record
of what is due (V:238): the properties say that what is then left behind is just
what `missed` has, and `missed` is empty as long as none of this happens.

`RolloutsCease` and `SettledIsLeftAlone` are the two halves of "no rollout without
an update". The first is that the rollouts of a ValsSecret come to an end once
users and the store are quiet, unless its Secret has a label or annotation that
the ValsSecret lacks: one put there by hand, or one since removed from the
ValsSecret (`vals_labels`). The code merges such a label into what it writes and
compares exactly (V:313-316, V:407-419), so that it writes the Secret and restarts
the workloads at every TTL. The second is that a Secret which is right, labels
included, is never written.

`TemplateApplied` is about credentials that may stay valid for ever: it does not
assume `TimePasses`, so that only the hash (D:181-186) can make a Secret follow
its template. With renewal the code renews first and the template waits until the
lease is invalid; the property is of definitions without.

Three more disagreements have a hazard but no run of their own. The comment at
V:369 says "don't give up just yet, there may be other databases"; it is of a
login that cannot be read, whereas a database for which the written Secret lacks a
user name or password ends the loop with a log line (V:380-385), and those after
it get neither password nor event: `FailuresAreReported` says which databases
these are. README.md:267 says the variables of one backend fall back to those of the
other; the secret id and the password are read without that fallback
(`vault_client.go` line 116), so that `UnmixedLogsIn` is stated for users who keep
to one backend. A renewal that Vault cuts short is not noticed (D:297), so that
`ExpiryIsHonest` is checked without.

### Bounds

- Objects: two names on one Secret are the smallest instance in which ownership
  matters; a third adds no new kind of conflict, since a step touches one name
  and one Secret. Liveness runs have one active object, as objects that do not
  share a Secret only share the queue.
- `Budget`: edits, deletions, tampering, store changes and crashes. Every
  hazard listed needs at most three; `vals_safe` has four, so that the second
  object can be created, take part and meet a crash. Failing calls, lag and
  time are not counted.
- `MaxTTL = 1` with a default of 0 has both an expired and an unexpired
  Secret, and a definition with and without its own TTL. `MaxErr = 1`: the
  models only ask whether a count is there. In the proofs both are arbitrary.
- `Term = 2`, `Grace = 1`: a lease is fresh, about to end, or over. `Leases` is
  a quota; when all are taken, Vault refuses, which is a failure that occurs.
- `vals_safe` and `vals_pods` have one definition and one TTL: what their
  properties are about is which copy of an object is used and who edited the
  Secret, not what is in it. `vals_pods` has one label, which only a user puts on
  the Secret; `vals_labels` takes it off the ValsSecret. `db_safe` has three
  definitions, as templates that come, go and fail are what can mix the values of
  two leases.
- `Settings` of `vault_safe` are the sets of variables that differ in what the
  code looks at: addresses, and for each way to log in the variables of either
  backend, alone and mixed. `MaxStale = 1`: one forwarder is enough to lose any
  renewal, more lose no others.
- In `Backoff` a second is 4 and durations end at 2048, instead of 10^9 and
  2^63; 24 failures go past the first overflow and past `Beyond`, the count from
  which on the power is out of range.
- Two databases, of two hosts each, have every order of a bad and a good one;
  lists of two items every combination of names and blanks.
- Four tokens are more than `Term \div Nap + 1`, so that `FewTokens` is not
  true for lack of tokens.

The budgets make the models finite and stop, so the runs of fair
specifications show what happens once users are quiet; a quiet system may then
rest, which is why deadlock is not checked.

### Fairness

- `WF` on delivery, `Due` and `Tick` (ValsSecret): informers catch up, delays
  elapse, time passes. In `DbSecret` the clock stops during a reconcile, so that
  `Tick` is not continuously enabled; time passes nevertheless, hence `SF`. It is
  an assumption of `CredentialsReturn` only (`TimePasses`): the other properties
  hold of leases that never end, too.
- `SF` on picking each key: the queue is first in, first out, so that a key that
  is ready again and again is taken; with one worker it is not ready
  continuously in the sense of `WF`.
- `WF` on `Reconcile`: a running reconcile goes on, with success or error.
- `SF` on the calls that the code makes again and again (finalizers, deletion,
  evaluation, the write of the Secret, and in `DbSecret` those of Vault): such a
  call succeeds at last. A call that is not made again gets nothing from it: in
  `vals_stuck` the one write that fails is followed by no second, although `SF`
  is assumed of it.
- `VaultToken`: the goroutine, the watcher and time go on. Nothing is assumed of
  the store, nor of the forwarders left behind.

## 4. What is proved

Proofs hold for every choice of the constants that meets the assumptions
`SecretsAssumption`, `DbAssumption`, `TokenAssumption`, `MapsAssumption`,
`BackoffAssumption` and `SpacesAssumption`: any number of objects, Secrets,
workloads, leases and tokens, any definitions, TTLs, terms, settings, widths and
budgets, and any set of failures. `PowersAssumption` states laws of exponents up
to a bound, of which the provers know nothing. Some properties are false for
some definitions, settings or failures; their theorems name a hypothesis, which
the run of the property meets as well, and which leaves out one way in which the
code fails to do what it should:

| Hypothesis | Theorem | Without it |
|---|---|---|
| `RetriedOnly`: no refused or lost write of a Secret, no planted Secret | `WorkIsNeverLost` | a key is dropped after a failed write (V:230): `vals_stuck` |
| `OwnTargets`: no two ValsSecrets name one Secret | `WorkIsNeverLost` | the second fails to write and is dropped likewise |
| `Generous`: Vault cuts no renewal short and revokes nothing | `ExpiryCorrect` | a cut is not noticed (D:297) |
| `LookupsAnswer`: no lookup of a lease fails | `CredentialsAreKept` | a failed lookup counts as a dead lease |
| `Documented`: the user sets no `OPENBAO_` variable | `TokensCorrect` | vals would read a name that the operator does not set |

Of `ValsSecret` and `ValsSync`:

- `TypeCorrect`: `TypeOK` is inductive; one lemma per action or group of them.
- `LifeCorrect`: `LifeInv`. `NoOrphan` alone is not inductive: that nobody's
  finalizer goes while it owns a Secret needs to know where that Secret is
  (`OwnedAtTarget`), that the worker deleting it has seen to that
  (`WorkerClaims`), that a worker writing a Secret acts for an object that is
  still claimed, although it read that from a stale cache (`CachedClaims`), and
  that a copy that is current really is (`CacheIsCurrent`). The heart of it:
  a finalizer once there is taken away by the worker only, at the end of a
  deletion, and there is one worker; so a live cached copy with a finalizer,
  however old, is of an object that has one now.
  `SecretsHaveOwners` and `ErrorCountsAreCleared` follow.
- `VersionCorrect`: `VersionInv`, content about to be written comes from the
  store, and nobody but the worker puts a version into a Secret after it was
  read. `SecretsNeverRegress` follows.
- `SettledSecretsAreLeft`: a write of a Secret that the cache has right would need
  a difference between it and what was evaluated; `VersionInv` bounds that from
  below by what the Secret has, and the Secret has what the store holds now.
- `ControllerImplementsSync`: from these three invariants, each step of
  `ValsSecret` is a step of `ValsSync` or changes nothing there: adding a
  finalizer is `Claim`, a write `Publish`, deleting the Secret `Withdraw`,
  removing the finalizer `Release` (which needs that nothing is held).
- `HoldersAreClaimed`: the promise of `ValsSync` by itself implies that whoever
  holds a Secret is claimed.
- `WorkIsNeverLost`: `WorkInv` adds to `NoLostWork` why a lagging cache does not
  lose a key: an object that the cache lacks, or has too old a copy of, and a
  Secret that was deleted or replaced since, has its event still to come, and
  that event passes the predicates (V:79).
- `NoSecretIsTaken`: a step that changes an owner is a write of the Secret, which
  `Controllable` guards (V:321); the copy it is guarded by is what the cache has.

Of `DbSecret` and `DbCredentials` (`TypeCorrect` and `LifeCorrect` again are the
base):

- `LifeCorrect`: `LifeInv` of `DbSecret` differs from that of `ValsSecret` as the
  code does. The copy of the Secret is taken at the start of a reconcile (D:94)
  and a renewal writes that copy back, owner and all. Hence `SameCopies`, a copy
  that is marked as current equals the Secret, and `SeenIsKin`, the worker's copy,
  if it is of the present Secret, has its lease and owner. Without these a
  renewal could put back the owner of a Secret that had been replaced.
  `SecretsHaveOwners` follows.
- `ExpiryCorrect`: `ExpiryInv`, both the Secret and the copy that the worker is
  about to save promise no more than the lease has left. It assumes `Generous`:
  Vault grants the term that is asked for and revokes nothing. A renewal that is
  cut short is not noticed by the code, so that without it the statement is false.
- `CredentialsCorrect`: each step of `DbSecret` is a step of `DbCredentials` or
  changes nothing there. Adding a finalizer is `Claim`, an answer to a request
  `Grant` (also one that is lost), the write of new credentials `Publish`,
  deletion and tampering `Withdraw`, removing the finalizer `Release`, a renewal
  `Extend`; a reconcile that ends with credentials in hand is `Lose`. Writing a
  renewal down is no step, which is what `SeenIsKin` is needed for.
- `PromiseKept`: `DbCredentials` by itself implies that no lease is in two
  Secrets, and `NoSharedLease` carries that over to the controller along the
  refinement.
- `NoStaleCredentials`: `FreshInv`. That each value in a Secret is of the lease it
  names must hold of every copy as well, since a renewal writes a copy back and
  new credentials are merged into one; and a copy that is merged into, for lack of
  a template, has been pruned of all but the login, which is overwritten. The
  Secrets of templates that fail are left out: nothing prunes what they merge into.
- `CredentialsAreKept`: `StayInv`, while the worker goes from its decision to the
  write, the reason to request credentials stands: unless its copy is old, the
  Secret is as it was then, and its lease no better.

Of `VaultToken`:

- `TypeCorrect`, with `RoutineInv`: which variables have a value at which step of
  the goroutine; the client is one that the program can build from the settings.
- `TokensCorrect`: `AgreeInv` adds that from the login to the end of the token the
  client has what the goroutine works with. The theorem is of every step but two:
  from the login, which puts the token into the client at once (`vault_client.go`
  line 101), to `SetEnv` the environment has the old one; and with a token in
  `BAO_TOKEN`, vals may get it with the goroutine's first turn only.
- `StoresCorrect`: `Start` alone sets addresses, the client's and the one vals
  reads; `SetEnv` and the renewals write other variables.
- `LoginsSucceed`: `LoginInv`, the goroutine ends only after an outage, as the
  way to log in that the constructors choose has, with the variables of one
  backend only, what it needs.
- `TokensStayFew`: `CountInv`. It counts: those of the tokens alive that the goroutine
  has done with, and that have more ticks left than were left j sleeps ago to a
  new one, are at most j, for every j. It rests on the cardinality of finite sets.

Of the functions:

- `ByteMapsMatchIsEquality`, `WriteSettlesUnlessStale`, `WritingIsIdempotent`:
  for all finite maps, comparing is equality, and a write leaves a difference
  exactly if the Secret had an annotation its ValsSecret has not. The second is
  the cause of the finding `vals_labels`.
- `OperatorsProofs` has each property of the run `operators` for all inputs. Of
  behaviours (maps are edited and written, failures counted): `MatchCorrect`,
  `MatchFair`, `WritesSettle`, `DelaysInRange`, `DelaysGrow`. Of a list of
  namespaces, a list of databases or a mount of any length, where the run has
  two items, two databases of two hosts and four parts:
  `NamespacesAsDocumented`, `FailuresAreKnown`, `OneHostIsEnough`,
  `EachAsIfAlone`, `LeaseIds`.
- `DelaysInRange` needs only that durations are integers: the clamp comes after
  whatever overflowed. `DelaysGrow` needs that rounding and clamping keep the
  order of the powers and that nothing wraps before the bound it states.
- Loops that stop at the first of some hosts or databases are `Through`, which
  takes a minimum; that there is one (`Least`) follows from the library's
  theorem that strict inclusion of finite sets is well-founded.

The proofs are about the effects of calls (`Claiming`, `Upserting`, ...), so that
an answer that is lost needs no argument of its own.

Only model-checked: liveness, which is out of the prover's reach (`Converges`,
`DeletionCompletes`, `PodsCatchUp`, `DatabasesCatchUp`, `RolloutsCease`,
`CredentialsReturn`, `TemplateApplied`, `RenewerServes`). Every invariant and every action property
that a run checks is stated by a theorem, under the hypotheses above.

## 5. What is left out

- `spec.name` of a ValsSecret does not change: `Target` is a constant. With a
  change the old Secret keeps its owner and is not removed; that is garbage
  collection by Kubernetes, not code of this repository.
- Deliveries of several changes of one object are merged into the last, as an
  informer may; the priority among keys of the work queue is not modelled.
- A Secret's `type`, which Kubernetes refuses to change, the encoding of
  values, the text of templates, the choice of a version in references to
  other Secrets. A template that can be rendered with the fake login of the hash
  and not with the real one, or only with it, counts as one that cannot.
- A reference to another Secret (V:151, V:474) is read through the informer cache
  and may be old; the models have one store, which is read as it is.
- Create and Update of a Secret are two calls (V:324-327, D:372-379), one step in
  the models; so are the writes of `OPENBAO_TOKEN` and `VAULT_TOKEN` (vault.go
  lines 53-69), between which vals has the old token still.
- `expires-on` of new credentials is counted from the time after Vault's answer
  (D:364), a moment later than the lease; time stops during a reconcile, so that
  `ExpiryIsHonest` is true up to the length of one.
- Whether events are recorded at all (V:422): `failed` in `PasswordSync` has those
  that are recorded if they are.
- A second replica: leader election is off by default, the chart runs one.
- A call of the secrets store by vals is read-only, so that its answer is lost
  in the same way as it fails; answers of databases and workloads that are lost
  are failures of theirs, as nothing is done about either.
- The user and host of a database are looked up in the Secret with its login
  (V:384), of which the models keep whether it is there; that an elastic URL is
  invalid; what statements are made of.
- The conversions between the clients' types and those of their libraries, and
  the HTTP calls of a login, which succeed or fail.
- `restartedAt` has the resolution of a second (V:581): two restarts in the same
  second are one. The models have a restart for each.
- The flags other than the lists of namespaces and the TTL.
- Metrics, generated code, charts and manifests.

## 6. Plan

The order is that of importance: first what loses or corrupts a Secret, then
what loses credentials, then the rest.

1. `ValsSecret` with `ValsSync`, their runs and proofs. Done.
2. `DbSecret` with its runs. Done.
3. `VaultToken`, `SecretMaps` with their runs, proofs of the latter. Done.
4. `Backoff`, `Namespaces`, `PasswordSync`, `LeaseIds`, `BackendConfig`: the
   functions, in the run `operators`. Done.
5. `ValsRollouts`: crashes, panics and failures after the Secret is written.
   Done. `DbCredentials` and its refinement. Done. Lost answers in both
   controllers. Done.
6. Calls of the store over time in `ValsSecret`: that a TTL bounds them, and
   that `last-updated` of an unchanged value does not (V:295).
7. `Operator`: `VaultToken` with the calls of the controllers that need a
   token, so that an evaluation fails exactly while there is none.
8. Proofs about both controllers, their refinements, `VaultToken` and the
   functions: every safety property of the runs. Done.
9. A second replica: two workers with a cache each.
