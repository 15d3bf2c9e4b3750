----------------------------- MODULE VaultToken -----------------------------
(***************************************************************************)
(* The operator's own token for Vault or OpenBao (vault/vault.go): Start   *)
(* takes the one it is given or starts a goroutine that logs in, hands the *)
(* token to vals, which reads VAULT_TOKEN, and to the client, which both   *)
(* controllers use, lets a watcher renew it, and logs in again a while     *)
(* after the watcher is done.                                              *)
(*                                                                         *)
(* Time does not pass while the goroutine has something to do at once.     *)
(***************************************************************************)
EXTENDS BackendConfig, Naturals, FiniteSets

CONSTANTS
    Settings,   \* the sets of variables that a user may set
    Tokens,     \* bound: tokens of logins that are remembered at a time
    Term,       \* lifetime of a token since its login or last renewal, in ticks
    Margin,     \* the watcher gives up when so little is left
    Nap,        \* the goroutine's sleep between two logins
    MaxStale,   \* bound: forwarders of renewals that are counted
    Budget,     \* bound: disturbances
    Faults

FaultKinds == {"down", "revoke"}

ASSUME TokenAssumption ==
    /\ Settings \subseteq SUBSET Variables
    /\ Term \in Nat \ {0} /\ Margin \in 0 .. Term - 1 /\ Nap \in Nat \ {0}
    /\ MaxStale \in Nat /\ Budget \in Nat /\ Faults \subseteq FaultKinds
    /\ Tokens \cap Variables = {} /\ None \notin Tokens \cup Variables
    /\ IsFiniteSet(Tokens)

VARIABLES
    given,      \* the variables the user set
    env,        \* the environment; a value of the user's is named after its variable
    client,     \* the client: its backend, address, token and way to log in
    step,       \* where the goroutine is
    granted,    \* the token it works with
    renewable,  \* whether that can be renewed
    renewed,    \* a renewal the watcher has reported
    stale,      \* goroutines that forward renewals to a channel nobody reads
    nap,        \* ticks left of the sleep
    life,       \* ticks each token has left
    up,         \* the secrets store can be reached
    left        \* disturbances left

routine == <<step, granted, renewable, renewed, stale, nap>>
vars == <<given, env, client, routine, life, up, left>>

Values == Tokens \cup Variables \cup {None}

TypeOK ==
    /\ given \in Settings /\ env \in [Variables -> Values]
    /\ step \in {"start", "off", "login", "setenv", "settoken", "watch", "sleep",
                 "ended", "static"}
    /\ IF step \in {"start", "off"} THEN client = None
       ELSE client \in [backend : {"vault", "openbao"}, address : Variables,
                        token : Values, authMode : DOMAIN Needs]
    /\ IF step \in {"setenv", "settoken", "watch"} THEN granted \in Tokens \cup given
                                                   ELSE granted = None
    /\ renewable \in BOOLEAN /\ renewed \in BOOLEAN
    /\ stale \in 0 .. MaxStale /\ nap \in 0 .. Nap
    /\ life \in [Tokens -> 0 .. Term] /\ up \in BOOLEAN /\ left \in 0 .. Budget

-----------------------------------------------------------------------------
\* What users and roots hold does not end; a token of a login does.
Live(t) == IF t \in Tokens THEN life[t] > 0 ELSE t # None

Free == {t \in Tokens : /\ life[t] = 0 /\ t # granted
                        /\ client # None => t # client.token
                        /\ \A v \in Variables : env[v] # t}

\* The environment that the user gave the process.
Given == [v \in Variables |-> IF v \in given THEN v ELSE None]

Init ==
    /\ given \in Settings
    /\ env = Given
    /\ client = None
    /\ step = "start" /\ granted = None /\ renewable = FALSE /\ renewed = FALSE
    /\ stale = 0 /\ nap = 0
    /\ life = [t \in Tokens |-> 0]
    /\ up = TRUE /\ left = Budget

\* main: there is no backend to start, or VAULT_AUTH_METHOD makes it panic.
Refused == detectBackend(env) = "unknown" \/ env[<<"VAULT", "AUTH_METHOD">>] # None

NotStarted ==
    /\ step = "start" /\ Refused
    /\ step' = "off"
    /\ UNCHANGED <<given, env, client, granted, renewable, renewed, stale, nap, life, up,
                   left>>

CopyForVals_TokenOnly ==
    env' = [env EXCEPT ![VAULT_TOKEN] = IF @ = None THEN env[BAO_TOKEN] ELSE @]

\* With OpenBao: what vals needs and the user has not set.
CopyForVals ==
    env' = [env EXCEPT ![VAULT_ADDR] = IF @ = None THEN env[BAO_ADDR] ELSE @,
                       ![VAULT_TOKEN] = IF @ = None THEN env[BAO_TOKEN] ELSE @]

OwnToken(c) == <<UpperName[c.backend], "TOKEN">>

\* A token of the user's is left alone, and no goroutine started.  With OpenBao
\* the variable looked at is OPENBAO_TOKEN.
Start ==
    /\ step = "start" /\ ~Refused
    /\ LET c == NewSecretsClient(env)
           own == OwnToken(c)
           tokenOnly == env'[own] # None /\ detectAuthMode(env', own[1]) = "token"
       IN  /\ IF c.backend = "openbao" THEN CopyForVals ELSE UNCHANGED env
           /\ client' = IF tokenOnly THEN [c EXCEPT !.token = env'[own]] ELSE c
           /\ step' = IF tokenOnly THEN "static" ELSE "login"
    /\ UNCHANGED <<given, granted, renewable, renewed, stale, nap, life, up, left>>

Ready ==
    IF client.backend = "openbao" THEN OpenBaoCanLogin(env, client.authMode)
                                  ELSE VaultCanLogin(env, client.authMode)

\* A user's token is used as it is; otherwise the store grants one, renewable
\* or not, which the library puts into the client at once.
Login ==
    /\ step = "login"
    /\ \/ /\ client.authMode = "token"
          /\ granted' = client.token /\ renewable' = FALSE /\ UNCHANGED life
       \/ /\ client.authMode # "token" /\ up /\ Ready
          /\ granted' \in Free /\ renewable' \in BOOLEAN
          /\ life' = [life EXCEPT ![granted'] = Term]
    /\ client' = [client EXCEPT !.token = granted']
    /\ step' = "setenv"
    /\ UNCHANGED <<given, env, renewed, stale, nap, up, left>>

\* The goroutine returns, and nothing starts it again.
LoginFails ==
    /\ step = "login" /\ client.authMode # "token" /\ ~(up /\ Ready)
    /\ step' = "ended"
    /\ UNCHANGED <<given, env, client, granted, renewable, renewed, stale, nap, life, up,
                   left>>

SetEnv_OwnOnly ==
    /\ step = "setenv"
    /\ env' = [env EXCEPT ![OwnToken(client)] = granted]
    /\ step' = "settoken"
    /\ UNCHANGED <<given, client, granted, renewable, renewed, stale, nap, life, up, left>>

Publish == env' = [env EXCEPT ![OwnToken(client)] = granted, ![VAULT_TOKEN] = granted]

SetEnv ==
    /\ step = "setenv"
    /\ Publish
    /\ step' = "settoken"
    /\ UNCHANGED <<given, client, granted, renewable, renewed, stale, nap, life, up, left>>

Sleep ==
    step' = "sleep" /\ nap' = Nap /\ granted' = None /\ renewed' = FALSE /\ stale' = 0

\* The client gets the token once more; one that cannot be renewed is not watched.
SetToken ==
    /\ step = "settoken"
    /\ client' = [client EXCEPT !.token = granted]
    /\ IF renewable THEN step' = "watch" /\ UNCHANGED <<granted, renewed, stale, nap>>
                    ELSE Sleep
    /\ UNCHANGED <<given, env, renewable, life, up, left>>

\* manageTokenLifecycle, a message on RenewCh.  The next turn of the loop calls
\* RenewCh again: the goroutine that forwarded this message forwards the next
\* one to a channel that nobody reads any more, if it gets it.
Renewed ==
    /\ step = "watch" /\ renewed
    /\ Publish /\ renewed' = FALSE
    /\ stale' = IF stale < MaxStale THEN stale + 1 ELSE stale
    /\ UNCHANGED <<given, client, step, granted, renewable, nap, life, up, left>>

RenewalLost ==
    /\ step = "watch" /\ renewed /\ stale > 0
    /\ renewed' = FALSE /\ stale' = stale - 1
    /\ UNCHANGED <<given, env, client, step, granted, renewable, nap, life, up, left>>

AtEnd == life[granted] <= Margin \/ ~up

Done_KeepsWatching == step = "watch" /\ AtEnd /\ UNCHANGED vars

\* manageTokenLifecycle, a message on DoneCh: near the end of the token's life,
\* or earlier when a renewal failed.
Done ==
    /\ step = "watch" /\ AtEnd
    /\ Sleep
    /\ UNCHANGED <<given, env, client, renewable, life, up, left>>

Wake_AtOnce ==
    /\ step = "sleep" /\ step' = "login" /\ nap' = 0
    /\ UNCHANGED <<given, env, client, granted, renewable, renewed, stale, life, up, left>>

Wake ==
    /\ step = "sleep" /\ nap = 0
    /\ step' = "login"
    /\ UNCHANGED <<given, env, client, granted, renewable, renewed, stale, nap, life, up,
                   left>>

-----------------------------------------------------------------------------
(* The watcher, the secrets store and time *)

\* The watcher renews the token; a report that nobody has taken yet is enough.
WatcherRenews ==
    /\ step = "watch" /\ up /\ life[granted] \in 1 .. Term - 1
    /\ life' = [life EXCEPT ![granted] = Term]
    /\ renewed' = TRUE
    /\ UNCHANGED <<given, env, client, step, granted, renewable, stale, nap, up, left>>

Disturb == left > 0 /\ left' = left - 1

Revoke(t) ==
    /\ "revoke" \in Faults /\ Disturb
    /\ life[t] > 0
    /\ life' = [life EXCEPT ![t] = 0]
    /\ UNCHANGED <<given, env, client, routine, up>>

Outage ==
    /\ "down" \in Faults /\ Disturb
    /\ up' = ~up
    /\ UNCHANGED <<given, env, client, routine, life>>

Elapsed_PastZero(n) == n - 1

Elapsed(n) == IF n > 0 THEN n - 1 ELSE 0

\* Whether the goroutine, or the watcher, acts before the clock does.
Waiting ==
    \/ step \in {"static", "ended"}
    \/ step = "sleep" /\ nap > 0
    \/ step = "watch" /\ life[granted] > Margin /\ ~renewed

Tick ==
    /\ Waiting
    /\ (\E t \in Tokens : life[t] > 0) \/ step = "sleep"
    /\ life' = [t \in Tokens |-> Elapsed(life[t])]
    /\ nap' = IF step = "sleep" THEN nap - 1 ELSE nap
    /\ UNCHANGED <<given, env, client, step, granted, renewable, renewed, stale, up, left>>

-----------------------------------------------------------------------------
Routine ==
    Login \/ LoginFails \/ SetEnv \/ SetToken \/ Renewed \/ Done \/ Wake

Next ==
    \/ NotStarted \/ Start \/ Routine \/ RenewalLost \/ WatcherRenews \/ Tick
    \/ Outage \/ \E t \in Tokens : Revoke(t)

Spec == Init /\ [][Next]_vars

\* main calls Start, the goroutine goes on while it can, the watcher says when
\* it is done, and time passes.
FairSpec ==
    /\ Spec
    /\ WF_vars(NotStarted \/ Start) /\ WF_vars(Routine) /\ WF_vars(Done) /\ WF_vars(Tick)

-----------------------------------------------------------------------------
(* Properties *)

\* What the goroutine may count on: the environment is what the user gave it but
\* for tokens and addresses, a static token is there, and only tokens of logins
\* are watched.  With TypeOK, it is inductive.
RoutineInv ==
    /\ step = "start" => env = Given
    /\ \A v \in Variables : v[2] \notin {"TOKEN", "ADDR"} => env[v] = Given[v]
    /\ step \notin {"start", "off"} /\ client.authMode = "token"
         => client.token \in Tokens \cup given
    /\ step = "watch" \/ (step \in {"setenv", "settoken"} /\ renewable)
         => granted \in Tokens

\* vals and the database client authenticate with the same token, whichever
\* variables the user set and whichever backend reads them (lines 43-83, 276-298),
\* even when the goroutine has returned.  There are two windows: between a login
\* and the write of the environment (line 53) only the client has the new one; and
\* a token in BAO_TOKEN may reach vals with the goroutine's first turn only.
TokensAgree ==
    step \notin {"start", "off"} =>
      \/ env[VAULT_TOKEN] = client.token
      \/ step = "setenv" /\ client.token = granted
      \/ step = "login" /\ client.authMode = "token"

\* No variable whose prefix README.md does not have.
Documented == \A s \in Settings : \A v \in s : v[1] # "OPENBAO"

\* The inductive invariant behind TokensAgree.
AgreeInv ==
    /\ TokensAgree
    /\ step \in {"setenv", "settoken", "watch"} => client.token = granted

\* vals, which knows VAULT_ADDR alone, reads from the store that the operator
\* logs in to, unless the user gives the addresses of both (lines 275-287): then
\* the client takes OpenBao and vals takes Vault, with OpenBao's token.
StoresAgree ==
    step \notin {"start", "off"} /\ ~({VAULT_ADDR, BAO_ADDR} \subseteq given)
      => env[VAULT_ADDR] = client.address

\* Logins do not flood the secrets store: the tokens alive are no more than a
\* sleep between two logins can leave behind, although a token that cannot be
\* renewed is replaced every time (lines 79, 88-91).
FewTokens == Cardinality({t \in Tokens : life[t] > 0}) <= Term \div Nap + 1

\* The tokens with more than that many ticks to live.
Over(ticks) == {t \in Tokens : life[t] > 0 /\ life[t] > ticks}

\* Those of them that the goroutine has done with, and that it did not have done
\* with j sleeps ago if they were to live longer.
Remaining(j) ==
    IF step = "sleep" THEN Over(Term - (Nap - nap) - j * Nap)
                      ELSE Over(Term - Nap - j * Nap) \ {granted}

\* The inductive invariant behind FewTokens: each sleep adds one token.
CountInv == \A j \in 0 .. Term + 1 : Cardinality(Remaining(j)) <= j

\* The user's variables are those of one backend, and enough for some login.
Unmixed ==
    \E prefix \in {"VAULT", "BAO"} :
      /\ \A v \in given : v[1] = prefix
      /\ \E mode \in DOMAIN Needs : \A key \in Needs[mode] : <<prefix, key>> \in given

\* A user who keeps to the variables of one backend is logged in: the goroutine
\* ends by a fault only, although the way to log in is chosen apart from it and
\* looks at other variables than it does (common.go 49-70, the login methods).
UnmixedLogsIn == step = "ended" /\ left = Budget => ~Unmixed

\* The inductive invariant behind UnmixedLogsIn: without a disturbance the store
\* can be reached, and the client is the one that the user's variables ask for.
LoginInv ==
    /\ UnmixedLogsIn
    /\ left = Budget => up
    /\ step \notin {"start", "off"} =>
         /\ detectBackend(Given) # "unknown"
         /\ client.backend = NewSecretsClient(Given).backend
         /\ client.authMode = NewSecretsClient(Given).authMode

Authenticated ==
    client # None /\ env[VAULT_TOKEN] # None /\ Live(env[VAULT_TOKEN]) /\ Live(client.token)

\* The operator has a live token again and again, whatever was revoked, expired
\* or lost, as long as it has a backend and the goroutine has not returned.
RenewerServes == []<>(Authenticated \/ step \in {"off", "ended"})

\* "Re-attempting login", say the messages of manageTokenLifecycle, and "so we
\* can attempt login again" its comment: the operator authenticates again and
\* again while the store can be reached.
TokenReturns == []<>(Authenticated \/ ~up)
=============================================================================
