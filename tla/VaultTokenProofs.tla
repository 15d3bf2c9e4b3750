-------------------------- MODULE VaultTokenProofs --------------------------
(* Proofs about VaultToken for every value of its constants.               *)
EXTENDS VaultToken, FiniteSetTheorems, TLAPS

Clients == [backend : {"vault", "openbao"}, address : Variables,
            token : Values, authMode : DOMAIN Needs]

-----------------------------------------------------------------------------
(* Variables and the clients that they make *)

LEMMA VariableFacts ==
    /\ {VAULT_ADDR, VAULT_TOKEN, BAO_ADDR, BAO_TOKEN} \subseteq Variables
    /\ VAULT_ADDR[2] = "ADDR" /\ BAO_ADDR[2] = "ADDR"
    /\ VAULT_TOKEN[2] = "TOKEN" /\ BAO_TOKEN[2] = "TOKEN"
    /\ VAULT_ADDR[1] = "VAULT" /\ VAULT_TOKEN[1] = "VAULT"
    /\ BAO_ADDR[1] = "BAO" /\ BAO_TOKEN[1] = "BAO"
    /\ VAULT_ADDR # BAO_ADDR /\ VAULT_TOKEN # BAO_TOKEN
    /\ VAULT_ADDR # VAULT_TOKEN /\ BAO_ADDR # BAO_TOKEN
    /\ VAULT_ADDR # BAO_TOKEN /\ BAO_ADDR # VAULT_TOKEN
BY DEF Variables, Keys, VAULT_ADDR, VAULT_TOKEN, BAO_ADDR, BAO_TOKEN

\* The variable of a client's own token is one, and is no address.
LEMMA OwnTokens ==
    ASSUME NEW c, c.backend \in {"vault", "openbao"}
    PROVE  /\ OwnToken(c) \in Variables /\ OwnToken(c)[2] = "TOKEN"
           /\ OwnToken(c) # VAULT_ADDR
           /\ c.backend = "vault" => OwnToken(c) = VAULT_TOKEN
           /\ c.backend = "openbao" => /\ OwnToken(c)[1] = "OPENBAO"
                                       /\ OwnToken(c) # VAULT_TOKEN
BY DEF OwnToken, UpperName, Variables, Keys, VAULT_ADDR, VAULT_TOKEN

LEMMA GivenFacts ==
    ASSUME TokenAssumption, given \in Settings
    PROVE  /\ Given \in [Variables -> given \cup {None}]
           /\ given \subseteq Variables
           /\ \A v \in Variables : Given[v] # None <=> v \in given
           /\ \A v \in Variables : v \in given => Given[v] = v
BY DEF Given, TokenAssumption

\* What is looked up in the user's environment.
LEMMA Lookup ==
    ASSUME TokenAssumption, given \in Settings,
           NEW prefix \in {"VAULT", "BAO"}, NEW key \in Keys
    PROVE  /\ getEnvWithPrefix(Given, prefix, key) \in given \cup {None}
           /\ <<prefix, key>> \in given =>
                getEnvWithPrefix(Given, prefix, key) = <<prefix, key>>
BY GivenFacts DEF getEnvWithPrefix, altPrefix, Variables

LEMMA AuthModes ==
    \A e, prefix : detectAuthMode(e, prefix) \in DOMAIN Needs
BY DEF detectAuthMode, Needs

LEMMA NewClients ==
    ASSUME TokenAssumption, given \in Settings, detectBackend(Given) # "unknown",
           NEW c, c = NewSecretsClient(Given)
    PROVE  /\ c \in Clients /\ c.token \in given \cup {None}
           /\ c.authMode = "token" => c.token \in given
           /\ c.backend = "openbao" => c.address = BAO_ADDR /\ BAO_ADDR \in given
           /\ c.backend = "vault" => c.address = VAULT_ADDR /\ VAULT_ADDR \in given
<1>1. ASSUME NEW prefix \in {"VAULT", "BAO"}, NEW b \in {"vault", "openbao"},
             <<prefix, "ADDR">> \in given
      PROVE  /\ Client(Given, b, prefix) \in Clients
             /\ Client(Given, b, prefix).backend = b
             /\ Client(Given, b, prefix).address = <<prefix, "ADDR">>
             /\ Client(Given, b, prefix).token \in given \cup {None}
             /\ Client(Given, b, prefix).authMode = "token" =>
                  Client(Given, b, prefix).token \in given
  <2>1. "ADDR" \in Keys /\ "TOKEN" \in Keys
    BY DEF Keys
  <2>2. getEnvWithPrefix(Given, prefix, "ADDR") = <<prefix, "ADDR">>
    BY <1>1, <2>1, Lookup
  <2>3. getEnvWithPrefix(Given, prefix, "TOKEN") \in given \cup {None}
    BY <2>1, Lookup
  <2>4. detectAuthMode(Given, prefix) = "token" =>
          getEnvWithPrefix(Given, prefix, "TOKEN") # None
    BY DEF detectAuthMode, Available, Needs
  <2>5. <<prefix, "ADDR">> \in Variables /\ given \subseteq Variables
    BY <1>1, GivenFacts
  <2> QED
    BY <2>2, <2>3, <2>4, <2>5, AuthModes DEF Client, Clients, Values
<1>2. CASE detectBackend(Given) = "openbao"
  <2>1. BAO_ADDR \in given
    BY <1>2, GivenFacts, VariableFacts DEF detectBackend
  <2>2. c = Client(Given, "openbao", "BAO")
    BY <1>2 DEF NewSecretsClient, NewOpenBaoClient
  <2> QED
    BY <2>1, <2>2, <1>1 DEF BAO_ADDR
<1>3. CASE detectBackend(Given) # "openbao"
  <2>1. VAULT_ADDR \in given
    BY <1>3, GivenFacts, VariableFacts DEF detectBackend
  <2>2. c = Client(Given, "vault", "VAULT")
    BY <1>3 DEF NewSecretsClient, NewVaultClient
  <2> QED
    BY <2>1, <2>2, <1>1 DEF VAULT_ADDR
<1> QED
  BY <1>2, <1>3

-----------------------------------------------------------------------------
(* Types *)

LEMMA ConstantTypes ==
    /\ Term \in Nat /\ Term > 0 /\ Margin \in Nat /\ Nap \in Nat /\ Nap > 0
    /\ MaxStale \in Nat /\ Budget \in Nat
    /\ None \notin Tokens /\ None \notin Variables
    /\ \A s \in Settings : s \subseteq Variables
BY TokenAssumption

\* The parts of TypeOK that a step of the goroutine may change.
RoutineTypeOK ==
    /\ step \in {"start", "off", "login", "setenv", "settoken", "watch", "sleep",
                 "ended", "static"}
    /\ IF step \in {"setenv", "settoken", "watch"} THEN granted \in Tokens \cup given
                                                   ELSE granted = None
    /\ renewable \in BOOLEAN /\ renewed \in BOOLEAN
    /\ stale \in 0 .. MaxStale /\ nap \in 0 .. Nap

ClientTypeOK == IF step \in {"start", "off"} THEN client = None ELSE client \in Clients

LEMMA TypeParts ==
    TypeOK <=> /\ given \in Settings /\ env \in [Variables -> Values]
               /\ RoutineTypeOK /\ ClientTypeOK
               /\ life \in [Tokens -> 0 .. Term] /\ up \in BOOLEAN /\ left \in 0 .. Budget
BY DEF TypeOK, RoutineTypeOK, ClientTypeOK, Clients

LEMMA TypePartsNext ==
    TypeOK' <=> /\ given' \in Settings /\ env' \in [Variables -> Values]
                /\ RoutineTypeOK' /\ ClientTypeOK'
                /\ life' \in [Tokens -> 0 .. Term] /\ up' \in BOOLEAN
                /\ left' \in 0 .. Budget
BY DEF TypeOK, RoutineTypeOK, ClientTypeOK, Clients

TypeInv == TypeOK /\ RoutineInv

LEMMA TypeInit == Init => TypeInv
<1> SUFFICES ASSUME Init PROVE TypeInv
  OBVIOUS
<1>1. Given \in [Variables -> Values]
  BY GivenFacts, TokenAssumption DEF Init, Values
<1>2. RoutineTypeOK /\ ClientTypeOK
  <2>1. stale \in 0 .. MaxStale /\ nap \in 0 .. Nap
    BY ConstantTypes DEF Init
  <2> QED
    BY <2>1, Zenon DEF Init, RoutineTypeOK, ClientTypeOK
<1>3. life \in [Tokens -> 0 .. Term] /\ up \in BOOLEAN /\ left \in 0 .. Budget
  BY ConstantTypes DEF Init
<1>4. TypeOK
  BY <1>1, <1>2, <1>3, TypeParts DEF Init
<1>5. RoutineInv
  BY DEF Init, RoutineInv
<1> QED
  BY <1>4, <1>5 DEF TypeInv

LEMMA TypeNow ==
    ASSUME TypeInv
    PROVE  /\ given \in Settings /\ given \subseteq Variables
           /\ env \in [Variables -> Values]
           /\ RoutineTypeOK /\ ClientTypeOK
           /\ life \in [Tokens -> 0 .. Term] /\ up \in BOOLEAN /\ left \in 0 .. Budget
           /\ stale \in 0 .. MaxStale /\ nap \in 0 .. Nap
           /\ renewable \in BOOLEAN /\ renewed \in BOOLEAN
<1>1. given \in Settings /\ RoutineTypeOK
  BY TypeParts DEF TypeInv
<1>2. given \subseteq Variables
  BY <1>1, ConstantTypes
<1> QED
  BY <1>1, <1>2, TypeParts DEF TypeInv, RoutineTypeOK

\* What a write of tokens and addresses leaves.
LEMMA EnvWrites ==
    ASSUME TypeInv, NEW v \in Variables, NEW w \in Variables, NEW x \in Values, NEW y \in Values,
           v[2] \in {"TOKEN", "ADDR"}, w[2] \in {"TOKEN", "ADDR"},
           env' = [env EXCEPT ![v] = x, ![w] = y], UNCHANGED given
    PROVE  /\ env' \in [Variables -> Values]
           /\ \A u \in Variables : u[2] \notin {"TOKEN", "ADDR"} => env'[u] = Given'[u]
<1>1. env \in [Variables -> Values]
  BY TypeParts DEF TypeInv
<1>2. \A u \in Variables : u # v /\ u # w => env'[u] = env[u]
  BY <1>1
<1>3. \A u \in Variables : u[2] \notin {"TOKEN", "ADDR"} => u # v /\ u # w
  OBVIOUS
<1>4. Given' = Given
  BY DEF Given
<1> QED
  BY <1>1, <1>2, <1>3, <1>4 DEF TypeInv, RoutineInv

\* The environment of a step that leaves it alone.
LEMMA EnvStays ==
    ASSUME RoutineInv, UNCHANGED <<env, given>>
    PROVE  /\ \A v \in Variables : v[2] \notin {"TOKEN", "ADDR"} => env'[v] = Given'[v]
           /\ step # "start" \/ env' = Given'
BY DEF RoutineInv, Given

LEMMA TypeStart == ASSUME TypeInv, Start PROVE TypeInv'
<1> DEFINE c == NewSecretsClient(env)
           own == OwnToken(c)
           tokenOnly == env'[own] # None /\ detectAuthMode(env', own[1]) = "token"
<1>1. /\ env = Given /\ given \in Settings /\ UNCHANGED <<given, renewable, renewed, stale>>
      /\ UNCHANGED <<nap, life, up, left, granted>> /\ step = "start"
      /\ env \in [Variables -> Values] /\ detectBackend(Given) # "unknown"
  BY TypeParts DEF TypeInv, RoutineInv, Start, Refused
<1>2. /\ c \in Clients /\ c.token \in given \cup {None}
      /\ c.authMode = "token" => c.token \in given
      /\ c.backend \in {"vault", "openbao"}
  BY <1>1, NewClients, TokenAssumption DEF Clients
<1>3. /\ env' \in [Variables -> Values]
      /\ \A u \in Variables : u[2] \notin {"TOKEN", "ADDR"} => env'[u] = Given'[u]
      /\ \A u \in Variables : env'[u] \in given \cup {None}
  <2>1. \A u \in Variables : env[u] \in given \cup {None}
    BY <1>1, GivenFacts, TokenAssumption
  <2>2. CASE c.backend = "openbao"
    <3>1. CopyForVals
      BY <2>2 DEF Start
    <3> DEFINE x == IF env[VAULT_ADDR] = None THEN env[BAO_ADDR] ELSE env[VAULT_ADDR]
               y == IF env[VAULT_TOKEN] = None THEN env[BAO_TOKEN] ELSE env[VAULT_TOKEN]
    <3>2. env' = [env EXCEPT ![VAULT_ADDR] = x, ![VAULT_TOKEN] = y]
      BY <1>1, <3>1, VariableFacts DEF CopyForVals
    <3>3. {x, y} \subseteq Values \cap (given \cup {None})
      BY <1>1, <2>1, VariableFacts DEF Values
    <3> HIDE DEF x, y
    <3> QED
      BY <1>1, <2>1, <3>2, <3>3, EnvWrites, VariableFacts
  <2>3. CASE c.backend # "openbao"
    BY <1>1, <2>1, <2>3, EnvStays DEF Start, TypeInv
  <2> QED
    BY <2>2, <2>3
<1>4. own \in Variables
  BY <1>2, OwnTokens
<1>5. /\ client' = IF tokenOnly THEN [c EXCEPT !.token = env'[own]] ELSE c
      /\ step' = IF tokenOnly THEN "static" ELSE "login"
  BY DEF Start
<1>6. tokenOnly => env'[own] \in given
  BY <1>3, <1>4
<1>7. client' \in Clients /\ (client'.authMode = "token" => client'.token \in given)
  <2>1. CASE tokenOnly
    <3>1. env'[own] \in Values
      BY <1>3, <1>4
    <3> HIDE DEF c, own, tokenOnly
    <3> QED
      BY <1>2, <1>5, <1>6, <2>1, <3>1 DEF Clients
  <2>2. CASE ~tokenOnly
    BY <1>2, <1>5, <2>2
  <2> QED
    BY <2>1, <2>2
<1>8. RoutineTypeOK' /\ ClientTypeOK'
  <2> HIDE DEF c, own, tokenOnly
  <2> QED
    BY <1>1, <1>5, <1>7, TypeParts DEF RoutineTypeOK, ClientTypeOK, TypeInv
<1>9. TypeOK'
  BY <1>1, <1>3, <1>8, TypeParts, TypePartsNext DEF TypeInv
<1>10. RoutineInv'
  <2>1. step' \in {"static", "login"}
    BY <1>5
  <2> QED
    BY <1>3, <1>7, <2>1, <1>1 DEF RoutineInv
<1> QED
  BY <1>9, <1>10 DEF TypeInv

\* The store grants a token, or takes the one it is given as it is.
LEMMA TypeLogin == ASSUME TypeInv, Login PROVE TypeInv'
<1>1. /\ step = "login" /\ step' = "setenv"
      /\ UNCHANGED <<given, env, renewed, stale, nap, up, left>>
      /\ client \in Clients /\ client' = [client EXCEPT !.token = granted']
  BY TypeParts DEF TypeInv, Login, ClientTypeOK
<1>2. /\ granted' \in Tokens \cup given /\ renewable' \in BOOLEAN
      /\ renewable' => granted' \in Tokens
      /\ life' \in [Tokens -> 0 .. Term]
  <2>1. CASE client.authMode = "token" /\ granted' = client.token
                                      /\ renewable' = FALSE /\ UNCHANGED life
    BY <1>1, <2>1, TypeParts DEF TypeInv, RoutineInv
  <2>2. CASE /\ granted' \in Free /\ renewable' \in BOOLEAN
             /\ life' = [life EXCEPT ![granted'] = Term]
    BY <2>2, TypeParts, ConstantTypes DEF TypeInv, Free
  <2> QED
    BY <2>1, <2>2 DEF Login
<1>2a. client' \in Clients /\ client'.token = granted'
  <2>1. granted' \in Values
    BY <1>2, TypeNow DEF Values
  <2> QED
    BY <1>1, <2>1 DEF Clients
<1>3. RoutineTypeOK' /\ ClientTypeOK'
  BY <1>1, <1>2, <1>2a, TypeParts DEF TypeInv, RoutineTypeOK, ClientTypeOK
<1>4. TypeOK'
  BY <1>1, <1>2, <1>3, TypeParts, TypePartsNext DEF TypeInv
<1>5. RoutineInv'
  BY <1>1, <1>2, <1>2a, EnvStays DEF TypeInv, RoutineInv
<1> QED
  BY <1>4, <1>5 DEF TypeInv

\* A token is published while the goroutine has one.
LEMMA TypePublish ==
    ASSUME TypeInv, step \in {"setenv", "settoken", "watch"}, Publish, UNCHANGED given
    PROVE  /\ env' \in [Variables -> Values]
           /\ \A u \in Variables : u[2] \notin {"TOKEN", "ADDR"} => env'[u] = Given'[u]
<1>1. client.backend \in {"vault", "openbao"}
  BY TypeParts DEF TypeInv, ClientTypeOK, Clients
<1>2. granted \in Values
  <2>1. granted \in Tokens \cup given /\ given \subseteq Variables
    BY TypeParts, ConstantTypes DEF TypeInv, RoutineTypeOK
  <2> QED
    BY <2>1 DEF Values
<1> DEFINE v == OwnToken(client)
<1>3. v \in Variables /\ v[2] = "TOKEN"
  BY <1>1, OwnTokens
<1>4. env' = [env EXCEPT ![v] = granted, ![VAULT_TOKEN] = granted]
  BY DEF Publish
<1>5. VAULT_TOKEN \in Variables /\ VAULT_TOKEN[2] = "TOKEN"
  BY VariableFacts
<1> HIDE DEF v
<1> QED
  BY <1>2, <1>3, <1>4, <1>5, EnvWrites

LEMMA TypeSetEnv == ASSUME TypeInv, SetEnv \/ Renewed PROVE TypeInv'
<1>1. /\ UNCHANGED <<given, client, granted, renewable, nap, life, up, left>>
      /\ \/ step = "setenv" /\ step' = "settoken" /\ UNCHANGED <<renewed, stale>>
         \/ /\ step = "watch" /\ UNCHANGED step /\ renewed' = FALSE
            /\ stale' = IF stale < MaxStale THEN stale + 1 ELSE stale
      /\ Publish
  BY DEF SetEnv, Renewed
<1>2. RoutineTypeOK' /\ ClientTypeOK'
  <2>1. stale' \in 0 .. MaxStale /\ nap' \in 0 .. Nap
    BY <1>1, TypeNow, ConstantTypes
  <2>2. renewable' \in BOOLEAN /\ renewed' \in BOOLEAN
    BY <1>1, TypeNow, Zenon
  <2>3. /\ step' \in {"start", "off", "login", "setenv", "settoken", "watch", "sleep",
                     "ended", "static"}
        /\ IF step' \in {"setenv", "settoken", "watch"} THEN granted' \in Tokens \cup given'
                                                        ELSE granted' = None
        /\ ClientTypeOK'
    BY <1>1, TypeNow DEF RoutineTypeOK, ClientTypeOK
  <2> QED
    BY <2>1, <2>2, <2>3, Zenon DEF RoutineTypeOK
<1>3. TypeOK'
  BY <1>1, <1>2, TypePublish, TypeParts, TypePartsNext DEF TypeInv
<1>4. RoutineInv'
  BY <1>1, TypePublish DEF TypeInv, RoutineInv
<1> QED
  BY <1>3, <1>4 DEF TypeInv

LEMMA TypeSetToken == ASSUME TypeInv, SetToken PROVE TypeInv'
<1>1. /\ step = "settoken" /\ UNCHANGED <<given, env, renewable, life, up, left>>
      /\ client' = [client EXCEPT !.token = granted]
      /\ client \in Clients /\ granted \in Tokens \cup given
  BY TypeParts DEF TypeInv, SetToken, ClientTypeOK, RoutineTypeOK
<1>2. client' \in Clients /\ client'.token = granted
  BY <1>1, TypeParts, ConstantTypes DEF TypeInv, Clients, Values
<1>3. \/ /\ renewable /\ step' = "watch" /\ UNCHANGED <<granted, renewed, stale, nap>>
      \/ /\ step' = "sleep" /\ nap' = Nap /\ granted' = None
         /\ renewed' = FALSE /\ stale' = 0
  BY DEF SetToken, Sleep
<1>4. RoutineTypeOK' /\ ClientTypeOK'
  <2>1. stale' \in 0 .. MaxStale /\ nap' \in 0 .. Nap
    BY <1>3, TypeNow, ConstantTypes
  <2>2. renewable' \in BOOLEAN /\ renewed' \in BOOLEAN
    BY <1>1, <1>3, TypeNow, Zenon
  <2>3. /\ step' \in {"watch", "sleep"}
        /\ IF step' = "watch" THEN granted' \in Tokens \cup given' ELSE granted' = None
    BY <1>1, <1>3
  <2>4. ClientTypeOK'
    BY <1>2, <2>3 DEF ClientTypeOK
  <2>5. /\ step' \in {"start", "off", "login", "setenv", "settoken", "watch", "sleep",
                     "ended", "static"}
        /\ IF step' \in {"setenv", "settoken", "watch"} THEN granted' \in Tokens \cup given'
                                                        ELSE granted' = None
    BY <2>3
  <2> QED
    BY <2>1, <2>2, <2>4, <2>5, Zenon DEF RoutineTypeOK
<1>5. TypeOK'
  BY <1>1, <1>4, TypeParts, TypePartsNext DEF TypeInv
<1>6. RoutineInv'
  BY <1>1, <1>2, <1>3, EnvStays DEF TypeInv, RoutineInv
<1> QED
  BY <1>5, <1>6 DEF TypeInv

\* The steps that only move the goroutine on.
LEMMA TypeMoves ==
    ASSUME TypeInv, NotStarted \/ LoginFails \/ Done \/ Wake \/ RenewalLost
    PROVE  TypeInv'
<1>1. /\ UNCHANGED <<given, env, client, renewable, life, up, left>>
      /\ \/ step = "start" /\ step' = "off" /\ UNCHANGED <<granted, renewed, stale, nap>>
         \/ /\ step = "login" /\ step' = "ended"
            /\ UNCHANGED <<granted, renewed, stale, nap>>
         \/ /\ step = "watch" /\ step' = "sleep" /\ nap' = Nap /\ granted' = None
            /\ renewed' = FALSE /\ stale' = 0
         \/ step = "sleep" /\ step' = "login" /\ UNCHANGED <<granted, renewed, stale, nap>>
         \/ /\ step = "watch" /\ stale > 0 /\ stale' = stale - 1 /\ renewed' = FALSE
            /\ UNCHANGED <<step, granted, nap>>
  BY DEF NotStarted, LoginFails, Done, Wake, RenewalLost, Sleep
<1>2. RoutineTypeOK' /\ ClientTypeOK'
  <2>1. stale' \in 0 .. MaxStale /\ nap' \in 0 .. Nap
    BY <1>1, TypeNow, ConstantTypes
  <2>2. renewable' \in BOOLEAN /\ renewed' \in BOOLEAN
    BY <1>1, TypeNow, Zenon
  <2>3. /\ step' \in {"start", "off", "login", "setenv", "settoken", "watch", "sleep",
                     "ended", "static"}
        /\ IF step' \in {"setenv", "settoken", "watch"} THEN granted' \in Tokens \cup given'
                                                        ELSE granted' = None
        /\ ClientTypeOK'
    BY <1>1, TypeNow DEF RoutineTypeOK, ClientTypeOK
  <2> QED
    BY <2>1, <2>2, <2>3, Zenon DEF RoutineTypeOK
<1>3. TypeOK'
  BY <1>1, <1>2, TypeParts, TypePartsNext DEF TypeInv
<1>4. RoutineInv'
  BY <1>1, EnvStays DEF TypeInv, RoutineInv
<1> QED
  BY <1>3, <1>4 DEF TypeInv

\* The watcher, the store and the clock.
LEMMA TypeOutside ==
    ASSUME TypeInv, WatcherRenews \/ Tick \/ Outage \/ \E t \in Tokens : Revoke(t)
    PROVE  TypeInv'
<1>1. UNCHANGED <<given, env, client, step, granted, renewable, stale>>
  BY DEF WatcherRenews, Tick, Outage, Revoke, routine
<1>2. life' \in [Tokens -> 0 .. Term]
  <2>1. life \in [Tokens -> 0 .. Term]
    BY TypeParts DEF TypeInv
  <2>2. CASE UNCHANGED life
    BY <2>1, <2>2
  <2>3. CASE WatcherRenews \/ \E t \in Tokens : Revoke(t)
    BY <2>1, <2>3, ConstantTypes DEF WatcherRenews, Revoke
  <2>4. CASE Tick
    BY <2>1, <2>4, ConstantTypes DEF Tick, Elapsed
  <2> QED
    BY <2>2, <2>3, <2>4 DEF Outage
<1>3. /\ renewed' \in BOOLEAN /\ nap' \in 0 .. Nap /\ up' \in BOOLEAN
      /\ left' \in 0 .. Budget
  <2>1. CASE WatcherRenews
    BY <2>1, TypeNow, Zenon DEF WatcherRenews
  <2>2. CASE Outage \/ \E t \in Tokens : Revoke(t)
    <3>1. left' \in 0 .. Budget
      BY <2>2, TypeNow, ConstantTypes DEF Outage, Revoke, Disturb
    <3> QED
      BY <2>2, <3>1, TypeNow, Zenon DEF Outage, Revoke, routine
  <2>3. CASE Tick
    <3>1. nap' \in 0 .. Nap
      BY <2>3, TypeNow, ConstantTypes DEF Tick, Waiting
    <3> QED
      BY <2>3, <3>1, TypeNow, Zenon DEF Tick
  <2> QED
    BY <2>1, <2>2, <2>3
<1>4. RoutineTypeOK' /\ ClientTypeOK'
  BY <1>1, <1>3, TypeParts DEF TypeInv, RoutineTypeOK, ClientTypeOK
<1>5. TypeOK'
  BY <1>1, <1>2, <1>3, <1>4, TypeParts, TypePartsNext DEF TypeInv
<1>6. RoutineInv'
  BY <1>1, EnvStays DEF TypeInv, RoutineInv
<1> QED
  BY <1>5, <1>6 DEF TypeInv

LEMMA TypeStep == TypeInv /\ [Next]_vars => TypeInv'
<1> SUFFICES ASSUME TypeInv, [Next]_vars PROVE TypeInv'
  OBVIOUS
<1>1. CASE UNCHANGED vars
  BY <1>1 DEF vars, routine, TypeInv, TypeOK, RoutineInv, Given
<1>2. CASE Next
  BY <1>2, TypeStart, TypeLogin, TypeSetEnv, TypeSetToken, TypeMoves, TypeOutside
  DEF Next, Routine
<1> QED
  BY <1>1, <1>2

\* Every variable keeps its type: the goroutine has a token exactly while the step
\* it is in needs one, and the client is one that the program can build.
THEOREM TypeCorrect == Spec => []TypeOK
<1>1. TypeInv => TypeOK
  BY DEF TypeInv
<1> QED
  BY <1>1, TypeInit, TypeStep, PTL DEF Spec

-----------------------------------------------------------------------------
(* One token, one store *)

\* Who writes the environment and the client, and where the goroutine is then.
LEMMA EnvWriters ==
    ASSUME [Next]_vars
    PROVE  /\ UNCHANGED given
           /\ \/ Start
              \/ (SetEnv \/ Renewed) /\ Publish /\ UNCHANGED <<client, granted>>
              \/ (Login \/ SetToken) /\ UNCHANGED env
              \/ UNCHANGED <<env, client>>
BY DEF Next, vars, routine, NotStarted, Start, Routine, Login, LoginFails, SetEnv, SetToken,
       Renewed, Done, Wake, RenewalLost, WatcherRenews, Tick, Outage, Revoke

\* The client that a login, or SetToken, leaves.
LEMMA ClientWrites ==
    ASSUME TypeInv, Login \/ SetToken
    PROVE  /\ client \in Clients /\ step \notin {"start", "off"}
           /\ client'.backend = client.backend /\ client'.address = client.address
           /\ client'.authMode = client.authMode
           /\ client'.token = IF step = "login" THEN granted' ELSE granted
<1>1. client \in Clients /\ step \in {"login", "settoken"}
  BY TypeNow DEF Login, SetToken, ClientTypeOK
<1>2. client' = [client EXCEPT !.token = IF step = "login" THEN granted' ELSE granted]
  BY DEF Login, SetToken
<1> QED
  BY <1>1, <1>2 DEF Clients

\* Where the goroutine comes from, if neither environment nor client change.
LEMMA Moves ==
    ASSUME [Next]_vars, ~Start, ~Login, ~SetEnv, ~Renewed, ~SetToken
    PROVE  /\ step' \in {"setenv", "settoken", "watch"} => UNCHANGED <<step, granted>>
           /\ step' = "login" => step \in {"login", "sleep"}
           /\ step' = "sleep" => step \in {"watch", "sleep"}
           /\ step' = "ended" => step = "ended" \/ (step = "login" /\ client.authMode # "token")
           /\ step' = "static" => step = "static"
<1>1. CASE UNCHANGED <<client, step, granted>>
  BY <1>1
<1>2. CASE NotStarted \/ LoginFails \/ Done \/ Wake
  BY <1>2 DEF NotStarted, LoginFails, Done, Wake, Sleep
<1> QED
  BY <1>1, <1>2
  DEF Next, vars, routine, Routine, RenewalLost, WatcherRenews, Tick, Outage, Revoke

\* There is no client before Start, and none without it.
LEMMA ClientMade ==
    ASSUME [Next]_vars, ~Start
    PROVE  step' \notin {"start", "off"} => step \notin {"start", "off"}
BY DEF Next, vars, routine, NotStarted, Routine, Login, LoginFails, SetEnv, SetToken, Renewed,
       Done, Wake, RenewalLost, WatcherRenews, Tick, Outage, Revoke, Sleep

\* A user's static token is the one that vals reads.
LEMMA AgreeStart ==
    ASSUME Documented, TypeInv, Start PROVE AgreeInv'
<1> DEFINE c == NewSecretsClient(env)
           own == OwnToken(c)
           tokenOnly == env'[own] # None /\ detectAuthMode(env', own[1]) = "token"
<1>1. /\ env = Given /\ given \in Settings /\ detectBackend(Given) # "unknown"
      /\ env \in [Variables -> Values]
  BY TypeNow DEF TypeInv, RoutineInv, Start, Refused
<1>2. c \in Clients
  BY <1>1, NewClients, TokenAssumption
<1>3. /\ client' = IF tokenOnly THEN [c EXCEPT !.token = env'[own]] ELSE c
      /\ step' = IF tokenOnly THEN "static" ELSE "login"
  BY DEF Start
<1>4. tokenOnly => own = VAULT_TOKEN
  <2>1. CASE c.backend = "vault"
    BY <2>1, OwnTokens
  <2>2. CASE c.backend = "openbao"
    <3>1. own \in Variables /\ own[1] = "OPENBAO" /\ own # VAULT_TOKEN
      BY <2>2, OwnTokens
    <3>2. own \notin given
      BY <1>1, <3>1 DEF Documented
    <3>3. env[own] = None
      BY <1>1, <3>1, <3>2, GivenFacts, TokenAssumption
    <3>4. CopyForVals
      BY <2>2 DEF Start
    <3>5. own # VAULT_ADDR
      BY <2>2, OwnTokens
    <3>6. env'[own] = None
      BY <1>1, <3>1, <3>3, <3>4, <3>5 DEF CopyForVals
    <3> QED
      BY <3>6
  <2> QED
    BY <1>2, <2>1, <2>2 DEF Clients
<1>5. CASE tokenOnly
  <2>1. client'.token = env'[VAULT_TOKEN] /\ step' = "static"
    <3> HIDE DEF c, own
    <3> QED
      BY <1>2, <1>3, <1>4, <1>5 DEF Clients
  <2> QED
    BY <2>1 DEF AgreeInv, TokensAgree
\* Without a user's token, neither vals nor the client has one.
<1>6. CASE ~tokenOnly
  <2>1. client' = c /\ step' = "login"
    BY <1>3, <1>6
  <2>2. ASSUME c.authMode # "token" PROVE env'[VAULT_TOKEN] = c.token
    <3>1. env[VAULT_TOKEN] = None /\ env[BAO_TOKEN] = None /\ c.token = None
      BY <2>2 DEF NewSecretsClient, NewVaultClient, NewOpenBaoClient, Client, detectAuthMode,
         Available, Needs, getEnvWithPrefix, altPrefix, VAULT_TOKEN, BAO_TOKEN
    <3>2. UNCHANGED env \/ CopyForVals
      BY DEF Start
    <3> QED
      BY <1>1, <3>1, <3>2, VariableFacts DEF CopyForVals
  <2> QED
    BY <2>1, <2>2 DEF AgreeInv, TokensAgree
<1> QED
  BY <1>5, <1>6

LEMMA AgreeStep ==
    ASSUME Documented, TypeInv, AgreeInv, [Next]_vars PROVE AgreeInv'
<1>1. CASE Start
  BY <1>1, AgreeStart
<1>2. CASE SetEnv \/ Renewed
  <2>1. Publish /\ UNCHANGED <<client, granted>> /\ step \in {"setenv", "watch"}
        /\ step' = IF step = "setenv" THEN "settoken" ELSE "watch"
    BY <1>2 DEF SetEnv, Renewed
  <2>2. env'[VAULT_TOKEN] = granted
    BY <2>1, TypeNow, VariableFacts DEF Publish
  <2> QED
    BY <2>1, <2>2 DEF AgreeInv, TokensAgree
<1>3. CASE Login
  <2>1. client'.token = granted' /\ step' = "setenv"
    BY <1>3, ClientWrites DEF Login
  <2> QED
    BY <2>1 DEF AgreeInv, TokensAgree
<1>4. CASE SetToken
  <2>1. client'.token = granted
    BY <1>4, ClientWrites DEF SetToken
  <2>2. /\ step = "settoken" /\ UNCHANGED env /\ step' \in {"watch", "sleep"}
        /\ step' = "watch" => UNCHANGED granted
    BY <1>4 DEF SetToken, Sleep
  <2>3. env[VAULT_TOKEN] = granted
    BY <2>2 DEF AgreeInv, TokensAgree
  <2> QED
    BY <2>1, <2>2, <2>3 DEF AgreeInv, TokensAgree
<1>5. CASE ~(Start \/ Login \/ SetEnv \/ Renewed \/ SetToken)
  <2>1. UNCHANGED <<env, client>>
    BY <1>5, EnvWriters
  <2>2. step' \notin {"start", "off"} => step \notin {"start", "off"}
    BY <1>5, ClientMade
  <2>3. /\ step' \in {"setenv", "settoken", "watch"} => UNCHANGED <<step, granted>>
        /\ step' = "login" => step \in {"login", "sleep"}
        /\ step' = "sleep" => step \in {"watch", "sleep"}
        /\ step' = "ended" => step = "ended" \/ (step = "login" /\ client.authMode # "token")
        /\ step' = "static" => step = "static"
    BY <1>5, Moves
  <2>4. step' \in {"start", "off", "login", "setenv", "settoken", "watch", "sleep",
                   "ended", "static"}
    BY TypeStep, TypeNow DEF TypeInv, TypeOK
  <2> QED
    BY <2>1, <2>2, <2>3, <2>4 DEF AgreeInv, TokensAgree
<1> QED
  BY <1>1, <1>2, <1>3, <1>4, <1>5

\* vals and the database client authenticate with the same token, whatever was
\* revoked, expired or lost and wherever the goroutine is, but in the two windows
\* that TokensAgree names, provided that the user sets no OPENBAO_ variable.
THEOREM TokensCorrect == ASSUME Documented PROVE Spec => []TokensAgree
<1>1. Init => AgreeInv
  BY DEF Init, AgreeInv, TokensAgree
<1>2. TypeInv /\ AgreeInv /\ [Next]_vars => AgreeInv'
  BY AgreeStep
<1>3. AgreeInv => TokensAgree
  BY DEF AgreeInv
<1> QED
  BY <1>1, <1>2, <1>3, TypeInit, TypeStep, PTL DEF Spec

LEMMA StoresStart ==
    ASSUME TypeInv, Start PROVE StoresAgree'
<1> DEFINE c == NewSecretsClient(env)
<1>1. /\ env = Given /\ given \in Settings /\ detectBackend(Given) # "unknown"
      /\ env \in [Variables -> Values] /\ UNCHANGED given
  BY TypeNow DEF TypeInv, RoutineInv, Start, Refused
<1>2. /\ c \in Clients
      /\ c.backend = "openbao" => c.address = BAO_ADDR /\ BAO_ADDR \in given
      /\ c.backend = "vault" => c.address = VAULT_ADDR /\ VAULT_ADDR \in given
  BY <1>1, NewClients, TokenAssumption
<1>3. client'.address = c.address
  <2>1. \E x : client' = [c EXCEPT !.token = x] \/ client' = c
    BY DEF Start
  <2> HIDE DEF c
  <2> QED
    BY <1>2, <2>1 DEF Clients
<1>4. CASE c.backend = "openbao"
  <2>1. CopyForVals
    BY <1>4 DEF Start
  <2>2. env'[VAULT_ADDR] = IF env[VAULT_ADDR] = None THEN env[BAO_ADDR] ELSE env[VAULT_ADDR]
    BY <1>1, <2>1, VariableFacts DEF CopyForVals
  <2>3. VAULT_ADDR \notin given => env[VAULT_ADDR] = None
    BY <1>1, GivenFacts, TokenAssumption, VariableFacts
  <2>4. env[BAO_ADDR] = BAO_ADDR
    BY <1>1, <1>2, <1>4, GivenFacts, TokenAssumption, VariableFacts
  <2> QED
    BY <1>1, <1>2, <1>3, <1>4, <2>2, <2>3, <2>4 DEF StoresAgree
<1>5. CASE c.backend = "vault"
  <2>1. UNCHANGED env
    BY <1>5 DEF Start
  <2>2. env[VAULT_ADDR] = VAULT_ADDR
    BY <1>1, <1>2, <1>5, GivenFacts, TokenAssumption, VariableFacts
  <2> QED
    BY <1>2, <1>3, <1>5, <2>1, <2>2 DEF StoresAgree
<1> QED
  BY <1>2, <1>4, <1>5 DEF Clients

LEMMA StoresStep ==
    ASSUME TypeInv, StoresAgree, [Next]_vars PROVE StoresAgree'
<1>1. CASE Start
  BY <1>1, StoresStart
<1>2. CASE (SetEnv \/ Renewed) /\ Publish /\ UNCHANGED <<client, granted, given>>
  <2>1. client \in Clients
    BY <1>2, TypeNow DEF SetEnv, Renewed, ClientTypeOK
  <2>2. OwnToken(client) # VAULT_ADDR /\ VAULT_TOKEN # VAULT_ADDR
    BY <2>1, OwnTokens, VariableFacts DEF Clients
  <2>3. env'[VAULT_ADDR] = env[VAULT_ADDR]
    BY <1>2, <2>2, TypeNow, VariableFacts DEF Publish
  <2>4. step \notin {"start", "off"}
    BY <1>2 DEF SetEnv, Renewed
  <2> QED
    BY <1>2, <2>3, <2>4 DEF StoresAgree
<1>3. CASE (Login \/ SetToken) /\ UNCHANGED <<env, given>>
  BY <1>3, ClientWrites DEF StoresAgree
<1>4. CASE UNCHANGED <<env, client, given>> /\ ~Start
  <2>1. step' \notin {"start", "off"} => step \notin {"start", "off"}
    BY <1>4, ClientMade
  <2> QED
    BY <1>4, <2>1 DEF StoresAgree
<1> QED
  BY <1>1, <1>2, <1>3, <1>4, EnvWriters

\* vals reads from the store that the operator logs in to, unless the user gives
\* the addresses of both: no renewal and no new login changes the address.
THEOREM StoresCorrect == Spec => []StoresAgree
<1>1. Init => StoresAgree
  BY DEF Init, StoresAgree
<1>2. TypeInv /\ StoresAgree /\ [Next]_vars => StoresAgree'
  BY StoresStep
<1> QED
  BY <1>1, <1>2, TypeInit, TypeStep, PTL DEF Spec

-----------------------------------------------------------------------------
(* Logging in *)

Prefix(backend) == IF backend = "openbao" THEN "BAO" ELSE "VAULT"

\* What a login reads is not what the goroutine writes.
LEMMA ReadyAlways ==
    ASSUME TypeInv, LoginInv, step = "login"
    PROVE  Ready <=> CanLogin(Given, Prefix(client.backend), client.authMode)
<1>1. \A key \in {"ROLE_ID", "SECRET_ID", "LOGIN_PASSWORD"},
         prefix \in {"VAULT", "BAO"} :
        <<prefix, key>> \in Variables /\ env[<<prefix, key>>] = Given[<<prefix, key>>]
  BY DEF TypeInv, RoutineInv, Variables, Keys
<1>2. \A mode : \A prefix \in {"VAULT", "BAO"} :
        CanLogin(env, prefix, mode) <=> CanLogin(Given, prefix, mode)
  BY <1>1 DEF CanLogin, loginKubernetes, loginAppRole, loginUserPass, Available, Needs,
              getEnvWithPrefix, altPrefix
<1> QED
  BY <1>2 DEF Ready, OpenBaoCanLogin, VaultCanLogin, Prefix

\* A user who keeps to one backend has what its way to log in takes.
LEMMA UnmixedIsReady ==
    ASSUME TokenAssumption, given \in Settings, Unmixed, detectBackend(Given) # "unknown",
           NEW c, c = NewSecretsClient(Given), c.authMode # "token"
    PROVE  CanLogin(Given, Prefix(c.backend), c.authMode)
<1>1. PICK prefix \in {"VAULT", "BAO"} :
        /\ \A v \in given : v[1] = prefix
        /\ \E mode \in DOMAIN Needs : \A key \in Needs[mode] : <<prefix, key>> \in given
  BY DEF Unmixed
<1>2. \A v \in Variables : Given[v] # None <=> v \in given
  BY GivenFacts
<1>3. /\ Prefix(c.backend) = prefix
      /\ c.authMode = detectAuthMode(Given, prefix)
  <2>1. CASE detectBackend(Given) = "openbao"
    <3>1. BAO_ADDR \in given /\ c = Client(Given, "openbao", "BAO")
      BY <1>2, <2>1, VariableFacts DEF detectBackend, NewSecretsClient, NewOpenBaoClient
    <3>2. prefix = "BAO"
      BY <1>1, <3>1, VariableFacts
    <3> QED
      BY <3>1, <3>2 DEF Client, Prefix
  <2>2. CASE detectBackend(Given) # "openbao"
    <3>1. VAULT_ADDR \in given /\ c = Client(Given, "vault", "VAULT")
      BY <1>2, <2>2, VariableFacts DEF detectBackend, NewSecretsClient, NewVaultClient
    <3>2. prefix = "VAULT"
      BY <1>1, <3>1, VariableFacts
    <3> QED
      BY <3>1, <3>2 DEF Client, Prefix
  <2> QED
    BY <2>1, <2>2
<1>4. \A key \in Keys : /\ <<prefix, key>> \in Variables
                        /\ <<altPrefix[prefix], key>> \notin given
  BY <1>1 DEF altPrefix, Variables
<1>5. \A key \in Keys : getEnvWithPrefix(Given, prefix, key) # None <=> <<prefix, key>> \in given
  BY <1>2, <1>4, Lookup DEF getEnvWithPrefix, altPrefix, Variables
<1>6. \A mode \in DOMAIN Needs :
        Available(Given, prefix, mode) <=> \A key \in Needs[mode] : <<prefix, key>> \in given
  BY <1>5 DEF Available, Needs, Keys
<1>7. \E mode \in DOMAIN Needs : Available(Given, prefix, mode)
  BY <1>1, <1>6
<1>8. Available(Given, prefix, c.authMode) /\ c.authMode \in {"userpass", "approle", "kubernetes"}
  BY <1>3, <1>7 DEF detectAuthMode, Needs
<1>9. /\ c.authMode = "userpass" => Given[<<prefix, "LOGIN_PASSWORD">>] # None
      /\ c.authMode = "approle" => Given[<<prefix, "SECRET_ID">>] # None
  BY <1>2, <1>4, <1>6, <1>8 DEF Needs, Keys
<1> QED
  BY <1>3, <1>8, <1>9 DEF CanLogin, loginKubernetes, loginAppRole, loginUserPass

LEMMA LoginStep ==
    ASSUME TypeInv, LoginInv, [Next]_vars PROVE LoginInv'
<1>1. given' = given /\ Given' = Given /\ given \in Settings
  BY EnvWriters, TypeNow DEF Given
<1>2. left' = Budget => left = Budget /\ UNCHANGED up
  <2>1. left \in 0 .. Budget
    BY TypeNow
  <2>2. \/ UNCHANGED <<left, up>>
        \/ left > 0 /\ left' = left - 1
    BY DEF Next, vars, routine, NotStarted, Start, Routine, Login, LoginFails, SetEnv, SetToken,
           Renewed, Done, Wake, RenewalLost, WatcherRenews, Tick, Outage, Revoke, Disturb
  <2> QED
    BY <2>1, <2>2, ConstantTypes
<1>3. step' \notin {"start", "off"} =>
        /\ detectBackend(Given) # "unknown"
        /\ client'.backend = NewSecretsClient(Given).backend
        /\ client'.authMode = NewSecretsClient(Given).authMode
  <2>1. CASE Start
    <3> DEFINE c == NewSecretsClient(Given)
    <3>1. env = Given /\ detectBackend(Given) # "unknown"
      BY <2>1 DEF TypeInv, RoutineInv, Start, Refused
    <3>2. c \in Clients
      BY <1>1, <3>1, NewClients, TokenAssumption
    <3>3. \E x : client' = [c EXCEPT !.token = x] \/ client' = c
      BY <2>1, <3>1 DEF Start
    <3> HIDE DEF c
    <3>4. client'.backend = c.backend /\ client'.authMode = c.authMode
      BY <3>2, <3>3 DEF Clients
    <3> QED
      BY <3>1, <3>4 DEF c
  <2>2. CASE Login \/ SetToken
    BY <2>2, ClientWrites DEF LoginInv
  <2>3. CASE ~Start /\ ~Login /\ ~SetToken
    <3>1. UNCHANGED client
      BY <2>3, EnvWriters
    <3>2. step' \notin {"start", "off"} => step \notin {"start", "off"}
      BY <2>3, ClientMade
    <3> QED
      BY <3>1, <3>2 DEF LoginInv
  <2> QED
    BY <2>1, <2>2, <2>3
<1>4. UnmixedLogsIn'
  <2> SUFFICES ASSUME step' = "ended", left' = Budget PROVE ~Unmixed
    BY <1>1 DEF UnmixedLogsIn, Unmixed
  <2>1. CASE LoginFails
    <3>1. step = "login" /\ client.authMode # "token" /\ ~Ready
      BY <1>2, <2>1 DEF LoginFails, LoginInv
    <3>2. ~CanLogin(Given, Prefix(client.backend), client.authMode)
      BY <3>1, ReadyAlways
    <3> DEFINE c == NewSecretsClient(Given)
    <3>3. /\ detectBackend(Given) # "unknown"
          /\ c.backend = client.backend /\ c.authMode = client.authMode
      BY <3>1 DEF LoginInv
    <3>4. Unmixed => CanLogin(Given, Prefix(c.backend), c.authMode)
      BY <1>1, <3>1, <3>3, UnmixedIsReady, TokenAssumption
    <3> QED
      BY <3>2, <3>3, <3>4
  <2>2. CASE ~LoginFails
    <3>1. step = "ended"
      BY <2>2 DEF Next, vars, routine, NotStarted, Start, Routine, Login, SetEnv, SetToken,
             Renewed, Done, Wake, RenewalLost, WatcherRenews, Tick, Outage, Revoke, Sleep
    <3> QED
      BY <1>2, <3>1 DEF LoginInv, UnmixedLogsIn
  <2> QED
    BY <2>1, <2>2
<1>5. left' = Budget => up'
  BY <1>2, Zenon DEF LoginInv
<1> QED
  BY <1>1, <1>3, <1>4, <1>5 DEF LoginInv

\* A user who keeps to the variables of one backend, and gives those of some way to
\* log in, is logged in: only an outage ends the goroutine.
THEOREM LoginsSucceed == Spec => []UnmixedLogsIn
<1>1. Init => LoginInv
  BY Zenon DEF Init, LoginInv, UnmixedLogsIn
<1>2. TypeInv /\ LoginInv /\ [Next]_vars => LoginInv'
  BY LoginStep
<1>3. LoginInv => UnmixedLogsIn
  BY DEF LoginInv
<1> QED
  BY <1>1, <1>2, <1>3, TypeInit, TypeStep, PTL DEF Spec

-----------------------------------------------------------------------------
(* How many tokens are alive *)

LEMMA Counting ==
    ASSUME NEW S \in SUBSET Tokens, NEW T \in SUBSET Tokens
    PROVE  /\ Cardinality(S) \in Nat
           /\ S \subseteq T => Cardinality(S) <= Cardinality(T)
           /\ \A t : S \subseteq T \cup {t} => Cardinality(S) <= Cardinality(T) + 1
<1>1. IsFiniteSet(Tokens)
  BY TokenAssumption
<1>2. IsFiniteSet(S) /\ IsFiniteSet(T)
  BY <1>1, FS_Subset
<1>3. Cardinality(S) \in Nat /\ Cardinality(T) \in Nat
  BY <1>2, FS_CardinalityType
<1>4. ASSUME NEW t, S \subseteq T \cup {t} PROVE Cardinality(S) <= Cardinality(T) + 1
  <2>1. IsFiniteSet(T \cup {t}) /\ Cardinality(T \cup {t}) <= Cardinality(T) + 1
    <3>1. IsFiniteSet(T \cup {t})
      BY <1>2, FS_AddElement
    <3>2. Cardinality(T \cup {t}) = Cardinality(T) \/ Cardinality(T \cup {t}) = Cardinality(T) + 1
      BY <1>2, FS_AddElement
    <3> QED
      BY <1>3, <3>1, <3>2
  <2>2. Cardinality(S) <= Cardinality(T \cup {t})
    <3>1. S \in SUBSET (T \cup {t})
      BY <1>4
    <3> QED
      BY <2>1, <3>1, FS_Subset
  <2>3. Cardinality(T \cup {t}) \in Nat
    BY <2>1, FS_CardinalityType
  <2> QED
    BY <1>3, <2>1, <2>2, <2>3
<1> QED
  BY <1>2, <1>3, <1>4, FS_Subset

\* Sleeps are whole numbers of ticks.
LEMMA Sleeps ==
    ASSUME NEW j \in Nat
    PROVE  /\ j * Nap \in Nat /\ j <= j * Nap
           /\ j > 0 => j - 1 \in Nat /\ (j - 1) * Nap = j * Nap - Nap
BY ConstantTypes

LEMMA RemainingTokens ==
    \A j : Remaining(j) \subseteq Tokens /\ Remaining(j)' \subseteq Tokens
BY DEF Remaining, Over

\* Nothing counts that did not count before, if no token of the past lives longer.
LEMMA CountFewer ==
    ASSUME CountInv, \A j \in 0 .. Term + 1 : Remaining(j)' \subseteq Remaining(j)
    PROVE  CountInv'
<1> SUFFICES ASSUME NEW j \in 0 .. Term + 1 PROVE Cardinality(Remaining(j)') <= j
  BY DEF CountInv
<1>1. Cardinality(Remaining(j)) <= j
  BY DEF CountInv
<1>2. Cardinality(Remaining(j)') <= Cardinality(Remaining(j))
  BY RemainingTokens, Counting
<1>3. Cardinality(Remaining(j)') \in Nat /\ Cardinality(Remaining(j)) \in Nat
  BY RemainingTokens, Counting
<1> QED
  BY <1>1, <1>2, <1>3, ConstantTypes

\* A sleep begins: the token that the goroutine had counts from now on.
LEMMA CountSleep ==
    ASSUME TypeInv, CountInv, step # "sleep", Sleep, UNCHANGED life
    PROVE  CountInv'
<1> SUFFICES ASSUME NEW j \in 0 .. Term + 1 PROVE Cardinality(Remaining(j)') <= j
  BY DEF CountInv
<1>1. Remaining(j)' = Over(Term - j * Nap)
  <2>1. j * Nap \in Nat
    BY Sleeps, ConstantTypes
  <2>2. Term - (Nap - Nap) - j * Nap = Term - j * Nap
    BY <2>1, ConstantTypes
  <2> QED
    BY <2>2 DEF Remaining, Sleep, Over
<1>2. life \in [Tokens -> 0 .. Term]
  BY TypeNow
<1>3. CASE j = 0
  <2>1. Term - j * Nap = Term
    BY <1>3, ConstantTypes
  <2>2. Remaining(j)' = {}
    BY <1>1, <1>2, <2>1, ConstantTypes DEF Over
  <2> QED
    BY <1>3, <2>2, FS_EmptySet
<1>4. CASE j > 0
  <2>1. j - 1 \in 0 .. Term + 1 /\ (j - 1) * Nap = j * Nap - Nap /\ j * Nap \in Nat
    BY <1>4, Sleeps, ConstantTypes
  <2>2. Term - Nap - (j - 1) * Nap = Term - j * Nap
    BY <2>1, ConstantTypes
  <2>3. Remaining(j - 1) = Over(Term - j * Nap) \ {granted}
    BY <2>2 DEF Remaining
  <2>4. Remaining(j)' \subseteq Remaining(j - 1) \cup {granted}
    BY <1>1, <2>3
  <2>5. Cardinality(Remaining(j)') <= Cardinality(Remaining(j - 1)) + 1
    BY <2>4, RemainingTokens, Counting
  <2>6. Cardinality(Remaining(j - 1)) <= j - 1
    BY <2>1 DEF CountInv
  <2>7. Cardinality(Remaining(j)') \in Nat /\ Cardinality(Remaining(j - 1)) \in Nat
    BY RemainingTokens, Counting
  <2> QED
    BY <2>5, <2>6, <2>7
<1> QED
  BY <1>3, <1>4, ConstantTypes

LEMMA CountTick ==
    ASSUME TypeInv, CountInv, Tick PROVE CountInv'
<1>1. life \in [Tokens -> 0 .. Term] /\ nap \in 0 .. Nap
  BY TypeNow
<1>2. \A t \in Tokens : life'[t] = Elapsed(life[t])
  BY DEF Tick
<1>3. ASSUME NEW j \in 0 .. Term + 1, NEW t \in Remaining(j)' PROVE t \in Remaining(j)
  <2>1. j * Nap \in Nat
    BY Sleeps, ConstantTypes
  <2>2. t \in Tokens /\ life'[t] > 0
    BY DEF Remaining, Over
  <2>3. life[t] \in Nat /\ life[t] > 0 /\ life'[t] = life[t] - 1
    BY <1>1, <1>2, <2>2, ConstantTypes DEF Elapsed
  <2>4. CASE step = "sleep"
    <3>1. step' = "sleep" /\ nap' = nap - 1
      BY <2>4 DEF Tick
    <3>2. life'[t] > Term - (Nap - nap') - j * Nap
      BY <3>1 DEF Remaining, Over
    <3>3. life[t] > Term - (Nap - nap) - j * Nap
      BY <1>1, <2>1, <2>3, <3>1, <3>2, ConstantTypes
    <3> QED
      BY <2>2, <2>3, <2>4, <3>3 DEF Remaining, Over
  <2>5. CASE step # "sleep"
    <3>1. step' # "sleep" /\ granted' = granted
      BY <2>5 DEF Tick
    <3>2. life'[t] > Term - Nap - j * Nap /\ t # granted
      BY <3>1 DEF Remaining, Over
    <3>3. life[t] > Term - Nap - j * Nap
      BY <2>1, <2>3, <3>2, ConstantTypes
    <3> QED
      BY <2>2, <2>3, <2>5, <3>2, <3>3 DEF Remaining, Over
  <2> QED
    BY <2>4, <2>5
<1> QED
  BY <1>3, CountFewer

LEMMA CountLogin ==
    ASSUME TypeInv, CountInv, Login PROVE CountInv'
<1>1. step = "login" /\ step' = "setenv" /\ granted = None
  BY TypeNow DEF Login, RoutineTypeOK
<1>2. \A t \in Tokens \ {granted'} : life'[t] = life[t]
  BY TypeNow DEF Login
<1>3. \A j : Remaining(j)' \subseteq Remaining(j)
  BY <1>1, <1>2, ConstantTypes DEF Remaining, Over
<1> QED
  BY <1>3, CountFewer

\* The sleep ends, with as many ticks gone as the formula for the other steps has.
LEMMA CountWake ==
    ASSUME TypeInv, CountInv, Wake PROVE CountInv'
<1>1. step = "sleep" /\ step' = "login" /\ nap = 0 /\ UNCHANGED <<granted, life>>
  BY DEF Wake
<1>2. Term - (Nap - nap) = Term - Nap
  BY <1>1, ConstantTypes
<1>3. \A j : Remaining(j)' \subseteq Remaining(j)
  BY <1>1, <1>2 DEF Remaining, Over
<1> QED
  BY <1>3, CountFewer

LEMMA CountStep ==
    ASSUME TypeInv, CountInv, [Next]_vars PROVE CountInv'
<1>1. CASE Tick \/ Login \/ Wake
  BY <1>1, CountTick, CountLogin, CountWake
<1>2. CASE Done \/ (SetToken /\ Sleep)
  <2>1. step # "sleep" /\ Sleep /\ UNCHANGED life
    BY <1>2 DEF Done, SetToken
  <2> QED
    BY <2>1, CountSleep
<1>3. CASE WatcherRenews \/ \E t \in Tokens : Revoke(t)
  <2>1. /\ UNCHANGED <<step, granted, nap>>
        /\ life \in [Tokens -> 0 .. Term]
    BY <1>3, TypeNow DEF WatcherRenews, Revoke, routine
  <2>2. \A t \in Tokens : \/ life'[t] \in {life[t], 0}
                          \/ t = granted /\ step = "watch"
    BY <1>3, <2>1 DEF WatcherRenews, Revoke
  <2>3. ASSUME NEW j \in 0 .. Term + 1, NEW t \in Remaining(j)' PROVE t \in Remaining(j)
    <3>1. t \in Tokens /\ life'[t] > 0
      BY DEF Remaining, Over
    <3>2. step # "sleep" => t # granted
      BY <2>1 DEF Remaining
    <3>3. life'[t] = life[t]
      BY <2>2, <3>1, <3>2
    <3> QED
      BY <2>1, <3>3 DEF Remaining, Over
  <2> QED
    BY <2>3, CountFewer
<1>4. CASE \/ NotStarted \/ Start \/ LoginFails \/ SetEnv \/ (SetToken /\ ~Sleep)
           \/ Renewed \/ RenewalLost \/ Outage \/ UNCHANGED vars
  <2>1. /\ UNCHANGED <<granted, nap, life>>
        /\ step = "sleep" <=> step' = "sleep"
    BY <1>4 DEF NotStarted, Start, LoginFails, SetEnv, SetToken, Renewed, RenewalLost, Outage,
                vars, routine
  <2>2. \A j : Remaining(j)' \subseteq Remaining(j)
    BY <2>1 DEF Remaining, Over
  <2> QED
    BY <2>2, CountFewer
<1> QED
  BY <1>1, <1>2, <1>3, <1>4 DEF Next, Routine

\* What CountInv says of all tokens that are alive.
LEMMA CountBound ==
    ASSUME TypeInv, CountInv PROVE FewTokens
<1> DEFINE n == Term \div Nap
           Alive == {t \in Tokens : life[t] > 0}
<1>1. /\ n \in Nat /\ n <= Term /\ Term < (n + 1) * Nap /\ (n + 1) * Nap \in Nat
      /\ n * Nap = (n + 1) * Nap - Nap
  <2>1. n \in Nat /\ n * Nap <= Term /\ Term < n * Nap + Nap
    BY ConstantTypes, Z3
  <2>2. n <= n * Nap /\ n * Nap \in Nat /\ (n + 1) * Nap = n * Nap + Nap
    BY <2>1, ConstantTypes, Z3
  <2> QED
    BY <2>1, <2>2, ConstantTypes
<1> HIDE DEF n
<1>2. life \in [Tokens -> 0 .. Term] /\ nap \in 0 .. Nap
  BY TypeNow
<1>3. CASE step = "sleep"
  <2>1. Term - (Nap - nap) - (n + 1) * Nap < 0
    BY <1>1, <1>2, ConstantTypes
  <2>2. Alive \subseteq Remaining(n + 1)
    BY <1>2, <1>3, <2>1, <1>1, ConstantTypes DEF Remaining, Over
  <2>3. Cardinality(Remaining(n + 1)) <= n + 1
    BY <1>1, ConstantTypes DEF CountInv
  <2>4. Cardinality(Alive) <= Cardinality(Remaining(n + 1))
    BY <2>2, RemainingTokens, Counting
  <2>5. Cardinality(Alive) \in Nat /\ Cardinality(Remaining(n + 1)) \in Nat
    BY RemainingTokens, Counting
  <2> QED
    BY <1>1, <2>3, <2>4, <2>5 DEF FewTokens, n
<1>4. CASE step # "sleep"
  <2>1. Term - Nap - n * Nap < 0
    BY <1>1, ConstantTypes
  <2>2. Alive \subseteq Remaining(n) \cup {granted}
    BY <1>2, <1>4, <2>1, <1>1, ConstantTypes DEF Remaining, Over
  <2>3. Cardinality(Remaining(n)) <= n
    BY <1>1, ConstantTypes DEF CountInv
  <2>4. Cardinality(Alive) <= Cardinality(Remaining(n)) + 1
    BY <2>2, RemainingTokens, Counting
  <2>5. Cardinality(Alive) \in Nat /\ Cardinality(Remaining(n)) \in Nat
    BY RemainingTokens, Counting
  <2> QED
    BY <1>1, <2>3, <2>4, <2>5 DEF FewTokens, n
<1> QED
  BY <1>3, <1>4

\* However often the goroutine logs in, because tokens cannot be renewed or are
\* revoked, the tokens alive are no more than the sleeps in the life of one, and
\* one more.
THEOREM TokensStayFew == Spec => []FewTokens
<1>1. Init => CountInv
  <2> SUFFICES ASSUME Init, NEW j \in 0 .. Term + 1 PROVE Cardinality(Remaining(j)) <= j
    BY DEF CountInv
  <2>1. Remaining(j) = {}
    BY DEF Init, Remaining, Over
  <2> QED
    BY <2>1, FS_EmptySet
<1>2. TypeInv /\ CountInv /\ [Next]_vars => CountInv'
  BY CountStep
<1>3. TypeInv /\ CountInv => FewTokens
  BY CountBound
<1> QED
  BY <1>1, <1>2, <1>3, TypeInit, TypeStep, PTL DEF Spec

=============================================================================
