---------------------------- MODULE BackendConfig ----------------------------
(***************************************************************************)
(* How the environment variables of the operator's process choose the      *)
(* secrets store, its client and the client's way to log in                *)
(* (vault/common.go and the constructors and login methods of              *)
(* vault/vault_client.go and vault/openbao_client.go).                     *)
(*                                                                         *)
(* A variable is a pair <<prefix, key>>; an environment maps each to its   *)
(* value, None for one that is unset or empty.                             *)
(***************************************************************************)
CONSTANT None

Keys == {"ADDR", "TOKEN", "LOGIN_USER", "LOGIN_PASSWORD", "APP_ROLE", "SECRET_ID",
         "ROLE_ID", "AUTH_METHOD"}
Variables == {"VAULT", "BAO", "OPENBAO"} \X Keys

VAULT_ADDR == <<"VAULT", "ADDR">>
VAULT_TOKEN == <<"VAULT", "TOKEN">>
BAO_ADDR == <<"BAO", "ADDR">>
BAO_TOKEN == <<"BAO", "TOKEN">>

\* The definitions with an underscore in their name, but for these four, are not
\* part of the model: each is a mistake the code could make, and some property
\* fails with it.

\* Each of the two falls back to the other; OPENBAO falls back to none.
altPrefix == [VAULT |-> "BAO", BAO |-> "VAULT"]

getEnvWithPrefix(env, prefix, key) ==
    IF env[<<prefix, key>>] # None \/ prefix \notin DOMAIN altPrefix
    THEN env[<<prefix, key>>]
    ELSE env[<<altPrefix[prefix], key>>]

\* The variables that each way to log in needs; Kubernetes is the last resort.
Needs == [token |-> {"TOKEN"},
          userpass |-> {"LOGIN_USER", "LOGIN_PASSWORD"},
          approle |-> {"APP_ROLE", "SECRET_ID"},
          kubernetes |-> {"ROLE_ID"}]

Available(env, prefix, mode) ==
    \A key \in Needs[mode] : getEnvWithPrefix(env, prefix, key) # None

detectAuthMode(env, prefix) ==
    IF Available(env, prefix, "token") THEN "token"
    ELSE IF Available(env, prefix, "userpass") THEN "userpass"
    ELSE IF Available(env, prefix, "approle") THEN "approle"
    ELSE "kubernetes"

\* BAO_ADDR takes precedence.
detectBackend(env) ==
    IF env[BAO_ADDR] # None THEN "openbao"
    ELSE IF env[VAULT_ADDR] # None THEN "vault"
    ELSE "unknown"

\* strings.ToUpper(backend.String()), which is no prefix of the documentation
\* for OpenBao.
UpperName == [vault |-> "VAULT", openbao |-> "OPENBAO"]

Client(env, backend, prefix) ==
    [backend |-> backend,
     address |-> getEnvWithPrefix(env, prefix, "ADDR"),
     token |-> getEnvWithPrefix(env, prefix, "TOKEN"),
     authMode |-> detectAuthMode(env, prefix)]

NewVaultClient(env) == Client(env, "vault", "VAULT")
NewOpenBaoClient(env) == Client(env, "openbao", "BAO")

\* Only called when there is a backend.
NewSecretsClient(env) ==
    IF detectBackend(env) = "openbao" THEN NewOpenBaoClient(env) ELSE NewVaultClient(env)

\* The login methods.  Roles and users are looked up with the fallback; the
\* secret id and the password are read by the client library, which is given
\* the name of the backend's own variable.
loginKubernetes(env, prefix) == Available(env, prefix, "kubernetes")
loginAppRole(env, prefix) == env[<<prefix, "SECRET_ID">>] # None
loginUserPass(env, prefix) == env[<<prefix, "LOGIN_PASSWORD">>] # None

CanLogin_NoRole(env, prefix, mode) ==
    \/ mode = "approle" /\ loginAppRole(env, prefix)
    \/ mode = "userpass" /\ loginUserPass(env, prefix)

\* Whether Login has what it sends to a store that can be reached.
CanLogin(env, prefix, mode) ==
    \/ mode = "kubernetes" /\ loginKubernetes(env, prefix)
    \/ mode = "approle" /\ loginAppRole(env, prefix)
    \/ mode = "userpass" /\ loginUserPass(env, prefix)

VaultCanLogin(env, mode) == CanLogin(env, "VAULT", mode)
OpenBaoCanLogin(env, mode) == CanLogin(env, "BAO", mode)
=============================================================================
