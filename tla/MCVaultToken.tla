---------------------------- MODULE MCVaultToken ----------------------------
(* A small instance of VaultToken. *)
EXTENDS VaultToken

CONSTANTS k1, k2, k3, k4

FourTokens == {k1, k2, k3, k4}
BothFaults == {"down", "revoke"}
DownFault == {"down"}

Of(keys) == {"VAULT", "BAO"} \X keys

Addresses == SUBSET Of({"ADDR"})

\* Any addresses, with any variables for one of: a token; an AppRole or a
\* Kubernetes role; a user or a Kubernetes role.
AnyBackend ==
    {a \cup s : a \in Addresses,
                s \in SUBSET Of({"TOKEN"}) \cup SUBSET Of({"APP_ROLE", "SECRET_ID"})
                      \cup SUBSET Of({"LOGIN_USER", "LOGIN_PASSWORD"})
                      \cup {{<<p, "ROLE_ID">>} \cup r :
                              p \in {"VAULT", "BAO"},
                              r \in {{}, Of({"TOKEN"}), Of({"SECRET_ID"}),
                                     {"VAULT"} \X Needs["approle"],
                                     {"BAO"} \X Needs["userpass"]}}}
    \cup {{VAULT_ADDR, VAULT_TOKEN, <<"VAULT", "AUTH_METHOD">>}}

\* One role for Kubernetes, in Vault.
OneRole == {{VAULT_ADDR, <<"VAULT", "ROLE_ID">>}}
=============================================================================
