------------------------------ MODULE LeaseIds ------------------------------
(***************************************************************************)
(* The last part of a lease's id is what upsertSecret                      *)
(* (dbsecret_controller.go) keeps of it in an annotation; renewLease,      *)
(* revokeLease and isLeaseValid put the id together again from the mount   *)
(* and the role of the DbSecret.  A path is the sequence of its parts.     *)
(***************************************************************************)
EXTENDS Sequences, Naturals

\* Vault's id of the lease it grants for mount/creds/role.
LeaseId(mount, role, lease) == mount \o <<"creds", role, lease>>

\* strings.Split(creds.LeaseId, "/")[3]
Kept_OneBefore(id) == id[3]
Kept(id) == id[4]

Rebuilt(mount, role, kept) == mount \o <<"creds", role, kept>>
=============================================================================
