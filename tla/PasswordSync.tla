---------------------------- MODULE PasswordSync ----------------------------
(***************************************************************************)
(* How updateDatabases (valssecret_controller.go) goes through the         *)
(* databases of a ValsSecret, and the drivers (db/) through the hosts of   *)
(* one, to set the password that has just been written to the Secret.      *)
(*                                                                         *)
(* A database is a record of its driver, the state of its login Secret,    *)
(* whether the written Secret has the user name and password, and the      *)
(* sequence of its hosts, each named for what it does to a call.           *)
(***************************************************************************)
EXTENDS Sequences, FiniteSetsExt, Naturals

Drivers == {"postgres", "mysql", "cassandra", "elastic", "other"}

\* Cannot be reached, refuses, does the first statement only, does it all.
Hosts == {"down", "refuses", "half", "ok"}

Databases == [driver : Drivers, login : {"unnamed", "missing", "found"},
              credentials : BOOLEAN, hosts : Seq(Hosts)]

\* The definitions with an underscore in their name are not part of the model:
\* each is a mistake the code could make, and some property fails with it.

\* The positions before the first of S, and that one.
Through(S, n) == 1 .. (IF S = {} THEN n ELSE Min(S))

ThatAre(hosts, states) == {i \in DOMAIN hosts : hosts[i] \in states}

\* What a call of a driver does: the hosts whose password it sets, whether it
\* returns an error, whether it panics.
Outcome(set, err, panics) == [set |-> set, err |-> err, panics |-> panics]

UntilSuccess_FirstOnly(hosts, sets) ==
    LET good == ThatAre(hosts, {"ok"})
    IN  Outcome({1} \cap ThatAre(hosts, sets), 1 \notin good /\ hosts # <<>>, FALSE)

\* One host after another until one succeeds; the last error is returned, and
\* none without a host.
UntilSuccess(hosts, sets) ==
    LET good == ThatAre(hosts, {"ok"})
    IN  Outcome(Through(good, Len(hosts)) \cap ThatAre(hosts, sets),
                good = {} /\ hosts # <<>>, FALSE)

\* One statement on a host: to have done half of it is to have failed.
postgres(hosts) == UntilSuccess(hosts, {"ok"})

\* ALTER USER and FLUSH PRIVILEGES: when the second fails the next host is
\* tried, although the password is set.
mysql(hosts) == UntilSuccess(hosts, {"ok", "half"})

\* One session with the cluster, which any host can coordinate; it has one
\* password.
cassandra(hosts) ==
    LET good == ThatAre(hosts, {"ok"})
    IN  Outcome(IF good = {} THEN {} ELSE DOMAIN hosts, good = {}, FALSE)

\* A host that cannot be reached gives no response, whose body is logged: a
\* panic.  The error that is returned at the end is not the one of the calls,
\* which is declared anew in the loop.
elastic(hosts) ==
    LET last == ThatAre(hosts, {"ok", "down"})
    IN  Outcome(Through(last, Len(hosts)) \cap ThatAre(hosts, {"ok"}), FALSE,
                last # {} /\ hosts[Min(last)] = "down")

UpdateUserPassword_NoError(db) == Outcome(postgres(db.hosts).set, FALSE, FALSE)

UpdateUserPassword(db) ==
    CASE db.driver = "cassandra" -> cassandra(db.hosts)
      [] db.driver = "postgres" -> postgres(db.hosts)
      [] db.driver = "mysql" -> mysql(db.hosts)
      [] db.driver = "elastic" -> elastic(db.hosts)
      [] OTHER -> Outcome({}, FALSE, FALSE)

-----------------------------------------------------------------------------
\* The databases that a driver is called for.
Called(dbs) == {d \in DOMAIN dbs : dbs[d].login = "found" /\ dbs[d].credentials}

\* A database without a login Secret is skipped, the next one is tried; without
\* a user name or password in the written Secret, the function returns.
Ends_AtMissing(dbs) ==
    {d \in DOMAIN dbs : \/ dbs[d].login = "missing"
                        \/ dbs[d].login = "found" /\ ~dbs[d].credentials
                        \/ d \in Called(dbs) /\ UpdateUserPassword(dbs[d]).panics}

Ends(dbs) ==
    {d \in DOMAIN dbs : \/ dbs[d].login = "found" /\ ~dbs[d].credentials
                        \/ d \in Called(dbs) /\ UpdateUserPassword(dbs[d]).panics}

\* The databases that the loop gets to, and those of them that it calls.
Reached(dbs) == Through(Ends(dbs), Len(dbs))
Tried(dbs) == Called(dbs) \cap Reached(dbs)

\* The databases some host of which has the new password afterwards, those for
\* which an event says that they failed, if the operator records events, and
\* whether the reconcile panics.  That the Secret lacks a user name or password
\* is logged only.
updateDatabases(dbs) ==
    [set |-> {d \in Tried(dbs) : UpdateUserPassword(dbs[d]).set # {}},
     failed |-> {d \in Reached(dbs) : \/ dbs[d].login = "missing"
                                      \/ d \in Called(dbs) /\ UpdateUserPassword(dbs[d]).err},
     panics |-> \E d \in Tried(dbs) : UpdateUserPassword(dbs[d]).panics]
=============================================================================
