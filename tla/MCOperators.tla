----------------------------- MODULE MCOperators -----------------------------
(***************************************************************************)
(* The functions that the controllers compute with, over small inputs.  A  *)
(* behaviour is about one of them: a user edits the annotations of a       *)
(* ValsSecret and the controller writes those of its Secret; a ValsSecret  *)
(* fails again and again; the lists of namespaces, the databases of a      *)
(* ValsSecret or the mount of a DbSecret are what they are.                *)
(***************************************************************************)
EXTENDS SecretMaps, Backoff, Namespaces, PasswordSync, LeaseIds, SequencesExt

CONSTANT MaxErrors   \* bound: failures in a row

VARIABLES has, wanted,  \* annotations of the Secret, and of the ValsSecret
          errors,       \* failures in a row
          text,         \* a list of namespaces
          dbs,          \* the databases of a ValsSecret
          mount         \* of a DbSecret

opVars == <<has, wanted, errors, text, dbs, mount>>

Texts == BoundedSeq(Items, 2) \ {<<>>}

\* What may be before or after a database that needs nothing but a call.
Easy == [driver |-> "postgres", login |-> "found", credentials |-> TRUE, hosts |-> <<"ok">>]
SomeDatabases ==
    [driver : Drivers, login : {"unnamed", "missing", "found"}, credentials : BOOLEAN,
     hosts : BoundedSeq(Hosts, 2)]
SomeLists == {<<d, Easy>> : d \in SomeDatabases} \cup {<<Easy, d>> : d \in SomeDatabases}

NoMap == [k \in {} |-> Now]

Init ==
    \/ /\ has \in Maps /\ wanted \in Maps
       /\ errors = 0 /\ text = EmptyText /\ dbs = <<>> /\ mount = <<"db">>
    \/ /\ text \in Texts
       /\ has = NoMap /\ wanted = NoMap /\ errors = 0 /\ dbs = <<>> /\ mount = <<"db">>
    \/ /\ dbs \in SomeLists
       /\ has = NoMap /\ wanted = NoMap /\ errors = 0 /\ text = EmptyText /\ mount = <<"db">>
    \/ /\ mount \in BoundedSeq({"db", "team"}, 4) \ {<<>>}
       /\ has = NoMap /\ wanted = NoMap /\ errors = 0 /\ text = EmptyText /\ dbs = <<>>

Edit ==
    /\ \E k \in MapKeys : wanted' = [j \in DOMAIN wanted \ {k} |-> wanted[j]]
    /\ UNCHANGED <<has, errors, text, dbs, mount>>

Sync ==
    /\ AnnotationsDiffer(has, wanted)
    /\ has' = Written(has, wanted)
    /\ UNCHANGED <<wanted, errors, text, dbs, mount>>

Fail ==
    /\ has = NoMap /\ wanted = NoMap /\ text = EmptyText /\ dbs = <<>> /\ mount = <<"db">>
    /\ errors < MaxErrors /\ errors' = errors + 1
    /\ UNCHANGED <<has, wanted, text, dbs, mount>>

Next == Edit \/ Sync \/ Fail

Spec == Init /\ [][Next]_opVars

-----------------------------------------------------------------------------
(* Maps *)

\* ByteMapsMatch is equality: no change of a Secret's data goes unnoticed, and
\* none is seen where there is none (utils.go lines 49-68).
MatchIsEquality == ByteMapsMatch(has, wanted) <=> has = wanted

\* Comparing annotations does not depend on which map comes first, and the two
\* annotations that the operator and kubectl write make no difference.
MatchIsFair ==
    /\ AnnotationsDiffer(has, wanted) <=> AnnotationsDiffer(wanted, has)
    /\ AnnotationsDiffer(has, wanted) <=>
         \E k \in MapKeys \ Ignored :
            (k \in DOMAIN has) # (k \in DOMAIN wanted)
              \/ (k \in DOMAIN has \cap DOMAIN wanted /\ has[k] # wanted[k])

\* After a write, the Secret is up to date, or it had a stale annotation, which
\* makes every later reconcile write it again.
SettlesUnlessStale ==
    [][Sync => (AnnotationsDiffer(has', wanted') <=> Stale(has, wanted) # {})]_opVars

-----------------------------------------------------------------------------
(* Delays *)

\* However often a ValsSecret has failed, and whatever overflows on the way, it
\* is tried again after a time between nine tenths of the minimum and eleven of
\* the maximum: never at once, and not never, as a delay below one would mean
\* (valssecret_controller.go lines 515-531).
DelayInRange ==
    errors > 0 => \A d \in Delays(errors) :
                    d > 0 /\ 10 * d >= 9 * minBackoff /\ 10 * d <= 11 * maxBackoff

\* One more failure never shortens the delay, until the count of nanoseconds
\* overflows: then it falls to the minimum and goes where it will.
DelayGrows ==
    [][(errors > 0 /\ errors' = errors + 1 /\ minBackoff + Second * Power(errors') < Limit)
       => \A b \in Backoffs(errors), c \in Backoffs(errors') :
             c >= b]_opVars

-----------------------------------------------------------------------------
(* Namespaces *)

\* No list of namespaces lets a reference through that README.md's table does
\* not, however it is written; a list without blanks between its names means
\* what the table says, and excludes what it names (main.go lines 127-143).
NamespaceTable ==
    /\ \A from, to \in Spaces, disabled \in BOOLEAN :
         LET allowed == isNamespaceSyncAllowed(from, to, disabled, allowedSyncNs(text))
         IN  /\ allowed => MayReference(from, to, disabled, text)
             /\ Tidy(text) /\ MayReference(from, to, disabled, text) => allowed
    /\ \A space \in Spaces, watch \in Texts :
         Reconciled(space, watch, text) =>
           /\ Listed(watch) = {} \/ space \in Listed(watch)
           /\ Tidy(text) => space \notin Listed(text)

-----------------------------------------------------------------------------
(* Passwords *)

Result == updateDatabases(dbs)

\* A database that names a login is given the password or an event says that it
\* was not (valssecret_controller.go lines 363-371, 396-401 and the drivers), as
\* long as no driver has panicked and neither it nor one before it lacks a user
\* name or password in the Secret: lines 380-385 log that one, and all after it
\* are left out in silence.  Not so for elastic and unknown drivers, which report
\* no failure, nor without hosts.
FailuresAreReported ==
    \A d \in DOMAIN dbs :
      dbs[d].driver \in {"postgres", "mysql", "cassandra"}
          /\ dbs[d].hosts # <<>> /\ dbs[d].login # "unnamed"
        => (d \in Result.set \cup Result.failed <=>
              \A e \in 1 .. d : dbs[e].login = "found" =>
                dbs[e].credentials /\ ~UpdateUserPassword(dbs[e]).panics)

\* The comment on Hosts: "they'll be tried in sequence until one succeeds".  One
\* host that takes the password is enough, unless elastic meets one that is down
\* before it.
SomeHostSuffices ==
    \A d \in Tried(dbs) :
      LET hosts == dbs[d].hosts
          good == {i \in DOMAIN hosts : hosts[i] = "ok"}
      IN  good # {} /\ dbs[d].driver # "other"
            /\ (dbs[d].driver = "elastic" =>
                  \A i \in DOMAIN hosts : hosts[i] = "down" => Min(good) < i)
          => d \in Result.set

\* "don't give up just yet, there may be other databases": what happens to one
\* database is what would happen to it alone, unless an earlier one finds no
\* user name or password in the Secret, or a panic ends it all.
DatabasesAreIndependent ==
    \A d \in DOMAIN dbs :
      (\A e \in 1 .. d - 1 : dbs[e].login = "found" =>
          dbs[e].credentials /\ ~UpdateUserPassword(dbs[e]).panics)
      => (d \in Result.set <=> updateDatabases(<<dbs[d]>>).set = {1})

-----------------------------------------------------------------------------
(* Leases *)

\* The id of a lease comes back from its last part, the mount and the role
\* exactly when the mount is a single part: under any other, each lookup asks
\* for a lease that does not exist (dbsecret_controller.go line 360).
LeaseIdReturns ==
    Rebuilt(mount, "role", Kept(LeaseId(mount, "role", "lease")))
      = LeaseId(mount, "role", "lease") <=> Len(mount) = 1
=============================================================================
