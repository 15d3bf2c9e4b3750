----------------------------- MODULE SecretMaps -----------------------------
(***************************************************************************)
(* The comparison and the merging of maps (utils/utils.go) that decide     *)
(* whether a Secret is written (secretNeedsUpdate, upsertSecret).  A map   *)
(* is a function with a finite domain.                                     *)
(***************************************************************************)
EXTENDS FiniteSets

CONSTANTS
    MapKeys,     \* keys of data, labels and annotations
    MapValues,
    LastUpdated, \* the annotation that records the time of the last write
    LastApplied, \* kubectl's last-applied-configuration
    Now          \* the value that last-updated is given

ASSUME MapsAssumption ==
    /\ LastUpdated \in MapKeys /\ LastApplied \in MapKeys
    /\ LastUpdated # LastApplied
    /\ Now \in MapValues

Maps == UNION {[D -> MapValues] : D \in SUBSET MapKeys}

\* The definitions with an underscore in their name are not part of the model:
\* each is a mistake the code could make, and some property fails with it.
ByteMapsMatch_OneWay(m1, m2) ==
    \A k \in DOMAIN m1 : k \in DOMAIN m2 /\ m2[k] = m1[k]

ByteMapsMatch(m1, m2) ==
    /\ Cardinality(DOMAIN m1) = Cardinality(DOMAIN m2)
    /\ \A k \in DOMAIN m1 : k \in DOMAIN m2 /\ m2[k] = m1[k]

StringMapsMatch_OneWay(m1, m2, ignoreKeys) ==
    \A k \in DOMAIN m1 \ ignoreKeys : k \in DOMAIN m2 /\ m2[k] = m1[k]

StringMapsMatch(m1, m2, ignoreKeys) ==
    \/ DOMAIN m1 = {} /\ DOMAIN m2 = {}
    \/ /\ \A k \in DOMAIN m1 \ ignoreKeys : k \in DOMAIN m2 /\ m2[k] = m1[k]
       /\ \A k \in DOMAIN m2 \ ignoreKeys : k \in DOMAIN m1 /\ m1[k] = m2[k]

MergeMap_KeepsOld(dst, src) ==
    [k \in DOMAIN dst \cup DOMAIN src |-> IF k \in DOMAIN dst THEN dst[k] ELSE src[k]]

\* dst, changed in place.
MergeMap(dst, src) ==
    [k \in DOMAIN dst \cup DOMAIN src |-> IF k \in DOMAIN src THEN src[k] ELSE dst[k]]

\* The annotations that upsertSecret gives a Secret that had annotations old,
\* for a ValsSecret with annotations wanted.
Written(old, wanted) ==
    LET merged == MergeMap(MergeMap(old, wanted), [k \in {LastUpdated} |-> Now])
    IN  [k \in DOMAIN merged \ {LastApplied} |-> merged[k]]

\* The keys that secretNeedsUpdate ignores.
Ignored == {LastUpdated, LastApplied}

\* What secretNeedsUpdate says of the annotations.
AnnotationsDiffer(has, wanted) == ~StringMapsMatch(has, wanted, Ignored)

\* Annotations on the Secret that its ValsSecret does not have (any more).
Stale(has, wanted) == DOMAIN has \ (DOMAIN wanted \cup Ignored)
=============================================================================
