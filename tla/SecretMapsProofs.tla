-------------------------- MODULE SecretMapsProofs --------------------------
(* Proofs about SecretMaps for maps over any finite set of keys.            *)
EXTENDS SecretMaps, FiniteSetTheorems, TLAPS

\* Comparing the sizes and one direction is comparing the maps.
THEOREM ByteMapsMatchIsEquality ==
    ASSUME NEW m1 \in Maps, NEW m2 \in Maps, IsFiniteSet(MapKeys)
    PROVE  ByteMapsMatch(m1, m2) <=> m1 = m2
<1>1. /\ DOMAIN m1 \subseteq MapKeys /\ m1 = [k \in DOMAIN m1 |-> m1[k]]
      /\ DOMAIN m2 \subseteq MapKeys /\ m2 = [k \in DOMAIN m2 |-> m2[k]]
  BY DEF Maps
<1>2. IsFiniteSet(DOMAIN m1) /\ IsFiniteSet(DOMAIN m2)
  BY <1>1, FS_Subset
<1>3. ASSUME ByteMapsMatch(m1, m2) PROVE m1 = m2
  <2>1. DOMAIN m1 \subseteq DOMAIN m2
    BY <1>3 DEF ByteMapsMatch
  <2>2. DOMAIN m1 = DOMAIN m2
    BY <1>2, <1>3, <2>1, FS_Subset DEF ByteMapsMatch
  <2> QED
    BY <1>1, <1>3, <2>2 DEF ByteMapsMatch
<1> QED
  BY <1>3 DEF ByteMapsMatch

\* The value of a merged map at a key.
LEMMA MergedAt ==
    ASSUME NEW old, NEW wanted
    PROVE  LET new == Written(old, wanted) IN
           /\ DOMAIN new = (DOMAIN old \cup DOMAIN wanted \cup {LastUpdated}) \ {LastApplied}
           /\ \A k \in DOMAIN new \ Ignored :
                new[k] = IF k \in DOMAIN wanted THEN wanted[k] ELSE old[k]
BY MapsAssumption DEF Written, MergeMap, Ignored

\* A Secret that was just written counts as up to date exactly if it had no
\* annotation that its ValsSecret lacks: merging never takes one away.
THEOREM WriteSettlesUnlessStale ==
    ASSUME NEW old \in Maps, NEW wanted \in Maps
    PROVE  AnnotationsDiffer(Written(old, wanted), wanted) <=> Stale(old, wanted) # {}
<1> DEFINE new == Written(old, wanted)
<1>1. /\ DOMAIN new = (DOMAIN old \cup DOMAIN wanted \cup {LastUpdated}) \ {LastApplied}
      /\ \A k \in DOMAIN new \ Ignored :
           new[k] = IF k \in DOMAIN wanted THEN wanted[k] ELSE old[k]
  BY MergedAt
<1>2. LastUpdated \in DOMAIN new
  BY <1>1, MapsAssumption
<1> HIDE DEF new
<1>3. ASSUME Stale(old, wanted) # {} PROVE ~StringMapsMatch(new, wanted, Ignored)
  <2>1. PICK k \in DOMAIN old : k \notin DOMAIN wanted \cup Ignored
    BY <1>3 DEF Stale
  <2>2. k \in DOMAIN new \ Ignored
    BY <1>1, <2>1 DEF Ignored
  <2> QED
    BY <1>2, <2>1, <2>2 DEF StringMapsMatch
<1>4. ASSUME Stale(old, wanted) = {} PROVE StringMapsMatch(new, wanted, Ignored)
  <2>1. ASSUME NEW k \in DOMAIN new \ Ignored PROVE k \in DOMAIN wanted /\ wanted[k] = new[k]
    BY <1>1, <1>4, <2>1 DEF Stale, Ignored
  <2>2. ASSUME NEW k \in DOMAIN wanted \ Ignored PROVE k \in DOMAIN new /\ new[k] = wanted[k]
    BY <1>1, <2>2 DEF Ignored
  <2> QED
    BY <2>1, <2>2 DEF StringMapsMatch
<1> QED
  BY <1>3, <1>4 DEF AnnotationsDiffer, new

\* Writing again changes nothing: the controller that writes a Secret in every
\* period, because it has a stale annotation, writes the same each time.
THEOREM WritingIsIdempotent ==
    ASSUME NEW old \in Maps, NEW wanted \in Maps
    PROVE  Written(Written(old, wanted), wanted) = Written(old, wanted)
BY MapsAssumption DEF Written, MergeMap
=============================================================================
