-------------------------- MODULE OperatorsProofs --------------------------
(* Proofs that the functions of MCOperators have their properties for all   *)
(* inputs: lists of any length, any databases, any number of failures.      *)
EXTENDS MCOperators, SecretMapsProofs

-----------------------------------------------------------------------------
(* The least element of a set of naturals *)

\* The sets 0 .. x are finite and ordered as their greatest elements are, and
\* the strict inclusion of finite sets is well-founded.
LEMMA Least ==
    ASSUME NEW S \in SUBSET Nat, S # {}
    PROVE  \E x \in S : \A y \in S : x <= y
<1> DEFINE R == StrictSubsetOrdering(Nat)
           Upto == {0 .. x : x \in S}
<1>1. \A x \in Nat : 0 .. x \in FiniteSubsetsOf(Nat)
  <2> TAKE x \in Nat
  <2>1. IsFiniteSet(0 .. x)
    BY FS_Interval
  <2> QED
    BY <2>1 DEF FiniteSubsetsOf
<1>2. Upto \subseteq FiniteSubsetsOf(Nat) /\ Upto # {}
  BY <1>1
<1>3. IsWellFoundedOn(R, FiniteSubsetsOf(Nat))
  BY FS_StrictSubsetOrderingWellFounded
<1> HIDE DEF R, Upto
<1>4. \E X \in Upto : \A Y \in Upto : ~(<<Y, X>> \in R)
  BY <1>2, <1>3, WFMin
<1>5. PICK x \in S : \A y \in S : <<0 .. y, 0 .. x>> \notin R
  BY <1>4 DEF Upto
<1>6. ASSUME NEW y \in S, ~(x <= y) PROVE FALSE
  <2>1. y \in Nat /\ x \in Nat /\ y < x
    BY <1>6
  <2>2. 0 .. y \subseteq 0 .. x /\ x \in 0 .. x /\ x \notin 0 .. y
    BY <2>1
  <2>3. 0 .. y \in SUBSET Nat /\ 0 .. x \in SUBSET Nat
    BY <2>1
  <2>4. <<0 .. y, 0 .. x>> \in R
    BY <2>2, <2>3 DEF R, StrictSubsetOrdering
  <2> QED
    BY <1>5, <2>4
<1> QED
  BY <1>6

LEMMA MinIs ==
    ASSUME NEW S \in SUBSET Nat, S # {}
    PROVE  Min(S) \in S /\ \A y \in S : Min(S) <= y
<1>1. \E x \in S : \A y \in S : x =< y
  BY Least
<1> QED
  BY <1>1 DEF Min

\* The positions that a loop which stops at the first of S goes through.
LEMMA ThroughIs ==
    ASSUME NEW n \in Nat, NEW S \in SUBSET (1 .. n), NEW d
    PROVE  d \in Through(S, n) <=> d \in 1 .. n /\ \A e \in S : d <= e
<1>1. CASE S = {}
  BY <1>1 DEF Through
<1>2. CASE S # {}
  <2>1. S \in SUBSET Nat
    OBVIOUS
  <2>2. Min(S) \in S /\ \A y \in S : Min(S) <= y
    BY <1>2, <2>1, MinIs
  <2>3. Min(S) \in 1 .. n
    BY <2>2
  <2>4. Through(S, n) = 1 .. Min(S)
    BY <1>2 DEF Through
  <2> HIDE DEF Min
  <2> QED
    BY <2>2, <2>3, <2>4
<1> QED
  BY <1>1, <1>2

-----------------------------------------------------------------------------
(* Maps *)

\* What the proofs need of a behaviour: annotations are maps, whatever is
\* edited and written, and failures are counted.
InputsOK == has \in Maps /\ wanted \in Maps /\ errors \in Nat

LEMMA NoMapIsMap == NoMap \in Maps
BY DEF NoMap, Maps

LEMMA LessIsMap ==
    ASSUME NEW m \in Maps, NEW k
    PROVE  [j \in DOMAIN m \ {k} |-> m[j]] \in Maps
<1>1. PICK D \in SUBSET MapKeys : m \in [D -> MapValues]
  BY DEF Maps
<1>2. [j \in DOMAIN m \ {k} |-> m[j]] \in [D \ {k} -> MapValues]
  BY <1>1
<1>3. D \ {k} \in SUBSET MapKeys
  OBVIOUS
<1> QED
  BY <1>2, <1>3 DEF Maps

LEMMA WrittenIsMap ==
    ASSUME NEW old \in Maps, NEW new \in Maps
    PROVE  Written(old, new) \in Maps
<1>1. PICK C \in SUBSET MapKeys : old \in [C -> MapValues]
  BY DEF Maps
<1>2. PICK D \in SUBSET MapKeys : new \in [D -> MapValues]
  BY DEF Maps
<1> DEFINE E == (C \cup D \cup {LastUpdated}) \ {LastApplied}
<1>3. Written(old, new) \in [E -> MapValues]
  BY <1>1, <1>2, MapsAssumption DEF Written, MergeMap
<1>4. E \in SUBSET MapKeys
  BY MapsAssumption
<1> QED
  BY <1>3, <1>4 DEF Maps

LEMMA InputsInit == Init => InputsOK
BY NoMapIsMap DEF Init, InputsOK

LEMMA InputsStep == InputsOK /\ [Next]_opVars => InputsOK'
<1> SUFFICES ASSUME InputsOK, [Next]_opVars PROVE InputsOK'
  OBVIOUS
<1> USE DEF InputsOK
<1>1. CASE Edit
  BY <1>1, LessIsMap DEF Edit
<1>2. CASE Sync
  BY <1>2, WrittenIsMap DEF Sync
<1>3. CASE Fail
  BY <1>3 DEF Fail
<1>4. CASE UNCHANGED opVars
  BY <1>4 DEF opVars
<1> QED
  BY <1>1, <1>2, <1>3, <1>4 DEF Next

LEMMA InputsCorrect == Spec => []InputsOK
BY InputsInit, InputsStep, PTL DEF Spec

\* ByteMapsMatch finds every change of the data of a Secret, and none where
\* there is none, over any finite set of keys.
THEOREM MatchCorrect == ASSUME IsFiniteSet(MapKeys) PROVE Spec => []MatchIsEquality
<1>1. InputsOK => MatchIsEquality
  BY ByteMapsMatchIsEquality DEF InputsOK, MatchIsEquality
<1> QED
  BY <1>1, InputsCorrect, PTL

\* Comparing annotations is symmetric and says whether some annotation that the
\* controller does not ignore is on one side only or differs.
THEOREM MatchFair == Spec => []MatchIsFair
<1>1. ASSUME InputsOK PROVE MatchIsFair
  <2>1. DOMAIN has \subseteq MapKeys /\ DOMAIN wanted \subseteq MapKeys
    BY <1>1 DEF InputsOK, Maps
  <2>2. AnnotationsDiffer(has, wanted) <=> AnnotationsDiffer(wanted, has)
    BY DEF AnnotationsDiffer, StringMapsMatch
  <2>3. AnnotationsDiffer(has, wanted) <=>
          \E k \in MapKeys \ Ignored :
             (k \in DOMAIN has) # (k \in DOMAIN wanted)
               \/ (k \in DOMAIN has \cap DOMAIN wanted /\ has[k] # wanted[k])
    <3>1. ASSUME AnnotationsDiffer(has, wanted)
          PROVE  \E k \in MapKeys \ Ignored :
                    (k \in DOMAIN has) # (k \in DOMAIN wanted)
                      \/ (k \in DOMAIN has \cap DOMAIN wanted /\ has[k] # wanted[k])
      BY <2>1, <3>1, Zenon DEF AnnotationsDiffer, StringMapsMatch
    <3>2. ASSUME NEW k \in MapKeys \ Ignored,
                 (k \in DOMAIN has) # (k \in DOMAIN wanted)
                   \/ (k \in DOMAIN has \cap DOMAIN wanted /\ has[k] # wanted[k])
          PROVE  AnnotationsDiffer(has, wanted)
      BY <3>2 DEF AnnotationsDiffer, StringMapsMatch
    <3> QED
      BY <3>1, <3>2
  <2> QED
    BY <2>2, <2>3 DEF MatchIsFair
<1> QED
  BY <1>1, InputsCorrect, PTL

\* A write settles the annotations unless one of them is stale.
THEOREM WritesSettle == Spec => SettlesUnlessStale
<1>1. InputsOK /\ Sync => (AnnotationsDiffer(has', wanted') <=> Stale(has, wanted) # {})
  BY WriteSettlesUnlessStale DEF InputsOK, Sync
<1>2. InputsOK /\ [Next]_opVars
        => [Sync => (AnnotationsDiffer(has', wanted') <=> Stale(has, wanted) # {})]_opVars
  BY <1>1
<1> QED
  BY <1>2, InputsCorrect, PTL DEF Spec, SettlesUnlessStale

-----------------------------------------------------------------------------
(* Delays *)

LEMMA PowerInt == ASSUME NEW n \in Nat \ {0} PROVE Power(n) \in Int
<1>1. CASE n >= Beyond
  BY <1>1, BackoffAssumption DEF Power
<1>2. CASE ~(n >= Beyond)
  <2>1. 3 ^ n \in Int /\ 2 ^ (n - 1) \in Int /\ 2 ^ n \in Nat \ {0}
    BY <1>2, PowersAssumption, BackoffAssumption
  <2>2. (3 ^ n + 2 ^ (n - 1)) \div 2 ^ n \in Int
    BY <2>1
  <2> QED
    BY <1>2, <2>2 DEF Power
<1> QED
  BY <1>1, <1>2

LEMMA WrappedInt == ASSUME NEW d \in Int PROVE Wrapped(d) \in Int
<1>1. Limit \in Nat \ {0}
  BY BackoffAssumption
<1>2. d + Limit \in Int /\ 2 * Limit \in Nat \ {0}
  BY <1>1
<1>3. (d + Limit) % (2 * Limit) \in Int
  BY <1>2
<1> QED
  BY <1>1, <1>3 DEF Wrapped

LEMMA ClampedIn == ASSUME NEW d \in Int PROVE Clamped(d) \in minBackoff .. maxBackoff
BY BackoffAssumption DEF Clamped

LEMMA BackoffsIn == ASSUME NEW n \in Nat \ {0} PROVE Backoffs(n) \subseteq minBackoff .. maxBackoff
<1>1. Power(n) \in Int /\ Limit \in Int /\ Second \in Int /\ minBackoff \in Int
  BY PowerInt, BackoffAssumption
<1>2. ASSUME NEW c \in Converted(Power(n))
      PROVE  Clamped(Wrapped(minBackoff + Wrapped(Second * c))) \in minBackoff .. maxBackoff
  <2>1. c \in Int
    BY <1>1 DEF Converted
  <2>2. Second * c \in Int
    BY <1>1, <2>1
  <2>3. minBackoff + Wrapped(Second * c) \in Int
    BY <1>1, <2>2, WrappedInt
  <2> QED
    BY <2>3, WrappedInt, ClampedIn
<1> QED
  BY <1>2 DEF Backoffs

\* However many failures, and whatever the width of a duration, the delay is in
\* its bounds: the range follows from the clamping alone.
THEOREM DelaysInRange == Spec => []DelayInRange
<1>1. InputsOK => DelayInRange
  <2> SUFFICES ASSUME errors \in Nat, errors > 0, NEW b \in Backoffs(errors),
                      NEW d \in b - b \div 10 .. b + b \div 10
               PROVE  d > 0 /\ 10 * d >= 9 * minBackoff /\ 10 * d <= 11 * maxBackoff
    BY DEF InputsOK, DelayInRange, Delays
  <2>1. b \in minBackoff .. maxBackoff
    BY BackoffsIn
  <2> QED
    BY <2>1, BackoffAssumption
<1> QED
  BY <1>1, InputsCorrect, PTL

\* Rounding keeps the order of the powers of one and a half.
LEMMA PowerGrows ==
    ASSUME NEW n \in Nat \ {0}, n + 1 < Beyond
    PROVE  Power(n) \in Nat /\ Power(n) <= Power(n + 1)
<1> DEFINE x == 3 ^ n
           p == 2 ^ (n - 1)
<1>1. /\ x \in Nat \ {0} /\ p \in Nat \ {0}
      /\ 2 ^ n = 2 * p /\ 3 ^ (n + 1) = 3 * x /\ 2 ^ (n + 1) = 4 * p
  <2>1. n \in 1 .. Beyond /\ n + 1 \in 1 .. Beyond /\ (n + 1) - 1 = n
    BY BackoffAssumption
  <2>2. 3 ^ n \in Int /\ 2 ^ (n - 1) \in Int
    OBVIOUS
  <2>3. 2 ^ (n - 1) > 0 /\ 2 ^ n = 2 * 2 ^ (n - 1)
    BY <2>1, PowersAssumption
  <2>4. 3 ^ n > 0 /\ 3 ^ (n + 1) = 3 * 3 ^ n /\ 2 ^ (n + 1) = 2 * 2 ^ n
    BY <2>1, PowersAssumption
  <2> QED
    BY <2>2, <2>3, <2>4
<1>2. Power(n) = (x + p) \div (2 * p)
  BY <1>1, BackoffAssumption DEF Power
<1>3. Power(n + 1) = (3 * x + 2 * p) \div (4 * p)
  <2>1. (n + 1) - 1 = n
    OBVIOUS
  <2> QED
    BY <1>1, <2>1, BackoffAssumption DEF Power
<1> HIDE DEF x, p
<1>4. (x + p) \div (2 * p) \in Nat
  BY <1>1
<1>5. PICK q \in Nat : q = (x + p) \div (2 * p)
  BY <1>4
<1>6. 2 * (p * q) <= x + p
  BY <1>1, <1>5
<1>7. q * (4 * p) <= 3 * x + 2 * p
  <2>1. p * q \in Nat /\ q * (4 * p) = 4 * (p * q)
    BY <1>1, <1>5
  <2> QED
    BY <1>1, <1>6, <2>1
<1>8. q <= (3 * x + 2 * p) \div (4 * p)
  <2>1. 4 * p \in Nat \ {0} /\ 3 * x + 2 * p \in Nat
    BY <1>1
  <2>2. \A a, b, c \in Nat : b > 0 /\ c * b <= a => c <= a \div b
    OBVIOUS
  <2> QED
    BY <1>7, <2>1, <2>2
<1> QED
  BY <1>2, <1>3, <1>4, <1>5, <1>8

LEMMA WrappedIsSame ==
    ASSUME NEW d \in Nat, d < Limit
    PROVE  Wrapped(d) = d
<1>1. Limit \in Nat \ {0} /\ d + Limit \in 0 .. 2 * Limit - 1
  BY BackoffAssumption
<1>2. (d + Limit) % (2 * Limit) = d + Limit
  BY <1>1
<1> QED
  BY <1>1, <1>2 DEF Wrapped

\* Without an overflow there is one delay.
LEMMA BackoffIs ==
    ASSUME NEW n \in Nat \ {0}, Power(n) \in Nat, minBackoff + Second * Power(n) < Limit
    PROVE  /\ Second * Power(n) \in Nat
           /\ Backoffs(n) = {Clamped(minBackoff + Second * Power(n))}
<1>1. /\ Second \in Nat \ {0} /\ minBackoff \in Nat /\ Limit \in Nat
      /\ Second * Power(n) \in Nat /\ Power(n) <= Second * Power(n)
  BY BackoffAssumption
<1>2. Power(n) < Limit /\ Second * Power(n) < Limit
  BY <1>1
<1>3. Converted(Power(n)) = {Power(n)}
  BY <1>2 DEF Converted
<1>4. Wrapped(Second * Power(n)) = Second * Power(n)
  BY <1>1, <1>2, WrappedIsSame
<1>5. Wrapped(minBackoff + Second * Power(n)) = minBackoff + Second * Power(n)
  BY <1>1, WrappedIsSame
<1> QED
  BY <1>1, <1>3, <1>4, <1>5 DEF Backoffs

\* Until the count of nanoseconds overflows, one more failure never shortens the
\* delay: neither rounding nor clamping changes the order of the powers.
THEOREM DelaysGrow == Spec => DelayGrows
<1>1. ASSUME NEW n \in Nat \ {0}, minBackoff + Second * Power(n + 1) < Limit,
             NEW b \in Backoffs(n), NEW c \in Backoffs(n + 1)
      PROVE  c >= b
  <2>1. n + 1 < Beyond
    <3>1. /\ Second \in Nat \ {0} /\ minBackoff \in Nat \ {0} /\ Limit \in Nat /\ Beyond \in Nat
          /\ Second * Limit >= Limit
      BY BackoffAssumption
    <3> QED
      BY <1>1, <3>1 DEF Power
  <2>2. Power(n) \in Nat /\ Power(n + 1) \in Nat /\ Power(n) <= Power(n + 1)
    BY <2>1, PowerGrows, PowerInt
  <2>3. /\ Second \in Nat \ {0} /\ minBackoff \in Nat \ {0} /\ maxBackoff \in Nat /\ Limit \in Nat
        /\ Second * Power(n) <= Second * Power(n + 1)
        /\ Second * Power(n) \in Nat /\ Second * Power(n + 1) \in Nat
    BY <2>2, BackoffAssumption
  <2>4. minBackoff + Second * Power(n) < Limit
    BY <1>1, <2>3
  <2>5. b = Clamped(minBackoff + Second * Power(n))
    BY <2>2, <2>4, BackoffIs
  <2>6. c = Clamped(minBackoff + Second * Power(n + 1))
    BY <1>1, <2>2, BackoffIs
  <2> QED
    BY <2>3, <2>5, <2>6 DEF Clamped
<1>2. InputsOK /\ [Next]_opVars =>
        [(errors > 0 /\ errors' = errors + 1 /\ minBackoff + Second * Power(errors') < Limit)
           => \A b \in Backoffs(errors), c \in Backoffs(errors') : c >= b]_opVars
  BY <1>1 DEF InputsOK
<1> QED
  BY <1>2, InputsCorrect, PTL DEF Spec, DelayGrows

-----------------------------------------------------------------------------
(* Namespaces *)

LEMMA SameItem ==
    ASSUME NEW i \in Items, NEW j \in Items
    PROVE  i = j <=> i.name = j.name /\ i.blank = j.blank
BY DEF Items

\* Trimming the text as a whole leaves each part its name.
LEMMA PartsOf ==
    ASSUME NEW list \in Seq(Items), NEW i \in DOMAIN list
    PROVE  /\ nsSlice(list)[i] \in Items
           /\ nsSlice(list)[i].name = list[i].name
<1>1. list[i] \in Items /\ list[i].name \in Spaces \cup {NoName}
  <2>1. list[i] \in Items
    OBVIOUS
  <2> QED
    BY <2>1 DEF Items
<1>2. Key(list[i].name) \in Items /\ Key(list[i].name).name = list[i].name
  BY <1>1 DEF Key, Items
<1>3. nsSlice(list)[i] = Key(list[i].name) \/ nsSlice(list)[i] = list[i]
  BY DEF nsSlice
<1>4. nsSlice(list)[i].name = list[i].name
  BY <1>2, <1>3
<1> QED
  BY <1>1, <1>2, <1>3, <1>4

\* A part that is looked for is a name of the list, and a name of a list without
\* blanks is a part of it.
LEMMA KeysAreNames ==
    ASSUME NEW list \in Seq(Items), NEW space \in Spaces
    PROVE  /\ Key(space) \in Parts(list) => space \in Listed(list)
           /\ Tidy(list) /\ space \in Listed(list) => Key(space) \in Parts(list)
<1>1. Key(space) \in Items /\ Key(space).name = space /\ Key(space).blank = FALSE
  BY DEF Key, Items
<1>2. space # NoName
  BY SpacesAssumption
<1>3. ASSUME Key(space) \in Parts(list) PROVE space \in Listed(list)
  <2>1. PICK i \in DOMAIN list : Key(space) = nsSlice(list)[i]
    BY <1>3 DEF Parts
  <2>2. list[i].name = space
    BY <1>1, <2>1, PartsOf
  <2> QED
    BY <1>2, <2>2 DEF Listed, watched
<1>4. ASSUME Tidy(list), space \in Listed(list) PROVE Key(space) \in Parts(list)
  <2>1. PICK i \in DOMAIN list : list[i].name = space
    BY <1>4 DEF Listed, watched
  <2>2. nsSlice(list)[i] \in Items /\ nsSlice(list)[i].name = space
    BY <2>1, PartsOf
  <2>3. nsSlice(list)[i].blank = FALSE
    BY <1>4 DEF Tidy
  <2>4. nsSlice(list)[i] = Key(space)
    BY <1>1, <2>2, <2>3, SameItem
  <2> QED
    BY <2>4 DEF Parts
<1> QED
  BY <1>3, <1>4

\* A list that allows nothing in particular names nothing; a list without blanks
\* that names nothing allows nothing in particular.
LEMMA NothingIsAllowed ==
    ASSUME NEW list \in Seq(Items)
    PROVE  /\ allowedSyncNs(list) = {} => Listed(list) = {}
           /\ Tidy(list) /\ Listed(list) = {} => allowedSyncNs(list) = {}
<1>1. Key(NoName) \in Items /\ Key(NoName).name = NoName /\ Key(NoName).blank = FALSE
  BY DEF Key, Items
<1>2. ASSUME allowedSyncNs(list) = {}, NEW space \in Listed(list) PROVE FALSE
  <2>1. PICK i \in DOMAIN list : list[i].name = space /\ space # NoName
    BY <1>2 DEF Listed, watched
  <2>2. nsSlice(list)[i] \in Parts(list)
    BY DEF Parts
  <2>3. nsSlice(list)[i] # Key(NoName)
    BY <1>1, <2>1, PartsOf
  <2> QED
    BY <1>2, <2>2, <2>3 DEF allowedSyncNs
<1>3. ASSUME Tidy(list), Listed(list) = {}, NEW part \in allowedSyncNs(list) PROVE FALSE
  <2>1. PICK i \in DOMAIN list : part = nsSlice(list)[i]
    BY <1>3 DEF allowedSyncNs, Parts
  <2>2. list[i].name = NoName
    BY <1>3 DEF Listed, watched
  <2>3. part \in Items /\ part.name = NoName /\ part.blank = FALSE
    BY <1>3, <2>1, <2>2, PartsOf DEF Tidy
  <2>4. part = Key(NoName)
    BY <1>1, <2>3, SameItem
  <2> QED
    BY <1>3, <2>4 DEF allowedSyncNs
<1> QED
  BY <1>2, <1>3

LEMMA ReferencesAreAllowed ==
    ASSUME NEW list \in Seq(Items), NEW from \in Spaces, NEW to \in Spaces,
           NEW disabled \in BOOLEAN
    PROVE  LET allowed == isNamespaceSyncAllowed(from, to, disabled, allowedSyncNs(list))
           IN  /\ allowed => MayReference(from, to, disabled, list)
               /\ Tidy(list) /\ MayReference(from, to, disabled, list) => allowed
<1>1. Key(to) # Key(NoName)
  BY SpacesAssumption DEF Key
<1>2. Key(to) \in allowedSyncNs(list) <=> Key(to) \in Parts(list)
  BY <1>1 DEF allowedSyncNs
<1>3. Key(to) \in allowedSyncNs(list) => allowedSyncNs(list) # {}
  OBVIOUS
<1> QED
  BY <1>2, <1>3, KeysAreNames, NothingIsAllowed DEF isNamespaceSyncAllowed, MayReference

LEMMA ExclusionExcludes ==
    ASSUME NEW list \in Seq(Items), NEW watch \in Seq(Items), NEW space \in Spaces,
           Reconciled(space, watch, list)
    PROVE  /\ Listed(watch) = {} \/ space \in Listed(watch)
           /\ Tidy(list) => space \notin Listed(list)
<1>1. Listed(watch) = {} \/ space \in Listed(watch)
  BY DEF Reconciled, Listed
<1>2. ASSUME Tidy(list), space \in Listed(list) PROVE FALSE
  <2>1. Key(space) \in Parts(list)
    BY <1>2, KeysAreNames
  <2>2. list # EmptyText
    BY <1>2, SpacesAssumption DEF Listed, watched, EmptyText, Key
  <2> QED
    BY <2>1, <2>2 DEF Reconciled, shouldExclude, excludeNs
<1> QED
  BY <1>1, <1>2

\* README.md's table holds for every list, of any length and over any names.
THEOREM NamespacesAsDocumented == ASSUME text \in Seq(Items) PROVE NamespaceTable
<1>1. \A watch \in Texts : watch \in Seq(Items)
  <2> TAKE watch \in Texts
  <2>1. PICK m \in 0 .. 2 : watch \in [1 .. m -> Items]
    BY DEF Texts, BoundedSeq, SeqOf
  <2> QED
    BY <2>1
<1> QED
  BY <1>1, ReferencesAreAllowed, ExclusionExcludes DEF NamespaceTable

-----------------------------------------------------------------------------
(* Passwords *)

\* The hosts of a database in some states are positions.
LEMMA HostsThatAre ==
    ASSUME NEW hosts \in Seq(Hosts), NEW states
    PROVE  /\ Len(hosts) \in Nat
           /\ ThatAre(hosts, states) \in SUBSET (1 .. Len(hosts))
           /\ ThatAre(hosts, states) \in SUBSET Nat
           /\ \A i : i \in ThatAre(hosts, states)
                       <=> i \in 1 .. Len(hosts) /\ hosts[i] \in states
BY DEF ThatAre

\* The first host that does it all is reached, and its password is set; without
\* one, an error is returned.
LEMMA UntilOneSucceeds ==
    ASSUME NEW hosts \in Seq(Hosts), NEW sets, "ok" \in sets
    PROVE  /\ ThatAre(hosts, {"ok"}) # {} => UntilSuccess(hosts, sets).set # {}
           /\ UntilSuccess(hosts, sets).err <=> ThatAre(hosts, {"ok"}) = {} /\ hosts # <<>>
<1> DEFINE good == ThatAre(hosts, {"ok"})
<1>1. Len(hosts) \in Nat /\ good \in SUBSET (1 .. Len(hosts)) /\ good \in SUBSET Nat
  BY HostsThatAre
<1>2. ASSUME good # {} PROVE UntilSuccess(hosts, sets).set # {}
  <2>1. Min(good) \in good /\ \A e \in good : Min(good) <= e
    BY <1>1, <1>2, MinIs
  <2>2. Min(good) \in Through(good, Len(hosts))
    BY <1>1, <2>1, ThroughIs
  <2>3. Min(good) \in ThatAre(hosts, sets)
    BY <2>1, HostsThatAre
  <2> QED
    BY <2>2, <2>3 DEF UntilSuccess, Outcome
<1>3. UntilSuccess(hosts, sets).err <=> good = {} /\ hosts # <<>>
  BY DEF UntilSuccess, Outcome
<1> QED
  BY <1>2, <1>3

\* elastic goes on until a host does it all or panics.
LEMMA ElasticSucceeds ==
    ASSUME NEW hosts \in Seq(Hosts), ThatAre(hosts, {"ok"}) # {},
           \A i \in DOMAIN hosts : hosts[i] = "down" => Min(ThatAre(hosts, {"ok"})) < i
    PROVE  elastic(hosts).set # {}
<1> DEFINE good == ThatAre(hosts, {"ok"})
           last == ThatAre(hosts, {"ok", "down"})
<1>1. /\ Len(hosts) \in Nat /\ DOMAIN hosts = 1 .. Len(hosts)
      /\ good \in SUBSET Nat /\ last \in SUBSET (1 .. Len(hosts))
  BY HostsThatAre
<1>2. Min(good) \in good /\ \A e \in good : Min(good) <= e
  BY <1>1, MinIs
<1>3. ASSUME NEW e \in last PROVE Min(good) <= e
  <2>1. e \in 1 .. Len(hosts) /\ hosts[e] \in {"ok", "down"}
    BY HostsThatAre
  <2>2. CASE hosts[e] = "ok"
    BY <1>2, <2>1, <2>2, HostsThatAre
  <2>3. CASE hosts[e] = "down"
    <3>1. Min(good) < e
      BY <1>1, <2>1, <2>3
    <3>2. Min(good) \in Nat /\ e \in Nat
      BY <1>1, <1>2, <2>1
    <3> QED
      BY <3>1, <3>2
  <2> QED
    BY <2>1, <2>2, <2>3
<1>4. Min(good) \in 1 .. Len(hosts)
  BY <1>2, HostsThatAre
<1>5. Min(good) \in Through(last, Len(hosts))
  BY <1>1, <1>3, <1>4, ThroughIs
<1> QED
  BY <1>2, <1>5 DEF elastic, Outcome

\* What the proofs need of the databases of a ValsSecret.
LEMMA DatabaseAt ==
    ASSUME NEW list \in Seq(Databases), NEW d \in DOMAIN list
    PROVE  /\ list[d] \in Databases
           /\ list[d].driver \in Drivers /\ list[d].hosts \in Seq(Hosts)
<1>1. list[d] \in Databases
  OBVIOUS
<1> QED
  BY <1>1 DEF Databases

LEMMA ReachedIs ==
    ASSUME NEW list \in Seq(Databases), NEW d
    PROVE  d \in Reached(list) <=> /\ d \in DOMAIN list
                                   /\ \A e \in Ends(list) : d <= e
<1>1. Len(list) \in Nat /\ DOMAIN list = 1 .. Len(list)
  OBVIOUS
<1>2. Ends(list) \in SUBSET (1 .. Len(list))
  BY <1>1 DEF Ends
<1> QED
  BY <1>1, <1>2, ThroughIs DEF Reached

LEMMA TriedIs ==
    ASSUME NEW list \in Seq(Databases), NEW d
    PROVE  d \in Tried(list) <=> /\ d \in Called(list)
                                 /\ \A e \in Ends(list) : d <= e
BY ReachedIs DEF Tried, Called

\* For any number of databases and hosts: who gets the password or an event, and
\* who is left out in silence.
THEOREM FailuresAreKnown == ASSUME dbs \in Seq(Databases) PROVE FailuresAreReported
<1> SUFFICES ASSUME NEW d \in DOMAIN dbs,
                    dbs[d].driver \in {"postgres", "mysql", "cassandra"},
                    dbs[d].hosts # <<>>, dbs[d].login # "unnamed"
             PROVE  d \in Result.set \cup Result.failed <=>
                      \A e \in 1 .. d : dbs[e].login = "found" =>
                        dbs[e].credentials /\ ~UpdateUserPassword(dbs[e]).panics
  BY DEF FailuresAreReported
<1> DEFINE hosts == dbs[d].hosts
           outcome == UpdateUserPassword(dbs[d])
           Stops(e) == dbs[e].login = "found"
                         /\ (~dbs[e].credentials \/ UpdateUserPassword(dbs[e]).panics)
<1>1. DOMAIN dbs = 1 .. Len(dbs) /\ Len(dbs) \in Nat /\ d \in Nat
  OBVIOUS
<1>2. hosts \in Seq(Hosts) /\ dbs[d].login \in {"missing", "found"}
  BY DatabaseAt DEF Databases
<1>3. outcome.set # {} \/ outcome.err
  <2>1. CASE dbs[d].driver = "postgres"
    <3>1. outcome = UntilSuccess(hosts, {"ok"})
      BY <2>1 DEF UpdateUserPassword, postgres
    <3> QED
      BY <1>2, <3>1, UntilOneSucceeds
  <2>2. CASE dbs[d].driver = "mysql"
    <3>1. outcome = UntilSuccess(hosts, {"ok", "half"})
      BY <2>2 DEF UpdateUserPassword, mysql
    <3> QED
      BY <1>2, <3>1, UntilOneSucceeds
  <2>3. CASE dbs[d].driver = "cassandra"
    <3>1. outcome = cassandra(hosts)
      BY <2>3 DEF UpdateUserPassword
    <3>2. ThatAre(hosts, {"ok"}) # {} => DOMAIN hosts # {}
      BY DEF ThatAre
    <3>3. cassandra(hosts).err <=> ThatAre(hosts, {"ok"}) = {}
      BY DEF cassandra, Outcome
    <3>4. ThatAre(hosts, {"ok"}) # {} => outcome.set = DOMAIN hosts
      BY <3>1 DEF cassandra, Outcome
    <3> QED
      BY <3>1, <3>2, <3>3, <3>4
  <2> QED
    BY <2>1, <2>2, <2>3
<1>4. ~outcome.panics
  BY DEF UpdateUserPassword, postgres, mysql, cassandra, UntilSuccess, Outcome
<1>5. \A e \in DOMAIN dbs : e \in Ends(dbs) <=> Stops(e)
  BY DEF Ends, Called
<1> HIDE DEF outcome
<1>6. d \in Result.set <=> d \in Tried(dbs) /\ outcome.set # {}
  BY DEF Result, updateDatabases, outcome
<1>7. d \in Result.failed <=> /\ d \in Reached(dbs)
                              /\ dbs[d].login = "missing" \/ (d \in Called(dbs) /\ outcome.err)
  BY DEF Result, updateDatabases, outcome
<1>8. d \in Result.set \cup Result.failed
        <=> d \in Reached(dbs) /\ (dbs[d].login = "missing" \/ d \in Called(dbs))
  BY <1>3, <1>6, <1>7 DEF Tried
<1>9. dbs[d].login = "missing" \/ d \in Called(dbs) <=> ~Stops(d)
  BY <1>2, <1>4 DEF Called, outcome
<1> HIDE DEF Stops
<1>10. d \in Reached(dbs) /\ ~Stops(d) <=> \A e \in 1 .. d : ~Stops(e)
  <2>1. \A e \in Ends(dbs) : e \in DOMAIN dbs
    BY DEF Ends
  <2>2. d \in Reached(dbs) <=> \A e \in DOMAIN dbs : Stops(e) => d <= e
    BY <1>5, <2>1, ReachedIs
  <2> QED
    BY <1>1, <2>2
<1> QED
  BY <1>8, <1>9, <1>10 DEF Stops

\* One host that takes the password is enough, wherever it is among the hosts.
THEOREM OneHostIsEnough == ASSUME dbs \in Seq(Databases) PROVE SomeHostSuffices
<1> SUFFICES ASSUME NEW d \in Tried(dbs)
             PROVE  LET hosts == dbs[d].hosts
                        good == {i \in DOMAIN hosts : hosts[i] = "ok"}
                    IN  good # {} /\ dbs[d].driver # "other"
                          /\ (dbs[d].driver = "elastic" =>
                                \A i \in DOMAIN hosts : hosts[i] = "down" => Min(good) < i)
                        => d \in Result.set
  BY DEF SomeHostSuffices
<1> DEFINE hosts == dbs[d].hosts
           good == ThatAre(hosts, {"ok"})
           outcome == UpdateUserPassword(dbs[d])
<1>1. d \in DOMAIN dbs
  BY TriedIs DEF Called
<1>2. hosts \in Seq(Hosts) /\ dbs[d].driver \in Drivers
  BY <1>1, DatabaseAt
<1>3. {i \in DOMAIN hosts : hosts[i] = "ok"} = good
  BY DEF ThatAre
<1>4. ASSUME good # {}, dbs[d].driver # "other",
             dbs[d].driver = "elastic" =>
               \A i \in DOMAIN hosts : hosts[i] = "down" => Min(good) < i
      PROVE  outcome.set # {}
  <2>1. CASE dbs[d].driver = "postgres"
    <3>1. outcome = UntilSuccess(hosts, {"ok"})
      BY <2>1 DEF UpdateUserPassword, postgres
    <3> QED
      BY <1>2, <1>4, <3>1, UntilOneSucceeds
  <2>2. CASE dbs[d].driver = "mysql"
    <3>1. outcome = UntilSuccess(hosts, {"ok", "half"})
      BY <2>2 DEF UpdateUserPassword, mysql
    <3> QED
      BY <1>2, <1>4, <3>1, UntilOneSucceeds
  <2>3. CASE dbs[d].driver = "cassandra"
    <3>1. outcome = cassandra(hosts)
      BY <2>3 DEF UpdateUserPassword
    <3>2. DOMAIN hosts # {}
      BY <1>4 DEF ThatAre
    <3> QED
      BY <1>4, <3>1, <3>2 DEF cassandra, Outcome
  <2>4. CASE dbs[d].driver = "elastic"
    <3>1. outcome = elastic(hosts)
      BY <2>4 DEF UpdateUserPassword
    <3> QED
      BY <1>2, <1>4, <2>4, <3>1, ElasticSucceeds
  <2> QED
    BY <1>2, <1>4, <2>1, <2>2, <2>3, <2>4 DEF Drivers
<1>5. d \in Result.set <=> outcome.set # {}
  BY DEF Result, updateDatabases
<1> HIDE DEF outcome, good
<1> QED
  BY <1>3, <1>4, <1>5

\* In a list of any length, what happens to a database is what would happen to
\* it alone, unless an earlier one ends the loop.
THEOREM EachAsIfAlone == ASSUME dbs \in Seq(Databases) PROVE DatabasesAreIndependent
<1> SUFFICES ASSUME NEW d \in DOMAIN dbs,
                    \A e \in 1 .. d - 1 : dbs[e].login = "found" =>
                       dbs[e].credentials /\ ~UpdateUserPassword(dbs[e]).panics
             PROVE  d \in Result.set <=> updateDatabases(<<dbs[d]>>).set = {1}
  BY DEF DatabasesAreIndependent
<1> DEFINE alone == <<dbs[d]>>
           sets == UpdateUserPassword(dbs[d]).set # {}
           called == dbs[d].login = "found" /\ dbs[d].credentials
<1>1. DOMAIN dbs = 1 .. Len(dbs) /\ Len(dbs) \in Nat /\ d \in Nat
  OBVIOUS
<1>2. \A e \in Ends(dbs) : d <= e
  <2> SUFFICES ASSUME NEW e \in Ends(dbs), ~(d <= e) PROVE FALSE
    OBVIOUS
  <2>1. e \in 1 .. d - 1
    BY <1>1 DEF Ends
  <2>2. e \in DOMAIN dbs /\ dbs[e].login = "found"
          /\ (~dbs[e].credentials \/ UpdateUserPassword(dbs[e]).panics)
    BY DEF Ends, Called
  <2> QED
    BY <2>1, <2>2
<1>3. d \in Tried(dbs) <=> called
  BY <1>2, TriedIs DEF Called
<1>4. d \in Result.set <=> called /\ sets
  BY <1>3 DEF Result, updateDatabases
<1>5. /\ alone \in Seq(Databases) /\ DOMAIN alone = {1} /\ alone[1] = dbs[d]
  <2>1. dbs[d] \in Databases
    BY DatabaseAt
  <2> HIDE DEF Databases
  <2> QED
    BY <2>1
<1> HIDE DEF alone
<1>6. Ends(alone) \subseteq {1} /\ Called(alone) \subseteq {1} /\ (1 \in Called(alone) <=> called)
  BY <1>5 DEF Ends, Called
<1>7. Tried(alone) \subseteq {1} /\ (1 \in Tried(alone) <=> called)
  BY <1>5, <1>6, TriedIs
<1>8. updateDatabases(alone).set = {e \in Tried(alone) : UpdateUserPassword(alone[e]).set # {}}
  BY DEF updateDatabases
<1>9. updateDatabases(alone).set = {1} <=> called /\ sets
  BY <1>5, <1>7, <1>8
<1> QED
  BY <1>4, <1>9 DEF alone

-----------------------------------------------------------------------------
(* Leases *)

\* For every mount, not only those of up to four parts: "lease" stands for the
\* last part of the id, which Vault draws and no part of a mount is.
THEOREM LeaseIds ==
    ASSUME mount \in Seq(STRING \ {"lease"}), mount # <<>>
    PROVE  LeaseIdReturns
<1> DEFINE id == LeaseId(mount, "role", "lease")
<1>1. /\ Len(mount) \in Nat \ {0}
      /\ mount \in Seq(STRING)
      /\ \A i \in 1 .. Len(mount) : mount[i] \in STRING /\ mount[i] # "lease"
  OBVIOUS
<1>2. /\ Len(id) = Len(mount) + 3
      /\ \A i \in 1 .. Len(mount) : id[i] = mount[i]
      /\ id[Len(mount) + 1] = "creds" /\ id[Len(mount) + 2] = "role"
      /\ id[Len(mount) + 3] = "lease"
  BY <1>1 DEF LeaseId
<1>3. ASSUME NEW kept, Rebuilt(mount, "role", kept) = id PROVE kept = "lease"
  <2>1. Rebuilt(mount, "role", kept)[Len(mount) + 3] = kept
    BY <1>1 DEF Rebuilt
  <2> QED
    BY <1>2, <1>3, <2>1
<1>4. Kept(id) = "lease" => Rebuilt(mount, "role", Kept(id)) = id
  BY DEF Rebuilt, LeaseId
<1> HIDE DEF id
<1>5. id[4] = "lease" <=> Len(mount) = 1
  <2>1. CASE Len(mount) = 1
    BY <1>2, <2>1
  <2>2. CASE Len(mount) = 2
    BY <1>2, <2>2
  <2>3. CASE Len(mount) = 3
    BY <1>2, <2>3
  <2>4. CASE Len(mount) >= 4
    <3>1. 4 \in 1 .. Len(mount)
      BY <1>1, <2>4
    <3>2. id[4] # "lease"
      BY <1>1, <1>2, <3>1
    <3> QED
      BY <1>1, <2>4, <3>2
  <2>5. Len(mount) = 1 \/ Len(mount) = 2 \/ Len(mount) = 3 \/ Len(mount) >= 4
    <3>1. \A n \in Nat \ {0} : n = 1 \/ n = 2 \/ n = 3 \/ n >= 4
      OBVIOUS
    <3> QED
      BY <1>1, <3>1
  <2> QED
    BY <2>1, <2>2, <2>3, <2>4, <2>5
<1> QED
  BY <1>3, <1>4, <1>5 DEF LeaseIdReturns, Kept, id
=============================================================================
