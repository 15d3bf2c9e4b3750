----------------------------- MODULE Namespaces -----------------------------
(***************************************************************************)
(* The namespaces the operator works in and those a ref+k8s reference may  *)
(* name: the lists main.go makes of its flags, and what shouldExclude,     *)
(* isNamespaceSyncAllowed and getKeyFromK8sSecret                          *)
(* (valssecret_controller.go) make of them.                                *)
(*                                                                         *)
(* The text of a list is the sequence of what is between its commas: a     *)
(* name, or none, after a blank or not.                                    *)
(***************************************************************************)
EXTENDS Sequences, Naturals

CONSTANTS Spaces,  \* names of namespaces
          NoName   \* nothing between two commas

ASSUME SpacesAssumption == NoName \notin Spaces

Items == [name : Spaces \cup {NoName}, blank : BOOLEAN]
Key(space) == [name |-> space, blank |-> FALSE]

EmptyText == <<Key(NoName)>>

\* The definitions with an underscore in their name are not part of the model:
\* each is a mistake the code could make, and some property fails with it.

\* nsSlice: the text is trimmed as a whole, its parts are not.
nsSlice(text) ==
    [i \in DOMAIN text |->
       IF i = 1 \/ (i = Len(text) /\ text[i].name = NoName)
       THEN Key(text[i].name) ELSE text[i]]

Parts(text) == {nsSlice(text)[i] : i \in DOMAIN text}

excludeNs(text) == IF text = EmptyText THEN {} ELSE Parts(text)

allowedSyncNs_AllParts(text) == Parts(text)

allowedSyncNs(text) == Parts(text) \ {Key(NoName)}

\* The namespaces of -watch-namespaces are trimmed one by one.
watched(text) == {text[i].name : i \in DOMAIN text} \ {NoName}

shouldExclude(space, exclude) == Key(space) \in exclude

\* Whether objects of a namespace are reconciled; without a list, all are.
Reconciled(space, watch, exclude) ==
    /\ watched(watch) = {} \/ space \in watched(watch)
    /\ ~shouldExclude(space, excludeNs(exclude))

isNamespaceSyncAllowed_ListFirst(from, to, disabled, allowed) ==
    \/ from = to
    \/ allowed # {} /\ Key(to) \in allowed
    \/ allowed = {} /\ ~disabled

isNamespaceSyncAllowed(from, to, disabled, allowed) ==
    \/ from = to
    \/ ~disabled /\ (allowed = {} \/ Key(to) \in allowed)

-----------------------------------------------------------------------------
(* What README.md says *)

\* The namespaces that the user lists.
Listed(text) == watched(text)

\* The list has no blank that is not trimmed.
Tidy(text) == \A i \in DOMAIN text : nsSlice(text)[i].blank = FALSE

\* The table under "Precedence".
MayReference(from, to, disabled, text) ==
    from = to \/ (~disabled /\ (Listed(text) = {} \/ to \in Listed(text)))
=============================================================================
