----------------------------- MODULE Publication -----------------------------
(***************************************************************************)
(* What publishing promises at one coordinate when only one of those who   *)
(* publish there may push: the hub takes in one bundle, whole and in one   *)
(* step, what is served stays with it from then on, and whoever is told    *)
(* of success has just had its own bundle taken in.                        *)
(***************************************************************************)
CONSTANTS
    Publishers,
    BundlesOf,   \* per publisher, the manifests it may come to push
    AttachedTo,  \* per publisher, what is to be attached to its bundle
    Nothing

VARIABLES
    entry,    \* what the hub has taken in, with its attachments
    served,   \* the manifest that the coordinate serves
    told      \* per publisher, how its last attempt ended

vars == <<entry, served, told>>

Init ==
    /\ entry = Nothing
    /\ served = Nothing
    /\ told = [p \in Publishers |-> "none"]

\* Until the hub has taken something in, what is served may be replaced.
Serve(p) ==
    /\ entry = Nothing
    /\ served' \in BundlesOf[p]
    /\ UNCHANGED <<entry, told>>

\* The bundle of p is taken in, and p learns of it or does not.
Enter(p) ==
    /\ entry = Nothing
    /\ served \in BundlesOf[p]
    /\ entry' = [digest |-> served, attached |-> AttachedTo[p]]
    /\ \E result \in {"published", "failed"} : told' = [told EXCEPT ![p] = result]
    /\ UNCHANGED served

\* An attempt begins, or ends without success.
Tell(p) ==
    /\ told[p] # "published"
    /\ \E result \in {"none", "failed", "denied", "taken"} :
          /\ result = "taken" => entry # Nothing
          /\ told' = [told EXCEPT ![p] = result]
    /\ UNCHANGED <<entry, served>>

Next == \E p \in Publishers : Serve(p) \/ Enter(p) \/ Tell(p)

Spec == Init /\ [][Next]_vars
=============================================================================
