---------------------------- MODULE CredentialMap ----------------------------
(***************************************************************************)
(* What a user expects of the credential store: a map from issuer to       *)
(* credentials in which every call happens at one instant, a login or      *)
(* logout touches the entry it names and no other, and a call that reports *)
(* an error changed nothing.                                               *)
(***************************************************************************)
CONSTANTS Clients, Keys, Values, Missing

VARIABLES map, reply

vars == <<map, reply>>

Init ==
    /\ map \in [Keys -> Values \cup {Missing}]
    /\ reply = [c \in Clients |-> "ok"]

Get(c, k) ==
    /\ reply' = [reply EXCEPT ![c] = map[k]]
    /\ UNCHANGED map

\* Storing Missing under k is a logout.
Set(c, k, v) ==
    /\ map' = [map EXCEPT ![k] = v]
    /\ reply' = [reply EXCEPT ![c] = "ok"]

Refuse(c) ==
    /\ reply' = [reply EXCEPT ![c] = "error"]
    /\ UNCHANGED map

Next ==
    \E c \in Clients :
        \/ Refuse(c)
        \/ \E k \in Keys : Get(c, k)
        \/ \E k \in Keys, v \in Values \cup {Missing} : Set(c, k, v)

Spec == Init /\ [][Next]_vars
=============================================================================
