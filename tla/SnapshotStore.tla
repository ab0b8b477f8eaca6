---------------------------- MODULE SnapshotStore ----------------------------
(***************************************************************************)
(* What a credential file promises to any number of concurrent clients:    *)
(* a client edits one entry of a snapshot it took of the whole file, and   *)
(* its edited snapshot replaces the file in one indivisible step.  It does *)
(* not promise that the snapshot is still current by then.                 *)
(***************************************************************************)
CONSTANTS Clients, Keys, Values, Missing

VARIABLES content,      \* what the file holds, if the tool can read it
          readable,     \* whether the tool can read the file
          snapshot      \* per client, {} or {the content its edit starts from}

vars == <<content, readable, snapshot>>

\* A file the tool cannot read (or that is absent) contributes no entries.
Nothing == [k \in Keys |-> Missing]

Contents == [Keys -> Values \cup {Missing}]

TypeOK ==
    /\ content \in Contents
    /\ readable \in BOOLEAN
    /\ snapshot \in [Clients -> SUBSET Contents]

Init ==
    /\ content \in Contents
    /\ readable \in BOOLEAN
    /\ ~readable => content = Nothing
    /\ snapshot = [c \in Clients |-> {}]

TakeSnapshot(c) ==
    /\ readable
    /\ snapshot[c] = {}
    /\ snapshot' = [snapshot EXCEPT ![c] = {content}]
    /\ content' = content /\ readable' = readable

Replace(c, k, v) ==
    /\ \E m \in snapshot[c] : content' = [m EXCEPT ![k] = v]
    /\ readable' = TRUE
    /\ snapshot' = [snapshot EXCEPT ![c] = {}]

Abandon(c) ==
    /\ snapshot[c] # {}
    /\ snapshot' = [snapshot EXCEPT ![c] = {}]
    /\ content' = content /\ readable' = readable

\* Somebody else removes the file or puts one there this tool cannot read.
Outside ==
    /\ readable' \in BOOLEAN
    /\ content' = Nothing
    /\ UNCHANGED snapshot

Next ==
    \/ \E c \in Clients : TakeSnapshot(c) \/ Abandon(c)
    \/ \E c \in Clients, k \in Keys, v \in Values \cup {Missing} : Replace(c, k, v)
    \/ Outside

Spec == Init /\ [][Next]_vars
=============================================================================
