--------------------------- MODULE CredentialStore ---------------------------
(***************************************************************************)
(* auth.Store (src/auth/store.go): one JSON file holding every login of a  *)
(* tool, shared by all the processes of that tool a user runs, with no     *)
(* lock.  Get reads the file once.  Put and Delete read it, edit the copy  *)
(* in memory, write the copy to a temporary file and rename that file over *)
(* the store.  Each of those system calls is a step here, so that other    *)
(* processes, I/O errors and crashes can come in between.                  *)
(*                                                                         *)
(* The credentials of one login are a token of Tokens: the Issuer field is *)
(* always the key (Put assigns it, Get overrides it), the other fields are *)
(* never looked at by the store.                                           *)
(***************************************************************************)
CONSTANTS
    Procs,        \* the processes of one tool that share the file
    Spellings,    \* the issuer URLs callers pass
    Canon,        \* canonicalIssuer, as a function on Spellings
    Blank,        \* the empty issuer
    Tokens,       \* the credentials a login or a refresh yields
    NoToken,      \* the absence of credentials (ErrNoCredentials)
    Outsiders     \* who else touches the file: "user", "newer tool"

ASSUME CanonAssumption ==
    /\ Canon \in [Spellings -> Spellings]
    /\ Blank \in Spellings

ASSUME TokenAssumption ==
    /\ NoToken \notin Tokens
    /\ Outsiders \subseteq {"user", "newer tool"}

VARIABLES
    disk,     \* the file at Store.Path
    pc,       \* where each process is in Put or Delete
    op,       \* the edit each process is making
    view,     \* the storeFile each process loaded
    temp,     \* the temporary file each process is writing
    reply     \* the outcome of each process's last call

vars == <<disk, pc, op, view, temp, reply>>

-----------------------------------------------------------------------------

Issuers == {Canon[s] : s \in Spellings} \ {Blank}

Logins == [Issuers -> Tokens \cup {NoToken}]

NoLogins == [i \in Issuers |-> NoToken]

\* Storing NoToken under an issuer is what Delete does.
Edits == [issuer : Issuers, token : Tokens \cup {NoToken}]

NoEdit == [issuer |-> Blank, token |-> NoToken]

\* "corrupt": not JSON; "future": a version this tool does not know;
\* "torn": a prefix of what somebody meant to write.
Unreadable == {"corrupt", "future", "torn"}

Files == [state : {"absent", "readable"}, logins : Logins]
            \cup [state : Unreadable, logins : {NoLogins}]

\* load: a missing file is an empty store, anything it cannot decode is an error.
Loadable == disk.state \notin Unreadable

\* Not the code's: save writes the new entry and drops the rest.
EditedAlone(p) == [NoLogins EXCEPT ![op[p].issuer] = op[p].token]

\* What process p's save writes: the loaded file with one entry replaced.
Edited(p) == [view[p] EXCEPT ![op[p].issuer] = op[p].token]

TypeOK ==
    /\ disk \in Files
    /\ disk.state = "absent" => disk.logins = NoLogins
    /\ pc \in [Procs -> {"idle", "loaded", "created", "writing", "written"}]
    /\ op \in [Procs -> Edits \cup {NoEdit}]
    /\ view \in [Procs -> Logins]
    /\ temp \in [Procs -> {"none", "empty", "torn", "whole"}]
    /\ reply \in [Procs -> Tokens \cup {NoToken, "ok", "error"}]

Init ==
    /\ disk \in Files
    /\ disk.state # "torn"
    /\ disk.state = "absent" => disk.logins = NoLogins
    /\ pc = [p \in Procs |-> "idle"]
    /\ op = [p \in Procs |-> NoEdit]
    /\ view = [p \in Procs |-> NoLogins]
    /\ temp = [p \in Procs |-> "none"]
    /\ reply = [p \in Procs |-> "ok"]

-----------------------------------------------------------------------------

\* Get: one read of the file, and the entry under the canonical issuer.
Get(p, s) ==
    /\ pc[p] = "idle"
    /\ Canon[s] # Blank
    /\ Loadable
    /\ reply' = [reply EXCEPT ![p] = disk.logins[Canon[s]]]
    /\ UNCHANGED <<disk, pc, op, view, temp>>

\* Not the code's: the issuer is filed as it was spelled.
LoadAsSpelled(p, s, t) ==
    /\ pc[p] = "idle"
    /\ s # Blank /\ Loadable
    /\ pc' = [pc EXCEPT ![p] = "loaded"]
    /\ op' = [op EXCEPT ![p] = [issuer |-> s, token |-> t]]
    /\ view' = [view EXCEPT ![p] = disk.logins]
    /\ UNCHANGED <<disk, temp, reply>>

\* Not the code's: what cannot be decoded counts as an empty store.
LoadAnything(p, s, t) ==
    /\ pc[p] = "idle"
    /\ Canon[s] # Blank
    /\ pc' = [pc EXCEPT ![p] = "loaded"]
    /\ op' = [op EXCEPT ![p] = [issuer |-> Canon[s], token |-> t]]
    /\ view' = [view EXCEPT ![p] = disk.logins]
    /\ UNCHANGED <<disk, temp, reply>>

\* The part Put and Delete share: read the file and prepare the edit.
Load(p, s, t) ==
    /\ pc[p] = "idle"
    /\ Canon[s] # Blank
    /\ Loadable
    /\ pc' = [pc EXCEPT ![p] = "loaded"]
    /\ op' = [op EXCEPT ![p] = [issuer |-> Canon[s], token |-> t]]
    /\ view' = [view EXCEPT ![p] = disk.logins]
    /\ UNCHANGED <<disk, temp, reply>>

Put(p, s, t) == t \in Tokens /\ Load(p, s, t)

Delete(p, s) == Load(p, s, NoToken)

\* A call that ends before save: no credentials or a blank issuer were passed,
\* the file is unreadable, or reading it failed.
Refuse(p) ==
    /\ pc[p] = "idle"
    /\ reply' = [reply EXCEPT ![p] = "error"]
    /\ UNCHANGED <<disk, pc, op, view, temp>>

\* save: os.MkdirAll, os.CreateTemp and Chmod.
CreateTemp(p) ==
    /\ pc[p] = "loaded"
    /\ pc' = [pc EXCEPT ![p] = "created"]
    /\ temp' = [temp EXCEPT ![p] = "empty"]
    /\ UNCHANGED <<disk, op, view, reply>>

\* Not the code's: save writes over the store, without a temporary file.
WriteInPlace(p) ==
    /\ pc[p] = "created"
    /\ pc' = [pc EXCEPT ![p] = "writing"]
    /\ disk' = [state |-> "torn", logins |-> NoLogins]
    /\ temp' = [temp EXCEPT ![p] = "torn"]
    /\ UNCHANGED <<op, view, reply>>

\* save: tmp.Write has put some of the bytes in the file.
BeginWrite(p) ==
    /\ pc[p] = "created"
    /\ pc' = [pc EXCEPT ![p] = "writing"]
    /\ temp' = [temp EXCEPT ![p] = "torn"]
    /\ UNCHANGED <<disk, op, view, reply>>

\* save: tmp.Write has put all of them, and tmp.Close has succeeded.
EndWrite(p) ==
    /\ pc[p] = "writing"
    /\ pc' = [pc EXCEPT ![p] = "written"]
    /\ temp' = [temp EXCEPT ![p] = "whole"]
    /\ UNCHANGED <<disk, op, view, reply>>

\* What the store is once process p's temporary file has its name.
Renamed(p) ==
    IF temp[p] = "whole" THEN [state |-> "readable", logins |-> Edited(p)]
                         ELSE [state |-> "torn", logins |-> NoLogins]

\* The call is over: whatever it held in memory is gone.
Forget(p) ==
    /\ pc' = [pc EXCEPT ![p] = "idle"]
    /\ op' = [op EXCEPT ![p] = NoEdit]
    /\ view' = [view EXCEPT ![p] = NoLogins]
    /\ temp' = [temp EXCEPT ![p] = "none"]

\* save: os.Rename, and the successful return.
Rename(p) ==
    /\ pc[p] = "written"
    /\ disk' = Renamed(p)
    /\ Forget(p)
    /\ reply' = [reply EXCEPT ![p] = "ok"]

\* Not the code's: save reports an error of a step after the rename.
FailAfterRename(p) ==
    /\ pc[p] = "written"
    /\ disk' = Renamed(p)
    /\ Forget(p)
    /\ reply' = [reply EXCEPT ![p] = "error"]

\* save: any of its system calls fails; the deferred os.Remove tidies up.
Fail(p) ==
    /\ pc[p] # "idle"
    /\ Forget(p)
    /\ reply' = [reply EXCEPT ![p] = "error"]
    /\ UNCHANGED disk

\* The process dies inside save.  Its deferred os.Remove never runs, but no
\* process opens the temporary file it leaves behind: CreateTemp picks new names.
Crash(p) ==
    /\ pc[p] # "idle"
    /\ Forget(p)
    /\ UNCHANGED <<disk, reply>>

\* "delete it to start over": the user removes a file the tool rejects.
StartOver ==
    /\ "user" \in Outsiders
    /\ ~Loadable
    /\ disk' = [state |-> "absent", logins |-> NoLogins]
    /\ UNCHANGED <<pc, op, view, temp, reply>>

\* A later release of the same tool migrates the file to its own layout.
Migrate ==
    /\ "newer tool" \in Outsiders
    /\ Loadable
    /\ disk' = [state |-> "future", logins |-> NoLogins]
    /\ UNCHANGED <<pc, op, view, temp, reply>>

Step(p) ==
    \/ \E s \in Spellings : Get(p, s) \/ Delete(p, s)
    \/ \E s \in Spellings, t \in Tokens : Put(p, s, t)
    \/ Refuse(p)
    \/ CreateTemp(p) \/ BeginWrite(p) \/ EndWrite(p) \/ Rename(p)
    \/ Fail(p) \/ Crash(p)

Next == (\E p \in Procs : Step(p)) \/ StartOver \/ Migrate

Spec == Init /\ [][Next]_vars

-----------------------------------------------------------------------------

\* The store is never left half-written, whatever dies inside save.
StoreNeverTorn == disk.state # "torn"

\* A file this tool cannot decode, or whose version it does not know, is not
\* replaced by any process of it: only the user, who deletes it, changes it.
UnreadableNeverReplaced ==
    [][~Loadable /\ disk' # disk => disk'.state = "absent"]_vars

\* A call on one issuer leaves every other login as it is on the file.
OnlyTheNamedIssuerChanges ==
    [][\A i \in Issuers :
          disk'.logins[i] # disk.logins[i] =>
             \E p \in Procs : pc[p] = "written" /\ op[p].issuer = i]_vars

\* Whatever the interleaving, the file is always some earlier file with one
\* entry replaced, as module SnapshotStore says.
Snapshots ==
    INSTANCE SnapshotStore WITH
        Clients <- Procs, Keys <- Issuers, Values <- Tokens, Missing <- NoToken,
        content <- disk.logins,
        readable <- Loadable,
        snapshot <- [p \in Procs |-> IF pc[p] = "idle" THEN {} ELSE {view[p]}]

IsSnapshotStore == Snapshots!Spec

\* To a process that is alone on the file, the store is the map of logins
\* that module CredentialMap describes.
Map ==
    INSTANCE CredentialMap WITH
        Clients <- Procs, Keys <- Issuers, Values <- Tokens, Missing <- NoToken,
        map <- disk.logins

IsCredentialMap == Map!Spec
=============================================================================
