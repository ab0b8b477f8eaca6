---------------------------- MODULE TokenResolve -----------------------------
(***************************************************************************)
(* auth.Resolve (src/auth/resolve.go) once neither a flag nor the          *)
(* environment supplied a token: the processes of one tool share the       *)
(* credential file, take tokens from it and refresh the spent ones at the  *)
(* auth server, which may consume the refresh token as it does so.  Login  *)
(* (the device flow and a Put) and logout (a Delete) are here too: they    *)
(* are what Resolve's errors send the user to.                             *)
(*                                                                         *)
(* The file is a SnapshotStore, which CredentialStore is proved to         *)
(* implement.  A record is the number of its access token and of its       *)
(* refresh token; TokenLifetime says when an access token is spent.        *)
(***************************************************************************)
EXTENDS Naturals, FiniteSets

CONSTANTS
    Procs,      \* processes of one tool
    Issuers,    \* canonical issuer URLs
    Policies,   \* what the server does with a refresh token that it accepts
    Moves,      \* <<i, j>>: the document at i may come to name j as the issuer
    MaxTokens   \* bound on the tokens the server mints

ASSUME ResolveAssumption ==
    /\ Policies # {} /\ Policies \subseteq {"rotate", "reuse", "omit"}
    /\ Moves \subseteq Issuers \X Issuers
    /\ MaxTokens \in Nat

VARIABLES
    store,       \* the records in the file, per issuer
    snapshot,    \* the records each process has loaded and not yet written back
    pc, job,     \* where each process is, and in what
    outcome,     \* how each process's last call ended
    advertised,  \* OIDCMetadata.Issuer of the document at each issuer URL
    minted,      \* how many tokens the server has minted
    live,        \* per issuer, the refresh tokens the server honours
    consumed,    \* the refresh tokens it has replaced by newer ones
    spent,       \* the access tokens inside their renewal window
    latest,      \* per issuer name, the access token the tool obtained last
    excused      \* issuers for which a failure was reported, or a process died,
                 \* since their record was last written

server == <<advertised, minted, live, consumed, spent>>

vars == <<store, snapshot, pc, job, outcome, server, latest, excused>>

-----------------------------------------------------------------------------

Ids == 0..MaxTokens    \* 0: no token

Records == [access : Ids, refresh : Ids]

NoRecord == [access |-> 0, refresh |-> 0]

File ==
    INSTANCE SnapshotStore WITH
        Clients <- Procs, Keys <- Issuers, Values <- Records, Missing <- NoRecord,
        content <- store, readable <- TRUE

\* target: the issuer the record is filed under; old: the refresh token sent;
\* fresh: the record to write.
Jobs == [kind : {"resolve", "login", "logout"}, issuer : Issuers,
         target : Issuers, old : Ids, fresh : Records]

NoJob == [kind |-> "none"]

TypeOK ==
    /\ File!TypeOK
    /\ pc \in [Procs -> {"idle", "fetching", "asking", "saving", "replacing"}]
    /\ job \in [Procs -> Jobs \cup {NoJob}]
    /\ \A p \in Procs : pc[p] # "idle" => job[p] \in Jobs
    /\ outcome \in [Procs -> {"none", "token", "done", "warned", "login", "error"}]
    /\ advertised \in [Issuers -> Issuers]
    /\ minted \in Ids
    /\ live \in [Issuers -> SUBSET (1..minted)]
    /\ consumed \subseteq 1..minted
    /\ spent \subseteq 1..minted
    /\ latest \in [Issuers -> 0..minted]
    /\ excused \subseteq Issuers

Init ==
    /\ store = [i \in Issuers |-> NoRecord]
    /\ snapshot = [p \in Procs |-> {}]
    /\ pc = [p \in Procs |-> "idle"]
    /\ job = [p \in Procs |-> NoJob]
    /\ outcome = [p \in Procs |-> "none"]
    /\ advertised = [i \in Issuers |-> i]
    /\ minted = 0
    /\ live = [i \in Issuers |-> {}]
    /\ consumed = {}
    /\ spent = {}
    /\ latest = [i \in Issuers |-> 0]
    /\ excused = {}

-----------------------------------------------------------------------------

Finish(p, result) ==
    /\ pc' = [pc EXCEPT ![p] = "idle"]
    /\ job' = [job EXCEPT ![p] = NoJob]
    /\ outcome' = [outcome EXCEPT ![p] = result]

Begin(p, where, j) ==
    /\ pc' = [pc EXCEPT ![p] = where]
    /\ job' = [job EXCEPT ![p] = j]
    /\ outcome' = [outcome EXCEPT ![p] = "none"]

\* Not the code's: whatever is on file is refreshed.
ResolveByRefreshing(p, i) ==
    /\ pc[p] = "idle"
    /\ LET r == store[i] IN
       \/ r.refresh = 0 /\ Finish(p, "login")
       \/ r.refresh # 0
            /\ Begin(p, "fetching", [kind |-> "resolve", issuer |-> i, target |-> i,
                                     old |-> r.refresh, fresh |-> NoRecord])
    /\ UNCHANGED <<store, snapshot, server, latest, excused>>

\* Resolve up to the point where it needs the network.
Resolve(p, i) ==
    /\ pc[p] = "idle"
    /\ LET r == store[i] IN
       \/ Finish(p, "error")                                  \* Store.Get fails
       \/ r = NoRecord /\ Finish(p, "login")                  \* ErrNoToken
       \/ r # NoRecord /\ r.access \notin spent /\ Finish(p, "token")
       \/ r # NoRecord /\ r.access \in spent /\ r.refresh = 0 /\ Finish(p, "login")
       \/ r # NoRecord /\ r.access \in spent /\ r.refresh # 0
            /\ Begin(p, "fetching", [kind |-> "resolve", issuer |-> i, target |-> i,
                                     old |-> r.refresh, fresh |-> NoRecord])
    /\ UNCHANGED <<store, snapshot, server, latest, excused>>

\* Not the code's: a document without an issuer leaves meta.Issuer empty.
FetchNoIssuer(p) ==
    /\ pc[p] = "fetching"
    /\ pc' = [pc EXCEPT ![p] = "asking"]
    /\ job' = [job EXCEPT ![p].target = ""]
    /\ UNCHANGED <<store, snapshot, outcome, server, latest, excused>>

\* FetchOIDCMetadata: RefreshToken will file the record under meta.Issuer.
FetchMetadata(p) ==
    /\ pc[p] = "fetching"
    /\ pc' = [pc EXCEPT ![p] = "asking"]
    /\ job' = [job EXCEPT ![p].target = advertised[job[p].issuer]]
    /\ UNCHANGED <<store, snapshot, outcome, server, latest, excused>>

\* No ClientID, no metadata, or the token endpoint was not reached.
NotAsked(p) ==
    /\ pc[p] \in {"fetching", "asking"}
    /\ Finish(p, "error")
    /\ UNCHANGED <<store, snapshot, server, latest, excused>>

Holder(id) == {i \in Issuers : id \in live[i]}

\* Not the code's: the refresh token of the answer is not recorded.
GrantedAccessOnly(id, policy) == [access |-> minted + 1, refresh |-> 0]

\* The server (external) accepts refresh token id and mints access token
\* minted + 1; Granted is the record credsFromTokenResponse makes of the answer.
Granted(id, policy) ==
    [access |-> minted + 1,
     refresh |-> CASE policy = "rotate" -> minted + 1
                   [] policy = "reuse"  -> id
                   [] policy = "omit"   -> 0]

Accept(id, policy) ==
    /\ minted < MaxTokens
    /\ Holder(id) # {}
    /\ minted' = minted + 1
    /\ live' = [i \in Issuers |->
                  IF i \in Holder(id) /\ policy = "rotate"
                  THEN (live[i] \ {id}) \cup {minted + 1} ELSE live[i]]
    /\ consumed' = IF policy = "rotate" THEN consumed \cup {id} ELSE consumed
    /\ UNCHANGED <<advertised, spent>>

Obtained(names) ==
    latest' = [i \in Issuers |-> IF i \in names THEN minted + 1 ELSE latest[i]]

\* Not the code's: Resolve returns the new token and does not save the pair.
RefreshUnsaved(p, policy) ==
    /\ pc[p] = "asking"
    /\ Accept(job[p].old, policy)
    /\ Finish(p, "token")
    /\ Obtained({job[p].issuer, job[p].target})
    /\ UNCHANGED <<store, snapshot, excused>>

\* RefreshToken succeeds.
Refresh(p, policy) ==
    /\ pc[p] = "asking"
    /\ Accept(job[p].old, policy)
    /\ pc' = [pc EXCEPT ![p] = "saving"]
    /\ job' = [job EXCEPT ![p].fresh = Granted(job[p].old, policy)]
    /\ Obtained({job[p].issuer, job[p].target})
    /\ UNCHANGED <<store, snapshot, outcome, excused>>

\* The server accepts, but its answer is lost, late or not a token response.
RefreshLost(p, policy) ==
    /\ pc[p] = "asking"
    /\ Accept(job[p].old, policy)
    /\ Finish(p, "error")
    /\ excused' = excused \cup {job[p].issuer, job[p].target}
    /\ UNCHANGED <<store, snapshot, latest>>

\* invalid_grant: the error points at a fresh login.
RefreshRejected(p) ==
    /\ pc[p] = "asking"
    /\ Holder(job[p].old) = {}
    /\ Finish(p, "login")
    /\ UNCHANGED <<store, snapshot, server, latest, excused>>

\* The device flow has succeeded; its credentials carry meta.Issuer.
Login(p, i) ==
    /\ pc[p] = "idle"
    /\ minted < MaxTokens
    /\ minted' = minted + 1
    /\ live' = [live EXCEPT ![i] = @ \cup {minted + 1}]
    /\ Obtained({i, advertised[i]})
    /\ Begin(p, "saving", [kind |-> "login", issuer |-> i, target |-> advertised[i], old |-> 0,
                           fresh |-> [access |-> minted + 1, refresh |-> minted + 1]])
    /\ UNCHANGED <<store, snapshot, advertised, consumed, spent, excused>>

Logout(p, i) ==
    /\ pc[p] = "idle"
    /\ Begin(p, "saving", [kind |-> "logout", issuer |-> i, target |-> i, old |-> 0,
                           fresh |-> NoRecord])
    /\ UNCHANGED <<store, snapshot, server, latest, excused>>

\* Store.Put or Store.Delete, as the two steps of SnapshotStore.
Load(p) ==
    /\ pc[p] = "saving"
    /\ File!TakeSnapshot(p)
    /\ pc' = [pc EXCEPT ![p] = "replacing"]
    /\ UNCHANGED <<job, outcome, server, latest, excused>>

Save(p) ==
    /\ pc[p] = "replacing"
    /\ File!Replace(p, job[p].target, job[p].fresh)
    /\ Finish(p, IF job[p].kind = "resolve" THEN "token" ELSE "done")
    /\ excused' = excused \ {job[p].target}
    /\ UNCHANGED <<server, latest>>

\* Not the code's: a Put that fails goes unmentioned.
SaveFailsSilently(p) ==
    /\ pc[p] \in {"saving", "replacing"}
    /\ snapshot' = [snapshot EXCEPT ![p] = {}]
    /\ Finish(p, "token")
    /\ UNCHANGED <<store, server, latest, excused>>

\* Store.Put fails: Resolve warns and returns the token all the same, a login
\* or a logout reports the error.
SaveFails(p) ==
    /\ pc[p] \in {"saving", "replacing"}
    /\ snapshot' = [snapshot EXCEPT ![p] = {}]
    /\ Finish(p, IF job[p].kind = "resolve" THEN "warned" ELSE "error")
    /\ excused' = excused \cup {job[p].issuer, job[p].target}
    /\ UNCHANGED <<store, server, latest>>

Crash(p) ==
    /\ pc[p] # "idle"
    /\ snapshot' = [snapshot EXCEPT ![p] = {}]
    /\ Finish(p, "none")
    /\ excused' = excused \cup {job[p].issuer, job[p].target}
    /\ UNCHANGED <<store, server, latest>>

\* Time passes (external): an access token enters its renewal window.
Age(id) ==
    /\ id \in (1..minted) \ spent
    /\ spent' = spent \cup {id}
    /\ UNCHANGED <<store, snapshot, pc, job, outcome, advertised, minted, live,
                   consumed, latest, excused>>

\* The realm ends the user's sessions (external).
EndSession(i) ==
    /\ live[i] # {}
    /\ live' = [live EXCEPT ![i] = {}]
    /\ UNCHANGED <<store, snapshot, pc, job, outcome, advertised, minted, consumed,
                   spent, latest, excused>>

\* The realm's operator gives it another name (external); the old URL still works.
Move(i, j) ==
    /\ <<i, j>> \in Moves
    /\ advertised[i] # j
    /\ advertised' = [advertised EXCEPT ![i] = j]
    /\ UNCHANGED <<store, snapshot, pc, job, outcome, minted, live, consumed,
                   spent, latest, excused>>

Step(p) ==
    \/ \E i \in Issuers : Resolve(p, i) \/ Login(p, i) \/ Logout(p, i)
    \/ FetchMetadata(p) \/ NotAsked(p)
    \/ \E policy \in Policies : Refresh(p, policy) \/ RefreshLost(p, policy)
    \/ RefreshRejected(p)
    \/ Load(p) \/ Save(p) \/ SaveFails(p) \/ Crash(p)

Next ==
    \/ \E p \in Procs : Step(p)
    \/ \E id \in 1..MaxTokens : Age(id)
    \/ \E i \in Issuers : EndSession(i)
    \/ \E i, j \in Issuers : Move(i, j)

Spec == Init /\ [][Next]_vars

-----------------------------------------------------------------------------

\* No failure was reported for issuer i, and no process died at it, since its
\* record was last written.
Untroubled(i) == i \notin excused

\* The document at i names i: what is refreshed for i is filed under i.
Named(i) == advertised[i] = i

\* Besides, no other realm goes by the name i: no renaming touches i.
Settled(i) == Untroubled(i) /\ Named(i) /\ \A j \in Issuers : advertised[j] = i => j = i

\* The refresh token on file for i is one that the server has replaced, or none
\* at all; no call is about to mend that, and the user has heard of nothing.
Stranded(i) ==
    /\ store[i] # NoRecord
    /\ store[i].refresh \in consumed \cup {0}
    /\ \A p \in Procs : pc[p] # "idle" => i \notin {job[p].issuer, job[p].target}
    /\ Untroubled(i)

\* Unless a failure was reported or a process died, no refresh token on file is
\* one the server has already replaced: no call of Resolve, login or logout
\* leaves a consumed token behind, or brings one back, without a word.
SessionSurvives == \A i \in Issuers : ~Stranded(i)

\* The same, with one exemption: an issuer i whose document names another.  Its
\* refreshed pair is filed under that other name, and the record under i, where
\* the next command looks, keeps the consumed token.
NamedSessionSurvives == \A i \in Issuers : Named(i) => ~Stranded(i)

\* At an issuer that no renaming touches, the user is sent to log in only when
\* there is nothing on file, the realm has ended the session, or an earlier
\* failure was reported.
LoginOnlyWhenNeeded ==
    [][\A p \in Procs, i \in Issuers :
          (Resolve(p, i) \/ (RefreshRejected(p) /\ job[p].issuer = i))
              /\ outcome'[p] = "login" /\ Settled(i)
          => store[i] = NoRecord \/ live[i] = {}]_vars

\* At an issuer that no renaming touches, and unless a failure was reported, a
\* refresh is asked for only when the newest token the tool obtained is spent:
\* what one command refreshed, the next one finds.
NoNeedlessRefresh ==
    [][\A p \in Procs :
          (\E policy \in Policies : Refresh(p, policy)) /\ Settled(job[p].issuer)
          => latest[job[p].issuer] \in spent \cup {0}]_vars
=============================================================================
