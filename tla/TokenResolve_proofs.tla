------------------------- MODULE TokenResolve_proofs -------------------------
(***************************************************************************)
(* What TLAPS proves of TokenResolve for any issuers and number of tokens. *)
(***************************************************************************)
EXTENDS TokenResolve, TLAPS

LEMMA RecordTypes ==
    /\ NoRecord \in Records
    /\ \A a, r \in Ids : [access |-> a, refresh |-> r] \in Records
    /\ \A r \in Records : r.access \in Ids /\ r.refresh \in Ids
  BY ResolveAssumption DEF NoRecord, Records, Ids

\* The server's side, when it accepts a refresh token.
LEMMA AcceptType ==
    ASSUME TypeOK, NEW id, NEW policy, Accept(id, policy)
    PROVE  /\ minted' = minted + 1 /\ minted' \in Ids
           /\ live' \in [Issuers -> SUBSET (1..minted')]
           /\ consumed' \subseteq 1..minted' /\ spent' \subseteq 1..minted'
           /\ advertised' = advertised
  <1>0. /\ minted \in 0..MaxTokens /\ minted < MaxTokens /\ minted' = minted + 1
        /\ live \in [Issuers -> SUBSET (1..minted)]
        /\ consumed \subseteq 1..minted /\ spent \subseteq 1..minted
    BY DEF TypeOK, Ids, Accept
  <1>1. minted' \in Ids /\ 1..minted \subseteq 1..minted' /\ minted' \in 1..minted'
    BY <1>0, ResolveAssumption DEF Ids
  <1>2. \A i \in Holder(id) : id \in 1..minted
    BY <1>0 DEF Holder
  <1>3. Holder(id) # {}
    BY DEF Accept
  <1>4. id \in 1..minted
    BY <1>2, <1>3
  <1>5. live' \in [Issuers -> SUBSET (1..minted')]
    BY <1>0, <1>1 DEF Accept
  <1>6. consumed' \subseteq 1..minted'
    BY <1>0, <1>1, <1>4 DEF Accept
  <1> QED
    BY <1>0, <1>1, <1>5, <1>6 DEF Accept

\* TypeOK in three parts: the processes, the file, the server.
ProcsOK ==
    /\ pc \in [Procs -> {"idle", "fetching", "asking", "saving", "replacing"}]
    /\ job \in [Procs -> Jobs \cup {NoJob}]
    /\ \A p \in Procs : pc[p] # "idle" => job[p] \in Jobs
    /\ outcome \in [Procs -> {"none", "token", "done", "warned", "login", "error"}]

FileOK ==
    /\ store \in [Issuers -> Records]
    /\ snapshot \in [Procs -> SUBSET [Issuers -> Records]]

ServerOK ==
    /\ advertised \in [Issuers -> Issuers]
    /\ minted \in Ids
    /\ live \in [Issuers -> SUBSET (1..minted)]
    /\ consumed \subseteq 1..minted
    /\ spent \subseteq 1..minted
    /\ latest \in [Issuers -> 0..minted]
    /\ excused \subseteq Issuers

LEMMA TypeParts == TypeOK <=> ProcsOK /\ FileOK /\ ServerOK
  <1>1. Records \cup {NoRecord} = Records
    BY RecordTypes
  <1>2. File!TypeOK <=> FileOK
    BY <1>1 DEF File!TypeOK, File!Contents, FileOK
  <1> QED
    BY <1>2 DEF TypeOK, ProcsOK, ServerOK

LEMMA FinishType ==
    ASSUME ProcsOK, NEW p \in Procs,
           NEW result \in {"none", "token", "done", "warned", "login", "error"},
           Finish(p, result)
    PROVE  ProcsOK'
  BY DEF ProcsOK, Finish

LEMMA BeginType ==
    ASSUME ProcsOK, NEW p \in Procs,
           NEW where \in {"fetching", "asking", "saving", "replacing"},
           NEW j \in Jobs, Begin(p, where, j)
    PROVE  ProcsOK'
  BY DEF ProcsOK, Begin

\* The job goes on, with some of its fields filled in.
LEMMA GoOnType ==
    ASSUME ProcsOK, NEW p \in Procs, pc[p] # "idle",
           NEW where \in {"fetching", "asking", "saving", "replacing"},
           NEW j \in Jobs,
           pc' = [pc EXCEPT ![p] = where], job' = [job EXCEPT ![p] = j],
           UNCHANGED outcome
    PROVE  ProcsOK'
  BY DEF ProcsOK

LEMMA JobParts ==
    ASSUME ProcsOK, NEW p \in Procs, pc[p] # "idle"
    PROVE  /\ job[p] \in Jobs /\ job[p].issuer \in Issuers /\ job[p].target \in Issuers
           /\ job[p].fresh \in Records
           /\ \A i \in Issuers : [job[p] EXCEPT !.target = i] \in Jobs
           /\ \A r \in Records : [job[p] EXCEPT !.fresh = r] \in Jobs
           /\ \A i \in Issuers :
                 [job EXCEPT ![p].target = i] = [job EXCEPT ![p] = [job[p] EXCEPT !.target = i]]
           /\ \A r \in Records :
                 [job EXCEPT ![p].fresh = r] = [job EXCEPT ![p] = [job[p] EXCEPT !.fresh = r]]
  <1>1. job[p] \in Jobs
    BY DEF ProcsOK
  <1>2. \A i \in Issuers : [job[p] EXCEPT !.target = i] \in Jobs
    BY <1>1 DEF Jobs
  <1>3. \A r \in Records : [job[p] EXCEPT !.fresh = r] \in Jobs
    BY <1>1 DEF Jobs
  <1>4. job[p].issuer \in Issuers /\ job[p].target \in Issuers /\ job[p].fresh \in Records
    BY <1>1 DEF Jobs
  <1> QED
    BY <1>1, <1>2, <1>3, <1>4

LEMMA TypeInit == Init => TypeOK
  <1> SUFFICES ASSUME Init PROVE ProcsOK /\ FileOK /\ ServerOK
    BY TypeParts
  <1>1. 0 \in Ids
    BY ResolveAssumption DEF Ids
  <1>2. ProcsOK
    BY DEF Init, ProcsOK
  <1>3. FileOK
    BY RecordTypes DEF Init, FileOK
  <1>4. ServerOK
    BY <1>1 DEF Init, ServerOK
  <1> QED
    BY <1>2, <1>3, <1>4

\* What a refresh or a login does to the server and to who had what last.
LEMMA ObtainedType ==
    ASSUME TypeOK, NEW id, NEW policy, Accept(id, policy),
           NEW names, Obtained(names) \/ UNCHANGED latest,
           excused' \subseteq Issuers
    PROVE  ServerOK'
  <1>1. latest' \in [Issuers -> 0..minted']
    <2>1. latest \in [Issuers -> 0..minted] /\ minted \in Nat /\ minted' = minted + 1
      BY AcceptType, ResolveAssumption DEF TypeOK, Ids
    <2>2. 0..minted \subseteq 0..minted' /\ minted + 1 \in 0..minted'
      BY <2>1
    <2> QED
      BY <2>1, <2>2 DEF Obtained
  <1>2. advertised \in [Issuers -> Issuers]
    BY DEF TypeOK
  <1> QED
    BY <1>1, <1>2, AcceptType DEF ServerOK

LEMMA TypeStep == TypeOK /\ [Next]_vars => TypeOK'
  <1> SUFFICES ASSUME TypeOK, [Next]_vars PROVE TypeOK'
    OBVIOUS
  <1>a. ProcsOK /\ FileOK /\ ServerOK
    BY TypeParts
  <1>b. ASSUME ProcsOK', FileOK', ServerOK' PROVE TypeOK'
    BY <1>b, TypeParts, PTL
  <1>f. ASSUME UNCHANGED <<store, snapshot>> PROVE FileOK'
    BY <1>a, <1>f DEF FileOK
  <1>s. ASSUME UNCHANGED <<server, latest>>, excused' \subseteq Issuers PROVE ServerOK'
    BY <1>a, <1>s DEF ServerOK, server
  <1>p. ASSUME UNCHANGED <<pc, job, outcome>> PROVE ProcsOK'
    BY <1>a, <1>p DEF ProcsOK
  <1>e. excused \subseteq Issuers
    BY <1>a DEF ServerOK
  <1>1. ASSUME NEW p \in Procs, NEW i \in Issuers, Resolve(p, i) PROVE TypeOK'
    <2>1. store[i].refresh \in Ids /\ NoRecord \in Records
      BY <1>a, RecordTypes DEF FileOK
    <2>2. [kind |-> "resolve", issuer |-> i, target |-> i,
           old |-> store[i].refresh, fresh |-> NoRecord] \in Jobs
      BY <2>1 DEF Jobs
    <2>3. ProcsOK'
      BY <1>1, <1>a, <2>2, FinishType, BeginType DEF Resolve
    <2> QED
      BY <1>1, <1>b, <1>e, <1>f, <1>s, <2>3 DEF Resolve
  <1>2. ASSUME NEW p \in Procs, FetchMetadata(p) PROVE TypeOK'
    <2>1. pc[p] # "idle" /\ advertised[job[p].issuer] \in Issuers
      BY <1>2, <1>a, JobParts DEF FetchMetadata, ServerOK
    <2>2. ProcsOK'
      BY <1>2, <1>a, <2>1, JobParts, GoOnType DEF FetchMetadata
    <2> QED
      BY <1>2, <1>b, <1>e, <1>f, <1>s, <2>2 DEF FetchMetadata
  <1>3. ASSUME NEW p \in Procs, NotAsked(p) \/ RefreshRejected(p) PROVE TypeOK'
    <2>1. ProcsOK'
      BY <1>3, <1>a, FinishType DEF NotAsked, RefreshRejected
    <2> QED
      BY <1>3, <1>b, <1>e, <1>f, <1>s, <2>1 DEF NotAsked, RefreshRejected
  <1>4. ASSUME NEW p \in Procs, NEW policy \in Policies, Refresh(p, policy) PROVE TypeOK'
    <2>1. /\ pc[p] = "asking" /\ Accept(job[p].old, policy)
          /\ UNCHANGED <<store, snapshot, outcome, excused>>
          /\ Obtained({job[p].issuer, job[p].target})
      BY <1>4 DEF Refresh
    <2>2. Granted(job[p].old, policy) \in Records
      <3>1. minted + 1 \in Ids /\ 0 \in Ids /\ job[p].old \in Ids
        BY <1>a, <2>1, AcceptType, JobParts, ResolveAssumption DEF Ids, Jobs
      <3>2. policy \in {"rotate", "reuse", "omit"}
        BY ResolveAssumption
      <3> QED
        BY <3>1, <3>2 DEF Granted, Records
    <2>3. ProcsOK'
      BY <1>4, <1>a, <2>1, <2>2, JobParts, GoOnType DEF Refresh
    <2>4. ServerOK'
      BY <1>e, <2>1, ObtainedType
    <2> QED
      BY <1>b, <1>f, <2>1, <2>3, <2>4
  <1>5. ASSUME NEW p \in Procs, NEW policy \in Policies, RefreshLost(p, policy) PROVE TypeOK'
    <2>1. /\ pc[p] = "asking" /\ Accept(job[p].old, policy) /\ Finish(p, "error")
          /\ excused' = excused \cup {job[p].issuer, job[p].target}
          /\ UNCHANGED <<store, snapshot, latest>>
      BY <1>5 DEF RefreshLost
    <2>2. ProcsOK' /\ excused' \subseteq Issuers
      BY <1>a, <1>e, <2>1, FinishType, JobParts
    <2>3. ServerOK'
      BY <2>1, <2>2, ObtainedType
    <2> QED
      BY <1>b, <1>f, <2>1, <2>2, <2>3
  <1>6. ASSUME NEW p \in Procs, NEW i \in Issuers, Login(p, i) PROVE TypeOK'
    <2> DEFINE new == minted + 1
    <2>1. /\ minted < MaxTokens /\ minted' = new
          /\ live' = [live EXCEPT ![i] = @ \cup {new}]
          /\ Obtained({i, advertised[i]})
          /\ UNCHANGED <<store, snapshot, advertised, consumed, spent, excused>>
      BY <1>6 DEF Login
    <2>2. new \in Ids /\ 0 \in Ids /\ 1..minted \subseteq 1..new /\ new \in 1..new
          /\ 0..minted \subseteq 0..new /\ advertised[i] \in Issuers
      BY <1>a, <2>1, ResolveAssumption DEF ServerOK, Ids
    <2>3. [kind |-> "login", issuer |-> i, target |-> advertised[i], old |-> 0,
           fresh |-> [access |-> new, refresh |-> new]] \in Jobs
      BY <2>2, RecordTypes DEF Jobs
    <2>4. ProcsOK'
      BY <1>6, <1>a, <2>3, BeginType DEF Login
    <2>5. ServerOK'
      <3>1. latest' \in [Issuers -> 0..new]
        BY <1>a, <2>1, <2>2 DEF ServerOK, Obtained
      <3> HIDE DEF new
      <3>2. live' \in [Issuers -> SUBSET (1..new)]
        BY <1>a, <2>1, <2>2 DEF ServerOK
      <3> QED
        BY <1>a, <2>1, <2>2, <3>1, <3>2 DEF ServerOK
    <2> QED
      BY <1>b, <1>f, <2>1, <2>4, <2>5
  <1>7. ASSUME NEW p \in Procs, NEW i \in Issuers, Logout(p, i) PROVE TypeOK'
    <2>1. [kind |-> "logout", issuer |-> i, target |-> i, old |-> 0, fresh |-> NoRecord] \in Jobs
      BY RecordTypes, ResolveAssumption DEF Jobs, Ids
    <2>2. ProcsOK'
      BY <1>7, <1>a, <2>1, BeginType DEF Logout
    <2> QED
      BY <1>7, <1>b, <1>e, <1>f, <1>s, <2>2 DEF Logout
  <1>8. ASSUME NEW p \in Procs, Load(p) PROVE TypeOK'
    <2>1. ProcsOK'
      BY <1>8, <1>a DEF Load, ProcsOK
    <2>2. FileOK'
      BY <1>8, <1>a DEF Load, FileOK, File!TakeSnapshot
    <2> QED
      BY <1>8, <1>b, <1>e, <1>s, <2>1, <2>2 DEF Load
  <1>9. ASSUME NEW p \in Procs, Save(p) PROVE TypeOK'
    <2>1. job[p].target \in Issuers /\ job[p].fresh \in Records
      BY <1>9, <1>a, JobParts DEF Save
    <2>2. ProcsOK'
      BY <1>9, <1>a, FinishType DEF Save
    <2>3. FileOK'
      BY <1>9, <1>a, <2>1 DEF Save, FileOK, File!Replace
    <2> QED
      BY <1>9, <1>b, <1>e, <1>s, <2>2, <2>3 DEF Save
  <1>10. ASSUME NEW p \in Procs, SaveFails(p) \/ Crash(p) PROVE TypeOK'
    <2>1. /\ pc[p] # "idle" /\ UNCHANGED <<store, server, latest>>
          /\ snapshot' = [snapshot EXCEPT ![p] = {}]
          /\ excused' = excused \cup {job[p].issuer, job[p].target}
      BY <1>10 DEF SaveFails, Crash
    <2>2. ProcsOK'
      BY <1>10, <1>a, FinishType DEF SaveFails, Crash
    <2>3. FileOK'
      BY <1>a, <2>1 DEF FileOK
    <2>4. excused' \subseteq Issuers
      BY <1>a, <1>e, <2>1, JobParts
    <2> QED
      BY <1>b, <1>s, <2>1, <2>2, <2>3, <2>4
  <1>11. ASSUME NEW id \in 1..MaxTokens, Age(id) PROVE TypeOK'
    <2>1. ServerOK'
      BY <1>11, <1>a DEF Age, ServerOK
    <2> QED
      BY <1>11, <1>b, <1>f, <1>p, <2>1 DEF Age
  <1>12. ASSUME NEW i \in Issuers, EndSession(i) PROVE TypeOK'
    <2>1. ServerOK'
      BY <1>12, <1>a DEF EndSession, ServerOK
    <2> QED
      BY <1>12, <1>b, <1>f, <1>p, <2>1 DEF EndSession
  <1>13. ASSUME NEW i \in Issuers, NEW j \in Issuers, Move(i, j) PROVE TypeOK'
    <2>1. ServerOK'
      BY <1>13, <1>a DEF Move, ServerOK
    <2> QED
      BY <1>13, <1>b, <1>f, <1>p, <2>1 DEF Move
  <1>14. CASE UNCHANGED vars
    BY <1>14, <1>b, <1>e, <1>f, <1>p, <1>s DEF vars
  <1> QED
    BY <1>1, <1>2, <1>3, <1>4, <1>5, <1>6, <1>7, <1>8, <1>9, <1>10, <1>11, <1>12,
       <1>13, <1>14 DEF Next, Step

THEOREM ResolveTypeCorrect == Spec => []TypeOK
  BY TypeInit, TypeStep, PTL DEF Spec

\* An error or a crash gives up the snapshot, if there was one.
LEMMA FileStep == TypeOK /\ [Next]_vars => [File!Next]_(File!vars)
  <1> SUFFICES ASSUME TypeOK, [Next]_vars
               PROVE  [File!Next]_(File!vars)
    OBVIOUS
  <1>0. ProcsOK /\ FileOK
    BY TypeParts
  <1>1. ASSUME NEW p \in Procs, Load(p) PROVE File!Next
    BY <1>1 DEF Load, File!Next
  <1>2. ASSUME NEW p \in Procs, Save(p) PROVE File!Next
    <2>1. File!Replace(p, job[p].target, job[p].fresh) /\ pc[p] # "idle"
      BY <1>2 DEF Save
    <2>2. job[p].target \in Issuers /\ job[p].fresh \in Records \cup {NoRecord}
      BY <1>0, <2>1, JobParts
    <2> QED
      BY <2>1, <2>2 DEF File!Next
  <1>3. ASSUME NEW p \in Procs, SaveFails(p) \/ Crash(p)
        PROVE  File!Next \/ UNCHANGED File!vars
    <2>1. snapshot' = [snapshot EXCEPT ![p] = {}] /\ store' = store
      BY <1>3 DEF SaveFails, Crash
    <2>2. CASE snapshot[p] = {}
      <3>1. snapshot' = snapshot
        BY <1>0, <2>1, <2>2 DEF FileOK
      <3> QED
        BY <2>1, <3>1 DEF File!vars
    <2>3. CASE snapshot[p] # {}
      <3>1. File!Abandon(p)
        BY <2>1, <2>3 DEF File!Abandon
      <3> QED
        BY <3>1 DEF File!Next
    <2> QED
      BY <2>2, <2>3
  <1>4. ASSUME NEW p \in Procs, Step(p) PROVE File!Next \/ UNCHANGED File!vars
    <2>1. ASSUME NEW i \in Issuers, Resolve(p, i) \/ Login(p, i) \/ Logout(p, i)
          PROVE  UNCHANGED File!vars
      BY <2>1 DEF Resolve, Login, Logout, File!vars
    <2>2. ASSUME NEW policy \in Policies, Refresh(p, policy) \/ RefreshLost(p, policy)
          PROVE  UNCHANGED File!vars
      BY <2>2 DEF Refresh, RefreshLost, File!vars
    <2>3. ASSUME FetchMetadata(p) \/ NotAsked(p) \/ RefreshRejected(p)
          PROVE  UNCHANGED File!vars
      BY <2>3 DEF FetchMetadata, NotAsked, RefreshRejected, File!vars
    <2> QED
      BY <1>1, <1>2, <1>3, <1>4, <2>1, <2>2, <2>3 DEF Step
  <1>5. ASSUME \/ \E id \in 1..MaxTokens : Age(id)
               \/ \E i \in Issuers : EndSession(i)
               \/ \E i, j \in Issuers : Move(i, j)
               \/ UNCHANGED vars
        PROVE  UNCHANGED File!vars
    BY <1>5 DEF Age, EndSession, Move, vars, File!vars
  <1> QED
    BY <1>4, <1>5 DEF Next

\* What the processes do with the file, through any race, failure or crash, they
\* do as clients of SnapshotStore, which is what CredentialStore implements
\* (StoreImplementsSnapshotStore): the two models meet there.
THEOREM ResolveUsesSnapshotStore == Spec => File!Spec
  <1>1. Init => File!Init
    BY RecordTypes DEF Init, File!Init, File!Contents, NoRecord
  <1> QED
    BY <1>1, FileStep, ResolveTypeCorrect, PTL DEF Spec, File!Spec

-----------------------------------------------------------------------------

\* A realm is given another name at most once, and the name it is given stays.
RenamedOnce ==
    \A m, n \in Moves : /\ m[1] = n[1] => m[2] = n[2]
                        /\ m[2] # n[1]

\* One process, at realms that are renamed at most once and, when they leave a
\* refresh token valid, repeat it.
Lone ==
    /\ \A p, q \in Procs : p = q
    /\ RenamedOnce
    /\ "omit" \notin Policies

\* Issuer URLs i and j belong to different realms.
Apart(i, j) == advertised[i] # advertised[j]

\* The realm at issuer URL i goes by that URL, and no other does.
Unshared(i) == advertised[i] = i /\ \A j \in Issuers \ {i} : advertised[j] # i

\* A record with which the session at issuer i can be carried on.
Good(i, r) ==
    /\ r.refresh \notin consumed \cup {0}
    /\ r.refresh \in live[i] \/ live[i] = {}
    /\ r.access = latest[i]

Saving(i) == \E p \in Procs : pc[p] \in {"saving", "replacing"} /\ job[p].target = i

NameInv == \A i \in Issuers : advertised[i] = i \/ <<i, advertised[i]>> \in Moves

\* Each realm's refresh tokens are its own.
RealmInv ==
    \A i \in Issuers :
        /\ live[i] \cap consumed = {}
        /\ store[i].refresh \in 0..minted
        /\ \A j \in Issuers : Apart(i, j) =>
              /\ store[i].refresh \notin live[j]
              /\ store[i].refresh = store[j].refresh => store[i].refresh = 0

\* What is on file is good, unless a save of it is under way or went wrong.
FileInv ==
    \A i \in Issuers :
        store[i] # NoRecord /\ i \notin excused /\ ~Saving(i) =>
            /\ advertised[i] = i => store[i].refresh \notin consumed \cup {0}
            /\ Unshared(i) => Good(i, store[i])

\* Process p sends what is on file.  If its realm took another name since p
\* asked for it, no other entry of the file holds that token.
Asked(p) ==
    /\ job[p].target \in {job[p].issuer, advertised[job[p].issuer]}
    /\ job[p].old = store[job[p].issuer].refresh /\ job[p].old # 0
    /\ store[job[p].issuer].access \in spent
    /\ pc[p] = "fetching" => job[p].target = job[p].issuer
    /\ pc[p] = "asking" /\ job[p].target # advertised[job[p].issuer] =>
          \A j \in Issuers \ {job[p].issuer} : store[j].refresh # job[p].old

\* What process p is to write is good for its realm and nobody else's.
Kept(p) ==
    job[p].fresh # NoRecord =>
        /\ job[p].fresh.refresh \in (1..minted) \ consumed
        /\ \A j \in Issuers : Apart(job[p].target, j) =>
              job[p].fresh.refresh \notin live[j] \cup {store[j].refresh}
        /\ Unshared(job[p].target) => Good(job[p].target, job[p].fresh)

CallInv ==
    \A p \in Procs :
        /\ pc[p] \in {"fetching", "asking"} => Asked(p)
        /\ pc[p] \in {"saving", "replacing"} => Kept(p)
        /\ pc[p] = "replacing" => snapshot[p] = {store}

Parts == NameInv /\ RealmInv /\ FileInv /\ CallInv

SessionInv == TypeOK /\ Parts

LEMMA SessionInit == Init => Parts
  <1> SUFFICES ASSUME Init PROVE Parts
    OBVIOUS
  <1>1. NameInv /\ RealmInv
    BY DEF Init, NameInv, RealmInv, NoRecord
  <1>2. FileInv
    BY DEF Init, FileInv
  <1>3. CallInv
    BY DEF Init, CallInv
  <1> QED
    BY <1>1, <1>2, <1>3 DEF Parts

\* The name that a realm advertises is one it keeps.
LEMMA NamesStay ==
    ASSUME Lone, SessionInv, NEW i \in Issuers
    PROVE  advertised[i] \in Issuers /\ advertised[advertised[i]] = advertised[i]
  <1>1. advertised[i] \in Issuers
    BY DEF SessionInv, TypeOK
  <1>2. ASSUME advertised[advertised[i]] # advertised[i] PROVE FALSE
    <2>1. <<i, advertised[i]>> \in Moves
      BY <1>2 DEF SessionInv, Parts, NameInv
    <2>2. <<advertised[i], advertised[advertised[i]]>> \in Moves
      BY <1>1, <1>2 DEF SessionInv, Parts, NameInv
    <2>3. <<i, advertised[i]>>[2] # <<advertised[i], advertised[advertised[i]]>>[1]
      BY <2>1, <2>2 DEF Lone, RenamedOnce
    <2> QED
      BY <2>3
  <1> QED
    BY <1>1, <1>2

\* The call of p ends, or goes on with the network still ahead of it: the file,
\* the server and what is excused stay as they are.
LEMMA QuietStep ==
    ASSUME Lone, SessionInv, NEW p \in Procs,
           UNCHANGED <<store, server, latest, excused>>,
           pc[p] \notin {"saving", "replacing"},
           pc'[p] = "idle" \/ (pc'[p] \in {"fetching", "asking"} /\ Asked(p)')
    PROVE  Parts'
  <1>1. \A q \in Procs : q = p
    BY DEF Lone
  <1>2. /\ store' = store /\ advertised' = advertised /\ minted' = minted /\ live' = live
        /\ consumed' = consumed /\ spent' = spent /\ latest' = latest /\ excused' = excused
    BY DEF server
  <1>3. \A i \in Issuers : ~Saving(i) /\ ~Saving(i)'
    BY <1>1 DEF Saving
  <1>4. NameInv' /\ RealmInv'
    BY <1>2 DEF SessionInv, Parts, NameInv, RealmInv, Apart
  <1>5. FileInv'
    BY <1>2, <1>3 DEF SessionInv, Parts, FileInv, Unshared, Good
  <1>6. CallInv'
    BY <1>1 DEF CallInv
  <1> QED
    BY <1>4, <1>5, <1>6 DEF Parts

\* The server accepts a refresh token that p found at issuer i: only sessions of
\* i's realm change, and the record granted is that realm's and nobody else's.
LEMMA AcceptOne ==
    ASSUME Lone, SessionInv, NEW p \in Procs, pc[p] = "asking",
           NEW policy \in Policies, Accept(job[p].old, policy),
           NEW i \in Issuers, i = job[p].issuer,
           NEW fresh, fresh = Granted(job[p].old, policy)
    PROVE  /\ \A j \in Issuers :
                 /\ live'[j] \cap consumed' = {}
                 /\ store[j].refresh \in 0..minted'
                 /\ \A k \in Issuers : Apart(j, k) => store[j].refresh \notin live'[k]
                 /\ store[j].refresh \notin consumed \cup {job[p].old}
                       => store[j].refresh \notin consumed'
           /\ \A j \in Issuers : Apart(i, j) =>
                 /\ live'[j] = live[j] /\ store[j].refresh # job[p].old
                 /\ fresh.refresh \notin live'[j] \cup {store[j].refresh}
           /\ Unshared(i) => fresh.refresh \in live'[i]
           /\ fresh.refresh \in (1..minted') \ consumed' /\ fresh.access = minted + 1
  <1> DEFINE old == job[p].old
  <1>1. /\ old = store[i].refresh /\ old # 0
        /\ \A j \in Issuers : /\ live[j] \cap consumed = {}
                              /\ store[j].refresh \in 0..minted
        /\ \A j, k \in Issuers : Apart(j, k) =>
              /\ store[j].refresh \notin live[k]
              /\ store[j].refresh = store[k].refresh => store[j].refresh = 0
    BY DEF SessionInv, Parts, RealmInv, CallInv, Asked
  <1>2. /\ minted \in Nat /\ minted' = minted + 1
        /\ live \in [Issuers -> SUBSET (1..minted)] /\ consumed \subseteq 1..minted
    BY ResolveAssumption DEF SessionInv, TypeOK, Ids, Accept
  <1>3. /\ Holder(old) # {} /\ Holder(old) \subseteq Issuers
        /\ \A j \in Holder(old) : old \in live[j] /\ ~Apart(i, j)
    <2>1. Holder(old) # {}
      BY DEF Accept
    <2>2. \A j \in Holder(old) : j \in Issuers /\ old \in live[j]
      BY DEF Holder
    <2> QED
      BY <1>1, <2>1, <2>2
  <1>4. /\ old \in 1..minted /\ old \notin consumed
        /\ minted + 1 \notin 0..minted /\ minted + 1 \notin 1..minted
        /\ 0..minted \subseteq 0..minted' /\ 1..minted \subseteq 1..minted'
        /\ minted + 1 \in 1..minted'
    BY <1>1, <1>2, <1>3
  <1>5. Unshared(i) => Holder(old) = {i}
    BY <1>3 DEF Unshared, Apart
  <1>6. \A j \in Issuers : Apart(i, j) => store[j].refresh # old
    BY <1>1
  <1> HIDE DEF old
  <1>7. CASE policy = "rotate"
    <2>1. /\ live' = [j \in Issuers |-> IF j \in Holder(old)
                                        THEN (live[j] \ {old}) \cup {minted + 1} ELSE live[j]]
          /\ consumed' = consumed \cup {old}
      BY <1>7 DEF Accept, old
    <2>2. fresh.refresh = minted + 1 /\ fresh.access = minted + 1
      BY <1>7 DEF Granted
    <2>3. ASSUME NEW j \in Issuers
          PROVE  /\ live'[j] \cap consumed' = {}
                 /\ live'[j] \subseteq live[j] \cup {minted + 1}
                 /\ j \notin Holder(old) => live'[j] = live[j]
                 /\ j \in Holder(old) => minted + 1 \in live'[j]
      <3>1. live[j] \cap consumed = {} /\ minted + 1 \notin consumed /\ minted + 1 # old
        BY <1>1, <1>2, <1>4
      <3>2. j \notin Holder(old) => old \notin live[j]
        BY DEF Holder
      <3> QED
        BY <2>1, <3>1, <3>2
    <2>4. \A j \in Issuers : /\ store[j].refresh \in 0..minted'
                             /\ store[j].refresh # minted + 1
      BY <1>1, <1>4
    <2>5. \A j, k \in Issuers : Apart(j, k) => store[j].refresh \notin live'[k]
      BY <1>1, <2>3, <2>4
    <2>6. \A j \in Issuers : Apart(i, j) =>
             /\ live'[j] = live[j]
             /\ minted + 1 \notin live'[j] \cup {store[j].refresh}
      BY <1>2, <1>3, <1>4, <2>3, <2>4
    <2>7. fresh.refresh \in (1..minted') \ consumed'
      BY <1>2, <1>4, <2>1, <2>2
    <2>8. /\ Unshared(i) => fresh.refresh \in live'[i]
          /\ \A j \in Issuers : store[j].refresh \notin consumed \cup {old}
                                   => store[j].refresh \notin consumed'
      BY <1>5, <2>1, <2>2, <2>3
    <2> QED
      BY <1>6, <2>2, <2>3, <2>4, <2>5, <2>6, <2>7, <2>8 DEF old
  <1>8. CASE policy = "reuse"
    <2>1. live' = live /\ consumed' = consumed
      <3>1. live' = [j \in Issuers |-> live[j]] /\ consumed' = consumed
        BY <1>8 DEF Accept
      <3> QED
        BY <1>2, <3>1
    <2>2. fresh.refresh = old /\ fresh.access = minted + 1
      BY <1>8 DEF Granted, old
    <2> QED
      BY <1>1, <1>3, <1>4, <1>5, <1>6, <2>1, <2>2 DEF old
  <1> QED
    BY <1>7, <1>8, ResolveAssumption DEF Lone

LEMMA RefreshStep ==
    ASSUME Lone, SessionInv, NEW p \in Procs, NEW policy \in Policies,
           Refresh(p, policy) \/ RefreshLost(p, policy)
    PROVE  Parts'
  <1>1. /\ pc[p] = "asking" /\ Accept(job[p].old, policy) /\ store' = store
      BY DEF Refresh, RefreshLost
  <1>a. job[p].issuer \in Issuers /\ job[p].target \in Issuers /\ job[p] \in Jobs
    BY <1>1, JobParts, TypeParts DEF SessionInv
  <1> SUFFICES ASSUME NEW i \in Issuers, i = job[p].issuer,
                      NEW t \in Issuers, t = job[p].target,
                      NEW fresh, fresh = Granted(job[p].old, policy)
               PROVE  Parts'
    BY <1>a
  <1>2. /\ t \in {i, advertised[i]} /\ job[p].old = store[i].refresh /\ job[p].old # 0
        /\ t # advertised[i] => \A j \in Issuers \ {i} : store[j].refresh # job[p].old
    BY <1>1 DEF SessionInv, Parts, CallInv, Asked
  <1>3. /\ \A j \in Issuers :
              /\ live'[j] \cap consumed' = {}
              /\ store[j].refresh \in 0..minted'
              /\ \A k \in Issuers : Apart(j, k) => store[j].refresh \notin live'[k]
              /\ store[j].refresh \notin consumed \cup {job[p].old}
                    => store[j].refresh \notin consumed'
        /\ \A j \in Issuers : Apart(i, j) =>
              /\ live'[j] = live[j] /\ store[j].refresh # job[p].old
              /\ fresh.refresh \notin live'[j] \cup {store[j].refresh}
        /\ Unshared(i) => fresh.refresh \in live'[i]
        /\ fresh.refresh \in (1..minted') \ consumed' /\ fresh.access = minted + 1
    BY <1>1, AcceptOne
  <1>4. \A q \in Procs : q = p
    BY DEF Lone
  <1>5. advertised' = advertised
    BY <1>1 DEF Accept
  <1>6. \A j \in Issuers : ~Saving(j)
    BY <1>1, <1>4 DEF Saving
  <1>7. latest \in [Issuers -> 0..minted] /\ ProcsOK /\ excused \subseteq Issuers
    BY TypeParts DEF SessionInv, TypeOK
  <1>8. NameInv' /\ RealmInv'
    <2>1. NameInv'
      BY <1>5 DEF SessionInv, Parts, NameInv
    <2>2. RealmInv'
      BY <1>1, <1>3, <1>5 DEF SessionInv, Parts, RealmInv, Apart
    <2> QED
      BY <2>1, <2>2
  <1>9. advertised[t] = advertised[i]
    BY <1>2, NamesStay
  <1>10. ASSUME NEW j \in Issuers, store[j] # NoRecord, j \notin excused, j # t,
                j = i => advertised[j] # j
         PROVE  /\ advertised[j] = j => store[j].refresh \notin consumed' \cup {0}
                /\ Unshared(j) /\ latest'[j] = latest[j] => Good(j, store[j])'
    <2>1. /\ advertised[j] = j => store[j].refresh \notin consumed \cup {0}
          /\ Unshared(j) => Good(j, store[j])
      BY <1>6, <1>10 DEF SessionInv, Parts, FileInv
    <2>2. advertised[j] = j => store[j].refresh # job[p].old
      <3>1. CASE Apart(i, j)
        BY <1>3, <3>1
      <3>2. CASE ~Apart(i, j)
        BY <1>2, <1>10, <3>2 DEF Apart
      <3> QED
        BY <3>1, <3>2
    <2>3. Unshared(j) => advertised[j] = j /\ Apart(i, j)
      BY <1>10 DEF Unshared, Apart
    <2> QED
      BY <1>1, <1>3, <1>10, <2>1, <2>2, <2>3 DEF Good
  <1>11. CASE RefreshLost(p, policy)
    <2>1. /\ latest' = latest /\ excused' = excused \cup {i, t} /\ pc'[p] = "idle"
      BY <1>7, <1>11 DEF RefreshLost, Finish, ProcsOK
    <2>2. FileInv'
      BY <1>1, <1>5, <1>10, <2>1 DEF FileInv, Unshared
    <2>3. CallInv'
      BY <1>4, <2>1 DEF CallInv
    <2> QED
      BY <1>8, <2>2, <2>3 DEF Parts
  <1>12. CASE Refresh(p, policy)
    <2>1. /\ latest' = [j \in Issuers |-> IF j \in {i, t} THEN minted + 1 ELSE latest[j]]
          /\ excused' = excused /\ pc'[p] = "saving"
      BY <1>7, <1>12 DEF Refresh, Obtained, ProcsOK
    <2>2. job'[p].fresh = fresh /\ job'[p].target = t
      BY <1>a, <1>7, <1>12 DEF Refresh, ProcsOK, Jobs
    <2>3. Saving(t)'
      BY <2>1, <2>2 DEF Saving
    <2>4. FileInv'
      <3> SUFFICES ASSUME NEW j \in Issuers, store[j] # NoRecord, j \notin excused, j # t
                   PROVE  /\ advertised[j] = j => store[j].refresh \notin consumed' \cup {0}
                          /\ Unshared(j) => Good(j, store[j])'
        BY <1>1, <1>5, <2>1, <2>3 DEF FileInv, Unshared
      <3>1. j = i => advertised[j] # j
        BY <1>2
      <3>2. Unshared(j) => latest'[j] = latest[j]
        BY <2>1, <3>1 DEF Unshared
      <3> QED
        BY <1>10, <3>1, <3>2
    <2>5. Unshared(t) => Good(t, fresh)'
      <3>1. SUFFICES ASSUME Unshared(t) PROVE Good(t, fresh)'
        OBVIOUS
      <3>2. t = i
        BY <1>2, <3>1 DEF Unshared
      <3> QED
        BY <1>3, <2>1, <3>1, <3>2 DEF Good
    <2>6. Kept(p)'
      <3>1. \A j \in Issuers : Apart(t, j) <=> Apart(i, j)
        BY <1>9 DEF Apart
      <3>2. \A j \in Issuers : Apart(t, j)' <=> Apart(t, j)
        BY <1>5 DEF Apart
      <3>3. Unshared(t)' <=> Unshared(t)
        BY <1>5 DEF Unshared
      <3> QED
        BY <1>1, <1>3, <1>5, <2>2, <2>5, <3>1, <3>2, <3>3 DEF Kept, Apart, Unshared, Good
    <2>7. CallInv'
      BY <1>4, <2>1, <2>6 DEF CallInv
    <2> QED
      BY <1>8, <2>4, <2>7 DEF Parts
  <1> QED
    BY <1>11, <1>12

\* A login or a logout begins: what is on file is about to be replaced.
LEMMA BeginSave ==
    ASSUME Lone, SessionInv, NEW p \in Procs, NEW i \in Issuers, Login(p, i) \/ Logout(p, i)
    PROVE  Parts'
  <1>0. /\ ProcsOK /\ ServerOK /\ minted \in Nat
        /\ minted + 1 \notin 1..minted /\ minted + 1 \notin 0..minted
        /\ \A q \in Procs : q = p
    BY TypeParts, ResolveAssumption DEF SessionInv, ServerOK, Ids, Lone
  <1>1. /\ store' = store /\ excused' = excused /\ advertised' = advertised
        /\ consumed' = consumed
    BY DEF Login, Logout, server
  <1>2. /\ advertised[i] \in Issuers /\ advertised[advertised[i]] = advertised[i]
        /\ \A j \in Issuers : /\ store[j].refresh \in 0..minted
                              /\ live[j] \subseteq 1..minted
    BY <1>0, NamesStay DEF SessionInv, Parts, RealmInv, ServerOK
  <1>3. \A j \in Issuers : ~Saving(j)
    <2>1. pc[p] = "idle"
      BY DEF Login, Logout
    <2> QED
      BY <1>0, <2>1 DEF Saving
  <1>4. NameInv'
    BY <1>1 DEF SessionInv, Parts, NameInv
  <1>5. CASE Login(p, i)
    <2>1. /\ live' = [live EXCEPT ![i] = @ \cup {minted + 1}]
          /\ latest' = [j \in Issuers |-> IF j \in {i, advertised[i]} THEN minted + 1 ELSE latest[j]]
          /\ minted' = minted + 1 /\ pc'[p] = "saving" /\ job'[p].target = advertised[i]
          /\ job'[p].fresh = [access |-> minted + 1, refresh |-> minted + 1]
      BY <1>0, <1>5 DEF Login, Begin, Obtained, ProcsOK
    <2>2. /\ live'[i] = live[i] \cup {minted + 1}
          /\ \A j \in Issuers \ {i} : live'[j] = live[j]
      <3>1. live \in [Issuers -> SUBSET (1..minted)]
        BY <1>0 DEF ServerOK
      <3> QED
        BY <2>1, <3>1
    <2>3. Saving(advertised[i])'
      BY <1>1, <2>1 DEF Saving
    <2>4. RealmInv'
      <3>1. minted + 1 \notin consumed
        BY <1>0 DEF ServerOK
      <3>2. \A j \in Issuers :
               /\ live'[j] \subseteq live[j] \cup {minted + 1}
               /\ live'[j] \cap consumed' = {}
               /\ store'[j].refresh \in 0..minted' /\ store'[j].refresh # minted + 1
        BY <1>0, <1>1, <1>2, <2>1, <2>2, <3>1 DEF SessionInv, Parts, RealmInv
      <3> QED
        BY <1>1, <3>2 DEF SessionInv, Parts, RealmInv, Apart
    <2>5. FileInv'
      <3> SUFFICES ASSUME NEW j \in Issuers, store[j] # NoRecord, j \notin excused,
                          j # advertised[i]
                   PROVE  /\ advertised[j] = j => store[j].refresh \notin consumed' \cup {0}
                          /\ Unshared(j) => Good(j, store[j])'
        BY <1>1, <2>3 DEF FileInv, Unshared
      <3>1. /\ advertised[j] = j => store[j].refresh \notin consumed \cup {0}
            /\ Unshared(j) => Good(j, store[j]) /\ j # i
        BY <1>3 DEF SessionInv, Parts, FileInv, Unshared
      <3> QED
        BY <1>1, <2>1, <2>2, <3>1 DEF Good
    <2>6. Kept(p)'
      <3>1. job'[p].fresh.refresh \in (1..minted') \ consumed'
        BY <1>0, <1>1, <2>1 DEF ServerOK
      <3>2. ASSUME NEW j \in Issuers, advertised[advertised[i]] # advertised[j]
            PROVE  minted + 1 \notin live'[j] \cup {store'[j].refresh}
        BY <1>0, <1>1, <1>2, <2>2, <3>2
      <3>3. ASSUME Unshared(advertised[i])
            PROVE  Good(job[p].target, job[p].fresh)'
        <4>1. advertised[i] = i
          BY <3>3 DEF Unshared
        <4>2. minted + 1 \notin consumed' \cup {0} /\ minted + 1 \in live'[i]
          BY <1>0, <1>1, <2>2 DEF ServerOK
        <4>3. latest'[i] = minted + 1
          BY <2>1
        <4> QED
          BY <1>1, <2>1, <4>1, <4>2, <4>3 DEF Good
      <3> QED
        BY <1>1, <2>1, <3>1, <3>2, <3>3 DEF Kept, Apart, Unshared, Good
    <2>7. CallInv'
      BY <1>0, <2>1, <2>6 DEF CallInv
    <2> QED
      BY <1>4, <2>4, <2>5, <2>7 DEF Parts
  <1>6. CASE Logout(p, i)
    <2>1. /\ live' = live /\ latest' = latest /\ minted' = minted
          /\ pc'[p] = "saving" /\ job'[p].fresh = NoRecord
      BY <1>0, <1>6 DEF Logout, Begin, server, ProcsOK
    <2>2. RealmInv'
      BY <1>1, <2>1 DEF SessionInv, Parts, RealmInv, Apart
    <2>3. FileInv'
      BY <1>1, <1>3, <2>1 DEF SessionInv, Parts, FileInv, Unshared, Good
    <2>4. CallInv'
      BY <1>0, <2>1 DEF CallInv, Kept
    <2> QED
      BY <1>4, <2>2, <2>3, <2>4 DEF Parts
  <1> QED
    BY <1>5, <1>6

LEMMA LoadStep ==
    ASSUME Lone, SessionInv, NEW p \in Procs, Load(p)
    PROVE  Parts'
  <1>0. \A q \in Procs : q = p
    BY DEF Lone
  <1>1. /\ store' = store /\ job' = job /\ excused' = excused /\ latest' = latest
        /\ advertised' = advertised /\ minted' = minted /\ live' = live
        /\ consumed' = consumed /\ spent' = spent
    BY DEF Load, File!TakeSnapshot, server
  <1>2. pc[p] = "saving" /\ pc'[p] = "replacing" /\ snapshot'[p] = {store}
    BY TypeParts DEF SessionInv, ProcsOK, FileOK, Load, File!TakeSnapshot
  <1>3. \A i \in Issuers : Saving(i)' <=> Saving(i)
    BY <1>0, <1>1, <1>2 DEF Saving
  <1>4. NameInv' /\ RealmInv'
    BY <1>1 DEF SessionInv, Parts, NameInv, RealmInv, Apart
  <1>5. FileInv'
    BY <1>1, <1>3 DEF SessionInv, Parts, FileInv, Unshared, Good
  <1>6. CallInv'
    <2>1. Kept(p)'
      BY <1>1, <1>2 DEF SessionInv, Parts, CallInv, Kept, Apart, Unshared, Good
    <2> QED
      BY <1>0, <1>1, <1>2, <2>1 DEF CallInv
  <1> QED
    BY <1>4, <1>5, <1>6 DEF Parts

LEMMA SaveStep ==
    ASSUME Lone, SessionInv, NEW p \in Procs, Save(p)
    PROVE  Parts'
  <1>0. \A q \in Procs : q = p
    BY DEF Lone
  <1>1. /\ job[p].target \in Issuers /\ job[p].fresh \in Records /\ pc[p] = "replacing"
        /\ store \in [Issuers -> Records]
    BY TypeParts, JobParts DEF SessionInv, Save, FileOK
  <1> SUFFICES ASSUME NEW t \in Issuers, t = job[p].target,
                      NEW fresh \in Records, fresh = job[p].fresh
               PROVE  Parts'
    BY <1>1
  <1>2. store' = [store EXCEPT ![t] = fresh]
    BY <1>1 DEF SessionInv, Parts, CallInv, Save, File!Replace
  <1>3. /\ excused' = excused \ {t} /\ latest' = latest
        /\ advertised' = advertised /\ minted' = minted /\ live' = live
        /\ consumed' = consumed /\ spent' = spent
    BY DEF Save, server
  <1>4. pc'[p] = "idle"
    BY TypeParts DEF SessionInv, ProcsOK, Save, Finish
  <1>5. /\ fresh # NoRecord =>
              /\ fresh.refresh \in (1..minted) \ consumed
              /\ \A j \in Issuers : Apart(t, j) => fresh.refresh \notin live[j] \cup {store[j].refresh}
              /\ Unshared(t) => Good(t, fresh)
        /\ fresh = NoRecord => fresh.refresh = 0
    BY <1>1 DEF SessionInv, Parts, CallInv, Kept, NoRecord
  <1>6. /\ store'[t] = fresh
        /\ \A j \in Issuers \ {t} : store'[j] = store[j]
    BY <1>1, <1>2
  <1>7. \A j \in Issuers : live[j] \subseteq 1..minted /\ 0 \notin live[j] /\ minted \in Nat
    BY TypeParts, ResolveAssumption DEF SessionInv, ServerOK, Ids
  <1>8. NameInv'
    BY <1>3 DEF SessionInv, Parts, NameInv
  <1>9. RealmInv'
    <2>1. fresh.refresh \in 0..minted /\ \A j \in Issuers : Apart(t, j) =>
             /\ fresh.refresh \notin live[j]
             /\ fresh.refresh = store[j].refresh => fresh.refresh = 0
      BY <1>5, <1>7
    <2>2. \A j, k \in Issuers : Apart(j, k) => Apart(k, j) /\ j # k
      BY DEF Apart
    <2>3. \A j \in Issuers :
             /\ live[j] \cap consumed = {} /\ store[j].refresh \in 0..minted
             /\ \A k \in Issuers : Apart(j, k) =>
                   /\ store[j].refresh \notin live[k]
                   /\ store[j].refresh = store[k].refresh => store[j].refresh = 0
      BY DEF SessionInv, Parts, RealmInv
    <2>4. \A j, k \in Issuers : Apart(j, k) =>
             /\ store'[j].refresh \notin live[k]
             /\ store'[j].refresh = store'[k].refresh => store'[j].refresh = 0
      BY <1>6, <2>1, <2>2, <2>3
    <2> QED
      BY <1>3, <1>6, <2>1, <2>3, <2>4 DEF RealmInv, Apart
  <1>10. FileInv'
    <2> SUFFICES ASSUME NEW j \in Issuers, store'[j] # NoRecord, j \notin excused'
                 PROVE  /\ advertised[j] = j => store'[j].refresh \notin consumed \cup {0}
                        /\ Unshared(j) => Good(j, store'[j])
      BY <1>3 DEF FileInv, Unshared, Good
    <2>1. CASE j = t
      BY <1>5, <1>6, <2>1
    <2>2. CASE j # t
      <3>1. ~Saving(j)
        BY <1>0, <2>2 DEF Saving
      <3> QED
        BY <1>3, <1>6, <2>2, <3>1 DEF SessionInv, Parts, FileInv
    <2> QED
      BY <2>1, <2>2
  <1>11. CallInv'
    BY <1>0, <1>4 DEF CallInv
  <1> QED
    BY <1>8, <1>9, <1>10, <1>11 DEF Parts

\* A save that fails, or the death of the process.
LEMMA TroubleStep ==
    ASSUME Lone, SessionInv, NEW p \in Procs, SaveFails(p) \/ Crash(p)
    PROVE  Parts'
  <1>0. \A q \in Procs : q = p
    BY DEF Lone
  <1>1. /\ store' = store /\ latest' = latest
        /\ advertised' = advertised /\ minted' = minted /\ live' = live
        /\ consumed' = consumed /\ spent' = spent
        /\ excused' = excused \cup {job[p].issuer, job[p].target}
    BY DEF SaveFails, Crash, server
  <1>2. pc'[p] = "idle"
    BY TypeParts DEF SessionInv, ProcsOK, SaveFails, Crash, Finish
  <1>3. \A i \in Issuers : i \notin excused' => i \notin excused /\ ~Saving(i)
    BY <1>0, <1>1 DEF Saving
  <1>4. NameInv' /\ RealmInv'
    BY <1>1 DEF SessionInv, Parts, NameInv, RealmInv, Apart
  <1>5. FileInv'
    BY <1>1, <1>3 DEF SessionInv, Parts, FileInv, Unshared, Good
  <1>6. CallInv'
    BY <1>0, <1>2 DEF CallInv
  <1> QED
    BY <1>4, <1>5, <1>6 DEF Parts

\* Outside the process: time passes, a realm ends its sessions.
LEMMA WorldStep ==
    ASSUME Lone, SessionInv,
           (\E id \in 1..MaxTokens : Age(id)) \/ (\E i \in Issuers : EndSession(i))
    PROVE  Parts'
  <1>1. /\ store' = store /\ snapshot' = snapshot /\ pc' = pc /\ job' = job
        /\ latest' = latest /\ excused' = excused /\ advertised' = advertised
        /\ minted' = minted /\ consumed' = consumed
    BY DEF Age, EndSession
  <1>2. spent \subseteq spent'
    BY DEF Age, EndSession
  <1>3. \A i \in Issuers : live'[i] = live[i] \/ live'[i] = {}
    BY TypeParts DEF SessionInv, ServerOK, Age, EndSession
  <1>4. \A i \in Issuers : (Saving(i)' <=> Saving(i)) /\ (Unshared(i)' <=> Unshared(i))
    BY <1>1 DEF Saving, Unshared
  <1>5. ASSUME NEW i \in Issuers, NEW r, Good(i, r)
        PROVE  /\ r.refresh \notin consumed' \cup {0}
               /\ r.refresh \in live'[i] \/ live'[i] = {}
               /\ r.access = latest'[i]
    BY <1>1, <1>3, <1>5 DEF Good
  <1>6. NameInv' /\ RealmInv'
    BY <1>1, <1>3 DEF SessionInv, Parts, NameInv, RealmInv, Apart
  <1>7. FileInv'
    BY <1>1, <1>4, <1>5 DEF SessionInv, Parts, FileInv, Good
  <1>8. ASSUME NEW p \in Procs, pc[p] \in {"fetching", "asking"} PROVE Asked(p)'
    BY <1>1, <1>2, <1>8 DEF SessionInv, Parts, CallInv, Asked
  <1>9. ASSUME NEW p \in Procs, pc[p] \in {"saving", "replacing"} PROVE Kept(p)'
    <2>1. job[p].target \in Issuers /\ Kept(p)
      BY <1>9, TypeParts, JobParts DEF SessionInv, Parts, CallInv
    <2>2. ASSUME job[p].fresh # NoRecord, Unshared(job[p].target)
          PROVE  Good(job[p].target, job[p].fresh)'
      <3>1. Good(job[p].target, job[p].fresh)
        BY <2>1, <2>2 DEF Kept
      <3> QED
        BY <1>1, <1>5, <2>1, <3>1 DEF Good
    <2> QED
      BY <1>1, <1>3, <1>4, <2>1, <2>2 DEF Kept, Apart
  <1>10. CallInv'
    BY <1>1, <1>8, <1>9 DEF SessionInv, Parts, CallInv
  <1> QED
    BY <1>6, <1>7, <1>10 DEF Parts

\* A realm takes another name: URLs that belonged together still do, and those
\* left to themselves were so before.
LEMMA MoveStep ==
    ASSUME Lone, SessionInv, NEW a \in Issuers, NEW b \in Issuers, Move(a, b)
    PROVE  Parts'
  <1>1. /\ store' = store /\ snapshot' = snapshot /\ pc' = pc /\ job' = job
        /\ latest' = latest /\ excused' = excused /\ live' = live
        /\ minted' = minted /\ consumed' = consumed /\ spent' = spent
        /\ <<a, b>> \in Moves /\ advertised[a] # b
        /\ advertised \in [Issuers -> Issuers]
    BY DEF Move, SessionInv, TypeOK
  <1>2. advertised'[a] = b /\ \A j \in Issuers \ {a} : advertised'[j] = advertised[j]
    BY <1>1 DEF Move
  <1>3. advertised[a] = a /\ a # b /\ \A j \in Issuers \ {a} : advertised[j] # a
    <2>1. ASSUME NEW j \in Issuers, advertised[j] # j
          PROVE  /\ <<j, advertised[j]>>[1] = <<a, b>>[1] =>
                       <<j, advertised[j]>>[2] = <<a, b>>[2]
                 /\ <<j, advertised[j]>>[2] # <<a, b>>[1]
      <3>1. <<j, advertised[j]>> \in Moves
        BY <2>1 DEF SessionInv, Parts, NameInv
      <3> QED
        BY <1>1, <3>1 DEF Lone, RenamedOnce
    <2>2. <<a, b>>[2] # <<a, b>>[1]
      BY <1>1 DEF Lone, RenamedOnce
    <2> QED
      BY <1>1, <2>1, <2>2
  <1>4. \A j, k \in Issuers : Apart(j, k)' => Apart(j, k)
    BY <1>2, <1>3 DEF Apart
  <1>5. \A j \in Issuers : /\ advertised'[j] = j => advertised[j] = j
                           /\ Unshared(j)' => Unshared(j)
    BY <1>2, <1>3 DEF Unshared
  <1>6. \A j \in Issuers : Saving(j)' <=> Saving(j)
    BY <1>1 DEF Saving
  <1>7. NameInv'
    BY <1>1, <1>2 DEF SessionInv, Parts, NameInv
  <1>8. RealmInv'
    BY <1>1, <1>4 DEF SessionInv, Parts, RealmInv
  <1>9. FileInv'
    BY <1>1, <1>5, <1>6 DEF SessionInv, Parts, FileInv, Good
  <1>10. ASSUME NEW p \in Procs, pc[p] \in {"fetching", "asking"} PROVE Asked(p)'
    <2>1. job[p].issuer \in Issuers /\ Asked(p)
      BY <1>10, TypeParts, JobParts DEF SessionInv, Parts, CallInv
    <2>2. CASE job[p].issuer # a
      BY <1>1, <1>2, <2>1, <2>2 DEF Asked
    <2>3. CASE job[p].issuer = a
      <3>1. \A j \in Issuers \ {a} : store[a].refresh = store[j].refresh => store[a].refresh = 0
        BY <1>3 DEF SessionInv, Parts, RealmInv, Apart
      <3> QED
        BY <1>1, <1>2, <1>3, <2>1, <2>3, <3>1 DEF Asked
    <2> QED
      BY <2>2, <2>3
  <1>11. ASSUME NEW p \in Procs, pc[p] \in {"saving", "replacing"} PROVE Kept(p)'
    <2>1. job[p].target \in Issuers /\ Kept(p)
      BY <1>11, TypeParts, JobParts DEF SessionInv, Parts, CallInv
    <2> QED
      BY <1>1, <1>4, <1>5, <2>1 DEF Kept, Good
  <1>12. CallInv'
    BY <1>1, <1>10, <1>11 DEF SessionInv, Parts, CallInv
  <1> QED
    BY <1>7, <1>8, <1>9, <1>12 DEF Parts

LEMMA SessionStep ==
    ASSUME Lone
    PROVE  SessionInv /\ [Next]_vars => SessionInv'
  <1> SUFFICES ASSUME SessionInv, [Next]_vars PROVE Parts'
    BY TypeStep DEF SessionInv
  <1>0. ProcsOK
    BY TypeParts DEF SessionInv
  <1>1. ASSUME NEW p \in Procs, NEW i \in Issuers, Resolve(p, i) PROVE Parts'
    <2>1. pc[p] = "idle" /\ UNCHANGED <<store, server, latest, excused>>
      BY <1>1 DEF Resolve
    <2>2. \/ pc'[p] = "idle"
          \/ /\ pc'[p] = "fetching" /\ job'[p].target = i /\ job'[p].issuer = i
             /\ job'[p].old = store[i].refresh /\ store[i].refresh # 0
             /\ store[i].access \in spent
      BY <1>0, <1>1 DEF Resolve, Finish, Begin, ProcsOK
    <2>3. pc'[p] = "idle" \/ (pc'[p] = "fetching" /\ Asked(p)')
      BY <2>1, <2>2 DEF Asked, server
    <2> QED
      BY <2>1, <2>3, QuietStep
  <1>2. ASSUME NEW p \in Procs, FetchMetadata(p) PROVE Parts'
    <2>1. /\ pc[p] = "fetching" /\ pc'[p] = "asking"
          /\ UNCHANGED <<store, server, latest, excused>>
      BY <1>0, <1>2 DEF FetchMetadata, ProcsOK
    <2>2. job[p] \in Jobs /\ job[p].issuer \in Issuers
      BY <1>0, <2>1, JobParts
    <2>3. /\ job'[p].target = advertised[job[p].issuer] /\ job'[p].issuer = job[p].issuer
          /\ job'[p].old = job[p].old
      BY <1>0, <1>2, <2>2 DEF FetchMetadata, ProcsOK, Jobs
    <2>4. Asked(p)
      BY <2>1 DEF SessionInv, Parts, CallInv
    <2>5. Asked(p)'
      BY <2>1, <2>3, <2>4 DEF Asked, server
    <2> QED
      BY <2>1, <2>5, QuietStep
  <1>3. ASSUME NEW p \in Procs, NotAsked(p) \/ RefreshRejected(p) PROVE Parts'
    <2>1. /\ pc[p] \in {"fetching", "asking"} /\ pc'[p] = "idle"
          /\ UNCHANGED <<store, server, latest, excused>>
      BY <1>0, <1>3 DEF NotAsked, RefreshRejected, Finish, ProcsOK
    <2> QED
      BY <2>1, QuietStep
  <1>4. CASE UNCHANGED vars
    BY <1>4 DEF vars, server, SessionInv, Parts, NameInv, RealmInv, FileInv, CallInv,
                Asked, Kept, Apart, Unshared, Good, Saving
  <1> QED
    BY <1>1, <1>2, <1>3, <1>4, RefreshStep, BeginSave, LoadStep, SaveStep,
       TroubleStep, WorldStep, MoveStep DEF Next, Step

LEMMA SessionInvIsInvariant ==
    ASSUME Lone
    PROVE  Spec => []SessionInv
  <1>1. Init => SessionInv
    BY TypeInit, SessionInit DEF SessionInv
  <1> QED
    BY <1>1, SessionStep, PTL DEF Spec

\* To a single process the file is good whenever no call is under way, no
\* failure was reported and the realm's name is its alone.
LEMMA OnFileIsGood ==
    ASSUME Lone, SessionInv, NEW i \in Issuers, Settled(i), store[i] # NoRecord,
           NEW p \in Procs, pc[p] \notin {"saving", "replacing"}
    PROVE  Good(i, store[i])
  <1>1. \A q \in Procs : q = p
    BY DEF Lone
  <1>2. ~Saving(i)
    BY <1>1 DEF Saving
  <1>3. i \notin excused /\ Unshared(i)
    BY DEF Settled, Untroubled, Named, Unshared
  <1> QED
    BY <1>2, <1>3 DEF SessionInv, Parts, FileInv

\* No call of a lone process, however it ends, leaves a consumed refresh token
\* on file without a word, except under the name of a realm whose document has
\* come to name another (NamedSessionSurvives).
THEOREM LoneNamedSessionSurvives ==
    ASSUME Lone
    PROVE  Spec => []NamedSessionSurvives
  <1>1. SessionInv => NamedSessionSurvives
    BY DEF SessionInv, Parts, FileInv, NamedSessionSurvives, Named, Stranded, Untroubled,
           Saving
  <1> QED
    BY <1>1, SessionInvIsInvariant, PTL

\* Where no document comes to name another issuer, there is no exception
\* (SessionSurvives).
THEOREM LoneSessionSurvives ==
    ASSUME Lone, Moves = {}
    PROVE  Spec => []SessionSurvives
  <1>1. SessionInv => \A i \in Issuers : Named(i)
    BY DEF SessionInv, Parts, NameInv, Named
  <1>2. SessionInv => SessionSurvives
    BY <1>1 DEF SessionInv, Parts, FileInv, SessionSurvives, Named, Stranded, Untroubled,
                Saving
  <1> QED
    BY <1>2, SessionInvIsInvariant, PTL

\* A lone process sends its user to log in only when there is nothing on file,
\* the session is over, or a failure was reported (LoginOnlyWhenNeeded).
THEOREM LoneLoginOnlyWhenNeeded ==
    ASSUME Lone
    PROVE  Spec => LoginOnlyWhenNeeded
  <1>1. ASSUME SessionInv, NEW p \in Procs, NEW i \in Issuers,
               Resolve(p, i) \/ (RefreshRejected(p) /\ job[p].issuer = i),
               outcome'[p] = "login", Settled(i)
        PROVE  store[i] = NoRecord \/ live[i] = {}
    <2>0. ProcsOK
      BY <1>1, TypeParts DEF SessionInv
    <2>1. CASE Resolve(p, i)
      <3>1. pc[p] = "idle" /\ (store[i] = NoRecord \/ store[i].refresh = 0)
        BY <1>1, <2>0, <2>1 DEF Resolve, Finish, Begin, ProcsOK
      <3>2. store[i] # NoRecord => Good(i, store[i])
        BY <1>1, <3>1, OnFileIsGood
      <3> QED
        BY <3>1, <3>2 DEF Good
    <2>2. CASE RefreshRejected(p) /\ job[p].issuer = i
      <3>1. pc[p] = "asking" /\ Holder(job[p].old) = {}
        BY <2>2 DEF RefreshRejected
      <3>2. job[p].old = store[i].refresh /\ job[p].old # 0
        BY <1>1, <2>2, <3>1 DEF SessionInv, Parts, CallInv, Asked
      <3>3. store[i].refresh \notin live[i]
        BY <3>1, <3>2 DEF Holder
      <3>4. store[i] # NoRecord => Good(i, store[i])
        BY <1>1, <3>1, OnFileIsGood
      <3> QED
        BY <3>3, <3>4 DEF Good
    <2> QED
      BY <1>1, <2>1, <2>2
  <1>2. SessionInv =>
          \A p \in Procs, i \in Issuers :
             (Resolve(p, i) \/ (RefreshRejected(p) /\ job[p].issuer = i))
                 /\ outcome'[p] = "login" /\ Settled(i)
             => store[i] = NoRecord \/ live[i] = {}
    BY <1>1
  <1> QED
    BY <1>2, SessionInvIsInvariant, PTL DEF LoginOnlyWhenNeeded

\* A lone process asks for a refresh only when the newest token it obtained for
\* the issuer is spent (NoNeedlessRefresh).
THEOREM LoneNoNeedlessRefresh ==
    ASSUME Lone
    PROVE  Spec => NoNeedlessRefresh
  <1>1. ASSUME SessionInv, NEW p \in Procs,
               \E policy \in Policies : Refresh(p, policy), Settled(job[p].issuer)
        PROVE  latest[job[p].issuer] \in spent \cup {0}
    <2>1. pc[p] = "asking"
      BY <1>1 DEF Refresh
    <2>2. job[p].issuer \in Issuers
      BY <1>1, <2>1, TypeParts, JobParts DEF SessionInv
    <2>3. /\ store[job[p].issuer].refresh # 0 /\ store[job[p].issuer].access \in spent
      BY <1>1, <2>1 DEF SessionInv, Parts, CallInv, Asked
    <2>4. Good(job[p].issuer, store[job[p].issuer])
      BY <1>1, <2>1, <2>2, <2>3, OnFileIsGood DEF NoRecord
    <2> QED
      BY <2>3, <2>4 DEF Good
  <1>2. SessionInv =>
          \A p \in Procs :
             (\E policy \in Policies : Refresh(p, policy)) /\ Settled(job[p].issuer)
             => latest[job[p].issuer] \in spent \cup {0}
    BY <1>1
  <1> QED
    BY <1>2, SessionInvIsInvariant, PTL DEF NoNeedlessRefresh

-----------------------------------------------------------------------------
(* Any number of processes that share one issuer, at a server that replaces *)
(* every refresh token it accepts.                                          *)

Shared ==
    /\ \A i, j \in Issuers : i = j
    /\ Policies = {"rotate"}

Saves(p) == pc[p] \in {"saving", "replacing"}

Carries(p) == Saves(p) /\ job[p].fresh # NoRecord

Asks(p) == pc[p] \in {"fetching", "asking"}

\* A refresh token on its way to the file is known to the one process that
\* carries it: it is not on file, nobody has sent it, nobody is about to.
CarryInv ==
    \A p \in Procs :
        /\ Asks(p) => job[p].old \in 0..minted
        /\ Carries(p) =>
              /\ job[p].fresh.refresh \in (1..minted) \ consumed
              /\ \A i \in Issuers : store[i].refresh # job[p].fresh.refresh
              /\ \A q \in Procs : Asks(q) => job[q].old # job[p].fresh.refresh
              /\ \A q \in Procs \ {p} :
                    Carries(q) => job[q].fresh.refresh # job[p].fresh.refresh

\* The one on file is not consumed, unless a save is ahead or trouble reported.
OnFileInv ==
    \A i \in Issuers :
        /\ store[i].refresh \in 0..minted
        /\ store[i] # NoRecord => store[i].refresh # 0
        /\ store[i] # NoRecord /\ i \notin excused /\ (\A p \in Procs : ~Saves(p))
              => store[i].refresh \notin consumed

SharedInv == TypeOK /\ CarryInv /\ OnFileInv

\* The step is one of process p.
Only(p) == \A q \in Procs \ {p} : pc'[q] = pc[q] /\ job'[q] = job[q]

LEMMA OnlyOne ==
    ASSUME ProcsOK, NEW p \in Procs, NEW where, NEW j,
           pc' = [pc EXCEPT ![p] = where], job' = [job EXCEPT ![p] = j]
    PROVE  Only(p) /\ pc'[p] = where /\ job'[p] = j
  BY DEF ProcsOK, Only

\* Process p neither brings a token to the file nor gets a new one.
LEMMA QuietShared ==
    ASSUME SharedInv, NEW p \in Procs, Only(p),
           store' = store, minted' = minted, consumed' = consumed,
           excused \subseteq excused',
           ~Saves(p)', Saves(p) => \A i \in Issuers : i \in excused',
           Asks(p)' => \/ \E i \in Issuers : job'[p].old = store[i].refresh
                       \/ Asks(p) /\ job'[p].old = job[p].old
    PROVE  CarryInv' /\ OnFileInv'
  <1>1. /\ ~Carries(p)'
        /\ \A q \in Procs \ {p} : /\ Saves(q)' <=> Saves(q)
                                  /\ Carries(q)' <=> Carries(q)
                                  /\ Asks(q)' <=> Asks(q)
                                  /\ job'[q] = job[q]
    BY DEF Only, Saves, Carries, Asks
  <1>2. CarryInv /\ OnFileInv
    BY DEF SharedInv
  <1>3. CarryInv'
    BY <1>1, <1>2 DEF CarryInv, OnFileInv
  <1>4. OnFileInv'
    BY <1>1, <1>2 DEF OnFileInv
  <1> QED
    BY <1>3, <1>4

\* Process p comes by a record with a newly minted refresh token, or by the
\* empty one; the token it sent, if any, may be consumed by that.
LEMMA CarryShared ==
    ASSUME SharedInv, NEW p \in Procs, Only(p),
           store' = store, excused \subseteq excused', minted \in Nat,
           \/ minted' = minted /\ consumed' = consumed
           \/ /\ minted' = minted + 1
              /\ \/ consumed' = consumed
                 \/ Asks(p) /\ consumed' = consumed \cup {job[p].old},
           ~Asks(p)', Saves(p)' \/ \A i \in Issuers : i \in excused',
           Carries(p)' => minted' = minted + 1 /\ job'[p].fresh.refresh = minted'
    PROVE  CarryInv' /\ OnFileInv'
  <1>1. \A q \in Procs \ {p} : /\ Saves(q)' <=> Saves(q)
                               /\ Carries(q)' <=> Carries(q)
                               /\ Asks(q)' <=> Asks(q)
                               /\ job'[q] = job[q]
    BY DEF Only, Saves, Carries, Asks
  <1>2. CarryInv /\ OnFileInv /\ consumed \subseteq 1..minted
    BY DEF SharedInv, TypeOK
  <1>3. /\ 0..minted \subseteq 0..minted' /\ 1..minted \subseteq 1..minted'
        /\ minted' # minted => minted' \in 1..minted' /\ minted' \notin 0..minted
        /\ 1..minted \subseteq 0..minted
    OBVIOUS
  <1>4. Carries(p)' => /\ job'[p].fresh.refresh \in 1..minted'
                       /\ job'[p].fresh.refresh \notin 0..minted
                       /\ job'[p].fresh.refresh \notin consumed'
    BY <1>2, <1>3 DEF CarryInv
  <1>5. ASSUME NEW q \in Procs \ {p}, Carries(q)
        PROVE  /\ job[q].fresh.refresh \in (1..minted') \ consumed'
               /\ job[q].fresh.refresh \in 0..minted
    BY <1>2, <1>3, <1>5 DEF CarryInv
  <1>6. CarryInv'
    BY <1>1, <1>2, <1>3, <1>4, <1>5 DEF CarryInv, OnFileInv
  <1>7. OnFileInv'
    BY <1>1, <1>2, <1>3 DEF OnFileInv
  <1> QED
    BY <1>6, <1>7

LEMMA SaveShared ==
    ASSUME Shared, SharedInv, NEW p \in Procs, Save(p)
    PROVE  CarryInv' /\ OnFileInv'
  <1>1. ProcsOK /\ FileOK /\ ServerOK /\ CarryInv /\ OnFileInv
    BY TypeParts DEF SharedInv
  <1>2. /\ Only(p) /\ pc'[p] = "idle" /\ pc[p] = "replacing"
        /\ minted' = minted /\ consumed' = consumed
    BY <1>1, OnlyOne DEF Save, Finish, server
  <1>3. job[p].target \in Issuers /\ job[p].fresh \in Records
    BY <1>1, <1>2, JobParts
  <1>4. \A i \in Issuers : store'[i] = job[p].fresh
    <2>1. \E m \in snapshot[p] : store' = [m EXCEPT ![job[p].target] = job[p].fresh]
      BY DEF Save, File!Replace
    <2>2. \A m \in snapshot[p] : m \in [Issuers -> Records]
      BY <1>1 DEF FileOK
    <2> QED
      BY <1>3, <2>1, <2>2 DEF Shared
  <1>5. /\ ~Saves(p)' /\ ~Asks(p)' /\ ~Carries(p)' /\ Saves(p)
        /\ \A q \in Procs \ {p} : /\ Saves(q)' <=> Saves(q)
                                  /\ Carries(q)' <=> Carries(q)
                                  /\ Asks(q)' <=> Asks(q)
                                  /\ job'[q] = job[q]
    BY <1>2 DEF Only, Saves, Carries, Asks
  <1>6. /\ Carries(p) \/ job[p].fresh = NoRecord
        /\ NoRecord.refresh = 0
    BY <1>5 DEF Carries, NoRecord
  <1>7. minted \in Nat
    BY <1>1, ResolveAssumption DEF ServerOK, Ids
  <1>8. \A q \in Procs : Carries(q) => job[q].fresh.refresh # 0
    BY <1>1, <1>7 DEF CarryInv
  <1>9. CarryInv'
    BY <1>1, <1>2, <1>4, <1>5, <1>6, <1>8 DEF CarryInv
  <1>10. OnFileInv'
    BY <1>1, <1>2, <1>4, <1>5, <1>6, <1>7, <1>8 DEF CarryInv, OnFileInv
  <1> QED
    BY <1>9, <1>10

LEMMA SharedStep ==
    ASSUME Shared
    PROVE  SharedInv /\ [Next]_vars => SharedInv'
  <1> SUFFICES ASSUME SharedInv, [Next]_vars PROVE CarryInv' /\ OnFileInv'
    BY TypeStep DEF SharedInv
  <1>0. /\ ProcsOK /\ CarryInv /\ OnFileInv /\ minted \in Nat
        /\ \A i, j \in Issuers : i = j
    BY TypeParts, ResolveAssumption DEF SharedInv, ServerOK, Ids, Shared
  <1>1. ASSUME NEW p \in Procs, NEW i \in Issuers, Resolve(p, i) PROVE CarryInv' /\ OnFileInv'
    <2>1. /\ store' = store /\ minted' = minted /\ consumed' = consumed
          /\ excused' = excused /\ pc[p] = "idle"
      BY <1>1 DEF Resolve, server
    <2>2. Only(p)
      BY <1>0, <1>1 DEF Resolve, Finish, Begin, Only, ProcsOK
    <2>3. \/ pc'[p] = "idle"
          \/ pc'[p] = "fetching" /\ job'[p].old = store[i].refresh
      BY <1>0, <1>1 DEF Resolve, Finish, Begin, ProcsOK
    <2> QED
      BY <2>1, <2>2, <2>3, QuietShared DEF Saves, Asks
  <1>2. ASSUME NEW p \in Procs, FetchMetadata(p) PROVE CarryInv' /\ OnFileInv'
    <2>1. /\ store' = store /\ minted' = minted /\ consumed' = consumed
          /\ excused' = excused /\ pc[p] = "fetching" /\ pc'[p] = "asking"
      BY <1>0, <1>2 DEF FetchMetadata, server, ProcsOK
    <2>2. Only(p)
      BY <1>0, <1>2 DEF FetchMetadata, Only, ProcsOK
    <2>3. job[p] \in Jobs
      BY <1>0, <2>1, JobParts
    <2>4. job'[p].old = job[p].old
      BY <1>0, <1>2, <2>3 DEF FetchMetadata, ProcsOK, Jobs
    <2> QED
      BY <2>1, <2>2, <2>4, QuietShared DEF Saves, Asks
  <1>3. ASSUME NEW p \in Procs, NotAsked(p) \/ RefreshRejected(p) PROVE CarryInv' /\ OnFileInv'
    <2>1. /\ store' = store /\ minted' = minted /\ consumed' = consumed
          /\ excused' = excused /\ pc[p] \in {"fetching", "asking"}
      BY <1>3 DEF NotAsked, RefreshRejected, server
    <2>2. Only(p) /\ pc'[p] = "idle"
      BY <1>0, <1>3, OnlyOne DEF NotAsked, RefreshRejected, Finish
    <2> QED
      BY <2>1, <2>2, QuietShared DEF Saves, Asks
  <1>4. ASSUME NEW p \in Procs, NEW policy \in Policies, Refresh(p, policy)
        PROVE  CarryInv' /\ OnFileInv'
    <2>1. /\ store' = store /\ excused' = excused /\ pc[p] = "asking"
          /\ Accept(job[p].old, policy) /\ policy = "rotate"
      BY <1>4 DEF Refresh, Shared
    <2>2. minted' = minted + 1 /\ consumed' = consumed \cup {job[p].old}
      BY <2>1 DEF Accept
    <2>3. Only(p) /\ pc'[p] = "saving"
      BY <1>0, <1>4 DEF Refresh, Only, ProcsOK
    <2>4. job[p] \in Jobs
      BY <1>0, <2>1, JobParts
    <2>5. job'[p].fresh.refresh = minted + 1
      BY <1>0, <1>4, <2>1, <2>4 DEF Refresh, Granted, ProcsOK, Jobs
    <2> QED
      BY <1>0, <2>1, <2>2, <2>3, <2>5, CarryShared DEF Saves, Asks
  <1>5. ASSUME NEW p \in Procs, NEW policy \in Policies, RefreshLost(p, policy)
        PROVE  CarryInv' /\ OnFileInv'
    <2>1. /\ store' = store /\ pc[p] = "asking"
          /\ Accept(job[p].old, policy) /\ policy = "rotate"
          /\ excused' = excused \cup {job[p].issuer, job[p].target}
      BY <1>5 DEF RefreshLost, Shared
    <2>2. minted' = minted + 1 /\ consumed' = consumed \cup {job[p].old}
      BY <2>1 DEF Accept
    <2>3. Only(p) /\ pc'[p] = "idle"
      BY <1>0, <1>5, OnlyOne DEF RefreshLost, Finish
    <2>4. \A i \in Issuers : i \in excused'
      BY <1>0, <2>1, JobParts
    <2> QED
      BY <1>0, <2>1, <2>2, <2>3, <2>4, CarryShared DEF Saves, Asks, Carries
  <1>6. ASSUME NEW p \in Procs, NEW i \in Issuers, Login(p, i) PROVE CarryInv' /\ OnFileInv'
    <2>1. /\ store' = store /\ excused' = excused /\ consumed' = consumed
          /\ minted' = minted + 1
      BY <1>6 DEF Login
    <2>2. /\ Only(p) /\ pc'[p] = "saving" /\ job'[p].fresh.refresh = minted + 1
      BY <1>0, <1>6 DEF Login, Begin, Only, ProcsOK
    <2> QED
      BY <1>0, <2>1, <2>2, CarryShared DEF Saves, Asks
  <1>7. ASSUME NEW p \in Procs, NEW i \in Issuers, Logout(p, i) PROVE CarryInv' /\ OnFileInv'
    <2>1. /\ store' = store /\ excused' = excused /\ consumed' = consumed
          /\ minted' = minted
      BY <1>7 DEF Logout, server
    <2>2. /\ Only(p) /\ pc'[p] = "saving" /\ job'[p].fresh = NoRecord
      BY <1>0, <1>7 DEF Logout, Begin, Only, ProcsOK
    <2> QED
      BY <1>0, <2>1, <2>2, CarryShared DEF Saves, Asks, Carries
  <1>8. ASSUME NEW p \in Procs, Load(p) PROVE CarryInv' /\ OnFileInv'
    <2>1. /\ store' = store /\ excused' = excused /\ consumed' = consumed
          /\ minted' = minted /\ job' = job
      BY <1>8 DEF Load, File!TakeSnapshot, server
    <2>2. \A q \in Procs : (Saves(q)' <=> Saves(q)) /\ (Asks(q)' <=> Asks(q))
      BY <1>0, <1>8 DEF Load, ProcsOK, Saves, Asks
    <2>3. \A q \in Procs : Carries(q)' <=> Carries(q)
      BY <2>1, <2>2 DEF Carries
    <2> QED
      BY <1>0, <2>1, <2>2, <2>3 DEF CarryInv, OnFileInv
  <1>9. ASSUME NEW p \in Procs, SaveFails(p) \/ Crash(p) PROVE CarryInv' /\ OnFileInv'
    <2>1. /\ store' = store /\ minted' = minted /\ consumed' = consumed /\ pc[p] # "idle"
          /\ excused' = excused \cup {job[p].issuer, job[p].target}
      BY <1>9 DEF SaveFails, Crash, server
    <2>2. Only(p) /\ pc'[p] = "idle"
      BY <1>0, <1>9, OnlyOne DEF SaveFails, Crash, Finish
    <2>3. \A i \in Issuers : i \in excused'
      BY <1>0, <2>1, JobParts
    <2> QED
      BY <2>1, <2>2, <2>3, QuietShared DEF Saves, Asks
  <1>10. ASSUME UNCHANGED <<store, pc, job, minted, consumed, excused>>
         PROVE  CarryInv' /\ OnFileInv'
    BY <1>0, <1>10 DEF CarryInv, OnFileInv, Saves, Asks, Carries
  <1>11. ASSUME NEW id \in 1..MaxTokens, Age(id) PROVE CarryInv' /\ OnFileInv'
    BY <1>10, <1>11 DEF Age
  <1>12. ASSUME NEW i \in Issuers, EndSession(i) PROVE CarryInv' /\ OnFileInv'
    BY <1>10, <1>12 DEF EndSession
  <1>13. ASSUME NEW i \in Issuers, NEW j \in Issuers, Move(i, j) PROVE CarryInv' /\ OnFileInv'
    BY <1>10, <1>13 DEF Move
  <1>14. CASE UNCHANGED vars
    BY <1>10, <1>14 DEF vars, server
  <1> QED
    BY <1>1, <1>2, <1>3, <1>4, <1>5, <1>6, <1>7, <1>8, <1>9, <1>11, <1>12, <1>13,
       <1>14, SaveShared DEF Next, Step

\* However many processes race for the refresh tokens of one issuer, and
\* whichever of them writes last, none leaves a consumed one on file without a
\* word (SessionSurvives): a loser of the race is rejected before it can write.
THEOREM SharedSessionSurvives ==
    ASSUME Shared
    PROVE  Spec => []SessionSurvives
  <1>1. Init => SharedInv
    <2> SUFFICES ASSUME Init PROVE CarryInv /\ OnFileInv
      BY TypeInit DEF SharedInv
    <2> QED
      BY DEF Init, CarryInv, OnFileInv, Saves, Asks, Carries, NoRecord
  <1>2. SharedInv => SessionSurvives
    <2> SUFFICES ASSUME SharedInv, NEW i \in Issuers, Stranded(i)
                 PROVE  FALSE
      BY DEF SessionSurvives
    <2>1. \A p \in Procs : ~Saves(p)
      BY TypeParts, JobParts DEF SharedInv, Stranded, Saves, Shared
    <2> QED
      BY <2>1 DEF SharedInv, OnFileInv, Stranded, Untroubled
  <1> QED
    BY <1>1, <1>2, SharedStep, PTL DEF Spec

=============================================================================
