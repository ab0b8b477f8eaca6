------------------------ MODULE CredentialStore_proofs -----------------------
(***************************************************************************)
(* What TLAPS proves of CredentialStore for any number of processes,       *)
(* issuers and credentials.                                                *)
(***************************************************************************)
EXTENDS CredentialStore, TLAPS

\* A process about to rename has finished its temporary file, and a process
\* inside Put or Delete holds an edit and the logins it loaded.
SaveInv ==
    /\ \A p \in Procs : pc[p] = "written" => temp[p] = "whole"
    /\ \A p \in Procs : pc[p] # "idle" => op[p] \in Edits

Inv == TypeOK /\ StoreNeverTorn /\ SaveInv

LEMMA IssuerType == \A s \in Spellings : Canon[s] # Blank => Canon[s] \in Issuers
  BY DEF Issuers

LEMMA EditedType ==
    ASSUME Inv, NEW p \in Procs, pc[p] # "idle"
    PROVE  Edited(p) \in Logins
  BY DEF Inv, TypeOK, SaveInv, Edited, Edits, Logins

LEMMA FilesFacts ==
    /\ \A f \in Files : f.logins \in Logins
    /\ \A f \in Files : f.state \in Unreadable => f.logins = NoLogins
    /\ \A m \in Logins : [state |-> "readable", logins |-> m] \in Files
    /\ [state |-> "absent", logins |-> NoLogins] \in Files
    /\ \A u \in Unreadable : [state |-> u, logins |-> NoLogins] \in Files
  <1>1. NoLogins \in Logins
    BY DEF NoLogins, Logins
  <1> QED
    BY <1>1 DEF Files, Unreadable

LEMMA InitInv == Init => Inv
  <1> SUFFICES ASSUME Init PROVE Inv
    OBVIOUS
  <1>1. NoLogins \in Logins
    BY DEF NoLogins, Logins
  <1> QED
    BY <1>1 DEF Init, Inv, TypeOK, StoreNeverTorn, SaveInv

LEMMA StepInv == Inv /\ [Next]_vars => Inv'
  <1> SUFFICES ASSUME Inv, [Next]_vars PROVE Inv'
    OBVIOUS
  <1> USE DEF Inv, TypeOK, StoreNeverTorn, SaveInv
  <1>0. NoLogins \in Logins /\ disk.logins \in Logins
    BY FilesFacts DEF NoLogins, Logins
  <1>1. ASSUME NEW p \in Procs, NEW s \in Spellings, Get(p, s) PROVE Inv'
    <2>1. disk.logins[Canon[s]] \in Tokens \cup {NoToken}
      BY <1>0, <1>1, IssuerType DEF Get, Logins
    <2> QED
      BY <1>1, <2>1 DEF Get
  <1>2. ASSUME NEW p \in Procs, NEW s \in Spellings, NEW t \in Tokens \cup {NoToken},
               Load(p, s, t)
        PROVE  Inv'
    <2>1. op'[p] \in Edits
      BY <1>2, IssuerType DEF Load, Edits
    <2> QED
      BY <1>0, <1>2, <2>1 DEF Load
  <1>3. ASSUME NEW p \in Procs, Refuse(p) PROVE Inv'
    BY <1>3 DEF Refuse
  <1>4. ASSUME NEW p \in Procs, CreateTemp(p) \/ BeginWrite(p) \/ EndWrite(p) PROVE Inv'
    BY <1>4 DEF CreateTemp, BeginWrite, EndWrite
  <1>5. ASSUME NEW p \in Procs, Rename(p) PROVE Inv'
    <2>1. disk' = [state |-> "readable", logins |-> Edited(p)]
      BY <1>5 DEF Rename, Renamed
    <2>2. disk' \in Files /\ disk'.state = "readable"
      BY <1>5, <2>1, EditedType, FilesFacts DEF Rename
    <2> QED
      BY <1>0, <1>5, <2>2 DEF Rename, Forget
  <1>6. ASSUME NEW p \in Procs, Fail(p) \/ Crash(p) PROVE Inv'
    BY <1>0, <1>6 DEF Fail, Crash, Forget
  <1>7. CASE StartOver
    BY <1>7, FilesFacts DEF StartOver
  <1>8. CASE Migrate
    BY <1>8, FilesFacts DEF Migrate, Unreadable
  <1>9. CASE UNCHANGED vars
    BY <1>9 DEF vars
  <1> QED
    BY <1>1, <1>2, <1>3, <1>4, <1>5, <1>6, <1>7, <1>8, <1>9
    DEF Next, Step, Put, Delete

LEMMA InvIsInvariant == Spec => []Inv
  BY InitInv, StepInv, PTL DEF Spec

\* The state of the store and of every call in progress is well formed.
THEOREM StoreTypeCorrect == Spec => []TypeOK
  BY InvIsInvariant, PTL DEF Inv

\* save never leaves the store half-written: only whole temporary files are
\* renamed over it, wherever processes fail or crash.
THEOREM StoreIsNeverTorn == Spec => []StoreNeverTorn
  BY InvIsInvariant, PTL DEF Inv

-----------------------------------------------------------------------------
(* CredentialStore implements SnapshotStore. *)

LEMMA InitSnapshots == Init => Snapshots!Init
  <1> SUFFICES ASSUME Init PROVE Snapshots!Init
    OBVIOUS
  <1>1. disk.logins \in Logins /\ (~Loadable => disk.logins = NoLogins)
    BY FilesFacts DEF Init, Loadable
  <1>2. Loadable \in BOOLEAN
    BY DEF Loadable
  <1> QED
    BY <1>1, <1>2
    DEF Init, Snapshots!Init, Snapshots!Contents, Snapshots!Nothing, Logins, NoLogins

LEMMA StepSnapshots == Inv /\ [Next]_vars => [Snapshots!Next]_Snapshots!vars
  <1> SUFFICES ASSUME Inv, [Next]_vars PROVE [Snapshots!Next]_Snapshots!vars
    OBVIOUS
  <1> DEFINE bar == [p \in Procs |-> IF pc[p] = "idle" THEN {} ELSE {view[p]}]
  <1> USE DEF Snapshots!vars
  <1>0. ASSUME NEW p \in Procs, pc[p] # "idle", Forget(p)
        PROVE  bar' = [bar EXCEPT ![p] = {}] /\ bar[p] = {view[p]}
    <2>1. pc' = [pc EXCEPT ![p] = "idle"] /\ view' = [view EXCEPT ![p] = NoLogins]
      BY <1>0 DEF Forget
    <2>2. DOMAIN pc = Procs /\ DOMAIN view = Procs
      BY DEF Inv, TypeOK
    <2> QED
      BY <1>0, <2>1, <2>2
  <1>1. ASSUME NEW p \in Procs, NEW s \in Spellings, Get(p, s)
        PROVE  UNCHANGED Snapshots!vars
    BY <1>1 DEF Get, Loadable
  <1>2. ASSUME NEW p \in Procs, NEW s \in Spellings, NEW t \in Tokens \cup {NoToken},
               Load(p, s, t)
        PROVE  Snapshots!TakeSnapshot(p)
    <2>1. bar' = [bar EXCEPT ![p] = {disk.logins}] /\ bar[p] = {}
      BY <1>2 DEF Load, Inv, TypeOK
    <2> QED
      BY <1>2, <2>1 DEF Load, Snapshots!TakeSnapshot, Loadable
  <1>3. ASSUME NEW p \in Procs, Refuse(p) PROVE UNCHANGED Snapshots!vars
    BY <1>3 DEF Refuse, Loadable
  <1>4. ASSUME NEW p \in Procs, CreateTemp(p) \/ BeginWrite(p) \/ EndWrite(p)
        PROVE  UNCHANGED Snapshots!vars
    <2>1. bar' = bar
      BY <1>4 DEF CreateTemp, BeginWrite, EndWrite, Inv, TypeOK
    <2> QED
      BY <1>4, <2>1 DEF CreateTemp, BeginWrite, EndWrite, Loadable
  <1>5. ASSUME NEW p \in Procs, Rename(p)
        PROVE  \E k \in Issuers, v \in Tokens \cup {NoToken} : Snapshots!Replace(p, k, v)
    <2>1. disk' = [state |-> "readable", logins |-> Edited(p)]
      BY <1>5 DEF Rename, Renamed, Inv, SaveInv
    <2>2. Loadable' /\ disk'.logins = [view[p] EXCEPT ![op[p].issuer] = op[p].token]
      BY <2>1 DEF Loadable, Unreadable, Edited
    <2>3. bar' = [bar EXCEPT ![p] = {}] /\ bar[p] = {view[p]}
      BY <1>0, <1>5 DEF Rename
    <2>4. op[p].issuer \in Issuers /\ op[p].token \in Tokens \cup {NoToken}
      BY <1>5 DEF Rename, Inv, SaveInv, Edits
    <2> QED
      BY <2>2, <2>3, <2>4 DEF Snapshots!Replace, Loadable
  <1>6. ASSUME NEW p \in Procs, Fail(p) \/ Crash(p) PROVE Snapshots!Abandon(p)
    <2>1. bar' = [bar EXCEPT ![p] = {}] /\ bar[p] = {view[p]}
      BY <1>0, <1>6 DEF Fail, Crash
    <2> QED
      BY <1>6, <2>1 DEF Fail, Crash, Forget, Snapshots!Abandon, Loadable
  <1>7. ASSUME StartOver \/ Migrate PROVE Snapshots!Outside
    <2>1. CASE StartOver
      BY <2>1 DEF StartOver, Snapshots!Outside, Snapshots!Nothing, NoLogins, Loadable
    <2>2. CASE Migrate
      BY <2>2 DEF Migrate, Snapshots!Outside, Snapshots!Nothing, NoLogins, Loadable
    <2> QED
      BY <1>7, <2>1, <2>2
  <1>8. CASE UNCHANGED vars
    BY <1>8 DEF vars, Loadable
  <1> QED
    BY <1>1, <1>2, <1>3, <1>4, <1>5, <1>6, <1>7, <1>8
    DEF Next, Step, Put, Delete, Snapshots!Next

\* However many processes interleave, fail and crash, the file is always an
\* earlier content of it with one entry replaced: the read, the edit and the
\* rename of src/auth/store.go amount to one indivisible replacement.
THEOREM StoreImplementsSnapshotStore == Spec => IsSnapshotStore
  BY InitSnapshots, StepSnapshots, InvIsInvariant, PTL
  DEF Spec, IsSnapshotStore, Snapshots!Spec

-----------------------------------------------------------------------------
(* With no newer tool about, a call in progress has read a readable file    *)
(* and nothing makes it unreadable before the call ends.                    *)

BusyMeansLoadable == (\E p \in Procs : pc[p] # "idle") => Loadable

LEMMA BusyInit == Init => BusyMeansLoadable
  BY DEF Init, BusyMeansLoadable

LEMMA BusyStep ==
    ASSUME "newer tool" \notin Outsiders
    PROVE  Inv /\ BusyMeansLoadable /\ [Next]_vars => BusyMeansLoadable'
  <1> SUFFICES ASSUME Inv, BusyMeansLoadable, [Next]_vars PROVE BusyMeansLoadable'
    OBVIOUS
  <1> USE DEF BusyMeansLoadable
  <1>1. ASSUME NEW p \in Procs, NEW s \in Spellings, Get(p, s) PROVE BusyMeansLoadable'
    BY <1>1 DEF Get, Loadable
  <1>2. ASSUME NEW p \in Procs, NEW s \in Spellings, NEW t \in Tokens \cup {NoToken},
               Load(p, s, t)
        PROVE  BusyMeansLoadable'
    BY <1>2 DEF Load, Loadable
  <1>3. ASSUME NEW p \in Procs, Refuse(p) PROVE BusyMeansLoadable'
    BY <1>3 DEF Refuse, Loadable
  <1>4. ASSUME NEW p \in Procs, CreateTemp(p) \/ BeginWrite(p) \/ EndWrite(p)
        PROVE  BusyMeansLoadable'
    BY <1>4 DEF CreateTemp, BeginWrite, EndWrite, Loadable
  <1>5. ASSUME NEW p \in Procs, Rename(p) PROVE BusyMeansLoadable'
    BY <1>5 DEF Rename, Renamed, Inv, SaveInv, Loadable, Unreadable
  <1>6. ASSUME NEW p \in Procs, Fail(p) \/ Crash(p) PROVE BusyMeansLoadable'
    <2>1. Loadable
      BY <1>6 DEF Fail, Crash
    <2> QED
      BY <1>6, <2>1 DEF Fail, Crash, Loadable
  <1>7. CASE StartOver
    BY <1>7 DEF StartOver, Loadable, Unreadable
  <1>8. CASE UNCHANGED vars
    BY <1>8 DEF vars, Loadable
  <1> QED
    BY <1>1, <1>2, <1>3, <1>4, <1>5, <1>6, <1>7, <1>8
    DEF Next, Step, Put, Delete, Migrate

LEMMA UnreadableStep ==
    ASSUME "newer tool" \notin Outsiders
    PROVE  Inv /\ BusyMeansLoadable /\ [Next]_vars
              => (~Loadable /\ disk' # disk => disk'.state = "absent")
  <1> SUFFICES ASSUME BusyMeansLoadable, Next, ~Loadable, disk' # disk
               PROVE  disk'.state = "absent"
    BY DEF vars
  <1>1. ASSUME NEW p \in Procs, Step(p) PROVE FALSE
    <2>1. pc[p] = "idle"
      BY DEF BusyMeansLoadable
    <2> QED
      BY <1>1, <2>1 DEF Step, Get, Put, Delete, Load, Refuse, CreateTemp, BeginWrite,
                        EndWrite, Rename, Fail, Crash
  <1>2. CASE StartOver
    BY <1>2 DEF StartOver
  <1> QED
    BY <1>1, <1>2 DEF Next, Migrate

\* A corrupt store, or one in an unknown layout, is only ever replaced by the
\* user who deletes it: Put and Delete stop at load's error, and no call that
\* loaded a readable file is still under way.  Without a newer release sharing
\* the file, that is: one may migrate it between a Put's load and its rename.
THEOREM UnreadableIsNeverReplaced ==
    ASSUME "newer tool" \notin Outsiders
    PROVE  Spec => UnreadableNeverReplaced
  <1>1. Spec => []BusyMeansLoadable
    BY BusyInit, BusyStep, InvIsInvariant, PTL DEF Spec
  <1> QED
    BY <1>1, UnreadableStep, InvIsInvariant, PTL DEF Spec, UnreadableNeverReplaced

-----------------------------------------------------------------------------
(* CredentialStore implements CredentialMap when one process has the file   *)
(* to itself: while it is inside Put or Delete nothing else changes the     *)
(* file, so the snapshot it writes back is the current content.             *)

ViewIsCurrent == \A p \in Procs : pc[p] # "idle" => view[p] = disk.logins

LEMMA ViewInit == Init => ViewIsCurrent
  BY DEF Init, ViewIsCurrent

LEMMA ViewStep ==
    ASSUME "newer tool" \notin Outsiders, \A p, q \in Procs : p = q
    PROVE  Inv /\ BusyMeansLoadable /\ ViewIsCurrent /\ [Next]_vars => ViewIsCurrent'
  <1> SUFFICES ASSUME Inv, BusyMeansLoadable, ViewIsCurrent, [Next]_vars
               PROVE  ViewIsCurrent'
    OBVIOUS
  <1> USE DEF ViewIsCurrent
  <1>0. DOMAIN pc = Procs /\ DOMAIN view = Procs
    BY DEF Inv, TypeOK
  <1>1. ASSUME NEW p \in Procs, NEW s \in Spellings, Get(p, s) PROVE ViewIsCurrent'
    BY <1>1 DEF Get
  <1>2. ASSUME NEW p \in Procs, NEW s \in Spellings, NEW t \in Tokens \cup {NoToken},
               Load(p, s, t)
        PROVE  ViewIsCurrent'
    BY <1>0, <1>2 DEF Load
  <1>3. ASSUME NEW p \in Procs, Refuse(p) PROVE ViewIsCurrent'
    BY <1>3 DEF Refuse
  <1>4. ASSUME NEW p \in Procs, CreateTemp(p) \/ BeginWrite(p) \/ EndWrite(p)
        PROVE  ViewIsCurrent'
    BY <1>0, <1>4 DEF CreateTemp, BeginWrite, EndWrite
  <1>5. ASSUME NEW p \in Procs, Rename(p) \/ Fail(p) \/ Crash(p) PROVE ViewIsCurrent'
    <2>1. pc' = [pc EXCEPT ![p] = "idle"]
      BY <1>5 DEF Rename, Fail, Crash, Forget
    <2> QED
      BY <1>0, <2>1
  <1>6. CASE StartOver
    <2>1. \A p \in Procs : pc[p] = "idle"
      BY <1>6 DEF StartOver, BusyMeansLoadable
    <2> QED
      BY <1>6, <2>1 DEF StartOver
  <1>7. CASE UNCHANGED vars
    BY <1>7 DEF vars
  <1> QED
    BY <1>1, <1>2, <1>3, <1>4, <1>5, <1>6, <1>7 DEF Next, Step, Put, Delete, Migrate

LEMMA StepMap ==
    ASSUME "newer tool" \notin Outsiders
    PROVE  Inv /\ ViewIsCurrent /\ [Next]_vars => [Map!Next]_Map!vars
  <1> SUFFICES ASSUME Inv, ViewIsCurrent, [Next]_vars PROVE [Map!Next]_Map!vars
    OBVIOUS
  <1> USE DEF Map!vars
  <1>1. ASSUME NEW p \in Procs, NEW s \in Spellings, Get(p, s)
        PROVE  \E k \in Issuers : Map!Get(p, k)
    BY <1>1, IssuerType DEF Get, Map!Get
  <1>2. ASSUME NEW p \in Procs, NEW s \in Spellings, NEW t \in Tokens \cup {NoToken},
               Load(p, s, t)
        PROVE  UNCHANGED Map!vars
    BY <1>2 DEF Load
  <1>3. ASSUME NEW p \in Procs, Refuse(p) PROVE Map!Refuse(p)
    BY <1>3 DEF Refuse, Map!Refuse
  <1>4. ASSUME NEW p \in Procs, CreateTemp(p) \/ BeginWrite(p) \/ EndWrite(p)
        PROVE  UNCHANGED Map!vars
    BY <1>4 DEF CreateTemp, BeginWrite, EndWrite
  <1>5. ASSUME NEW p \in Procs, Rename(p)
        PROVE  \E k \in Issuers, v \in Tokens \cup {NoToken} : Map!Set(p, k, v)
    <2>1. disk'.logins = [disk.logins EXCEPT ![op[p].issuer] = op[p].token]
      BY <1>5 DEF Rename, Renamed, Edited, Inv, SaveInv, ViewIsCurrent
    <2>2. op[p].issuer \in Issuers /\ op[p].token \in Tokens \cup {NoToken}
      BY <1>5 DEF Rename, Inv, SaveInv, Edits
    <2> QED
      BY <1>5, <2>1, <2>2 DEF Rename, Map!Set
  <1>6. ASSUME NEW p \in Procs, Fail(p) PROVE Map!Refuse(p)
    BY <1>6 DEF Fail, Map!Refuse
  <1>7. ASSUME NEW p \in Procs, Crash(p) PROVE UNCHANGED Map!vars
    BY <1>7 DEF Crash
  <1>8. CASE StartOver
    <2>1. disk.logins = NoLogins
      BY <1>8, FilesFacts DEF StartOver, Loadable, Inv, TypeOK
    <2> QED
      BY <1>8, <2>1 DEF StartOver
  <1>9. CASE UNCHANGED vars
    BY <1>9 DEF vars
  <1> QED
    BY <1>1, <1>2, <1>3, <1>4, <1>5, <1>6, <1>7, <1>8, <1>9
    DEF Next, Step, Put, Delete, Migrate, Map!Next

\* For a process that is alone on the file, whatever fails or crashes, the
\* store behaves as the map of logins its callers have in mind: every call
\* takes effect at one instant or not at all, and touches one entry.  The run
\* store_lost_update shows that two processes do not get this.
THEOREM LoneProcessSeesCredentialMap ==
    ASSUME "newer tool" \notin Outsiders, \A p, q \in Procs : p = q
    PROVE  Spec => IsCredentialMap
  <1>1. Spec => []BusyMeansLoadable
    BY BusyInit, BusyStep, InvIsInvariant, PTL DEF Spec
  <1>2. Spec => []ViewIsCurrent
    BY <1>1, ViewInit, ViewStep, InvIsInvariant, PTL DEF Spec
  <1>3. Init => Map!Init
    BY FilesFacts DEF Init, Map!Init, Logins
  <1> QED
    BY <1>2, <1>3, StepMap, InvIsInvariant, PTL DEF Spec, IsCredentialMap, Map!Spec

\* For the same process no call touches a login that it does not name
\* (OnlyTheNamedIssuerChanges): what it writes back for the other issuers is
\* what is there.  This is what the two processes of store_lost_update lack.
THEOREM LoneProcessTouchesOneEntry ==
    ASSUME "newer tool" \notin Outsiders, \A p, q \in Procs : p = q
    PROVE  Spec => OnlyTheNamedIssuerChanges
  <1>1. Spec => []BusyMeansLoadable
    BY BusyInit, BusyStep, InvIsInvariant, PTL DEF Spec
  <1>2. Spec => []ViewIsCurrent
    BY <1>1, ViewInit, ViewStep, InvIsInvariant, PTL DEF Spec
  <1>3. Inv /\ ViewIsCurrent /\ [Next]_vars =>
          \A i \in Issuers :
              disk'.logins[i] # disk.logins[i] =>
                  \E p \in Procs : pc[p] = "written" /\ op[p].issuer = i
    <2> SUFFICES ASSUME Inv, ViewIsCurrent, [Next]_vars, NEW i \in Issuers,
                        disk'.logins[i] # disk.logins[i]
                 PROVE  \E p \in Procs : pc[p] = "written" /\ op[p].issuer = i
      OBVIOUS
    <2>1. ASSUME NEW p \in Procs, Rename(p) PROVE op[p].issuer = i /\ pc[p] = "written"
      <3>1. disk'.logins = [disk.logins EXCEPT ![op[p].issuer] = op[p].token]
        BY <2>1 DEF Rename, Renamed, Edited, Inv, SaveInv, ViewIsCurrent
      <3>2. DOMAIN disk.logins = Issuers
        BY FilesFacts DEF Inv, TypeOK, Logins
      <3> QED
        BY <2>1, <3>1, <3>2 DEF Rename
    <2>2. ASSUME StartOver PROVE disk' = disk \/ disk'.logins = disk.logins
      BY <2>2, FilesFacts DEF StartOver, Loadable, Inv, TypeOK
    <2>3. ASSUME ~(\E p \in Procs : Rename(p)), ~StartOver PROVE disk' = disk
      BY <2>3 DEF Next, Step, Get, Put, Delete, Load, Refuse, CreateTemp, BeginWrite,
                  EndWrite, Fail, Crash, Migrate, vars
    <2> QED
      BY <2>1, <2>2, <2>3
  <1> QED
    BY <1>2, <1>3, InvIsInvariant, PTL DEF Spec, OnlyTheNamedIssuerChanges
=============================================================================
