--------------------------- MODULE Publish_proofs ----------------------------
(***************************************************************************)
(* What TLAPS proves of Publish for any publishers and number of attempts. *)
(***************************************************************************)
EXTENDS Publish, TLAPS

MayPush(p) == p \in Manual \/ GrantsPush(p)

\* Past the token step only those remain who may push.
GrantInv ==
    \A p \in Publishers :
        pc[p] \in {"cleared", "packed", "tagged", "signed", "attached"} => MayPush(p)

\* What a successful call of p leaves attached to its bundle.
Due(p) == IF p \in Signers THEN Wanted(p) ELSE {}

\* How much of what p was asked to attach is attached, by where p is.
AttachInv ==
    \A p \in Publishers :
        /\ \A n \in 1..MaxAttempts : n > attempt[p] => referrers[<<p, n>>] = {}
        /\ pc[p] \in {"starting", "checked", "discovered", "cleared", "packed", "tagged"}
              => referrers[Mine(p)] = {}
        /\ pc[p] = "signed" =>
              p \in Signers \cap Attesters /\ referrers[Mine(p)] = {"signature"}
        /\ pc[p] = "attached" => referrers[Mine(p)] = Due(p)
        /\ outcome[p] = "published" => pc[p] = "done" /\ referrers[Mine(p)] = Due(p)

LEMMA MineType ==
    ASSUME TypeOK, NEW p \in Publishers, pc[p] # "idle"
    PROVE  Mine(p) \in Digests /\ attempt[p] \in 1..MaxAttempts
  BY PublishAssumption DEF TypeOK, Mine, Digests

\* A publisher that goes on to tag has stored its manifest; once it has tagged,
\* or the hub still holds its request, the tag names one.
OrderInv ==
    /\ \A p \in Publishers :
          /\ pc[p] \in {"packed", "tagged", "signed", "attached"} => Mine(p) \in stored
          /\ pc[p] \in {"tagged", "signed", "attached"} => tag # Nothing
    /\ pending => tag # Nothing

LEMMA TypeInit == Init => TypeOK /\ OrderInv
  <1> SUFFICES ASSUME Init PROVE TypeOK /\ OrderInv
    OBVIOUS
  <1>1. TypeOK
    <2>1. yanked \in BOOLEAN /\ pending \in BOOLEAN
      BY Zenon DEF Init
    <2> QED
      BY <2>1, PublishAssumption DEF Init, TypeOK, Steps
  <1>2. OrderInv
    BY DEF Init, OrderInv
  <1> QED
    BY <1>1, <1>2

LEMMA TypeStep == TypeOK /\ OrderInv /\ [Next]_vars => TypeOK'
  <1> SUFFICES ASSUME TypeOK, OrderInv, [Next]_vars PROVE TypeOK'
    OBVIOUS
  <1> USE PublishAssumption DEF TypeOK, Steps, Goto, Stop, registry, hub
  <1>1. ASSUME NEW p \in Publishers, Start(p) PROVE TypeOK'
    BY <1>1 DEF Start
  <1>2. ASSUME NEW p \in Publishers,
               Preflight(p) \/ Discover(p) \/ Clear(p) \/ SkipSigning(p)
        PROVE  TypeOK'
    BY <1>2 DEF Preflight, Discover, Clear, SkipSigning
  <1>3. ASSUME NEW p \in Publishers, AlreadyTaken(p) \/ Deny(p) PROVE TypeOK'
    BY <1>3 DEF AlreadyTaken, Deny
  <1>4. ASSUME NEW p \in Publishers, Pack(p) PROVE TypeOK'
    BY <1>4, MineType DEF Pack
  <1>5. ASSUME NEW p \in Publishers, Tag(p) PROVE TypeOK'
    <2>1. Mine(p) \in stored
      BY <1>5 DEF Tag, OrderInv
    <2> QED
      BY <1>5, <2>1 DEF Tag
  <1>6. ASSUME NEW p \in Publishers, Sign(p) \/ Attest(p) PROVE TypeOK'
    BY <1>6 DEF Sign, Attest, Attach, Kinds
  <1>7. ASSUME HubIndexes, tag \in stored
        PROVE  /\ index' = Nothing \/ index' \in [digest : stored, attached : SUBSET Kinds]
               /\ yanked' = yanked /\ pending' = pending
    BY <1>7 DEF HubIndexes
  <1>8. ASSUME NEW p \in Publishers, Sync(p) \/ SyncLost(p) PROVE TypeOK'
    <2>1. tag \in stored /\ HubIndexes
      BY <1>8 DEF Sync, SyncLost, OrderInv
    <2> QED
      BY <1>7, <1>8, <2>1 DEF Sync, SyncLost
  <1>9. ASSUME NEW p \in Publishers, SyncRefused(p) \/ SyncAbandoned(p) \/ Fail(p)
        PROVE  TypeOK'
    BY <1>9 DEF SyncRefused, SyncAbandoned, Fail
  <1>10. CASE SyncLate
    <2>1. tag \in stored /\ HubIndexes
      BY <1>10 DEF SyncLate, OrderInv
    <2> QED
      BY <1>7, <1>10, <2>1 DEF SyncLate
  <1>11. CASE Yank
    BY <1>11 DEF Yank
  <1>12. CASE UNCHANGED vars
    BY <1>12 DEF vars
  <1> QED
    BY <1>1, <1>2, <1>3, <1>4, <1>5, <1>6, <1>8, <1>9, <1>10, <1>11, <1>12
    DEF Next, Progress

LEMMA OrderStep == TypeOK /\ OrderInv /\ [Next]_vars => OrderInv'
  <1> SUFFICES ASSUME TypeOK, OrderInv, [Next]_vars PROVE OrderInv'
    OBVIOUS
  <1> USE DEF TypeOK, OrderInv, Goto, Stop, registry, hub, Mine
  <1>1. ASSUME NEW p \in Publishers, Start(p) PROVE OrderInv'
    BY <1>1 DEF Start
  <1>2. ASSUME NEW p \in Publishers,
               Preflight(p) \/ Discover(p) \/ Clear(p) \/ SkipSigning(p)
        PROVE  OrderInv'
    BY <1>2 DEF Preflight, Discover, Clear, SkipSigning
  <1>3. ASSUME NEW p \in Publishers, AlreadyTaken(p) \/ Deny(p) PROVE OrderInv'
    BY <1>3 DEF AlreadyTaken, Deny
  <1>4. ASSUME NEW p \in Publishers, Pack(p) PROVE OrderInv'
    BY <1>4 DEF Pack
  <1>5. ASSUME NEW p \in Publishers, Tag(p) PROVE OrderInv'
    BY <1>5 DEF Tag, Nothing
  <1>6. ASSUME NEW p \in Publishers, Sign(p) \/ Attest(p) PROVE OrderInv'
    BY <1>6 DEF Sign, Attest
  <1>7. ASSUME NEW p \in Publishers, Sync(p) \/ SyncLost(p) PROVE OrderInv'
    BY <1>7 DEF Sync, SyncLost, HubIndexes
  <1>8. ASSUME NEW p \in Publishers, SyncRefused(p) \/ SyncAbandoned(p) \/ Fail(p)
        PROVE  OrderInv'
    <2>1. UNCHANGED <<attempt, stored, tag>> /\ pc' = [pc EXCEPT ![p] = "idle"]
      BY <1>8 DEF SyncRefused, SyncAbandoned, Fail
    <2>2. CASE SyncAbandoned(p)
      BY <2>1, <2>2 DEF SyncAbandoned
    <2>3. CASE SyncRefused(p) \/ Fail(p)
      <3>1. pending' => pending
        BY <2>3, Zenon DEF SyncRefused, Fail
      <3> QED
        BY <2>1, <3>1
    <2> QED
      BY <1>8, <2>2, <2>3
  <1>9. CASE SyncLate \/ Yank
    <2>1. UNCHANGED <<pc, attempt, stored, tag>>
      BY <1>9 DEF SyncLate, Yank
    <2>2. pending' => pending
      BY <1>9, Zenon DEF SyncLate, Yank, HubIndexes
    <2> QED
      BY <2>1, <2>2
  <1>10. CASE UNCHANGED vars
    BY <1>10 DEF vars
  <1> QED
    BY <1>1, <1>2, <1>3, <1>4, <1>5, <1>6, <1>7, <1>8, <1>9, <1>10 DEF Next, Progress

LEMMA GrantStep ==
    TypeOK /\ GrantInv /\ NoBytesWithoutGrant /\ [Next]_vars
      => GrantInv' /\ NoBytesWithoutGrant'
  <1> SUFFICES ASSUME TypeOK, GrantInv, NoBytesWithoutGrant, [Next]_vars
               PROVE  GrantInv' /\ NoBytesWithoutGrant'
    OBVIOUS
  <1> USE DEF TypeOK, GrantInv, NoBytesWithoutGrant, Goto, Stop, registry
  <1>1. ASSUME NEW p \in Publishers, Start(p) PROVE GrantInv' /\ NoBytesWithoutGrant'
    BY <1>1 DEF Start
  <1>2. ASSUME NEW p \in Publishers, Preflight(p) \/ Discover(p) \/ SkipSigning(p)
        PROVE  GrantInv' /\ NoBytesWithoutGrant'
    BY <1>2 DEF Preflight, Discover, SkipSigning
  <1>3. ASSUME NEW p \in Publishers, Clear(p) PROVE GrantInv' /\ NoBytesWithoutGrant'
    BY <1>3 DEF Clear, MayPush
  <1>4. ASSUME NEW p \in Publishers, AlreadyTaken(p) \/ Deny(p)
        PROVE  GrantInv' /\ NoBytesWithoutGrant'
    BY <1>4 DEF AlreadyTaken, Deny
  <1>5. ASSUME NEW p \in Publishers, Pack(p) PROVE GrantInv' /\ NoBytesWithoutGrant'
    <2>1. GrantInv'
      BY <1>5 DEF Pack
    <2>2. MayPush(p) /\ Mine(p)[1] = p
      BY <1>5 DEF Pack, Mine
    <2>3. NoBytesWithoutGrant'
      BY <1>5, <2>2 DEF Pack, MayPush
    <2> QED
      BY <2>1, <2>3
  <1>6. ASSUME NEW p \in Publishers, Tag(p) \/ Sign(p) \/ Attest(p)
        PROVE  GrantInv' /\ NoBytesWithoutGrant'
    BY <1>6 DEF Tag, Sign, Attest
  <1>7. ASSUME NEW p \in Publishers,
               Sync(p) \/ SyncLost(p) \/ SyncRefused(p) \/ SyncAbandoned(p) \/ Fail(p)
        PROVE  GrantInv' /\ NoBytesWithoutGrant'
    BY <1>7 DEF Sync, SyncLost, SyncRefused, SyncAbandoned, Fail
  <1>8. CASE SyncLate \/ Yank
    BY <1>8 DEF SyncLate, Yank
  <1>9. CASE UNCHANGED vars
    BY <1>9 DEF vars
  <1> QED
    BY <1>1, <1>2, <1>3, <1>4, <1>5, <1>6, <1>7, <1>8, <1>9 DEF Next, Progress

\* What an attach step of p does to the referrers of every manifest.
LEMMA AttachOnlyMine ==
    ASSUME TypeOK, NEW p \in Publishers, pc[p] # "idle", NEW kind \in Kinds,
           Attach(p, kind)
    PROVE  /\ referrers'[Mine(p)] = referrers[Mine(p)] \cup {kind}
           /\ \A d \in Digests : d # Mine(p) => referrers'[d] = referrers[d]
  BY MineType DEF TypeOK, Attach

LEMMA AttachStep == TypeOK /\ AttachInv /\ [Next]_vars => AttachInv'
  <1> SUFFICES ASSUME TypeOK, AttachInv, [Next]_vars PROVE AttachInv'
    OBVIOUS
  <1>0. /\ pc \in [Publishers -> Steps]
        /\ attempt \in [Publishers -> 0..MaxAttempts]
        /\ outcome \in [Publishers -> {"none", "taken", "denied", "failed", "published"}]
        /\ MaxAttempts \in Nat
    BY PublishAssumption DEF TypeOK
  <1> USE <1>0 DEF AttachInv, Goto, Stop, registry, Mine
  <1>1. ASSUME NEW p \in Publishers, Start(p) PROVE AttachInv'
    <2>1. attempt'[p] = attempt[p] + 1 /\ attempt'[p] \in 1..MaxAttempts
      BY <1>1 DEF Start
    <2>2. attempt[p] + 1 \in 1..MaxAttempts /\ attempt[p] + 1 > attempt[p]
      BY <1>1 DEF Start
    <2>3. referrers[<<p, attempt[p] + 1>>] = {}
      BY <2>2
    <2>4. referrers' = referrers
      BY <1>1 DEF Start
    <2>5. referrers'[<<p, attempt'[p]>>] = {}
      BY <2>1, <2>3, <2>4
    <2>6. /\ pc'[p] = "starting" /\ outcome'[p] = "none"
          /\ \A q \in Publishers \ {p} :
                attempt'[q] = attempt[q] /\ pc'[q] = pc[q] /\ outcome'[q] = outcome[q]
      BY <1>1 DEF Start
    <2>7. ASSUME NEW n \in 1..MaxAttempts, n > attempt'[p] PROVE referrers'[<<p, n>>] = {}
      <3>1. n > attempt[p]
        BY <2>1, <2>7
      <3>2. referrers[<<p, n>>] = {}
        BY <3>1
      <3> QED
        BY <2>4, <3>2
    <2> QED
      BY <2>4, <2>5, <2>6, <2>7
  <1>2. ASSUME NEW p \in Publishers, Preflight(p) \/ Discover(p) \/ Clear(p)
        PROVE  AttachInv'
    BY <1>2 DEF Preflight, Discover, Clear
  <1>3. ASSUME NEW p \in Publishers, SkipSigning(p) PROVE AttachInv'
    <2>1. Due(p) = {}
      BY <1>3 DEF SkipSigning, Due
    <2> QED
      BY <1>3, <2>1 DEF SkipSigning
  <1>4. ASSUME NEW p \in Publishers, AlreadyTaken(p) \/ Deny(p) PROVE AttachInv'
    BY <1>4 DEF AlreadyTaken, Deny
  <1>5. ASSUME NEW p \in Publishers, Pack(p) \/ Tag(p) PROVE AttachInv'
    BY <1>5 DEF Pack, Tag
  <1>6. ASSUME NEW p \in Publishers, Sign(p) \/ Attest(p) PROVE AttachInv'
    <2>1. /\ pc[p] # "idle" /\ attempt[p] \in 1..MaxAttempts
          /\ attempt' = attempt /\ outcome' = outcome
      BY <1>6, MineType DEF Sign, Attest
    <2>2. ASSUME NEW q \in Publishers, NEW n \in 1..MaxAttempts, q # p \/ n # attempt[p]
          PROVE  referrers'[<<q, n>>] = referrers[<<q, n>>]
      <3>1. <<q, n>> \in Digests /\ <<q, n>> # <<p, attempt[p]>>
        BY <2>2 DEF Digests
      <3>2. \E kind \in Kinds : Attach(p, kind)
        BY <1>6 DEF Sign, Attest, Kinds
      <3> QED
        BY <2>1, <3>1, <3>2, AttachOnlyMine
    <2>3. ASSUME NEW q \in Publishers \ {p}
          PROVE  /\ pc'[q] = pc[q]
                 /\ pc[q] # "idle" => referrers'[Mine(q)] = referrers[Mine(q)]
      BY <1>6, <2>2, MineType DEF Sign, Attest
    <2>4. ASSUME NEW q \in Publishers, NEW n \in 1..MaxAttempts, n > attempt[q]
          PROVE  referrers'[<<q, n>>] = {}
      <3>1. q # p \/ n # attempt[p]
        BY <2>1, <2>4
      <3>2. referrers[<<q, n>>] = {}
        BY <2>4
      <3> QED
        BY <2>2, <3>1, <3>2
    <2>5. CASE Sign(p)
      <3>1. referrers'[Mine(p)] = {"signature"}
        <4>1. referrers[Mine(p)] = {}
          BY <2>5 DEF Sign
        <4>2. Attach(p, "signature") /\ "signature" \in Kinds
          BY <2>5 DEF Sign, Kinds
        <4> HIDE DEF Mine
        <4> QED
          BY <2>1, <4>1, <4>2, AttachOnlyMine
      <3>2. pc'[p] = (IF p \in Attesters THEN "signed" ELSE "attached") /\ p \in Signers
        BY <2>5 DEF Sign
      <3>3. p \notin Attesters => Due(p) = {"signature"}
        BY <3>2 DEF Due, Wanted
      <3>4. outcome[p] # "published"
        BY <2>5 DEF Sign
      <3> QED
        BY <2>1, <2>3, <2>4, <3>1, <3>2, <3>3, <3>4
    <2>6. CASE Attest(p)
      <3>1. referrers'[Mine(p)] = {"signature", "provenance"}
        <4>1. referrers[Mine(p)] = {"signature"}
          BY <2>6 DEF Attest
        <4>2. Attach(p, "provenance") /\ "provenance" \in Kinds
          BY <2>6 DEF Attest, Kinds
        <4> HIDE DEF Mine
        <4> QED
          BY <2>1, <4>1, <4>2, AttachOnlyMine
      <3>2. pc'[p] = "attached" /\ p \in Signers \cap Attesters
        BY <2>6 DEF Attest
      <3>3. Due(p) = {"signature", "provenance"}
        BY <3>2 DEF Due, Wanted
      <3>4. outcome[p] # "published"
        BY <2>6 DEF Attest
      <3> QED
        BY <2>1, <2>3, <2>4, <3>1, <3>2, <3>3, <3>4
    <2> QED
      BY <1>6, <2>5, <2>6
  <1>7. ASSUME NEW p \in Publishers, Sync(p) PROVE AttachInv'
    BY <1>7 DEF Sync
  <1>8. ASSUME NEW p \in Publishers,
               SyncLost(p) \/ SyncRefused(p) \/ SyncAbandoned(p) \/ Fail(p)
        PROVE  AttachInv'
    <2>1. /\ pc' = [pc EXCEPT ![p] = "idle"] /\ outcome' = [outcome EXCEPT ![p] = "failed"]
          /\ attempt' = attempt /\ referrers' = referrers
      BY <1>8 DEF SyncLost, SyncRefused, SyncAbandoned, Fail
    <2> QED
      BY <2>1
  <1>9. CASE SyncLate \/ Yank
    BY <1>9 DEF SyncLate, Yank
  <1>10. CASE UNCHANGED vars
    BY <1>10 DEF vars
  <1> HIDE DEF AttachInv, Goto, Stop, registry, Mine
  <1> QED
    BY <1>1, <1>2, <1>3, <1>4, <1>5, <1>6, <1>7, <1>8, <1>9, <1>10 DEF Next, Progress

Inv == TypeOK /\ OrderInv /\ GrantInv /\ NoBytesWithoutGrant /\ AttachInv

LEMMA InvIsInvariant == Spec => []Inv
  <1>1. Init => Inv
    <2> SUFFICES ASSUME Init PROVE Inv
      OBVIOUS
    <2>1. GrantInv /\ NoBytesWithoutGrant
      BY DEF Init, GrantInv, NoBytesWithoutGrant
    <2>2. AttachInv
      BY PublishAssumption DEF Init, AttachInv, Digests
    <2> QED
      BY <2>1, <2>2, TypeInit DEF Inv
  <1>2. Inv /\ [Next]_vars => Inv'
    BY TypeStep, OrderStep, GrantStep, AttachStep DEF Inv
  <1> QED
    BY <1>1, <1>2, PTL DEF Spec

\* Publishers, the registry and the index are well formed; in particular the
\* tag and the index only ever name manifests that were stored before.
THEOREM PublishTypeCorrect == Spec => []TypeOK
  BY InvIsInvariant, PTL DEF Inv

\* A publisher denied push leaves no bytes behind, however many publish at the
\* same coordinate, fail and try again.
THEOREM DeniedLeavesNoBytes == Spec => []NoBytesWithoutGrant
  BY InvIsInvariant, PTL DEF Inv

\* Success is reported only with every attachment in place on the bundle that
\* was pushed, whatever other publishers do at the same coordinate.
THEOREM SuccessIsAttached == Spec => []SuccessMeansAttached
  <1>1. Inv => SuccessMeansAttached
    BY PublishAssumption DEF Inv, AttachInv, Due, SuccessMeansAttached
  <1> QED
    BY <1>1, InvIsInvariant, PTL

-----------------------------------------------------------------------------
(* One of those who publish at the coordinate may push; the others have no  *)
(* right to the namespace and no registry token.                            *)

OnePusher == \A p, q \in Publishers : MayPush(p) /\ MayPush(q) => p = q

\* From when it has tagged the tag is its own, and so is what is indexed when
\* it reports success.
OwnInv ==
    \A p \in Publishers :
        /\ pc[p] \in {"tagged", "signed", "attached"} => tag = Mine(p)
        /\ outcome[p] = "published" =>
              /\ pc[p] = "done" /\ MayPush(p)
              /\ index # Nothing /\ index.digest = Mine(p) /\ tag = Mine(p)

\* What the hub does with a request, in terms of the tag it resolves.
LEMMA HubIndexesTag ==
    ASSUME HubIndexes
    PROVE  /\ index' # Nothing /\ index'.digest = tag
           /\ index # Nothing => index' = index
           /\ index = Nothing => index' = [digest |-> tag, attached |-> referrers[tag]]
           /\ yanked' = yanked /\ pending' = pending
  <1>1. \A d, a : [digest |-> d, attached |-> a] # Nothing
    BY DEF Nothing
  <1> QED
    BY <1>1 DEF HubIndexes, hub

LEMMA OwnStep ==
    ASSUME OnePusher
    PROVE  TypeOK /\ GrantInv /\ OwnInv /\ [Next]_vars => OwnInv'
  <1> SUFFICES ASSUME TypeOK, GrantInv, OwnInv, [Next]_vars PROVE OwnInv'
    OBVIOUS
  <1>0. /\ pc \in [Publishers -> Steps]
        /\ attempt \in [Publishers -> 0..MaxAttempts]
        /\ outcome \in [Publishers -> {"none", "taken", "denied", "failed", "published"}]
    BY DEF TypeOK
  <1> USE <1>0 DEF OwnInv, Goto, Stop, registry, hub, Mine
  <1>1. ASSUME NEW p \in Publishers, Start(p) PROVE OwnInv'
    BY <1>1 DEF Start
  <1>2. ASSUME NEW p \in Publishers,
               Preflight(p) \/ Discover(p) \/ Clear(p) \/ Pack(p) \/ SkipSigning(p)
        PROVE  OwnInv'
    BY <1>2 DEF Preflight, Discover, Clear, Pack, SkipSigning
  <1>3. ASSUME NEW p \in Publishers, AlreadyTaken(p) \/ Deny(p) PROVE OwnInv'
    BY <1>3 DEF AlreadyTaken, Deny
  <1>4. ASSUME NEW p \in Publishers, Tag(p) PROVE OwnInv'
    <2>1. MayPush(p)
      BY <1>4 DEF GrantInv, Tag
    <2>2. \A q \in Publishers \ {p} : ~MayPush(q)
      BY <2>1 DEF OnePusher
    <2>3. \A q \in Publishers \ {p} :
             pc[q] \notin {"tagged", "signed", "attached"} /\ outcome[q] # "published"
      BY <2>2 DEF GrantInv
    <2> QED
      BY <1>4, <2>3 DEF Tag
  <1>5. ASSUME NEW p \in Publishers, Sign(p) \/ Attest(p) PROVE OwnInv'
    BY <1>5 DEF Sign, Attest
  <1>6. ASSUME NEW p \in Publishers, Sync(p) \/ SyncLost(p) PROVE OwnInv'
    <2>1. tag = Mine(p) /\ MayPush(p) /\ HubIndexes
      BY <1>6 DEF Sync, SyncLost, GrantInv
    <2>2. index' # Nothing /\ index'.digest = Mine(p)
      BY <2>1, HubIndexesTag
    <2>3. \A q \in Publishers \ {p} : outcome[q] # "published"
      BY <2>1 DEF OnePusher
    <2>4. UNCHANGED <<attempt, stored, tag, referrers>>
      BY <1>6 DEF Sync, SyncLost
    <2>5. /\ pc'[p] \in {"done", "idle"} /\ (outcome'[p] = "published" => pc'[p] = "done")
          /\ \A q \in Publishers \ {p} : pc'[q] = pc[q] /\ outcome'[q] = outcome[q]
      BY <1>6 DEF Sync, SyncLost
    <2> QED
      BY <2>1, <2>2, <2>3, <2>4, <2>5
  <1>7. ASSUME NEW p \in Publishers, SyncRefused(p) \/ SyncAbandoned(p) \/ Fail(p)
        PROVE  OwnInv'
    <2>1. UNCHANGED <<attempt, tag, index>>
      BY <1>7 DEF SyncRefused, SyncAbandoned, Fail
    <2>2. pc' = [pc EXCEPT ![p] = "idle"] /\ outcome' = [outcome EXCEPT ![p] = "failed"]
      BY <1>7 DEF SyncRefused, SyncAbandoned, Fail
    <2> QED
      BY <2>1, <2>2
  <1>8. CASE SyncLate
    BY <1>8, HubIndexesTag DEF SyncLate
  <1>9. CASE Yank
    BY <1>9 DEF Yank
  <1>10. CASE UNCHANGED vars
    BY <1>10 DEF vars
  <1> HIDE DEF OwnInv, Goto, Stop, registry, hub, Mine
  <1> QED
    BY <1>1, <1>2, <1>3, <1>4, <1>5, <1>6, <1>7, <1>8, <1>9, <1>10 DEF Next, Progress

LEMMA OwnInvIsInvariant ==
    ASSUME OnePusher
    PROVE  Spec => []OwnInv
  <1>1. Init => OwnInv
    BY DEF Init, OwnInv
  <1>2. Inv /\ OwnInv /\ [Next]_vars => OwnInv'
    BY OwnStep DEF Inv
  <1> QED
    BY <1>1, <1>2, InvIsInvariant, PTL DEF Spec

SuccessMeansOwnBundle ==
    \A p \in Publishers :
        outcome[p] = "published" =>
            index # Nothing /\ index.digest = Mine(p) /\ tag = Mine(p)

\* Where one publisher may push, its success means that the bundle indexed and
\* the bundle served are the one that it pushed last, even when it did not ask
\* for the version first and the hub acts late on what it had abandoned.  (What
\* was attached by then is another matter: SuccessMeansIndexed.)
THEOREM SuccessIsOwnBundle ==
    ASSUME OnePusher
    PROVE  Spec => []SuccessMeansOwnBundle
  <1>1. OwnInv => SuccessMeansOwnBundle
    BY DEF OwnInv, SuccessMeansOwnBundle
  <1> QED
    BY <1>1, OwnInvIsInvariant, PTL

-----------------------------------------------------------------------------
(* Who may push checks the version first, and the hub drops what nobody     *)
(* waits for.                                                               *)

Careful == ~LateHub /\ \A p \in Publishers : MayPush(p) => p \in Checkers

\* The pusher goes on only while nothing is indexed, and the tag stays with
\* what is.
LoneInv ==
    /\ ~pending
    /\ index # Nothing => tag = index.digest
    /\ \A p \in Publishers :
          /\ MayPush(p) /\ pc[p] \in {"checked", "discovered", "cleared", "packed",
                                      "tagged", "signed", "attached"} => index = Nothing
          /\ outcome[p] = "published" =>
                index = [digest |-> Mine(p), attached |-> referrers[Mine(p)]]

\* Who is about to push is the one who may, and nothing is indexed then.
LEMMA NothingYet ==
    ASSUME GrantInv, LoneInv, NEW p \in Publishers,
           pc[p] \in {"cleared", "packed", "tagged", "signed", "attached"}
    PROVE  MayPush(p) /\ index = Nothing
  BY DEF GrantInv, LoneInv

LEMMA LoneStep ==
    ASSUME OnePusher, Careful
    PROVE  TypeOK /\ GrantInv /\ OwnInv /\ LoneInv /\ [Next]_vars => LoneInv'
  <1> SUFFICES ASSUME TypeOK, GrantInv, OwnInv, LoneInv, [Next]_vars PROVE LoneInv'
    OBVIOUS
  <1>0. /\ pc \in [Publishers -> Steps]
        /\ attempt \in [Publishers -> 0..MaxAttempts]
        /\ outcome \in [Publishers -> {"none", "taken", "denied", "failed", "published"}]
        /\ referrers \in [Digests -> SUBSET Kinds]
    BY DEF TypeOK
  <1>a. \A p \in Publishers :
           /\ pc[p] \in {"tagged", "signed", "attached"} => tag = Mine(p)
           /\ outcome[p] = "published" => pc[p] = "done" /\ MayPush(p) /\ index # Nothing
    BY DEF OwnInv
  <1> USE <1>0, <1>a DEF LoneInv, Goto, Stop, registry, hub, Mine, Careful
  <1>1. ASSUME NEW p \in Publishers, Start(p) PROVE LoneInv'
    BY <1>1 DEF Start
  <1>2. ASSUME NEW p \in Publishers, Preflight(p) PROVE LoneInv'
    <2>1. MayPush(p) => index = Nothing
      BY <1>2 DEF Preflight, VersionExists
    <2> QED
      BY <1>2, <2>1 DEF Preflight
  <1>3. ASSUME NEW p \in Publishers, Discover(p) \/ Clear(p) \/ SkipSigning(p)
        PROVE  LoneInv'
    BY <1>3 DEF Discover, Clear, SkipSigning
  <1>4. ASSUME NEW p \in Publishers, AlreadyTaken(p) \/ Deny(p) PROVE LoneInv'
    BY <1>4 DEF AlreadyTaken, Deny
  <1>5. ASSUME NEW p \in Publishers, Pack(p) PROVE LoneInv'
    BY <1>5 DEF Pack
  <1>6. ASSUME NEW p \in Publishers, Tag(p) PROVE LoneInv'
    BY <1>6, NothingYet DEF Tag
  <1>7. ASSUME NEW p \in Publishers, Sign(p) \/ Attest(p) PROVE LoneInv'
    <2>1. index = Nothing
      BY <1>7, NothingYet DEF Sign, Attest
    <2> QED
      BY <1>7, <2>1 DEF Sign, Attest
  <1>8. ASSUME NEW p \in Publishers, Sync(p) \/ SyncLost(p) PROVE LoneInv'
    <2>1. index = Nothing /\ tag = Mine(p) /\ MayPush(p) /\ HubIndexes
      BY <1>8, NothingYet DEF Sync, SyncLost
    <2>2. /\ index' = [digest |-> Mine(p), attached |-> referrers[Mine(p)]]
          /\ index'.digest = tag /\ pending' = pending
      BY <2>1, HubIndexesTag
    <2>3. UNCHANGED <<attempt, stored, tag, referrers>>
      BY <1>8 DEF Sync, SyncLost
    <2>4. /\ pc'[p] \in {"done", "idle"}
          /\ \A q \in Publishers \ {p} : pc'[q] = pc[q] /\ outcome'[q] = outcome[q]
      BY <1>8 DEF Sync, SyncLost
    <2>5. \A q \in Publishers \ {p} : ~MayPush(q)
      BY <2>1 DEF OnePusher
    <2>6. \A q \in Publishers \ {p} : outcome[q] # "published"
      BY <2>5
    <2>7. ~pending'
      BY <2>2, Zenon
    <2> QED
      BY <2>2, <2>3, <2>4, <2>5, <2>6, <2>7
  <1>9. ASSUME NEW p \in Publishers, SyncRefused(p) \/ Fail(p) PROVE LoneInv'
    BY <1>9 DEF SyncRefused, Fail
  <1>10. ASSUME NEW p \in Publishers, SyncAbandoned(p) PROVE LoneInv'
    BY <1>10 DEF SyncAbandoned
  <1>11. CASE SyncLate
    BY <1>11 DEF SyncLate
  <1>12. CASE Yank
    BY <1>12 DEF Yank
  <1>13. CASE UNCHANGED vars
    BY <1>13 DEF vars
  <1> HIDE DEF LoneInv, Goto, Stop, registry, hub, Mine
  <1> QED
    BY <1>1, <1>2, <1>3, <1>4, <1>5, <1>6, <1>7, <1>8, <1>9, <1>10, <1>11, <1>12,
       <1>13 DEF Next, Progress

LEMMA LoneInvIsInvariant ==
    ASSUME OnePusher, Careful
    PROVE  Spec => []LoneInv
  <1>1. ASSUME Init PROVE LoneInv
    <2>1. ~pending
      BY <1>1, Zenon DEF Init
    <2> QED
      BY <1>1, <2>1 DEF Init, LoneInv
  <1>2. Inv /\ OwnInv /\ LoneInv /\ [Next]_vars => LoneInv'
    BY LoneStep DEF Inv
  <1>3. Spec => []OwnInv
    BY OwnInvIsInvariant
  <1> QED
    BY <1>1, <1>2, <1>3, InvIsInvariant, PTL DEF Spec

\* Where one publisher may push and checks the version first, its bundle is
\* indexed, complete, when it reports success, however often it failed before.
THEOREM LoneSuccessIsIndexed ==
    ASSUME OnePusher, Careful
    PROVE  Spec => []SuccessMeansIndexed
  <1>1. LoneInv => SuccessMeansIndexed
    BY DEF LoneInv, SuccessMeansIndexed
  <1> QED
    BY <1>1, LoneInvIsInvariant, PTL

\* Such a publisher never moves the tag off the manifest that the hub has
\* indexed, not even when the answer to its sync is lost or the version is
\* withdrawn; and those who may not push move nothing.
THEOREM LoneTagNeverMoves ==
    ASSUME OnePusher, Careful
    PROVE  Spec => []IndexedTagNeverMoves
  <1>1. LoneInv => IndexedTagNeverMoves
    BY DEF LoneInv, IndexedTagNeverMoves
  <1> QED
    BY <1>1, LoneInvIsInvariant, PTL

-----------------------------------------------------------------------------
(* The publisher that may push is never refused for ever, and everything it *)
(* does keeps to Publication.                                               *)

LEMMA OwnInvWhenNeeded ==
    ASSUME SignatureRequired => OnePusher
    PROVE  Spec => [](SignatureRequired => OwnInv)
  <1>1. CASE SignatureRequired
    BY <1>1, OwnInvIsInvariant, PTL
  <1>2. CASE ~SignatureRequired
    <2>1. SignatureRequired => OwnInv
      BY <1>2
    <2> QED
      BY <2>1, PTL
  <1> QED
    BY <1>1, <1>2

\* A publisher that may push and signs is not done, nor at the end of its
\* attempts, before the coordinate is indexed: no step leads to where it is
\* refused for ever.
FinishedMeansIndexed ==
    \A p \in Signers \cap (Owners \ Bearerless) :
        pc[p] = "done" \/ (pc[p] = "idle" /\ attempt[p] = MaxAttempts)
        => index # Nothing

LEMMA FinishedStep ==
    TypeOK /\ AttachInv /\ (SignatureRequired => OwnInv) /\ FinishedMeansIndexed
      /\ [Next]_vars => FinishedMeansIndexed'
  <1> SUFFICES ASSUME TypeOK, AttachInv, SignatureRequired => OwnInv,
                      FinishedMeansIndexed, [Next]_vars
               PROVE  FinishedMeansIndexed'
    OBVIOUS
  <1>0. /\ pc \in [Publishers -> Steps]
        /\ attempt \in [Publishers -> 0..MaxAttempts]
        /\ MaxAttempts \in Nat /\ Owners \subseteq Publishers
    BY PublishAssumption DEF TypeOK
  <1> USE <1>0 DEF FinishedMeansIndexed, Goto, Stop, hub
  <1>1. ASSUME NEW p \in Publishers, Start(p) PROVE FinishedMeansIndexed'
    BY <1>1 DEF Start
  <1>2. ASSUME NEW p \in Publishers,
               \/ Preflight(p) \/ Discover(p) \/ Clear(p) \/ Pack(p) \/ Tag(p)
               \/ Sign(p) \/ SkipSigning(p) \/ Attest(p)
        PROVE  FinishedMeansIndexed'
    <2>1. /\ attempt' = attempt /\ index' = index
          /\ pc' \in [Publishers -> Steps] /\ pc'[p] \notin {"idle", "done"}
          /\ \A q \in Publishers \ {p} : pc'[q] = pc[q]
      BY <1>2 DEF Preflight, Discover, Clear, Pack, Tag, Sign, SkipSigning, Attest, Steps
    <2> QED
      BY <2>1
  <1>3. ASSUME NEW p \in Publishers, AlreadyTaken(p) PROVE FinishedMeansIndexed'
    <2>1. index # Nothing
      BY <1>3 DEF AlreadyTaken, VersionExists
    <2> QED
      BY <1>3, <2>1 DEF AlreadyTaken
  <1>4. ASSUME NEW p \in Publishers, Deny(p) PROVE FinishedMeansIndexed'
    BY <1>4 DEF Deny, GrantsPush
  <1>5. ASSUME NEW p \in Publishers, Sync(p) \/ SyncLost(p) PROVE FinishedMeansIndexed'
    <2>1. HubIndexes
      BY <1>5 DEF Sync, SyncLost
    <2> QED
      BY <2>1, HubIndexesTag
  <1>6. ASSUME NEW p \in Publishers, SyncRefused(p) PROVE FinishedMeansIndexed'
    <2>1. attempt' = attempt /\ index' = index /\ pc' = [pc EXCEPT ![p] = "idle"]
      BY <1>6 DEF SyncRefused
    <2>2. ASSUME p \in Signers \cap (Owners \ Bearerless) PROVE index # Nothing
      <3>1. SUFFICES ASSUME SignatureRequired PROVE "signature" \in referrers[tag]
        BY <1>6, <2>2 DEF SyncRefused
      <3>2. tag = Mine(p)
        BY <1>6, <3>1 DEF SyncRefused, OwnInv
      <3>3. referrers[Mine(p)] = Due(p)
        BY <1>6 DEF SyncRefused, AttachInv
      <3> QED
        BY <2>2, <3>2, <3>3 DEF Due, Wanted
    <2> QED
      BY <2>1, <2>2
  <1>7. ASSUME NEW p \in Publishers, SyncAbandoned(p) \/ Fail(p)
        PROVE  FinishedMeansIndexed'
    <2>1. /\ attempt' = attempt /\ index' = index /\ pc' = [pc EXCEPT ![p] = "idle"]
          /\ attempt[p] < MaxAttempts
      BY <1>7 DEF SyncAbandoned, Fail, MayFail
    <2> QED
      BY <2>1
  <1>8. CASE SyncLate
    BY <1>8, HubIndexesTag DEF SyncLate
  <1>9. CASE Yank
    BY <1>9 DEF Yank
  <1>10. CASE UNCHANGED vars
    BY <1>10 DEF vars
  <1> HIDE DEF FinishedMeansIndexed, Goto, Stop, hub
  <1> QED
    BY <1>1, <1>2, <1>3, <1>4, <1>5, <1>6, <1>7, <1>8, <1>9, <1>10 DEF Next, Progress

\* A publisher that may push, signs and is given a bearer is not turned away for
\* ever: when it is done, or out of attempts, the coordinate is indexed.  Any
\* number may push, unless the hub insists on signatures: then one, or the last
\* to push may leave the tag at a bundle nobody signed.
THEOREM PusherIsNeverStranded ==
    ASSUME SignatureRequired => OnePusher
    PROVE  Spec => []FinishedMeansIndexed
  <1>1. Init => FinishedMeansIndexed
    BY PublishAssumption DEF Init, FinishedMeansIndexed
  <1>2. Inv /\ (SignatureRequired => OwnInv) /\ FinishedMeansIndexed /\ [Next]_vars
          => FinishedMeansIndexed'
    BY FinishedStep DEF Inv
  <1>3. Spec => [](SignatureRequired => OwnInv)
    BY OwnInvWhenNeeded
  <1> QED
    BY <1>1, <1>2, <1>3, InvIsInvariant, PTL DEF Spec

LEMMA PublicationStep ==
    ASSUME OnePusher, Careful
    PROVE  Inv /\ OwnInv /\ LoneInv /\ [Next]_vars => [Promise!Next]_(Promise!vars)
  <1> SUFFICES ASSUME Inv, OwnInv, LoneInv, [Next]_vars
               PROVE  [Promise!Next]_(Promise!vars)
    OBVIOUS
  <1>0. /\ outcome \in [Publishers -> {"none", "taken", "denied", "failed", "published"}]
        /\ TypeOK /\ GrantInv /\ AttachInv
    BY DEF Inv, TypeOK
  <1>a. ASSUME NEW p \in Publishers, pc[p] # "done" PROVE outcome[p] # "published"
    BY <1>0, <1>a DEF AttachInv
  <1> USE DEF Goto, Stop, registry, hub
  <1>1. ASSUME NEW p \in Publishers, NEW result \in {"none", "failed", "denied", "taken"},
               pc[p] # "done", result = "taken" => index # Nothing,
               outcome' = [outcome EXCEPT ![p] = result], UNCHANGED <<index, tag>>
        PROVE  Promise!Next
    <2>1. Promise!Tell(p)
      BY <1>1, <1>a DEF Promise!Tell
    <2> QED
      BY <2>1 DEF Promise!Next
  <1>2. ASSUME NEW p \in Publishers, Start(p) PROVE Promise!Next
    BY <1>1, <1>2 DEF Start
  <1>3. ASSUME NEW p \in Publishers, AlreadyTaken(p) PROVE Promise!Next
    <2>1. index # Nothing
      BY <1>3 DEF AlreadyTaken, VersionExists
    <2> QED
      BY <1>1, <1>3, <2>1 DEF AlreadyTaken
  <1>4. ASSUME NEW p \in Publishers, Deny(p) PROVE Promise!Next
    BY <1>1, <1>4 DEF Deny
  <1>5. ASSUME NEW p \in Publishers, SyncRefused(p) \/ Fail(p) PROVE Promise!Next
    BY <1>1, <1>5 DEF SyncRefused, Fail
  <1>6. ASSUME NEW p \in Publishers,
               \/ Preflight(p) \/ Discover(p) \/ Clear(p) \/ Pack(p)
               \/ Sign(p) \/ SkipSigning(p) \/ Attest(p)
        PROVE  UNCHANGED Promise!vars
    BY <1>6 DEF Preflight, Discover, Clear, Pack, Sign, SkipSigning, Attest, Promise!vars
  <1>7. ASSUME NEW p \in Publishers, Tag(p) PROVE Promise!Next
    <2>1. index = Nothing
      BY <1>0, <1>7, NothingYet DEF Tag
    <2>2. tag' \in {p} \X (1..MaxAttempts)
      BY <1>0, <1>7, MineType DEF Tag, Mine
    <2>3. Promise!Serve(p)
      BY <1>7, <2>1, <2>2 DEF Tag, Promise!Serve
    <2> QED
      BY <2>3 DEF Promise!Next
  <1>8. ASSUME NEW p \in Publishers, Sync(p) \/ SyncLost(p) PROVE Promise!Next
    <2>1. /\ index = Nothing /\ tag = Mine(p) /\ HubIndexes
          /\ referrers[Mine(p)] = Due(p)
      BY <1>0, <1>8, NothingYet DEF Sync, SyncLost, OwnInv, AttachInv
    <2>2. tag \in {p} \X (1..MaxAttempts)
      BY <1>0, <1>8, <2>1, MineType DEF Sync, SyncLost, Mine
    <2>3. index' = [digest |-> tag, attached |-> Due(p)]
      BY <2>1, HubIndexesTag
    <2>4. /\ tag' = tag
          /\ \E result \in {"published", "failed"} :
                outcome' = [outcome EXCEPT ![p] = result]
      BY <1>8 DEF Sync, SyncLost
    <2>5. Promise!Enter(p)
      BY <2>1, <2>2, <2>3, <2>4 DEF Promise!Enter, Due
    <2> QED
      BY <2>5 DEF Promise!Next
  <1>9. ASSUME NEW p \in Publishers, SyncAbandoned(p) PROVE FALSE
    BY <1>9 DEF SyncAbandoned, Careful
  <1>10. CASE SyncLate
    BY <1>10 DEF SyncLate, LoneInv
  <1>11. CASE Yank
    BY <1>11 DEF Yank, Promise!vars
  <1>12. CASE UNCHANGED vars
    BY <1>12 DEF vars, Promise!vars
  <1> HIDE DEF Goto, Stop, registry, hub
  <1> QED
    BY <1>2, <1>3, <1>4, <1>5, <1>6, <1>7, <1>8, <1>9, <1>10, <1>11, <1>12
    DEF Next, Progress

\* Where one publisher may push and checks the version first, bundle.Publish
\* keeps to Publication: one bundle is taken in, whole and in one step, it stays
\* the one that is served, and success is told only to whoever it belongs to.
THEOREM LoneImplementsPublication ==
    ASSUME OnePusher, Careful
    PROVE  Spec => IsPublication
  <1>1. Init => Promise!Init
    BY DEF Init, Promise!Init
  <1>2. Spec => []OwnInv
    BY OwnInvIsInvariant
  <1>3. Spec => []LoneInv
    BY LoneInvIsInvariant
  <1>4. Inv /\ OwnInv /\ LoneInv /\ [Next]_vars => [Promise!Next]_(Promise!vars)
    BY PublicationStep
  <1> QED
    BY <1>1, <1>2, <1>3, <1>4, InvIsInvariant, PTL DEF Spec, IsPublication, Promise!Spec

=============================================================================
