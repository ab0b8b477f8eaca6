------------------------------- MODULE Publish -------------------------------
(***************************************************************************)
(* bundle.Publish (src/bundle/publish.go): publishers, on different        *)
(* machines and with no lock, put a bundle for the same coordinate (one    *)
(* repository and tag) in the registry and have the hub index it.  Each    *)
(* step is one exchange with the hub, the registry or Sigstore, and any of *)
(* them may fail.  Nothing is undone: what was pushed stays, and whoever   *)
(* called Publish may call it again with a newly built bundle.             *)
(*                                                                         *)
(* The registry and the hub are external: the registry takes what it is    *)
(* sent and moves a tag at will, the hub indexes a coordinate once, may    *)
(* withdraw what it indexed, and may act on a sync request after the one   *)
(* who sent it has given up waiting.                                       *)
(***************************************************************************)
EXTENDS Naturals

CONSTANTS
    Publishers,
    Owners,             \* whose bearer owns the repository's namespace
    Manual,             \* who set Target.RegistryToken
    Bearerless,         \* whose Target.Bearer is empty
    Signers,            \* who passed a signer
    Attesters,          \* who set Input.Provenance
    Checkers,           \* who called VersionExists first
    SignatureRequired,  \* the hub's backstop: it indexes only signed bundles
    LateHub,            \* the hub may act on a request nobody waits for
    MaxAttempts         \* bound on the calls of Publish by one publisher

ASSUME PublishAssumption ==
    /\ \A S \in {Owners, Manual, Bearerless, Signers, Attesters, Checkers} :
          S \subseteq Publishers
    /\ SignatureRequired \in BOOLEAN /\ LateHub \in BOOLEAN
    /\ MaxAttempts \in Nat \ {0}

VARIABLES
    pc, attempt, outcome,
    stored,     \* registry: manifests and their blobs
    tag,        \* registry: the manifest the tag names
    referrers,  \* registry: what is attached to each manifest
    index,      \* hub: what it indexed at the coordinate
    yanked,     \* hub: whether that has been withdrawn since
    pending     \* hub: whether it still has a sync whose sender has given up

registry == <<stored, tag, referrers>>
hub == <<index, yanked, pending>>
vars == <<pc, attempt, outcome, registry, hub>>

\* Every attempt packs a manifest of its own.
Digests == Publishers \X (1..MaxAttempts)

Nothing == <<>>

Kinds == {"signature", "provenance"}

Steps == {"idle", "starting", "checked", "discovered", "cleared", "packed",
          "tagged", "signed", "attached", "done"}

Mine(p) == <<p, attempt[p]>>

TypeOK ==
    /\ pc \in [Publishers -> Steps]
    /\ attempt \in [Publishers -> 0..MaxAttempts]
    /\ \A p \in Publishers : pc[p] # "idle" => attempt[p] > 0
    /\ outcome \in [Publishers -> {"none", "taken", "denied", "failed", "published"}]
    /\ stored \subseteq Digests
    /\ tag \in stored \cup {Nothing}
    /\ referrers \in [Digests -> SUBSET Kinds]
    /\ index = Nothing \/ index \in [digest : stored, attached : SUBSET Kinds]
    /\ yanked \in BOOLEAN /\ pending \in BOOLEAN

Init ==
    /\ pc = [p \in Publishers |-> "idle"]
    /\ attempt = [p \in Publishers |-> 0]
    /\ outcome = [p \in Publishers |-> "none"]
    /\ stored = {}
    /\ tag = Nothing
    /\ referrers = [d \in Digests |-> {}]
    /\ index = Nothing
    /\ yanked = FALSE
    /\ pending = FALSE

-----------------------------------------------------------------------------

Goto(p, from, to) ==
    /\ pc[p] = from
    /\ pc' = [pc EXCEPT ![p] = to]

Stop(p, from, result) ==
    /\ Goto(p, from, "done")
    /\ outcome' = [outcome EXCEPT ![p] = result]

Start(p) ==
    /\ attempt[p] < MaxAttempts
    /\ Goto(p, "idle", "starting")
    /\ attempt' = [attempt EXCEPT ![p] = @ + 1]
    /\ outcome' = [outcome EXCEPT ![p] = "none"]
    /\ UNCHANGED <<registry, hub>>

\* Not the code's: a version that was withdrawn counts as absent.
VersionForgotten == IF index = Nothing \/ yanked THEN "absent" ELSE "present"

\* VersionExists: 404, 410 or 200.
VersionExists ==
    IF index = Nothing THEN "absent" ELSE IF yanked THEN "tombstoned" ELSE "present"

\* VersionExists answers VersionAbsent, or the caller does not ask.
Preflight(p) ==
    /\ p \in Checkers => VersionExists = "absent"
    /\ Goto(p, "starting", "checked")
    /\ UNCHANGED <<attempt, outcome, registry, hub>>

\* VersionPresent or VersionTombstoned: the coordinate is taken, the caller halts.
AlreadyTaken(p) ==
    /\ p \in Checkers /\ VersionExists # "absent"
    /\ Stop(p, "starting", "taken")
    /\ UNCHANGED <<attempt, registry, hub>>

\* hub.Discover and hub.Registry: where the registry is.
Discover(p) ==
    /\ Goto(p, "checked", "discovered")
    /\ UNCHANGED <<attempt, outcome, registry, hub>>

\* The hub (external) answers a bearer that does not own the namespace, or no
\* bearer, with a pull-only token.
GrantsPush(p) == p \in Owners \ Bearerless

\* Not the code's: the granted actions are not looked at.
ClearAnyone(p) ==
    /\ Goto(p, "discovered", "cleared")
    /\ UNCHANGED <<attempt, outcome, registry, hub>>

\* Not the code's: the tag is written before the manifest.
ClearToTag(p) ==
    /\ p \in Manual \/ GrantsPush(p)
    /\ Goto(p, "discovered", "packed")
    /\ UNCHANGED <<attempt, outcome, registry, hub>>

\* A registry token is at hand: the caller's, or one minted with push.
Clear(p) ==
    /\ p \in Manual \/ GrantsPush(p)
    /\ Goto(p, "discovered", "cleared")
    /\ UNCHANGED <<attempt, outcome, registry, hub>>

\* ErrPushDenied.
Deny(p) ==
    /\ p \notin Manual /\ ~GrantsPush(p)
    /\ Stop(p, "discovered", "denied")
    /\ UNCHANGED <<attempt, registry, hub>>

\* pack: the blobs and the manifest that names them.
Pack(p) ==
    /\ Goto(p, "cleared", "packed")
    /\ stored' = stored \cup {Mine(p)}
    /\ UNCHANGED <<attempt, outcome, tag, referrers, hub>>

\* pack: target.Tag, over whatever the tag named before.
Tag(p) ==
    /\ Goto(p, "packed", "tagged")
    /\ tag' = Mine(p)
    /\ UNCHANGED <<attempt, outcome, stored, referrers, hub>>

Attach(p, kind) == referrers' = [referrers EXCEPT ![Mine(p)] = @ \cup {kind}]

\* Not the code's: the predicate is forgotten.
SignOnly(p) ==
    /\ p \in Signers
    /\ Goto(p, "tagged", "attached")
    /\ Attach(p, "signature")
    /\ UNCHANGED <<attempt, outcome, stored, tag, hub>>

\* Not the code's: the signature is stamped as provenance.
SignMistyped(p) ==
    /\ p \in Signers
    /\ Goto(p, "tagged", IF p \in Attesters THEN "signed" ELSE "attached")
    /\ Attach(p, "provenance")
    /\ UNCHANGED <<attempt, outcome, stored, tag, hub>>

\* SignAndAttach: the signature.
Sign(p) ==
    /\ p \in Signers
    /\ Goto(p, "tagged", IF p \in Attesters THEN "signed" ELSE "attached")
    /\ Attach(p, "signature")
    /\ UNCHANGED <<attempt, outcome, stored, tag, hub>>

\* SignAndAttach without a signer: no provenance is attached either.
SkipSigning(p) ==
    /\ p \notin Signers
    /\ Goto(p, "tagged", "attached")
    /\ UNCHANGED <<attempt, outcome, registry, hub>>

\* SignAndAttach: the provenance.
Attest(p) ==
    /\ Goto(p, "signed", "attached")
    /\ Attach(p, "provenance")
    /\ UNCHANGED <<attempt, outcome, stored, tag, hub>>

\* What the hub (external) does with POST /v1/bundles/sync: it resolves the
\* tag itself, and indexes what it finds unless the coordinate is taken.
HubIndexes ==
    IF index = Nothing
    THEN /\ SignatureRequired => "signature" \in referrers[tag]
         /\ index' = [digest |-> tag, attached |-> referrers[tag]]
         /\ UNCHANGED <<yanked, pending>>
    ELSE index.digest = tag /\ ~yanked /\ UNCHANGED hub

\* Not the code's: the status of the hub's answer is not looked at.
SyncUnchecked(p) ==
    /\ Stop(p, "attached", "published")
    /\ p \notin Bearerless
    /\ HubIndexes \/ UNCHANGED hub
    /\ UNCHANGED <<attempt, registry>>

Sync(p) ==
    /\ Stop(p, "attached", "published")
    /\ p \notin Bearerless
    /\ HubIndexes
    /\ UNCHANGED <<attempt, registry>>

\* Every attempt but the last may meet trouble.
MayFail(p) == attempt[p] < MaxAttempts

\* The hub indexes, but its answer is lost or is not one.
SyncLost(p) ==
    /\ MayFail(p)
    /\ Goto(p, "attached", "idle")
    /\ p \notin Bearerless
    /\ HubIndexes
    /\ outcome' = [outcome EXCEPT ![p] = "failed"]
    /\ UNCHANGED <<attempt, registry>>

\* The publisher gives up before the hub has acted on the request.
SyncAbandoned(p) ==
    /\ LateHub /\ MayFail(p)
    /\ Goto(p, "attached", "idle")
    /\ p \notin Bearerless
    /\ outcome' = [outcome EXCEPT ![p] = "failed"]
    /\ pending' = TRUE
    /\ UNCHANGED <<attempt, registry, index, yanked>>

\* The hub acts on an abandoned request: on the tag as it is by now.
SyncLate ==
    /\ pending /\ index = Nothing
    /\ HubIndexes
    /\ UNCHANGED <<pc, attempt, outcome, registry>>

\* The hub withdraws the version (external).
Yank ==
    /\ index # Nothing /\ ~yanked
    /\ yanked' = TRUE
    /\ UNCHANGED <<pc, attempt, outcome, registry, index, pending>>

\* ErrNoBearer, or the hub refuses: unsigned, or the coordinate is taken.
SyncRefused(p) ==
    /\ Goto(p, "attached", "idle")
    /\ \/ p \in Bearerless
       \/ index = Nothing /\ SignatureRequired /\ "signature" \notin referrers[tag]
       \/ index # Nothing
    /\ outcome' = [outcome EXCEPT ![p] = "failed"]
    /\ UNCHANGED <<attempt, registry, hub>>

\* Any exchange fails, a token has expired, the context is cancelled, or the
\* process dies.
Fail(p) ==
    /\ MayFail(p)
    /\ pc[p] \notin {"idle", "done"}
    /\ pc' = [pc EXCEPT ![p] = "idle"]
    /\ outcome' = [outcome EXCEPT ![p] = "failed"]
    /\ UNCHANGED <<attempt, registry, hub>>

Progress(p) ==
    \/ Start(p) \/ Preflight(p) \/ AlreadyTaken(p) \/ Discover(p)
    \/ Clear(p) \/ Deny(p) \/ Pack(p) \/ Tag(p)
    \/ Sign(p) \/ SkipSigning(p) \/ Attest(p)
    \/ Sync(p) \/ SyncRefused(p)

Next ==
    \/ \E p \in Publishers :
          Progress(p) \/ SyncLost(p) \/ SyncAbandoned(p) \/ Fail(p)
    \/ SyncLate \/ Yank

Spec == Init /\ [][Next]_vars

\* Every request has a timeout, so a publisher never waits for ever, and its
\* caller tries again after a failure.
FairSpec == Spec /\ \A p \in Publishers : WF_vars(Progress(p))

-----------------------------------------------------------------------------

\* Only a publisher with a push grant, or a registry token of its own, leaves
\* anything in the registry; a denied one leaves no orphaned bytes.
NoBytesWithoutGrant == \A d \in stored : d[1] \in Manual \/ GrantsPush(d[1])

\* What publisher p was asked to attach.
Wanted(p) == {"signature"} \cup (IF p \in Attesters THEN {"provenance"} ELSE {})

\* A publisher that reports success has attached the signature, and the
\* provenance it was given, to the bundle it pushed.
SuccessMeansAttached ==
    \A p \in Signers : outcome[p] = "published" => referrers[Mine(p)] = Wanted(p)

\* A publisher that reports success has its own bundle indexed, complete.
SuccessMeansIndexed ==
    \A p \in Publishers :
        outcome[p] = "published" =>
            index = [digest |-> Mine(p), attached |-> referrers[Mine(p)]]

\* Once a coordinate is indexed, the registry keeps serving the indexed bytes
\* under its tag.
IndexedTagNeverMoves == index # Nothing => tag = index.digest

\* When one publisher may push, what the hub takes in, what the registry serves
\* and what publishers are told keep to module Publication.
Promise ==
    INSTANCE Publication WITH
        BundlesOf <- [p \in Publishers |-> {p} \X (1..MaxAttempts)],
        AttachedTo <- [p \in Publishers |-> IF p \in Signers THEN Wanted(p) ELSE {}],
        entry <- index, served <- tag, told <- outcome

IsPublication == Promise!Spec

\* A publisher that may push, signs and retries gets its version indexed.
EventuallyIndexed ==
    (\E p \in Signers : p \in Owners \ Bearerless) => <>(index # Nothing)
=============================================================================
