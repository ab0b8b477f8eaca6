# Verification of grc-store-clientkit

`grc-store-clientkit` is the Go library that the tools of a GRC (governance,
risk, compliance) hub share: it logs a user in, keeps the login in a file,
renews it, finds the hub's registry, packs and pushes a bundle, signs it,
attaches its provenance and has the hub index it. These TLA+ modules model the
parts of it that have state or a protocol; TLC checks them on small instances
and TLAPS proves the main results for any instance.

- [The system](#the-system)
- [The modules](#the-modules)
- [What TLC checks](#what-tlc-checks)
- [Where code and words differ](#where-code-and-words-differ)
- [Fairness](#fairness)
- [What TLAPS proves](#what-tlaps-proves)
- [What is not modelled](#what-is-not-modelled)
- [Plan](#plan)

## The system

| component | state it keeps | operations | hard behaviour | correct when |
| --- | --- | --- | --- | --- |
| `auth/store.go`, the credential store | one JSON file per tool, shared by all its processes, no lock | `Get`, `Put`, `Delete`; `save` = temporary file, write, close, rename | overlapping read-edit-rename; crash or error inside `save`; files it cannot read; spellings of one issuer | never half-written; replaced only by an edited copy of what was there; an unreadable file is left alone |
| `auth/store.go`, `auth/oidc.go`, token lifetime | `ExpiresAt` of a record | `ExpiredAt`, `credsFromTokenResponse` | server and client count from different moments; lifetimes around the window and the floor | a token handed out has life left; no refresh loop |
| `auth/oidc.go`, device login | interval and deadline of one loop | `StartDeviceFlow`, `PollForToken` | `slow_down`, absent `interval` or `expires_in`, late answers, a server that says *pending* for ever | polls keep the server's distance; the loop ends; an approval in time is seen |
| `auth/resolve.go`, `Resolve` and `RefreshToken` | none of its own; the file and the server's sessions | take the stored token, refresh it, save the pair | rotation of refresh tokens, failing saves, two processes, a realm with a new name | no session lost without a word; no needless login or refresh |
| `hub/discover.go` | a cache for the process's lifetime | `Discover`, `Registry`, `CIBearer` | goroutines that miss together; a hub that is misconfigured for a while; a job whose OIDC is broken | one usable document per hub; in a job no personal credential |
| `hub/hub.go` | none | `VersionExists`, `RegistryToken`, `SyncBundle`, `SyncPlugin` | a preflight that is stale by the time of the push; answers that are lost, requests acted on after the client gave up; versions withdrawn | see Publish; the bearer goes to its hub only |
| `bundle/publish.go`, `bundle/bundle.go` | none; the registry's manifests, tag and referrers, the hub's index | `Publish`: discover, token, push, tag, sign, attest, sync; `credentialFunc` | any step may fail and none is undone; two publishers at one coordinate; retries; a registry that redirects | success means signed, attached and indexed; the indexed bytes stay under their tag; the registry token goes to the registry only |
| `auth/gha.go`, `keyless/identity.go`, `keyless/sign.go` | none; the environment | `InGitHubActions`, `FetchGitHubActionsToken`, `Identity`, `Signer.Sign` | one runner mints for two audiences; a token in the environment was minted for another | each token goes to the audience it was minted for |
| `provenance/`, `trustroot/`, `auth/app.go` | none | layout of a document, an embedded file, names | none | not modelled |

How they interact: `Resolve` reads and writes the store and calls the auth
server through the injected `Fetcher` and `Refresher`. A tool passes the bearer
that `Resolve` (or `CIBearer`) yields to `Publish`, which calls `Discover` and
`Registry` to find the registry, `hub.Client` for a registry token, the
registry for push, tag and referrers, the `keyless.Signer` for Sigstore, and
`hub.Client` again to sync. Nothing is called back, nothing holds a lock; what
is shared is the credential file (between processes), the discovery cache
(between goroutines and between the steps of one command), the server's
sessions, the registry and the hub's index (between machines).

`PROJECT.json` lists, under `hazards`, what in this code is hard to test, each
at its line, with the properties that watch it, or why none does.

## The modules

| module | models | uses |
| --- | --- | --- |
| `SnapshotStore` | *abstract*: a file that any number of clients replace, in one step, by an edited snapshot of it | |
| `CredentialMap` | *abstract*: a map of logins in which every call is atomic | |
| `Publication` | *abstract*: a hub that takes one bundle in, whole and in one step, and goes on serving it, where one publisher may push | |
| `IssuerSpelling` | `canonicalIssuer`, on sequences of space, slash and other | |
| `CredentialStore` | `Store.Get`, `Put`, `Delete` and every system call of `save` | implements `SnapshotStore` and `CredentialMap` |
| `TokenLifetime` | `ExpiredAt` and the lifetime floor, against the server's clock | |
| `DeviceFlow` | `StartDeviceFlow` and `PollForToken`, timed | |
| `TokenResolve` | the stored-credential path of `Resolve`, `RefreshToken`, login and logout | its file is an instance of `SnapshotStore` |
| `Discovery` | `Discover` and `discoveryCache` | |
| `CommandCredentials` | a publishing command: `Discover`, `CIBearer` or `Resolve`, `Identity`, `RegistryToken`, `credentialFunc`, `Sign`, `SyncBundle`, `SyncPlugin`, by the credentials they show | extends and implements `Discovery` |
| `Publish` | `Publish`, `SignAndAttach`, `VersionExists`, with registry and hub | implements `Publication` |
| `*_proofs` | theorems and proofs about the module named (`IssuerSpelling_proofs`: and about the store, with that function as its key) | |
| `MC_CredentialStore`, `MC_TokenResolve` | constants for TLC that a `.cfg` cannot write | |

Composition is by abstraction. `CredentialStore` has each system call of `save`
as a step; it is *proved* to implement `SnapshotStore`, in which the whole of
`save` is two steps (take a snapshot, replace). `TokenResolve` then builds on
`SnapshotStore` instead of on the file, and so can afford several processes,
issuers and a server with sessions. `TokenLifetime` says when a token counts as
spent; `TokenResolve` has that as a step `Age` that may come at any time.
`CommandCredentials` composes the other way: it takes `Discovery`'s actions as
they are, interleaves them with the steps of one command after the other, and
is proved to implement `Discovery!Spec`, whose theorems it thereby inherits.

**CredentialStore.** `disk` is the file at `Store.Path`: absent, readable with
its logins, or unreadable (`corrupt`: not JSON, `future`: a version the tool
does not know, `torn`: a prefix). `pc[p]` is where process `p` is inside `Put`
or `Delete`: `Load` (the shared read, with `load`'s refusals), `CreateTemp`
(`MkdirAll`, `CreateTemp`, `Chmod`), `BeginWrite`, `EndWrite` (`Write`,
`Close`), `Rename`. `Fail` is an error of any of them with the deferred
`os.Remove`; `Crash` is the death of the process, after which only a file with
a random name is left. `StartOver` is the user following the advice of
`load`'s error, `Migrate` a later release of the tool. `Delete` is the storing
of `NoToken`.

**TokenResolve.** A record is the pair of the numbers of its access token and
its refresh token, 0 meaning none. `Resolve` is one step up to the point where
the network is needed (the read of the file is atomic), then `FetchMetadata`,
`Refresh` or one of its failures, and `Load`/`Save`, the two steps of
`SnapshotStore`. `job[p].target` is `meta.Issuer`, which is where the code
files the new record, as opposed to `job[p].issuer`, under which it looks. The
server may rotate a refresh token (`"rotate"`), repeat it (`"reuse"`), or leave
it valid and out of its answer (`"omit"`). `excused` collects the issuers whose
user was warned, got an error, or had a process die, since their record was
last written: the properties let these off. A `Resolve` whose caller leaves
`Warn` nil says nothing when a save fails (resolve.go:191); the model is of a
caller that sets it.

**DeviceFlow.** `Start` is the answer to the device authorization request and
the beginning of the loop, with the defaults for an absent `interval` and
`expires_in`; `Poll` the timer of the `select`, `Receive` the `switch` on the
answer, `Again` the loop's test of the deadline. The server keeps a clock of
its own on the code (`expiry`, counted from when it was issued, up to the HTTP
timeout earlier) and an interval of its own (`demanded`). A server that omits
`expires_in` is taken to honour the code no longer than the default. Timers are
punctual: a machine that sleeps through one is left out.

**Publish.** Coordinates do not interact, so there is one: one tag, one entry
of the index. A manifest is named by its publisher and attempt, that is, every
attempt packs bytes of its own, as a rebuilt bundle with a new time does. The
options of a caller are sets: `Manual` (a registry token is given), `Bearerless`,
`Signers`, `Attesters`, `Checkers` (those who call `VersionExists` first, as the
tools do; `Publish` itself does not). A step is one exchange, except that `Pack`
is the push of all blobs and the manifest, and `Attach` that of one referrer.
`Fail` may come at every step of every attempt but the last and undoes nothing.
The hub and the registry are external: the hub resolves the tag itself and
indexes a coordinate once, the registry moves tags at will. The hub may withdraw
a version (`Yank`), after which `VersionExists` answers *tombstoned* and the
coordinate stays taken. A sync can fail in three ways: the hub acts and its
answer is lost (`SyncLost`), it refuses (`SyncRefused`), or the publisher gives
up before the hub has acted (`SyncAbandoned`); in the last case, if `LateHub`,
the hub acts later (`SyncLate`), on the tag as it is by then.

**Discovery.** A call is a hit, or a miss, a fetch and a store, so that
goroutines and changes of the hub's document come in between.

**CommandCredentials.** A credential is a record of where it came from (a flag of
the caller, a variable, a stored login, the workflow, the browser, the hub, the
Docker configuration) and of the parties it is good for: hubs, registries, the
storage a registry redirects to, Sigstore. `held` is what the command has
obtained for each of its three purposes (bearer, signing identity, registry
token), `sent` who has been shown what, and `actions` whether the command runs
outside a GitHub Actions job, in one, or in one whose OIDC variables hold only
white space, which `InGitHubActions` takes for set and
`FetchGitHubActionsToken` refuses. Each step that needs a credential (`Resolve`,
`CIBearer`, `Identity`, `RegistryToken`) offers those that the code's order of
precedence allows; each step that talks to somebody (`RegistryToken`, `Push`,
`Sign`, `Sync`) adds to `sent`. What a variable was minted for is any set of
audiences. A flag, or a token variable of the tool, is taken to be what its user
meant it for: the library has no way to tell. The claim of a registry token is a
list of up to two entries, for this repository or another. `Abort` ends the
command at any step. The same process then runs another, for the same hub or
the other, with the cache as it is.

The definitions that begin with a comment *Not the code's* take no part in the
specifications. Each is the form that a definition would have with a plausible
bug in it, kept next to the right one; under `mutants` in `PROJECT.json` is
which property TLC finds violated when it is put in its place. No property of
a passing run is kept without one.

## What TLC checks

| run | instance | shows |
| --- | --- | --- |
| `store_shared` | 2 processes, user, newer release | The file is never torn, and is only ever replaced by an edited snapshot (`IsSnapshotStore`), whatever interleaves, fails or crashes. |
| `store_alone` | 1 process, user | A lone process sees an atomic map (`IsCredentialMap`): an error means nothing changed. A file it could not read is never replaced by a `Put` or `Delete`. A login saved under one spelling of an issuer is found under all 12 of them (padding, up to two slashes at the end). |
| `store_lost_update` | 2 processes | *violated*, see below |
| `token_lifetime` | window 6, grace 3, HTTP timeout 1 | A token that counts as fresh has the window left at the server, less the answer's delay and the floor's addition; it is not refreshed within the grace period. |
| `device_flow` | interval 2, expiry 9, `slow_down` 2, timeout 1 | Polls are paced, the loop is bounded and ends, an approval in time is never answered with expiry. |
| `resolve_alone` | 1 process, 2 issuers, rotate and reuse, a realm that may take the other's name | At an issuer whose document names it, a consumed refresh token is never left on file without a word (`NamedSessionSurvives`). At one that no renaming touches (`Settled`), login is asked for only when needed, and what one command refreshed the next one finds. |
| `resolve_shared` | 2 processes, 1 issuer, rotate | A race for one refresh token leaves a live one on file, or a reported failure. |
| `resolve_omitted` | 1 process, omit | *violated*, see below |
| `command` | 1 goroutine, 2 hubs, 2 versions, any number of commands; outside, in a job, in a broken job | One document per hub under all the spellings of its URL, in both looks of a command and in later commands, always one that names a registry (`OneDocumentPerHub`, `EveryDocumentHasRegistry`). Every credential is shown only to a party it is good for (`NothingAstray`), and a job never shows a person's (`NothingPersonalInCI`). |
| `publish_alone` | 1 owner with everything, 1 publisher without rights, 3 attempts each | Success means that its own bundle is indexed, complete; the indexed bytes stay under the tag even when the answer to the sync is lost or the version withdrawn, and the publish repeated; all of it keeps to `Publication` (`IsPublication`). The version gets indexed (`EventuallyIndexed`). |
| `publish_many` | owner, manual token without bearer, no rights; 2 attempts each; late hub | Whoever is denied leaves no bytes; success is reported only with every attachment in place. |
| `publish_race` | 1 owner that checks first, late hub | *violated*, see below |

Why the bounds are enough. Two processes suffice for the store: an update is
lost between one reader and one writer, and a third adds nothing that the
snapshot of either could tell apart; two issuers are what a lost update at
another issuer needs. Three tokens (`MaxTokens`)
are a login, a refresh and a refresh of the refreshed one, or two logins and a
refresh. The times of `TokenLifetime` and `DeviceFlow` keep the order of the
real ones (60, 30, 10 s; 5, 1800, 5, 10 s) and include the values on either side
of every comparison: `expires_in` absent, below the floor, at it and above it;
an interval absent, below and above the default; a code that outlives the
default and one that ends within two polls. `MaxTime` = 24 never stops a login
of `DeviceFlow`; `MaxTime` = 26 in `TokenLifetime` is a token's life and most of
its successor's. `MaxAttempts` bounds the retries: the second attempt meets
what the first left behind and the third what a lost answer of the second did.
`MaxVersion` = 1 gives each hub two documents, either of which may lack the
registry: a hub that mends its document, one that breaks it, one that changes
it. Two hubs are what it takes to show one's credential to the other.

Deadlock is checked for the store, which can always be called again, and for the
command, after which another one can be run. The other systems end: a login is
over, the server's tokens or a publisher's attempts are used up.

## Where code and words differ

Three runs are expected to fail; each shows a disagreement between the code and
what a test or a comment says of it.

- `store_lost_update`: two processes load the file, one saves a login, the other
  then renames its own edited copy over it, and a login or logout at an issuer
  that the second one never named is undone. *Deleting one issuer must not touch
  the other* (store_test.go:101-102) holds for a lone process only.
- `resolve_omitted`: a server that leaves a refresh token valid need not repeat
  it in its answer. `credsFromTokenResponse` then records none, and when the
  access token is spent the user must log in although the session is alive.
- `publish_race`: an owner's sync times out, it tries again, `VersionExists` tells
  it that the version is free, and it pushes. Now the hub acts on the first
  request and indexes what the tag names, the first manifest; the owner's tag is
  next, and moves off it. *It halts a publish BEFORE the registry write clobbers
  existing bytes* (hub.go:120-121) is true where one publisher may push, at a hub
  that drops what nobody waits for, which is what `LoneTagNeverMoves` proves.

The same modules show the limits of the properties that hold, when TLC is given
larger constants, or a property without its exemption:

- With `"newer tool"` in `Outsiders`, `UnreadableNeverReplaced` fails: a release
  that migrates the file between a `Put`'s load and its rename finds it replaced
  by an old one.
- With two processes *and* two issuers under rotation, `SessionSurvives` fails
  with no error or warning anywhere: a save for one issuer writes back the
  consumed refresh token of the other. It is the lost update again.
- When a realm is renamed a second time, `NamedSessionSurvives` fails for a lone
  process too. A refresh files its pair under the name of the day and leaves the
  record under the earlier name as it was: if the first name comes back into use,
  that record holds a consumed refresh token; and with a third name it is the
  record under the second that does, once a token that was repeated is rotated.
- With `SessionSurvives` in place of `NamedSessionSurvives`, `resolve_alone` fails.
  The user logs in at an issuer, its document comes to name another one, and a
  `Resolve` refreshes. `FetchOIDCMetadata` takes the name in the document, whatever
  URL it was asked for, and the pair is saved under it (oidc.go:283,
  resolve.go:191). A consumed refresh token stays where the next command looks;
  nobody is warned, and that command is rejected. This goes against a test's
  words: *the refreshed pair must be persisted, or every subsequent command
  refreshes again — and under refresh-token rotation the second attempt fails*
  (resolve_test.go:152-154). At a server that repeats the refresh token, every
  command does refresh again. `LoginOnlyWhenNeeded` and `NoNeedlessRefresh` say
  nothing of such an issuer either (`Settled`).
- A login that the user had under the other name is overwritten by that pair, and
  what it held is gone without a word, though it was never consumed: no property
  says anything of it.
- With two owners `IndexedTagNeverMoves` fails without a late hub too: both are
  told that the version is free, and the second moves the tag off the bundle of
  the first once that is indexed.
- With `LateHub`, `SuccessMeansIndexed` fails for a lone publisher: the hub may act
  on the abandoned request when the retry has attached its signature and not yet
  its provenance, and the entry then lacks what the publisher reports.
- With two owners, `SuccessMeansIndexed` fails: `Publish` syncs the tag, not the
  manifest it pushed, and does not compare the two, so it may report success
  when the hub has indexed the other owner's bundle.
- With two goroutines that both miss the cache, `OneDocumentPerHub` fails: the
  second `Store` replaces the first's document.
- A token whose `expires_in` is below the floor (90 s) may be handed out when the
  server has stopped honouring it. The floor is deliberate (oidc.go:307-312);
  `UsableTokenHasMargin` says by how much it may be off.
- `PollForToken` tests the deadline before the wait, not after it, so it may go
  on for one interval and one exchange beyond `expires_in` (`LoopIsBounded`).

## Fairness

Only two specifications assume any.

- `DeviceFlow!FairSpec`: time goes on, a timer that is due fires, and an exchange
  that was begun ends, with an answer or without: `postForm`'s client has a
  timeout. The server and the user owe nothing. The server may answer *pending*
  or *slow_down* for ever, and `LoopEnds` holds all the same.
- `Publish!FairSpec`: a publisher makes progress, since each request has a
  timeout, and its *caller* starts again after a failure; the last attempt meets
  no trouble. That the trouble ends and that somebody tries again is an
  assumption about the surroundings, not about this code: `EventuallyIndexed`
  shows that nothing an earlier attempt left behind keeps a later one from
  getting the version indexed.

No other specification assumes fairness, and no safety property uses it.

## What TLAPS proves

For all values of the constants that satisfy the named assumptions of the
modules (`CanonAssumption`, `TokenAssumption`, `LifetimeAssumption`,
`DeviceFlowAssumption`, `ResolveAssumption`, `DiscoveryAssumption`,
`MainAssumption`, `PublishAssumption`), which TLC evaluates in the runs.

**CredentialStore_proofs.** The inductive invariant is `TypeOK`, `StoreNeverTorn`
and `SaveInv`: a process about to rename has a whole temporary file, and one
inside a call holds an edit. Without the first half `Rename` could tear the
store. From it follow

- `StoreTypeCorrect`, `StoreIsNeverTorn`;
- `StoreImplementsSnapshotStore`: with the snapshot of a process mapped to the
  logins it loaded (and to nothing when it is idle), `Load` is `TakeSnapshot`,
  `Rename` is `Replace`, `Fail` and `Crash` are `Abandon`, the outsiders are
  `Outside`, all else stutters;
- `UnreadableIsNeverReplaced`, assuming no newer release on the file, from
  `BusyMeansLoadable`: while a call is under way the file stays readable, since
  the user removes only unreadable ones;
- `LoneProcessSeesCredentialMap`, assuming that besides there is at most one
  process, from `ViewIsCurrent`: what a call loaded is still what is on the file
  when it renames. `Rename` is the instant at which the call takes effect;
- `LoneProcessTouchesOneEntry`, from `ViewIsCurrent` too, when the only outsider is
  the user: what `store_lost_update` refutes for two processes holds for one.

**IssuerSpelling_proofs.** `CanonicalIsTheIssuer`: for issuers of any length, any
space around and any number of slashes at the end, `canonicalIssuer` returns the
issuer. Trimming is defined by the last (or first) position of another character,
so no induction over sequences is needed: `TrimRightConcat` and `TrimLeftConcat` say
what is cut off a concatenation. The one thing assumed of an issuer is `IsIssuer`:
it does not begin with space, nor end in space or a slash. (`"x /"` is filed under
`"x "`, which no other spelling of `x` is.) `LoginFoundUnderAnySpelling` is
`AnySpellingFindsLogin` with that function as `Canon`, whatever other spellings the
callers use.

**TokenLifetime_proofs.** `HeldInv`: the server minted the stored token at most
the HTTP timeout before it arrived, and `ExpiresAt` is the arrival plus the
floored lifetime. From it `UsableTokensHaveMargin` and `RefreshesAreGraceApart`;
and `LongLivedTokensAreLive`: a fresh token *is* honoured by the server if every
`expires_in` reaches the floor and the window is at least the HTTP timeout.

**DeviceFlow_proofs.** `PaceInv` (client and server agree on the interval, but
for a `slow_down` under way), `TimeInv` (no wait begins after the deadline) and
`ApprovalInv` (how long ago an approval that no poll has seen can be) give
`PollsKeepTheirDistance`, `LoopIsOverInTime` and `ApprovalsAreSeen`. The clock
may be as large as one likes.

**TokenResolve_proofs.** `ResolveTypeCorrect` holds for any number of processes and
with realms that change their names; and so does `ResolveUsesSnapshotStore`, that
every step does to the file what `SnapshotStore` allows, which closes the chain of
abstraction: the store implements that module, and its clients rely on no more.
(Outsiders are left out of `TokenResolve`: a user who deletes an unreadable file
loses its logins and knows it.)
Four theorems about sessions assume `Lone`:
one process, a server that does not leave a refresh token valid and unsaid, and
realms that take at most one other name each, that of an issuer which keeps its
own (`RenamedOnce`). Two processes at two issuers, a second renaming and
`"omit"` do break them: see above. (A realm whose new name belongs to one that
is renamed in its turn is outside `RenamedOnce` because the invariant does not
hold there; TLC finds no violation of the properties of `resolve_alone` on 3 issuers
with 2 tokens.)

The properties are not inductive. A renaming makes two entries of the file belong
to one realm, so the invariant `SessionInv` is about realms (`Apart`), in four
parts. `NameInv`: a realm goes by its own name or by the one it was given.
`RealmInv`: its refresh tokens are its own; without that a rotation at one would
spoil the record of another. `FileInv`: what is on file was not consumed where the
realm still goes by that name, and is `Good` (honoured, unless the session is over;
its access token the last one obtained) where no other realm does besides; except
while a save is under way or after a reported failure. `CallInv`: what a call is
about to send is what is on file (`Asked`) and, if the realm was renamed since the
call began, is on file nowhere else; what it is about to save is good (`Kept`);
the snapshot it took is current. From them follow `LoneNamedSessionSurvives`,
`LoneLoginOnlyWhenNeeded` and `LoneNoNeedlessRefresh`. Where there are no renamings
at all (`Moves = {}`) every issuer's document names it, and `LoneSessionSurvives` says
the first without the exemption.

`SharedSessionSurvives` is about any number of processes, at one issuer and a
server that rotates. `CarryInv` says that a refresh token on its way to the file
is known to one process only: it is not on file, and no process has sent it or is
about to. `OnFileInv` says that the token on file is not consumed unless some
process has yet to save, or trouble was reported. So whoever writes last writes a
token that nobody can have used; the loser of a race is rejected by the server
and writes nothing. At two issuers this is false (a save for one carries the
records of the other), and so it is if the server sometimes rotates and sometimes
repeats.

**Discovery_proofs.** `JobInv` (a caller under way has a hub's key) and
`RegistryInv` (what is cached or returned was usable) give `DocumentsHaveRegistry`
for any number of goroutines. `CacheInv` (what was returned is what is cached, and
the one caller fetches only what is not) gives `DocumentsStay` for a process with
one goroutine.

**CommandCredentials_proofs.** `CommandImplementsDiscovery`: the variables of
`Discovery` change in a command only as `Discovery!Next` allows, which needs
`TargetInv`, that a command under way is for a hub; `CommandKnowsRegistry` follows
from it. `HeldInv`, that whatever is held is good for the party its purpose will
show it to, is what makes `NothingAstray` inductive (`NothingGoesAstray`);
`ImpersonalInv`, that a job holds no personal credential, does the same for
`NothingPersonalInCI` (`CIStaysImpersonal`). `CommandKeepsDocument` is
`OneDocumentPerHub` across the two looks of a command and from one command to the
next: a process that runs them one at a time is `Discovery` with one caller
(`Callers = {Main}`), so `CommandImplementsDiscovery` carries `DocumentsStay` over.

**Publish_proofs.** `OrderInv` (what is tagged, indexed or about to be resolved by
the hub is stored), `GrantInv` (past the token step only those remain who may push)
and `AttachInv` (how much is attached, by where the publisher is) give
`PublishTypeCorrect`, `DeniedLeavesNoBytes` and `SuccessIsAttached`, for any number
of publishers and attempts and with a late hub.

The other theorems assume `OnePusher`: of any number of publishers at the
coordinate, one may push. `OwnInv` says that from its tag on, the tag is its own,
and that what is indexed when it reports success is; hence `SuccessIsOwnBundle`,
even at a late hub and for a publisher that did not check first. `Careful` adds
that it checks the version first and that the hub drops what nobody waits for.
`LoneInv` then says that past the check nothing is indexed, and that what is
indexed is what the tag names. From it follow

- `LoneSuccessIsIndexed`, `LoneTagNeverMoves`;
- `LoneImplementsPublication`: with the index as `entry`, the tag as `served` and
  the outcomes as `told`, `Tag` is `Serve`, `Sync` and `SyncLost` are `Enter` with
  either result, the beginning and every other end of an attempt are `Tell`, all
  else stutters. So a dozen steps, each of which may fail, are
  one step to whoever looks at the coordinate.

`PusherIsNeverStranded` is the safety half of `EventuallyIndexed`, which
`publish_alone` checks whole: a publisher that may push, signs and has a bearer is
neither done nor out of attempts before the coordinate is indexed
(`FinishedMeansIndexed`, in the module of the proofs). It rests on `AttachInv` and, if the hub insists on
signatures, on `OwnInv`: were there a second pusher, the tag might name its unsigned
bundle when the last attempt syncs. That the attempts come to an end is the
liveness half.

Only model-checked: that the loop of a device login ends (`LoopEnds`) and that a
version gets indexed (`EventuallyIndexed`). Both are liveness under fairness,
which this prover cannot derive. Every invariant and action property of a
passing run is stated by a theorem.

## What is not modelled

- Power loss. `save` makes no fsync, so after one the renamed file may have part
  of its bytes, which `load` then refuses; `Crash` is the death of a process on a
  machine that goes on. With it in the model `StoreNeverTorn` and
  `IsCredentialMap` are false: no file system call of `save` promises them.
- The single requests of a push or an attach (blobs, then the manifest that names
  them): one that stops half-way leaves blobs that no manifest names, which no
  later step can see. `PushLocal`, which packs the same bundle into a directory.
- A hub that advertises a `ci_audience` of its own: in `CommandCredentials` the
  audience of a hub is its URL. A hub whose new document names another registry
  than the one that a process has cached.
- The endpoints of Sigstore, which the environment may override, and its retries.
- `provenance`: a pure function from its input, the environment and what git says
  to a document; `trustroot`: a copy of an embedded file; `auth/app.go`: names.
- File modes, JSON, the parsing of URLs, error texts: data with no state.

## Plan

Done: the credential store and its two abstractions, token lifetime, the device
login, refresh, discovery, publish with lost, late and abandoned syncs and
withdrawn versions, and the credentials of a command, each with proofs. Ahead:

1. `RenamedOnce` weakened to renamings in a chain, with an invariant that says under
   which names each realm's tokens may be on file.
2. `Publish` refined: blobs, manifests and referrers as requests of their own,
   shown to implement the present one.
3. Power loss, as an extension of `CredentialStore` with the kernel's writeback.
