-------------------------- MODULE CommandCredentials -------------------------
(***************************************************************************)
(* Which credential a publishing tool shows to whom.  One goroutine runs   *)
(* command after command, each for some hub: hub.Discover, the hub bearer  *)
(* (hub.CIBearer in a GitHub Actions job, else auth.Resolve), the signing  *)
(* identity (keyless.Identity), hub.Discover again, the registry token     *)
(* (hub.RegistryToken), the push with the credentials that credentialFunc  *)
(* finds, the signature and the sync.                                      *)
(*                                                                         *)
(* A credential is where it came from and for whom it is good.  What is    *)
(* read from the environment or the disk once is chosen where it is read;  *)
(* what is read twice, whether this is an Actions job, is state.           *)
(***************************************************************************)
EXTENDS Discovery

CONSTANT Main   \* the goroutine that runs the commands

ASSUME MainAssumption == Main \in Callers

VARIABLES
    actions,   \* the surroundings: an Actions job with OIDC, or not; "blank":
               \* one whose request URL or request token is only white space
    step,      \* where the command is
    target,    \* the hub URL it was given
    held,      \* per purpose, {} or {the credential obtained}
    sent       \* what the command has shown to whom

surroundings == <<actions>>
command == <<step, target, held, sent>>
commandVars == <<vars, surroundings, command>>

-----------------------------------------------------------------------------

\* Whom a credential can be shown to.  A hub goes by its URL without slashes
\* at the end, which is also the audience it has unless it advertises another.
HubAt(url) == Key(url)
RegistryOf(url) == <<"registry", url[1]>>
StorageOf(url) == <<"storage", url[1]>>     \* where a registry may redirect to
Sigstore == <<"sigstore", "">>

AnyHub == {HubAt(url) : url \in Hubs \X {""}}
AnyRegistry == {RegistryOf(url) : url \in Hubs \X {""}}
Parties == AnyHub \cup AnyRegistry \cup {Sigstore}
              \cup {StorageOf(url) : url \in Hubs \X {""}}

Credential(source, audience) == [source |-> source, audience |-> audience]

Sources == {"caller", "variable", "login", "workflow", "browser", "hub", "docker"}

Credentials == [source : Sources, audience : SUBSET Parties]

Purposes == {"bearer", "identity", "token"}

NoneHeld == [purpose \in Purposes |-> {}]

CommandTypeOK ==
    /\ TypeOK
    /\ actions \in {"outside", "ready", "blank"}
    /\ step \in {"idle", "discovering", "bearer", "identity", "locating",
                 "clearing", "pushing", "signing", "syncing"}
    /\ target \in URLs
    /\ held \in [Purposes -> SUBSET Credentials]
    /\ sent \subseteq [credential : Credentials, to : Parties]

CommandInit ==
    /\ Init
    /\ actions \in {"outside", "ready", "blank"}
    /\ step = "idle"
    /\ target = <<Blank, "">>
    /\ held = NoneHeld
    /\ sent = {}

-----------------------------------------------------------------------------

Goto(from, to) == step = from /\ step' = to

Show(credentials, to) == {[credential |-> c, to |-> to] : c \in credentials}

Begin(url) ==
    /\ url[1] # Blank
    /\ Goto("idle", "discovering")
    /\ target' = url
    /\ held' = NoneHeld
    /\ sent' = {}
    /\ UNCHANGED <<vars, surroundings>>

\* Any step may fail, which ends the command; one that fails after it showed a
\* credential is the same as a failure of the step after it.
Abort ==
    /\ step \notin {"idle", "discovering", "locating"}
    /\ step' = "idle"
    /\ UNCHANGED <<vars, surroundings, target, held, sent>>

\* One call of Discover: the tool's own, and the one in Publish.
Look(from, to) ==
    /\ step = from
    /\ \/ (Hit(Main, target) \/ Keep(Main)) /\ step' = to
       \/ (Miss(Main, target) \/ Fetch(Main)) /\ UNCHANGED step
       \/ (Reject(Main) \/ GiveUp(Main)) /\ step' = "idle"
    /\ UNCHANGED <<surroundings, target, held, sent>>

\* The purpose is served, from one of the given sources, and the command goes
\* on; with nothing in hand it ends.
Obtain(purpose, from, to, credentials) ==
    /\ \E c \in credentials : held' = [held EXCEPT ![purpose] = {c}]
    /\ Goto(from, to)
    /\ UNCHANGED <<vars, surroundings, target, sent>>

InGitHubActions == actions # "outside"

\* FetchGitHubActionsToken: the runtime (external) mints for the audience it
\* is asked for; a blank URL or token is an error.
FetchGitHubActionsToken(audience) ==
    IF actions = "ready" THEN {Credential("workflow", {audience})} ELSE {}

\* CIBearer, in an Actions job: its token or an error.
CIBearer ==
    /\ InGitHubActions
    /\ Obtain("bearer", "bearer", "identity", FetchGitHubActionsToken(HubAt(target)))

\* Not the code's: CIBearer says ok = false when no token can be had.
ResolveAfterCIBearer ==
    /\ actions # "ready"
    /\ Obtain("bearer", "bearer", "identity",
              {Credential("caller", AnyHub), Credential("variable", AnyHub),
               Credential("login", {HubAt(target)})})

\* Resolve: the flag, the variable, or the login at the issuer that the hub's
\* document names.  TokenResolve says how the last is kept fresh.  auth.Resolve
\* does not ask whether it is in a job: the guard is the calling convention of
\* CIBearer, whose callers fall through to it only outside (discover.go:98-99).
Resolve ==
    /\ ~InGitHubActions
    /\ Obtain("bearer", "bearer", "identity",
              {Credential("caller", AnyHub), Credential("variable", AnyHub),
               Credential("login", {HubAt(target)})})

\* Not the code's: the audience of SIGSTORE_ID_TOKEN is not looked at.
AnyIDToken == {Credential("variable", a) : a \in SUBSET (AnyHub \cup {Sigstore})}

\* SIGSTORE_ID_TOKEN, if it is a token with the audience.
IDToken ==
    {Credential("variable", a) :
        a \in {b \in SUBSET (AnyHub \cup {Sigstore}) : Sigstore \in b}}

\* Identity: the variable; in an Actions job its token; else the browser.
Identity ==
    Obtain("identity", "identity", "locating",
           IDToken \cup IF InGitHubActions
                        THEN FetchGitHubActionsToken(Sigstore)
                        ELSE {Credential("browser", {Sigstore})})

\* The tool publishes unsigned.
NoIdentity ==
    /\ Goto("identity", "locating")
    /\ UNCHANGED <<vars, surroundings, target, held, sent>>

\* The access claim: for this repository or another, with push or without.
Claims == UNION {[1..n -> {"push", "pull", "push elsewhere"}] : n \in 0..2}

\* Not the code's: the name of the repository is not compared.
GrantsPushAnywhere(claim) == \E i \in DOMAIN claim : claim[i] # "pull"

\* grantedActions and GrantsPush: what the first entry for the repository says.
GrantsPush(claim) ==
    \E i \in DOMAIN claim :
        claim[i] = "push" /\ \A j \in 1..(i - 1) : claim[j] = "push elsewhere"

\* What the registry makes of a token: it takes a push if some entry allows it.
Minted(claim) ==
    Credential("hub", IF \E i \in DOMAIN claim : claim[i] = "push"
                      THEN {RegistryOf(target)} ELSE {})

\* RegistryToken, with the bearer; without push the command ends.
RegistryToken ==
    /\ sent' = sent \cup Show(held["bearer"], HubAt(target))
    /\ \E claim \in Claims :
          IF GrantsPush(claim)
          THEN /\ Goto("clearing", "pushing")
               /\ held' = [held EXCEPT !["token"] = {Minted(claim)}]
          ELSE Goto("clearing", "idle") /\ UNCHANGED held
    /\ UNCHANGED <<vars, surroundings, target>>

\* The tool passes a registry token of its own, or pushes by itself with none.
NoRegistryToken ==
    /\ Goto("clearing", "pushing")
    /\ \E t \in {{}, {Credential("caller", {RegistryOf(target)})}} :
          held' = [held EXCEPT !["token"] = t]
    /\ UNCHANGED <<vars, surroundings, target, sent>>

\* Not the code's: whoever asks gets what the registry would get.
CredentialForAnyone(asked) ==
    IF held["token"] # {} THEN {held["token"]}
    ELSE {{Credential("variable", AnyRegistry)}, {Credential("docker", {asked})}, {}}

\* credentialFunc: for the registry itself the token, the variables, the Docker
\* chain; for anybody else the Docker chain, which may know nothing.
CredentialFor(asked) ==
    IF asked # RegistryOf(target) THEN {{Credential("docker", {asked})}, {}}
    ELSE IF held["token"] # {} THEN {held["token"]}
    ELSE {{Credential("variable", AnyRegistry)}, {Credential("docker", {asked})}, {}}

\* Push and Attach: to the registry, and wherever it (external) redirects to.
Push ==
    /\ Goto("pushing", "signing")
    /\ \E c \in CredentialFor(RegistryOf(target)), d \in CredentialFor(StorageOf(target)) :
          sent' = sent \cup Show(c, RegistryOf(target)) \cup Show(d, StorageOf(target))
    /\ UNCHANGED <<vars, surroundings, target, held>>

\* Sign: the identity goes to Fulcio.
Sign ==
    /\ Goto("signing", "syncing")
    /\ sent' = sent \cup Show(held["identity"], Sigstore)
    /\ UNCHANGED <<vars, surroundings, target, held>>

\* SyncBundle, or SyncPlugin for a tool that pushed a plugin by itself.
Sync ==
    /\ Goto("syncing", "idle")
    /\ sent' = sent \cup Show(held["bearer"], HubAt(target))
    /\ UNCHANGED <<vars, surroundings, target, held>>

HubStep ==
    /\ \E h \in Hubs, good \in BOOLEAN : Republish(h, good)
    /\ UNCHANGED <<surroundings, command>>

CommandNext ==
    \/ \E url \in URLs : Begin(url)
    \/ Look("discovering", "bearer") \/ CIBearer \/ Resolve
    \/ Identity \/ NoIdentity \/ Look("locating", "clearing")
    \/ RegistryToken \/ NoRegistryToken
    \/ Push \/ Sign \/ Sync \/ Abort
    \/ HubStep

CommandSpec == CommandInit /\ [][CommandNext]_commandVars

-----------------------------------------------------------------------------

\* A credential is shown only to those it is good for: a hub's bearer to that
\* hub, a workflow token to the audience it was minted for, a registry token
\* that allows a push to the registry and not to where it redirects.
NothingAstray == \A s \in sent : s.to \in s.credential.audience

\* A GitHub Actions job that has workflow OIDC never acts with what a person
\* left on the machine, not even when the runtime mints no token.
NothingPersonalInCI ==
    InGitHubActions =>
        \A s \in sent : s.credential.source \notin {"login", "browser"}
=============================================================================
