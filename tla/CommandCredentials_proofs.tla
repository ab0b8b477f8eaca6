---------------------- MODULE CommandCredentials_proofs ----------------------
(***************************************************************************)
(* What TLAPS proves of CommandCredentials for any hubs and versions.      *)
(***************************************************************************)
EXTENDS CommandCredentials, Discovery_proofs

\* What a command does to the cache of Discover is what Discover does: it is
\* one of its callers.
LEMMA DiscoverySteps == target \in URLs /\ [CommandNext]_commandVars => [Next]_vars
  <1> SUFFICES ASSUME target \in URLs, [CommandNext]_commandVars PROVE [Next]_vars
    OBVIOUS
  <1> USE MainAssumption
  <1>1. ASSUME NEW from, NEW to, Look(from, to) PROVE [Next]_vars
    BY <1>1 DEF Look, Next
  <1>2. CASE HubStep
    BY <1>2 DEF HubStep, Next
  <1>3. ASSUME NEW url \in URLs, Begin(url) PROVE [Next]_vars
    BY <1>3 DEF Begin
  <1>4. CASE CIBearer \/ Resolve \/ Identity
    BY <1>4 DEF CIBearer, Resolve, Identity, Obtain
  <1>5. CASE NoIdentity \/ RegistryToken \/ NoRegistryToken \/ Push \/ Sign \/ Sync \/ Abort
    BY <1>5 DEF NoIdentity, RegistryToken, NoRegistryToken, Push, Sign, Sync, Abort
  <1>6. CASE UNCHANGED commandVars
    BY <1>6 DEF commandVars
  <1> QED
    BY <1>1, <1>2, <1>3, <1>4, <1>5, <1>6 DEF CommandNext

\* From the first step on, the target is a hub.
TargetInv ==
    /\ target \in URLs
    /\ step # "idle" => target[1] \in Hubs

LEMMA TargetStep == TargetInv /\ [CommandNext]_commandVars => TargetInv'
  <1> SUFFICES ASSUME TargetInv, [CommandNext]_commandVars PROVE TargetInv'
    OBVIOUS
  <1> USE DEF TargetInv, Goto, command
  <1>1. ASSUME NEW url \in URLs, Begin(url) PROVE TargetInv'
    BY <1>1, KeyType DEF Begin
  <1>2. ASSUME Look("discovering", "bearer") \/ Look("locating", "clearing") PROVE TargetInv'
    BY <1>2 DEF Look
  <1>3. CASE CIBearer \/ Resolve \/ Identity
    BY <1>3 DEF CIBearer, Resolve, Identity, Obtain
  <1>4. CASE NoIdentity \/ RegistryToken \/ NoRegistryToken
    BY <1>4 DEF NoIdentity, RegistryToken, NoRegistryToken
  <1>5. CASE Push \/ Sign \/ Sync \/ Abort \/ HubStep
    BY <1>5 DEF Push, Sign, Sync, Abort, HubStep
  <1>6. CASE UNCHANGED commandVars
    BY <1>6 DEF commandVars
  <1> HIDE DEF TargetInv, Goto, command
  <1> QED
    BY <1>1, <1>2, <1>3, <1>4, <1>5, <1>6 DEF CommandNext

LEMMA TargetInit == CommandInit => TargetInv
  <1>1. <<Blank, "">> \in URLs
    BY DEF URLs
  <1> QED
    BY <1>1 DEF CommandInit, TargetInv

LEMMA PartyTypes ==
    ASSUME TargetInv, step # "idle"
    PROVE  /\ HubAt(target) \in AnyHub /\ RegistryOf(target) \in AnyRegistry
           /\ StorageOf(target) \in Parties
  <1> DEFINE url == <<target[1], "">>
  <1>1. url \in Hubs \X {""} /\ url[1] = target[1]
    BY DEF TargetInv
  <1>2. /\ HubAt(target) = HubAt(url) /\ RegistryOf(target) = RegistryOf(url)
        /\ StorageOf(target) = StorageOf(url)
    BY <1>1 DEF HubAt, Key, RegistryOf, StorageOf
  <1> HIDE DEF url
  <1> QED
    BY <1>1, <1>2 DEF AnyHub, AnyRegistry, Parties

LEMMA AnyTypes ==
    /\ AnyHub \subseteq Parties /\ AnyRegistry \subseteq Parties
    /\ Sigstore \in Parties
  BY DEF Parties

LEMMA StorageIsAnother == StorageOf(target) # RegistryOf(target)
  BY DEF StorageOf, RegistryOf

\* What is in hand is good for what it is in hand for.
HeldInv ==
    /\ \A c \in held["bearer"] : HubAt(target) \in c.audience
    /\ \A c \in held["identity"] : Sigstore \in c.audience
    /\ \A c \in held["token"] : RegistryOf(target) \in c.audience

\* And so was what has been shown.
SafeInv ==
    /\ held \in [Purposes -> SUBSET Credentials]
    /\ sent \subseteq [credential : Credentials, to : Parties]
    /\ HeldInv
    /\ NothingAstray

LEMMA BearerTypes ==
    ASSUME TargetInv, step # "idle",
           NEW c \in FetchGitHubActionsToken(HubAt(target))
                        \cup {Credential("caller", AnyHub), Credential("variable", AnyHub),
                              Credential("login", {HubAt(target)})}
    PROVE  c \in Credentials /\ HubAt(target) \in c.audience
  BY PartyTypes, AnyTypes DEF Credential, Credentials, Sources, FetchGitHubActionsToken

LEMMA IdentityTypes ==
    ASSUME NEW c \in IDToken \cup FetchGitHubActionsToken(Sigstore)
                        \cup {Credential("browser", {Sigstore})}
    PROVE  c \in Credentials /\ Sigstore \in c.audience
  BY AnyTypes DEF Credential, Credentials, Sources, FetchGitHubActionsToken, IDToken

LEMMA TokenTypes ==
    ASSUME TargetInv, step # "idle", NEW claim \in Claims, GrantsPush(claim)
    PROVE  Minted(claim) \in Credentials /\ RegistryOf(target) \in Minted(claim).audience
  <1>1. Minted(claim) = Credential("hub", {RegistryOf(target)})
    BY DEF Minted, GrantsPush
  <1> QED
    BY <1>1, PartyTypes, AnyTypes DEF Credential, Credentials, Sources

LEMMA AskedTypes ==
    ASSUME TargetInv, SafeInv, step # "idle",
           NEW asked \in {RegistryOf(target), StorageOf(target)},
           NEW C \in CredentialFor(asked), NEW c \in C
    PROVE  c \in Credentials /\ asked \in c.audience
  <1>1. asked \in Parties
    BY PartyTypes, AnyTypes
  <1>2. CASE c = Credential("docker", {asked})
    BY <1>1, <1>2 DEF Credential, Credentials, Sources
  <1>3. CASE asked = RegistryOf(target) /\ c = Credential("variable", AnyRegistry)
    BY <1>3, PartyTypes, AnyTypes DEF Credential, Credentials, Sources
  <1>4. CASE asked = RegistryOf(target) /\ c \in held["token"]
    BY <1>4 DEF SafeInv, HeldInv, Purposes
  <1> QED
    BY <1>2, <1>3, <1>4 DEF CredentialFor

\* A step that shows some credentials to a party they are good for.
LEMMA ShowStep ==
    ASSUME SafeInv, NEW to \in Parties, NEW C,
           \A c \in C : c \in Credentials /\ to \in c.audience
    PROVE  /\ sent \cup Show(C, to) \subseteq [credential : Credentials, to : Parties]
           /\ \A s \in sent \cup Show(C, to) : s.to \in s.credential.audience
  BY DEF SafeInv, NothingAstray, Show

\* A step that serves a purpose with credentials that are good for it.
LEMMA ObtainStep ==
    ASSUME SafeInv, NEW from, NEW to, NEW C,
           NEW purpose \in {"bearer", "identity"},
           Obtain(purpose, from, to, C),
           \A c \in C : /\ c \in Credentials
                        /\ purpose = "bearer" => HubAt(target) \in c.audience
                        /\ purpose = "identity" => Sigstore \in c.audience
    PROVE  SafeInv'
  <1>1. PICK c \in C : held' = [held EXCEPT ![purpose] = {c}]
    BY DEF Obtain
  <1>2. target' = target /\ sent' = sent
    BY DEF Obtain
  <1>3. held' \in [Purposes -> SUBSET Credentials]
    BY <1>1 DEF SafeInv
  <1>4. HeldInv'
    BY <1>1, <1>2 DEF SafeInv, HeldInv, Purposes, HubAt, RegistryOf, Key
  <1> QED
    BY <1>2, <1>3, <1>4 DEF SafeInv, NothingAstray

LEMMA SafeStep == TargetInv /\ SafeInv /\ [CommandNext]_commandVars => SafeInv'
  <1> SUFFICES ASSUME TargetInv, SafeInv, [CommandNext]_commandVars PROVE SafeInv'
    OBVIOUS
  <1>0. ASSUME UNCHANGED <<target, held, sent>> PROVE SafeInv'
    BY <1>0 DEF SafeInv, HeldInv, NothingAstray, HubAt, RegistryOf, Key
  <1>1. ASSUME NEW url \in URLs, Begin(url) PROVE SafeInv'
    BY <1>1 DEF Begin, SafeInv, HeldInv, NothingAstray, NoneHeld, Purposes
  <1>2. ASSUME NEW from, NEW to, Look(from, to) PROVE SafeInv'
    BY <1>0, <1>2 DEF Look
  <1>3. CASE CIBearer
    BY <1>3, ObtainStep, BearerTypes DEF CIBearer, Obtain, Goto
  <1>4. CASE Resolve
    BY <1>4, ObtainStep, BearerTypes DEF Resolve, Obtain, Goto
  <1>5. CASE Identity
    BY <1>5, ObtainStep, IdentityTypes DEF Identity
  <1>6. CASE NoIdentity \/ Abort \/ HubStep
    BY <1>0, <1>6 DEF NoIdentity, Abort, HubStep, command
  <1>7. CASE RegistryToken
    <2> DEFINE shown == sent \cup Show(held["bearer"], HubAt(target))
    <2>1. step # "idle" /\ target' = target /\ sent' = shown
      BY <1>7 DEF RegistryToken, Goto
    <2>2. /\ sent' \subseteq [credential : Credentials, to : Parties]
          /\ NothingAstray'
      <3>1. HubAt(target) \in Parties
        BY <2>1, PartyTypes, AnyTypes
      <3>2. \A c \in held["bearer"] : c \in Credentials /\ HubAt(target) \in c.audience
        BY DEF SafeInv, HeldInv, Purposes
      <3> QED
        BY <2>1, <3>1, <3>2, ShowStep DEF NothingAstray
    <2>3. CASE held' = held
      BY <2>1, <2>2, <2>3 DEF SafeInv, HeldInv, HubAt, RegistryOf, Key
    <2>4. ASSUME NEW claim \in Claims, GrantsPush(claim),
                 held' = [held EXCEPT !["token"] = {Minted(claim)}]
          PROVE  SafeInv'
      <3>1. Minted(claim) \in Credentials /\ RegistryOf(target) \in Minted(claim).audience
        BY <2>1, <2>4, TokenTypes
      <3> QED
        BY <2>1, <2>2, <2>4, <3>1 DEF SafeInv, HeldInv, Purposes, HubAt, RegistryOf, Key
    <2> QED
      BY <1>7, <2>3, <2>4 DEF RegistryToken
  <1>8. CASE NoRegistryToken
    <2>1. /\ step # "idle" /\ target' = target /\ sent' = sent
      BY <1>8 DEF NoRegistryToken, Goto
    <2>2. PICK t \in {{}, {Credential("caller", {RegistryOf(target)})}} :
              held' = [held EXCEPT !["token"] = t]
      BY <1>8 DEF NoRegistryToken
    <2>3. \A c \in t : c \in Credentials /\ RegistryOf(target) \in c.audience
      BY <2>1, <2>2, PartyTypes, AnyTypes DEF Credential, Credentials, Sources
    <2>4. held' \in [Purposes -> SUBSET Credentials] /\ HeldInv'
      BY <2>1, <2>2, <2>3 DEF SafeInv, HeldInv, Purposes, HubAt, RegistryOf, Key
    <2> QED
      BY <2>1, <2>4 DEF SafeInv, NothingAstray
  <1>9. CASE Push
    <2>1. /\ step # "idle" /\ target' = target /\ held' = held
      BY <1>9 DEF Push, Goto
    <2>2. PICK c \in CredentialFor(RegistryOf(target)), d \in CredentialFor(StorageOf(target)) :
              sent' = sent \cup Show(c, RegistryOf(target)) \cup Show(d, StorageOf(target))
      BY <1>9 DEF Push
    <2>3. /\ sent \cup Show(c, RegistryOf(target)) \subseteq [credential : Credentials, to : Parties]
          /\ \A s \in sent \cup Show(c, RegistryOf(target)) : s.to \in s.credential.audience
      BY <2>1, AskedTypes, PartyTypes, AnyTypes, ShowStep
    <2>4. /\ sent \cup Show(d, StorageOf(target)) \subseteq [credential : Credentials, to : Parties]
          /\ \A s \in sent \cup Show(d, StorageOf(target)) : s.to \in s.credential.audience
      BY <2>1, AskedTypes, PartyTypes, AnyTypes, ShowStep
    <2>5. sent' \subseteq [credential : Credentials, to : Parties] /\ NothingAstray'
      BY <2>2, <2>3, <2>4 DEF NothingAstray
    <2> QED
      BY <2>1, <2>5 DEF SafeInv, HeldInv, HubAt, RegistryOf, Key
  <1>10. CASE Sign
    <2>1. /\ target' = target /\ held' = held /\ sent' = sent \cup Show(held["identity"], Sigstore)
      BY <1>10 DEF Sign
    <2>2. \A c \in held["identity"] : c \in Credentials /\ Sigstore \in c.audience
      BY DEF SafeInv, HeldInv, Purposes
    <2>3. sent' \subseteq [credential : Credentials, to : Parties] /\ NothingAstray'
      BY <2>1, <2>2, AnyTypes, ShowStep DEF NothingAstray
    <2> QED
      BY <2>1, <2>3 DEF SafeInv, HeldInv, HubAt, RegistryOf, Key
  <1>11. CASE Sync
    <2>1. /\ step # "idle" /\ target' = target /\ held' = held
          /\ sent' = sent \cup Show(held["bearer"], HubAt(target))
      BY <1>11 DEF Sync, Goto
    <2>2. \A c \in held["bearer"] : c \in Credentials /\ HubAt(target) \in c.audience
      BY DEF SafeInv, HeldInv, Purposes
    <2>3. sent' \subseteq [credential : Credentials, to : Parties] /\ NothingAstray'
      BY <2>1, <2>2, PartyTypes, AnyTypes, ShowStep DEF NothingAstray
    <2> QED
      BY <2>1, <2>3 DEF SafeInv, HeldInv, HubAt, RegistryOf, Key
  <1>12. CASE UNCHANGED commandVars
    BY <1>0, <1>12 DEF commandVars, command
  <1> QED
    BY <1>1, <1>2, <1>3, <1>4, <1>5, <1>6, <1>7, <1>8, <1>9, <1>10, <1>11, <1>12
    DEF CommandNext

\* The surroundings stay as they are, and the command is at one of its steps.
StepInv ==
    /\ actions \in {"outside", "ready", "blank"}
    /\ step \in {"idle", "discovering", "bearer", "identity", "locating",
                 "clearing", "pushing", "signing", "syncing"}

LEMMA StepStep == StepInv /\ [CommandNext]_commandVars => StepInv'
  <1> SUFFICES ASSUME StepInv, [CommandNext]_commandVars PROVE StepInv'
    OBVIOUS
  <1> USE DEF StepInv, Goto, surroundings, command
  <1>1. ASSUME NEW url \in URLs, Begin(url) PROVE StepInv'
    BY <1>1 DEF Begin
  <1>2. ASSUME Look("discovering", "bearer") \/ Look("locating", "clearing") PROVE StepInv'
    BY <1>2 DEF Look
  <1>3. CASE CIBearer \/ Resolve \/ Identity
    BY <1>3 DEF CIBearer, Resolve, Identity, Obtain
  <1>4. CASE NoIdentity \/ RegistryToken \/ NoRegistryToken
    BY <1>4 DEF NoIdentity, RegistryToken, NoRegistryToken
  <1>5. CASE Push \/ Sign \/ Sync \/ Abort \/ HubStep
    BY <1>5 DEF Push, Sign, Sync, Abort, HubStep
  <1>6. CASE UNCHANGED commandVars
    BY <1>6 DEF commandVars
  <1> HIDE DEF StepInv, Goto, surroundings, command
  <1> QED
    BY <1>1, <1>2, <1>3, <1>4, <1>5, <1>6 DEF CommandNext

\* In an Actions job, nothing personal is in hand either.
ImpersonalInv ==
    InGitHubActions =>
        /\ \A purpose \in Purposes : \A c \in held[purpose] :
              c.source \notin {"login", "browser"}
        /\ \A s \in sent : s.credential.source \notin {"login", "browser"}

LEMMA ImpersonalObtain ==
    ASSUME SafeInv, ImpersonalInv, NEW from, NEW to, NEW C, NEW purpose \in Purposes,
           Obtain(purpose, from, to, C),
           InGitHubActions => \A c \in C : c.source \notin {"login", "browser"}
    PROVE  ImpersonalInv'
  <1>1. PICK c \in C : held' = [held EXCEPT ![purpose] = {c}]
    BY DEF Obtain
  <1>2. actions' = actions /\ sent' = sent
    BY DEF Obtain, surroundings
  <1> QED
    BY <1>1, <1>2 DEF ImpersonalInv, InGitHubActions, SafeInv

LEMMA ImpersonalShow ==
    ASSUME NEW C, NEW to, \A c \in C : c.source \notin {"login", "browser"}
    PROVE  \A s \in Show(C, to) : s.credential.source \notin {"login", "browser"}
  BY DEF Show

LEMMA ImpersonalStep ==
    TargetInv /\ SafeInv /\ ImpersonalInv /\ [CommandNext]_commandVars => ImpersonalInv'
  <1> SUFFICES ASSUME TargetInv, SafeInv, ImpersonalInv, [CommandNext]_commandVars
               PROVE  ImpersonalInv'
    OBVIOUS
  <1> USE DEF surroundings
  <1>0. ASSUME UNCHANGED <<actions, held, sent>> PROVE ImpersonalInv'
    BY <1>0 DEF ImpersonalInv, InGitHubActions
  <1>1. ASSUME NEW url \in URLs, Begin(url) PROVE ImpersonalInv'
    BY <1>1 DEF Begin, ImpersonalInv, NoneHeld
  <1>2. ASSUME NEW from, NEW to, Look(from, to) PROVE ImpersonalInv'
    BY <1>0, <1>2 DEF Look
  <1>3. CASE CIBearer
    <2>1. \A c \in FetchGitHubActionsToken(HubAt(target)) : c.source = "workflow"
      BY DEF FetchGitHubActionsToken, Credential
    <2> QED
      BY <1>3, <2>1, ImpersonalObtain DEF CIBearer, Purposes
  <1>4. CASE Resolve
    BY <1>4, ImpersonalObtain DEF Resolve, Purposes
  <1>5. CASE Identity
    <2>1. \A c \in IDToken \cup FetchGitHubActionsToken(Sigstore) :
              c.source \in {"variable", "workflow"}
      BY DEF IDToken, FetchGitHubActionsToken, Credential
    <2> QED
      BY <1>5, <2>1, ImpersonalObtain DEF Identity, Purposes
  <1>6. CASE NoIdentity \/ Abort \/ HubStep
    BY <1>0, <1>6 DEF NoIdentity, Abort, HubStep, command
  <1>7. CASE RegistryToken
    <2>1. actions' = actions /\ sent' = sent \cup Show(held["bearer"], HubAt(target))
      BY <1>7 DEF RegistryToken
    <2>2. InGitHubActions => \A s \in sent' : s.credential.source \notin {"login", "browser"}
      BY <2>1, ImpersonalShow DEF ImpersonalInv, Purposes
    <2>3. \A claim \in Claims : Minted(claim).source = "hub"
      BY DEF Minted, Credential
    <2>4. PICK claim \in Claims :
              held' = held \/ held' = [held EXCEPT !["token"] = {Minted(claim)}]
      BY <1>7 DEF RegistryToken
    <2> QED
      BY <2>1, <2>2, <2>3, <2>4 DEF ImpersonalInv, InGitHubActions, SafeInv
  <1>8. CASE NoRegistryToken
    <2>1. PICK t \in {{}, {Credential("caller", {RegistryOf(target)})}} :
              held' = [held EXCEPT !["token"] = t]
      BY <1>8 DEF NoRegistryToken
    <2>2. \A c \in t : c.source = "caller"
      BY <2>1 DEF Credential
    <2> QED
      BY <1>8, <2>1, <2>2 DEF NoRegistryToken, ImpersonalInv, InGitHubActions, SafeInv
  <1>9. CASE Push
    <2>1. PICK c \in CredentialFor(RegistryOf(target)), d \in CredentialFor(StorageOf(target)) :
              sent' = sent \cup Show(c, RegistryOf(target)) \cup Show(d, StorageOf(target))
      BY <1>9 DEF Push
    <2>2. ASSUME InGitHubActions, NEW asked, NEW C \in CredentialFor(asked), NEW x \in C
          PROVE  x.source \notin {"login", "browser"}
      BY <2>2 DEF CredentialFor, Credential, ImpersonalInv, Purposes
    <2>3. InGitHubActions => \A s \in sent' : s.credential.source \notin {"login", "browser"}
      BY <2>1, <2>2, ImpersonalShow DEF ImpersonalInv
    <2> QED
      BY <1>9, <2>3 DEF Push, ImpersonalInv, InGitHubActions
  <1>10. CASE Sign \/ Sync
    <2>1. /\ actions' = actions /\ held' = held
          /\ \E purpose \in Purposes, to \in {Sigstore, HubAt(target)} :
                sent' = sent \cup Show(held[purpose], to)
      BY <1>10 DEF Sign, Sync, Purposes
    <2> QED
      BY <2>1, ImpersonalShow DEF ImpersonalInv, InGitHubActions
  <1>11. CASE UNCHANGED commandVars
    BY <1>0, <1>11 DEF commandVars, command
  <1> QED
    BY <1>1, <1>2, <1>3, <1>4, <1>5, <1>6, <1>7, <1>8, <1>9, <1>10, <1>11
    DEF CommandNext

LEMMA CommandTargets == CommandSpec => []TargetInv
  BY TargetInit, TargetStep, PTL DEF CommandSpec

LEMMA SafeInit == CommandInit => SafeInv
  BY DEF CommandInit, SafeInv, HeldInv, NothingAstray, NoneHeld, Purposes

LEMMA CommandIsSafe == CommandSpec => []SafeInv
  BY SafeInit, SafeStep, CommandTargets, PTL DEF CommandSpec

\* The two looks at the hub's document, and whatever comes between them, are
\* calls of Discover: what is proved of Discovery holds of a command.
THEOREM CommandImplementsDiscovery == CommandSpec => Spec
  <1>1. CommandInit => Init
    BY DEF CommandInit
  <1>2. TargetInv /\ [CommandNext]_commandVars => [Next]_vars
    BY DiscoverySteps DEF TargetInv
  <1> QED
    BY <1>1, <1>2, CommandTargets, PTL DEF CommandSpec, Spec

\* The command's state is well formed: each credential has a source and
\* audiences, each target is a URL.
THEOREM CommandTypeCorrect == CommandSpec => []CommandTypeOK
  <1>1. CommandInit => StepInv
    BY DEF CommandInit, StepInv
  <1>2. TypeOK /\ StepInv /\ TargetInv /\ SafeInv => CommandTypeOK
    BY DEF CommandTypeOK, StepInv, TargetInv, SafeInv
  <1>3. CommandSpec => []StepInv
    BY <1>1, StepStep, PTL DEF CommandSpec
  <1>4. CommandSpec => []TypeOK
    BY CommandImplementsDiscovery, DiscoveryTypeCorrect, PTL
  <1> QED
    BY <1>2, <1>3, <1>4, CommandTargets, CommandIsSafe, PTL

\* A command only ever works with a hub's document that names a registry.
THEOREM CommandKnowsRegistry == CommandSpec => []EveryDocumentHasRegistry
  BY CommandImplementsDiscovery, DocumentsHaveRegistry, PTL

\* Both looks of a command, and those of every later command of the process,
\* get one document per hub when nobody else in the process calls Discover.
THEOREM CommandKeepsDocument ==
    ASSUME Callers = {Main}
    PROVE  CommandSpec => []OneDocumentPerHub
  <1>1. \A c, d \in Callers : c = d
    OBVIOUS
  <1>2. Spec => []OneDocumentPerHub
    BY <1>1, DocumentsStay
  <1> QED
    BY <1>2, CommandImplementsDiscovery, PTL

\* No step of a command shows a credential to anyone it is not good for: a
\* bearer to another hub, a hub's audience to Fulcio, a registry token without
\* push to the registry, or one with push to the storage behind it.
THEOREM NothingGoesAstray == CommandSpec => []NothingAstray
  <1>1. SafeInv => NothingAstray
    BY DEF SafeInv
  <1> QED
    BY <1>1, CommandIsSafe, PTL

\* An Actions job never uses a stored login or opens a browser.
THEOREM CIStaysImpersonal == CommandSpec => []NothingPersonalInCI
  <1>1. CommandInit => ImpersonalInv
    BY DEF CommandInit, ImpersonalInv, NoneHeld
  <1>2. ImpersonalInv => NothingPersonalInCI
    BY DEF ImpersonalInv, NothingPersonalInCI
  <1> QED
    BY <1>1, <1>2, ImpersonalStep, CommandTargets, CommandIsSafe, PTL DEF CommandSpec
=============================================================================
