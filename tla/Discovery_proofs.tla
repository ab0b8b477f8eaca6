-------------------------- MODULE Discovery_proofs ---------------------------
(***************************************************************************)
(* What TLAPS proves of Discovery for any hubs, versions and goroutines.   *)
(***************************************************************************)
EXTENDS Discovery, TLAPS

Call(c) ==
    \/ \E url \in URLs : Hit(c, url) \/ Miss(c, url)
    \/ Fetch(c) \/ Keep(c) \/ Reject(c) \/ GiveUp(c)

\* A call under way is for a hub, by its key.
JobInv == \A c \in Callers : pc[c] # "idle" => \E h \in Hubs : job[c].key = <<h, "">>

LEMMA NextVersion ==
    ASSUME NEW v \in Versions, v < MaxVersion
    PROVE  v + 1 \in Versions
  BY DiscoveryAssumption DEF Versions

LEMMA NoJobType == NoJob \in [key : URLs, document : Versions]
  <1>1. 0 \in Versions
    BY DiscoveryAssumption DEF Versions
  <1>2. <<Blank, "">> \in URLs
    BY DEF URLs
  <1> HIDE DEF Blank, URLs, Versions
  <1> QED
    BY <1>1, <1>2 DEF NoJob

LEMMA TypeInit == Init => TypeOK /\ JobInv
  <1> SUFFICES ASSUME Init PROVE TypeOK /\ JobInv
    OBVIOUS
  <1> USE DiscoveryAssumption DEF Init, Versions
  <1>1. usable \in [Hubs -> SUBSET Versions]
    OBVIOUS
  <1>2. job \in [Callers -> [key : URLs, document : Versions]]
    BY NoJobType
  <1>3. cache \in [URLs -> SUBSET Versions] /\ \A url \in URLs : cache[url] = {}
    OBVIOUS
  <1>4. returned \in [Hubs -> SUBSET Versions] /\ published \in [Hubs -> Versions]
    OBVIOUS
  <1> QED
    BY <1>1, <1>2, <1>3, <1>4 DEF TypeOK, JobInv

LEMMA KeyType ==
    ASSUME NEW url \in URLs, url[1] # Blank
    PROVE  /\ Key(url) = <<url[1], "">> /\ Key(url) \in URLs /\ Key(url)[1] = url[1]
           /\ Key(url)[2] = "" /\ url[1] \in Hubs
  BY DEF URLs, Key

LEMMA KeyParts ==
    ASSUME NEW h, NEW key, key = <<h, "">>
    PROVE  key[1] = h /\ key[2] = "" /\ key = <<key[1], "">>
  OBVIOUS

LEMMA JobType ==
    ASSUME TypeOK, JobInv, NEW c \in Callers, pc[c] # "idle"
    PROVE  /\ job[c].key \in URLs /\ job[c].document \in Versions
           /\ job[c].key[1] \in Hubs /\ job[c].key = <<job[c].key[1], "">>
           /\ job[c].key[2] = ""
  <1>1. job[c] \in [key : URLs, document : Versions]
    BY DEF TypeOK
  <1>2. PICK h \in Hubs : job[c].key = <<h, "">>
    BY DEF JobInv
  <1>3. job[c].key[1] = h /\ job[c].key[2] = "" /\ job[c].key = <<job[c].key[1], "">>
    BY <1>2, KeyParts, Zenon
  <1> QED
    BY <1>1, <1>3

\* One action at a time: the type and the key of the call under way.
LEMMA TypeStep == TypeOK /\ JobInv /\ [Next]_vars => TypeOK' /\ JobInv'
  <1> SUFFICES ASSUME TypeOK, JobInv, [Next]_vars PROVE TypeOK' /\ JobInv'
    OBVIOUS
  <1> USE DiscoveryAssumption DEF TypeOK, JobInv, hub, Versions, Return
  <1>1. ASSUME NEW c \in Callers, NEW url \in URLs, Hit(c, url)
        PROVE  TypeOK' /\ JobInv'
    <2>1. url[1] \in Hubs /\ Key(url) \in URLs
      BY <1>1, KeyType DEF Hit
    <2>2. PICK v \in cache[Key(url)] : Return(url[1], v)
      BY <1>1 DEF Hit
    <2>3. v \in Versions
      BY <2>1, <2>2
    <2>4. returned' \in [Hubs -> SUBSET Versions]
      BY <2>1, <2>2, <2>3
    <2> QED
      BY <1>1, <2>4 DEF Hit
  <1>2. ASSUME NEW c \in Callers, NEW url \in URLs, Miss(c, url)
        PROVE  TypeOK' /\ JobInv'
    <2>1. Key(url) = <<url[1], "">> /\ url[1] \in Hubs /\ Key(url) \in URLs
      BY <1>2, KeyType DEF Miss
    <2> QED
      <3>1. job' \in [Callers -> [key : URLs, document : Versions]]
        BY <1>2, <2>1 DEF Miss
      <3>2. pc' \in [Callers -> {"idle", "fetching", "fetched"}]
        BY <1>2 DEF Miss
      <3>3. job'[c].key = Key(url) /\ \A d \in Callers \ {c} : job'[d] = job[d] /\ pc'[d] = pc[d]
        BY <1>2 DEF Miss
      <3>4. JobInv'
        <4>1. \E h \in Hubs : job'[c].key = <<h, "">>
          BY <2>1, <3>3, Zenon
        <4>2. ASSUME NEW d \in Callers \ {c}, pc'[d] # "idle"
              PROVE  \E h \in Hubs : job'[d].key = <<h, "">>
          <5>1. job'[d] = job[d] /\ pc[d] # "idle"
            BY <3>3, <4>2
          <5>2. \E h \in Hubs : job[d].key = <<h, "">>
            BY <5>1, Zenon DEF JobInv
          <5> QED
            BY <5>1, <5>2, Zenon
        <4> QED
          BY <4>1, <4>2, Zenon DEF JobInv
      <3> QED
        BY <1>2, <3>1, <3>2, <3>4 DEF Miss
  <1>3. ASSUME NEW c \in Callers, Fetch(c) PROVE TypeOK' /\ JobInv'
    <2>1. job[c].key[1] \in Hubs
      BY <1>3, JobType DEF Fetch
    <2> QED
      BY <1>3, <2>1 DEF Fetch
  <1> USE NoJobType
  <1>4. ASSUME NEW c \in Callers, Keep(c) PROVE TypeOK' /\ JobInv'
    <2>1. /\ job[c].key[1] \in Hubs /\ job[c].key[2] = "" /\ job[c].key \in URLs
          /\ job[c].document \in Versions
      BY <1>4, JobType DEF Keep
    <2> QED
      BY <1>4, <2>1 DEF Keep
  <1>5. ASSUME NEW c \in Callers, Reject(c) \/ GiveUp(c) PROVE TypeOK' /\ JobInv'
    <2>1. Fail(c)
      BY <1>5 DEF Reject, GiveUp
    <2>2. job' \in [Callers -> [key : URLs, document : Versions]]
      BY <2>1 DEF Fail
    <2>3. pc' \in [Callers -> {"idle", "fetching", "fetched"}] /\ JobInv'
      BY <2>1 DEF Fail
    <2> QED
      BY <2>1, <2>2, <2>3 DEF Fail
  <1>6. ASSUME NEW h \in Hubs, NEW good \in BOOLEAN, Republish(h, good)
        PROVE  TypeOK' /\ JobInv'
    <2>1. published[h] + 1 \in Versions
      <3>1. published[h] \in Versions /\ published[h] < MaxVersion
        BY <1>6 DEF Republish
      <3> QED
        BY <3>1, NextVersion
    <2> published' \in [Hubs -> Versions]
      BY <1>6, <2>1 DEF Republish
    <2>2. usable' \in [Hubs -> SUBSET Versions]
      BY <1>6, <2>1 DEF Republish
    <2> QED
      BY <1>6, <2>1, <2>2 DEF Republish
  <1>7. CASE UNCHANGED vars
    BY <1>7 DEF vars
  <1> HIDE DEF TypeOK, JobInv, hub, Versions, Return
  <1> QED
    BY <1>1, <1>2, <1>3, <1>4, <1>5, <1>6, <1>7 DEF Next

\* What is returned, and what is in the cache, was accepted.
RegistryInv ==
    \A h \in Hubs : returned[h] \cup cache[<<h, "">>] \subseteq usable[h]

LEMMA HubKey ==
    ASSUME NEW h \in Hubs
    PROVE  <<h, "">> \in URLs
  BY DEF URLs

LEMMA RegistryStep == TypeOK /\ JobInv /\ RegistryInv /\ [Next]_vars => RegistryInv'
  <1> SUFFICES ASSUME TypeOK, JobInv, RegistryInv, [Next]_vars, NEW h \in Hubs
               PROVE  (returned[h] \cup cache[<<h, "">>] \subseteq usable[h])'
    BY DEF RegistryInv
  <1>0. /\ <<h, "">> \in URLs /\ returned \in [Hubs -> SUBSET Versions]
        /\ cache \in [URLs -> SUBSET Versions] /\ usable \in [Hubs -> SUBSET Versions]
        /\ returned[h] \subseteq usable[h] /\ cache[<<h, "">>] \subseteq usable[h]
    BY HubKey DEF TypeOK, RegistryInv
  <1> USE <1>0 DEF hub, Return
  <1>1. ASSUME NEW c \in Callers, NEW url \in URLs, Hit(c, url)
        PROVE  (returned[h] \cup cache[<<h, "">>] \subseteq usable[h])'
    <2>1. PICK v \in cache[Key(url)] : Return(url[1], v)
      BY <1>1 DEF Hit
    <2>2. url[1] = h => v \in usable[h]
      BY <2>1 DEF Key
    <2>3. returned'[h] \subseteq returned[h] \cup (IF url[1] = h THEN {v} ELSE {})
      BY <2>1
    <2> QED
      BY <1>1, <2>2, <2>3 DEF Hit
  <1>2. ASSUME NEW c \in Callers, Keep(c)
        PROVE  (returned[h] \cup cache[<<h, "">>] \subseteq usable[h])'
    <2> DEFINE g == job[c].key[1]
    <2>1. g \in Hubs /\ job[c].key = <<g, "">> /\ job[c].document \in usable[g]
      BY <1>2, JobType DEF Keep, Accepted
    <2>a. /\ cache' = [cache EXCEPT ![<<g, "">>] = {job[c].document}]
          /\ returned' = [returned EXCEPT ![g] = @ \cup {job[c].document}]
      BY <1>2, <2>1 DEF Keep
    <2> HIDE DEF g
    <2>2. returned'[h] \subseteq usable[h]
      BY <2>1, <2>a
    <2>3. cache'[<<h, "">>] \subseteq usable[h]
      BY <2>1, <2>a
    <2> QED
      BY <1>2, <2>2, <2>3 DEF Keep
  <1>3. ASSUME NEW g \in Hubs, NEW good \in BOOLEAN, Republish(g, good)
        PROVE  (returned[h] \cup cache[<<h, "">>] \subseteq usable[h])'
    <2>1. usable[h] \subseteq usable'[h]
      BY <1>3 DEF Republish
    <2> QED
      BY <1>3, <2>1 DEF Republish
  <1>4. ASSUME NEW c \in Callers, Fetch(c) \/ Reject(c) \/ GiveUp(c)
        PROVE  (returned[h] \cup cache[<<h, "">>] \subseteq usable[h])'
    BY <1>4 DEF Fetch, Reject, GiveUp, Fail
  <1>5. ASSUME NEW c \in Callers, NEW url \in URLs, Miss(c, url)
        PROVE  (returned[h] \cup cache[<<h, "">>] \subseteq usable[h])'
    BY <1>5 DEF Miss
  <1>6. CASE UNCHANGED vars
    BY <1>6 DEF vars
  <1> HIDE DEF hub, Return
  <1> QED
    BY <1>1, <1>2, <1>3, <1>4, <1>5, <1>6 DEF Next

\* A lone goroutine has been told what is in the cache, and fetches only what
\* is not.
CacheInv ==
    /\ \A h \in Hubs : returned[h] \subseteq cache[<<h, "">>]
    /\ \A url \in URLs : \A v, w \in cache[url] : v = w
    /\ \A c \in Callers : pc[c] # "idle" => cache[job[c].key] = {}

LEMMA CacheStep ==
    ASSUME \A c, d \in Callers : c = d
    PROVE  TypeOK /\ JobInv /\ CacheInv /\ [Next]_vars => CacheInv'
  <1> SUFFICES ASSUME TypeOK, JobInv, CacheInv, [Next]_vars PROVE CacheInv'
    OBVIOUS
  <1>0. /\ \A h \in Hubs : <<h, "">> \in URLs
        /\ returned \in [Hubs -> SUBSET Versions] /\ cache \in [URLs -> SUBSET Versions]
        /\ job \in [Callers -> [key : URLs, document : Versions]]
        /\ pc \in [Callers -> {"idle", "fetching", "fetched"}]
    BY HubKey DEF TypeOK
  <1> USE <1>0 DEF hub, Return
  <1>1. ASSUME NEW c \in Callers, NEW url \in URLs, Hit(c, url) PROVE CacheInv'
    <2>1. PICK v \in cache[Key(url)] : Return(url[1], v)
      BY <1>1 DEF Hit
    <2>2. url[1] \in Hubs /\ v \in cache[<<url[1], "">>]
      BY <1>1, <2>1, KeyType DEF Hit, Key
    <2>3. \A h \in Hubs : returned'[h] \subseteq cache[<<h, "">>]
      BY <2>1, <2>2 DEF CacheInv
    <2> QED
      BY <1>1, <2>3 DEF Hit, CacheInv
  <1>2. ASSUME NEW c \in Callers, NEW url \in URLs, Miss(c, url) PROVE CacheInv'
    <2>1. job'[c].key = Key(url) /\ cache[Key(url)] = {} /\ cache' = cache
      BY <1>2 DEF Miss
    <2>2. \A d \in Callers : cache'[job'[d].key] = {}
      BY <2>1
    <2> QED
      BY <1>2, <2>2 DEF Miss, CacheInv
  <1>3. ASSUME NEW c \in Callers, Fetch(c) PROVE CacheInv'
    <2>1. job'[c].key = job[c].key
      BY <1>3 DEF Fetch
    <2> QED
      BY <1>3, <2>1 DEF Fetch, CacheInv
  <1>4. ASSUME NEW c \in Callers, Keep(c) PROVE CacheInv'
    <2> DEFINE g == job[c].key[1]
    <2>1. g \in Hubs /\ job[c].key = <<g, "">>
      BY <1>4, JobType DEF Keep
    <2>2. cache[<<g, "">>] = {} /\ returned[g] = {}
      BY <1>4, <2>1 DEF Keep, CacheInv
    <2>3. /\ cache' = [cache EXCEPT ![<<g, "">>] = {job[c].document}]
          /\ returned' = [returned EXCEPT ![g] = @ \cup {job[c].document}]
      BY <1>4, <2>1 DEF Keep
    <2>4. \A d \in Callers : pc'[d] = "idle"
      BY <1>4 DEF Keep
    <2> HIDE DEF g
    <2>5. ASSUME NEW h \in Hubs PROVE returned'[h] \subseteq cache'[<<h, "">>]
      <3>1. CASE h = g
        <4>1. returned'[g] = returned[g] \cup {job[c].document}
          BY <2>1, <2>3
        <4>2. cache'[<<g, "">>] = {job[c].document}
          BY <2>1, <2>3
        <4> QED
          BY <2>2, <3>1, <4>1, <4>2
      <3>2. CASE h # g
        <4>1. <<h, "">> # <<g, "">>
          BY <3>2
        <4>2. returned'[h] = returned[h] /\ cache'[<<h, "">>] = cache[<<h, "">>]
          BY <2>1, <2>3, <3>2, <4>1
        <4> QED
          BY <4>2 DEF CacheInv
      <3> QED
        BY <3>1, <3>2
    <2>6. \A url \in URLs : \A v, w \in cache'[url] : v = w
      BY <2>1, <2>3 DEF CacheInv
    <2> QED
      BY <2>4, <2>5, <2>6 DEF CacheInv
  <1>5. ASSUME NEW c \in Callers, Reject(c) \/ GiveUp(c) PROVE CacheInv'
    <2>1. Fail(c)
      BY <1>5 DEF Reject, GiveUp
    <2>2. \A d \in Callers : pc'[d] = "idle"
      BY <2>1 DEF Fail
    <2> QED
      BY <2>1, <2>2 DEF Fail, CacheInv
  <1>6. ASSUME NEW h \in Hubs, NEW good \in BOOLEAN, Republish(h, good) PROVE CacheInv'
    BY <1>6 DEF Republish, CacheInv
  <1>7. CASE UNCHANGED vars
    BY <1>7 DEF vars, CacheInv
  <1> HIDE DEF hub, Return
  <1> QED
    BY <1>1, <1>2, <1>3, <1>4, <1>5, <1>6, <1>7 DEF Next

\* The state of Discover's callers and cache is well formed.
THEOREM DiscoveryTypeCorrect == Spec => [](TypeOK /\ JobInv)
  BY TypeInit, TypeStep, PTL DEF Spec

\* However many goroutines miss the cache together, and however often a hub is
\* misconfigured, Discover returns only documents that name a registry.
THEOREM DocumentsHaveRegistry == Spec => []EveryDocumentHasRegistry
  <1>1. Init => RegistryInv
    BY HubKey DEF Init, RegistryInv
  <1>2. RegistryInv => EveryDocumentHasRegistry
    BY DEF RegistryInv, EveryDocumentHasRegistry
  <1> QED
    BY <1>1, <1>2, RegistryStep, DiscoveryTypeCorrect, PTL DEF Spec

\* A process with one goroutine is told one document per hub for as long as it
\* lives, whatever the hub publishes and however its URL is spelled.
THEOREM DocumentsStay ==
    ASSUME \A c, d \in Callers : c = d
    PROVE  Spec => []OneDocumentPerHub
  <1>1. ASSUME Init PROVE CacheInv
    <2>1. \A url \in URLs : cache[url] = {}
      BY <1>1 DEF Init
    <2>2. /\ \A h \in Hubs : returned[h] = {}
          /\ \A c \in Callers : pc[c] = "idle"
      BY <1>1 DEF Init
    <2> QED
      BY <2>1, <2>2, HubKey DEF CacheInv
  <1>2. CacheInv => OneDocumentPerHub
    BY HubKey DEF CacheInv, OneDocumentPerHub
  <1>3. TypeOK /\ JobInv /\ CacheInv /\ [Next]_vars => CacheInv'
    BY CacheStep
  <1> QED
    BY <1>1, <1>2, <1>3, DiscoveryTypeCorrect, PTL DEF Spec
=============================================================================
