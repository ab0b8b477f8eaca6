------------------------------ MODULE Discovery ------------------------------
(***************************************************************************)
(* hub.Discover (src/hub/discover.go) and the cache it shares between the  *)
(* goroutines of one process: look the hub up, fetch its document over the *)
(* network, and only then store it.  The cache is empty when the process   *)
(* starts and forgets nothing.  The hub (external) may change its document *)
(* at any time, and may be misconfigured for a while.                      *)
(***************************************************************************)
EXTENDS Naturals

CONSTANTS
    Callers,     \* goroutines
    Hubs,        \* hubs, by their URL without slashes at the end
    MaxVersion   \* bound on the versions of a hub's document

ASSUME DiscoveryAssumption == MaxVersion \in Nat

VARIABLES
    published,   \* per hub, the version of the document it serves
    usable,      \* per hub, the versions that advertise registry_url
    cache,       \* discoveryCache: per key, {} or {the version stored}
    pc, job,     \* where each caller is, and with which key and document
    returned     \* per hub, the versions Discover has returned

hub == <<published, usable>>
vars == <<hub, cache, pc, job, returned>>

\* A base URL is a hub and a number of slashes after it; no hub is "".
Blank == "blank"

URLs == (Hubs \cup {Blank}) \X {"", "/", "//"}

\* Not the code's: a document is filed under the URL as it was spelled.
KeyAsSpelled(url) == url

\* strings.TrimRight(baseURL, "/").
Key(url) == <<url[1], "">>

Versions == 0..MaxVersion

NoJob == [key |-> <<Blank, "">>, document |-> 0]

TypeOK ==
    /\ published \in [Hubs -> Versions]
    /\ usable \in [Hubs -> SUBSET Versions]
    /\ cache \in [URLs -> SUBSET Versions]
    /\ \A url \in URLs : cache[url] # {} => url[2] = ""
    /\ pc \in [Callers -> {"idle", "fetching", "fetched"}]
    /\ job \in [Callers -> [key : URLs, document : Versions]]
    /\ returned \in [Hubs -> SUBSET Versions]

Init ==
    /\ published = [h \in Hubs |-> 0]
    /\ usable \in [Hubs -> {{}, {0}}]
    /\ cache = [u \in URLs |-> {}]
    /\ pc = [c \in Callers |-> "idle"]
    /\ job = [c \in Callers |-> NoJob]
    /\ returned = [h \in Hubs |-> {}]

-----------------------------------------------------------------------------

Return(h, v) == returned' = [returned EXCEPT ![h] = @ \cup {v}]

\* The call ends in an error: no base URL, a request that failed, an answer
\* that is no document, or a document without registry_url.
Fail(c) ==
    /\ pc' = [pc EXCEPT ![c] = "idle"]
    /\ job' = [job EXCEPT ![c] = NoJob]
    /\ UNCHANGED <<hub, cache, returned>>

\* The document is in the cache.
Hit(c, url) ==
    /\ pc[c] = "idle" /\ url[1] # Blank
    /\ \E v \in cache[Key(url)] : Return(url[1], v)
    /\ UNCHANGED <<hub, cache, pc, job>>

Miss(c, url) ==
    /\ pc[c] = "idle" /\ url[1] # Blank
    /\ cache[Key(url)] = {}
    /\ pc' = [pc EXCEPT ![c] = "fetching"]
    /\ job' = [job EXCEPT ![c].key = Key(url)]
    /\ UNCHANGED <<hub, cache, returned>>

\* The hub's answer arrives.
Fetch(c) ==
    /\ pc[c] = "fetching"
    /\ pc' = [pc EXCEPT ![c] = "fetched"]
    /\ job' = [job EXCEPT ![c].document = published[job[c].key[1]]]
    /\ UNCHANGED <<hub, cache, returned>>

\* Not the code's: any document will do.
AcceptedAsIs(c) == TRUE

\* registry_url must be there.
Accepted(c) == job[c].document \in usable[job[c].key[1]]

\* discoveryCache.Store replaces what another caller may have stored meanwhile.
Keep(c) ==
    /\ pc[c] = "fetched" /\ Accepted(c)
    /\ cache' = [cache EXCEPT ![job[c].key] = {job[c].document}]
    /\ Return(job[c].key[1], job[c].document)
    /\ pc' = [pc EXCEPT ![c] = "idle"]
    /\ job' = [job EXCEPT ![c] = NoJob]
    /\ UNCHANGED hub

Reject(c) == pc[c] = "fetched" /\ ~Accepted(c) /\ Fail(c)

GiveUp(c) == pc[c] = "fetching" /\ Fail(c)

\* The hub's operator publishes another document (external).
Republish(h, good) ==
    /\ published[h] < MaxVersion
    /\ published' = [published EXCEPT ![h] = @ + 1]
    /\ usable' = [usable EXCEPT ![h] = IF good THEN @ \cup {published[h] + 1} ELSE @]
    /\ UNCHANGED <<cache, pc, job, returned>>

Next ==
    \/ \E c \in Callers, url \in URLs : Hit(c, url) \/ Miss(c, url)
    \/ \E c \in Callers : Fetch(c) \/ Keep(c) \/ Reject(c) \/ GiveUp(c)
    \/ \E h \in Hubs, good \in BOOLEAN : Republish(h, good)

Spec == Init /\ [][Next]_vars

-----------------------------------------------------------------------------

\* Every step of one publish is told the same registry: for as long as the
\* process lives, all the spellings of a hub's URL give one document.
OneDocumentPerHub ==
    \A h \in Hubs : \A v, w \in returned[h] : v = w

\* A hub that is misconfigured for a while is not remembered as such: what
\* Discover returns, from the network or the cache, advertises a registry.
EveryDocumentHasRegistry == \A h \in Hubs : returned[h] \subseteq usable[h]
=============================================================================
