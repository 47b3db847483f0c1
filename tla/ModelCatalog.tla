---------------------------- MODULE ModelCatalog ----------------------------
(***************************************************************************)
(* The models a provider offers (gui/config.go, provider.models): fetched   *)
(* from the provider's base URL, cached for a while under the provider's    *)
(* name, with the recommended picks when the list cannot be fetched.  A     *)
(* provider that has no catalog offers its picks only.                      *)
(***************************************************************************)
EXTENDS Naturals, FiniteSets

CONSTANTS
    Requests,    \* requests of the browser (handleModels)
    URLs,        \* base URLs the user may configure
    Listed,      \* url -> the entries it lists: [id, batch, tools]
    Recommended, \* ids of the recommended picks
    Picks,       \* those of a provider without a catalog
    TTL,         \* catalogTTL
    Timeout,     \* how long a fetch may take
    MaxTime, MaxChanges, Nothing

VARIABLES
    url,     \* the configured base URL
    cache,   \* catalogCache[p.Name]: [models, fetched, from], or Nothing
    request, \* request -> [at, url, asked]
    answer,  \* request -> [models, error, catalog, asked, from, listed, at], or Nothing
    now,
    bounds   \* changes of the configuration so far

vars == <<url, cache, request, answer, now, bounds>>

Idle == [at |-> "idle", url |-> Nothing, asked |-> 0]

Init ==
    /\ url \in URLs
    /\ cache = Nothing
    /\ request = [r \in Requests |-> Idle]
    /\ answer = [r \in Requests |-> Nothing]
    /\ now = 0 /\ bounds = 0

(* fetchModels leaves out batch models and, if the entry says what the      *)
(* model can do, models that cannot call tools.                             *)
Offered(u) == {entry.id : entry \in {e \in Listed[u] : ~e.batch /\ e.tools # "no"}}

FreshEntry(c) == c # Nothing /\ now - c.fetched < TTL

Answer(r, models, error, asked, from, listed) ==
    answer' = [answer EXCEPT ![r] = [models |-> models, error |-> error, catalog |-> TRUE, from |-> from,
                                     listed |-> listed, at |-> now, asked |-> asked]]

(* The provider that is asked about has no catalog: no error, and the cache *)
(* is left alone.                                                           *)
AskPicks(r) ==
    /\ request[r] = Idle /\ answer[r] = Nothing
    /\ answer' = [answer EXCEPT ![r] = [models |-> Picks, error |-> FALSE, catalog |-> FALSE, from |-> url,
                                        listed |-> now, at |-> now, asked |-> url]]
    /\ UNCHANGED <<url, cache, request, now, bounds>>

(* handleModels reads the configuration; models looks the cache up under    *)
(* its lock.                                                                *)
AskCached(r) ==
    /\ request[r] = Idle /\ answer[r] = Nothing
    /\ FreshEntry(cache)
    /\ Answer(r, cache.models, FALSE, url, cache.from, cache.listed)
    /\ UNCHANGED <<url, cache, request, now, bounds>>

AskFetch(r) ==
    /\ request[r] = Idle /\ answer[r] = Nothing
    /\ ~FreshEntry(cache)
    /\ request' = [request EXCEPT ![r] = [at |-> "fetching", url |-> url, asked |-> now]]
    /\ UNCHANGED <<url, cache, answer, now, bounds>>

(* The list arrives, and is cached under the lock. *)
Fetched(r) ==
    /\ request[r].at = "fetching"
    /\ LET u == request[r].url
       IN  \E listed \in request[r].asked .. now :
            /\ cache' = [models |-> Offered(u), fetched |-> now, from |-> u, listed |-> listed]
            /\ Answer(r, Offered(u), FALSE, u, u, listed)
    /\ request' = [request EXCEPT ![r] = Idle]
    /\ UNCHANGED <<url, now, bounds>>

(* A failure leaves the cache as it is. *)
CacheAfterFailure(r) == cache

FetchFails(r) ==
    /\ request[r].at = "fetching"
    /\ Answer(r, Recommended, TRUE, request[r].url, request[r].url, now)
    /\ cache' = CacheAfterFailure(r)
    /\ request' = [request EXCEPT ![r] = Idle]
    /\ UNCHANGED <<url, now, bounds>>

(* The browser takes the answer. *)
Take(r) ==
    /\ answer[r] # Nothing
    /\ answer' = [answer EXCEPT ![r] = Nothing]
    /\ UNCHANGED <<url, cache, request, now, bounds>>

(* The user configures another base URL. *)
ChangeURL ==
    /\ bounds < MaxChanges
    /\ bounds' = bounds + 1
    /\ url' \in URLs \ {url}
    /\ UNCHANGED <<cache, request, answer, now>>

(* Time passes; a fetch ends, one way or another, before its timeout.       *)
Tick ==
    /\ now < MaxTime
    /\ \A r \in Requests : request[r].at = "fetching" => now - request[r].asked < Timeout
    /\ now' = now + 1
    /\ UNCHANGED <<url, cache, request, answer, bounds>>

Next ==
    \/ \E r \in Requests : AskPicks(r) \/ AskCached(r) \/ AskFetch(r) \/ Fetched(r) \/ FetchFails(r) \/ Take(r)
    \/ ChangeURL \/ Tick

Spec == Init /\ [][Next]_vars

-----------------------------------------------------------------------------
(* Properties. *)

Answers == {answer[r] : r \in Requests} \ {Nothing}

(* An answer without an error, of a provider that has a catalog, lists what *)
(* the provider listed no longer ago than a list is cached and a fetch may  *)
(* take, also when requests overlap and an older list is stored after a     *)
(* newer one.                                                               *)
AnswerIsFresh == \A a \in Answers : a.catalog /\ ~a.error => a.at - a.listed <= TTL + Timeout

(* The comment on provider.models: "limited to models that can call tools,  *)
(* which the agent needs". That is so of lists that were fetched; the picks *)
(* are offered as they are, together with the error or for a provider that  *)
(* has no catalog, and never out of the cache.                              *)
OffersOnlyToolModels ==
    \A a \in Answers :
        IF ~a.catalog THEN a.models = Picks
        ELSE IF a.error THEN a.models = Recommended
        ELSE a.models = {e.id : e \in {e \in Listed[a.from] : e.tools # "no" /\ ~e.batch}}
=============================================================================
