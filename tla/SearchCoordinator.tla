-------------------------- MODULE SearchCoordinator --------------------------
(***************************************************************************)
(* One SearchCoordinator answering searches one after the other            *)
(* (api/search_coordinator.py): the request cache of its session, the      *)
(* pause of _respect_retry_after, the retry loop, the processing cache and *)
(* `last_response'.  execute_with_retry is the module RetryHandler.        *)
(*                                                                         *)
(* A request is for a page, perhaps with extra parameters, or a parameter  *)
(* search without a page.  The request cache knows requests apart, the     *)
(* processing cache only its keys, which leave the extra parameters of a   *)
(* page out; the hash of the body is what tells them apart there.          *)
(*                                                                         *)
(* A body is of the request that was answered and of a version, a number   *)
(* that the provider increases; its hash tells bodies apart, and an error  *)
(* has NoBody.  A schema is the fingerprint of the parser, extractor and      *)
(* processor in place.  Waiting for the rate limiter only delays a         *)
(* request, which the clock already allows.  Handling a response takes no  *)
(* time.  Every request goes to the base URL.                              *)
(***************************************************************************)
EXTENDS Integers

CONSTANTS
    Requests,       \* [page |-> a number or NoPage, extra |-> other parameters]
    Schemas,        \* fingerprints of components that process responses
    RequestFlags,   \* the values of from_request_cache that searches use
    ProcessFlags,   \* the values of from_process_cache that searches use
    Cacheable,      \* statuses the session stores: {200}, {} without a cache
    Faults,         \* may the cache backends fail?
    MaxVersion,     \* bound on the changes of the provider's content
    MaxRetries, BackoffFactor, MaxBackoff, RaiseOnError, ValidStatuses,
    RetryStatuses, Responses, NoResponse, Horizon   \* of RetryHandler

Nothing  == 0
NoPage   == 0
Versions == 1..MaxVersion
NoBody   == [version |-> Nothing]
NoResult == [kind |-> "none", body |-> NoBody]
NoHeader == [form |-> "none", after |-> 0]

VARIABLES
    rpc, attempts, response, delay, outcome, sent, since, raised,
    cpc,            \* where the search is
    call,           \* its arguments: the request and the flags
    body,           \* the request and the version in the response being handled
    wait,           \* what is left of the pause before the request
    server,         \* the version that the provider has
    request_cache,  \* URL |-> the session's stored response: body and header
    process_cache,  \* key |-> the processed response: the body it was made of, age
                    \* of created_at, and the schema it was processed with
    caching,        \* does the cache manager have a storage?
    schema,         \* schema_fingerprint() of the components in place
    last_response,  \* its header and the age of its created_at
    result,         \* what the last search returned: kind and body
    floor,          \* history: the provider's version when the search started
    seen,           \* history: the newest version returned for each request
    quiet,          \* history: what is left of the pause the provider asked
                    \* for, 0 once a search has not refreshed
    rebuilt,        \* history: was the last response rebuilt from the cache?
    undeleted       \* history: did the deletion of the cached request fail?

Retry == INSTANCE RetryHandler

\* The session caches successful answers only.  An answer of the provider that is
\* read from the cache later, its date come closer, is one it may give then.
ASSUME CoordinatorAssumption ==
    /\ Retry!RetryAssumption
    /\ MaxVersion \in Nat \ {0}
    /\ RequestFlags \subseteq BOOLEAN /\ ProcessFlags \subseteq BOOLEAN
    /\ Faults \in BOOLEAN
    /\ Cacheable \subseteq {200}
    /\ Responses \subseteq [status : Nat, form : {"none", "seconds", "date"}, after : Int]
    /\ \A r \in Responses : (r.status = 200 /\ r.form = "date" /\ r.after > 0)
          => [status |-> 200, form |-> "date", after |-> r.after - 1] \in Responses

retryVars == <<rpc, attempts, response, delay, outcome, sent, since, raised>>
caches    == <<request_cache, process_cache, caching, schema>>
history   == <<floor, seen, quiet, rebuilt, undeleted>>
vars      == <<retryVars, cpc, call, body, wait, server, caches, last_response,
               result, history>>

Steps == {"idle", "lookup", "delete", "respect", "waiting", "request", "process"}

Bodies    == [of : Requests, version : Versions]
NotCached == [body |-> NoBody, form |-> "none", after |-> 0]
Unknown   == [body |-> NoBody]
NoRecords == [body |-> NoBody, records |-> "None"]

\* _cache_key_from_url: the URL of a request names all its parameters.
UrlKey(r) == r

\* _create_cache_key: the page of what the coordinator searches for, or the URL
\* for a search without a page.
CacheKey(r) == IF r.page = NoPage THEN UrlKey(r) ELSE [page |-> r.page]
Keys == {CacheKey(r) : r \in Requests}

Init ==
    /\ Retry!Init
    /\ cpc = "idle"
    /\ call \in [what : Requests, request : RequestFlags, process : ProcessFlags]
    /\ body = NoBody
    /\ wait = 0
    /\ server = 1
    /\ request_cache = [r \in Requests |-> NotCached]
    /\ process_cache = [k \in Keys |-> Unknown]
    /\ caching = TRUE /\ schema \in Schemas
    /\ last_response = [form |-> "none", after |-> 0, age |-> Horizon]
    /\ result = NoResult
    /\ floor = 1
    /\ seen = [r \in Requests |-> Nothing]
    /\ quiet = 0 /\ rebuilt = FALSE
    /\ undeleted = FALSE

----------------------------------------------------------------------------
(* fetch() *)

Search(r, fromRequest, fromProcess) ==
    /\ cpc = "idle"
    /\ call' = [what |-> r, request |-> fromRequest, process |-> fromProcess]
    /\ cpc' = IF fromRequest THEN "lookup" ELSE "delete"
    /\ floor' = server /\ undeleted' = FALSE
    /\ quiet' = IF fromRequest THEN 0 ELSE quiet
    /\ result' = NoResult
    /\ UNCHANGED <<retryVars, body, wait, server, caches, last_response, seen, rebuilt>>

\* get_cached_request() finds the page; `response' is then what fetch() returns.
LookupHit ==
    LET hit == request_cache[call.what]
    IN  /\ cpc = "lookup" /\ hit # NotCached
        /\ cpc' = "process"
        /\ body' = hit.body
        /\ response' = [status |-> 200, form |-> hit.form, after |-> hit.after]
        /\ UNCHANGED <<rpc, attempts, delay, outcome, sent, since, raised, call,
                       wait, server, caches, last_response, result, history>>

\* It does not, or the key cannot be made and the error is logged.
LookupMiss ==
    /\ cpc = "lookup" /\ (request_cache[call.what] = NotCached \/ Faults)
    /\ cpc' = "request"
    /\ Retry!BeginCall
    /\ UNCHANGED <<call, body, wait, server, caches, last_response, result, history>>

\* The backend raises anything else: search() turns it into a NonResponse.
LookupRaises ==
    /\ cpc = "lookup" /\ Faults
    /\ cpc' = "idle"
    /\ result' = [NoResult EXCEPT !.kind = "non"]
    /\ UNCHANGED <<retryVars, call, body, wait, server, caches, last_response, history>>

\* Mutant: the cached request is left where it is.
DeleteNothing ==
    /\ cpc = "delete"
    /\ cpc' = "respect"
    /\ UNCHANGED <<retryVars, call, body, wait, server, caches,
                   last_response, result, history>>

\* _delete_cached_request(): every exception is logged and swallowed.
DeleteCachedRequest ==
    /\ cpc = "delete"
    /\ cpc' = "respect"
    /\ \/ /\ request_cache' = [request_cache EXCEPT ![call.what] = NotCached]
          /\ UNCHANGED <<undeleted, quiet>>
       \/ Faults /\ undeleted' = TRUE /\ quiet' = 0 /\ UNCHANGED request_cache
    /\ UNCHANGED <<retryVars, call, body, wait, server, process_cache, caching, schema,
                   last_response, result, floor, seen, rebuilt>>

\* Mutant of Pause: the last unit is dropped.
PauseShort ==
    IF last_response.form = "none" \/ last_response.after <= last_response.age THEN 0
    ELSE last_response.after - last_response.age - 1

\* The seconds _wait(delay, timestamp) sleeps.  A header in seconds is counted
\* from created_at; a date is both the delay (from now) and the timestamp, so
\* what has `elapsed' is minus the delay.
Pause ==
    LET n == last_response.after
        elapsed == IF last_response.form = "date" THEN -n ELSE last_response.age
    IN  IF last_response.form = "none" \/ n = 0 \/ n - elapsed < 0 THEN 0
        ELSE n - elapsed

RespectRetryAfter ==
    /\ cpc = "respect"
    /\ cpc' = "waiting"
    /\ wait' = Pause
    /\ UNCHANGED <<retryVars, call, body, server, caches, last_response, result, history>>

WaitOver ==
    /\ cpc = "waiting" /\ wait = 0
    /\ cpc' = "request"
    /\ Retry!BeginCall
    /\ UNCHANGED <<call, body, wait, server, caches, last_response, result, history>>

----------------------------------------------------------------------------
(* robust_request(): the retry loop over SearchAPI.search *)

\* The session answers from its cache.
SendCached ==
    LET hit == request_cache[call.what]
    IN  /\ cpc = "request" /\ hit # NotCached
        /\ Retry!RequestReturns([status |-> 200, form |-> hit.form, after |-> hit.after])
        /\ body' = hit.body
        /\ UNCHANGED <<cpc, call, wait, server, caches, last_response, result, history>>

\* The provider answers; a cacheable status is stored.
SendNetwork(r) ==
    /\ cpc = "request" /\ request_cache[call.what] = NotCached
    /\ Retry!RequestReturns(r)
    /\ body' = IF r.status = 200 THEN [of |-> call.what, version |-> server] ELSE NoBody
    /\ request_cache' =
          IF r.status \in Cacheable
          THEN [request_cache EXCEPT ![call.what] =
                   [body |-> body', form |-> r.form, after |-> r.after]]
          ELSE request_cache
    /\ quiet' = IF r.form # "none" /\ r.after > 0 THEN r.after ELSE 0
    /\ rebuilt' = FALSE
    /\ UNCHANGED <<cpc, call, wait, server, process_cache, caching, schema, last_response,
                   result, floor, seen, undeleted>>

\* The other steps of execute_with_retry.
Retrying ==
    /\ cpc = "request"
    /\ \/ Retry!RequestRaises \/ Retry!Accept \/ Retry!GiveUp \/ Retry!Exhaust
       \/ Retry!PrepareRetry \/ Retry!Wake
    /\ UNCHANGED <<cpc, call, body, wait, server, caches, last_response, result, history>>

\* Mutant: the failed fetch is started again.
RequestRestarted ==
    /\ cpc = "request" /\ outcome \in {"failed", "invalid"}
    /\ Retry!EndCall
    /\ cpc' = IF call.request THEN "lookup" ELSE "delete"
    /\ UNCHANGED <<call, body, wait, server, caches, last_response, result, history>>

\* The call is over, and its local variables with it.
Forget ==
    /\ rpc' = "idle" /\ attempts' = 0 /\ response' = NoResponse /\ delay' = 0
    /\ outcome' = "none" /\ sent' = 0 /\ since' = Horizon /\ raised' = FALSE
    /\ body' = NoBody

\* RequestFailedException, or its subclass InvalidResponseException: a
\* NonResponse, and last_response stays as it was.
RequestFailed ==
    /\ cpc = "request" /\ rpc = "done" /\ outcome \in {"failed", "invalid"}
    /\ Forget
    /\ cpc' = "idle"
    /\ result' = [NoResult EXCEPT !.kind = "non"]
    /\ UNCHANGED <<call, wait, server, caches, last_response, history>>

RequestAnswered ==
    /\ cpc = "request" /\ outcome = "returned"
    /\ Retry!EndCall
    /\ cpc' = "process"
    /\ UNCHANGED <<call, body, wait, server, caches, last_response, result, history>>

----------------------------------------------------------------------------
(* _process_response() over ResponseCoordinator.handle_response() *)

Entry == process_cache[CacheKey(call.what)]

\* verify_cache
Known == caching /\ Entry # Unknown

\* _verify_cached_response
HasRecords == Entry # NoRecords

\* Mutant of SameHash: the hash is of the version only.
SameVersion == body # NoBody /\ Entry.body.version = body.version

\* _verify_hash: the body of the entry is the body of the response at hand.
SameHash == body # NoBody /\ Entry.body = body

\* _validate_cached_schema, the fingerprint being validated by default
SameSchema == Entry.schema = schema

\* _from_cache() finds a processed response that still holds.
CacheValid == Known /\ HasRecords /\ SameHash /\ SameSchema

Return(kind, content, age) ==
    /\ cpc' = "idle"
    /\ result' = [kind |-> kind, body |-> content]
    /\ last_response' = [form |-> response.form, after |-> response.after, age |-> age]
    /\ seen' = IF content.version > seen[call.what]
               THEN [seen EXCEPT ![call.what] = content.version] ELSE seen
    /\ Forget
    /\ UNCHANGED <<call, wait, server, request_cache, caching, schema, floor, undeleted>>

\* The processed response is rebuilt with the created_at it was stored with.
ReturnCached ==
    /\ cpc = "process" /\ call.process /\ CacheValid
    /\ Return("processed", Entry.body, Entry.age)
    /\ rebuilt' = TRUE
    /\ UNCHANGED <<process_cache, quiet>>

\* update_cache() replaces what the key had; there may be no records at all.
Stores ==
    \/ process_cache' = [process_cache EXCEPT ![CacheKey(call.what)] =
                            [body |-> body, age |-> 0, schema |-> schema]]
    \/ process_cache' = [process_cache EXCEPT ![CacheKey(call.what)] = NoRecords]

\* The response is processed and stored (storing may fail silently).
ReturnProcessed ==
    /\ cpc = "process" /\ response.status = 200
    /\ call.process => ~CacheValid \/ Faults
    /\ Return("processed", body, 0)
    /\ rebuilt' = FALSE /\ UNCHANGED quiet
    /\ IF caching THEN Stores \/ (Faults /\ UNCHANGED process_cache) ELSE UNCHANGED process_cache

\* An error status, or processing or storing raises: an ErrorResponse.
ReturnError ==
    /\ cpc = "process"
    /\ call.process => ~CacheValid \/ Faults
    /\ response.status # 200 \/ Faults
    /\ Return("error", NoBody, 0)
    /\ rebuilt' = FALSE
    /\ UNCHANGED <<process_cache, quiet>>

----------------------------------------------------------------------------
(* What the user does between two searches *)

\* configure_cache(): a manager without a storage, the one there is, or, when
\* it has no storage and one is wanted, a new one.
ConfigureCache(cache_results) ==
    /\ caching' = IF cache_results = "None" THEN caching ELSE cache_results = "True"
    /\ process_cache' = IF caching' /\ caching THEN process_cache ELSE [k \in Keys |-> Unknown]

\* ResponseCoordinator.update(): another processor, parser or extractor.
UpdateResponses(new, cache_results) == schema' = new /\ ConfigureCache(cache_results)

\* SearchCoordinator.update() with an updated ResponseCoordinator: a coordinator
\* that has seen no response yet.
Update(new, cache_results) ==
    /\ cpc = "idle"
    /\ UpdateResponses(new, cache_results)
    /\ last_response' = [form |-> "none", after |-> 0, age |-> Horizon]
    /\ quiet' = 0 /\ rebuilt' = FALSE
    /\ UNCHANGED <<retryVars, cpc, call, body, wait, server, request_cache, result,
                   floor, seen, undeleted>>

\* The processor of the coordinator's own ResponseCoordinator is assigned.
SetProcessor(new) ==
    /\ cpc = "idle" /\ new # schema
    /\ schema' = new
    /\ UNCHANGED <<retryVars, cpc, call, body, wait, server, request_cache, process_cache,
                   caching, last_response, result, history>>

----------------------------------------------------------------------------
ProviderChanges ==
    /\ server < MaxVersion
    /\ server' = server + 1
    /\ UNCHANGED <<retryVars, cpc, call, body, wait, caches, last_response, result, history>>

\* A date comes closer; seconds stay what they are.
Nearer(h) == IF h.form = "date" /\ h.after > 0 THEN [h EXCEPT !.after = @ - 1] ELSE h

Older(n) == IF n < Horizon THEN n + 1 ELSE Horizon

Elapse ==
    /\ cpc # "process" /\ rpc \notin {"judge", "done"}
    /\ Retry!Elapse
    /\ wait' = IF wait > 0 THEN wait - 1 ELSE 0
    /\ quiet' = IF quiet > 0 THEN quiet - 1 ELSE 0
    /\ request_cache' = [r \in Requests |-> Nearer(request_cache[r])]
    /\ process_cache' = [k \in Keys |->
          IF process_cache[k] \in {Unknown, NoRecords} THEN process_cache[k]
          ELSE [process_cache[k] EXCEPT !.age = Older(@)]]
    /\ last_response' = [Nearer(last_response) EXCEPT !.age = Older(@)]
    /\ UNCHANGED <<cpc, call, body, server, caching, schema, result, floor, seen, rebuilt,
                   undeleted>>

Fetching == LookupHit \/ LookupMiss \/ LookupRaises \/ DeleteCachedRequest
            \/ RespectRetryAfter \/ WaitOver
Requesting == SendCached \/ (\E r \in Responses : SendNetwork(r)) \/ Retrying
              \/ RequestFailed \/ RequestAnswered
Handling == ReturnCached \/ ReturnProcessed \/ ReturnError

Working == Fetching \/ Requesting \/ Handling

Next == \/ \E r \in Requests, f \in RequestFlags, g \in ProcessFlags : Search(r, f, g)
        \/ Working
        \/ \E new \in Schemas : SetProcessor(new)
        \/ \E new \in Schemas, c \in {"None", "True", "False"} : Update(new, c)
        \/ ProviderChanges
        \/ Elapse

Spec == Init /\ [][Next]_vars
FairSpec == Spec /\ WF_vars(Working) /\ WF_vars(Elapse)

----------------------------------------------------------------------------
(* Properties *)

TypeOK ==
    /\ Retry!TypeOK
    /\ cpc \in Steps
    /\ call \in [what : Requests, request : RequestFlags, process : ProcessFlags]
    /\ body \in Bodies \cup {NoBody}
    /\ wait \in 0..(2 * Horizon)
    /\ server \in Versions
    /\ \A r \in Requests : request_cache[r].body \in Bodies \cup {NoBody}
    /\ \A k \in Keys : process_cache[k] \notin {Unknown, NoRecords} =>
          /\ caching
          /\ process_cache[k].body \in Bodies /\ process_cache[k].age \in 0..Horizon
          /\ CacheKey(process_cache[k].body.of) = k
    /\ last_response.age \in 0..Horizon
    /\ result.kind \in {"none", "processed", "error", "non"}
    /\ quiet \in 0..Horizon /\ rebuilt \in BOOLEAN

\* A search with from_request_cache=False never returns content older than
\* what the provider had when the search was made: neither cache, nor the
\* session cache inside the retry loop, can give it the old page.  (When the
\* cached request cannot be deleted the error is logged, and the session does
\* answer with the old page.)
RefreshIsFresh ==
    (cpc = "idle" /\ result.kind = "processed" /\ ~call.request /\ ~undeleted)
        => result.body.version >= floor

\* A search returns what was asked for: never the content of another request,
\* though requests share keys of the processing cache; never content older than
\* an earlier search of the request returned, or than the response at hand; and
\* never what other components processed, whichever caches answer and whatever
\* was reconfigured in between.
MonotonicReads ==
    [][(cpc = "process" /\ result'.kind = "processed")
          => /\ result'.body.of = call.what
             /\ result'.body.version >= seen[call.what]
             /\ result'.body = body
             /\ rebuilt' => Entry.schema = schema]_vars

\* Type correctness and freshness, as one invariant.
CoordinatorInv == TypeOK /\ RefreshIsFresh

\* While every search refreshes (from_request_cache=False and the cached request
\* is deleted), the provider is never asked again before the pause it asked for
\* in its last answer is over: across the retries of one search and across
\* searches, whatever failed.  (Unless that answer was replaced by the cached
\* response it equals: see EveryPauseRespected.)
PauseRespected ==
    [][(cpc = "request" /\ rpc = "request" /\ rpc' = "judge"
          /\ request_cache[call.what] = NotCached) => quiet = 0 \/ rebuilt]_vars

\* What _respect_retry_after's docstring promises (search_coordinator.py:836): a
\* response rebuilt from the processing cache pauses the next request as well.
EveryPauseRespected ==
    [][(cpc = "request" /\ rpc = "request" /\ rpc' = "judge"
          /\ request_cache[call.what] = NotCached) => quiet = 0]_vars

\* Every search returns.
SearchReturns == (cpc \in {"lookup", "delete"}) ~> (cpc = "idle")
=============================================================================
