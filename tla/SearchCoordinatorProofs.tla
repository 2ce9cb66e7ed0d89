----------------------- MODULE SearchCoordinatorProofs -----------------------
(***************************************************************************)
(* Proofs about SearchCoordinator, for every set of requests, provider,    *)
(* retry limit and cache.  The inductive invariant, CInv, holds the retry  *)
(* loop's own invariant (RetryHandlerProofs) and six parts: the types of   *)
(* the state, that keys lead to their requests (KeyedEntries), what is in  *)
(* progress at each step of a search (InStep), that a body at hand is of   *)
(* its request (OwnBodies), that what is cached is no older than what was  *)
(* returned (NotOlder), and that a refresh has removed what was older than *)
(* its start (Refreshed).  For the pause it is joined by PauseCovered: at  *)
(* every step the wait still to come covers what is left of the pause that *)
(* the provider asked for.                                                 *)
(***************************************************************************)
EXTENDS SearchCoordinator, TLAPS

R == INSTANCE RetryHandlerProofs

Forms == {"none", "seconds", "date"}

\* What a stored response looks like when it is read again.
Stored(c) == [status |-> 200, form |-> c.form, after |-> c.after]

StoredResponses  == {c \in [body : Bodies, form : Forms, after : Int] :
                        Stored(c) \in Responses}
ProcessedEntries == [body : Bodies, age : 0..Horizon, schema : Schemas]

Types ==
    /\ cpc \in Steps
    /\ call \in [what : Requests, request : RequestFlags, process : ProcessFlags]
    /\ body \in Bodies \cup {NoBody}
    /\ wait \in 0..(2 * Horizon)
    /\ server \in Versions
    /\ caching \in BOOLEAN /\ schema \in Schemas
    /\ request_cache \in [Requests -> StoredResponses \cup {NotCached}]
    /\ process_cache \in [Keys -> ProcessedEntries \cup {Unknown, NoRecords}]
    /\ last_response \in [form : Forms, after : Int, age : 0..Horizon]
    /\ last_response.after <= Horizon
    /\ result.kind \in {"none", "processed", "error", "non"}
    /\ floor \in Versions
    /\ seen \in [Requests -> Versions \cup {Nothing}]
    /\ quiet \in 0..Horizon /\ rebuilt \in BOOLEAN /\ undeleted \in BOOLEAN

\* A key leads to what was processed for one of its requests, and to nothing
\* while there is no storage.
KeyedEntries ==
    \A k \in Keys : process_cache[k] \notin {Unknown, NoRecords} =>
        caching /\ CacheKey(process_cache[k].body.of) = k

\* The retry loop runs only at its step; a body belongs to the response held.
InStep ==
    /\ cpc # "idle" => result = NoResult
    /\ cpc # "request" => rpc = "idle"
    /\ cpc \notin {"request", "process"} => body = NoBody /\ response = NoResponse
    /\ response = NoResponse => body = NoBody
    /\ response # NoResponse => (body \in Bodies <=> response.status = 200)
    /\ cpc = "process" => response # NoResponse
    /\ rpc \in {"judge", "sleep"} \/ (rpc = "done" /\ outcome # "failed")
          => response # NoResponse
    /\ cpc = "lookup" => call.request
    /\ cpc \in {"delete", "respect", "waiting"} => ~call.request

\* Content only gets newer: in the cache, and in the response being handled.
NotOlder ==
    /\ floor <= server
    /\ \A r \in Requests :
          /\ seen[r] <= server
          /\ request_cache[r] # NotCached =>
                request_cache[r].body.version >= seen[r] /\ request_cache[r].body.version <= server
    /\ body # NoBody =>
          /\ body.version >= seen[call.what] /\ body.version <= server
          /\ request_cache[call.what] # NotCached => request_cache[call.what].body = body

\* What is cached for a request, and what is handled for a search, is of it.
OwnBodies ==
    /\ \A r \in Requests : request_cache[r] # NotCached => request_cache[r].body.of = r
    /\ body # NoBody => body.of = call.what

\* Once a refresh has deleted the cached request, what it can still be answered
\* with is what the provider had when it began, or newer.
Refreshed ==
    (~call.request /\ ~undeleted) =>
        /\ cpc \in {"respect", "waiting", "request", "process"} =>
              /\ request_cache[call.what] # NotCached =>
                    request_cache[call.what].body.version >= floor
              /\ body # NoBody => body.version >= floor
        /\ (cpc = "idle" /\ result.kind = "processed") => result.body.version >= floor

\* What is left of the pause is within the pause that h, of the given age, asks.
Covered(h, age) ==
    quiet > 0 => /\ h.form # "none"
                 /\ quiet <= (IF h.form = "date" THEN h.after ELSE h.after - age)

\* The last response was rebuilt from the cache, and the search in progress, if
\* there is one, can be answered by the provider only and has not been.
Unanswered ==
    /\ rebuilt
    /\ \/ cpc \in {"idle", "delete"}
       \/ /\ request_cache[call.what] = NotCached
          /\ \/ cpc \in {"respect", "waiting"}
             \/ cpc = "request" /\ (rpc = "request" \/ (rpc = "done" /\ outcome = "failed"))

PauseCovered ==
    \/ Unanswered
    \/ quiet = 0
    \/ cpc \in {"idle", "delete", "respect"} /\ Covered(last_response, last_response.age)
    \/ cpc = "waiting" /\ quiet <= wait
    \/ cpc = "process" /\ Covered(response, 0)
    \/ /\ cpc = "request" /\ rpc \in {"judge", "done"} /\ outcome # "failed"
       /\ Covered(response, 0)
    \/ cpc = "request" /\ rpc = "sleep" /\ quiet <= delay

CInv == R!IInv /\ Types /\ KeyedEntries /\ InStep /\ OwnBodies /\ NotOlder /\ Refreshed

\* What the assumption says of the constants and of a response.
LEMMA Bounds ==
    /\ Horizon \in Nat /\ MaxVersion \in Nat /\ 1 \in Versions /\ Nothing \notin Versions
    /\ \A v \in Versions : v \in Nat
    /\ NoResponse \notin Responses
  BY CoordinatorAssumption DEF CoordinatorAssumption, Retry!RetryAssumption, Versions, Nothing

LEMMA BodyBounds ==
    /\ NoBody \notin Bodies /\ NoBody.version = Nothing
    /\ \A b \in Bodies : b.of \in Requests /\ b.version \in Versions /\ b.version \in Nat
  BY Bounds DEF Bodies, NoBody

LEMMA ResponseBounds ==
    ASSUME NEW r \in Responses
    PROVE  /\ r = [status |-> r.status, form |-> r.form, after |-> r.after]
           /\ r.status \in Nat /\ r.form \in Forms
           /\ r.after \in Int /\ r.after <= Horizon
           /\ r.form = "date" => r.after \in Nat
  BY CoordinatorAssumption DEF CoordinatorAssumption, Retry!RetryAssumption, Forms

\* The assumption is the one the retry loop's lemmas are proved from.
LEMMA RetryConstants == R!RetryAssumption
  BY CoordinatorAssumption DEF CoordinatorAssumption, Retry!RetryAssumption, R!RetryAssumption

\* What the other lemmas need of the retry loop's invariant.
LEMMA RetryTypes ==
    R!IInv => /\ response \in Responses \cup {NoResponse}
              /\ delay \in 0..Horizon
              /\ rpc \in {"idle", "request", "judge", "sleep", "done"}
              /\ outcome \in {"none", "returned", "invalid", "failed"}
              /\ rpc \in {"request", "judge", "sleep"} => outcome = "none"
              /\ rpc # "idle" /\ sent > 0 => response # NoResponse
  BY DEF R!IInv, R!TypeOK, R!CallInProgress, R!Stages, R!Outcomes

\* Every step of the retry loop that a search takes preserves its invariant.
LEMMA RetryStep == R!IInv /\ Retry!Next => R!IInv'
<1>1. Retry!Next => R!Next
  BY DEF Retry!Next, R!Next, Retry!Attempt, R!Attempt, Retry!BeginCall, R!BeginCall,
         Retry!RequestReturns, R!RequestReturns, Retry!RequestRaises, R!RequestRaises,
         Retry!Accept, R!Accept, Retry!GiveUp, R!GiveUp, Retry!Exhaust, R!Exhaust,
         Retry!PrepareRetry, R!PrepareRetry, Retry!Wake, R!Wake, Retry!EndCall, R!EndCall,
         Retry!Elapse, R!Elapse, Retry!Rejected, R!Rejected, Retry!Accepted, R!Accepted,
         Retry!ShouldRetry, R!ShouldRetry, Retry!RetryDelay, R!RetryDelay,
         Retry!Retries, R!Retries
<1> QED BY <1>1, RetryConstants, R!NextIInv

\* So does giving the loop up, which leaves its locals as they are before a call.
LEMMA RetryForgotten == Forget => R!IInv'
<1>1. R!Init => R!IInv
  BY RetryConstants, R!InitIInv
<1>2. Forget => R!Init'
  BY DEF Forget, R!Init
<1> QED BY <1>1, <1>2, PTL

LEMMA RetryKept == R!IInv /\ UNCHANGED retryVars => R!IInv'
  BY RetryConstants, R!NextIInv DEF retryVars, R!retryVars

\* A page from the request cache is handled as a response while the loop is idle.
LEMMA RetryHit ==
    ASSUME R!IInv, InStep, Types, LookupHit
    PROVE  R!IInv'
<1>1. request_cache[call.what] \in StoredResponses
  BY DEF LookupHit, Types
<1>2. response' \in Responses
  BY <1>1 DEF LookupHit, StoredResponses, Stored
<1>3. rpc = "idle"
  BY DEF LookupHit, InStep
<1> QED BY <1>2, <1>3
        DEF LookupHit, R!IInv, R!TypeOK, R!CallInProgress, R!AttemptsBounded, R!PauseKept

\* The retry loop's invariant holds inside a search.
LEMMA NextRetry == R!IInv /\ Types /\ InStep /\ [Next]_vars => R!IInv'
<1> SUFFICES ASSUME R!IInv, Types, InStep, [Next]_vars PROVE R!IInv'
  OBVIOUS
<1>1. CASE LookupHit
  BY <1>1, RetryHit
<1>2. ASSUME NEW r \in Responses, SendNetwork(r) PROVE R!IInv'
  BY <1>2, RetryStep DEF SendNetwork, Retry!Next, Retry!Attempt
<1>3. CASE SendCached
  <2>1. request_cache[call.what] \in StoredResponses
    BY <1>3 DEF SendCached, Types
  <2>2. Stored(request_cache[call.what]) \in Responses
    BY <2>1 DEF StoredResponses
  <2> QED BY <1>3, <2>2, RetryStep DEF SendCached, Stored, Retry!Next, Retry!Attempt
<1>4. CASE LookupMiss \/ WaitOver \/ Retrying \/ RequestAnswered \/ Elapse
  BY <1>4, RetryStep DEF LookupMiss, WaitOver, Retrying, RequestAnswered, Elapse,
                         Retry!Next, Retry!Attempt
<1>5. CASE RequestFailed \/ Handling
  BY <1>5, RetryForgotten
     DEF RequestFailed, Handling, ReturnCached, ReturnProcessed, ReturnError, Return
<1>6. ASSUME UNCHANGED retryVars PROVE R!IInv'
  BY <1>6, RetryKept
<1>7. CASE LookupRaises \/ DeleteCachedRequest \/ RespectRetryAfter \/ ProviderChanges
  BY <1>6, <1>7 DEF LookupRaises, DeleteCachedRequest, RespectRetryAfter, ProviderChanges
<1>8. ASSUME NEW r \in Requests, NEW f, NEW g, Search(r, f, g) PROVE R!IInv'
  BY <1>6, <1>8 DEF Search
<1>9. ASSUME NEW new, NEW c, SetProcessor(new) \/ Update(new, c) PROVE R!IInv'
  BY <1>6, <1>9 DEF SetProcessor, Update
<1>10. CASE UNCHANGED vars
  BY <1>6, <1>10 DEF vars
<1> QED BY <1>1, <1>2, <1>3, <1>4, <1>5, <1>7, <1>8, <1>9, <1>10
        DEF Next, Working, Fetching, Requesting

\* The date of a stored response coming closer leaves it one that may be stored.
LEMMA NearerStored ==
    ASSUME NEW c \in StoredResponses \cup {NotCached}
    PROVE  /\ Nearer(c) \in StoredResponses \cup {NotCached}
           /\ Nearer(c).body = c.body
           /\ Nearer(c) = NotCached <=> c = NotCached
<1>1. CASE c.form = "date" /\ c.after > 0
  <2>1. c \in [body : Bodies, form : Forms, after : Int] /\ Stored(c) \in Responses
    BY <1>1 DEF NotCached, StoredResponses
  <2>2. Nearer(c) = [body |-> c.body, form |-> c.form, after |-> c.after - 1]
    BY <1>1, <2>1 DEF Nearer
  <2>3. Stored(Nearer(c)) = [status |-> 200, form |-> "date", after |-> c.after - 1]
    BY <1>1, <2>2 DEF Stored
  <2>4. Stored(c).status = 200 /\ Stored(c).form = "date" /\ Stored(c).after = c.after
    BY <1>1 DEF Stored
  <2>5. Stored(Nearer(c)) \in Responses
    BY <1>1, <2>1, <2>3, <2>4, CoordinatorAssumption DEF CoordinatorAssumption
  <2> QED BY <2>1, <2>2, <2>5, BodyBounds DEF StoredResponses, NotCached
<1>2. CASE ~(c.form = "date" /\ c.after > 0)
  BY <1>2 DEF Nearer
<1> QED BY <1>1, <1>2

LEMMA NearerHeader ==
    ASSUME NEW h \in [form : Forms, after : Int, age : 0..Horizon]
    PROVE  Nearer(h) = [form |-> h.form, age |-> h.age,
                        after |-> IF h.form = "date" /\ h.after > 0 THEN h.after - 1 ELSE h.after]
  BY DEF Nearer

LEMMA OlderBounds == \A n \in 0..Horizon : Older(n) \in 0..Horizon
  BY Bounds DEF Older

\* The pause before a request is at most twice the bound of the headers.
LEMMA PauseBounds == Types => Pause \in 0..(2 * Horizon)
<1> SUFFICES ASSUME Types PROVE Pause \in 0..(2 * Horizon)
  OBVIOUS
<1>1. /\ last_response.after \in Int /\ last_response.after <= Horizon
      /\ last_response.age \in 0..Horizon
  BY DEF Types
<1> QED BY <1>1, Bounds DEF Pause

\* What a search returns keeps the types: Return is the end of the three actions
\* that handle a response.
LEMMA ReturnTypes ==
    ASSUME Types, InStep, R!IInv, cpc = "process",
           NEW kind \in {"processed", "error"}, NEW content \in Bodies \cup {NoBody},
           NEW age \in 0..Horizon, Return(kind, content, age),
           process_cache' \in [Keys -> ProcessedEntries \cup {Unknown, NoRecords}],
           quiet' = quiet, rebuilt' \in BOOLEAN
    PROVE  Types'
<1>1. response \in Responses
  BY RetryTypes DEF InStep
<1>2. /\ last_response' \in [form : Forms, after : Int, age : 0..Horizon]
      /\ last_response'.after <= Horizon
  BY <1>1, ResponseBounds DEF Return
<1>3. seen' \in [Requests -> Versions \cup {Nothing}]
  <2>1. content.version \in Versions \cup {Nothing}
    BY BodyBounds
  <2> QED BY <2>1 DEF Return, Types
<1>4. cpc' \in Steps /\ result'.kind \in {"none", "processed", "error", "non"}
      /\ body' \in Bodies \cup {NoBody}
  BY DEF Return, Steps, Forget
<1> QED BY <1>2, <1>3, <1>4 DEF Return, Types

LEMMA NextTypes == R!IInv /\ Types /\ KeyedEntries /\ InStep /\ [Next]_vars => Types'
<1> SUFFICES ASSUME R!IInv, Types, KeyedEntries, InStep, [Next]_vars PROVE Types'
  OBVIOUS
<1>1. ASSUME NEW r \in Requests, NEW f \in RequestFlags, NEW g \in ProcessFlags,
             Search(r, f, g)
      PROVE  Types'
  <2>1. f \in BOOLEAN /\ g \in BOOLEAN
    BY CoordinatorAssumption DEF CoordinatorAssumption
  <2>2. call' \in [what : Requests, request : BOOLEAN, process : BOOLEAN]
    BY <1>1, <2>1 DEF Search
  <2>3. cpc' \in Steps /\ result'.kind = "none" /\ floor' \in Versions
    BY <1>1 DEF Search, Steps, NoResult, Types
  <2>4. quiet' \in 0..Horizon
    BY <1>1, Bounds DEF Search, Types
  <2>5. undeleted' \in BOOLEAN
    BY <1>1 DEF Search
  <2> QED BY <1>1, <2>2, <2>3, <2>4, <2>5 DEF Search, Types, caches
<1>2. CASE LookupHit
  <2>1. request_cache[call.what] \in StoredResponses
    BY <1>2 DEF LookupHit, Types
  <2>2. body' \in Bodies
    BY <1>2, <2>1 DEF LookupHit, StoredResponses
  <2> QED BY <1>2, <2>2 DEF LookupHit, Types, caches, history, Steps
<1>3. CASE LookupMiss \/ WaitOver
  BY <1>3 DEF LookupMiss, WaitOver, Types, caches, history, Steps
<1>4. CASE LookupRaises
  BY <1>4 DEF LookupRaises, Types, caches, history, Steps, NoResult
<1>5. CASE DeleteCachedRequest
  <2>1. request_cache' \in [Requests -> StoredResponses \cup {NotCached}]
    BY <1>5 DEF DeleteCachedRequest, Types
  <2>2. quiet' \in 0..Horizon
    BY <1>5, Bounds DEF DeleteCachedRequest, Types
  <2>3. cpc' \in Steps /\ undeleted' \in BOOLEAN
    BY <1>5 DEF DeleteCachedRequest, Types, Steps
  <2> QED BY <1>5, <2>1, <2>2, <2>3 DEF DeleteCachedRequest, Types
<1>6. CASE RespectRetryAfter
  BY <1>6, PauseBounds DEF RespectRetryAfter, Types, caches, history, Steps
<1>7. CASE SendCached
  <2>1. request_cache[call.what] \in StoredResponses
    BY <1>7 DEF SendCached, Types
  <2>2. body' \in Bodies
    BY <1>7, <2>1 DEF SendCached, StoredResponses
  <2> QED BY <1>7, <2>2 DEF SendCached, Types, caches, history
<1>8. ASSUME NEW r \in Responses, SendNetwork(r) PROVE Types'
  <2>1. /\ body' \in Bodies \cup {NoBody}
        /\ r.status = 200 => body' \in Bodies
    BY <1>8 DEF SendNetwork, Types, Bodies
  <2>2. request_cache' \in [Requests -> StoredResponses \cup {NotCached}]
    <3>1. CASE r.status \in Cacheable
      <4>1. r.status = 200 /\ body' \in Bodies
        BY <2>1, <3>1, CoordinatorAssumption DEF CoordinatorAssumption
      <4>2. r = [status |-> 200, form |-> r.form, after |-> r.after]
            /\ r.form \in Forms /\ r.after \in Int
        BY <4>1, ResponseBounds
      <4>3. [body |-> body', form |-> r.form, after |-> r.after] \in StoredResponses
        BY <4>1, <4>2 DEF StoredResponses, Stored
      <4> QED BY <1>8, <3>1, <4>3 DEF SendNetwork, Types
    <3>2. CASE r.status \notin Cacheable
      BY <1>8, <3>2 DEF SendNetwork, Types
    <3> QED BY <3>1, <3>2
  <2>3. quiet' \in 0..Horizon
    <3>1. r.after \in Int /\ r.after <= Horizon
      BY ResponseBounds
    <3> QED BY <1>8, <3>1, Bounds DEF SendNetwork
  <2>4. rebuilt' \in BOOLEAN
    BY <1>8 DEF SendNetwork
  <2> QED BY <1>8, <2>1, <2>2, <2>3, <2>4 DEF SendNetwork, Types
<1>9. CASE Retrying \/ RequestAnswered
  BY <1>9 DEF Retrying, RequestAnswered, Types, caches, history, Steps
<1>10. CASE RequestFailed
  BY <1>10 DEF RequestFailed, Forget, Types, caches, history, Steps, NoResult
<1>11. CASE ReturnCached
  <2>1. Entry \in ProcessedEntries
    BY <1>11 DEF ReturnCached, CacheValid, Known, HasRecords, Entry, Types, Keys
  <2>2. Entry.body \in Bodies /\ Entry.age \in 0..Horizon
    BY <2>1 DEF ProcessedEntries
  <2> QED BY <1>11, <2>2, ReturnTypes DEF ReturnCached, Types
<1>12. CASE ReturnProcessed
  <2>1. response \in Responses /\ body \in Bodies
    BY <1>12, RetryTypes DEF InStep, ReturnProcessed
  <2>2. process_cache' \in [Keys -> ProcessedEntries \cup {Unknown, NoRecords}]
    <3>1. [body |-> body, age |-> 0, schema |-> schema] \in ProcessedEntries
      BY <2>1, Bounds DEF ProcessedEntries, Types
    <3> QED BY <1>12, <3>1 DEF ReturnProcessed, Stores, Types
  <2>3. 0 \in 0..Horizon
    BY Bounds
  <2> QED BY <1>12, <2>1, <2>2, <2>3, ReturnTypes DEF ReturnProcessed
<1>13. CASE ReturnError
  <2>1. 0 \in 0..Horizon
    BY Bounds
  <2> QED BY <1>13, <2>1, ReturnTypes DEF ReturnError, Types
<1>14. ASSUME NEW new \in Schemas, SetProcessor(new) PROVE Types'
  BY <1>14 DEF SetProcessor, Types, history
<1>15. ASSUME NEW new \in Schemas, NEW c \in {"None", "True", "False"}, Update(new, c)
       PROVE  Types'
  <2>1. caching' \in BOOLEAN /\ schema' \in Schemas
        /\ process_cache' \in [Keys -> ProcessedEntries \cup {Unknown, NoRecords}]
    BY <1>15 DEF Update, UpdateResponses, ConfigureCache, Types
  <2>2. /\ last_response' \in [form : Forms, after : Int, age : 0..Horizon]
        /\ last_response'.after <= Horizon /\ quiet' \in 0..Horizon
    BY <1>15, Bounds DEF Update, Forms
  <2> QED BY <1>15, <2>1, <2>2 DEF Update, Types
<1>16. CASE ProviderChanges
  <2>1. server' \in Versions
    BY <1>16, Bounds DEF ProviderChanges, Types, Versions
  <2> QED BY <1>16, <2>1 DEF ProviderChanges, Types, caches, history
<1>17. CASE Elapse
  <2>1. request_cache' \in [Requests -> StoredResponses \cup {NotCached}]
    BY <1>17, NearerStored DEF Elapse, Types
  <2>2. process_cache' \in [Keys -> ProcessedEntries \cup {Unknown, NoRecords}]
    <3> SUFFICES ASSUME NEW k \in Keys, process_cache[k] \notin {Unknown, NoRecords}
                 PROVE  [process_cache[k] EXCEPT !.age = Older(@)] \in ProcessedEntries
      BY <1>17 DEF Elapse, Types
    <3>1. process_cache[k] \in ProcessedEntries
      BY DEF Types
    <3>2. process_cache[k] \in [body : Bodies, age : 0..Horizon, schema : Schemas]
      BY <3>1 DEF ProcessedEntries
    <3> QED BY <3>2, OlderBounds DEF ProcessedEntries
  <2>3. /\ last_response' \in [form : Forms, after : Int, age : 0..Horizon]
        /\ last_response'.after <= Horizon
    <3>1. last_response \in [form : Forms, after : Int, age : 0..Horizon]
      BY DEF Types
    <3> DEFINE n == IF last_response.form = "date" /\ last_response.after > 0
                   THEN last_response.after - 1 ELSE last_response.after
    <3>2. last_response' = [form |-> last_response.form, after |-> n,
                            age |-> Older(last_response.age)]
      BY <1>17, <3>1, NearerHeader DEF Elapse
    <3>3. n \in Int /\ n <= Horizon
      BY <3>1, Bounds DEF Types
    <3> HIDE DEF n
    <3> QED BY <3>1, <3>2, <3>3, OlderBounds
  <2>4. wait' \in 0..(2 * Horizon) /\ quiet' \in 0..Horizon
    BY <1>17, Bounds DEF Elapse, Types
  <2> QED BY <1>17, <2>1, <2>2, <2>3, <2>4 DEF Elapse, Types
<1>18. CASE UNCHANGED vars
  BY <1>18 DEF vars, caches, history, Types
<1> QED BY <1>1, <1>2, <1>3, <1>4, <1>5, <1>6, <1>7, <1>8, <1>9, <1>10, <1>11, <1>12, <1>13,
           <1>14, <1>15, <1>16, <1>17, <1>18
        DEF Next, Working, Fetching, Requesting, Handling

\* Without a storage there is no entry, and what is stored is stored under the
\* key of its request.
LEMMA NextKeyed ==
    R!IInv /\ Types /\ KeyedEntries /\ InStep /\ OwnBodies /\ [Next]_vars => KeyedEntries'
<1> SUFFICES ASSUME R!IInv, Types, KeyedEntries, InStep, OwnBodies, [Next]_vars
             PROVE  KeyedEntries'
  OBVIOUS
<1>1. ASSUME NEW r, NEW f, NEW g, Search(r, f, g) PROVE KeyedEntries'
  BY <1>1 DEF Search, caches, KeyedEntries
<1>2. CASE Fetching \/ RequestFailed \/ RequestAnswered \/ Retrying \/ SendCached
           \/ ProviderChanges
  BY <1>2 DEF Fetching, LookupHit, LookupMiss, LookupRaises, DeleteCachedRequest,
              RespectRetryAfter, WaitOver, RequestFailed, RequestAnswered, Retrying, SendCached,
              ProviderChanges, caches, KeyedEntries
<1>3. ASSUME NEW r \in Responses, SendNetwork(r) PROVE KeyedEntries'
  BY <1>3 DEF SendNetwork, KeyedEntries
<1>4. CASE ReturnCached \/ ReturnError
  BY <1>4 DEF ReturnCached, ReturnError, Return, KeyedEntries
<1>5. CASE ReturnProcessed
  <2> DEFINE e == [body |-> body, age |-> 0, schema |-> schema]
             key == CacheKey(call.what)
  <2>1. e.body.of = call.what /\ caching' = caching
    BY <1>5, BodyBounds DEF ReturnProcessed, Return, InStep, OwnBodies
  <2>2. CASE process_cache' = process_cache
    BY <2>1, <2>2 DEF KeyedEntries
  <2>3. CASE caching /\ process_cache' = [process_cache EXCEPT ![key] = e]
    BY <2>1, <2>3 DEF KeyedEntries, Types
  <2>4. CASE process_cache' = [process_cache EXCEPT ![key] = NoRecords]
    BY <2>1, <2>4 DEF KeyedEntries, Types
  <2> QED BY <1>5, <2>2, <2>3, <2>4 DEF ReturnProcessed, Stores
<1>6. ASSUME NEW new, SetProcessor(new) PROVE KeyedEntries'
  BY <1>6 DEF SetProcessor, KeyedEntries
<1>7. ASSUME NEW new, NEW c, Update(new, c) PROVE KeyedEntries'
  BY <1>7 DEF Update, UpdateResponses, ConfigureCache, KeyedEntries
<1>8. CASE Elapse
  <2> SUFFICES ASSUME NEW k \in Keys, process_cache'[k] \notin {Unknown, NoRecords}
               PROVE  caching' /\ CacheKey(process_cache'[k].body.of) = k
    BY DEF KeyedEntries
  <2>1. process_cache[k] \notin {Unknown, NoRecords}
        /\ process_cache'[k] = [process_cache[k] EXCEPT !.age = Older(@)]
    BY <1>8 DEF Elapse
  <2>2. process_cache[k] \in [body : Bodies, age : 0..Horizon, schema : Schemas]
    BY <2>1 DEF Types, ProcessedEntries
  <2>3. process_cache'[k].body = process_cache[k].body
    BY <2>1, <2>2
  <2> QED BY <1>8, <2>1, <2>3 DEF Elapse, KeyedEntries
<1>9. CASE UNCHANGED vars
  BY <1>9 DEF vars, caches, KeyedEntries
<1> QED BY <1>1, <1>2, <1>3, <1>4, <1>5, <1>6, <1>7, <1>8, <1>9
        DEF Next, Working, Requesting, Handling

\* The loop always makes a first attempt: max_retries is never negative in it.
LEMMA FirstAttempt ==
    Retry!BeginCall => /\ rpc' = "request" /\ outcome' = "none" /\ response' = NoResponse
                       /\ rpc = "idle"
<1>1. 0 <= Retry!Retries
  BY CoordinatorAssumption DEF CoordinatorAssumption, Retry!RetryAssumption, Retry!Retries
<1> QED BY <1>1 DEF Retry!BeginCall

LEMMA HitResponse ==
    ASSUME Types, request_cache[call.what] # NotCached
    PROVE  /\ request_cache[call.what].body \in Bodies
           /\ Stored(request_cache[call.what]) \in Responses
           /\ Stored(request_cache[call.what]) # NoResponse
<1>1. request_cache[call.what] \in StoredResponses
  BY DEF Types
<1> QED BY <1>1, Bounds DEF StoredResponses

LEMMA NextInStep == R!IInv /\ Types /\ InStep /\ [Next]_vars => InStep'
<1> SUFFICES ASSUME R!IInv, Types, InStep, [Next]_vars PROVE InStep'
  OBVIOUS
<1>nothing. NoBody \notin Bodies
  BY BodyBounds
<1>1. ASSUME NEW r \in Requests, NEW f \in RequestFlags, NEW g \in ProcessFlags,
             Search(r, f, g)
      PROVE  InStep'
  <2>1. f \in BOOLEAN
    BY CoordinatorAssumption DEF CoordinatorAssumption
  <2>2. call'.request = f /\ cpc' \in {"lookup", "delete"} /\ (cpc' = "lookup" <=> f)
    BY <1>1, <2>1 DEF Search
  <2>3. result' = NoResult /\ body' = body /\ cpc = "idle" /\ UNCHANGED retryVars
    BY <1>1 DEF Search
  <2> QED BY <2>2, <2>3 DEF InStep, retryVars
<1>2. CASE LookupHit
  <2>1. /\ body' \in Bodies /\ response' # NoResponse /\ response'.status = 200
        /\ cpc' = "process" /\ rpc' = "idle" /\ result' = NoResult
    BY <1>2, HitResponse DEF LookupHit, Stored, InStep
  <2> QED BY <2>1, <1>nothing DEF InStep
<1>3. CASE LookupMiss \/ WaitOver
  <2>1. /\ cpc' = "request" /\ body' = NoBody /\ result' = NoResult
        /\ rpc' = "request" /\ outcome' = "none" /\ response' = NoResponse
    BY <1>3, FirstAttempt DEF LookupMiss, WaitOver, InStep
  <2> QED BY <2>1 DEF InStep
<1>4. CASE LookupRaises
  BY <1>4 DEF LookupRaises, InStep, retryVars
<1>5. CASE DeleteCachedRequest \/ RespectRetryAfter
  BY <1>5 DEF DeleteCachedRequest, RespectRetryAfter, InStep, retryVars
<1>6. CASE SendCached
  <2>1. /\ body' \in Bodies /\ response' # NoResponse /\ response'.status = 200
        /\ cpc' = "request" /\ result' = NoResult
    BY <1>6, HitResponse DEF SendCached, Retry!RequestReturns, Stored, InStep
  <2> QED BY <2>1, <1>nothing DEF InStep
<1>7. ASSUME NEW r \in Responses, SendNetwork(r) PROVE InStep'
  <2>1. response' = r /\ cpc' = "request" /\ result' = NoResult
        /\ body' = IF r.status = 200 THEN [of |-> call.what, version |-> server] ELSE NoBody
    BY <1>7 DEF SendNetwork, Retry!RequestReturns, InStep
  <2>2. [of |-> call.what, version |-> server] \in Bodies
    BY DEF Types, Bodies
  <2>3. r # NoResponse /\ (body' \in Bodies <=> r.status = 200)
    BY <2>1, <2>2, <1>nothing, Bounds
  <2> QED BY <2>1, <2>3 DEF InStep
<1>8. CASE Retrying
  <2>1. cpc' = "request" /\ result' = NoResult /\ body' = body /\ response' = response
    BY <1>8 DEF Retrying, InStep, Retry!RequestRaises, Retry!Accept, Retry!GiveUp,
                Retry!Exhaust, Retry!PrepareRetry, Retry!Wake
  <2>2. rpc' \in {"judge", "sleep"} \/ (rpc' = "done" /\ outcome' # "failed")
           => rpc = "judge"
    BY <1>8 DEF Retrying, Retry!RequestRaises, Retry!Accept, Retry!GiveUp,
                Retry!Exhaust, Retry!PrepareRetry, Retry!Wake
  <2> QED BY <2>1, <2>2 DEF InStep
<1>9. CASE RequestFailed
  BY <1>9 DEF RequestFailed, Forget, InStep
<1>10. CASE RequestAnswered
  BY <1>10 DEF RequestAnswered, Retry!EndCall, InStep
<1>11. CASE Handling
  BY <1>11 DEF Handling, ReturnCached, ReturnProcessed, ReturnError, Return, Forget, InStep
<1>12. ASSUME NEW new, NEW c, SetProcessor(new) \/ Update(new, c) PROVE InStep'
  BY <1>12 DEF SetProcessor, Update, InStep, retryVars
<1>13. CASE ProviderChanges
  BY <1>13 DEF ProviderChanges, InStep, retryVars
<1>14. CASE Elapse
  BY <1>14 DEF Elapse, Retry!Elapse, InStep
<1>15. CASE UNCHANGED vars
  BY <1>15 DEF vars, InStep, retryVars
<1> QED BY <1>1, <1>2, <1>3, <1>4, <1>5, <1>6, <1>7, <1>8, <1>9, <1>10, <1>11, <1>12, <1>13,
           <1>14, <1>15
        DEF Next, Working, Fetching, Requesting

\* A response is stored for the request it answers and handled for no other.
LEMMA NextOwnBodies == R!IInv /\ Types /\ InStep /\ OwnBodies /\ [Next]_vars => OwnBodies'
<1> SUFFICES ASSUME R!IInv, Types, InStep, OwnBodies, [Next]_vars PROVE OwnBodies'
  OBVIOUS
<1>call. call.what \in Requests
  BY DEF Types
<1>1. ASSUME NEW r, NEW f, NEW g, Search(r, f, g) PROVE OwnBodies'
  BY <1>1 DEF Search, caches, InStep, OwnBodies
<1>2. CASE LookupHit \/ SendCached
  <2>1. /\ body' = request_cache[call.what].body /\ request_cache[call.what] # NotCached
        /\ UNCHANGED <<request_cache, call>>
    BY <1>2 DEF LookupHit, SendCached, caches
  <2> QED BY <2>1, <1>call DEF OwnBodies
<1>3. ASSUME UNCHANGED <<request_cache, call, body>> PROVE OwnBodies'
  BY <1>3 DEF OwnBodies
<1>4. CASE LookupMiss \/ LookupRaises \/ RespectRetryAfter \/ WaitOver \/ Retrying
           \/ RequestAnswered \/ ProviderChanges
  BY <1>3, <1>4 DEF LookupMiss, LookupRaises, RespectRetryAfter, WaitOver, Retrying,
                    RequestAnswered, ProviderChanges, caches
<1>5. CASE DeleteCachedRequest
  <2>1. /\ UNCHANGED <<call, body>>
        /\ \A r \in Requests : request_cache'[r] \in {request_cache[r], NotCached}
    BY <1>5 DEF DeleteCachedRequest, Types
  <2> QED BY <2>1 DEF OwnBodies
<1>6. ASSUME NEW r \in Responses, SendNetwork(r) PROVE OwnBodies'
  <2>1. /\ body' = IF r.status = 200 THEN [of |-> call.what, version |-> server] ELSE NoBody
        /\ call' = call
    BY <1>6 DEF SendNetwork
  <2>2. body' # NoBody => body'.of = call.what
    BY <2>1
  <2>3. CASE r.status \in Cacheable
    <3>1. r.status = 200
      BY <2>3, CoordinatorAssumption DEF CoordinatorAssumption
    <3>2. /\ request_cache'[call.what].body = body' /\ body'.of = call.what
          /\ \A q \in Requests \ {call.what} : request_cache'[q] = request_cache[q]
      BY <1>6, <2>1, <2>3, <3>1, <1>call DEF SendNetwork, Types
    <3> QED BY <2>1, <3>2, <1>call DEF OwnBodies
  <2>4. CASE r.status \notin Cacheable
    <3>1. request_cache' = request_cache
      BY <1>6, <2>4 DEF SendNetwork
    <3> QED BY <2>1, <2>2, <3>1 DEF OwnBodies
  <2> QED BY <2>3, <2>4
<1>7. CASE RequestFailed \/ Handling
  <2>1. UNCHANGED <<request_cache, call>> /\ body' = NoBody
    BY <1>7 DEF RequestFailed, Handling, ReturnCached, ReturnProcessed, ReturnError, Return,
                Forget, caches
  <2> QED BY <2>1 DEF OwnBodies
<1>8. ASSUME NEW new, NEW c, SetProcessor(new) \/ Update(new, c) PROVE OwnBodies'
  BY <1>3, <1>8 DEF SetProcessor, Update
<1>9. CASE Elapse
  <2>1. \A r \in Requests : /\ request_cache'[r].body = request_cache[r].body
                            /\ request_cache'[r] = NotCached <=> request_cache[r] = NotCached
    BY <1>9, NearerStored DEF Elapse, Types
  <2>2. UNCHANGED <<call, body>>
    BY <1>9 DEF Elapse
  <2> QED BY <2>1, <2>2, <1>call DEF OwnBodies
<1>10. CASE UNCHANGED vars
  BY <1>3, <1>10 DEF vars, caches
<1> QED BY <1>1, <1>2, <1>4, <1>5, <1>6, <1>7, <1>8, <1>9, <1>10
        DEF Next, Working, Fetching, Requesting

\* Nothing goes back in time: what is cached is what the provider had when it was
\* last asked, and what a search returns becomes the oldest it may return again.
LEMMA NextNotOlder == R!IInv /\ Types /\ InStep /\ NotOlder /\ [Next]_vars => NotOlder'
<1> SUFFICES ASSUME R!IInv, Types, InStep, NotOlder, [Next]_vars PROVE NotOlder'
  OBVIOUS
<1>nat. /\ server \in Nat /\ floor \in Nat /\ body.version \in Nat
        /\ \A r \in Requests : seen[r] \in Nat /\ request_cache[r].body.version \in Nat
  <2>1. \A r \in Requests : request_cache[r].body.version \in Versions \cup {Nothing}
    BY BodyBounds DEF Types, StoredResponses, NotCached
  <2>2. body.version \in Nat
    BY BodyBounds DEF Types, Nothing
  <2> QED BY <2>1, <2>2, Bounds DEF Types, Nothing
<1>call. call.what \in Requests
  BY DEF Types
<1>1. ASSUME NEW r, NEW f, NEW g, Search(r, f, g) PROVE NotOlder'
  <2>1. /\ floor' = server /\ server' = server /\ seen' = seen
        /\ request_cache' = request_cache /\ body' = NoBody
    BY <1>1 DEF Search, caches, InStep
  <2> QED BY <2>1, <1>nat DEF NotOlder
<1>2. CASE LookupHit \/ SendCached
  <2>1. /\ body' = request_cache[call.what].body /\ request_cache[call.what] # NotCached
        /\ UNCHANGED <<floor, server, seen, request_cache, call>>
    BY <1>2 DEF LookupHit, SendCached, caches, history
  <2> QED BY <2>1, <1>nat, <1>call DEF NotOlder
<1>3. ASSUME UNCHANGED <<floor, server, seen, request_cache, call, body>> PROVE NotOlder'
  BY <1>3 DEF NotOlder
<1>4. CASE LookupMiss \/ LookupRaises \/ RespectRetryAfter \/ WaitOver \/ Retrying
           \/ RequestAnswered
  BY <1>3, <1>4 DEF LookupMiss, LookupRaises, RespectRetryAfter, WaitOver, Retrying,
                    RequestAnswered, caches, history
<1>5. CASE DeleteCachedRequest
  <2>1. /\ UNCHANGED <<floor, server, seen, call, body>>
        /\ \A r \in Requests : request_cache'[r] \in {request_cache[r], NotCached}
        /\ body = NoBody
    BY <1>5 DEF DeleteCachedRequest, InStep, Types
  <2> QED BY <2>1 DEF NotOlder
<1>6. ASSUME NEW r \in Responses, SendNetwork(r) PROVE NotOlder'
  <2>1. /\ UNCHANGED <<floor, server, seen, call>>
        /\ body' = IF r.status = 200 THEN [of |-> call.what, version |-> server] ELSE NoBody
        /\ request_cache[call.what] = NotCached
    BY <1>6 DEF SendNetwork
  <2>2. CASE r.status \in Cacheable
    <3>1. r.status = 200
      BY <2>2, CoordinatorAssumption DEF CoordinatorAssumption
    <3>2. /\ request_cache'[call.what].body = body' /\ body'.version = server
          /\ \A q \in Requests \ {call.what} : request_cache'[q] = request_cache[q]
      BY <1>6, <2>1, <2>2, <3>1, <1>call DEF SendNetwork, Types
    <3> QED BY <2>1, <3>2, <1>nat, <1>call DEF NotOlder
  <2>3. CASE r.status \notin Cacheable
    <3>1. request_cache' = request_cache
      BY <1>6, <2>3 DEF SendNetwork
    <3> QED BY <2>1, <3>1, <1>nat, <1>call DEF NotOlder
  <2> QED BY <2>2, <2>3
<1>7. CASE RequestFailed
  BY <1>7 DEF RequestFailed, Forget, caches, history, NotOlder
<1>8. ASSUME NEW kind, NEW content \in {body, NoBody}, NEW age, Return(kind, content, age),
             cpc = "process"
      PROVE  NotOlder'
  <2>1. /\ UNCHANGED <<floor, server, call, request_cache>> /\ body' = NoBody
        /\ \A r \in Requests \ {call.what} : seen'[r] = seen[r]
        /\ seen'[call.what] \in {seen[call.what], body.version}
        /\ seen'[call.what] # seen[call.what] => body # NoBody
    BY <1>8, <1>nat, <1>call, BodyBounds DEF Return, Forget, Types, Nothing
  <2> QED BY <2>1, <1>nat, <1>call DEF NotOlder
<1>9. CASE Handling
  BY <1>8, <1>9 DEF Handling, ReturnCached, ReturnProcessed, ReturnError, CacheValid, SameHash
<1>10. ASSUME NEW new, NEW c, SetProcessor(new) \/ Update(new, c) PROVE NotOlder'
  BY <1>3, <1>10 DEF SetProcessor, Update, history
<1>11. CASE ProviderChanges
  BY <1>11, <1>nat DEF ProviderChanges, caches, history, NotOlder
<1>12. CASE Elapse
  <2>1. \A r \in Requests : /\ request_cache'[r].body = request_cache[r].body
                            /\ request_cache'[r] = NotCached <=> request_cache[r] = NotCached
    BY <1>12, NearerStored DEF Elapse, Types
  <2>2. UNCHANGED <<floor, server, seen, call, body>>
    BY <1>12 DEF Elapse
  <2> QED BY <2>1, <2>2, <1>call DEF NotOlder
<1>13. CASE UNCHANGED vars
  BY <1>3, <1>13 DEF vars, caches, history
<1> QED BY <1>1, <1>2, <1>4, <1>5, <1>6, <1>7, <1>9, <1>10, <1>11, <1>12, <1>13
        DEF Next, Working, Fetching, Requesting

\* After a deleted cached request, only the provider's content of now can be
\* stored, handled and returned.
LEMMA NextRefreshed ==
    R!IInv /\ Types /\ InStep /\ NotOlder /\ Refreshed /\ [Next]_vars => Refreshed'
<1> SUFFICES ASSUME R!IInv, Types, InStep, NotOlder, Refreshed, [Next]_vars PROVE Refreshed'
  OBVIOUS
<1>nat. /\ server \in Nat /\ floor \in Nat /\ body.version \in Nat /\ floor <= server
        /\ call.what \in Requests
  BY Bounds, BodyBounds DEF Types, Nothing, NotOlder
<1>1. ASSUME NEW r, NEW f, NEW g, Search(r, f, g) PROVE Refreshed'
  BY <1>1 DEF Search, Refreshed
<1>2. CASE LookupHit \/ LookupMiss \/ LookupRaises
  BY <1>2 DEF LookupHit, LookupMiss, LookupRaises, InStep, Refreshed, NoResult
<1>3. CASE DeleteCachedRequest
  <2>1. /\ UNCHANGED <<floor, call>> /\ body' = NoBody /\ cpc' = "respect"
        /\ undeleted' \/ request_cache'[call.what] = NotCached
    BY <1>3, <1>nat DEF DeleteCachedRequest, InStep, Types
  <2> QED BY <2>1 DEF Refreshed
<1>4. CASE RespectRetryAfter \/ WaitOver \/ Retrying \/ RequestAnswered
  BY <1>4 DEF RespectRetryAfter, WaitOver, Retrying, RequestAnswered, caches, history, Refreshed
<1>5. CASE SendCached
  <2>1. /\ UNCHANGED <<floor, call, request_cache, cpc, undeleted>> /\ cpc = "request"
        /\ body' = request_cache[call.what].body /\ request_cache[call.what] # NotCached
    BY <1>5 DEF SendCached, caches, history
  <2> QED BY <2>1 DEF Refreshed
<1>6. ASSUME NEW r \in Responses, SendNetwork(r) PROVE Refreshed'
  <2>1. /\ UNCHANGED <<floor, call, cpc, undeleted>> /\ cpc = "request"
        /\ body' = IF r.status = 200 THEN [of |-> call.what, version |-> server] ELSE NoBody
        /\ request_cache[call.what] = NotCached
    BY <1>6 DEF SendNetwork
  <2>2. \/ request_cache'[call.what] = NotCached
        \/ request_cache'[call.what].body.version = server
    <3>1. CASE r.status \in Cacheable
      BY <1>6, <2>1, <3>1, <1>nat, CoordinatorAssumption
         DEF CoordinatorAssumption, SendNetwork, Types
    <3>2. CASE r.status \notin Cacheable
      BY <1>6, <2>1, <3>2 DEF SendNetwork
    <3> QED BY <3>1, <3>2
  <2> QED BY <2>1, <2>2, <1>nat DEF Refreshed
<1>7. CASE RequestFailed
  BY <1>7 DEF RequestFailed, history, Refreshed, NoResult
<1>8. CASE Handling
  <2>1. /\ UNCHANGED <<floor, call, undeleted>> /\ cpc = "process" /\ cpc' = "idle"
        /\ result'.kind = "processed" => body # NoBody /\ result'.body = body
    <3>1. response.status = 200 => body # NoBody
      BY <1>8, BodyBounds DEF Handling, ReturnCached, ReturnProcessed, ReturnError, InStep
    <3> QED BY <1>8, <3>1 DEF Handling, ReturnCached, ReturnProcessed, ReturnError, Return,
                              CacheValid, SameHash
  <2> QED BY <2>1 DEF Refreshed
<1>9. ASSUME NEW new, NEW c, SetProcessor(new) \/ Update(new, c) PROVE Refreshed'
  BY <1>9 DEF SetProcessor, Update, history, Refreshed
<1>10. CASE ProviderChanges
  BY <1>10 DEF ProviderChanges, caches, history, Refreshed
<1>11. CASE Elapse
  <2>1. /\ request_cache'[call.what].body.version = request_cache[call.what].body.version
        /\ request_cache'[call.what] = NotCached <=> request_cache[call.what] = NotCached
    BY <1>11, <1>nat, NearerStored DEF Elapse, Types
  <2>2. UNCHANGED <<floor, call, body, cpc, result, undeleted>>
    BY <1>11 DEF Elapse
  <2> QED BY <2>1, <2>2 DEF Refreshed
<1>12. CASE UNCHANGED vars
  BY <1>12 DEF vars, caches, history, Refreshed
<1> QED BY <1>1, <1>2, <1>3, <1>4, <1>5, <1>6, <1>7, <1>8, <1>9, <1>10, <1>11, <1>12
        DEF Next, Working, Fetching, Requesting

LEMMA InitCInv == Init => CInv
<1> SUFFICES ASSUME Init PROVE CInv
  OBVIOUS
<1>1. R!IInv
  <2>1. R!Init
    BY DEF Init, Retry!Init, R!Init
  <2> QED BY <2>1, RetryConstants, R!InitIInv
<1>2. Types
  <2>1. cpc \in Steps /\ result.kind \in {"none", "processed", "error", "non"}
    BY DEF Init, Steps, NoResult
  <2>2. call \in [what : Requests, request : RequestFlags, process : ProcessFlags]
    BY CoordinatorAssumption DEF CoordinatorAssumption, Init
  <2>3. wait \in 0..(2 * Horizon) /\ quiet \in 0..Horizon
    BY Bounds DEF Init
  <2>4. /\ last_response \in [form : Forms, after : Int, age : 0..Horizon]
        /\ last_response.after <= Horizon
    BY Bounds DEF Init, Forms
  <2> QED BY <2>1, <2>2, <2>3, <2>4, Bounds DEF Init, Types
<1>3. KeyedEntries
  BY DEF Init, KeyedEntries
<1>4. InStep
  <2>1. rpc = "idle" /\ response = NoResponse
    BY DEF Init, Retry!Init
  <2> QED BY <2>1 DEF Init, InStep
<1>5. OwnBodies /\ NotOlder /\ Refreshed
  BY DEF Init, OwnBodies, NotOlder, Refreshed, NoResult, Nothing
<1> QED BY <1>1, <1>2, <1>3, <1>4, <1>5 DEF CInv

LEMMA NextCInv == CInv /\ [Next]_vars => CInv'
  BY NextRetry, NextTypes, NextKeyed, NextInStep, NextOwnBodies, NextNotOlder, NextRefreshed DEF CInv

LEMMA CInvHolds == Spec => []CInv
  BY InitCInv, NextCInv, PTL DEF Spec

\* The types of the coordinator's state, the bounds of its waits included, and
\* that a refreshed search never returns what was stale when it was made.
THEOREM CoordinatorIsFresh == Spec => []CoordinatorInv
<1>1. CInv => CoordinatorInv
  <2> SUFFICES ASSUME CInv PROVE CoordinatorInv
    OBVIOUS
  <2>1. Retry!TypeOK
    BY DEF CInv, R!IInv, R!TypeOK, Retry!TypeOK, R!Stages, Retry!Stages,
           R!Outcomes, Retry!Outcomes
  <2>2. \A r \in Requests : request_cache[r].body \in Bodies \cup {NoBody}
    BY DEF CInv, Types, StoredResponses, NotCached
  <2>3. ASSUME NEW k \in Keys, process_cache[k] \notin {Unknown, NoRecords}
        PROVE  /\ caching /\ CacheKey(process_cache[k].body.of) = k
               /\ process_cache[k].body \in Bodies /\ process_cache[k].age \in 0..Horizon
    BY <2>3 DEF CInv, Types, KeyedEntries, ProcessedEntries
  <2>4. TypeOK
    BY <2>1, <2>2, <2>3 DEF CInv, Types, TypeOK
  <2>5. RefreshIsFresh
    BY DEF CInv, Refreshed, RefreshIsFresh
  <2> QED BY <2>4, <2>5 DEF CoordinatorInv
<1> QED BY <1>1, CInvHolds, PTL

\* Whatever answers them, the searches of one request return content of that
\* request, only go forward, and what they return was processed by the components
\* in place.
THEOREM ReadsAreMonotonic == Spec => MonotonicReads
<1>1. CInv /\ [Next]_vars
        => [(cpc = "process" /\ result'.kind = "processed")
              => /\ result'.body.of = call.what
                 /\ result'.body.version >= seen[call.what]
                 /\ result'.body = body
                 /\ rebuilt' => Entry.schema = schema]_vars
  <2> SUFFICES ASSUME CInv, Next, cpc = "process", result'.kind = "processed"
               PROVE  /\ result'.body.of = call.what
                      /\ result'.body.version >= seen[call.what]
                      /\ result'.body = body
                      /\ rebuilt' => Entry.schema = schema
    OBVIOUS
  <2>1. result = NoResult
    BY DEF CInv, InStep
  <2>2. CASE ReturnCached
    BY <2>2 DEF ReturnCached, Return, CacheValid, SameHash, SameSchema, CInv, NotOlder,
                OwnBodies
  <2>3. CASE ReturnProcessed
    <3>1. body # NoBody
      BY <2>3, BodyBounds DEF ReturnProcessed, CInv, InStep
    <3> QED BY <2>3, <3>1 DEF ReturnProcessed, Return, CInv, NotOlder, OwnBodies
  <2>4. CASE ReturnError
    BY <2>4 DEF ReturnError, Return
  <2>5. CASE ProviderChanges \/ Elapse
    BY <2>1, <2>5 DEF ProviderChanges, Elapse, NoResult
  <2>6. cpc = "process" => ~Fetching /\ ~Requesting
    BY DEF Fetching, LookupHit, LookupMiss, LookupRaises, DeleteCachedRequest,
           RespectRetryAfter, WaitOver, Requesting, SendCached, SendNetwork, Retrying,
           RequestFailed, RequestAnswered
  <2>7. cpc = "process" =>
           ~(\/ \E r \in Requests, f \in RequestFlags, g \in ProcessFlags : Search(r, f, g)
             \/ \E new \in Schemas : SetProcessor(new)
             \/ \E new \in Schemas, c \in {"None", "True", "False"} : Update(new, c))
    BY DEF Search, SetProcessor, Update
  <2> QED BY <2>2, <2>3, <2>4, <2>5, <2>6, <2>7 DEF Next, Working, Handling
<1> QED BY <1>1, CInvHolds, PTL DEF Spec, MonotonicReads

----------------------------------------------------------------------------
(* The provider's pause, when an answer that is not accepted is returned and
   not raised, as it is by default. *)

PInv == CInv /\ PauseCovered /\ outcome # "invalid"

\* The pause of _respect_retry_after covers what is left of the provider's.
LEMMA PauseIsLongEnough ==
    ASSUME Types, Covered(last_response, last_response.age)
    PROVE  quiet <= Pause
<1>1. /\ last_response.after \in Int /\ last_response.age \in Nat /\ quiet \in Nat
      /\ last_response.form \in Forms
  BY Bounds DEF Types
<1> QED BY <1>1 DEF Covered, Pause, Forms

\* Time takes as much from what is left of the pause as from the wait to come.
LEMMA StillCovered ==
    ASSUME Types, Covered(last_response, last_response.age), Elapse
    PROVE  Covered(last_response, last_response.age)'
<1>1. /\ last_response \in [form : Forms, after : Int, age : 0..Horizon]
      /\ last_response.after \in Int /\ last_response.age \in Nat /\ quiet \in Nat
  BY Bounds DEF Types
<1> DEFINE n == IF last_response.form = "date" /\ last_response.after > 0
               THEN last_response.after - 1 ELSE last_response.after
<1>2. last_response' = [form |-> last_response.form, after |-> n,
                        age |-> Older(last_response.age)]
  BY <1>1, NearerHeader DEF Elapse
<1>3. quiet' = IF quiet > 0 THEN quiet - 1 ELSE 0
  BY DEF Elapse
<1>4. Older(last_response.age) \in Nat /\ Older(last_response.age) <= last_response.age + 1
  <2>1. last_response.age \in 0..Horizon
    BY <1>1
  <2> QED BY <2>1, Bounds DEF Older
<1>5. /\ last_response'.form = last_response.form /\ last_response'.after = n
      /\ last_response'.age = Older(last_response.age)
  BY <1>2
<1> QED BY <1>1, <1>3, <1>4, <1>5 DEF Covered

\* A retry waits at least as long as the answer before it asks.
LEMMA RetryCovers ==
    ASSUME CInv, PauseCovered, Retry!PrepareRetry, cpc = "request"
    PROVE  \/ quiet = 0
           \/ rpc' = "sleep" /\ quiet <= delay'
<1> SUFFICES ASSUME quiet # 0
             PROVE  rpc' = "sleep" /\ quiet <= delay'
  OBVIOUS
<1>1. Covered(response, 0) /\ quiet \in Nat /\ quiet > 0
  BY Bounds DEF PauseCovered, Unanswered, Retry!PrepareRetry, CInv, Types
<1>2. response \in Responses
  BY RetryTypes DEF Retry!PrepareRetry, CInv, InStep
<1>3. response.after \in Int /\ response.form # "none" /\ quiet <= response.after
  BY <1>1, <1>2, ResponseBounds DEF Covered
<1>4. Retry!RetryDelay(attempts', response) = response.after
  BY <1>3 DEF Retry!RetryDelay
<1>5. response.after >= 0
  BY <1>1, <1>3
<1> QED BY <1>3, <1>4, <1>5 DEF Retry!PrepareRetry

LEMMA NextPause ==
    ASSUME ~RaiseOnError PROVE PInv /\ [Next]_vars => PauseCovered' /\ (outcome # "invalid")'
<1> SUFFICES ASSUME PInv, [Next]_vars PROVE PauseCovered' /\ outcome' # "invalid"
  OBVIOUS
<1>held. R!IInv /\ Types /\ InStep /\ PauseCovered /\ outcome # "invalid"
  BY DEF PInv, CInv
<1>nat. quiet \in Nat /\ wait \in Nat /\ delay \in Nat
  BY <1>held, RetryTypes, Bounds DEF Types
<1>call. call.what \in Requests
  BY <1>held DEF Types
<1> USE DEF PauseCovered, Unanswered
<1>1. ASSUME NEW r, NEW f, NEW g, Search(r, f, g) PROVE PauseCovered' /\ outcome' # "invalid"
  BY <1>1, <1>held DEF Search, Covered, retryVars
<1>2. CASE LookupHit \/ LookupRaises
  BY <1>2, <1>held DEF LookupHit, LookupRaises, history, retryVars
<1>3. CASE LookupMiss
  BY <1>3, <1>held, FirstAttempt DEF LookupMiss, history
<1>4. CASE DeleteCachedRequest
  <2>1. quiet' = 0 \/ (quiet' = quiet /\ request_cache'[call'.what] = NotCached)
    BY <1>4, <1>held, <1>call DEF DeleteCachedRequest, Types
  <2> QED BY <1>4, <1>held, <2>1 DEF DeleteCachedRequest, Covered, retryVars
<1>5. CASE RespectRetryAfter
  <2>1. Unanswered \/ quiet = 0 \/ quiet <= Pause
    BY <1>5, <1>held, PauseIsLongEnough DEF RespectRetryAfter
  <2> QED BY <1>5, <1>held, <2>1 DEF RespectRetryAfter, caches, history, retryVars
<1>6. CASE WaitOver
  <2>1. Unanswered \/ quiet = 0
    BY <1>6, <1>held, <1>nat DEF WaitOver
  <2> QED BY <1>6, <2>1, FirstAttempt DEF WaitOver, caches, history
<1>7. CASE SendCached
  BY <1>7, <1>held DEF SendCached, Retry!RequestReturns, history
<1>8. ASSUME NEW r \in Responses, SendNetwork(r) PROVE PauseCovered' /\ outcome' # "invalid"
  <2>1. /\ cpc' = "request" /\ rpc' = "judge" /\ outcome' = "none" /\ response' = r
        /\ quiet' = IF r.form # "none" /\ r.after > 0 THEN r.after ELSE 0
    BY <1>8, <1>held, RetryTypes DEF SendNetwork, Retry!RequestReturns
  <2>2. r.after \in Int
    BY ResponseBounds
  <2> QED BY <2>1, <2>2 DEF Covered
<1>9. CASE Retrying
  <2>1. /\ UNCHANGED <<cpc, call, quiet, rebuilt, request_cache>> /\ cpc = "request"
    BY <1>9 DEF Retrying, caches, history
  <2>2. CASE Retry!RequestRaises
    BY <2>1, <2>2, <1>held DEF Retry!RequestRaises
  <2>3. CASE Retry!Accept \/ Retry!GiveUp \/ Retry!Exhaust
    BY <2>1, <2>3, <1>held
       DEF Retry!Accept, Retry!GiveUp, Retry!Exhaust, Retry!Rejected, Covered
  <2>4. CASE Retry!PrepareRetry
    <3>1. outcome' # "invalid"
      BY <2>4, <1>held DEF Retry!PrepareRetry
    <3>2. quiet = 0 \/ (rpc' = "sleep" /\ quiet <= delay')
      BY <2>1, <2>4, RetryCovers DEF PInv
    <3> QED BY <2>1, <3>1, <3>2
  <2>5. CASE Retry!Wake
    <3>1. quiet = 0
      BY <2>1, <2>5, <1>held, <1>nat DEF Retry!Wake
    <3> QED BY <2>1, <2>5, <3>1, <1>held DEF Retry!Wake
  <2> QED BY <1>9, <2>2, <2>3, <2>4, <2>5 DEF Retrying
<1>10. CASE RequestFailed
  BY <1>10, <1>held DEF RequestFailed, Forget, history
<1>11. CASE RequestAnswered
  BY <1>11, <1>held
     DEF RequestAnswered, Retry!EndCall, Covered, history
<1>12. CASE ReturnCached
  BY <1>12 DEF ReturnCached, Return, Forget
<1>13. CASE ReturnProcessed \/ ReturnError
  <2>1. /\ cpc = "process" /\ cpc' = "idle" /\ quiet' = quiet /\ outcome' = "none"
        /\ last_response' = [form |-> response.form, after |-> response.after, age |-> 0]
    BY <1>13 DEF ReturnProcessed, ReturnError, Return, Forget
  <2>2. /\ last_response'.form = response.form /\ last_response'.after = response.after
        /\ last_response'.age = 0
    BY <2>1
  <2>3. quiet = 0 \/ Covered(response, 0)
    BY <2>1, <1>held
  <2> QED BY <2>1, <2>2, <2>3 DEF Covered
<1>14. ASSUME NEW new, NEW c, SetProcessor(new) \/ Update(new, c)
       PROVE  PauseCovered' /\ outcome' # "invalid"
  BY <1>14, <1>held DEF SetProcessor, Update, history, Covered, retryVars
<1>15. CASE ProviderChanges
  BY <1>15, <1>held DEF ProviderChanges, caches, history, Covered, retryVars
<1>16. CASE Elapse
  <2>1. /\ UNCHANGED <<cpc, call, rebuilt, rpc, outcome>> /\ rpc \notin {"judge", "done"}
        /\ cpc # "process"
        /\ quiet' = IF quiet > 0 THEN quiet - 1 ELSE 0
        /\ wait' = IF wait > 0 THEN wait - 1 ELSE 0
        /\ delay' = IF delay > 0 THEN delay - 1 ELSE 0
    BY <1>16 DEF Elapse, Retry!Elapse
  <2>2. CASE cpc \in {"idle", "delete", "respect"}
             /\ Covered(last_response, last_response.age)
    <3>1. Covered(last_response, last_response.age)'
      BY <1>16, <1>held, <2>2, StillCovered
    <3> QED BY <2>1, <2>2, <3>1, <1>held
  <2>3. CASE quiet = 0
    BY <2>1, <2>3, <1>held
  <2>4. CASE Unanswered
    <3>1. request_cache'[call.what] = NotCached <=> request_cache[call.what] = NotCached
      BY <1>16, <1>held, <1>call, NearerStored DEF Elapse, Types
    <3> QED BY <2>1, <2>4, <3>1, <1>held
  <2>5. CASE cpc = "waiting" /\ quiet <= wait
    BY <2>1, <2>5, <1>held, <1>nat
  <2>6. CASE cpc = "request" /\ rpc = "sleep" /\ quiet <= delay
    BY <2>1, <2>6, <1>held, <1>nat
  <2> QED BY <2>1, <2>2, <2>3, <2>4, <2>5, <2>6, <1>held
<1>17. CASE UNCHANGED vars
  BY <1>17, <1>held DEF vars, caches, history, retryVars, Covered
<1> QED BY <1>1, <1>2, <1>3, <1>4, <1>5, <1>6, <1>7, <1>8, <1>9, <1>10, <1>11, <1>12, <1>13,
           <1>14, <1>15, <1>16, <1>17
        DEF Next, Working, Fetching, Requesting, Handling

\* While every search refreshes, the provider is not asked again before the pause
\* it asked for is over.  With raise_on_error the response that asks for the pause
\* is raised, last_response stays as it was, and the pause is not made.
THEOREM PauseIsRespected == ASSUME ~RaiseOnError PROVE Spec => PauseRespected
<1>1. Init => PInv
  <2> SUFFICES ASSUME Init PROVE PInv
    OBVIOUS
  <2>1. quiet = 0 /\ outcome = "none"
    BY DEF Init, Retry!Init
  <2> QED BY <2>1, InitCInv DEF PInv, PauseCovered
<1>2. PInv /\ [Next]_vars => PInv'
  BY NextPause, NextCInv DEF PInv
<1>3. PInv /\ [Next]_vars
        => [(cpc = "request" /\ rpc = "request" /\ rpc' = "judge"
              /\ request_cache[call.what] = NotCached) => quiet = 0 \/ rebuilt]_vars
  BY RetryTypes DEF PInv, PauseCovered, Unanswered
<1> QED BY <1>1, <1>2, <1>3, PTL DEF Spec, PauseRespected

\* However a search ends, it sends no more than max_retries + 1 requests: the
\* retry loop's bound holds inside the coordinator too.
THEOREM SearchRequestsBounded == Spec => []R!AttemptsBounded
<1>1. CInv => R!AttemptsBounded
  BY DEF CInv, R!IInv
<1> QED BY <1>1, CInvHolds, PTL
=============================================================================
