----------------------------- MODULE SharedApi -----------------------------
(***************************************************************************)
(* Threads that share a SearchAPI (api/search_api.py), the provider        *)
(* registry, the registry of threaded rate limiters and the default PubMed *)
(* workflow, one object for all coordinators (workflows/).                 *)
(*                                                                         *)
(* A thread runs a little program: with-blocks that change the             *)
(* configuration for a while, searches of a page, searches with the        *)
(* workflow, constructions with a temporary provider, additions to a       *)
(* MultiSearchCoordinator.  A block assigns the configuration first, the   *)
(* parameter map and the query after it, on its way in and on its way out. *)
(* A search first prepares the request whose cached response it looks up   *)
(* (or deletes); the request that it sends reads its parameters first, the *)
(* delay and the URL when it is sent.  Making one SearchAPI from another   *)
(* is one step.                                                            *)
(***************************************************************************)
EXTENDS SearchConfigs, SequencesExt

CONSTANTS Threads,
          Registered,   \* the provider registry as the user left it
          Limited,      \* the names that already have a threaded rate limiter
          Made,         \* the SearchAPI that the user made
          Scenarios,    \* [uses |-> [Threads -> Apis], todo |-> [Threads -> Seq(op)]]
          Providers,    \* every provider there is, the temporary ones included
          KeySite,      \* the site that a key is for
          MaxSize,      \* bound on the records per page
          Answers       \* what a provider may answer: "found", "empty", "error"

Apis == Threads \cup {"shared"}

\* The blocks that are open after i operations of a program.
Depth(ops, i) == Cardinality({j \in 1..i : ops[j].op = "open"})
                    - Cardinality({j \in 1..i : ops[j].op = "close"})

\* A provider that is registered or will be has a normalised name.
Registrable(n, p) == /\ n \in DOMAIN Normal /\ Normal[n] = n /\ n # ""
                     /\ p # NoProvider /\ p.delay \in Nat

\* What a program may consist of.  Blocks are closed; outside of them, where a
\* SearchAPI is made anew for the thread alone.
Program(ops) ==
    /\ ops \in Seq(ToSet(ops))
    /\ Depth(ops, Len(ops)) = 0
    /\ \A i \in DOMAIN ops :
          /\ ops[i].op \in {"open", "close", "search", "workflow", "temporary", "add"}
          /\ Depth(ops, i) \in Nat
          /\ ops[i].op \in {"temporary", "add"} => Depth(ops, i) = 0
          /\ ops[i].op = "temporary" => Registrable(ops[i].provider.name, ops[i].provider)

ASSUME SharedAssumption ==
    /\ "shared" \notin Threads /\ Apis \cap DOMAIN Normal = {}
    /\ Limited \subseteq DOMAIN Registered
    /\ \A n \in DOMAIN Registered : Registrable(n, Registered[n])
    /\ Made = [config |-> Made.config, map |-> Made.map, query |-> Made.query,
               limiter |-> Made.limiter]
    /\ \A s \in Scenarios :
          /\ s.uses \in [Threads -> Apis] /\ DOMAIN s.todo = Threads
          /\ \A t \in Threads : s.uses[t] \in {t, "shared"} /\ Program(s.todo[t])

VARIABLES
    registry,   \* provider_registry
    limiters,   \* threaded_rate_limiter_registry
    api,        \* the SearchAPIs: config, map, query and rate limiter
    uses,       \* the SearchAPI of a thread's coordinator
    recorded,   \* the workflow's _history
    todo,       \* what is left of a thread's program
    half,       \* is the thread in the middle of its operation?
    saved,      \* what the with-blocks of a thread put back, the last one last
    original,   \* the provider a temporary one stands for
    prepared,   \* the request whose cached response the thread has looked up
    request,    \* the thread's last request
    answer,     \* ... its answer, the context of a workflow's step
    result,     \* what the thread's last workflow returned
    blocks,     \* history: SearchAPI |-> its open blocks, <<thread, level>>
    temporary,  \* history: name |-> the threads that have put a provider there
    tangled,    \* history: SearchAPIs and names whose blocks did not nest
    alone,      \* history: no other thread changed what the thread works with
    asked,      \* history: the query of the thread's workflow
    joined,     \* history: the provider name a thread's SearchAPI was added for
    raced,      \* history: names for which two limiters were made at once
    meant,      \* history: each SearchAPI as it was made
    mixed       \* history: threads whose workflow shared its history

shared  == <<registry, limiters, api, uses, recorded>>
local   == <<todo, half, saved, original, prepared, request, answer, result>>
history == <<blocks, temporary, tangled, alone, asked, joined, raced, meant, mixed>>
vars    == <<shared, local, history>>

NoRequest == [url |-> NoUrl]
NoAnswer  == [kind |-> None]
PubMed == Registered["pubmed"]
EFetch == Registered["pubmedefetch"]
FetchDelay == 1

\* The names of eSearch's query and of the ids that eFetch is asked for have no
\* other meaning, and no other provider has eFetch's URL.
Clean(map)  == "term" \notin {map.start, map.size, map.key} \cup DOMAIN map.specific
Suitable(p) == Clean(p.map) /\ (p.url = EFetch.url => p = EFetch)

ASSUME WorkflowAssumption ==
    /\ {"pubmed", "pubmedefetch"} \subseteq DOMAIN Registered
    /\ EFetch.url \notin {PubMed.url, NoUrl}
    /\ "id" \in DOMAIN EFetch.map.specific
    /\ "id" \notin {EFetch.map.query, EFetch.map.start, EFetch.map.size, EFetch.map.key}
    /\ Clean(Made.map) /\ \A n \in DOMAIN Registered : Suitable(Registered[n])
    /\ \A s \in Scenarios : \A t \in Threads : \A i \in DOMAIN s.todo[t] :
          s.todo[t][i].op = "temporary" => Suitable(s.todo[t][i].provider)

Op(t)  == Head(todo[t])
Runs(t, op) == todo[t] # <<>> /\ Op(t).op = op
My(t)  == api[uses[t]]
Done(t) == todo' = [todo EXCEPT ![t] = Tail(@)]
Then(t, ops) == todo' = [todo EXCEPT ![t] = ops \o Tail(@)]

InWorkflow(t) == \E i \in DOMAIN todo[t] : todo[t][i].op \in {"next", "transform", "append", "wrap"}
\* Is the thread outside every block and every workflow?
Outside(t) == saved[t] = <<>> /\ ~InWorkflow(t)
\* Nobody else has changed what t is about to work with.
Calm(t) == /\ \A i \in DOMAIN blocks[uses[t]] : blocks[uses[t]][i][1] = t
           /\ uses[t] \notin tangled
           /\ \A n \in DOMAIN temporary : ToSet(temporary[n]) \subseteq {t}
           /\ tangled \cap DOMAIN Registered = {}
Begins(t) == IF Outside(t) THEN Calm(t) ELSE alone[t]
\* alone when thread t changes what the threads of `others' work with.
Disturbed(t, others) ==
    [u \in Threads |-> IF u = t THEN Begins(t) ELSE alone[u] /\ u \notin others]
Undisturbed(t) == alone' = Disturbed(t, {})

\* The block that t is in, and tangled when it leaves that one.
Block(t)   == <<t, Len(saved[t])>>
Tangled(t) == IF Last(blocks[uses[t]]) = Block(t) THEN tangled ELSE tangled \cup {uses[t]}
Without(s, x) == RemoveAt(s, CHOOSE i \in DOMAIN s : s[i] = x)

\* A SearchAPI with other attributes.
Configured(a, config)   == [a EXCEPT !.config = config]
Switched(a, map, query) == [a EXCEPT !.map = map, !.query = query]

Init ==
    /\ \E s \in Scenarios : uses = s.uses /\ todo = s.todo
    /\ registry = Registered
    /\ limiters = [n \in Limited |-> [id |-> n, interval |-> Registered[n].delay]]
    /\ api = [a \in Apis |-> [Made EXCEPT !.query = a]] /\ meant = api
    /\ recorded = <<>>
    /\ half = [t \in Threads |-> FALSE]
    /\ saved = [t \in Threads |-> <<>>]
    /\ original = [t \in Threads |-> NoProvider]
    /\ prepared = [t \in Threads |-> NoRequest]
    /\ request = [t \in Threads |-> NoRequest]
    /\ answer = [t \in Threads |-> NoAnswer]
    /\ result = [t \in Threads |-> NoAnswer]
    /\ blocks = [a \in Apis |-> <<>>]
    /\ temporary = [n \in DOMAIN Normal |-> <<>>]
    /\ tangled = {} /\ raced = {} /\ mixed = {}
    /\ alone = [t \in Threads |-> FALSE]
    /\ asked = [t \in Threads |-> None]
    /\ joined = [t \in Threads |-> None]

----------------------------------------------------------------------------
(* with_config_parameters and with_config *)

\* The configuration a block works with.
Temporarily(t) ==
    LET o == Op(t)
        over == [o.over EXCEPT !.provider = o.name]
    IN  IF o.how = "defaults" THEN DefaultConfig(registry, o.name, NoOverrides)
        ELSE IF over = NoOverrides THEN My(t).config
        ELSE Updated(registry, My(t).config, over)

\* ... and its parameter map: the URL alone does not change it.
TemporaryMap(t) ==
    LET p == FromName(registry, Op(t).name)
    IN  IF p = NoProvider THEN My(t).map ELSE p.map

EnterConfig(t) ==
    /\ Runs(t, "open") /\ ~half[t]
    /\ saved' = [saved EXCEPT ![t] = Append(@, My(t))]
    /\ api' = [api EXCEPT ![uses[t]] = Configured(@, Temporarily(t))]
    /\ half' = [half EXCEPT ![t] = TRUE]
    /\ blocks' = [blocks EXCEPT ![uses[t]] = Append(@, <<t, Len(saved[t]) + 1>>)]
    /\ alone' = Disturbed(t, {u \in Threads : uses[u] = uses[t]})
    /\ request' = [request EXCEPT ![t] = NoRequest]
    /\ UNCHANGED <<registry, limiters, uses, recorded, todo, original, prepared, answer, result,
                   temporary, tangled, asked, joined, raced, meant, mixed>>

EnterMap(t) ==
    /\ Runs(t, "open") /\ half[t]
    /\ api' = [api EXCEPT ![uses[t]] =
          Switched(@, TemporaryMap(t), IF Op(t).query = None THEN My(t).query ELSE Op(t).query)]
    /\ half' = [half EXCEPT ![t] = FALSE]
    /\ Done(t)
    /\ UNCHANGED <<registry, limiters, uses, recorded, saved, original, prepared, request,
                   answer,
                   result, history>>

LeaveConfig(t) ==
    /\ Runs(t, "close") /\ ~half[t]
    /\ api' = [api EXCEPT ![uses[t]] = Configured(@, Last(saved[t]).config)]
    /\ half' = [half EXCEPT ![t] = TRUE]
    /\ tangled' = Tangled(t)
    /\ UNCHANGED <<registry, limiters, uses, recorded, todo, saved, original, prepared,
                   request, answer,
                   result, blocks, temporary, alone, asked, joined, raced, meant, mixed>>

\* Mutant of PutBack: the query is left as the block set it.
QueryLeft(t) == [Last(saved[t]) EXCEPT !.query = My(t).query]

PutBack(t) == Last(saved[t])

LeaveMap(t) ==
    /\ Runs(t, "close") /\ half[t]
    /\ api' = [api EXCEPT ![uses[t]] = Switched(@, PutBack(t).map, PutBack(t).query)]
    /\ saved' = [saved EXCEPT ![t] = Front(@)]
    /\ half' = [half EXCEPT ![t] = FALSE]
    /\ blocks' = [blocks EXCEPT ![uses[t]] = Without(@, Block(t))]
    /\ tangled' = Tangled(t)
    /\ Done(t)
    /\ UNCHANGED <<registry, limiters, uses, recorded, original, prepared, request, answer,
                   result,
                   temporary, alone, asked, joined, raced, meant, mixed>>

----------------------------------------------------------------------------
(* SearchCoordinator.search without its caches: the key, then the request  *)

\* A search of a page with the settings of the SearchAPI, and nothing else.
Page(n) == [op |-> "search", page |-> n, extra |-> NoFields, endpoint |-> None, delay |-> NoDelay]

\* The URL and the parameters of a request: urljoin, and no key is added.
Prepared(url, endpoint, params) ==
    [url |-> IF endpoint = None THEN url ELSE [url EXCEPT !.path = endpoint], params |-> params]

Built(t, page, extra) == BuildParameters(My(t).config, My(t).map, My(t).query, page, extra)

\* Mutant of Stripped: the additional parameters are lost.
NoneLeft(o) == NoFields

\* What prepare_search leaves of the additional parameters of a search: all but
\* the delay, which is not one of them here.
Stripped(o) == o.extra

\* prepare_search: with an endpoint the page is not looked at.
PrepareSearch(t, o) ==
    LET params == IF o.page = NoPage \/ o.endpoint # None THEN Stripped(o)
                  ELSE Built(t, o.page, Stripped(o))
    IN  IF params = Raised THEN NoRequest
        ELSE Prepared(My(t).config.url, o.endpoint, params)

\* What is left of a search when its key is known.
Sending(o) == [op |-> "request", page |-> o.page, extra |-> o.extra, endpoint |-> o.endpoint,
               delay |-> o.delay]

\* get_cached_request or _delete_cached_request: an error is logged.
LookUp(t) ==
    /\ Runs(t, "search")
    /\ prepared' = [prepared EXCEPT ![t] = PrepareSearch(t, Op(t))]
    /\ request' = [request EXCEPT ![t] = NoRequest]
    /\ Then(t, <<Sending(Op(t))>>)
    /\ Undisturbed(t)
    /\ UNCHANGED <<shared, half, saved, original, answer, result, blocks, temporary,
                   tangled, asked, joined, raced, meant, mixed>>

\* search: a page's parameters are built, other ones are sent as they are.
SearchParameters(t, o) ==
    IF o.page # NoPage THEN Built(t, o.page, o.extra)
    ELSE IF o.extra = NoFields /\ o.endpoint = None THEN Raised ELSE o.extra

Build(t) ==
    LET params == SearchParameters(t, Op(t))
    IN  /\ Runs(t, "request") /\ ~half[t]
        /\ IF params = Raised
           THEN /\ answer' = [answer EXCEPT ![t] = [kind |-> "error"]]
                /\ request' = [request EXCEPT ![t] = NoRequest]
                /\ Done(t) /\ UNCHANGED half
           ELSE /\ request' = [request EXCEPT ![t] = [url |-> NoUrl, params |-> params]]
                /\ half' = [half EXCEPT ![t] = TRUE]
                /\ UNCHANGED <<answer, todo>>
        /\ UNCHANGED <<shared, saved, original, prepared, result, history>>

\* What the provider says: eSearch knows the ids of a query, which its metadata
\* lists, and eFetch the records of ids.
Said(req, kind) ==
    [kind |-> kind,
     ids  |-> IF req.url = PubMed.url /\ kind = "found" THEN Given(req.params, "term") ELSE None,
     meta |-> IF req.url = PubMed.url THEN Given(req.params, "term") ELSE None,
     records |-> IF req.url = EFetch.url THEN Given(req.params, "id") ELSE None]

\* The rate limiter waits for the delay, send_request sends.
Send(t) ==
    LET o == Op(t)
        now == Prepared(My(t).config.url, o.endpoint, request[t].params)
        delay == IF o.delay = NoDelay THEN My(t).config.delay ELSE o.delay
    IN  /\ Runs(t, "request") /\ half[t]
        /\ request' = [request EXCEPT ![t] =
              [url |-> now.url, params |-> now.params, page |-> o.page,
               endpoint |-> o.endpoint, delay |-> delay]]
        /\ \E k \in Answers : answer' = [answer EXCEPT ![t] = Said(now, k)]
        /\ half' = [half EXCEPT ![t] = FALSE]
        /\ Done(t)
        /\ UNCHANGED <<shared, saved, original, prepared, result, history>>

----------------------------------------------------------------------------
(* SearchWorkflow._run with the two steps of PubMedSearchWorkflow *)

Clear(t) ==
    LET here == {u \in Threads \ {t} : InWorkflow(u)}
    IN  /\ Runs(t, "workflow")
        /\ recorded' = <<>>
        /\ Then(t, <<[op |-> "open", how |-> "parameters", name |-> "", over |-> NoOverrides,
                      query |-> None],
                     Page(1), [op |-> "close"], [op |-> "next"]>>)
        /\ asked' = [asked EXCEPT ![t] = My(t).query]
        /\ result' = [result EXCEPT ![t] = NoAnswer]
        /\ mixed' = IF here = {} THEN mixed \ {t} ELSE mixed \cup here \cup {t}
        /\ Undisturbed(t)
        /\ request' = [request EXCEPT ![t] = NoRequest]
        /\ UNCHANGED <<registry, limiters, api, uses, half, saved, original, prepared, answer,
                       blocks, temporary, tangled, joined, raced, meant>>

\* The first step is over: a failed one ends the workflow with its result.
FirstStep(t) ==
    /\ Runs(t, "next")
    /\ recorded' = Append(recorded, [step |-> "search", result |-> answer[t]])
    /\ Then(t, <<[op |-> IF answer[t].kind = "error" THEN "wrap" ELSE "transform"]>>)
    /\ UNCHANGED <<registry, limiters, api, uses, half, saved, original, prepared, request,
                   answer, result,
                   history>>

\* Mutant of Ids: the ids are taken from the history.
LatestIds(t) == IF recorded = <<>> THEN None ELSE Last(recorded).result.ids

\* The ids come with the context of this workflow's own first step.
Ids(t) == answer[t].ids

\* PubMedFetchStep.pre_transform: eFetch's defaults and the ids, or it raises.
FetchBlock(t) ==
    LET c == DefaultConfig(registry, "pubmedefetch", NoOverrides)
    IN  [op |-> "open", how |-> "parameters", name |-> "pubmedefetch", query |-> None,
         over |-> [provider |-> c.provider, url |-> c.url, delay |-> FetchDelay, key |-> c.key,
                   size |-> 1, params |-> Over(Entry("id", Ids(t)), c.params)]]

Transform(t) ==
    /\ Runs(t, "transform")
    /\ IF Ids(t) = None
       THEN Done(t) /\ result' = [result EXCEPT ![t] = [kind |-> "error"]]
       ELSE /\ Then(t, <<FetchBlock(t), Page(1), [op |-> "close"],
                         [op |-> "append"], [op |-> "wrap"]>>)
            /\ UNCHANGED result
    /\ UNCHANGED <<shared, half, saved, original, prepared, request, answer, history>>

AppendStep(t) ==
    /\ Runs(t, "append")
    /\ recorded' = Append(recorded, [step |-> "fetch", result |-> answer[t]])
    /\ Done(t)
    /\ UNCHANGED <<registry, limiters, api, uses, half, saved, original, prepared, request,
                   answer, result,
                   history>>

\* _create_workflow_result: eSearch's metadata goes to a result without any.
Metadata(r) ==
    LET n == Len(recorded)
        two == /\ n >= 2 /\ r.kind # "error"
               /\ recorded[n - 1].step = "search" /\ recorded[n].step = "fetch"
               /\ recorded[n - 1].result.kind # "error"
    IN  IF two /\ r.meta = None THEN [r EXCEPT !.meta = recorded[n - 1].result.meta] ELSE r

Wrap(t) ==
    /\ Runs(t, "wrap")
    /\ result' = [result EXCEPT ![t] = Metadata(answer[t])]
    /\ Done(t)
    /\ UNCHANGED <<shared, half, saved, original, prepared, request, answer, history>>

----------------------------------------------------------------------------
(* SearchAPI.from_provider_config *)

\* ProviderRegistry.add and remove
Entered(d, n, p) == [m \in DOMAIN d \cup {n} |-> IF m = n THEN p ELSE d[m]]
Removed(d, n)    == Restrict(d, DOMAIN d \ {n})

Register(t) ==
    LET p == Op(t).provider
    IN  /\ Runs(t, "temporary") /\ ~half[t]
        /\ original' = [original EXCEPT ![t] = FromName(registry, p.name)]
        /\ registry' = Entered(registry, p.name, p)
        /\ half' = [half EXCEPT ![t] = TRUE]
        /\ temporary' = [temporary EXCEPT ![p.name] = Append(@, t)]
        /\ alone' = Disturbed(t, Threads)
        /\ request' = [request EXCEPT ![t] = NoRequest]
        /\ UNCHANGED <<limiters, api, uses, recorded, todo, saved, prepared, answer, result,
                       blocks, tangled, asked, joined, raced, meant, mixed>>

\* from_defaults raises when another thread has removed the provider.
Construct(t) ==
    LET p == FromName(registry, Op(t).provider.name)
        made == [config |-> DefaultConfig(registry, p.name, NoOverrides), map |-> p.map,
                 query |-> t, limiter |-> None]
    IN  /\ Runs(t, "temporary") /\ half[t]
        /\ IF p = NoProvider THEN UNCHANGED <<api, uses, meant, joined>>
           ELSE /\ api' = [api EXCEPT ![t] = made]
                /\ meant' = [meant EXCEPT ![t] = made]
                /\ uses' = [uses EXCEPT ![t] = t]
                /\ joined' = [joined EXCEPT ![t] = None]
        /\ half' = [half EXCEPT ![t] = FALSE]
        /\ Then(t, <<[op |-> "restore", name |-> Op(t).provider.name]>>)
        /\ UNCHANGED <<registry, limiters, recorded, saved, original, prepared, request,
                       answer, result,
                       blocks, temporary, tangled, alone, asked, raced, mixed>>

Restore(t) ==
    LET n == Op(t).name
    IN  /\ Runs(t, "restore")
        /\ registry' = IF original[t] # NoProvider THEN Entered(registry, n, original[t])
                       ELSE Removed(registry, n)
        /\ temporary' = [temporary EXCEPT ![n] = Without(@, t)]
        /\ tangled' = IF Last(temporary[n]) = t THEN tangled ELSE tangled \cup {n}
        /\ Done(t)
        /\ UNCHANGED <<limiters, api, uses, recorded, half, saved, original, prepared,
                       request, answer,
                       result, blocks, alone, asked, joined, raced, meant, mixed>>

----------------------------------------------------------------------------
(* MultiSearchCoordinator.add and RateLimiterRegistry.get_or_create *)

ProviderOf(t) == Normal[My(t).config.provider]
ThreadedDelay == 61

\* SearchAPI.update with a limiter: its interval becomes the delay.
WithLimiter(a, limiter) ==
    [config |-> Updated(registry, a.config, [NoOverrides EXCEPT !.delay = limiter.interval]),
     map |-> a.map, query |-> a.query, limiter |-> limiter.id]

Joined(t, name, limiter) ==
    /\ uses' = [uses EXCEPT ![t] = t]
    /\ api' = [api EXCEPT ![t] = WithLimiter(My(t), limiter)]
    /\ meant' = [meant EXCEPT ![t] = WithLimiter(My(t), limiter)]
    /\ joined' = [joined EXCEPT ![t] = name]
    /\ Done(t)

\* The name is read here; a limiter that is not there is made by name.
Look(t) ==
    /\ Runs(t, "add")
    /\ IF ProviderOf(t) \in DOMAIN limiters
       THEN Joined(t, ProviderOf(t), limiters[ProviderOf(t)])
       ELSE /\ Then(t, <<[op |-> "create", name |-> ProviderOf(t)]>>)
            /\ UNCHANGED <<uses, api, joined, meant>>
    /\ UNCHANGED <<registry, limiters, recorded, half, saved, original, prepared, request,
                   answer, result,
                   blocks, temporary, tangled, alone, asked, raced, mixed>>

\* Mutant of Kept: the new limiter is not added to the registry.
NotKept(name, limiter) == limiters

Kept(name, limiter) == Entered(limiters, name, limiter)

Create(t) ==
    LET n == Op(t).name
        p == FromName(registry, n)
        new == [id |-> t, interval |-> IF p = NoProvider THEN ThreadedDelay ELSE p.delay]
        late == \E u \in Threads \ {t} : Runs(u, "create") /\ Op(u).name = n
    IN  /\ Runs(t, "create")
        /\ limiters' = Kept(n, new)
        /\ Joined(t, n, new)
        /\ raced' = IF late THEN raced \cup {n} ELSE raced
        /\ UNCHANGED <<registry, recorded, half, saved, original, prepared, request, answer,
                       result,
                       blocks, temporary, tangled, alone, asked, mixed>>

----------------------------------------------------------------------------
Finished == (\A t \in Threads : todo[t] = <<>>) /\ UNCHANGED vars

Next ==
    \/ \E t \in Threads :
          \/ EnterConfig(t) \/ EnterMap(t) \/ LeaveConfig(t) \/ LeaveMap(t)
          \/ LookUp(t) \/ Build(t) \/ Send(t)
          \/ Clear(t) \/ FirstStep(t) \/ Transform(t) \/ AppendStep(t) \/ Wrap(t)
          \/ Register(t) \/ Construct(t) \/ Restore(t)
          \/ Look(t) \/ Create(t)
    \/ Finished

Spec == Init /\ [][Next]_vars

----------------------------------------------------------------------------
(* Properties *)

\* Type correctness: a thread that leaves a block has something to put back,
\* and one that is done has nothing left.
TypeOK ==
    /\ half \in [Threads -> BOOLEAN] /\ uses \in [Threads -> Apis]
    /\ DOMAIN registry \subseteq DOMAIN Normal
    /\ \A n \in DOMAIN registry : registry[n].delay \in Nat
    /\ \A n \in DOMAIN limiters : limiters[n].interval \in Nat
    /\ \A t \in Threads : /\ todo[t] = <<>> => saved[t] = <<>> /\ ~half[t]
                          /\ Runs(t, "close") => saved[t] # <<>>

\* When blocks nested (however deep, and in whichever threads), the SearchAPI
\* and the registry that are left are the ones from before the first block.
Restored ==
    /\ TypeOK
    /\ \A a \in Apis : (blocks[a] = <<>> /\ a \notin tangled) => api[a] = meant[a]
    /\ \A n \in DOMAIN Normal \ tangled :
          (Normal[n] = n /\ temporary[n] = <<>>) => FromName(registry, n) = FromName(Registered, n)

\* The names that a provider knows.
NamesOf(p) == ({p.map.query, p.map.start, p.map.size, p.map.key} \cup DOMAIN p.map.specific) \ {None}

\* A request that no other thread interfered with is the one whose cached
\* response was looked up or deleted (a page of an endpoint excepted).
RequestAsPrepared ==
    \A t \in Threads : (alone[t] /\ request[t].url # NoUrl) =>
        LET r == request[t]
        IN  r.page = NoPage \/ r.endpoint = None =>
                prepared[t] = [url |-> r.url, params |-> r.params]

\* A request for a page that no other thread interfered with is one that a
\* single provider understands: the names, and the way of counting pages, are
\* those of the provider whose URL it goes to; the key, whatever the URL,
\* belongs to the site it goes to.
RequestCoherent ==
    \A t \in Threads : (alone[t] /\ request[t].url # NoUrl) =>
        LET r == request[t]
        IN  /\ \A p \in Providers : (p.url = r.url /\ r.page # NoPage) =>
                  /\ p.map.query \in DOMAIN r.params /\ DOMAIN r.params \subseteq NamesOf(p)
                  /\ \E n \in 1..MaxSize :
                        /\ r.params[p.map.size] = ToString(n)
                        /\ Given(r.params, p.map.start) = StartIndex(p.map, r.page, n)
            /\ \A k \in DOMAIN KeySite : (\E n \in DOMAIN r.params : r.params[n] = k)
                  => KeySite[k] = r.url.site

\* What a workflow returns are the records of its own query, whatever other
\* workflows do with the history; the metadata are its own too unless another
\* one wrote to the history meanwhile.
WorkflowResultOwn ==
    [][\A t \in Threads :
          (result'[t] # result[t] /\ result'[t].kind = "found" /\ alone[t]) =>
              /\ result'[t].records = asked[t]
              /\ t \notin mixed => result'[t].meta = asked[t]]_vars

\* Coordinators added for one provider share one limiter and wait as long as
\* it says, unless they were added in the same moment.
OneLimiter ==
    \A t, u \in Threads :
        (joined[t] # None /\ joined[t] = joined[u] /\ joined[t] \notin raced) =>
            /\ joined[t] \in DOMAIN limiters
            /\ api[t].limiter = limiters[joined[t]].id /\ api[u].limiter = api[t].limiter
            /\ blocks[t] = <<>> => api[t].config.delay = limiters[joined[t]].interval
=============================================================================
