---------------------------- MODULE MultiSearch ----------------------------
(***************************************************************************)
(* MultiSearchCoordinator: several queries, grouped by provider, searched  *)
(* page by page.  The queries of a provider run one after the other in one *)
(* generator (_process_provider_group), so that they share its rate        *)
(* limiter; the generators run in a thread pool (iter_pages_threaded), one *)
(* after the other (_grouped_iteration) or in turn                         *)
(* (_round_robin_iteration).  The caller consumes a generator of results   *)
(* and may close it early.                                                 *)
(*                                                                         *)
(* A coordinator's iter_pages is its page list, PageResults!Halts, and     *)
(* any answer to any page.  Handing over a result and resuming after it is *)
(* one step of the sequential modes, where nothing else runs.              *)
(***************************************************************************)
EXTENDS PageResults, FiniteSets

CONSTANTS Coordinators,    \* the queries
          Added,           \* the coordinators in the order they are added
          KeyOf,           \* coordinator |-> the hash of its provider, query and structure
          ProviderOf,      \* coordinator |-> its normalized provider name
          Pages,           \* page_numbers of the validated page list
          Rpp,             \* records_per_page
          Responses,       \* what a page's search may come to
          RetryStatuses,   \* coordinator |-> its retry handler's retry_statuses
          Modes,           \* a subset of "threaded", "grouped", "round_robin"
          WorkerInputs,    \* the values of max_workers, NoLimit for None
          NoLimit

ASSUME MultiAssumption ==
    /\ Added # <<>> /\ IsInjective(Added) /\ ToSet(Added) = Coordinators
    /\ DOMAIN KeyOf = Coordinators /\ DOMAIN ProviderOf = Coordinators
    /\ \A c, d \in Coordinators : KeyOf[c] = KeyOf[d] => ProviderOf[c] = ProviderOf[d]
    /\ Pages \in Seq(Int)
    /\ \A i, j \in DOMAIN Pages : i < j => Pages[i] < Pages[j]
    /\ Rpp \in Nat \ {0}
    /\ DOMAIN RetryStatuses = Coordinators
    /\ Modes \subseteq {"threaded", "grouped", "round_robin"}
    /\ WorkerInputs \subseteq Int \cup {NoLimit}

\* add: a coordinator takes the place of the one with its key, or the last.
Add(data, c) ==
    LET same == {i \in DOMAIN data : KeyOf[data[i]] = KeyOf[c]}
    IN  IF same = {} THEN Append(data, c)
        ELSE [i \in DOMAIN data |-> IF i \in same THEN c ELSE data[i]]

\* add_coordinators
Data == FoldLeft(Add, <<>>, Added)

\* group_by_provider: a provider's coordinators, and the order of the providers.
Group == [p \in {ProviderOf[c] : c \in ToSet(Data)} |->
             SelectSeq(Data, LAMBDA c : ProviderOf[c] = p)]
Providers ==
    FoldLeft(LAMBDA found, c : IF ProviderOf[c] \in ToSet(found) THEN found
                               ELSE Append(found, ProviderOf[c]), <<>>, Data)

\* Added, and not replaced by a later one of its key.
Searched == {c \in Coordinators :
                \A i, j \in DOMAIN Added :
                    i < j /\ Added[i] = c => KeyOf[Added[j]] # KeyOf[c]}

\* What the folds above come to, for the provers: a list of the providers, each
\* once, and for each a list of its coordinators, each once.
ASSUME GroupAssumption ==
    /\ Providers \in Seq(DOMAIN Group) /\ ToSet(Providers) = DOMAIN Group
    /\ IsInjective(Providers)
    /\ \A c \in Searched : ProviderOf[c] \in DOMAIN Group
                           /\ c \in ToSet(Group[ProviderOf[c]])
    /\ \A p \in DOMAIN Group :
        /\ Group[p] \in Seq(Searched) /\ Group[p] # <<>>
        /\ \A k \in DOMAIN Group[p] : ProviderOf[Group[p][k]] = p
        /\ \A j, k \in DOMAIN Group[p] : Group[p][j] = Group[p][k] => j = k

VARIABLES
    mode,       \* which generator the caller asked for
    max_workers,
    caller,     \* the generator handed to the caller: "start", "running",
                \* "closing" (the executor is shutting down) or "done"
    at,         \* provider |-> <<coordinator, page>> its generator asks for next, or End
    queue,      \* the executor's tasks not started, in submission order
    working,    \* the tasks a worker thread runs
    buffer,     \* provider |-> the list(...) its task has built so far
    finished,   \* the tasks finished and not delivered yet
    active,     \* the providers whose generators the sequential modes still draw from
    due,        \* those whose turn is still to come in this round
    exhausted,  \* those found exhausted in this round
    received,   \* what the caller received, in order
    closed,     \* did the caller close the generator?
    answers     \* history: coordinator |-> the responses to its pages, in order

arguments == <<mode, max_workers>>
asking    == <<at, answers>>
pool      == <<queue, working, buffer, finished>>
rounds    == <<active, due, exhausted>>
vars == <<arguments, caller, asking, pool, rounds, received, closed>>

End == <<0, 0>>

\* A result as the caller gets it.
SearchResult(c, i, r) == [coordinator |-> c, page |-> Pages[i], response |-> r]

\* Mutant of Workers: a value below 1 is taken as it is.
WorkersUnchecked == IF max_workers = NoLimit THEN 8 ELSE max_workers

\* max_workers, or min(8, number of providers); less than 1 means 1.
Workers == LET given == IF max_workers # NoLimit THEN max_workers
                        ELSE IF Len(Providers) < 8 THEN Len(Providers) ELSE 8
           IN  IF given < 1 THEN 1 ELSE given

\* Where a provider's generator begins.
First(p) == IF Pages = <<>> THEN End ELSE <<1, 1>>

Init ==
    /\ mode \in Modes
    /\ max_workers \in IF mode = "threaded" THEN WorkerInputs ELSE {NoLimit}
    /\ caller = "start"
    /\ at = [p \in DOMAIN Group |-> First(p)]
    /\ queue = <<>> /\ working = {}
    /\ buffer = [p \in DOMAIN Group |-> <<>>]
    /\ finished = {}
    /\ active = {} /\ due = {} /\ exhausted = {}
    /\ received = <<>> /\ closed = FALSE
    /\ answers = [c \in Coordinators |-> <<>>]

\* Mutant of NonRetryable: the test on the retry statuses is inverted.
NonRetryableSwapped(r, c) == r.kind = "error" /\ r.status \in RetryStatuses[c]

\* Does the last response of a provider keep coordinator c, the next one of the
\* group, from being searched?  (`last_response != 200' compares a response
\* with a number: it is always true.)
NonRetryable(r, c) == /\ r.kind = "error"
                      /\ r.status # NoStatus
                      /\ r.status \notin RetryStatuses[c]

\* Where the generator of p resumes once it yielded r: the coordinator's next
\* page, the next coordinator, or nowhere.  An exception ends it at once.
After(p, r) ==
    LET k == at[p][1]
        i == at[p][2]
    IN  IF r.kind = "raise" THEN End
        ELSE IF i < Len(Pages) /\ ~Halts(r, Pages[i], Rpp) THEN <<k, i + 1>>
        ELSE IF k < Len(Group[p]) /\ ~NonRetryable(r, Group[p][k + 1]) THEN <<k + 1, 1>>
        ELSE End

\* The generator of p asks for its next page and r comes back (page 0 is refused
\* unsent, and a SearchResult of a negative page cannot be built).
Ask(p, r) ==
    LET c == Group[p][at[p][1]]
    IN  /\ Pages[at[p][2]] = 0 => r.kind = "non"
        /\ Pages[at[p][2]] < 0 => r.kind = "raise"
        /\ at' = [at EXCEPT ![p] = After(p, r)]
        /\ answers' = [answers EXCEPT ![c] = Append(@, r)]

\* What asking adds to the results: nothing when an exception was raised.
Yielded(p, r) ==
    IF r.kind = "raise" THEN <<>>
    ELSE <<SearchResult(Group[p][at[p][1]], at[p][2], r)>>

----------------------------------------------------------------------------
(* iter_pages_threaded *)

\* The first pull: every provider's task is submitted.
Submit ==
    /\ caller = "start" /\ mode = "threaded"
    /\ caller' = "running"
    /\ queue' = Providers
    /\ UNCHANGED <<arguments, asking, working, buffer, finished, rounds, received, closed>>

\* A free worker takes the oldest task.
StartTask ==
    /\ queue # <<>> /\ Cardinality(working) < Workers
    /\ working' = working \cup {Head(queue)}
    /\ queue' = Tail(queue)
    /\ UNCHANGED <<arguments, caller, asking, buffer, finished, rounds, received, closed>>

\* A worker draws one result from its generator into its list.
Fetch(p, r) ==
    /\ p \in working /\ at[p] # End
    /\ Ask(p, r)
    /\ buffer' = [buffer EXCEPT ![p] = @ \o Yielded(p, r)]
    /\ UNCHANGED <<arguments, caller, queue, working, finished, rounds, received, closed>>

\* Mutant of EndTask: the task ends with its generator unfinished.
EndTaskEarly(p) ==
    /\ p \in working
    /\ working' = working \ {p}
    /\ finished' = finished \cup {p}
    /\ UNCHANGED <<arguments, caller, asking, queue, buffer, rounds, received, closed>>

\* The generator is exhausted: the list is the task's result.
EndTask(p) ==
    /\ p \in working /\ at[p] = End
    /\ working' = working \ {p}
    /\ finished' = finished \cup {p}
    /\ UNCHANGED <<arguments, caller, asking, queue, buffer, rounds, received, closed>>

\* Mutant of Deliver: only the first result of the list is yielded.
DeliverFirst(p) ==
    /\ caller = "running" /\ p \in finished
    /\ received' = received \o SubSeq(buffer[p], 1, 1)
    /\ finished' = finished \ {p}
    /\ UNCHANGED <<arguments, caller, asking, queue, working, buffer, rounds, closed>>

\* as_completed yields a finished task, `yield from future.result()' its list.
\* Tasks already finished when the caller pulls come in any order.
Deliver(p) ==
    /\ caller = "running" /\ p \in finished
    /\ received' = received \o buffer[p]
    /\ finished' = finished \ {p}
    /\ UNCHANGED <<arguments, caller, asking, queue, working, buffer, rounds, closed>>

\* The caller takes n results of a finished task and closes the generator.
CloseInside(p, n) ==
    /\ caller = "running" /\ p \in finished
    /\ n \in 1..Len(buffer[p])
    /\ received' = received \o SubSeq(buffer[p], 1, n)
    /\ caller' = "closing" /\ closed' = TRUE
    /\ UNCHANGED <<arguments, asking, pool, rounds>>

\* Every task has been delivered: leave the executor's with block.
AllDelivered ==
    /\ caller = "running" /\ mode = "threaded"
    /\ queue = <<>> /\ working = {} /\ finished = {}
    /\ caller' = "closing"
    /\ UNCHANGED <<arguments, asking, pool, rounds, received, closed>>

\* executor.shutdown(wait=True): queued tasks are not cancelled.
Shutdown ==
    /\ caller = "closing"
    /\ queue = <<>> /\ working = {}
    /\ caller' = "done"
    /\ UNCHANGED <<arguments, asking, pool, rounds, received, closed>>

----------------------------------------------------------------------------
(* iter_pages: _grouped_iteration and _round_robin_iteration *)

Begin ==
    /\ caller = "start" /\ mode # "threaded"
    /\ caller' = "running"
    /\ active' = DOMAIN Group /\ due' = DOMAIN Group
    /\ UNCHANGED <<arguments, asking, pool, exhausted, received, closed>>

\* It is the turn of the generator of p: those due have it in the providers' order.
Pulling(p) == /\ caller = "running" /\ mode # "threaded"
              /\ \E n \in DOMAIN Providers :
                    /\ Providers[n] = p /\ p \in due
                    /\ \A m \in 1..(n - 1) : Providers[m] \notin due

\* Mutant of Pull: the turn stays with the generator that gave a result.
PullSticks(p, r) ==
    /\ Pulling(p) /\ at[p] # End
    /\ Ask(p, r)
    /\ received' = received \o Yielded(p, r)
    /\ UNCHANGED <<arguments, caller, pool, rounds, closed>>

\* next(generator) comes back with a result, or an exception drops it.  After a
\* result the round robin moves on, _grouped_iteration stays, or the caller
\* closes the generator instead of pulling again.
Pull(p, r) ==
    /\ Pulling(p) /\ at[p] # End
    /\ Ask(p, r)
    /\ received' = received \o Yielded(p, r)
    /\ due' = IF mode = "round_robin" THEN due \ {p} ELSE due
    /\ exhausted' = IF r.kind = "raise" THEN exhausted \cup {p} ELSE exhausted
    /\ \/ UNCHANGED <<caller, closed>>
       \/ r.kind # "raise" /\ caller' = "done" /\ closed' = TRUE
    /\ UNCHANGED <<arguments, pool, active>>

\* next(generator) raises StopIteration.
Exhausted(p) ==
    /\ Pulling(p) /\ at[p] = End
    /\ exhausted' = exhausted \cup {p}
    /\ due' = due \ {p}
    /\ UNCHANGED <<arguments, caller, asking, pool, active, received, closed>>

\* The end of a round: exhausted generators are popped, and the loop ends with
\* the last of them.  (_grouped_iteration has one round.)
NextRound ==
    /\ caller = "running" /\ mode # "threaded" /\ due = {}
    /\ active' = active \ exhausted
    /\ due' = active'
    /\ exhausted' = {}
    /\ caller' = IF active' = {} THEN "done" ELSE caller
    /\ UNCHANGED <<arguments, asking, pool, received, closed>>

----------------------------------------------------------------------------

Worker == \/ StartTask
          \/ \E p \in DOMAIN Group :
                EndTask(p) \/ \E r \in Responses : Fetch(p, r)

Caller == \/ Submit \/ AllDelivered \/ Shutdown \/ Begin \/ NextRound
          \/ \E p \in DOMAIN Group :
                \/ Deliver(p) \/ Exhausted(p)
                \/ \E n \in 1..Len(buffer[p]) : CloseInside(p, n)
                \/ \E r \in Responses : Pull(p, r)

Next == Worker \/ Caller

Spec == Init /\ [][Next]_vars

\* Requests come back, worker threads run, and a caller who started goes on
\* until the generator is exhausted or closed.
FairSpec == Spec /\ WF_vars(Worker) /\ WF_vars(Caller)

----------------------------------------------------------------------------
(* Properties *)

TypeOK ==
    /\ mode \in Modes /\ max_workers \in WorkerInputs \cup {NoLimit}
    /\ caller \in {"start", "running", "closing", "done"}
    /\ \A p \in DOMAIN Group :
          at[p] = End \/ at[p] \in (DOMAIN Group[p]) \X (DOMAIN Pages)
    /\ ToSet(queue) \cup working \cup finished \subseteq DOMAIN Group
    /\ due \cup exhausted \subseteq active /\ active \subseteq DOMAIN Group
    /\ closed \in BOOLEAN
    /\ \A c \in Coordinators : Len(answers[c]) <= Len(Pages)

\* The results that the generators gave: every answer but an exception.
Obtained ==
    UNION {{SearchResult(c, i, answers[c][i]) :
               i \in {i \in DOMAIN answers[c] : answers[c][i].kind # "raise"}} :
           c \in Coordinators}

\* The generator of their provider gave s before t.
Earlier(s, t) ==
    \E p \in DOMAIN Group : \E j, k \in DOMAIN Group[p] :
        /\ Group[p][j] = s.coordinator /\ Group[p][k] = t.coordinator
        /\ j < k \/ (j = k /\ s.page < t.page)

\* Whatever the mode, the worker threads and the order tasks finish in, the
\* caller receives every provider's results once each and in the order they
\* were obtained, and all of them unless it closes the generator; and nothing
\* of the search goes on once its iteration is over.
DeliveredOnceInOrder ==
    /\ TypeOK
    /\ caller = "done" => queue = <<>> /\ working = {}
    /\ \A n \in DOMAIN received :
          /\ received[n] \in Obtained
          /\ \A m \in 1..(n - 1) : received[m] # received[n]
          /\ \A s \in Obtained : Earlier(s, received[n]) =>
                                  \E m \in 1..(n - 1) : received[m] = s
    /\ caller = "done" /\ ~closed => Obtained \subseteq ToSet(received)

\* r ends the provider's group before coordinator c.
Refused(r, c) == \/ r.kind = "raise"
                 \/ r.kind = "error" /\ r.status \notin RetryStatuses[c] \cup {NoStatus}

\* Every coordinator that was added and not replaced by a later one of its key
\* is searched, no other is, and none is left out, or cut short, but for a
\* reason: its own page halted it, or an earlier query of its provider raised or
\* was refused for good.
EveryQueryServed ==
    /\ \A c \in Coordinators \ Searched : answers[c] = <<>>
    /\ caller = "done" /\ (closed => mode = "threaded") =>
        \A c \in Searched :
            LET p   == ProviderOf[c]
                k   == CHOOSE k \in DOMAIN Group[p] : Group[p][k] = c
                got == answers[c]
            IN  \/ Len(got) = Len(Pages)
                \/ got # <<>> /\ Halts(Last(got), Pages[Len(got)], Rpp)
                \/ /\ got = <<>>
                   /\ \E j \in 1..(k - 1) :
                         LET before == answers[Group[p][j]]
                         IN  before # <<>> /\ Refused(Last(before), Group[p][j + 1])

\* Once a provider refuses a query for good, or an exception escapes, none of
\* its other queries is sent; and its queries never overlap.
NoQueryAfterRefusal ==
    \A p \in DOMAIN Group : \A k \in 2..Len(Group[p]) :
        answers[Group[p][k]] # <<>> =>
            LET before == answers[Group[p][k - 1]]
            IN  /\ before # <<>>
                /\ ~Refused(Last(before), Group[p][k])
                /\ Len(before) = Len(Pages) \/ Halts(Last(before), Pages[Len(before)], Rpp)

\* How many results of a provider the caller has received.
Received(p) ==
    Cardinality({n \in DOMAIN received : received[n].coordinator \in ToSet(Group[p])})

\* _round_robin_iteration: no provider gets two results ahead of another that
\* still has pages to give.
RoundRobinEven ==
    mode = "round_robin" =>
        \A p, q \in DOMAIN Group :
            at[p] # End => Received(q) <= Received(p) + 1

\* The caller's iteration comes to an end.
SearchEnds == (caller = "running") ~> (caller = "done")

\* A comment of _process_provider_group: queries are stopped early by
\* "non-retryable error codes from the provider" (200 is not an error code).
StoppedByErrorCode ==
    \A p \in DOMAIN Group : \A k \in 1..(Len(Group[p]) - 1) :
        LET got == answers[Group[p][k]]
        IN  at[p] = End /\ answers[Group[p][k + 1]] = <<>> /\ got # <<>>
                => Last(got).kind = "raise" \/ Last(got).status # 200
=============================================================================
