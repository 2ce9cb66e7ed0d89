---------------------------- MODULE SearchPages ----------------------------
(***************************************************************************)
(* SearchCoordinator.iter_pages and search_pages: the pages of one query,  *)
(* asked for one by one as the consumer of the generator pulls, until the  *)
(* list is exhausted, a page ends the retrieval, an exception escapes or   *)
(* the consumer stops.                                                     *)
(*                                                                         *)
(* The provider holds `hits' records, PerPage to a page.  A page may tell  *)
(* the total where `setup' looks for it, elsewhere, unreadably or not at   *)
(* all; extraction may lose records of a page, and any request may fail. A *)
(* page below 1 is refused when its request is built, which search() turns *)
(* into a NonResponse; a SearchResult's page may be 0 but not negative, so *)
(* that a negative page raises on top of that.                             *)
(***************************************************************************)
EXTENDS PageResults, FiniteSets

CONSTANTS PerPage,     \* config.records_per_page
          Hits,        \* how many records the provider may hold
          PageInputs,  \* the page lists a caller may give
          Setups,      \* [paths |-> the extractor's metadata paths,
                       \*  maps  |-> <<the provider's metadata map>> or <<>>]
          Tellings,    \* [places |-> the paths at which a page has the total,
                       \*  readable |-> is it a number there?]
          Faults,      \* how a request may fail, a subset of Kinds
          Nothing      \* no result is waiting

ASSUME PagesAssumption ==
    /\ PerPage \in Nat \ {0} /\ Hits \subseteq Nat
    /\ Faults \subseteq Kinds \ {"processed"}
    /\ NoTotal \notin Nat
    /\ PageInputs \subseteq Seq(Int)
    /\ \A t \in Tellings : /\ t = [places |-> t.places, readable |-> t.readable]
                          /\ t.places \subseteq Seq(STRING)
                          /\ t.places \subseteq {<<"total">>, <<"stats", "total">>}
                          /\ t.readable \in BOOLEAN

\* The extractor's metadata paths, and at most one map, which does not take the
\* size of a page for the total.
ASSUME SetupAssumption ==
    \A s \in Setups :
        /\ s.paths \in Seq([name : STRING, path : Seq(STRING)])
        /\ s.maps \in Seq([total_query_hits : Seq(STRING), records_per_page : Seq(STRING)])
        /\ Len(s.maps) <= 1
        /\ \A m \in DOMAIN s.maps, i \in DOMAIN s.paths :
              LET key == s.maps[m].total_query_hits
                  way == s.paths[i].path \o Tail(key)
              IN  key # <<>> /\ key[1] = s.paths[i].name
                     => ~(Len(way) >= 2 /\ way[1] = "stats" /\ way[2] = "size")

VARIABLES
    pc,         \* "start", "search" (in search_page), "yield" or "ended"
    hits,       \* the records the provider holds
    setup,      \* the extractor's metadata paths and the provider's map
    todo,       \* page numbers not asked for yet
    given,      \* the caller's page list
    found,      \* the SearchResult about to be yielded: page and response
    halt,       \* its `halt' flag
    results,    \* what the consumer received, in order
    stopped     \* did the consumer stop, or an exception escape?

pageVars == <<pc, hits, setup, todo, given, found, halt, results, stopped>>

Untold == [places |-> {}, readable |-> FALSE]

\* The records the provider has on a page.
OnPage(p) == IF p < 1 \/ hits <= (p - 1) * PerPage THEN 0
             ELSE IF hits >= p * PerPage THEN PerPage ELSE hits - (p - 1) * PerPage

\* The page's body: the total at some places, and a count of the page beside it.
Body(telling) ==
    LET total == IF telling.readable THEN Number(hits) ELSE Text
        inner == IF <<"stats", "total">> \in telling.places
                 THEN [k \in {"total", "size"} |-> IF k = "total" THEN total ELSE Number(PerPage)]
                 ELSE [k \in {"size"} |-> Number(PerPage)]
        stats == [k \in {"stats"} |-> Mapping(inner)]
    IN  Mapping(IF <<"total">> \in telling.places
                THEN [k \in {"stats", "total"} |-> IF k = "total" THEN total ELSE stats[k]]
                ELSE stats)

\* The total that the coordinator reads from a page.
Total(telling) == TotalQueryHits(setup.maps, ExtractMetadata(Body(telling), setup.paths))

\* What search_page may return: any number of the page's records, or a fault.
Answers(p) ==
    IF p = 0 THEN {[response |-> Failed("non", NoStatus), telling |-> Untold]}
    ELSE {[response |-> Processed(n, Total(telling)), telling |-> telling] :
             n \in 0..OnPage(p), telling \in Tellings}
         \cup {[response |-> Failed(k, NoStatus), telling |-> Untold] : k \in Faults}

PagesInit ==
    /\ pc = "start"
    /\ hits \in Hits
    /\ setup \in Setups
    /\ given \in PageInputs
    /\ todo = <<>>
    /\ found = Nothing
    /\ halt = FALSE
    /\ results = <<>>
    /\ stopped = FALSE

\* After a result is handed over, or at the start: the next page or the end.
Resume(rest) == IF rest = <<>> THEN "ended" ELSE "search"

\* The consumer's first pull validates the page list.
Start ==
    /\ pc = "start"
    /\ todo' = PageNumbers(given)
    /\ pc' = Resume(todo')
    /\ UNCHANGED <<hits, setup, given, found, halt, results, stopped>>

\* search_page and _process_page_result for the next page.
SearchPage(a) ==
    /\ pc = "search"
    /\ Head(todo) >= 0 /\ a \in Answers(Head(todo)) /\ a.response.kind # "raise"
    /\ found' = [page |-> Head(todo), response |-> a.response, telling |-> a.telling]
    /\ halt' = Halts(a.response, Head(todo), PerPage)
    /\ todo' = Tail(todo)
    /\ pc' = "yield"
    /\ UNCHANGED <<hits, setup, given, results, stopped>>

\* The exception leaves the generator; search_pages returns what it has.
SearchRaises ==
    /\ pc = "search"
    /\ Head(todo) < 0 \/ (Head(todo) > 0 /\ "raise" \in Faults)
    /\ pc' = "ended" /\ stopped' = TRUE
    /\ UNCHANGED <<hits, setup, todo, given, found, halt, results>>

\* The consumer receives the result and pulls again.
Yield ==
    /\ pc = "yield"
    /\ results' = Append(results, found)
    /\ found' = Nothing
    /\ pc' = IF halt THEN "ended" ELSE Resume(todo)
    /\ UNCHANGED <<hits, setup, todo, given, halt, stopped>>

\* The consumer receives the result and closes the generator.
Close ==
    /\ pc = "yield"
    /\ results' = Append(results, found)
    /\ found' = Nothing
    /\ pc' = "ended" /\ stopped' = TRUE
    /\ UNCHANGED <<hits, setup, todo, given, halt>>

Search == pc = "search" /\ \E a \in Answers(Head(todo)) : SearchPage(a)

PagesNext == Start \/ Search \/ SearchRaises \/ Yield \/ Close

PagesSpec == PagesInit /\ [][PagesNext]_pageVars

----------------------------------------------------------------------------
(* Properties *)

Listed == ToSet(given)

Response == {Processed(n, total) : n \in 0..PerPage, total \in Hits \cup {NoTotal}}
            \cup {Failed(k, NoStatus) : k \in Kinds}

Result == [page : Listed, response : Response, telling : Tellings \cup {Untold}]

PagesTypeOK ==
    /\ pc \in {"start", "search", "yield", "ended"}
    /\ hits \in Hits /\ setup \in Setups /\ given \in PageInputs
    /\ ToSet(todo) \subseteq Listed
    /\ found \in Result \cup {Nothing}
    /\ halt \in BOOLEAN /\ stopped \in BOOLEAN
    /\ ToSet(results) \subseteq Result

\* Type correctness, and the order of the pages: they are asked for in ascending
\* order and each once, whatever order and repeats the caller's list has, and no
\* listed page is passed over; what was asked for, then what is left, is the
\* sorted list.
InPageOrder ==
    PagesTypeOK /\
    (pc # "start" =>
        LET asked == [i \in DOMAIN results |-> results[i].page]
                     \o (IF pc = "yield" THEN <<found.page>> ELSE <<>>)
            order == asked \o todo
        IN  /\ ToSet(order) = Listed
            /\ \A i, j \in DOMAIN order : i < j => order[i] < order[j])

\* Does a page tell the total where the setup finds it?  One of the extractor's
\* paths leads there or to what surrounds it, no later path takes its name, and
\* the provider's map has the name and the rest of the way.
Told(telling) ==
    telling.readable /\ \E place \in telling.places, i \in DOMAIN setup.paths :
        LET name == setup.paths[i].name
            path == setup.paths[i].path
        IN  /\ IsPrefix(path, place)
            /\ \A j \in DOMAIN setup.paths : j > i => setup.paths[j].name # name
            /\ \E map \in ToSet(setup.maps) :
                  map.total_query_hits = <<name>> \o SubSeq(place, Len(path) + 1, Len(place))

\* Retrieval goes on to the end of the caller's list or stops where it must: it
\* asks for nothing after a failure on a page other than 0, and at most once for
\* a page beyond the last record.  It stops short of the caller's list only for a
\* reason the caller can see in the last result: a failure on a page other than 0,
\* a short page that told no total where it is looked for, or no records on any
\* page left.
HaltJustified ==
    /\ \A i \in DOMAIN results :
          (results[i].response.kind # "processed" /\ results[i].page # 0)
             => i = Len(results) /\ pc = "ended"
    /\ Cardinality({i \in DOMAIN results : /\ results[i].page >= 1
                                           /\ OnPage(results[i].page) = 0}) <= 1
    /\ pc = "ended" /\ ~stopped /\ todo # <<>> =>
          /\ results # <<>>
          /\ LET last == Last(results)
             IN  \/ last.response.kind # "processed" /\ last.page # 0
                 \/ ~Told(last.telling) /\ last.response.count < PerPage
                 \/ \A p \in ToSet(todo) : OnPage(p) = 0
=============================================================================
