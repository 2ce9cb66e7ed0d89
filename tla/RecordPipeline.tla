--------------------------- MODULE RecordPipeline ---------------------------
(***************************************************************************)
(* From the parsed response to the rows (ResponseCoordinator), when several*)
(* coordinators share one processor: records are told from metadata        *)
(* (base_extractor.py, data_extractor.py), and the path or the recursive   *)
(* processor screens them and makes a row of each, under its lock          *)
(* (path_data_processor.py, recursive_data_processor.py).                  *)
(*                                                                         *)
(* A response is a page of records and the form it came in; what the       *)
(* parser makes of it is external.  Rows are those of PathRecords and      *)
(* FlatRecords, each with the index of its record, which only the          *)
(* properties read.                                                        *)
(***************************************************************************)
EXTENDS PathRecords, FlatRecords, KeyedRecords

CONSTANTS Threads,         \* the threads that share the processor, each for a response
          Sent,            \* thread |-> the responses it may receive
          Setups,          \* the configurations
          RecordKeys,      \* keys that hold a dynamic record identifier
          MetadataKeys     \* the dynamic metadata identifiers

NoOne == "no one"

VARIABLES
    setup,      \* [kind, full, record_path, keep, ignore, keys], set once
    json_data,  \* the processor's: the page loaded last
    nodes,      \* the processor's: its node index, the nodes of each record
    lock,       \* the processor's: the thread that holds it
    pc,         \* thread |-> where it is
    at,         \* thread |-> the record that its loop has come to
    given,      \* thread |-> the response at hand
    records,    \* thread |-> what was extracted from it
    rows,       \* thread |-> the rows made of it so far
    outcome     \* thread |-> how it ended

vars == <<setup, json_data, nodes, lock, pc, at, given, records, rows, outcome>>

NoKey   == "no key"
NoPage  == [form |-> "blank", page |-> <<>>]

----------------------------------------------------------------------------
(* The response as the parser leaves it *)

Parsed(response) ==
    LET page == response.page
        facet == Dict(<<<<"value", Leaf("v")>>>>)
        body == <<<<"total", Leaf("9")>>, <<"facets", List(<<facet, facet>>)>>,
                  <<"records", List(page)>>>>
    IN  CASE response.form = "flat"    -> Dict(body)
          [] response.form = "nested"  -> Dict(<<<<"result", Dict(body)>>>>)
          [] response.form = "wrapped" -> Dict(<<<<"result", List(<<Dict(body)>>)>>>>)
          [] response.form = "single"  -> Dict(<<<<"records", page[1]>>>>)
          [] response.form = "bare"    -> List(page)
          [] response.form = "blank"   -> Dict(<<>>)

\* _prepare_page: a list of one is unlisted, another is keyed by its indices.
Prepared(t) ==
    IF t.kind = "dict" THEN t
    ELSE IF Len(t.kids) = 1 THEN t.kids[1][2] ELSE Dict(t.kids)

\* extract_records: anything but a list is no page; <<>> stands for None.
AtRecordPath(t, path) ==
    LET found == NestedData(t, path)
    IN  IF found # <<>> /\ found[1].kind = "list" THEN <<Items(found[1])>> ELSE <<>>

\* _identify_by_key
Identified(record) == KeysOf(record) \cap RecordKeys # {}

\* A dictionary alone in a list is looked into unless one of its keys says that
\* it is a record.
LookedInto(t) ==
    \/ t.kind = "dict"
    \/ /\ t.kind = "list" /\ Len(t.kids) = 1
       /\ t.kids[1][2].kind = "dict" /\ ~Identified(t.kids[1][2])

\* dynamic_identification, as far as the records go: the other lists of
\* dictionaries are records, outside of metadata.
Dynamic(t) ==
    LET found == Unfolded(t, <<>>, LookedInto)
        IsRecords(e) == /\ e.data.kind = "list"
                        /\ \A i \in DOMAIN e.data.kids : e.data.kids[i][2].kind = "dict"
                        /\ ToSet(e.path) \cap MetadataKeys = {}
    IN  FlattenSeq([i \in DOMAIN found |->
            IF IsRecords(found[i]) THEN Items(found[i].data) ELSE <<>>])

\* extract, with the setup s
Extracted(s, response) ==
    LET t == Prepared(Parsed(response))
    IN  IF s.record_path = <<>> THEN <<Dynamic(t)>>
        ELSE AtRecordPath(t, s.record_path)

\* What is extracted is a list.
ASSUME PipelineAssumption ==
    /\ NoOne \notin Threads
    /\ \A s \in Setups :
          /\ s.kind \in {"path", "recursive", "keyed", "pass"}
          /\ \A t \in Threads : \A response \in Sent[t] :
                LET found == Extracted(s, response)
                IN  found # <<>> => found[1] \in Seq(ToSet(found[1]))

----------------------------------------------------------------------------
Init ==
    /\ setup \in Setups
    /\ json_data = <<>> /\ nodes = <<>> /\ lock = NoOne
    /\ pc = [t \in Threads |-> "start"] /\ at = [t \in Threads |-> 1]
    /\ given = [t \in Threads |-> NoPage]
    /\ records = [t \in Threads |-> <<>>]
    /\ rows = [t \in Threads |-> <<>>]
    /\ outcome = [t \in Threads |-> "none"]

End(t, how) ==
    /\ pc' = [pc EXCEPT ![t] = "done"]
    /\ outcome' = [outcome EXCEPT ![t] = how]

Goto(t, where) ==
    /\ pc' = [pc EXCEPT ![t] = where]
    /\ UNCHANGED outcome

\* The loop over the records: of the node index, or of the page itself.
Size == IF setup.kind = "path" THEN Len(nodes) ELSE Len(json_data)
Turn(t, i) == pc[t] = "screen" /\ at[t] = i /\ i <= Size
Over(t)    == pc[t] = "screen" /\ at[t] > Size
Advance(t) == at' = [at EXCEPT ![t] = @ + 1] /\ UNCHANGED <<pc, outcome>>

\* Mutant of Receive: the processor is called whatever was extracted.
ReceiveUnguarded(t, response) ==
    /\ pc[t] = "start"
    /\ given' = [given EXCEPT ![t] = response]
    /\ rows' = [rows EXCEPT ![t] = <<>>]
    /\ LET found == Extracted(setup, response)
       IN  IF response.form = "blank"
           THEN End(t, "error") /\ UNCHANGED records
           ELSE IF found = <<>>
           THEN /\ records' = [records EXCEPT ![t] = <<>>]
                /\ End(t, "no records")
           ELSE /\ records' = [records EXCEPT ![t] = found[1]]
                /\ Goto(t, "extracted")
    /\ UNCHANGED <<setup, json_data, nodes, lock, at>>

\* _process_response up to the call of the processor: no content is an error,
\* and no record needs no processor.
Receive(t, response) ==
    /\ pc[t] = "start"
    /\ given' = [given EXCEPT ![t] = response]
    /\ rows' = [rows EXCEPT ![t] = <<>>]
    /\ LET found == Extracted(setup, response)
       IN  IF response.form = "blank"
           THEN End(t, "error") /\ UNCHANGED records
           ELSE IF found \in {<<>>, <<<<>>>>}
           THEN /\ records' = [records EXCEPT ![t] = <<>>]
                /\ End(t, IF found = <<>> THEN "no records" ELSE "rows")
           ELSE /\ records' = [records EXCEPT ![t] = found[1]]
                /\ Goto(t, "extracted")
    /\ UNCHANGED <<setup, json_data, nodes, lock, at>>

\* Mutant of Enter: process_page is called past __call__ and its lock.
EnterUnlocked(t) ==
    /\ pc[t] = "extracted" /\ setup.kind \in {"path", "recursive"}
    /\ Goto(t, "load")
    /\ UNCHANGED <<setup, json_data, nodes, lock, at, given, records, rows>>

\* __call__
Enter(t) ==
    /\ pc[t] = "extracted" /\ setup.kind \in {"path", "recursive"} /\ lock = NoOne
    /\ lock' = t
    /\ Goto(t, "load")
    /\ UNCHANGED <<setup, json_data, nodes, at, given, records, rows>>

\* load_data: an empty page leaves the one before.
LoadedPage(t) == IF records[t] = <<>> THEN json_data ELSE records[t]

\* PathDataProcessor.load_data: the page is kept even when its paths cannot be
\* discovered.
LoadNodes(t) ==
    /\ pc[t] = "load" /\ setup.kind = "path"
    /\ LET page   == LoadedPage(t)
           failed == Undiscoverable(page)
       IN  /\ json_data' = page
           /\ nodes' = IF failed THEN nodes ELSE Discover(page)
           /\ IF failed THEN End(t, "error") /\ lock' = NoOne
              ELSE Goto(t, "screen") /\ UNCHANGED lock
           /\ at' = [at EXCEPT ![t] = 1]
    /\ UNCHANGED <<setup, given, records, rows>>

\* RecursiveDataProcessor.load_data
LoadPage(t) ==
    /\ pc[t] = "load" /\ setup.kind = "recursive"
    /\ json_data' = LoadedPage(t)
    /\ at' = [at EXCEPT ![t] = 1]
    /\ Goto(t, "screen")
    /\ UNCHANGED <<setup, nodes, lock, given, records, rows>>

\* record_filter: of the path processor, and what the others make of theirs.
Filters(s)         == {s.keep, s.ignore} \ {NoKey}
HeldPaths(s, own)  == {key \in Filters(s) : \E i \in DOMAIN own : Contains(own[i].path, key)}
Held(s, record)    == {key \in Filters(s) : KeyExists(record, key)}
Screened(s, held)  == (s.keep # NoKey => s.keep \in held) /\ s.ignore \notin held

\* The records of a page that are kept.
Wanted(s, page) == {i \in DOMAIN page : Screened(s, Held(s, page[i]))}

\* PathDataProcessor.process_record: the nodes of a record that is not kept are
\* removed.
KeepRecord(t, i) ==
    /\ Turn(t, i) /\ setup.kind = "path"
    /\ nodes' = IF Screened(setup, HeldPaths(setup, nodes[i])) THEN nodes
                ELSE [nodes EXCEPT ![i] = <<>>]
    /\ Advance(t)
    /\ UNCHANGED <<setup, json_data, lock, given, records, rows>>

\* combine_keys
Combine(t) ==
    /\ Over(t) /\ setup.kind = "path"
    /\ LET combined == CombineKeys(nodes)
       IN  /\ nodes' = combined.nodes
           /\ IF combined.raised THEN End(t, "error") /\ lock' = NoOne
              ELSE Goto(t, "combined") /\ UNCHANGED lock
    /\ UNCHANGED <<setup, json_data, at, given, records, rows>>

\* simplify_to_rows
Simplify(t) ==
    /\ pc[t] = "combined"
    /\ rows' = [rows EXCEPT ![t] = Rows(nodes)]
    /\ lock' = NoOne
    /\ End(t, "rows")
    /\ UNCHANGED <<setup, json_data, nodes, at, given, records>>

\* The elements of seq that I names, of the first n and of all.
FirstPicked(seq, I) ==
    LET first[n \in 0..Len(seq)] ==
            IF n = 0 THEN <<>>
            ELSE LET before == first[n - 1]
                 IN  IF n \in I THEN Append(before, seq[n]) ELSE before
    IN  first
Picked(seq, I) == FirstPicked(seq, I)[Len(seq)]

\* A row for every record of a page: RecursiveDataProcessor, DataProcessor (what
\* it finds under its keys), PassThroughDataProcessor.
PageRows(s, page) ==
    LET Fields(record) ==
            CASE s.kind = "recursive" -> FlatRow(record, s.full)
              [] s.kind = "keyed"     -> KeyedRecord(record, s.keys)
              [] s.kind = "pass"      -> record
    IN  [i \in DOMAIN page |-> [record |-> Index(i), fields |-> Fields(page[i])]]

\* RecursiveDataProcessor.process_record: an empty record has an empty row.
FlattenRecord(t, i) ==
    /\ Turn(t, i) /\ setup.kind = "recursive"
    /\ rows' = IF i \in Wanted(setup, json_data)
               THEN [rows EXCEPT ![t] = Append(@, PageRows(setup, json_data)[i])] ELSE rows
    /\ Advance(t)
    /\ UNCHANGED <<setup, json_data, nodes, lock, given, records>>

\* process_page of the processors that keep nothing and have no lock.
FilterPage(t) ==
    /\ pc[t] = "extracted" /\ setup.kind \in {"keyed", "pass"}
    /\ rows' = [rows EXCEPT ![t] =
          Picked(PageRows(setup, records[t]), Wanted(setup, records[t]))]
    /\ End(t, "rows")
    /\ UNCHANGED <<setup, json_data, nodes, lock, at, given, records>>

Return(t) ==
    /\ Over(t) /\ setup.kind = "recursive"
    /\ lock' = NoOne
    /\ End(t, "rows")
    /\ UNCHANGED <<setup, json_data, nodes, at, given, records, rows>>

\* Nothing is left to do: a call that waits for the lock forever is a deadlock.
Finished == (\A t \in Threads : pc[t] = "done") /\ UNCHANGED vars

Next ==
    \/ Finished
    \/ \E t \in Threads :
          \/ \E response \in Sent[t] : Receive(t, response)
          \/ FilterPage(t) \/ Enter(t) \/ LoadNodes(t) \/ LoadPage(t)
          \/ Combine(t) \/ Simplify(t) \/ Return(t)
          \/ \E i \in 1..Size : KeepRecord(t, i) \/ FlattenRecord(t, i)

Spec == Init /\ [][Next]_vars

----------------------------------------------------------------------------
(* Properties *)

Delivered(t) == pc[t] = "done" /\ outcome[t] = "rows"

\* What a processor makes of a page that nobody else uses and that has held
\* nothing before.
Kept(s, page) ==
    LET Own(i) == Discover(page)[i]
    IN  [i \in DOMAIN page |-> IF Screened(s, HeldPaths(s, Own(i))) THEN Own(i) ELSE <<>>]
OwnRows(s, page) ==
    IF page = <<>> THEN <<>>
    ELSE IF s.kind = "path" THEN Rows(CombineKeys(Kept(s, page)).nodes)
    ELSE Picked(PageRows(s, page), Wanted(s, page))

\* The rows that a coordinator gets are those of its own page, as a processor of
\* its own would make them, whoever else uses the processor meanwhile, whatever
\* page it held before and however that one ended.
OwnRecords ==
    \A t \in Threads : Delivered(t) =>
        LET found == Extracted(setup, given[t])
        IN  found # <<>> /\ rows[t] = OwnRows(setup, found[1])

\* A response ends in an error for what it holds: nothing at all, a key with a
\* delimiter, records that are all empty, or a counted value that is no string
\* in a record that is kept.  No error comes from somebody else's page.
ErrorsJustified ==
    \A t \in Threads : (pc[t] = "done" /\ outcome[t] = "error") =>
        LET found == Extracted(setup, given[t])
        IN  \/ given[t].form = "blank"
            \/ /\ found \notin {<<>>, <<<<>>>>} /\ setup.kind = "path"
               /\ \/ Undiscoverable(found[1])
                  \/ CombineKeys(Kept(setup, found[1])).raised

\* Two groups of paths share a column only when a third one says the same: the
\* number that tells the second from the first is then used twice.
ColumnsDistinct ==
    \A t \in Threads : pc[t] = "combined" =>
        LET names == NameGroups(Sorted(nodes))
            Alike(g) == {h \in DOMAIN names :
                           BaseName(h) = BaseName(g)}
        IN  \A g, h \in DOMAIN names :
                names[g] = names[h] => g = h \/ Cardinality(Alike(g)) > 2
=============================================================================
