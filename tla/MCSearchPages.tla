--------------------------- MODULE MCSearchPages ---------------------------
(* Small instances of SearchPages for TLC. *)
EXTENDS SearchPages

\* Unsorted, with repeats, gaps, page 0 and a negative page.
MCInputs == {<<>>, <<1>>, <<2, 1, 3>>, <<3, 1, 1, 4>>, <<0, 1, 2>>, <<-1, 0, 1>>,
             <<2, 0, 3, 5>>, <<4, 3, 2, 1>>}
MCHits   == 0..6
AllFaults == Kinds \ {"processed"}

Path(name, path) == [name |-> name, path |-> path]
Map(total) == <<[total_query_hits |-> total, records_per_page |-> <<"size">>]>>

\* Metadata paths as a list (named by their last part) and as a dictionary, two
\* of one name, none, and a provider that nothing is known of.
MCSetups == {
    [paths |-> <<Path("total", <<"total">>)>>, maps |-> Map(<<"total">>)],
    [paths |-> <<Path("total", <<"total">>), Path("total", <<"stats", "total">>)>>,
     maps |-> Map(<<"total">>)],
    [paths |-> <<Path("stats", <<"stats">>)>>, maps |-> Map(<<"stats", "total">>)],
    [paths |-> <<>>, maps |-> Map(<<"total">>)],
    [paths |-> <<Path("total", <<"total">>)>>, maps |-> <<>>] }

MCTellings ==
    {[places |-> P, readable |-> r] :
        P \in {{<<"total">>}, {<<"stats", "total">>}}, r \in BOOLEAN} \cup {Untold}
=============================================================================
