-------------------------- MODULE MCFieldMapCases --------------------------
(* Records as PubMed and the flattening processors give them, and three      *)
(* configurations of a map, one of them without a provider's name.           *)
EXTENDS KeyedRecords

F(k, v) == <<k, v>>
A == Leaf("a")
B == Leaf("b")

Records == <<
    Dict(<<F("t", Dict(<<F("x", A)>>)), F("k", List(<<A, B>>))>>),
    Dict(<<F("t", Leaf("")), F("n", Dict(<<F("x", List(<<A>>))>>))>>),
    Dict(<<F("n", List(<<Dict(<<F("x", A)>>), Dict(<<F("x", B)>>), A>>)), F("t", Leaf("None"))>>),
    Dict(<<F("n.x", B), F("t", A), F("provider_name", B)>>),
    Dict(<<F("n", List(<<Dict(<<F("x", List(<<A, B>>))>>)>>)), F("provider_name", Leaf(""))>>),
    Dict(<<>>) >>

MCPages == {<<Records[i]>> : i \in 1..5} \cup {<<>>}
             \cup {<<Records[1], Records[3]>>, <<Records[4], Records[6], Records[2]>>}

Map(provider, t, n, defaults) ==
    [provider |-> provider, paths |-> [title |-> t, names |-> n, year |-> n], defaults |-> defaults]

NoDefaults == [f \in {} |-> Null]

MCVersions == {
    Map("p", <<<<"t", "x">>, <<"t">>>>, <<<<"n", "x">>>>, [year |-> A]),
    Map("",  <<<<"k">>>>, <<<<"n", "x">>, <<"k">>, <<"t", "x">>>>, NoDefaults),
    Map("p", <<>>, <<>>, [title |-> B]) }
=============================================================================
