-------------------------- MODULE MCRecordPipeline --------------------------
(* Pages of one or two records, of the shapes that the providers send.       *)
EXTENDS RecordContents

Field(k, v)     == Dict(<<<<k, v>>>>)
X == Leaf("x")
Y == Leaf("y")
Counted(v)      == Dict(<<<<"value", Leaf(v)>>, <<"count", Leaf("7")>>>>)

MCNameOrder == <<"'3'", "0", "1", "2", "7", "_1", "_2", "b", "c", "count", "i", "k",
                 "value", "values", "x", "y">>

Shapes == <<
    Field("k", X),
    Field("k", Field("value", X)),
    Field("k", List(<<X, Y>>)),
    Field("k", List(<<Field("value", X), Field("value", X)>>)),
    Dict(<<<<"b", Field("c", X)>>, <<"c", Y>>>>),
    Field("value", Y),
    Dict(<<<<"values", List(<<Counted("x"), Counted("3"), Counted("x")>>)>>, <<"b", Y>>>>),
    Dict(<<<<"b", Field("values", List(<<Counted("y"), Counted("None")>>))>>>>),
    Field("values", List(<<Counted("2.5")>>)),
    Dict(<<<<"b", List(<<>>)>>, <<"c", Leaf("None")>>, <<"k", Field("b", Dict(<<>>))>>>>),
    Dict(<<>>),
    Field("b", Field("u.u", X)) >>

N == Len(Shapes)
Pages == {<<Shapes[i]>> : i \in 1..N} \cup {<<Shapes[i], Shapes[j]>> : i, j \in 1..N}
           \cup {<<Shapes[1], Shapes[5], Shapes[2]>>, <<>>}
Few   == {<<Shapes[1]>>, <<Shapes[3], Shapes[5]>>, <<>>}

In(form, pages) == [form : {form}, page : pages]

MCSent == [t \in Threads |->
    IF t = "t1"
    THEN In("flat", Pages) \cup In("nested", Few) \cup In("wrapped", Few)
           \cup In("single", Few \ {<<>>}) \cup In("bare", Few) \cup In("blank", {<<>>})
    ELSE In("flat", {<<Shapes[4], Shapes[8]>>, <<Shapes[11]>>, <<>>})]

Setup(kind, full, path, keep, ignore) ==
    [kind |-> kind, full |-> full, record_path |-> path, keep |-> keep, ignore |-> ignore,
     keys |-> [b |-> <<"b", "c">>, k |-> <<"k">>]]

MCSetups ==
    {Setup("path", TRUE, path, NoKey, NoKey) :
        path \in {<<>>, <<"records">>, <<"result", "records">>}} \cup
    {Setup("path", TRUE, <<>>, keep, ignore) : keep, ignore \in {NoKey, "c"}} \cup
    {Setup("recursive", full, <<"records">>, keep, NoKey) : full \in BOOLEAN, keep \in {NoKey, "c"}} \cup
    {Setup("recursive", TRUE, <<>>, NoKey, "c"),
     Setup("keyed", TRUE, <<"records">>, "b", NoKey), Setup("pass", TRUE, <<>>, NoKey, "k")}
=============================================================================
