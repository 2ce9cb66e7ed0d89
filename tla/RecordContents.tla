--------------------------- MODULE RecordContents ---------------------------
(***************************************************************************)
(* What the rows of RecordPipeline say of the records they were made of.   *)
(***************************************************************************)
EXTENDS RecordPipeline

\* The extraction finds the records of a response: they are a list where the
\* path of the setup leads, or they can be told from metadata.
Found(response) ==
    LET page == response.page
    IN  IF setup.record_path = <<>>
        THEN /\ response.form \in {"flat", "nested", "wrapped"}
             /\ Len(page) = 1 => KeysOf(page[1]) \cap RecordKeys # {}
        ELSE \/ response.form = "flat" /\ setup.record_path = <<"records">>
             \/ /\ response.form \in {"nested", "wrapped"}
                /\ setup.record_path = <<"result", "records">>

\* What a record says: each leaf with content, under its keys; a value and its
\* count side by side are one saying, the count under the value.
Content(v) == v \notin {"None", "", "[]", "{}"}

RECURSIVE Sayings(_, _, _)
Sayings(t, p, combining) ==
    LET leafOf(k) == k \in KeysOf(t) /\ Child(t, k).kind = "leaf"
        paired == /\ combining /\ t.kind = "dict" /\ leafOf("value") /\ leafOf("count")
                  /\ Content(Child(t, "value").val)
                  /\ \E i \in DOMAIN p : p[i] \in {"value", "values"}
    IN  FlattenSeq([i \in DOMAIN t.kids |->
          LET k == t.kids[i][1]
              c == t.kids[i][2]
              q == IF k \in IndexSet \/ k \in NonInformative THEN p ELSE Append(p, k)
          IN  IF paired /\ k = "value" THEN <<>>
              ELSE IF paired /\ k = "count"
              THEN <<<<p \o <<Quoted(Child(t, "value").val), "count">>, c.val>>>>
              ELSE IF c.kind = "leaf"
              THEN IF Content(c.val) THEN <<<<q, c.val>>>> ELSE <<>>
              ELSE Sayings(c, q, combining)])

\* What a row says; the number that resolved a collision is left out.
Column(c) ==
    LET bare == SelectSeq(c, LAMBDA k : k \notin {"_1", "_2"})
    IN  IF bare = Root THEN <<>> ELSE bare

RowSays(fields) ==
    UNION {{<<Column(c), fields[c][i], <<c, i>>>> : i \in DOMAIN fields[c]} :
              c \in DOMAIN fields}

Same(s, x)       == s[1] = x[1] /\ s[2] = x[2]
Times(seq, x)    == Cardinality({i \in DOMAIN seq : Same(seq[i], x)})
TimesIn(said, x) == Cardinality({s \in said : Same(s, x)})

\* The record that a row is made of.
RecordIn(page, row) == page[CHOOSE i \in DOMAIN page : Index(i) = row.record]

\* A row says what its record says, as often and under the same keys, with each
\* count under its own value.  The recursive processor leaves out what has no
\* key but `value'.
Faithful(row, record) ==
    LET combining == setup.kind = "path"
        sayings == SelectSeq(Sayings(record, <<>>, combining),
                             LAMBDA s : combining \/ s[1] # <<>>)
        said == {s \in RowSays(row.fields) : Content(s[2])}
        Agree(x) ==
            IF combining \/ setup.full THEN Times(sayings, x) = TimesIn(said, x)
            ELSE Cardinality({j \in DOMAIN sayings : sayings[j][2] = x[2]}) =
                 Cardinality({s \in said : s[2] = x[2]})
    IN  (\A j \in DOMAIN sayings : Agree(sayings[j])) /\ (\A s \in said : Agree(s))

\* Nothing of a page is lost, doubled or taken from another record: there is one
\* row for each record that is to be kept and none for another, and it says what
\* its record says; normalize_records, given the whole page, says the same.
NothingLost ==
    \A t \in Threads : (Delivered(t) /\ Found(given[t])) =>
        LET page == given[t].page
        IN  /\ \A i, j \in DOMAIN rows[t] : rows[t][i].record = rows[t][j].record => i = j
            /\ {rows[t][i].record : i \in DOMAIN rows[t]} = {Index(i) : i \in Wanted(setup, page)}
            /\ setup.kind \in {"path", "recursive"} =>
                  \A i \in DOMAIN rows[t] : Faithful(rows[t][i], RecordIn(page, rows[t][i]))
            /\ (setup.kind = "path" /\ page # <<>> /\ {setup.keep, setup.ignore} = {NoKey}) =>
                  rows[t] = NormalizeRecords(page)
=============================================================================
