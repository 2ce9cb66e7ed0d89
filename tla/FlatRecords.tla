---------------------------- MODULE FlatRecords ----------------------------
(***************************************************************************)
(* How the recursive processor flattens one record                         *)
(* (utils/json_processing_utils.py, RecursiveJsonProcessor and             *)
(* JsonNormalizer, as recursive_data_processor.py sets them up: one        *)
(* delimiter joins the items of a list and the values of a key).           *)
(*                                                                         *)
(* An extracted piece is [path, data], data the sequence of strings that   *)
(* the delimiter joins; None on its own is the empty sequence.             *)
(***************************************************************************)
EXTENDS JsonPaths

\* _join_list_elements: an empty list joins to the empty string.
Joined(t) ==
    IF t.kids = <<>> THEN <<"">> ELSE [i \in DOMAIN t.kids |-> t.kids[i][2].val]

\* process_level: a list with nothing nested in it is joined.
Descended(t) ==
    t.kind = "dict" \/ (t.kind = "list" /\ \E i \in DOMAIN t.kids : IsNested(t.kids[i][2]))

Pieces(record) ==
    LET found == Unfolded(record, <<>>, Descended)
        Data(t) == IF t.kind = "list" THEN Joined(t)
                   ELSE IF t.val = "None" THEN <<>> ELSE <<t.val>>
    IN  [i \in DOMAIN found |-> [path |-> found[i].path, data |-> Data(found[i].data)]]

\* Mutant of NewKey: the last component, used or not.
LastKey(path, used, full) == <<Last(path)>>

\* create_unique_key: the whole path, or its shortest ending not used before;
\* a number behind the last component where every ending is used.
NewKey(path, used, full) ==
    LET Ending(k) == SubSeq(path, Len(path) - k + 1, Len(path))
        endings == {k \in (IF full THEN Len(path) ELSE 1)..Len(path) :
                       Ending(k) \notin used}
        Least(S) == CHOOSE k \in S : \A l \in S : k <= l
        numbers == {k \in 1..(Cardinality(used) + 1) :
                       <<Last(path), ToString(k)>> \notin used}
    IN  IF endings # {} THEN Ending(Least(endings))
        ELSE <<Last(path), ToString(Least(numbers))>>

\* get_unique_key for each path that has one, in the order of the pieces.
KeyOf(pieces, full) ==
    LET Step(keys, e) ==
            LET p == KeyPath(e.path)
            IN  IF p \in DOMAIN keys THEN keys
                ELSE (p :> NewKey(p, {keys[q] : q \in DOMAIN keys}, full)) @@ keys
    IN  FoldLeft(Step, [p \in {} |-> <<>>], pieces)

\* normalize_extracted: the values of a path meet under its key, and a path of
\* nothing but indices and `value' is skipped.
Normalized(extracted, full) ==
    LET pieces == SelectSeq(extracted, LAMBDA e : KeyPath(e.path) # <<>>)
        keyOf  == KeyOf(pieces, full)
        Under(k) == SelectSeq(pieces, LAMBDA e : keyOf[KeyPath(e.path)] = k)
    IN  [k \in {keyOf[p] : p \in DOMAIN keyOf} |->
            FlattenSeq([i \in DOMAIN Under(k) |-> Under(k)[i].data])]

\* combine_normalized: an empty string becomes None.
CombineNormalized(values) == IF values \in {<<>>, <<"">>} THEN <<"None">> ELSE values

\* process_and_flatten
FlatRow(record, full) ==
    LET row == Normalized(Pieces(record), full)
    IN  [k \in DOMAIN row |-> CombineNormalized(row[k])]
=============================================================================
