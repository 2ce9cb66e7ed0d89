---------------------------- MODULE KeyedRecords ----------------------------
(***************************************************************************)
(* What DataProcessor (data_processor.py) finds in a record under given    *)
(* keys: it looks each one up.                                             *)
(*                                                                         *)
(* Keys are [output name |-> path], the paths have no indices, and no      *)
(* delimiter joins values: what is found is a tree, Null in place of None. *)
(***************************************************************************)
EXTENDS JsonPaths

Null == Leaf("None")

\* PathUtils.path_str
Dotted(p) == FoldLeft(LAMBDA name, c : name \o "." \o c, Head(p), Tail(p))

\* dict.get
Got(t, k) == IF k \in KeysOf(t) THEN Child(t, k) ELSE Null

\* unlist_1d
Unlist(t) == IF t.kind = "list" /\ Len(t.kids) = 1 THEN t.kids[1][2] ELSE t

----------------------------------------------------------------------------
(* DataProcessor *)

\* extract_key, unlisted: the joined path is tried as one key first, and an
\* empty list counts as nothing.
ExtractKey(record, path) ==
    LET front == Front(path)
        whole == front # <<>> /\ Dotted(path) \in KeysOf(record)
        found == IF front # <<>> /\ NonEmpty(record) THEN NestedData(record, front)
                 ELSE <<record>>
        value == IF whole THEN Child(record, Dotted(path))
                 ELSE IF found = <<>> \/ found[1].kind # "dict" THEN Null
                 ELSE Got(found[1], Last(path))
    IN  IF value = List(<<>>) THEN Null ELSE Unlist(value)

\* process_record and collapse_fields
KeyedRecord(record, keys) == [name \in DOMAIN keys |-> ExtractKey(record, keys[name])]
=============================================================================
