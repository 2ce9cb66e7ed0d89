------------------------- MODULE NormalizingRecords -------------------------
(***************************************************************************)
(* What NormalizingDataProcessor (normalizing_data_processor.py) finds in  *)
(* a record under given keys: it flattens the record first, guided by the  *)
(* keys (RecursiveJsonProcessor.traverse_dictionary and flatten).          *)
(***************************************************************************)
EXTENDS KeyedRecords, FiniteSetsExt

\* traverse_level: lists are traversed when they hold something nested, and
\* end the traversal when they do not.
RECURSIVE Traverse(_, _, _)
Traverse(t, path, level) ==
    IF path = <<>> THEN <<[path |-> level, data |-> t]>>
    ELSE IF t.kind = "dict" /\ Head(path) \in KeysOf(t)
    THEN Traverse(Child(t, Head(path)), Tail(path), Append(level, Head(path)))
    ELSE IF t.kind = "list" /\ \E i \in DOMAIN t.kids : IsNested(t.kids[i][2])
    THEN FlattenSeq([i \in DOMAIN t.kids |->
            Traverse(t.kids[i][2], path, Append(level, t.kids[i][1]))])
    ELSE <<>>

\* Mutant of Extend: a piece is added whether it is there or not.
ExtendAlways(pieces, new) == pieces \o new

\* create_record: nothing is extracted twice from one place.
Extend(pieces, new) ==
    FoldLeft(LAMBDA acc, e : IF Contains(acc, e) THEN acc ELSE Append(acc, e), pieces, new)

\* traverse_dictionary
TraverseAll(record, keys) ==
    FoldSet(LAMBDA name, acc : Extend(acc, Traverse(record, keys[name], <<>>)),
            <<>>, DOMAIN keys)

\* _as_normalized_key
NormalizedKey(p) == IF KeyPath(p) = <<>> THEN p ELSE KeyPath(p)

\* flatten, for one key: the values found under it, a single one on its own.
FlatValue(pieces, key) ==
    LET under == SelectSeq(pieces, LAMBDA e : KeyPath(e.path) = key)
    IN  IF under = <<>> THEN Null ELSE Unlist(List([i \in DOMAIN under |-> under[i].data]))

\* process_record: a record with nothing nested in it is not flattened, and an
\* empty one gives no fields at all.
NormalizedRecord(record, keys, pieces) ==
    IF ~NonEmpty(record) THEN [name \in {} |-> Null]
    ELSE [name \in DOMAIN keys |->
            LET key == NormalizedKey(keys[name])
            IN  Unlist(IF IsNestedJson(record) THEN FlatValue(pieces, key)
                       ELSE Got(record, Dotted(key)))]

----------------------------------------------------------------------------
(* For the properties: every place in a record *)

RECURSIVE Places(_, _)
Places(t, p) ==
    FlattenSeq([i \in DOMAIN t.kids |->
        LET q == Append(p, t.kids[i][1])
        IN  <<[path |-> q, data |-> t.kids[i][2]]>> \o Places(t.kids[i][2], q)])

\* The values whose keys on the way are those of the path.
At(record, path) ==
    LET there == SelectSeq(Places(record, <<>>), LAMBDA e :
                    SelectSeq(e.path, LAMBDA c : c \notin IndexSet) = path
                    /\ Last(e.path) \notin IndexSet)
    IN  [i \in DOMAIN there |-> there[i].data]
=============================================================================
