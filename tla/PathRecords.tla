---------------------------- MODULE PathRecords ----------------------------
(***************************************************************************)
(* How the path processor turns a page of records into rows: the paths are *)
(* discovered (path_discoverer.py), counts are combined with the values    *)
(* they count (path_node_index.py), every group of paths is given a column *)
(* name and every record a row (path_simplification.py).                   *)
(*                                                                         *)
(* The nodes of a page are a sequence of [path, value] for each record, as *)
(* the map that path_data_processor.py keeps them in has it.  Regular      *)
(* expressions match whole components: no name holds another one.          *)
(***************************************************************************)
EXTENDS JsonPaths

CONSTANTS Digits,  \* leaves that read as whole numbers
          Floats   \* leaves that are numbers with a fraction

----------------------------------------------------------------------------
(* PathDiscoverer *)

HoldsUnsplit(t) == \E c \in Within(t) : KeysOf(c) \cap Unsplit # {}

\* The entry for the root goes when a record with content is found; a record
\* index cannot be read from it, nor a path built from a key with a delimiter.
Undiscoverable(page) ==
    \/ \A i \in DOMAIN page : ~NonEmpty(page[i])
    \/ \E i \in DOMAIN page : HoldsUnsplit(page[i])

Discover(page) == [i \in DOMAIN page |-> Terminals(page[i], <<Index(i)>>)]

----------------------------------------------------------------------------
(* PathNodeIndex *)

\* RecordPathChainMap.nodes
Listed(nodes) == FlattenSeq(nodes)

RecordOf(node) == node.path[1]
PathKeys(node) == RemoveIndices(node.path)
PathGroup(node) == Group(node.path)

\* ".*value(s)?.*count$"
IsCount(node) ==
    LET p == node.path
    IN  /\ Last(p) = "count"
        /\ \E i \in DOMAIN Front(p) : p[i] \in {"value", "values"}

\* The expression of the value's path is searched for, in all records, and
\* anchored at its end only.
Matches(nodes, count) ==
    LET q == Append(Front(count.path), "value")
    IN  SelectSeq(Listed(nodes), LAMBDA n : IsSuffix(q, n.path))

\* A whole number is quoted to tell it from an index.
Quoted(v) == IF v \in Digits THEN "'" \o v \o "'" ELSE v

\* The count moves below the value, into the value's record; the value's node
\* is no longer terminal then.
Combined(nodes, count, value) ==
    LET target == Join(Join(value.path, Quoted(value.value)), "count")
        Others(own) == SelectSeq(own, LAMBDA n : n \notin {count, value})
        Moved(i) == IF Index(i) = RecordOf(value) THEN <<[count EXCEPT !.path = target]>> ELSE <<>>
    IN  [i \in DOMAIN nodes |-> Others(nodes[i]) \o Moved(i)]

\* One count after the other; a value that is no string cannot be a component.
CombineKeys(nodes) ==
    LET Step(acc, count) ==
            LET found == Matches(acc.nodes, count)
                value == found[1]
            IN  IF acc.raised \/ Len(found) # 1 \/ value.value = "None" THEN acc
                ELSE IF value.value \in Floats \cup {"{}", "[]"}
                THEN [acc EXCEPT !.raised = TRUE]
                ELSE [acc EXCEPT !.nodes = Combined(@, count, value)]
    IN  FoldLeft(Step, [nodes |-> nodes, raised |-> FALSE], SelectSeq(Listed(nodes), IsCount))

\* The nodes by their keys, and by their paths where the keys are the same.
Sorted(nodes) ==
    SortSeq(Listed(nodes), LAMBDA m, n :
        IF PathKeys(m) # PathKeys(n) THEN PathLess(PathKeys(m), PathKeys(n))
        ELSE PathLess(m.path, n.path))

----------------------------------------------------------------------------
(* PathSimplifier *)

\* _generate_base_name: get_name leaves out what says nothing.
NonInformative == {"i", "value"}
BaseName(g) == RemoveAll(g, NonInformative)

\* Mutant of Resolve: the name is used as it is.
Unresolved(name, names) == name

\* _handle_collision: the numbers are tried as a suffix of the last component
\* and then added as a component of their own.
FreeNumber(name, names) ==
    LET Tried(k) == Append(Front(name), Last(name) \o "_" \o ToString(k))
        free == {k \in 1..(Cardinality(names) + 1) : Tried(k) \notin names}
    IN  CHOOSE k \in free : \A l \in free : k <= l

Resolve(name, names) ==
    IF name \notin names THEN name
    ELSE Append(name, "_" \o ToString(FreeNumber(name, names)))

\* simplify_paths: a group is named once, unless its name is the empty string.
NameGroups(nodes) ==
    LET Step(map, node) ==
            LET g == PathGroup(node)
                names == {map[h] : h \in DOMAIN map}
            IN  IF g \in DOMAIN map /\ map[g] # Root THEN map
                ELSE (g :> Resolve(BaseName(g), names)) @@ map
    IN  FoldLeft(Step, [g \in {} |-> Root], nodes)

\* _collapse: what is joined stays a sequence here, and nothing becomes None.
Collapse(values) ==
    IF values \in {<<"">>, <<"[]">>, <<"None">>} THEN <<"None">> ELSE values

\* simplify_to_row
Row(nodes, names) ==
    LET ordered == SortSeq(nodes, LAMBDA m, n : PathLess(m.path, n.path))
        columns == {names[PathGroup(nodes[i])] : i \in DOMAIN nodes}
        Under(c) == SelectSeq(ordered, LAMBDA n : names[PathGroup(n)] = c)
    IN  [c \in columns |->
            Collapse([i \in DOMAIN Under(c) |-> Under(c)[i].value])]

\* simplify_to_rows: a row per record, in the order in which the sorted nodes
\* first mention it; the row's record is noted for the properties.
Rows(nodes) ==
    LET sorted == Sorted(nodes)
        names  == NameGroups(sorted)
        Mention(acc, n) == IF Contains(acc, RecordOf(n)) THEN acc
                           ELSE Append(acc, RecordOf(n))
        records == FoldLeft(Mention, <<>>, sorted)
    IN  [i \in DOMAIN records |->
           [record |-> records[i],
            fields |-> Row(SelectSeq(sorted, LAMBDA n : RecordOf(n) = records[i]),
                           names)]]

\* normalize_records: the whole of it for one page, with nothing left out.
NormalizeRecords(page) == Rows(CombineKeys(Discover(page)).nodes)
=============================================================================
