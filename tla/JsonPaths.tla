----------------------------- MODULE JsonPaths -----------------------------
(***************************************************************************)
(* Parsed JSON and the paths into it: utils/paths/processing_path.py, and  *)
(* the helpers on nested structures of utils/helpers.py.                   *)
(*                                                                         *)
(* A value is a tree: a dictionary or a list with its <<key, tree>> pairs  *)
(* in order, or a leaf.  Leaves are the strings their str() is, so 3 and   *)
(* "3" are one, as they are for everything done with them here.  A path is *)
(* the sequence of its components; the keys of a list are its indices.     *)
(* Dictionaries have no numeric keys.                                      *)
(***************************************************************************)
EXTENDS Integers, Sequences, SequencesExt, FiniteSets, TLC

CONSTANTS NameOrder,  \* every component that is sorted, in ascending order
          Unsplit,    \* keys that ProcessingPath splits: they hold a delimiter
          MaxDepth    \* bound on how deep a value is nested

Index(i) == ToString(i - 1)
IndexSet == {Index(i) : i \in 1..9}

Leaf(v)      == [kind |-> "leaf", kids |-> <<>>, val |-> v]
Dict(fields) == [kind |-> "dict", kids |-> fields, val |-> "{}"]
List(items)  == [kind |-> "list", val |-> "[]",
                 kids |-> [i \in DOMAIN items |-> <<Index(i), items[i]>>]]

IsNested(t)  == t.kind # "leaf"
NonEmpty(t)  == t.kids # <<>>
Items(t)     == [i \in DOMAIN t.kids |-> t.kids[i][2]]
KeysOf(t)    == {t.kids[i][1] : i \in DOMAIN t.kids}
Child(t, k)  == t.kids[SelectInSeq(t.kids, LAMBDA kid : kid[1] = k)][2]

\* A value at the end of the path p with everything that Open admits replaced
\* by what it holds, level by level: a sequence of [path, data] in order.
Unfolded(t, p, Open(_)) ==
    LET Held(e) == [i \in DOMAIN e.data.kids |->
                      [path |-> Append(e.path, e.data.kids[i][1]), data |-> e.data.kids[i][2]]]
        level[n \in 0..MaxDepth] ==
            IF n = 0 THEN <<[path |-> p, data |-> t]>>
            ELSE LET above == level[n - 1]
                 IN  FlattenSeq([i \in DOMAIN above |->
                        IF Open(above[i].data) THEN Held(above[i]) ELSE <<above[i]>>])
    IN  level[MaxDepth]

\* The terminal values of t, at paths that begin with p: a container counts as
\* one when it is empty.
Terminals(t, p) ==
    LET found == Unfolded(t, p, NonEmpty)
    IN  [i \in DOMAIN found |-> [path |-> found[i].path, value |-> found[i].data.val]]

\* t and everything in it.
Within(t) ==
    LET level[n \in 0..MaxDepth] ==
            IF n = 0 THEN {t} ELSE UNION {ToSet(Items(c)) : c \in level[n - 1]}
    IN  UNION {level[n] : n \in 0..MaxDepth}

\* nested_key_exists, for keys that stand for themselves as expressions.
KeyExists(t, k) == \E c \in Within(t) : c.kind = "dict" /\ k \in KeysOf(c)

\* A list of one dictionary stands for that dictionary.
Unwrap(t) ==
    IF t.kind = "list" /\ Len(t.kids) = 1 /\ t.kids[1][2].kind = "dict"
    THEN t.kids[1][2] ELSE t

\* get_nested_data: <<>> for a path that is not there, else <<value>>.  What is
\* not a container is passed along, and the last value is not unwrapped.
NestedData(t, p) ==
    LET Step(found, i) ==
            IF found = <<>> \/ ~IsNested(found[1]) THEN found
            ELSE IF found[1].kind = "list" \/ p[i] \notin KeysOf(found[1]) THEN <<>>
            ELSE LET next == Child(found[1], p[i])
                 IN  <<IF i < Len(p) THEN Unwrap(next) ELSE next>>
    IN  FoldLeftDomain(Step, <<t>>, p)

\* is_nested_json: a mapping below it, or something nested two levels down.
IsNestedJson(t) ==
    \E i \in DOMAIN t.kids :
        LET c == t.kids[i][2]
        IN  c.kind = "dict" \/ \E j \in DOMAIN c.kids : IsNested(c.kids[j][2])

\* PathUtils.remove_path_indices: `value' says nothing.
KeyPath(p) == SelectSeq(p, LAMBDA c : c \notin IndexSet \cup {"value"})

----------------------------------------------------------------------------
(* ProcessingPath *)

Root     == <<"">>
Depth(p) == IF p = Root THEN 0 ELSE Len(p)

\* No component at all means the root.
OrRoot(p) == IF p = <<>> THEN Root ELSE p

\* path / other: nothing is added by an empty string.
Join(p, c) == IF c = "" THEN p ELSE Append(p, c)

RemoveAll(p, names)  == OrRoot(SelectSeq(p, LAMBDA c : c \notin names))
RemoveIndices(p)     == RemoveAll(p, IndexSet)
ReplaceIndices(p)    == [i \in DOMAIN p |-> IF p[i] \in IndexSet THEN "i" ELSE p[i]]

\* A last index is dropped and the others become a placeholder.
Group(p) ==
    IF Last(p) \in IndexSet THEN ReplaceIndices(OrRoot(Front(p)))
    ELSE ReplaceIndices(p)

\* The order of _to_alphanum: by depth, then by component, indices first.
Rank(c) == SelectInSeq(NameOrder, LAMBDA n : n = c)
PathLess(p, q) ==
    \/ Depth(p) < Depth(q)
    \/ /\ Depth(p) = Depth(q)
       /\ \E i \in DOMAIN p : /\ Rank(p[i]) < Rank(q[i])
                              /\ \A j \in 1..(i - 1) : p[j] = q[j]
=============================================================================
