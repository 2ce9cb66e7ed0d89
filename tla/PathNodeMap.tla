---------------------------- MODULE PathNodeMap ----------------------------
(***************************************************************************)
(* A map from the paths of a nested JSON structure to its terminal values  *)
(* (utils/paths/path_node_map.py), with the prefix cache it answers from   *)
(* (processing_cache.py), and the record maps of a chain                   *)
(* (record_path_chain_map.py), which are such maps for one record: nodes   *)
(* of other records are refused before anything else happens.              *)
(*                                                                         *)
(* A path is a sequence of components.  The cache refers to path OBJECTS   *)
(* weakly: an object is a path and a copy number, it lives while the map   *)
(* or the caller holds it, and what the cache knows of it ends with it.    *)
(* Values are left out.  Dictionary lookups compare paths, not objects.    *)
(***************************************************************************)
EXTENDS Integers, FiniteSets, FiniteSetsExt, SequencesExt, Functions

CONSTANTS Objects,    \* the path objects in play: <<path, copy>>
          MaxHeld     \* bound: objects the caller holds between two calls

Paths  == {o[1] : o \in Objects}
Copies == {o[2] : o \in Objects}

ASSUME PathAssumption ==
    /\ \A o \in Objects : /\ o = <<o[1], o[2]>> /\ o[2] \in Nat
                          /\ o[1] \in Seq(ToSet(o[1])) /\ o[1] # <<>>
    /\ MaxHeld \in Nat

VARIABLES
    use_cache,  \* as given to __init__
    overwrite,  \* the attribute
    data,       \* path |-> the objects that are its key and its node's path
    updates,    \* path |-> the object and the lazy operation noted for it
    cache,      \* path |-> the object under which the cache lists it
    held,       \* the objects the caller holds
    unseen,     \* history: paths put in the map behind the cache's back
    untold      \* history: paths that left the map behind the cache's back

vars == <<use_cache, overwrite, data, updates, cache, held, unseen, untold>>

Nothing == [p \in {} |-> 0]

\* d with d[p] = v.
Entered(d, p, v) == [q \in DOMAIN d \cup {p} |-> IF q = p THEN v ELSE d[q]]

\* p is a proper ancestor of q.
Above(p, q) == Len(p) < Len(q) /\ IsPrefix(p, q)

\* What a call works on.
State == [data |-> data, updates |-> updates, cache |-> cache]

InData(d) == UNION {{<<p, d[p].key>>, <<p, d[p].node>>} : p \in DOMAIN d}

\* Weak references: what nobody holds any more leaves the cache by itself.
Collect(s, holders) ==
    LET live == holders \cup InData(s.data)
    IN  [data    |-> s.data,
         updates |-> Restrict(s.updates,
                        {p \in DOMAIN s.updates : <<p, s.updates[p].copy>> \in live}),
         cache   |-> Restrict(s.cache, {p \in DOMAIN s.cache : <<p, s.cache[p]>> \in live})]

----------------------------------------------------------------------------
(* PathProcessingCache *)

\* updates[path] = operation: an equal path noted before stays the key.
Note(s, o, op) ==
    LET p == o[1]
        copy == IF p \in DOMAIN s.updates THEN s.updates[p].copy ELSE o[2]
    IN  [s EXCEPT !.updates = Entered(s.updates, p, [copy |-> copy, op |-> op])]

\* cache_update(): adding an equal path to a WeakSet leaves it as it was.
CacheUpdate(s) ==
    LET To(op)  == {p \in DOMAIN s.updates : s.updates[p].op = op}
        left   == DOMAIN s.cache \ To("remove")
    IN  [data    |-> s.data,
         updates |-> Nothing,
         cache   |-> [p \in left \cup To("add") |->
                         IF p \in left THEN s.cache[p] ELSE s.updates[p].copy]]

\* filter() of the cache and of the dictionary, from a minimal depth on.
Cached(s, prefix, depth) ==
    {p \in DOMAIN CacheUpdate(s).cache : IsPrefix(prefix, p) /\ Len(p) >= depth}
Scanned(s, prefix, depth) ==
    {p \in DOMAIN s.data : (Above(prefix, p) /\ Len(p) >= depth) \/ p = prefix}

\* self.data[path] of a path that is no longer there.
Raises(s, prefix, depth) == use_cache /\ ~(Cached(s, prefix, depth) \subseteq DOMAIN s.data)

----------------------------------------------------------------------------
(* __setitem__ *)

\* Mutant of Descendants: the search begins at the depth of the node.
DescendantsAndSelf(s, p) ==
    IF use_cache THEN Cached(s, p, Len(p)) ELSE Scanned(s, p, Len(p))

\* What _validate_key_value_pair finds below the path (the scan finds the path
\* itself as well: `and' binds closer than `or').
Descendants(s, p) ==
    IF use_cache THEN Cached(s, p, Len(p) + 1) ELSE Scanned(s, p, Len(p) + 1)

Refused(s, o, replace) ==
    \/ o[1] \in DOMAIN s.data /\ ~replace
    \/ Raises(s, o[1], Len(o[1]) + 1)
    \/ Descendants(s, o[1]) # {}

\* The search has applied the lazy updates, whatever it found.
Searched(s, o, replace) ==
    IF ~use_cache \/ (o[1] \in DOMAIN s.data /\ ~replace)
    THEN s ELSE CacheUpdate(s)

\* Mutant of Ancestors: only the parent is removed.
ParentOnly(p, d) == {q \in DOMAIN d : Above(q, p) /\ Len(q) = Len(p) - 1}

\* Mutant of Ancestors: what is below the path goes as well.
BothWays(p, d) == {q \in DOMAIN d : Above(q, p) \/ Above(p, q)}

\* The nodes that are no longer terminal.
Ancestors(p, d) == {q \in DOMAIN d : Above(q, p)}

\* The dictionary keeps the key it has; the cache is noted the new object.
Put(s, o) ==
    LET p == o[1]
        rest == Restrict(s.data, DOMAIN s.data \ Ancestors(p, s.data))
        key == IF p \in DOMAIN s.data THEN s.data[p].key ELSE o[2]
    IN  [s EXCEPT !.data = Entered(rest, p, [key |-> key, node |-> o[2]])]

Insert(s, o, replace, holders) ==
    IF Refused(s, o, replace) THEN Searched(s, o, replace)
    ELSE LET placed == Collect(Put(Searched(s, o, replace), o), holders)
         IN  IF use_cache THEN Note(placed, o, "add") ELSE placed

----------------------------------------------------------------------------
Alive == held \cup InData(data)

\* An object the caller passes: one it holds, or a new one.
Passed(o) ==
    \/ o \in held
    \/ /\ o \notin Alive
       /\ \A q \in Objects : q[1] = o[1] /\ q[2] < o[2] => q \in Alive

\* The cache lists a path by an object that the map does not hold.
Aliased(s) == {p \in DOMAIN s.cache \cap DOMAIN s.data :
                  s.cache[p] \notin {s.data[p].key, s.data[p].node}}

\* What filters would list that is no longer in the map.
Stale(s) == DOMAIN CacheUpdate(s).cache \ DOMAIN s.data

\* A removal was noted for an object that nobody holds any more.
Forgotten(s, left) == {p \in DOMAIN s.updates \ DOMAIN left.updates :
                          s.updates[p].op = "remove"}

\* A call ends in state s and the caller holds the objects h: `behind' left the
\* map without a word to the cache, `merged' came without one.
End(s, h, behind, merged) ==
    LET left == Collect(s, h)
    IN  /\ Cardinality(h) <= MaxHeld
        /\ data' = left.data /\ updates' = left.updates /\ cache' = left.cache
        /\ held' = h
        /\ unseen' = (unseen \cup merged \cup Aliased(CacheUpdate(left)))
                         \cap DOMAIN left.data
        /\ untold' = (untold \cup behind \cup Forgotten(s, left)) \cap Stale(left)

\* The paths above those that came in have left, if they were there.
Over(objs) == {p \in Paths : \E o \in objs : Above(p, o[1])}

\* After a call the caller keeps what it passed, or lets it go.
Keeping(objs) == {held \cup objs, held \ objs}

----------------------------------------------------------------------------
Init ==
    /\ use_cache \in BOOLEAN /\ overwrite \in BOOLEAN
    /\ data = Nothing /\ updates = Nothing /\ cache = Nothing
    /\ held = {} /\ unseen = {} /\ untold = {}

\* add(node): its parameter `overwrite' is not used.
Add(o) ==
    /\ Passed(o)
    /\ LET s == Insert(State, o, overwrite, held \cup {o})
       IN  \E h \in Keeping({o}) : End(s, h, Over({o}), {})
    /\ UNCHANGED <<use_cache, overwrite>>

\* _keep_terminal_paths: the deepest paths do not enter the prefixes that the
\* others are compared with.
KeepTerminal(S) ==
    LET deepest == Max({Len(p) : p \in S})
    IN  {p \in S : \/ Len(p) = deepest
                   \/ ~\E q \in S : Len(q) < deepest /\ Above(p, q)}

\* One __setitem__ of an update, unless the path is not kept or one before raised.
PlaceNext(done, o, kept, replace, holders) ==
    IF done.raised \/ o[1] \notin kept THEN done
    ELSE [raised |-> Refused(done.s, o, replace),
          s |-> Insert(done.s, o, replace, holders)]

\* update(nodes, overwrite) with one node or two: one __setitem__ after the other;
\* the flag is left at the argument.
Update(o1, o2, replace) ==
    LET objs == {o1, o2}
        kept == KeepTerminal({o1[1], o2[1]})
        first == PlaceNext([raised |-> FALSE, s |-> State], o1, kept, replace, held \cup objs)
        both == IF o1 = o2 THEN first
                ELSE PlaceNext(first, o2, kept, replace, held \cup objs)
    IN  /\ o1[1] = o2[1] => o1 = o2
        /\ Passed(o1) /\ Passed(o2)
        /\ \E h \in Keeping(objs) : End(both.s, h, Over(objs), {})
        /\ overwrite' = replace
        /\ UNCHANGED use_cache

\* map |= other, as a chain merges record maps: the dictionary alone.
Merge(o) ==
    LET p == o[1]
        key == IF p \in DOMAIN data THEN data[p].key ELSE o[2]
        s == [State EXCEPT !.data = Entered(@, p, [key |-> key, node |-> o[2]])]
    IN  /\ Passed(o)
        /\ \E h \in Keeping({o}) : End(s, h, {}, {p})
        /\ UNCHANGED <<use_cache, overwrite>>

\* Mutant: the cache is not told of the removal.
DeleteUntold(o) ==
    /\ Passed(o) /\ o[1] \in DOMAIN data
    /\ LET s == [State EXCEPT !.data = Restrict(@, DOMAIN @ \ {o[1]})]
       IN  \E h \in Keeping({o}) : End(Collect(s, held \cup {o}), h, {}, {})
    /\ UNCHANGED <<use_cache, overwrite>>

\* del map[key] and map.pop(key), with a path object of the caller's or one
\* made of its string.
Delete(o) ==
    /\ Passed(o) /\ o[1] \in DOMAIN data
    /\ LET s == Collect([State EXCEPT !.data = Restrict(@, DOMAIN @ \ {o[1]})],
                        held \cup {o})
           told == IF use_cache THEN Note(s, o, "remove") ELSE s
       IN  \E h \in Keeping({o}) : End(told, h, {}, {})
    /\ UNCHANGED <<use_cache, overwrite>>

\* remove(node): the dictionary alone.
RemoveNode(p) ==
    /\ p \in DOMAIN data
    /\ End([State EXCEPT !.data = Restrict(@, DOMAIN @ \ {p})], held, {p}, {})
    /\ UNCHANGED <<use_cache, overwrite>>

\* filter(prefix): whatever the prefix, the lazy updates are applied.
Filter ==
    /\ use_cache
    /\ End(CacheUpdate(State), held, {}, {})
    /\ UNCHANGED <<use_cache, overwrite>>

\* The caller takes a node or a key out of the map, or lets one go.
Take(o) ==
    /\ o \in InData(data) \ held
    /\ End(State, held \cup {o}, {}, {})
    /\ UNCHANGED <<use_cache, overwrite>>

Drop(o) ==
    /\ o \in held
    /\ End(State, held \ {o}, {}, {})
    /\ UNCHANGED <<use_cache, overwrite>>

Next ==
    \/ \E o \in Objects : Add(o) \/ Merge(o) \/ Delete(o) \/ Take(o) \/ Drop(o)
    \/ \E o1, o2 \in Objects, replace \in BOOLEAN : Update(o1, o2, replace)
    \/ \E p \in Paths : RemoveNode(p)
    \/ Filter

Spec == Init /\ [][Next]_vars

----------------------------------------------------------------------------
(* Properties *)

Entry(fields) == UNION {[S -> fields] : S \in SUBSET Paths}

TypeOK ==
    /\ use_cache \in BOOLEAN /\ overwrite \in BOOLEAN
    /\ data \in Entry([key : Copies, node : Copies])
    /\ updates \in Entry([copy : Copies, op : {"add", "remove"}])
    /\ cache \in Entry(Copies)
    /\ held \subseteq Objects
    /\ unseen \subseteq DOMAIN data /\ untold \subseteq Paths

\* "Terminal paths": no path of the map is an ancestor of another, unless one of
\* the two came in unseen, by |= or under an object the cache had for it (with
\* the types).
TerminalOnly ==
    TypeOK /\ \A p, q \in DOMAIN data : Above(p, q) => p \in unseen \/ q \in unseen

\* The cache answers as a scan of the dictionary would, but for paths that came
\* unseen or left untold; a removal with a path the caller keeps is told.
FilterAgrees ==
    use_cache => \A prefix \in Paths :
        /\ Cached(State, prefix, 0) \subseteq Scanned(State, prefix, 0) \cup untold
        /\ Scanned(State, prefix, 0) \subseteq Cached(State, prefix, 0) \cup unseen

\* A node is refused only for a descendant, for a path that exists and may not
\* be overwritten, or for a stale cache; without a cache, every path that exists
\* is refused, whatever `overwrite' says.
RefusalJustified ==
    \A o \in Objects :
        LET p == o[1] IN
        Refused(State, o, overwrite) =>
            \/ \E q \in DOMAIN data \cup untold : Above(p, q)
            \/ p \in DOMAIN data /\ ~(overwrite /\ use_cache)

\* A path leaves the map by a removal, or because a descendant is there.
LeavesForDescendants ==
    [][\A p \in DOMAIN data \ DOMAIN data' :
          \/ DOMAIN data' = DOMAIN data \ {p}
          \/ \E q \in DOMAIN data' : Above(p, q)]_vars
=============================================================================
