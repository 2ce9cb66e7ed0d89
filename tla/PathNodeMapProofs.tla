-------------------------- MODULE PathNodeMapProofs --------------------------
(***************************************************************************)
(* Proofs about PathNodeMap, for every set of path objects.  What a call   *)
(* works on is a state s of the map and its cache; U are the paths that    *)
(* came in unseen, V those the cache was not told of.  The lemmas say what *)
(* the parts of a call do to three facts about s: no path is above another *)
(* (Terminal), the cache sees every path of the map (Sees), and what it    *)
(* lists besides is in V (Tells).                                          *)
(***************************************************************************)
EXTENDS PathNodeMap, SequenceTheorems, TLAPS

Nodes  == [key : Copies, node : Copies]
Notes  == [copy : Copies, op : {"add", "remove"}]
States == [data : Entry(Nodes), updates : Entry(Notes), cache : Entry(Copies)]

\* The cache's paths once its lazy updates are applied, and their objects; the
\* paths of the map, and the copies of them that it holds.
Lists(s)       == DOMAIN CacheUpdate(s).cache
ListedAs(s, p) == CacheUpdate(s).cache[p]
InMap(s)       == DOMAIN s.data
Holds(s, p)    == {s.data[p].key, s.data[p].node}

Terminal(s, U) == \A p, q \in InMap(s) : Above(p, q) => p \in U \/ q \in U

\* A path of the map is listed by an object that lives as long as its entry, or
\* that is one of K.
Sees(s, U, K) ==
    \A p \in InMap(s) \ U :
        p \in Lists(s) /\ (ListedAs(s, p) \in Holds(s, p) \/ <<p, ListedAs(s, p)>> \in K)

Tells(s, V) == Lists(s) \ InMap(s) \subseteq V

\* Weak references are to objects that somebody holds.
Live(s, h) ==
    /\ \A p \in DOMAIN s.updates : <<p, s.updates[p].copy>> \in h \cup InData(s.data)
    /\ \A p \in DOMAIN s.cache : <<p, s.cache[p]>> \in h \cup InData(s.data)

IInv ==
    /\ TypeOK
    /\ Terminal(State, unseen)
    /\ use_cache => Sees(State, unseen, {}) /\ Tells(State, untold) /\ Live(State, held)

----------------------------------------------------------------------------
(* Paths *)

LEMMA PathIsSequence ==
    ASSUME NEW p \in Paths
    PROVE  p \in Seq(ToSet(p)) /\ Len(p) \in Nat /\ DOMAIN p = 1..Len(p)
  BY PathAssumption DEF PathAssumption, Paths

LEMMA PrefixIs ==
    ASSUME NEW p \in Paths, NEW q \in Paths
    PROVE  IsPrefix(p, q) <=> Len(p) <= Len(q) /\ \A i \in 1..Len(p) : p[i] = q[i]
  BY PathAssumption DEF PathAssumption, IsPrefix, Paths

\* A prefix is the path itself or above it, and a path is not above itself.
LEMMA PrefixAbove ==
    ASSUME NEW p \in Paths, NEW q \in Paths
    PROVE  /\ IsPrefix(p, q) <=> Above(p, q) \/ p = q
           /\ ~Above(p, p)
           /\ IsPrefix(p, q) /\ Len(q) >= Len(p) + 1 <=> Above(p, q)
<1>1. Len(p) \in Nat /\ Len(q) \in Nat
  BY PathIsSequence
<1>2. ASSUME IsPrefix(p, q), ~(Len(p) < Len(q)) PROVE p = q
  <2>1. Len(p) = Len(q) /\ \A i \in 1..Len(p) : p[i] = q[i]
    BY <1>1, <1>2, PrefixIs
  <2>2. p \in Seq(ToSet(p) \cup ToSet(q)) /\ q \in Seq(ToSet(p) \cup ToSet(q))
    BY PathIsSequence, SeqDef
  <2> QED BY <2>1, <2>2, SeqEqual
<1>3. IsPrefix(p, p)
  BY <1>1, PrefixIs
<1> QED BY <1>1, <1>2, <1>3 DEF Above

LEMMA AboveTransitive ==
    ASSUME NEW p \in Paths, NEW q \in Paths, NEW r \in Paths, Above(p, q), Above(q, r)
    PROVE  Above(p, r)
<1>1. Len(p) \in Nat /\ Len(q) \in Nat /\ Len(r) \in Nat
  BY PathIsSequence
<1>2. /\ Len(p) < Len(q) /\ \A i \in 1..Len(p) : p[i] = q[i]
      /\ Len(q) < Len(r) /\ \A i \in 1..Len(q) : q[i] = r[i]
  BY PrefixIs DEF Above
<1>3. \A i \in 1..Len(p) : i \in 1..Len(q)
  BY <1>1, <1>2
<1>4. \A i \in 1..Len(p) : p[i] = r[i]
  BY <1>2, <1>3
<1> QED BY <1>1, <1>2, <1>4, PrefixIs DEF Above

----------------------------------------------------------------------------
(* Dictionaries, and the parts of a call *)

LEMMA EntryIs ==
    ASSUME NEW V, NEW d
    PROVE  d \in Entry(V) <=> DOMAIN d \subseteq Paths /\ d \in [DOMAIN d -> V]
  BY DEF Entry

LEMMA NothingIs == DOMAIN Nothing = {} /\ \A V : Nothing \in Entry(V)
<1>1. DOMAIN Nothing = {}
  BY DEF Nothing
<1>2. ASSUME NEW V PROVE Nothing \in [{} -> V]
  BY DEF Nothing
<1> QED BY <1>1, <1>2, EntryIs

LEMMA EnteredIs ==
    \A d, p, v : /\ DOMAIN Entered(d, p, v) = DOMAIN d \cup {p}
                 /\ Entered(d, p, v)[p] = v
                 /\ \A q \in DOMAIN d \ {p} : Entered(d, p, v)[q] = d[q]
  BY DEF Entered

LEMMA EnteredType ==
    ASSUME NEW V, NEW d \in Entry(V), NEW p \in Paths, NEW v \in V
    PROVE  Entered(d, p, v) \in Entry(V)
<1>1. DOMAIN d \subseteq Paths /\ d \in [DOMAIN d -> V]
  BY EntryIs
<1>2. DOMAIN Entered(d, p, v) = DOMAIN d \cup {p}
      /\ Entered(d, p, v) \in [DOMAIN d \cup {p} -> V]
  BY <1>1 DEF Entered
<1> QED BY <1>1, <1>2, EntryIs

LEMMA RestrictIs ==
    ASSUME NEW V, NEW d \in Entry(V), NEW S \in SUBSET DOMAIN d
    PROVE  /\ Restrict(d, S) \in Entry(V)
           /\ DOMAIN Restrict(d, S) = S
           /\ \A q \in S : Restrict(d, S)[q] = d[q]
<1>1. DOMAIN d \subseteq Paths /\ d \in [DOMAIN d -> V]
  BY EntryIs
<1>2. DOMAIN Restrict(d, S) = S /\ Restrict(d, S) \in [S -> V]
  BY <1>1 DEF Restrict
<1>3. Restrict(d, S) \in Entry(V)
  BY <1>1, <1>2, EntryIs
<1> QED BY <1>2, <1>3 DEF Restrict

LEMMA StateIs ==
    ASSUME NEW s \in States
    PROVE  /\ s.data \in Entry(Nodes)
           /\ s.updates \in Entry(Notes)
           /\ s.cache \in Entry(Copies)
           /\ DOMAIN s.data \subseteq Paths
           /\ DOMAIN s.updates \subseteq Paths /\ DOMAIN s.cache \subseteq Paths
           /\ \A p \in DOMAIN s.updates : s.updates[p] \in Notes
           /\ \A p \in DOMAIN s.cache : s.cache[p] \in Copies
<1>1. /\ s.data \in Entry(Nodes)
      /\ s.updates \in Entry(Notes)
      /\ s.cache \in Entry(Copies)
  BY DEF States
<1>2. DOMAIN s.data \subseteq Paths
  BY <1>1, EntryIs
<1>3. /\ DOMAIN s.updates \subseteq Paths
      /\ s.updates \in [DOMAIN s.updates -> Notes]
  BY <1>1, EntryIs
<1>4. DOMAIN s.cache \subseteq Paths /\ s.cache \in [DOMAIN s.cache -> Copies]
  BY <1>1, EntryIs
<1> QED BY <1>1, <1>2, <1>3, <1>4

\* What cache_update() comes to.
LEMMA CacheUpdateIs ==
    ASSUME NEW s \in States
    PROVE  /\ CacheUpdate(s) \in States
           /\ CacheUpdate(s).data = s.data
           /\ DOMAIN CacheUpdate(s).updates = {}
           /\ \A p : p \in Lists(s) <=>
                 \/ p \in DOMAIN s.cache /\ ~(p \in DOMAIN s.updates /\ s.updates[p].op = "remove")
                 \/ p \in DOMAIN s.updates /\ s.updates[p].op = "add"
           /\ \A p \in Lists(s) :
                 /\ p \in DOMAIN s.cache /\ ~(p \in DOMAIN s.updates /\ s.updates[p].op = "remove")
                       => ListedAs(s, p) = s.cache[p]
                 /\ p \notin DOMAIN s.cache => ListedAs(s, p) = s.updates[p].copy
           /\ Lists(s) \subseteq Paths
<1> DEFINE add    == {p \in DOMAIN s.updates : s.updates[p].op = "add"}
           remove == {p \in DOMAIN s.updates : s.updates[p].op = "remove"}
           left   == DOMAIN s.cache \ remove
           c      == [p \in left \cup add |-> IF p \in left THEN s.cache[p] ELSE s.updates[p].copy]
<1>1. CacheUpdate(s) = [data |-> s.data, updates |-> Nothing, cache |-> c]
  BY DEF CacheUpdate
<1>2. c \in Entry(Copies)
  <2>1. left \cup add \subseteq Paths
    BY StateIs
  <2>2. \A p \in left \cup add : c[p] \in Copies
    <3>1. \A p \in DOMAIN s.cache : s.cache[p] \in Copies
      BY StateIs, EntryIs
    <3>2. \A p \in DOMAIN s.updates : s.updates[p].copy \in Copies
      BY StateIs DEF Notes
    <3> QED BY <3>1, <3>2
  <2>3. DOMAIN c = left \cup add /\ c \in [left \cup add -> Copies]
    BY <2>2
  <2> QED BY <2>1, <2>3, EntryIs
<1>3. DOMAIN c = left \cup add
  OBVIOUS
<1>4. \A p \in left \cup add : c[p] = IF p \in left THEN s.cache[p] ELSE s.updates[p].copy
  OBVIOUS
<1>5. left \cup add \subseteq Paths
  BY StateIs
<1> HIDE DEF c
<1>6. CacheUpdate(s) \in States
  BY <1>1, <1>2, NothingIs, StateIs DEF States
<1> QED BY <1>1, <1>3, <1>4, <1>5, <1>6, NothingIs DEF Lists, ListedAs

\* What the garbage collector comes to.
LEMMA CollectIs ==
    ASSUME NEW s \in States, NEW h \in SUBSET Objects
    PROVE  /\ Collect(s, h) \in States
           /\ Collect(s, h).data = s.data
           /\ DOMAIN Collect(s, h).updates =
                 {p \in DOMAIN s.updates : <<p, s.updates[p].copy>> \in h \cup InData(s.data)}
           /\ \A p \in DOMAIN Collect(s, h).updates : Collect(s, h).updates[p] = s.updates[p]
           /\ DOMAIN Collect(s, h).cache =
                 {p \in DOMAIN s.cache : <<p, s.cache[p]>> \in h \cup InData(s.data)}
           /\ \A p \in DOMAIN Collect(s, h).cache : Collect(s, h).cache[p] = s.cache[p]
           /\ Live(Collect(s, h), h)
<1> DEFINE U == {p \in DOMAIN s.updates : <<p, s.updates[p].copy>> \in h \cup InData(s.data)}
           C == {p \in DOMAIN s.cache : <<p, s.cache[p]>> \in h \cup InData(s.data)}
<1>1. Collect(s, h) = [data |-> s.data, updates |-> Restrict(s.updates, U),
                       cache |-> Restrict(s.cache, C)]
  BY DEF Collect
<1>2. U \in SUBSET DOMAIN s.updates /\ C \in SUBSET DOMAIN s.cache
  OBVIOUS
<1>3. /\ \A p \in U : <<p, s.updates[p].copy>> \in h \cup InData(s.data)
      /\ \A p \in C : <<p, s.cache[p]>> \in h \cup InData(s.data)
  OBVIOUS
<1> HIDE DEF U, C
<1>4. /\ Restrict(s.updates, U) \in Entry(Notes)
      /\ DOMAIN Restrict(s.updates, U) = U
      /\ \A p \in U : Restrict(s.updates, U)[p] = s.updates[p]
  <2>1. s.updates \in Entry(Notes)
    BY StateIs
  <2> QED BY <1>2, <2>1, RestrictIs
<1>5. /\ Restrict(s.cache, C) \in Entry(Copies)
      /\ DOMAIN Restrict(s.cache, C) = C
      /\ \A p \in C : Restrict(s.cache, C)[p] = s.cache[p]
  <2>1. s.cache \in Entry(Copies)
    BY StateIs
  <2> QED BY <1>2, <2>1, RestrictIs
<1>6. Collect(s, h) \in States
  BY <1>1, <1>4, <1>5, StateIs DEF States
<1>7. Live(Collect(s, h), h)
  BY <1>1, <1>3, <1>4, <1>5 DEF Live
<1>8. DOMAIN Collect(s, h).updates = U /\ DOMAIN Collect(s, h).cache = C
      /\ Collect(s, h).data = s.data
  BY <1>1, <1>4, <1>5
<1>9. /\ \A p \in DOMAIN Collect(s, h).updates : Collect(s, h).updates[p] = s.updates[p]
      /\ \A p \in DOMAIN Collect(s, h).cache : Collect(s, h).cache[p] = s.cache[p]
  BY <1>1, <1>4, <1>5
<1> QED BY <1>6, <1>7, <1>8, <1>9 DEF U, C

LEMMA FieldChanged ==
    ASSUME NEW s \in States, NEW x
    PROVE  /\ [s EXCEPT !.updates = x] = [data |-> s.data, updates |-> x, cache |-> s.cache]
           /\ [s EXCEPT !.data = x] = [data |-> x, updates |-> s.updates, cache |-> s.cache]
  BY DEF States

LEMMA NoteIs ==
    ASSUME NEW s \in States, NEW o \in Objects, NEW op \in {"add", "remove"}
    PROVE  /\ Note(s, o, op) \in States
           /\ Note(s, o, op).data = s.data /\ Note(s, o, op).cache = s.cache
           /\ DOMAIN Note(s, o, op).updates = DOMAIN s.updates \cup {o[1]}
           /\ Note(s, o, op).updates[o[1]].op = op
           /\ \A q \in DOMAIN s.updates \ {o[1]} : Note(s, o, op).updates[q] = s.updates[q]
           /\ o[1] \notin DOMAIN s.updates => Note(s, o, op).updates[o[1]].copy = o[2]
<1> DEFINE copy == IF o[1] \in DOMAIN s.updates THEN s.updates[o[1]].copy ELSE o[2]
           v == [copy |-> copy, op |-> op]
<1>1. s.updates \in Entry(Notes)
  BY StateIs
<1>2. o[1] \in Paths /\ o[2] \in Copies
  BY DEF Paths, Copies
<1>3. v \in Notes
  BY <1>2, StateIs DEF Notes
<1>4. Note(s, o, op) = [data |-> s.data, updates |-> Entered(s.updates, o[1], v),
                        cache |-> s.cache]
  <2>1. Note(s, o, op) = [s EXCEPT !.updates = Entered(s.updates, o[1], v)]
    BY DEF Note
  <2> QED BY <2>1, FieldChanged
<1>5. v.op = op /\ (o[1] \notin DOMAIN s.updates => v.copy = o[2])
  OBVIOUS
<1> HIDE DEF v
<1>6. /\ Entered(s.updates, o[1], v) \in Entry(Notes)
      /\ DOMAIN Entered(s.updates, o[1], v) = DOMAIN s.updates \cup {o[1]}
      /\ Entered(s.updates, o[1], v)[o[1]] = v
      /\ \A q \in DOMAIN s.updates \ {o[1]} : Entered(s.updates, o[1], v)[q] = s.updates[q]
  <2>1. Entered(s.updates, o[1], v) \in Entry(Notes)
    BY <1>1, <1>2, <1>3, EnteredType
  <2>2. DOMAIN Entered(s.updates, o[1], v) = DOMAIN s.updates \cup {o[1]}
    BY EnteredIs
  <2>3. Entered(s.updates, o[1], v)[o[1]] = v
    BY EnteredIs
  <2>4. \A q \in DOMAIN s.updates \ {o[1]} : Entered(s.updates, o[1], v)[q] = s.updates[q]
    BY EnteredIs
  <2> QED BY <2>1, <2>2, <2>3, <2>4
<1>7. Note(s, o, op) \in States
  BY <1>4, <1>6, StateIs DEF States
<1> QED BY <1>4, <1>5, <1>6, <1>7

\* __setitem__ puts the node there and takes those above it away.
LEMMA PutIs ==
    ASSUME NEW s \in States, NEW o \in Objects
    PROVE  /\ Put(s, o) \in States
           /\ Put(s, o).updates = s.updates /\ Put(s, o).cache = s.cache
           /\ DOMAIN Put(s, o).data = (DOMAIN s.data \ Ancestors(o[1], s.data)) \cup {o[1]}
           /\ Put(s, o).data[o[1]].node = o[2]
           /\ \A q \in DOMAIN Put(s, o).data \ {o[1]} : Put(s, o).data[q] = s.data[q]
<1> DEFINE S == DOMAIN s.data \ Ancestors(o[1], s.data)
           rest == Restrict(s.data, S)
           key == IF o[1] \in DOMAIN s.data THEN s.data[o[1]].key ELSE o[2]
           v == [key |-> key, node |-> o[2]]
<1>1. s.data \in Entry(Nodes)
  BY StateIs
<1>2. o[1] \in Paths /\ o[2] \in Copies
  BY DEF Paths, Copies
<1>3. v \in Nodes
  <2>1. s.data \in [DOMAIN s.data -> Nodes]
    BY <1>1, EntryIs
  <2> QED BY <1>2, <2>1 DEF Nodes
<1>4. Put(s, o) = [data |-> Entered(rest, o[1], v), updates |-> s.updates, cache |-> s.cache]
  <2>1. Put(s, o) = [s EXCEPT !.data = Entered(rest, o[1], v)]
    BY DEF Put
  <2> QED BY <2>1, FieldChanged
<1>5. v.node = o[2]
  OBVIOUS
<1>6. S \in SUBSET DOMAIN s.data
  OBVIOUS
<1> HIDE DEF S
<1>7. /\ rest \in Entry(Nodes) /\ DOMAIN rest = S
      /\ \A q \in S : rest[q] = s.data[q]
  BY <1>1, <1>6, RestrictIs
<1> HIDE DEF rest, v
<1>8. /\ Entered(rest, o[1], v) \in Entry(Nodes)
      /\ DOMAIN Entered(rest, o[1], v) = S \cup {o[1]}
      /\ Entered(rest, o[1], v)[o[1]] = v
      /\ \A q \in S \ {o[1]} : Entered(rest, o[1], v)[q] = s.data[q]
  <2>1. Entered(rest, o[1], v) \in Entry(Nodes)
    BY <1>2, <1>3, <1>7, EnteredType
  <2>2. \A q \in S \ {o[1]} : Entered(rest, o[1], v)[q] = rest[q]
    BY <1>7, EnteredIs
  <2>3. DOMAIN Entered(rest, o[1], v) = S \cup {o[1]}
    BY <1>7, EnteredIs
  <2>4. Entered(rest, o[1], v)[o[1]] = v
    BY EnteredIs
  <2> QED BY <1>7, <2>1, <2>2, <2>3, <2>4
<1>9. Put(s, o) \in States
  BY <1>4, <1>8, StateIs DEF States
<1> QED BY <1>4, <1>5, <1>8, <1>9 DEF S

----------------------------------------------------------------------------
(* What the parts of a call do to what is listed *)

LEMMA InDataIs ==
    ASSUME NEW s, NEW p, NEW c
    PROVE  <<p, c>> \in InData(s.data) <=> p \in InMap(s) /\ c \in Holds(s, p)
  BY DEF InData, InMap, Holds

LEMMA UpdateLists ==
    ASSUME NEW s \in States
    PROVE  /\ InMap(CacheUpdate(s)) = InMap(s)
           /\ \A p : Holds(CacheUpdate(s), p) = Holds(s, p)
           /\ Lists(CacheUpdate(s)) = Lists(s)
           /\ \A p \in Lists(s) : ListedAs(CacheUpdate(s), p) = ListedAs(s, p)
<1> DEFINE t == CacheUpdate(s)
<1>1. t \in States /\ t.data = s.data /\ DOMAIN t.updates = {} /\ DOMAIN t.cache = Lists(s)
  BY CacheUpdateIs DEF Lists
<1>2. \A p \in Lists(s) : t.cache[p] = ListedAs(s, p)
  BY DEF ListedAs
<1> HIDE DEF t
<1>3. \A p : p \in Lists(t) <=> p \in DOMAIN t.cache
  BY <1>1, CacheUpdateIs
<1>4. \A p \in Lists(t) : ListedAs(t, p) = t.cache[p]
  BY <1>1, <1>3, CacheUpdateIs
<1>5. Lists(t) = Lists(s)
  BY <1>1, <1>3
<1>6. \A p \in Lists(s) : ListedAs(t, p) = ListedAs(s, p)
  BY <1>2, <1>4, <1>5
<1>7. InMap(t) = InMap(s) /\ \A p : Holds(t, p) = Holds(s, p)
  BY <1>1 DEF InMap, Holds
<1> QED BY <1>5, <1>6, <1>7 DEF t

\* What somebody holds stays listed through a collection; what is listed after it
\* and was not before is a removal that was forgotten.
LEMMA CollectLists ==
    ASSUME NEW s \in States, NEW h \in SUBSET Objects
    PROVE  LET c == Collect(s, h) IN
           /\ InMap(c) = InMap(s) /\ \A p : Holds(c, p) = Holds(s, p)
           /\ \A p \in Lists(s) :
                 (p \in InMap(s) /\ ListedAs(s, p) \in Holds(s, p)) \/ <<p, ListedAs(s, p)>> \in h
                    => p \in Lists(c) /\ ListedAs(c, p) = ListedAs(s, p)
           /\ Lists(c) \ Lists(s) \subseteq Forgotten(s, c)
<1> DEFINE c == Collect(s, h)
           Removed(t, p) == p \in DOMAIN t.updates /\ t.updates[p].op = "remove"
           Added(t, p)   == p \in DOMAIN t.updates /\ t.updates[p].op = "add"
<1>1. c \in States /\ c.data = s.data
  BY CollectIs
<1>2. \A p : p \in DOMAIN c.updates <=>
           p \in DOMAIN s.updates /\ <<p, s.updates[p].copy>> \in h \cup InData(s.data)
  BY CollectIs
<1>3. \A p \in DOMAIN c.updates : c.updates[p] = s.updates[p]
  BY CollectIs
<1>4. \A p : p \in DOMAIN c.cache <=>
           p \in DOMAIN s.cache /\ <<p, s.cache[p]>> \in h \cup InData(s.data)
  BY CollectIs
<1>5. \A p \in DOMAIN c.cache : c.cache[p] = s.cache[p]
  BY CollectIs
<1> HIDE DEF c
<1>6. \A t \in States : \A p : p \in Lists(t) <=>
         (p \in DOMAIN t.cache /\ ~Removed(t, p)) \/ Added(t, p)
  BY CacheUpdateIs
<1>7. \A t \in States : \A p \in Lists(t) :
         /\ p \in DOMAIN t.cache /\ ~Removed(t, p) => ListedAs(t, p) = t.cache[p]
         /\ p \notin DOMAIN t.cache => ListedAs(t, p) = t.updates[p].copy
  BY CacheUpdateIs
<1>8. InMap(c) = InMap(s) /\ \A p : Holds(c, p) = Holds(s, p)
  BY <1>1 DEF InMap, Holds
<1>9. ASSUME NEW p \in Lists(s), <<p, ListedAs(s, p)>> \in h \cup InData(s.data)
      PROVE  p \in Lists(c) /\ ListedAs(c, p) = ListedAs(s, p)
  <2>1. CASE p \in DOMAIN s.cache /\ ~Removed(s, p)
    <3>1. ListedAs(s, p) = s.cache[p]
      BY <2>1, <1>7
    <3>2. p \in DOMAIN c.cache /\ c.cache[p] = s.cache[p]
      BY <1>4, <1>5, <1>9, <2>1, <3>1
    <3>3. ~Removed(c, p)
      BY <1>2, <1>3, <2>1
    <3> QED BY <1>1, <1>6, <1>7, <3>1, <3>2, <3>3
  <2>2. CASE Added(s, p) /\ p \notin DOMAIN s.cache
    <3>1. ListedAs(s, p) = s.updates[p].copy
      BY <2>2, <1>7
    <3>2. p \in DOMAIN c.updates /\ c.updates[p] = s.updates[p]
      BY <1>2, <1>3, <1>9, <2>2, <3>1
    <3>3. Added(c, p) /\ p \notin DOMAIN c.cache
      BY <1>4, <2>2, <3>2
    <3> QED BY <1>1, <1>6, <1>7, <3>1, <3>2, <3>3
  <2>3. Added(s, p) => ~Removed(s, p)
    OBVIOUS
  <2> QED BY <1>6, <2>1, <2>2, <2>3
<1>10. ASSUME NEW p \in Lists(c) \ Lists(s) PROVE p \in Forgotten(s, c)
  <2>1. ~Added(s, p) /\ ~Added(c, p)
    BY <1>2, <1>3, <1>6, <1>10
  <2>2. p \in DOMAIN s.cache /\ Removed(s, p) /\ ~Removed(c, p)
    BY <1>1, <1>4, <1>6, <1>10, <2>1
  <2>3. p \notin DOMAIN c.updates
    BY <1>3, <2>2
  <2> QED BY <2>2, <2>3 DEF Forgotten
<1>11. \A p : p \in InMap(s) /\ ListedAs(s, p) \in Holds(s, p)
               => <<p, ListedAs(s, p)>> \in InData(s.data)
  BY InDataIs
<1> QED BY <1>8, <1>9, <1>10, <1>11 DEF c

\* Once the updates are applied a collection only takes away from what is listed.
LEMMA CollectUpdated ==
    ASSUME NEW s \in States, DOMAIN s.updates = {}, NEW h \in SUBSET Objects
    PROVE  LET c == Collect(s, h) IN
           /\ DOMAIN c.updates = {}
           /\ \A p \in Lists(c) :
                 /\ p \in Lists(s) /\ ListedAs(c, p) = ListedAs(s, p)
                 /\ (p \in InMap(s) /\ ListedAs(s, p) \in Holds(s, p))
                       \/ <<p, ListedAs(s, p)>> \in h
<1> DEFINE c == Collect(s, h)
<1>1. c \in States /\ DOMAIN c.updates = {}
  BY CollectIs
<1>2. \A p : p \in DOMAIN c.cache <=>
           p \in DOMAIN s.cache /\ <<p, s.cache[p]>> \in h \cup InData(s.data)
  BY CollectIs
<1>3. \A p \in DOMAIN c.cache : c.cache[p] = s.cache[p]
  BY CollectIs
<1> HIDE DEF c
<1>4. \A t \in States : DOMAIN t.updates = {} =>
         /\ \A p : p \in Lists(t) <=> p \in DOMAIN t.cache
         /\ \A p \in Lists(t) : ListedAs(t, p) = t.cache[p]
  BY CacheUpdateIs
<1>5. ASSUME NEW p \in Lists(c)
      PROVE  /\ p \in Lists(s) /\ ListedAs(c, p) = ListedAs(s, p)
             /\ <<p, ListedAs(s, p)>> \in h \cup InData(s.data)
  <2>1. p \in DOMAIN c.cache /\ ListedAs(c, p) = c.cache[p]
    BY <1>1, <1>4
  <2>2. p \in DOMAIN s.cache /\ c.cache[p] = s.cache[p]
    BY <1>2, <1>3, <2>1
  <2>3. p \in Lists(s) /\ ListedAs(s, p) = s.cache[p]
    BY <1>4, <2>2
  <2> QED BY <1>2, <2>1, <2>2, <2>3
<1> QED BY <1>1, <1>5, InDataIs DEF c

\* A noted operation decides whether its path is listed; no other path is touched.
LEMMA NoteLists ==
    ASSUME NEW s \in States, NEW o \in Objects, NEW op \in {"add", "remove"}
    PROVE  LET t == Note(s, o, op) IN
           /\ t \in States
           /\ InMap(t) = InMap(s) /\ \A p : Holds(t, p) = Holds(s, p)
           /\ \A q : q # o[1] => (q \in Lists(t) <=> q \in Lists(s))
           /\ \A q \in Lists(s) \ {o[1]} : ListedAs(t, q) = ListedAs(s, q)
           /\ op = "remove" => o[1] \notin Lists(t)
           /\ op = "add" => o[1] \in Lists(t)
           /\ op = "add" /\ DOMAIN s.updates = {} =>
                 \/ ListedAs(t, o[1]) = o[2]
                 \/ o[1] \in Lists(s) /\ ListedAs(t, o[1]) = ListedAs(s, o[1])
<1> DEFINE t == Note(s, o, op)
           Removed(x, p) == p \in DOMAIN x.updates /\ x.updates[p].op = "remove"
           Added(x, p)   == p \in DOMAIN x.updates /\ x.updates[p].op = "add"
<1>1. /\ t \in States /\ t.data = s.data /\ t.cache = s.cache
      /\ DOMAIN t.updates = DOMAIN s.updates \cup {o[1]}
      /\ t.updates[o[1]].op = op
  BY NoteIs
<1>2. \A q \in DOMAIN s.updates \ {o[1]} : t.updates[q] = s.updates[q]
  BY NoteIs
<1>3. o[1] \notin DOMAIN s.updates => t.updates[o[1]].copy = o[2]
  BY NoteIs
<1> HIDE DEF t
<1>4. \A x \in States : \A p : p \in Lists(x) <=>
         (p \in DOMAIN x.cache /\ ~Removed(x, p)) \/ Added(x, p)
  BY CacheUpdateIs
<1>5. \A x \in States : \A p \in Lists(x) :
         /\ p \in DOMAIN x.cache /\ ~Removed(x, p) => ListedAs(x, p) = x.cache[p]
         /\ p \notin DOMAIN x.cache => ListedAs(x, p) = x.updates[p].copy
  BY CacheUpdateIs
<1>6. InMap(t) = InMap(s) /\ \A p : Holds(t, p) = Holds(s, p)
  BY <1>1 DEF InMap, Holds
<1>7. ASSUME NEW q, q # o[1]
      PROVE  /\ q \in Lists(t) <=> q \in Lists(s)
             /\ q \in Lists(s) => ListedAs(t, q) = ListedAs(s, q)
  <2>1. q \in DOMAIN t.updates <=> q \in DOMAIN s.updates
    BY <1>1, <1>7
  <2>2. q \in DOMAIN t.updates => t.updates[q] = s.updates[q]
    BY <1>2, <1>7, <2>1
  <2>3. (Removed(t, q) <=> Removed(s, q)) /\ (Added(t, q) <=> Added(s, q))
    BY <2>1, <2>2
  <2>4. q \in Lists(t) <=> q \in Lists(s)
    BY <1>1, <1>4, <2>3
  <2>5. ASSUME q \in Lists(s) PROVE ListedAs(t, q) = ListedAs(s, q)
    <3>1. CASE q \in DOMAIN s.cache /\ ~Removed(s, q)
      BY <1>1, <1>5, <2>3, <2>4, <2>5, <3>1
    <3>2. CASE q \notin DOMAIN s.cache
      <4>1. Added(s, q)
        BY <1>4, <2>5, <3>2
      <4>2. t.updates[q].copy = s.updates[q].copy
        BY <2>1, <2>2, <4>1
      <4>3. ListedAs(t, q) = t.updates[q].copy
        BY <1>1, <1>5, <2>4, <2>5, <3>2
      <4>4. ListedAs(s, q) = s.updates[q].copy
        BY <1>5, <2>5, <3>2
      <4> QED BY <4>2, <4>3, <4>4
    <3>3. CASE q \in DOMAIN s.cache /\ Removed(s, q)
      BY <1>4, <2>5, <3>3
    <3> QED BY <3>1, <3>2, <3>3
  <2> QED BY <2>4, <2>5
<1>8. op = "remove" => o[1] \notin Lists(t)
  BY <1>1, <1>4
<1>9. op = "add" => o[1] \in Lists(t)
  BY <1>1, <1>4
<1>10. ASSUME op = "add", DOMAIN s.updates = {}
       PROVE  \/ ListedAs(t, o[1]) = o[2]
              \/ o[1] \in Lists(s) /\ ListedAs(t, o[1]) = ListedAs(s, o[1])
  <2>1. CASE o[1] \in DOMAIN s.cache
    <3>1. ~Removed(t, o[1]) /\ ~Removed(s, o[1])
      BY <1>1, <1>10
    <3>2. ListedAs(t, o[1]) = s.cache[o[1]]
      BY <1>1, <1>5, <1>9, <1>10, <2>1, <3>1
    <3>3. o[1] \in Lists(s) /\ ListedAs(s, o[1]) = s.cache[o[1]]
      BY <1>4, <1>5, <2>1, <3>1
    <3> QED BY <3>2, <3>3
  <2>2. CASE o[1] \notin DOMAIN s.cache
    BY <1>1, <1>3, <1>5, <1>9, <1>10, <2>2
  <2> QED BY <2>1, <2>2
<1> QED BY <1>1, <1>6, <1>7, <1>8, <1>9, <1>10 DEF t

LEMMA PutLists ==
    ASSUME NEW s \in States, NEW o \in Objects
    PROVE  LET t == Put(s, o) IN
           /\ t \in States /\ t.updates = s.updates
           /\ InMap(t) = (InMap(s) \ Ancestors(o[1], s.data)) \cup {o[1]}
           /\ o[2] \in Holds(t, o[1])
           /\ \A q \in InMap(t) \ {o[1]} : Holds(t, q) = Holds(s, q)
           /\ Lists(t) = Lists(s)
           /\ \A p \in Lists(s) : ListedAs(t, p) = ListedAs(s, p)
<1> DEFINE t == Put(s, o)
<1>1. /\ t \in States /\ t.updates = s.updates /\ t.cache = s.cache
      /\ DOMAIN t.data = (DOMAIN s.data \ Ancestors(o[1], s.data)) \cup {o[1]}
      /\ t.data[o[1]].node = o[2]
  BY PutIs
<1>2. \A q \in DOMAIN t.data \ {o[1]} : t.data[q] = s.data[q]
  BY PutIs
<1> HIDE DEF t
<1>3. CacheUpdate(t).cache = CacheUpdate(s).cache
  BY <1>1 DEF CacheUpdate
<1>4. Lists(t) = Lists(s) /\ \A p \in Lists(s) : ListedAs(t, p) = ListedAs(s, p)
  BY <1>3 DEF Lists, ListedAs
<1>5. InMap(t) = (InMap(s) \ Ancestors(o[1], s.data)) \cup {o[1]}
  BY <1>1 DEF InMap
<1>6. o[2] \in Holds(t, o[1]) /\ \A q \in InMap(t) \ {o[1]} : Holds(t, q) = Holds(s, q)
  BY <1>1, <1>2 DEF Holds, InMap
<1> QED BY <1>1, <1>4, <1>5, <1>6 DEF t

----------------------------------------------------------------------------
(* __setitem__ *)

LEMMA SearchedIs ==
    ASSUME NEW s \in States, NEW o \in Objects, NEW replace \in BOOLEAN
    PROVE  LET r == Searched(s, o, replace) IN
           /\ r \in States /\ r.data = s.data
           /\ InMap(r) = InMap(s) /\ \A p : Holds(r, p) = Holds(s, p)
           /\ Lists(r) = Lists(s) /\ \A p \in Lists(s) : ListedAs(r, p) = ListedAs(s, p)
<1>1. Searched(s, o, replace) = s \/ Searched(s, o, replace) = CacheUpdate(s)
  BY DEF Searched
<1>2. CASE Searched(s, o, replace) = s
  BY <1>2
<1>3. CASE Searched(s, o, replace) = CacheUpdate(s)
  BY <1>3, CacheUpdateIs, UpdateLists
<1> QED BY <1>1, <1>2, <1>3

\* What the cache lists below a path is what its filter finds there.
LEMMA CachedIs ==
    ASSUME NEW s \in States, NEW p \in Paths
    PROVE  /\ \A q \in Lists(s) : Above(p, q) => q \in Cached(s, p, Len(p) + 1)
           /\ \A q \in Cached(s, p, Len(p) + 1) : q \in Lists(s) /\ Above(p, q)
<1>1. Lists(s) \subseteq Paths
  BY CacheUpdateIs
<1>2. \A q : q \in Cached(s, p, Len(p) + 1) <=>
             q \in Lists(s) /\ IsPrefix(p, q) /\ Len(q) >= Len(p) + 1
  BY DEF Cached, Lists
<1>3. \A q \in Lists(s) : IsPrefix(p, q) /\ Len(q) >= Len(p) + 1 <=> Above(p, q)
  BY <1>1, PrefixAbove
<1> QED BY <1>2, <1>3

\* A node that is not refused has nothing below it, but what came in unseen.
LEMMA NothingBelow ==
    ASSUME NEW s \in States, NEW o \in Objects, NEW replace \in BOOLEAN,
           ~Refused(s, o, replace),
           NEW U, NEW K, use_cache => Sees(s, U, K),
           NEW q \in InMap(s), Above(o[1], q)
    PROVE  q \in U
<1>1. o[1] \in Paths /\ q \in Paths
  BY StateIs DEF Paths, InMap
<1>2. Descendants(s, o[1]) = {}
  BY DEF Refused
<1>3. CASE use_cache
  <2>1. Cached(s, o[1], Len(o[1]) + 1) = {}
    BY <1>2, <1>3 DEF Descendants
  <2>2. q \notin Lists(s)
    BY <1>1, <2>1, CachedIs
  <2> QED BY <1>3, <2>2 DEF Sees
<1>4. CASE ~use_cache
  <2>1. Scanned(s, o[1], Len(o[1]) + 1) = {}
    BY <1>2, <1>4 DEF Descendants
  <2>2. Len(q) >= Len(o[1]) + 1
    BY <1>1, PrefixAbove
  <2> QED BY <2>1, <2>2 DEF Scanned, InMap
<1> QED BY <1>3, <1>4

\* What is in the map after a call of __setitem__, and no path above another.
LEMMA InsertData ==
    ASSUME NEW s \in States, NEW o \in Objects, NEW replace \in BOOLEAN,
           NEW h \in SUBSET Objects,
           NEW U, NEW K, use_cache => Sees(s, U, K), Terminal(s, U)
    PROVE  LET t == Insert(s, o, replace, h) IN
           /\ t \in States
           /\ Refused(s, o, replace) => t = Searched(s, o, replace) /\ InMap(t) = InMap(s)
           /\ ~Refused(s, o, replace) =>
                 InMap(t) = (InMap(s) \ Ancestors(o[1], s.data)) \cup {o[1]}
           /\ Terminal(t, U)
<1> DEFINE r == Searched(s, o, replace)
           u == Put(r, o)
           c == Collect(u, h)
           t == Insert(s, o, replace, h)
<1>1. /\ r \in States /\ r.data = s.data /\ InMap(r) = InMap(s)
  BY SearchedIs
<1>2. CASE Refused(s, o, replace)
  <2>1. t = r
    BY <1>2 DEF Insert
  <2>2. Terminal(t, U)
    BY <1>1, <2>1 DEF Terminal
  <2> QED BY <1>1, <1>2, <2>1, <2>2
<1>3. CASE ~Refused(s, o, replace)
  <2> HIDE DEF r
  <2>1. /\ u \in States
        /\ InMap(u) = (InMap(s) \ Ancestors(o[1], s.data)) \cup {o[1]}
    BY <1>1, PutLists
  <2> HIDE DEF u
  <2>2. c \in States /\ InMap(c) = InMap(u)
    BY <2>1, CollectIs, CollectLists
  <2> HIDE DEF c
  <2>3. t = IF use_cache THEN Note(c, o, "add") ELSE c
    BY <1>3 DEF Insert, c, u, r
  <2> HIDE DEF t
  <2>4. t \in States /\ InMap(t) = InMap(c)
    <3>1. Note(c, o, "add") \in States /\ InMap(Note(c, o, "add")) = InMap(c)
      BY <2>2, NoteLists
    <3> QED BY <2>2, <2>3, <3>1
  <2>5. InMap(t) = (InMap(s) \ Ancestors(o[1], s.data)) \cup {o[1]}
    BY <2>1, <2>2, <2>4
  <2>6. ASSUME NEW p \in InMap(t), NEW q \in InMap(t), Above(p, q)
        PROVE  p \in U \/ q \in U
    <3>1. o[1] \in Paths
      BY DEF Paths
    <3>2. CASE p = o[1] /\ q \in InMap(s)
      BY <1>3, <2>6, <3>2, NothingBelow
    <3>3. CASE q = o[1] /\ p \in InMap(s) \ Ancestors(o[1], s.data)
      BY <2>6, <3>3 DEF Ancestors, InMap
    <3>4. CASE p \in InMap(s) /\ q \in InMap(s)
      BY <2>6, <3>4 DEF Terminal
    <3>5. CASE p = o[1] /\ q = o[1]
      BY <2>6, <3>1, <3>5, PrefixAbove
    <3> QED BY <2>5, <3>2, <3>3, <3>4, <3>5
  <2>7. Terminal(t, U)
    BY <2>6 DEF Terminal
  <2> QED BY <1>3, <2>4, <2>5, <2>7 DEF t
<1> QED BY <1>2, <1>3

\* The paths of the map after it.
LEMMA InsertedPaths ==
    ASSUME NEW s \in States, NEW o \in Objects, NEW replace \in BOOLEAN,
           NEW h \in SUBSET Objects,
           NEW U, NEW K, use_cache => Sees(s, U, K), Terminal(s, U)
    PROVE  InMap(Insert(s, o, replace, h)) =
              IF Refused(s, o, replace) THEN InMap(s)
              ELSE (InMap(s) \ Ancestors(o[1], s.data)) \cup {o[1]}
  BY InsertData

\* What the cache knows after it.  K are objects the caller holds besides those it
\* passes.
LEMMA InsertCache ==
    ASSUME NEW s \in States, NEW o \in Objects, NEW replace \in BOOLEAN,
           NEW h \in SUBSET Objects, o \in h, use_cache,
           NEW U, NEW K, K \subseteq h,
           \A x : <<o[1], x>> \in h /\ x # o[2] => <<o[1], x>> \in K,
           Sees(s, U, K), NEW V, Tells(s, V)
    PROVE  LET t == Insert(s, o, replace, h) IN
           Sees(t, U, K) /\ Tells(t, V \cup Over({o}))
<1> DEFINE r == Searched(s, o, replace)
           u == Put(r, o)
           c == Collect(u, h)
           t == Insert(s, o, replace, h)
<1>1. /\ r \in States /\ r.data = s.data
      /\ InMap(r) = InMap(s) /\ \A p : Holds(r, p) = Holds(s, p)
      /\ Lists(r) = Lists(s) /\ \A p \in Lists(s) : ListedAs(r, p) = ListedAs(s, p)
  BY SearchedIs
<1>2. CASE Refused(s, o, replace)
  <2>1. t = r
    BY <1>2 DEF Insert
  <2> HIDE DEF r, t
  <2>2. Sees(r, U, K)
    BY <1>1 DEF Sees
  <2>3. Tells(r, V \cup Over({o}))
    BY <1>1 DEF Tells
  <2> QED BY <2>1, <2>2, <2>3 DEF t
<1>3. CASE ~Refused(s, o, replace)
  <2>1. DOMAIN r.updates = {}
    <3>1. r = CacheUpdate(s)
      BY <1>3 DEF Searched, Refused
    <3> QED BY <3>1, CacheUpdateIs
  <2> HIDE DEF r
  <2>2. /\ u \in States /\ DOMAIN u.updates = {}
        /\ InMap(u) = (InMap(s) \ Ancestors(o[1], s.data)) \cup {o[1]}
        /\ o[2] \in Holds(u, o[1])
        /\ Lists(u) = Lists(s)
    BY <1>1, <2>1, PutLists
  <2>3. \A q \in InMap(u) \ {o[1]} : Holds(u, q) = Holds(s, q)
    BY <1>1, PutLists
  <2>4. \A p \in Lists(s) : ListedAs(u, p) = ListedAs(s, p)
    BY <1>1, PutLists
  <2> HIDE DEF u
  <2>5. /\ c \in States /\ DOMAIN c.updates = {}
        /\ InMap(c) = InMap(u) /\ \A p : Holds(c, p) = Holds(u, p)
    BY <2>2, CollectIs, CollectLists, CollectUpdated
  <2>6. \A p \in Lists(c) :
           /\ p \in Lists(u) /\ ListedAs(c, p) = ListedAs(u, p)
           /\ (p \in InMap(u) /\ ListedAs(u, p) \in Holds(u, p)) \/ <<p, ListedAs(u, p)>> \in h
    BY <2>2, CollectUpdated
  <2>7. \A p \in Lists(u) :
           (p \in InMap(u) /\ ListedAs(u, p) \in Holds(u, p)) \/ <<p, ListedAs(u, p)>> \in h
              => p \in Lists(c) /\ ListedAs(c, p) = ListedAs(u, p)
    BY <2>2, CollectLists
  <2> HIDE DEF c
  <2>8. t = Note(c, o, "add")
    BY <1>3 DEF Insert, c, u, r
  <2> HIDE DEF t
  <2>9. /\ t \in States
        /\ InMap(t) = InMap(c) /\ \A p : Holds(t, p) = Holds(c, p)
        /\ \A q : q # o[1] => (q \in Lists(t) <=> q \in Lists(c))
        /\ o[1] \in Lists(t)
        /\ \/ ListedAs(t, o[1]) = o[2]
           \/ o[1] \in Lists(c) /\ ListedAs(t, o[1]) = ListedAs(c, o[1])
    BY <2>5, <2>8, NoteLists
  <2>10. \A q \in Lists(c) \ {o[1]} : ListedAs(t, q) = ListedAs(c, q)
    BY <2>5, <2>8, NoteLists
  <2>11. ASSUME NEW p \in InMap(t) \ U
         PROVE  p \in Lists(t) /\ (ListedAs(t, p) \in Holds(t, p) \/ <<p, ListedAs(t, p)>> \in K)
    <3>1. CASE p = o[1]
      <4>1. o[2] \in Holds(t, o[1])
        BY <2>2, <2>5, <2>9
      <4>2. CASE ListedAs(t, o[1]) = o[2]
        BY <2>9, <3>1, <4>1, <4>2
      <4>3. CASE /\ ListedAs(t, o[1]) # o[2]
                 /\ o[1] \in Lists(c) /\ ListedAs(t, o[1]) = ListedAs(c, o[1])
        <5>1. /\ ListedAs(c, o[1]) = ListedAs(u, o[1])
              /\ ListedAs(u, o[1]) \in Holds(u, o[1]) \/ <<o[1], ListedAs(u, o[1])>> \in h
          BY <2>6, <4>3
        <5>2. ListedAs(t, o[1]) \in Holds(t, o[1]) \/ <<o[1], ListedAs(t, o[1])>> \in h
          BY <2>5, <2>9, <4>3, <5>1
        <5> QED BY <2>9, <3>1, <4>3, <5>2
      <4> QED BY <2>9, <4>2, <4>3
    <3>2. CASE p # o[1]
      <4>1. p \in InMap(u) /\ p \in InMap(s) \ U
        BY <2>2, <2>5, <2>9, <3>2
      <4>2. /\ p \in Lists(s)
            /\ ListedAs(s, p) \in Holds(s, p) \/ <<p, ListedAs(s, p)>> \in K
        BY <4>1 DEF Sees
      <4>3. /\ p \in Lists(u) /\ ListedAs(u, p) = ListedAs(s, p)
            /\ Holds(u, p) = Holds(s, p)
        BY <2>2, <2>3, <2>4, <3>2, <4>1, <4>2
      <4>4. p \in Lists(c) /\ ListedAs(c, p) = ListedAs(s, p)
        BY <2>7, <4>1, <4>2, <4>3
      <4>5. p \in Lists(t) /\ ListedAs(t, p) = ListedAs(s, p)
        BY <2>9, <2>10, <3>2, <4>4
      <4>6. Holds(t, p) = Holds(s, p)
        BY <2>5, <2>9, <4>3
      <4> QED BY <4>2, <4>5, <4>6
    <3> QED BY <3>1, <3>2
  <2>12. ASSUME NEW p \in Lists(t) \ InMap(t) PROVE p \in V \cup Over({o})
    <3>1. p # o[1]
      BY <2>2, <2>5, <2>9, <2>12
    <3>2. p \in Lists(s) /\ p \notin InMap(u)
      BY <2>2, <2>5, <2>6, <2>9, <2>12, <3>1
    <3>3. CASE p \notin InMap(s)
      BY <3>2, <3>3 DEF Tells
    <3>4. CASE p \in InMap(s)
      <4>1. p \in Ancestors(o[1], s.data)
        BY <2>2, <3>2, <3>4
      <4>2. Above(p, o[1])
        BY <4>1 DEF Ancestors
      <4>3. p \in Paths
        BY <3>2, CacheUpdateIs
      <4> QED BY <4>2, <4>3 DEF Over
    <3> QED BY <3>3, <3>4
  <2>13. Sees(t, U, K)
    BY <2>11 DEF Sees
  <2>14. Tells(t, V \cup Over({o}))
    BY <2>12 DEF Tells
  <2> QED BY <2>13, <2>14 DEF t
<1> QED BY <1>2, <1>3

----------------------------------------------------------------------------
(* The end of a call *)

LEMMA StateType == TypeOK => State \in States
  BY DEF TypeOK, State, States, Nodes, Notes

\* Whatever the call did, the invariant holds of what is left, if the facts did of
\* the state it ended in.
LEMMA EndKeeps ==
    ASSUME TypeOK, NEW s \in States, NEW h \in SUBSET Objects,
           NEW behind, NEW merged, End(s, h, behind, merged),
           use_cache' = use_cache, overwrite' \in BOOLEAN,
           Terminal(s, unseen \cup merged),
           NEW K \in SUBSET h,
           use_cache => Sees(s, unseen \cup merged, K) /\ Tells(s, untold \cup behind)
    PROVE  IInv'
<1> DEFINE left == Collect(s, h)
<1>1. /\ left \in States /\ left.data = s.data /\ Live(left, h)
  BY CollectIs
<1>2. InMap(left) = InMap(s) /\ \A p : Holds(left, p) = Holds(s, p)
  BY CollectLists
<1>3. \A p \in Lists(s) :
         (p \in InMap(s) /\ ListedAs(s, p) \in Holds(s, p)) \/ <<p, ListedAs(s, p)>> \in h
            => p \in Lists(left) /\ ListedAs(left, p) = ListedAs(s, p)
  BY CollectLists
<1>4. Lists(left) \ Lists(s) \subseteq Forgotten(s, left)
  BY CollectLists
<1>5. /\ data' = left.data /\ updates' = left.updates /\ cache' = left.cache
      /\ held' = h
      /\ unseen' = (unseen \cup merged \cup Aliased(CacheUpdate(left))) \cap DOMAIN left.data
      /\ untold' = (untold \cup behind \cup Forgotten(s, left)) \cap Stale(left)
  BY DEF End
<1> HIDE DEF left
<1>6. State' = left
  <2>1. left = [data |-> left.data, updates |-> left.updates, cache |-> left.cache]
    BY <1>1 DEF States
  <2> QED BY <1>5, <2>1 DEF State
<1>7. Lists(left) \subseteq Paths
  BY <1>1, CacheUpdateIs
<1>8. TypeOK'
  <2>1. use_cache' \in BOOLEAN /\ overwrite' \in BOOLEAN
    BY DEF TypeOK
  <2>2. /\ data' \in Entry(Nodes) /\ updates' \in Entry(Notes) /\ cache' \in Entry(Copies)
    BY <1>1, <1>5, StateIs
  <2>3. held' \subseteq Objects /\ unseen' \subseteq DOMAIN data'
    BY <1>5
  <2>4. untold' \subseteq Paths
    BY <1>5, <1>7 DEF Stale, Lists
  <2> QED BY <2>1, <2>2, <2>3, <2>4 DEF TypeOK, Nodes, Notes, Entry, Paths, Copies
<1>9. Terminal(left, unseen')
  BY <1>1, <1>2, <1>5 DEF Terminal, InMap
<1>10. ASSUME use_cache, NEW p \in InMap(left) \ unseen'
       PROVE  p \in Lists(left) /\ ListedAs(left, p) \in Holds(left, p)
  <2>1. p \notin unseen \cup merged /\ p \notin Aliased(CacheUpdate(left))
    BY <1>5, <1>10 DEF InMap
  <2>2. /\ p \in Lists(s)
        /\ ListedAs(s, p) \in Holds(s, p) \/ <<p, ListedAs(s, p)>> \in K
    BY <1>2, <1>10, <2>1 DEF Sees
  <2>3. p \in Lists(left)
    BY <1>2, <1>3, <1>10, <2>2
  <2>4. InMap(CacheUpdate(left)) = InMap(left)
        /\ Holds(CacheUpdate(left), p) = Holds(left, p)
    BY <1>1, UpdateLists
  <2>5. ListedAs(left, p) \in Holds(CacheUpdate(left), p)
    BY <1>10, <2>1, <2>3, <2>4 DEF Aliased, Lists, InMap, Holds, ListedAs
  <2> QED BY <2>3, <2>4, <2>5
<1>11. ASSUME use_cache, NEW p \in Lists(left) \ InMap(left) PROVE p \in untold'
  <2>1. p \in Stale(left)
    BY <1>11 DEF Stale, Lists, InMap
  <2>2. p \in Lists(s) => p \in untold \cup behind
    BY <1>2, <1>11 DEF Tells
  <2> QED BY <1>4, <1>5, <1>11, <2>1, <2>2
<1>12. use_cache => Sees(left, unseen', {}) /\ Tells(left, untold')
  BY <1>10, <1>11 DEF Sees, Tells
<1>13. Terminal(State, unseen)'
  BY <1>6, <1>9 DEF Terminal, InMap
<1>14. Live(State, held)'
  <2>1. Live(left, h)
    BY <1>1
  <2> QED BY <1>5, <1>6, <2>1 DEF Live, InData
<1>15. use_cache' => (Sees(State, unseen, {}) /\ Tells(State, untold))'
  <2>1. Lists(State)' = Lists(left) /\ InMap(State)' = InMap(left)
    BY <1>6 DEF Lists, InMap, CacheUpdate, Nothing
  <2>2. \A p : ListedAs(State, p)' = ListedAs(left, p) /\ Holds(State, p)' = Holds(left, p)
    BY <1>6 DEF ListedAs, Holds, CacheUpdate, Nothing
  <2> QED BY <1>12, <2>1, <2>2 DEF Sees, Tells
<1> QED BY <1>8, <1>13, <1>14, <1>15 DEF IInv

----------------------------------------------------------------------------
(* Each action *)

\* What is true of the state a call works on.
Known(s, U, K, V) ==
    s \in States /\ Terminal(s, U) /\ (use_cache => Sees(s, U, K) /\ Tells(s, V))

LEMMA AtTheStart ==
    ASSUME IInv, NEW K PROVE Known(State, unseen, K, untold)
<1>1. State \in States
  BY StateType DEF IInv
<1>2. use_cache => Sees(State, unseen, K)
  BY DEF IInv, Sees
<1> QED BY <1>1, <1>2 DEF IInv, Known

LEMMA PlaceKeeps ==
    ASSUME NEW done, NEW objs \in SUBSET Objects, NEW o \in objs, NEW kept,
           NEW replace \in BOOLEAN, NEW U, NEW V,
           \A q \in objs : q[1] = o[1] => q = o,
           held \subseteq Objects,
           Known(done.s, U, held \ objs, V \cup Over(objs))
    PROVE  Known(PlaceNext(done, o, kept, replace, held \cup objs).s,
                 U, held \ objs, V \cup Over(objs))
<1> DEFINE W == V \cup Over(objs)
           K == held \ objs
           h == held \cup objs
           t == Insert(done.s, o, replace, h)
<1>1. CASE done.raised \/ o[1] \notin kept
  BY <1>1 DEF PlaceNext
<1>2. CASE ~(done.raised \/ o[1] \notin kept)
  <2>1. PlaceNext(done, o, kept, replace, h).s = t
    BY <1>2 DEF PlaceNext
  <2>2. /\ done.s \in States /\ Terminal(done.s, U)
        /\ use_cache => Sees(done.s, U, K) /\ Tells(done.s, W)
    BY DEF Known
  <2>3. o \in Objects /\ h \in SUBSET Objects /\ o \in h /\ K \subseteq h
    OBVIOUS
  <2>4. t \in States /\ Terminal(t, U)
    BY <2>2, <2>3, InsertData
  <2>5. ASSUME use_cache PROVE Sees(t, U, K) /\ Tells(t, W)
    <3>1. \A x : <<o[1], x>> \in h /\ x # o[2] => <<o[1], x>> \in K
      <4>1. SUFFICES ASSUME NEW x, <<o[1], x>> \in objs PROVE x = o[2]
        OBVIOUS
      <4>2. <<o[1], x>>[1] = o[1]
        OBVIOUS
      <4>3. <<o[1], x>> = o
        BY <4>1, <4>2
      <4> QED BY <4>3
    <3>2. Sees(t, U, K) /\ Tells(t, W \cup Over({o}))
      BY <2>2, <2>3, <2>5, <3>1, InsertCache
    <3>3. Over({o}) \subseteq Over(objs)
      BY DEF Over
    <3>4. Tells(t, W)
      BY <3>2, <3>3 DEF Tells
    <3> QED BY <3>2, <3>4
  <2> QED BY <2>1, <2>4, <2>5 DEF Known
<1> QED BY <1>1, <1>2

LEMMA KeepingIs ==
    ASSUME held \subseteq Objects, NEW objs \in SUBSET Objects, NEW h \in Keeping(objs)
    PROVE  h \in SUBSET Objects /\ held \ objs \in SUBSET h
  BY DEF Keeping

LEMMA AddKeeps ==
    ASSUME IInv, NEW o \in Objects, Add(o) PROVE IInv'
<1> DEFINE done == [raised |-> FALSE, s |-> State]
           s == Insert(State, o, overwrite, held \cup {o})
<1>1. TypeOK /\ held \subseteq Objects /\ overwrite \in BOOLEAN
  BY DEF IInv, TypeOK
<1>2. Known(s, unseen, held \ {o}, untold \cup Over({o}))
  <2>1. Known(State, unseen, held \ {o}, untold)
    BY AtTheStart
  <2>2. Known(State, unseen, held \ {o}, untold \cup Over({o}))
    BY <2>1 DEF Known, Tells
  <2>3. Known(PlaceNext(done, o, {o[1]}, overwrite, held \cup {o}).s,
              unseen, held \ {o}, untold \cup Over({o}))
    BY <1>1, <2>2, PlaceKeeps
  <2>4. PlaceNext(done, o, {o[1]}, overwrite, held \cup {o}).s = s
    BY DEF PlaceNext
  <2> QED BY <2>3, <2>4
<1> HIDE DEF s
<1>3. PICK h \in Keeping({o}) : End(s, h, Over({o}), {})
  BY DEF Add, s
<1>4. h \in SUBSET Objects /\ held \ {o} \in SUBSET h
  BY <1>1, <1>3, KeepingIs
<1>5. use_cache' = use_cache /\ overwrite' \in BOOLEAN
  BY <1>1 DEF Add
<1>6. s \in States /\ Terminal(s, unseen \cup {})
      /\ (use_cache => Sees(s, unseen \cup {}, held \ {o}) /\ Tells(s, untold \cup Over({o})))
  BY <1>2 DEF Known
<1> QED BY <1>1, <1>3, <1>4, <1>5, <1>6, EndKeeps

LEMMA UpdateKeeps ==
    ASSUME IInv, NEW o1 \in Objects, NEW o2 \in Objects, NEW replace \in BOOLEAN,
           Update(o1, o2, replace)
    PROVE  IInv'
<1> DEFINE objs == {o1, o2}
           kept == KeepTerminal({o1[1], o2[1]})
           start == [raised |-> FALSE, s |-> State]
           first == PlaceNext(start, o1, kept, replace, held \cup objs)
           both == IF o1 = o2 THEN first
                   ELSE PlaceNext(first, o2, kept, replace, held \cup objs)
           K == held \ objs
           W == untold \cup Over(objs)
<1>1. TypeOK /\ held \subseteq Objects
  BY DEF IInv, TypeOK
<1>2. o1[1] = o2[1] => o1 = o2
  BY DEF Update
<1>3. Known(start.s, unseen, K, W)
  BY AtTheStart DEF Known, Tells
<1>4. objs \in SUBSET Objects /\ o1 \in objs /\ o2 \in objs
      /\ (\A q \in objs : q[1] = o1[1] => q = o1) /\ (\A q \in objs : q[1] = o2[1] => q = o2)
  BY <1>2
<1> HIDE DEF kept, start, objs
<1>5. Known(first.s, unseen, K, W)
  BY <1>1, <1>3, <1>4, PlaceKeeps
<1> HIDE DEF first
<1>6. Known(both.s, unseen, K, W)
  BY <1>1, <1>4, <1>5, PlaceKeeps
<1>7. PICK h \in Keeping(objs) : End(both.s, h, Over(objs), {})
  BY DEF Update, objs, kept, start, first
<1> HIDE DEF both
<1>8. h \in SUBSET Objects /\ K \in SUBSET h
  BY <1>1, <1>4, <1>7, KeepingIs
<1>9. use_cache' = use_cache /\ overwrite' \in BOOLEAN
  BY DEF Update
<1>10. both.s \in States /\ Terminal(both.s, unseen \cup {})
      /\ (use_cache => Sees(both.s, unseen \cup {}, K) /\ Tells(both.s, untold \cup Over(objs)))
  BY <1>6 DEF Known
<1> QED BY <1>1, <1>7, <1>8, <1>9, <1>10, EndKeeps

\* Changes of the dictionary alone leave what is listed.
LEMMA DataChanged ==
    ASSUME NEW s \in States, NEW d \in Entry(Nodes)
    PROVE  LET t == [s EXCEPT !.data = d] IN
           /\ t \in States /\ t.data = d /\ t.updates = s.updates /\ t.cache = s.cache
           /\ Lists(t) = Lists(s) /\ \A p : ListedAs(t, p) = ListedAs(s, p)
<1> DEFINE t == [s EXCEPT !.data = d]
<1>1. t = [data |-> d, updates |-> s.updates, cache |-> s.cache]
  BY FieldChanged
<1> HIDE DEF t
<1>2. t \in States
  BY <1>1, StateIs DEF States
<1>3. CacheUpdate(t).cache = CacheUpdate(s).cache
  BY <1>1 DEF CacheUpdate
<1>4. Lists(t) = Lists(s) /\ \A p : ListedAs(t, p) = ListedAs(s, p)
  BY <1>3 DEF Lists, ListedAs
<1> QED BY <1>1, <1>2, <1>4 DEF t

LEMMA MergeKeeps ==
    ASSUME IInv, NEW o \in Objects, Merge(o) PROVE IInv'
<1> DEFINE p == o[1]
           key == IF p \in DOMAIN data THEN data[p].key ELSE o[2]
           v == [key |-> key, node |-> o[2]]
           d == Entered(data, p, v)
           s == [State EXCEPT !.data = Entered(@, p, v)]
<1>1. TypeOK /\ held \subseteq Objects /\ State \in States /\ State.data = data
  BY StateType DEF IInv, TypeOK, State
<1>2. data \in Entry(Nodes)
  BY <1>1, StateIs
<1>3. v \in Nodes
  <2>1. data \in [DOMAIN data -> Nodes]
    BY <1>2, EntryIs
  <2> QED BY <2>1 DEF Nodes, Copies
<1>4. p \in Paths
  BY DEF Paths
<1> HIDE DEF v
<1>5. /\ d \in Entry(Nodes) /\ DOMAIN d = DOMAIN data \cup {p}
      /\ \A q \in DOMAIN data \ {p} : d[q] = data[q]
  <2>1. d \in Entry(Nodes)
    BY <1>2, <1>3, <1>4, EnteredType
  <2>2. \A q \in DOMAIN data \ {p} : d[q] = data[q]
    BY EnteredIs
  <2>3. DOMAIN d = DOMAIN data \cup {p}
    BY EnteredIs
  <2> QED BY <2>1, <2>2, <2>3
<1>6. s = [State EXCEPT !.data = d]
  BY <1>1
<1> HIDE DEF d, s
<1>7. /\ s \in States /\ s.data = d
      /\ Lists(s) = Lists(State) /\ \A q : ListedAs(s, q) = ListedAs(State, q)
  BY <1>1, <1>5, <1>6, DataChanged
<1>8. InMap(s) = InMap(State) \cup {p} /\ InMap(State) = DOMAIN data
  BY <1>1, <1>5, <1>7 DEF InMap
<1>9. \A q \in InMap(State) \ {p} : Holds(s, q) = Holds(State, q)
  BY <1>1, <1>5, <1>7, <1>8 DEF Holds
<1>10. Known(State, unseen, {}, untold)
  BY AtTheStart
<1>11. Terminal(s, unseen \cup {p})
  BY <1>8, <1>10 DEF Known, Terminal
<1>12. use_cache => Sees(s, unseen \cup {p}, {}) /\ Tells(s, untold \cup {})
  BY <1>7, <1>8, <1>9, <1>10 DEF Known, Sees, Tells
<1>13. PICK h \in Keeping({o}) : End(s, h, {}, {p})
  BY DEF Merge, s, v
<1>14. h \in SUBSET Objects
  BY <1>1, <1>13, KeepingIs
<1>15. use_cache' = use_cache /\ overwrite' \in BOOLEAN
  BY <1>1 DEF Merge, TypeOK
<1>16. {} \in SUBSET h
  OBVIOUS
<1> QED BY <1>1, <1>7, <1>11, <1>12, <1>13, <1>14, <1>15, <1>16, EndKeeps

\* The dictionary without one path.
LEMMA Without ==
    ASSUME NEW s \in States, NEW p
    PROVE  LET t == [s EXCEPT !.data = Restrict(@, DOMAIN @ \ {p})] IN
           /\ t \in States /\ t.updates = s.updates
           /\ InMap(t) = InMap(s) \ {p}
           /\ \A q \in InMap(t) : Holds(t, q) = Holds(s, q)
           /\ Lists(t) = Lists(s) /\ \A q : ListedAs(t, q) = ListedAs(s, q)
<1> DEFINE S == DOMAIN s.data \ {p}
           d == Restrict(s.data, S)
           t == [s EXCEPT !.data = Restrict(@, DOMAIN @ \ {p})]
<1>1. s.data \in Entry(Nodes)
  BY StateIs
<1>2. S \in SUBSET DOMAIN s.data
  OBVIOUS
<1>3. t = [s EXCEPT !.data = d]
  BY DEF States
<1> HIDE DEF S, t
<1>4. /\ d \in Entry(Nodes) /\ DOMAIN d = S
      /\ \A q \in S : d[q] = s.data[q]
  BY <1>1, <1>2, RestrictIs
<1> HIDE DEF d
<1>5. /\ t \in States /\ t.data = d /\ t.updates = s.updates
      /\ Lists(t) = Lists(s) /\ \A q : ListedAs(t, q) = ListedAs(s, q)
  BY <1>3, <1>4, DataChanged
<1>6. InMap(t) = InMap(s) \ {p}
  BY <1>4, <1>5 DEF InMap, S
<1>7. \A q \in InMap(t) : Holds(t, q) = Holds(s, q)
  BY <1>4, <1>5 DEF Holds, InMap
<1> QED BY <1>5, <1>6, <1>7 DEF t

\* A removal is noted: no earlier one is forgotten with the entry.
LEMMA DeleteKeeps ==
    ASSUME IInv, NEW o \in Objects, Delete(o) PROVE IInv'
<1> DEFINE p == o[1]
           without == [State EXCEPT !.data = Restrict(@, DOMAIN @ \ {p})]
           h1 == held \cup {o}
           s == Collect(without, h1)
           told == IF use_cache THEN Note(s, o, "remove") ELSE s
<1>1. TypeOK /\ held \subseteq Objects /\ State \in States
  BY StateType DEF IInv, TypeOK
<1>2. h1 \in SUBSET Objects
  BY <1>1
<1>3. /\ without \in States /\ without.updates = updates
      /\ InMap(without) = InMap(State) \ {p}
      /\ \A q \in InMap(without) : Holds(without, q) = Holds(State, q)
      /\ Lists(without) = Lists(State)
      /\ \A q : ListedAs(without, q) = ListedAs(State, q)
  <2>1. State.updates = updates
    BY DEF State
  <2> QED BY <1>1, <2>1, Without
<1> HIDE DEF without, h1
<1>4. s \in States
  BY <1>2, <1>3, CollectIs
<1>5. \A q : q \in DOMAIN s.updates <=>
           q \in DOMAIN updates /\ <<q, updates[q].copy>> \in h1 \cup InData(without.data)
  BY <1>2, <1>3, CollectIs
<1>6. InMap(s) = InMap(without) /\ \A q : Holds(s, q) = Holds(without, q)
  BY <1>2, <1>3, CollectLists
<1>7. \A q \in Lists(without) :
         q \in InMap(without) /\ ListedAs(without, q) \in Holds(without, q)
            => q \in Lists(s) /\ ListedAs(s, q) = ListedAs(without, q)
  BY <1>2, <1>3, CollectLists
<1>8. Lists(s) \ Lists(without) \subseteq Forgotten(without, s)
  BY <1>2, <1>3, CollectLists
<1>9. Known(State, unseen, {}, untold)
  BY AtTheStart
<1> HIDE DEF s
<1>10. told \in States /\ InMap(told) = InMap(s) /\ \A q : Holds(told, q) = Holds(s, q)
  <2>1. /\ Note(s, o, "remove") \in States /\ InMap(Note(s, o, "remove")) = InMap(s)
        /\ \A q : Holds(Note(s, o, "remove"), q) = Holds(s, q)
    BY <1>4, NoteLists
  <2> QED BY <1>4, <2>1
<1>11. Terminal(told, unseen \cup {})
  BY <1>3, <1>6, <1>9, <1>10 DEF Known, Terminal
<1>12. ASSUME use_cache PROVE Sees(told, unseen \cup {}, {}) /\ Tells(told, untold \cup {})
  <2>1. told = Note(s, o, "remove")
    BY <1>12
  <2> HIDE DEF told
  <2>2. \A q : q # p => (q \in Lists(told) <=> q \in Lists(s))
    BY <1>4, <2>1, NoteLists
  <2>3. \A q \in Lists(s) \ {p} : ListedAs(told, q) = ListedAs(s, q)
    BY <1>4, <2>1, NoteLists
  <2>4. p \notin Lists(told)
    BY <1>4, <2>1, NoteLists
  <2>5. ASSUME NEW q \in InMap(told) \ unseen
        PROVE  q \in Lists(told) /\ ListedAs(told, q) \in Holds(told, q)
    <3>1. q \in InMap(without) /\ q # p /\ q \in InMap(State) \ unseen
      BY <1>3, <1>6, <1>10, <2>5
    <3>2. q \in Lists(State) /\ ListedAs(State, q) \in Holds(State, q)
      BY <1>9, <1>12, <3>1 DEF Known, Sees
    <3>3. q \in Lists(without) /\ ListedAs(without, q) = ListedAs(State, q)
          /\ Holds(without, q) = Holds(State, q)
      BY <1>3, <3>1, <3>2
    <3>4. q \in Lists(s) /\ ListedAs(s, q) = ListedAs(without, q)
      BY <1>7, <3>1, <3>2, <3>3
    <3>5. q \in Lists(told) /\ ListedAs(told, q) = ListedAs(s, q)
      BY <2>2, <2>3, <3>1, <3>4
    <3>6. Holds(told, q) = Holds(State, q)
      BY <1>6, <1>10, <3>3
    <3> QED BY <3>2, <3>3, <3>4, <3>5, <3>6
  <2>6. ASSUME NEW q \in Lists(told) \ InMap(told) PROVE q \in untold
    <3>1. q # p /\ q \in Lists(s) /\ q \notin InMap(State)
      BY <1>3, <1>6, <1>10, <2>2, <2>4, <2>6
    <3>2. CASE q \in Lists(without)
      BY <1>3, <1>9, <1>12, <3>1, <3>2 DEF Known, Tells
    <3>3. CASE q \in Forgotten(without, s)
      <4>1. q \in DOMAIN updates /\ q \notin DOMAIN s.updates
        BY <1>3, <3>3 DEF Forgotten
      <4>2. <<q, updates[q].copy>> \in held \cup InData(State.data)
        BY <1>12, <4>1 DEF IInv, Live, State
      <4>3. <<q, updates[q].copy>> \notin InData(State.data)
        BY <3>1, InDataIs
      <4>4. <<q, updates[q].copy>> \in h1
        BY <4>2, <4>3 DEF h1
      <4> QED BY <1>5, <4>1, <4>4
    <3> QED BY <1>8, <3>1, <3>2, <3>3
  <2> QED BY <2>5, <2>6 DEF Sees, Tells
<1>13. PICK h \in Keeping({o}) : End(told, h, {}, {})
  BY DEF Delete, s, without, h1
<1> HIDE DEF told
<1>14. h \in SUBSET Objects /\ {} \in SUBSET h
  BY <1>1, <1>13, KeepingIs
<1>15. use_cache' = use_cache /\ overwrite' \in BOOLEAN
  BY <1>1 DEF Delete, TypeOK
<1> QED BY <1>1, <1>10, <1>11, <1>12, <1>13, <1>14, <1>15, EndKeeps

LEMMA RemoveNodeKeeps ==
    ASSUME IInv, NEW p \in Paths, RemoveNode(p) PROVE IInv'
<1> DEFINE s == [State EXCEPT !.data = Restrict(@, DOMAIN @ \ {p})]
<1>1. TypeOK /\ held \in SUBSET Objects /\ State \in States
  BY StateType DEF IInv, TypeOK
<1>2. Known(State, unseen, {}, untold)
  BY AtTheStart
<1>3. /\ s \in States
      /\ InMap(s) = InMap(State) \ {p}
      /\ \A q \in InMap(s) : Holds(s, q) = Holds(State, q)
      /\ Lists(s) = Lists(State) /\ \A q : ListedAs(s, q) = ListedAs(State, q)
  BY <1>1, Without
<1>4. End(s, held, {p}, {})
  BY DEF RemoveNode
<1> HIDE DEF s
<1>5. Terminal(s, unseen \cup {})
  BY <1>2, <1>3 DEF Known, Terminal
<1>6. use_cache => Sees(s, unseen \cup {}, {}) /\ Tells(s, untold \cup {p})
  BY <1>2, <1>3 DEF Known, Sees, Tells
<1>7. use_cache' = use_cache /\ overwrite' \in BOOLEAN
  BY <1>1 DEF RemoveNode, TypeOK
<1>8. {} \in SUBSET held
  OBVIOUS
<1> QED BY <1>1, <1>3, <1>4, <1>5, <1>6, <1>7, <1>8, EndKeeps

\* A filter, an object taken or let go: the map and what is listed stay.
LEMMA OthersKeep ==
    ASSUME IInv, Filter \/ \E o \in Objects : Take(o) \/ Drop(o) PROVE IInv'
<1>1. TypeOK /\ held \in SUBSET Objects /\ State \in States
  BY StateType DEF IInv, TypeOK
<1>2. Known(State, unseen, {}, untold)
  BY AtTheStart
<1>3. /\ CacheUpdate(State) \in States
      /\ InMap(CacheUpdate(State)) = InMap(State)
      /\ \A p : Holds(CacheUpdate(State), p) = Holds(State, p)
      /\ Lists(CacheUpdate(State)) = Lists(State)
      /\ \A p \in Lists(State) : ListedAs(CacheUpdate(State), p) = ListedAs(State, p)
  BY <1>1, CacheUpdateIs, UpdateLists
<1>4. PICK s \in {State, CacheUpdate(State)}, h \in SUBSET Objects : End(s, h, {}, {})
  BY <1>1 DEF Filter, Take, Drop
<1>5. s \in States /\ Terminal(s, unseen \cup {})
  BY <1>1, <1>2, <1>3, <1>4 DEF Known, Terminal
<1>6. use_cache => Sees(s, unseen \cup {}, {}) /\ Tells(s, untold \cup {})
  <2>1. CASE s = State
    BY <1>2, <2>1 DEF Known
  <2>2. CASE s = CacheUpdate(State)
    BY <1>2, <1>3, <2>2 DEF Known, Sees, Tells
  <2> QED BY <1>4, <2>1, <2>2
<1>7. use_cache' = use_cache /\ overwrite' \in BOOLEAN
  BY <1>1 DEF Filter, Take, Drop, TypeOK
<1>8. {} \in SUBSET h
  OBVIOUS
<1> QED BY <1>1, <1>4, <1>5, <1>6, <1>7, <1>8, EndKeeps

----------------------------------------------------------------------------
(* The theorems *)

LEMMA Initially ==
    ASSUME Init PROVE IInv
<1>1. DOMAIN Nothing = {} /\ \A V : Nothing \in Entry(V)
  BY NothingIs
<1>2. TypeOK
  BY <1>1 DEF Init, TypeOK
<1>3. State \in States /\ State.updates = Nothing /\ State.cache = Nothing
  BY <1>2, StateType DEF Init, State
<1>4. InMap(State) = {}
  BY <1>1 DEF Init, InMap, State
<1>5. Lists(State) = {}
  BY <1>1, <1>3, CacheUpdateIs
<1>6. Live(State, held)
  BY <1>1, <1>3 DEF Live
<1> QED BY <1>2, <1>4, <1>5, <1>6 DEF IInv, Terminal, Sees, Tells

LEMMA Inductive ==
    ASSUME IInv, [Next]_vars PROVE IInv'
<1>1. CASE Next
  BY <1>1, AddKeeps, MergeKeeps, DeleteKeeps, UpdateKeeps, RemoveNodeKeeps, OthersKeep DEF Next
<1>2. CASE UNCHANGED vars
  <2>1. TypeOK'
    BY <1>2 DEF IInv, TypeOK, vars
  <2>2. State' = State
    BY <1>2 DEF vars, State
  <2>3. /\ Lists(State)' = Lists(State) /\ InMap(State)' = InMap(State)
        /\ \A p : ListedAs(State, p)' = ListedAs(State, p) /\ Holds(State, p)' = Holds(State, p)
    BY <2>2 DEF Lists, InMap, ListedAs, Holds, CacheUpdate, Nothing
  <2>4. Live(State, held) => Live(State, held)'
    BY <1>2, <2>2 DEF Live, InData, vars
  <2>5. Terminal(State, unseen)'
    BY <1>2, <2>3 DEF IInv, Terminal, vars
  <2>6. use_cache' => (Sees(State, unseen, {}) /\ Tells(State, untold))'
    BY <1>2, <2>3 DEF IInv, Sees, Tells, vars
  <2> QED BY <1>2, <2>1, <2>4, <2>5, <2>6 DEF IInv, vars
<1> QED BY <1>1, <1>2

LEMMA Always == Spec => []IInv
<1>1. Init => IInv
  BY Initially
<1>2. IInv /\ [Next]_vars => IInv'
  BY Inductive
<1> QED BY <1>1, <1>2, PTL DEF Spec

\* No path of the map is above another, but where one of the two came in unseen by
\* the cache (__setitem__ of path_node_map.py).
THEOREM PathsAreTerminal == Spec => []TerminalOnly
<1>1. IInv => TerminalOnly
  BY DEF IInv, TerminalOnly, Terminal, InMap, State
<1> QED BY <1>1, Always, PTL

\* A filter answered from the cache finds what a scan of the dictionary finds, but
\* for the paths that came in unseen or left untold.
THEOREM CacheAgreesWithScan == Spec => []FilterAgrees
<1>1. ASSUME IInv, use_cache, NEW prefix \in Paths
      PROVE  /\ Cached(State, prefix, 0) \subseteq Scanned(State, prefix, 0) \cup untold
             /\ Scanned(State, prefix, 0) \subseteq Cached(State, prefix, 0) \cup unseen
  <2>1. State \in States /\ InMap(State) = DOMAIN data /\ State.data = data
    BY <1>1, StateType DEF IInv, InMap, State
  <2>2. Sees(State, unseen, {}) /\ Tells(State, untold)
    BY <1>1 DEF IInv
  <2>3. Lists(State) \subseteq Paths /\ DOMAIN data \subseteq Paths
    BY <2>1, CacheUpdateIs, StateIs
  <2>4. \A p \in Paths : IsPrefix(prefix, p) <=> Above(prefix, p) \/ p = prefix
    BY <1>1, PrefixAbove
  <2>5. \A p : p \in Cached(State, prefix, 0) <=>
               p \in Lists(State) /\ IsPrefix(prefix, p) /\ Len(p) >= 0
    BY DEF Cached, Lists
  <2>6. \A p \in Paths : Len(p) >= 0
    BY PathIsSequence
  <2>7. \A p : p \in Scanned(State, prefix, 0) <=>
               p \in DOMAIN data /\ ((Above(prefix, p) /\ Len(p) >= 0) \/ p = prefix)
    BY <2>1 DEF Scanned
  <2>8. Lists(State) \ DOMAIN data \subseteq untold
    BY <2>1, <2>2 DEF Tells
  <2>9. DOMAIN data \ unseen \subseteq Lists(State)
    BY <2>1, <2>2 DEF Sees
  <2> QED BY <2>3, <2>4, <2>5, <2>6, <2>7, <2>8, <2>9
<1>2. IInv => FilterAgrees
  BY <1>1 DEF FilterAgrees
<1> QED BY <1>2, Always, PTL

\* What __setitem__ refuses it has reason to: a descendant in the map or in a stale
\* cache, or the path itself where it may not be overwritten.
THEOREM RefusalsAreJustified == Spec => []RefusalJustified
<1>1. ASSUME IInv, NEW o \in Objects, Refused(State, o, overwrite)
      PROVE  \/ \E q \in DOMAIN data \cup untold : Above(o[1], q)
             \/ o[1] \in DOMAIN data /\ ~(overwrite /\ use_cache)
  <2>1. State \in States /\ InMap(State) = DOMAIN data /\ State.data = data
    BY <1>1, StateType DEF IInv, InMap, State
  <2>2. o[1] \in Paths
    BY DEF Paths
  <2>3. ASSUME use_cache, NEW q \in Cached(State, o[1], Len(o[1]) + 1)
        PROVE  q \in DOMAIN data \cup untold /\ Above(o[1], q)
    <3>1. q \in Lists(State) /\ Above(o[1], q)
      BY <2>1, <2>2, <2>3, CachedIs
    <3>2. Tells(State, untold)
      BY <1>1, <2>3 DEF IInv
    <3> QED BY <2>1, <3>1, <3>2 DEF Tells
  <2>4. CASE o[1] \in DOMAIN data /\ ~overwrite
    BY <2>4
  <2>5. CASE Raises(State, o[1], Len(o[1]) + 1)
    BY <2>3, <2>5 DEF Raises
  <2>6. CASE Descendants(State, o[1]) # {} /\ use_cache
    BY <2>3, <2>6 DEF Descendants
  <2>7. CASE Descendants(State, o[1]) # {} /\ ~use_cache
    BY <2>1, <2>7 DEF Descendants, Scanned
  <2> QED BY <1>1, <2>1, <2>4, <2>5, <2>6, <2>7 DEF Refused
<1>2. IInv => RefusalJustified
  BY <1>1 DEF RefusalJustified
<1> QED BY <1>2, Always, PTL

----------------------------------------------------------------------------
(* What leaves the map *)

\* Every path that is in S and not in T is above one of T.
Covered(S, T) == \A p \in S \ T : \E q \in T : Above(p, q)

LEMMA EndData ==
    ASSUME NEW s \in States, NEW h \in SUBSET Objects, NEW behind, NEW merged,
           End(s, h, behind, merged)
    PROVE  DOMAIN data' = InMap(s)
<1>1. Collect(s, h).data = s.data
  BY CollectIs
<1> QED BY <1>1 DEF End, InMap

\* A path that left for one that leaves in its turn has another descendant there.
LEMMA PlaceCovers ==
    ASSUME NEW done, NEW objs \in SUBSET Objects, NEW o \in objs, NEW kept,
           NEW replace \in BOOLEAN, NEW U, NEW K, NEW V,
           held \subseteq Objects, Known(done.s, U, K, V),
           NEW S \in SUBSET Paths, Covered(S, InMap(done.s))
    PROVE  Covered(S, InMap(PlaceNext(done, o, kept, replace, held \cup objs).s))
<1> DEFINE h == held \cup objs
           t == Insert(done.s, o, replace, h)
<1>1. CASE done.raised \/ o[1] \notin kept
  BY <1>1 DEF PlaceNext
<1>2. CASE ~(done.raised \/ o[1] \notin kept)
  <2>1. PlaceNext(done, o, kept, replace, h).s = t
    BY <1>2 DEF PlaceNext
  <2>2. /\ done.s \in States /\ Terminal(done.s, U)
        /\ use_cache => Sees(done.s, U, K)
    BY DEF Known
  <2>3. h \in SUBSET Objects /\ o \in Objects
    OBVIOUS
  <2>4. /\ Refused(done.s, o, replace) => InMap(t) = InMap(done.s)
        /\ ~Refused(done.s, o, replace) =>
              InMap(t) = (InMap(done.s) \ Ancestors(o[1], done.s.data)) \cup {o[1]}
    <3> HIDE DEF h
    <3> HIDE DEF t
    <3>1. ASSUME NEW s \in States, use_cache => Sees(s, U, K), Terminal(s, U)
          PROVE  InMap(Insert(s, o, replace, h)) =
                    IF Refused(s, o, replace) THEN InMap(s)
                    ELSE (InMap(s) \ Ancestors(o[1], s.data)) \cup {o[1]}
      BY <2>3, <3>1, InsertedPaths, Zenon
    <3> QED BY <2>2, <3>1 DEF t
  <2> HIDE DEF t
  <2>5. CASE Refused(done.s, o, replace)
    BY <2>1, <2>4, <2>5
  <2>6. CASE ~Refused(done.s, o, replace)
    <3>1. \A p \in Ancestors(o[1], done.s.data) : Above(p, o[1])
      BY DEF Ancestors
    <3>2. o[1] \in InMap(t) /\ o[1] \in Paths
      BY <2>4, <2>6 DEF Paths
    <3>3. InMap(done.s) \subseteq Paths
      BY <2>2, StateIs DEF InMap
    <3>4. ASSUME NEW p \in S \ InMap(t) PROVE \E q \in InMap(t) : Above(p, q)
      <4>1. CASE p \in InMap(done.s)
        BY <2>4, <2>6, <3>1, <3>2, <3>4, <4>1
      <4>2. CASE p \notin InMap(done.s)
        <5>1. PICK q \in InMap(done.s) : Above(p, q)
          BY <3>4, <4>2 DEF Covered
        <5>2. CASE q \in InMap(t)
          BY <5>1, <5>2
        <5>3. CASE q \notin InMap(t)
          <6>1. Above(q, o[1])
            BY <2>4, <2>6, <3>1, <5>1, <5>3
          <6>2. p \in Paths /\ q \in Paths
            BY <3>3, <5>1
          <6>3. Above(p, o[1])
            BY <3>2, <5>1, <6>1, <6>2, AboveTransitive
          <6> QED BY <3>2, <6>3
        <5> QED BY <5>2, <5>3
      <4> QED BY <4>1, <4>2
    <3> QED BY <2>1, <3>4 DEF Covered
  <2> QED BY <2>5, <2>6
<1> QED BY <1>1, <1>2

LEMMA AddCovers ==
    ASSUME IInv, NEW o \in Objects, Add(o) PROVE Covered(DOMAIN data, DOMAIN data')
<1> DEFINE s == Insert(State, o, overwrite, held \cup {o})
           done == [raised |-> FALSE, s |-> State]
<1>1. TypeOK /\ held \subseteq Objects /\ overwrite \in BOOLEAN /\ State \in States
      /\ InMap(State) = DOMAIN data
  BY StateType DEF IInv, TypeOK, InMap, State
<1>2. Known(State, unseen, {}, untold)
  BY AtTheStart
<1>3. DOMAIN data \subseteq Paths
  BY <1>1, StateIs DEF InMap
<1>4. Covered(DOMAIN data, InMap(done.s))
  BY <1>1 DEF Covered
<1>5. Covered(DOMAIN data, InMap(PlaceNext(done, o, {o[1]}, overwrite, held \cup {o}).s))
  BY <1>1, <1>2, <1>3, <1>4, PlaceCovers
<1>6. PlaceNext(done, o, {o[1]}, overwrite, held \cup {o}).s = s
  BY DEF PlaceNext
<1>7. s \in States
  <2>1. held \cup {o} \in SUBSET Objects
    BY <1>1
  <2>2. Terminal(State, unseen) /\ (use_cache => Sees(State, unseen, {}))
    BY <1>2 DEF Known
  <2> QED BY <1>1, <2>1, <2>2, InsertData
<1> HIDE DEF s
<1>8. PICK h \in Keeping({o}) : End(s, h, Over({o}), {})
  BY DEF Add, s
<1>9. h \in SUBSET Objects
  BY <1>1, <1>8, KeepingIs
<1>10. DOMAIN data' = InMap(s)
  BY <1>7, <1>8, <1>9, EndData
<1> QED BY <1>5, <1>6, <1>10

LEMMA UpdateCovers ==
    ASSUME IInv, NEW o1 \in Objects, NEW o2 \in Objects, NEW replace \in BOOLEAN,
           Update(o1, o2, replace)
    PROVE  Covered(DOMAIN data, DOMAIN data')
<1> DEFINE objs == {o1, o2}
           kept == KeepTerminal({o1[1], o2[1]})
           start == [raised |-> FALSE, s |-> State]
           first == PlaceNext(start, o1, kept, replace, held \cup objs)
           both == IF o1 = o2 THEN first
                   ELSE PlaceNext(first, o2, kept, replace, held \cup objs)
           K == held \ objs
           W == untold \cup Over(objs)
<1>1. TypeOK /\ held \subseteq Objects /\ State \in States /\ InMap(State) = DOMAIN data
  BY StateType DEF IInv, TypeOK, InMap, State
<1>2. o1[1] = o2[1] => o1 = o2
  BY DEF Update
<1>3. Known(start.s, unseen, K, W) /\ Covered(DOMAIN data, InMap(start.s))
  <2>1. start.s = State
    OBVIOUS
  <2>2. Known(State, unseen, K, W)
    BY AtTheStart DEF Known, Tells
  <2>3. Covered(DOMAIN data, InMap(State))
    BY <1>1 DEF Covered
  <2> QED BY <2>1, <2>2, <2>3
<1>4. objs \in SUBSET Objects /\ o1 \in objs /\ o2 \in objs
      /\ (\A q \in objs : q[1] = o1[1] => q = o1) /\ (\A q \in objs : q[1] = o2[1] => q = o2)
  BY <1>2
<1>5. DOMAIN data \in SUBSET Paths
  BY <1>1, StateIs DEF InMap
<1> HIDE DEF kept, start, objs
<1>6. Known(first.s, unseen, K, W)
  BY <1>1, <1>3, <1>4, PlaceKeeps
<1>7. Covered(DOMAIN data, InMap(first.s))
  BY <1>1, <1>3, <1>4, <1>5, PlaceCovers
<1> HIDE DEF first
<1>8. Known(both.s, unseen, K, W)
  BY <1>1, <1>4, <1>6, PlaceKeeps
<1>9. Covered(DOMAIN data, InMap(both.s))
  BY <1>1, <1>4, <1>5, <1>6, <1>7, PlaceCovers
<1>10. PICK h \in Keeping(objs) : End(both.s, h, Over(objs), {})
  BY DEF Update, objs, kept, start, first
<1> HIDE DEF both
<1>11. h \in SUBSET Objects
  BY <1>1, <1>4, <1>10, KeepingIs
<1>12. DOMAIN data' = InMap(both.s)
  BY <1>8, <1>10, <1>11, EndData DEF Known
<1> QED BY <1>9, <1>12

\* The actions that take one path out of the map, or none.
LEMMA OthersLeave ==
    ASSUME IInv,
           \/ \E o \in Objects : Merge(o) \/ Delete(o) \/ Take(o) \/ Drop(o)
           \/ \E p \in Paths : RemoveNode(p)
           \/ Filter
    PROVE  DOMAIN data \subseteq DOMAIN data' \/ \E p : DOMAIN data' = DOMAIN data \ {p}
<1>1. TypeOK /\ held \in SUBSET Objects /\ State \in States
      /\ InMap(State) = DOMAIN data /\ State.data = data
  BY StateType DEF IInv, TypeOK, InMap, State
<1>2. ASSUME NEW o \in Objects, Merge(o) PROVE DOMAIN data \subseteq DOMAIN data'
  <2>1. PICK v, h : End([State EXCEPT !.data = Entered(@, o[1], v)], h, {}, {o[1]})
    BY <1>2 DEF Merge
  <2>2. data' = Entered(data, o[1], v)
    <3>1. [State EXCEPT !.data = Entered(@, o[1], v)].data = Entered(data, o[1], v)
      BY DEF State
    <3> QED BY <2>1, <3>1 DEF End, Collect
  <2>3. DOMAIN Entered(data, o[1], v) = DOMAIN data \cup {o[1]}
    BY EnteredIs
  <2> QED BY <2>2, <2>3
<1>3. ASSUME NEW o \in Objects, Delete(o) PROVE DOMAIN data' = DOMAIN data \ {o[1]}
  <2> DEFINE without == [State EXCEPT !.data = Restrict(@, DOMAIN @ \ {o[1]})]
             s == Collect(without, held \cup {o})
             told == IF use_cache THEN Note(s, o, "remove") ELSE s
  <2>1. without \in States /\ InMap(without) = DOMAIN data \ {o[1]}
    BY <1>1, Without
  <2> HIDE DEF without
  <2>2. s \in States /\ InMap(s) = InMap(without)
    <3>1. held \cup {o} \in SUBSET Objects
      BY <1>1
    <3> QED BY <2>1, <3>1, CollectIs, CollectLists
  <2> HIDE DEF s
  <2>3. told \in States /\ InMap(told) = InMap(s)
    <3>1. Note(s, o, "remove") \in States /\ InMap(Note(s, o, "remove")) = InMap(s)
      BY <2>2, NoteLists
    <3> QED BY <2>2, <3>1
  <2>4. PICK h \in Keeping({o}) : End(told, h, {}, {})
    BY <1>3 DEF Delete, s, without
  <2> HIDE DEF told
  <2>5. h \in SUBSET Objects
    BY <1>1, <2>4, KeepingIs
  <2>6. DOMAIN data' = InMap(told)
    BY <2>3, <2>4, <2>5, EndData
  <2> QED BY <2>1, <2>2, <2>3, <2>6
<1>4. ASSUME NEW p \in Paths, RemoveNode(p) PROVE DOMAIN data' = DOMAIN data \ {p}
  <2> DEFINE s == [State EXCEPT !.data = Restrict(@, DOMAIN @ \ {p})]
  <2>1. s \in States /\ InMap(s) = DOMAIN data \ {p}
    BY <1>1, Without
  <2>2. End(s, held, {p}, {})
    BY <1>4 DEF RemoveNode
  <2> HIDE DEF s
  <2>3. DOMAIN data' = InMap(s)
    BY <1>1, <2>1, <2>2, EndData
  <2> QED BY <2>1, <2>3
<1>5. ASSUME Filter \/ \E o \in Objects : Take(o) \/ Drop(o) PROVE DOMAIN data' = DOMAIN data
  <2>1. PICK s \in {State, CacheUpdate(State)}, h \in SUBSET Objects : End(s, h, {}, {})
    BY <1>1, <1>5 DEF Filter, Take, Drop
  <2>2. s \in States /\ InMap(s) = DOMAIN data
    BY <1>1, <2>1, CacheUpdateIs, UpdateLists
  <2> QED BY <2>1, <2>2, EndData
<1> QED BY <1>2, <1>3, <1>4, <1>5

\* A path leaves the map alone, or for a descendant that is there at the end of
\* the call, however many nodes the call places.
THEOREM PathsLeaveForDescendants == Spec => LeavesForDescendants
<1> DEFINE A == \A p \in DOMAIN data \ DOMAIN data' :
                   \/ DOMAIN data' = DOMAIN data \ {p}
                   \/ \E q \in DOMAIN data' : Above(p, q)
<1>1. ASSUME IInv, Next PROVE A
  <2>1. CASE \E o \in Objects : Add(o)
    BY <1>1, <2>1, AddCovers DEF Covered
  <2>2. CASE \E o1, o2 \in Objects, replace \in BOOLEAN : Update(o1, o2, replace)
    BY <1>1, <2>2, UpdateCovers DEF Covered
  <2>3. CASE \/ \E o \in Objects : Merge(o) \/ Delete(o) \/ Take(o) \/ Drop(o)
             \/ \E p \in Paths : RemoveNode(p)
             \/ Filter
    <3>1. DOMAIN data \subseteq DOMAIN data' \/ \E p : DOMAIN data' = DOMAIN data \ {p}
      BY <1>1, <2>3, OthersLeave
    <3> QED BY <3>1
  <2> QED BY <1>1, <2>1, <2>2, <2>3 DEF Next
<1>2. IInv /\ [Next]_vars => [A]_vars
  BY <1>1
<1> QED BY <1>2, Always, PTL DEF Spec, LeavesForDescendants
=============================================================================
