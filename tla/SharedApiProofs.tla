--------------------------- MODULE SharedApiProofs ---------------------------
(***************************************************************************)
(* Proofs about SharedApi, for any threads, programs, providers and        *)
(* configurations: what is left when blocks and temporary providers are    *)
(* over (Restored), that a provider has one limiter (OneLimiter), that a   *)
(* request is the one whose cached response was looked up                  *)
(* (RequestAsPrepared), and that a workflow returns the records of its own *)
(* query (WorkflowResultOwn).                                              *)
(***************************************************************************)
EXTENDS SharedApi, FiniteSetTheorems, SequenceTheorems, TLAPS

----------------------------------------------------------------------------
(* Sequences of anything *)

\* A sequence, of whatever.
Listed(s) == s \in Seq(ToSet(s))

LEMMA ListedIs ==
    ASSUME NEW s, Listed(s)
    PROVE  Len(s) \in Nat /\ DOMAIN s = 1..Len(s) /\ (s # <<>> <=> Len(s) > 0)
  BY EmptySeq DEF Listed

LEMMA SeqListed ==
    ASSUME NEW S, NEW s \in Seq(S)
    PROVE  Listed(s)
<1>1. s \in [1..Len(s) -> ToSet(s)] /\ Len(s) \in Nat
  BY DEF ToSet
<1> QED BY <1>1, SeqDef DEF Listed

LEMMA TailListed ==
    ASSUME NEW s, Listed(s), s # <<>>
    PROVE  /\ Listed(Tail(s)) /\ Len(Tail(s)) = Len(s) - 1
           /\ \A i \in 1..(Len(s) - 1) : Tail(s)[i] = s[i + 1]
           /\ Head(s) = s[1]
<1>1. /\ Tail(s) \in Seq(ToSet(s)) /\ Len(Tail(s)) = Len(s) - 1
      /\ \A i \in 1..Len(Tail(s)) : Tail(s)[i] = s[i + 1]
  BY HeadTailProperties DEF Listed
<1>2. Head(s) = s[1]
  BY DEF Listed
<1> QED BY <1>1, <1>2, SeqListed

LEMMA AppendListed ==
    ASSUME NEW s, NEW x, Listed(s)
    PROVE  /\ Listed(Append(s, x)) /\ Len(Append(s, x)) = Len(s) + 1
           /\ \A i \in 1..Len(s) : Append(s, x)[i] = s[i]
           /\ Append(s, x)[Len(s) + 1] = x
<1> DEFINE S == ToSet(s) \cup {x}
<1>1. s \in Seq(S)
  BY SeqMonotonic DEF Listed
<1>2. Append(s, x) \in Seq(S)
  BY <1>1
<1> HIDE DEF S
<1>3. /\ Len(Append(s, x)) = Len(s) + 1
      /\ \A i \in 1..Len(s) : Append(s, x)[i] = s[i]
      /\ Append(s, x)[Len(s) + 1] = x
  BY <1>1 DEF S
<1> QED BY <1>2, <1>3, SeqListed

LEMMA FrontListed ==
    ASSUME NEW s, Listed(s), s # <<>>
    PROVE  /\ Listed(Front(s)) /\ Len(Front(s)) = Len(s) - 1
           /\ \A i \in 1..(Len(s) - 1) : Front(s)[i] = s[i]
           /\ Last(s) = s[Len(s)]
<1>1. Len(s) \in Nat /\ Len(s) >= 1 /\ Last(s) = s[Len(s)]
  BY ListedIs DEF Last
<1>2. \A i \in 1..(Len(s) - 1) : s[i] \in ToSet(s)
  BY <1>1, ListedIs DEF ToSet
<1>3. /\ Front(s) \in Seq(ToSet(s)) /\ Len(Front(s)) = Len(s) - 1
      /\ \A i \in 1..(Len(s) - 1) : Front(s)[i] = s[i]
  <2> DEFINE n == Len(s) - 1
  <2>1. n \in Nat /\ Front(s) = SubSeq(s, 1, n)
    BY <1>1 DEF Front
  <2>2. \A i \in 1..n : s[i] \in ToSet(s)
    BY <1>2
  <2> HIDE DEF n
  <2>3. /\ SubSeq(s, 1, n) \in Seq(ToSet(s)) /\ Len(SubSeq(s, 1, n)) = n
        /\ \A i \in 1..n : SubSeq(s, 1, n)[i] = s[i]
    BY <2>1, <2>2, SubSeqProperties
  <2> QED BY <2>1, <2>3 DEF n
<1> QED BY <1>1, <1>3, SeqListed

LEMMA ConsListed ==
    ASSUME NEW o, NEW s, Listed(s)
    PROVE  /\ Listed(<<o>> \o s) /\ Len(<<o>> \o s) = Len(s) + 1 /\ <<o>> \o s # <<>>
           /\ Head(<<o>> \o s) = o /\ Tail(<<o>> \o s) = s
           /\ \A i \in 1..Len(s) : (<<o>> \o s)[i + 1] = s[i]
<1> DEFINE S == ToSet(s) \cup {o}
           c == <<o>> \o s
<1>1. s \in Seq(S) /\ <<o>> \in Seq(S) /\ Len(<<o>>) = 1
  BY SeqMonotonic DEF Listed
<1>2. /\ c \in Seq(S) /\ Len(c) = Len(s) + 1 /\ Len(s) \in Nat
      /\ \A i \in 1..(Len(s) + 1) : c[i] = IF i <= 1 THEN <<o>>[i] ELSE s[i - 1]
  BY <1>1, ConcatProperties
<1>3. Listed(c)
  BY <1>2, SeqListed
<1>4. c # <<>>
  BY <1>2, ListedIs, <1>3
<1>5. \A i \in 1..Len(s) : c[i + 1] = s[i]
  BY <1>2
<1>6. Head(c) = o
  BY <1>2, <1>3, <1>4, TailListed
<1>7. /\ Listed(Tail(c)) /\ Len(Tail(c)) = Len(s)
      /\ \A i \in 1..Len(s) : Tail(c)[i] = s[i]
  <2>1. /\ Listed(Tail(c)) /\ Len(Tail(c)) = Len(c) - 1
        /\ \A i \in 1..(Len(c) - 1) : Tail(c)[i] = c[i + 1]
    BY <1>3, <1>4, TailListed
  <2> HIDE DEF c
  <2> QED BY <1>2, <1>5, <2>1
<1>8. Tail(c) \in Seq(S)
  BY <1>2, <1>4, HeadTailProperties
<1>9. Tail(c) = s
  BY <1>1, <1>7, <1>8, SeqEqual
<1> QED BY <1>2, <1>3, <1>4, <1>5, <1>6, <1>9

LEMMA ConsMore ==
    ASSUME NEW u, NEW s, Listed(u), u # <<>>, Listed(s)
    PROVE  u \o s = <<Head(u)>> \o (Tail(u) \o s)
<1>1. Listed(Tail(u)) /\ Len(Tail(u)) = Len(u) - 1 /\ Head(u) = u[1]
  BY TailListed
<1> DEFINE S == ToSet(s) \cup ToSet(u) \cup ToSet(Tail(u)) \cup {Head(u)}
<1>2. s \in Seq(S) /\ u \in Seq(S) /\ Tail(u) \in Seq(S) /\ <<Head(u)>> \in Seq(S)
  BY <1>1, SeqMonotonic DEF Listed
<1> HIDE DEF S
<1>3. <<Head(u)>> \o Tail(u) = u
  <2> DEFINE c == <<Head(u)>> \o Tail(u)
  <2>1. /\ c \in Seq(S) /\ Len(c) = 1 + Len(Tail(u))
        /\ \A i \in 1..(1 + Len(Tail(u))) :
              c[i] = IF i <= 1 THEN <<Head(u)>>[i] ELSE Tail(u)[i - 1]
    BY <1>2, ConcatProperties
  <2>2. \A i \in 1..(Len(u) - 1) : Tail(u)[i] = u[i + 1]
    BY TailListed
  <2>3. Len(u) \in Nat /\ <<Head(u)>>[1] = u[1]
    BY <1>1, ListedIs
  <2> HIDE DEF c
  <2>4. \A i \in 1..Len(u) : c[i] = u[i]
    BY <1>1, <2>1, <2>2, <2>3
  <2> QED BY <1>1, <1>2, <2>1, <2>3, <2>4, SeqEqual DEF c
<1> QED BY <1>2, <1>3, ConcatAssociative

\* Four or five operations before others, one at a time.
InBlock(o, p, q, r, ops)     == <<o, p, q, r>> \o ops
Enclosed(o, p, q, r, z, ops) == <<o, p, q, r, z>> \o ops
Four(o, p, q, r, ops)        == <<o>> \o (<<p>> \o (<<q>> \o (<<r>> \o ops)))

LEMMA ConsLists ==
    ASSUME NEW s, NEW a, NEW b, NEW c, NEW d, NEW e, Listed(s)
    PROVE  /\ InBlock(a, b, c, d, s) = Four(a, b, c, d, s)
           /\ Enclosed(a, b, c, d, e, s) = Four(a, b, c, d, <<e>> \o s)
<1>1. \A x, y : <<x, y>> \o s = <<x>> \o (<<y>> \o s)
  <2> SUFFICES ASSUME NEW x, NEW y, NEW u, u = <<x, y>>
               PROVE  u \o s = <<x>> \o (<<y>> \o s)
    OBVIOUS
  <2>1. u \in Seq({x, y}) /\ u # <<>> /\ Head(u) = x /\ Tail(u) = <<y>>
    OBVIOUS
  <2>2. Listed(u)
    BY <2>1, SeqListed
  <2>3. u \o s = <<Head(u)>> \o (Tail(u) \o s)
    BY <2>1, <2>2, ConsMore
  <2> QED BY <2>1, <2>3
<1>2. \A x, y, z : <<x, y, z>> \o s = <<x>> \o (<<y, z>> \o s)
  <2> SUFFICES ASSUME NEW x, NEW y, NEW z, NEW u, u = <<x, y, z>>
               PROVE  u \o s = <<x>> \o (<<y, z>> \o s)
    OBVIOUS
  <2>1. u \in Seq({x, y, z}) /\ u # <<>> /\ Head(u) = x /\ Tail(u) = <<y, z>>
    OBVIOUS
  <2>2. Listed(u)
    BY <2>1, SeqListed
  <2>3. u \o s = <<Head(u)>> \o (Tail(u) \o s)
    BY <2>1, <2>2, ConsMore
  <2> QED BY <2>1, <2>3
<1>3. ASSUME NEW x, NEW y, NEW z, NEW w
      PROVE  <<x, y, z, w>> \o s = <<x>> \o (<<y, z, w>> \o s)
  <2> SUFFICES ASSUME NEW u, u = <<x, y, z, w>>
               PROVE  u \o s = <<x>> \o (<<y, z, w>> \o s)
    OBVIOUS
  <2>1. u \in Seq({x, y, z, w}) /\ u # <<>> /\ Head(u) = x /\ Tail(u) = <<y, z, w>>
    OBVIOUS
  <2>2. Listed(u)
    BY <2>1, SeqListed
  <2>3. u \o s = <<Head(u)>> \o (Tail(u) \o s)
    BY <2>1, <2>2, ConsMore
  <2> QED BY <2>1, <2>3
<1>4. <<a, b, c, d, e>> \o s = <<a>> \o (<<b, c, d, e>> \o s)
  <2> SUFFICES ASSUME NEW u, u = <<a, b, c, d, e>>
               PROVE  u \o s = <<a>> \o (<<b, c, d, e>> \o s)
    OBVIOUS
  <2>1. u \in Seq({a, b, c, d, e}) /\ u # <<>> /\ Head(u) = a /\ Tail(u) = <<b, c, d, e>>
    OBVIOUS
  <2>2. Listed(u)
    BY <2>1, SeqListed
  <2>3. u \o s = <<Head(u)>> \o (Tail(u) \o s)
    BY <2>1, <2>2, ConsMore
  <2> QED BY <2>1, <2>3
<1>5. <<a, b, c, d>> \o s = <<a>> \o (<<b>> \o (<<c>> \o (<<d>> \o s)))
  <2>1. <<a, b, c, d>> \o s = <<a>> \o (<<b, c, d>> \o s)
    BY <1>3, Zenon
  <2>2. <<b, c, d>> \o s = <<b>> \o (<<c, d>> \o s)
    BY <1>2, Zenon
  <2>3. <<c, d>> \o s = <<c>> \o (<<d>> \o s)
    BY <1>1, Zenon
  <2> QED BY <2>1, <2>2, <2>3, Zenon
<1>6. <<b, c, d, e>> \o s = <<b>> \o (<<c>> \o (<<d>> \o (<<e>> \o s)))
  <2>1. <<b, c, d, e>> \o s = <<b>> \o (<<c, d, e>> \o s)
    BY <1>3, Zenon
  <2>2. <<c, d, e>> \o s = <<c>> \o (<<d, e>> \o s)
    BY <1>2, Zenon
  <2>3. <<d, e>> \o s = <<d>> \o (<<e>> \o s)
    BY <1>1, Zenon
  <2> QED BY <2>1, <2>2, <2>3, Zenon
<1> QED BY <1>4, <1>5, <1>6, Zenon DEF InBlock, Enclosed, Four

LEMMA WithoutLast ==
    ASSUME NEW s, NEW x, Listed(s), s # <<>>, s[Len(s)] = x,
           \A i \in 1..Len(s) : s[i] = x => i = Len(s)
    PROVE  /\ Listed(Without(s, x)) /\ Len(Without(s, x)) = Len(s) - 1
           /\ \A i \in 1..(Len(s) - 1) : Without(s, x)[i] = s[i]
<1> DEFINE l == Len(s)
           n == l - 1
           k == CHOOSE i \in DOMAIN s : s[i] = x
<1>1. l \in Nat /\ l >= 1 /\ DOMAIN s = 1..l /\ n \in Nat
  BY ListedIs
<1>2. k = l
  <2>1. l \in DOMAIN s /\ s[l] = x
    <3>1. s[l] = x
      OBVIOUS
    <3> HIDE DEF l, k
    <3> QED BY <1>1, <3>1
  <2>2. k \in DOMAIN s /\ s[k] = x
    BY <2>1, Zenon
  <2> HIDE DEF k, l
  <2> QED BY <1>1, <2>2 DEF l
<1>3. Without(s, x) = SubSeq(s, 1, k - 1) \o SubSeq(s, k + 1, l)
  BY DEF Without, RemoveAt
<1> HIDE DEF k
<1>4. Without(s, x) = SubSeq(s, 1, n) \o SubSeq(s, l + 1, l)
  BY <1>2, <1>3
<1>5. \A i \in 1..n : s[i] \in ToSet(s)
  <2>1. \A i \in DOMAIN s : s[i] \in ToSet(s)
    BY DEF ToSet
  <2> HIDE DEF l
  <2>2. \A i \in 1..n : i \in DOMAIN s
    BY <1>1
  <2> QED BY <2>1, <2>2
<1> HIDE DEF l, n
<1>6. /\ SubSeq(s, 1, n) \in Seq(ToSet(s)) /\ Len(SubSeq(s, 1, n)) = n
      /\ \A i \in 1..n : SubSeq(s, 1, n)[i] = s[i]
  BY <1>1, <1>5, SubSeqProperties
<1>7. SubSeq(s, l + 1, l) = <<>>
  <2> DEFINE r == SubSeq(s, l + 1, l)
  <2>1. \A i \in (l + 1)..l : s[i] \in ToSet(s)
    BY <1>1
  <2>2. r \in Seq(ToSet(s)) /\ Len(r) = 0
    BY <1>1, <2>1, SubSeqProperties
  <2> HIDE DEF r
  <2>3. r = <<>>
    BY <2>2, EmptySeq
  <2> QED BY <2>3 DEF r
<1>8. Without(s, x) = SubSeq(s, 1, n)
  <2> DEFINE f == SubSeq(s, 1, n)
  <2>1. f \in Seq(ToSet(s)) /\ Without(s, x) = f \o <<>>
    BY <1>4, <1>6, <1>7
  <2> HIDE DEF f
  <2>2. f \o <<>> = f
    BY <2>1, ConcatEmptySeq
  <2> QED BY <2>1, <2>2 DEF f
<1> QED BY <1>6, <1>8, SeqListed DEF n, l

----------------------------------------------------------------------------
(* Programs *)

\* What an operation does to the number of open blocks, which it may begin with
\* n of; one that follows another in a program is none of those that a
\* construction or an addition leaves to do.
Opens(o) == IF o.op = "open" THEN 1 ELSE IF o.op = "close" THEN -1 ELSE 0
Fits(o, n) ==
    /\ n \in Nat /\ n + Opens(o) \in Nat
    /\ o.op \in {"temporary", "restore", "add", "create"} => n = 0
    /\ o.op = "temporary" => Registrable(o.provider.name, o.provider)
Plain(o) == o.op \notin {"restore", "create"}

\* A program that can follow n open blocks, and leaves none; d counts them.
Rest(ops, n) ==
    /\ Listed(ops)
    /\ \E d \in [0..Len(ops) -> Nat] :
          /\ d[0] = n /\ d[Len(ops)] = 0
          /\ \A i \in 1..Len(ops) :
                Plain(ops[i]) /\ Fits(ops[i], d[i - 1]) /\ d[i] = d[i - 1] + Opens(ops[i])

\* The same of a program whose first operation need not be plain.
Ready(ops, n) ==
    IF ops = <<>> THEN n = 0
    ELSE Listed(ops) /\ Fits(Head(ops), n) /\ Rest(Tail(ops), n + Opens(Head(ops)))

LEMMA RestReady ==
    ASSUME NEW ops, NEW n, Rest(ops, n)
    PROVE  Ready(ops, n) /\ (ops # <<>> => Plain(Head(ops)))
<1>1. PICK d \in [0..Len(ops) -> Nat] :
          /\ d[0] = n /\ d[Len(ops)] = 0
          /\ \A i \in 1..Len(ops) :
                Plain(ops[i]) /\ Fits(ops[i], d[i - 1]) /\ d[i] = d[i - 1] + Opens(ops[i])
  BY DEF Rest
<1>2. CASE ops = <<>>
  <2>1. Len(ops) = 0
    BY <1>2
  <2> QED BY <1>1, <1>2, <2>1 DEF Ready
<1>3. CASE ops # <<>>
  <2> DEFINE l == Len(ops)
             e == [i \in 0..(l - 1) |-> d[i + 1]]
  <2>1. Listed(ops) /\ l \in Nat /\ l >= 1
    BY <1>3, ListedIs DEF Rest
  <2>2. /\ Listed(Tail(ops)) /\ Len(Tail(ops)) = l - 1 /\ Head(ops) = ops[1]
        /\ \A i \in 1..(l - 1) : Tail(ops)[i] = ops[i + 1]
    BY <1>3, <2>1, TailListed
  <2>3. Fits(ops[1], n) /\ Plain(ops[1]) /\ d[1] = n + Opens(ops[1])
    BY <1>1, <2>1
  <2>4. e \in [0..(l - 1) -> Nat] /\ e[0] = d[1] /\ e[l - 1] = 0
    BY <1>1, <2>1
  <2>5. ASSUME NEW i \in 1..(l - 1)
        PROVE  /\ Plain(Tail(ops)[i]) /\ Fits(Tail(ops)[i], e[i - 1])
               /\ e[i] = e[i - 1] + Opens(Tail(ops)[i])
    <3>1. Tail(ops)[i] = ops[i + 1] /\ e[i - 1] = d[i] /\ e[i] = d[i + 1]
      BY <2>1, <2>2
    <3>2. /\ Plain(ops[i + 1]) /\ Fits(ops[i + 1], d[(i + 1) - 1])
          /\ d[i + 1] = d[(i + 1) - 1] + Opens(ops[i + 1])
      BY <1>1, <2>1
    <3>3. (i + 1) - 1 = i
      BY <2>1
    <3> QED BY <3>1, <3>2, <3>3
  <2> HIDE DEF e
  <2>6. Rest(Tail(ops), d[1])
    BY <2>2, <2>4, <2>5 DEF Rest
  <2> QED BY <1>3, <2>1, <2>2, <2>3, <2>6 DEF Ready
<1> QED BY <1>2, <1>3

LEMMA RestCons ==
    ASSUME NEW ops, NEW o, NEW n, Fits(o, n), Rest(ops, n + Opens(o))
    PROVE  /\ Ready(<<o>> \o ops, n)
           /\ Plain(o) => Rest(<<o>> \o ops, n)
<1> DEFINE c == <<o>> \o ops
           l == Len(ops)
<1>1. /\ Listed(ops) /\ Listed(c) /\ Len(c) = l + 1 /\ c # <<>>
      /\ Head(c) = o /\ Tail(c) = ops /\ l \in Nat /\ n \in Nat
      /\ \A i \in 1..l : c[i + 1] = ops[i]
  <2>1. Listed(ops) /\ n \in Nat
    BY DEF Rest, Fits
  <2>2. l \in Nat
    BY <2>1, ListedIs
  <2> QED BY <2>1, <2>2, ConsListed
<1>2. Ready(c, n)
  <2> HIDE DEF c
  <2> QED BY <1>1 DEF Ready
<1>3. ASSUME Plain(o) PROVE Rest(c, n)
  <2>1. PICK d \in [0..l -> Nat] :
            /\ d[0] = n + Opens(o) /\ d[l] = 0
            /\ \A i \in 1..l :
                  Plain(ops[i]) /\ Fits(ops[i], d[i - 1]) /\ d[i] = d[i - 1] + Opens(ops[i])
    BY DEF Rest
  <2> DEFINE e == [i \in 0..(l + 1) |-> IF i = 0 THEN n ELSE d[i - 1]]
  <2>2. e \in [0..(l + 1) -> Nat] /\ e[0] = n /\ e[l + 1] = 0 /\ e[1] = n + Opens(o)
    BY <1>1, <2>1
  <2>3. c[1] = o
    BY <1>1, TailListed
  <2>4. ASSUME NEW i \in 1..(l + 1)
        PROVE  Plain(c[i]) /\ Fits(c[i], e[i - 1]) /\ e[i] = e[i - 1] + Opens(c[i])
    <3>1. CASE i = 1
      BY <1>3, <2>2, <2>3, <3>1
    <3>2. CASE i # 1
      <4> DEFINE j == i - 1
      <4>1. j \in 1..l /\ i = j + 1
        BY <1>1, <3>2
      <4> HIDE DEF j
      <4>2. c[i] = ops[j] /\ e[i] = d[j] /\ e[i - 1] = d[j - 1]
        BY <1>1, <4>1
      <4>3. Plain(ops[j]) /\ Fits(ops[j], d[j - 1]) /\ d[j] = d[j - 1] + Opens(ops[j])
        BY <2>1, <4>1
      <4> HIDE DEF e, c
      <4> QED BY <4>2, <4>3
    <3> QED BY <3>1, <3>2
  <2> HIDE DEF e, c
  <2> QED BY <1>1, <2>2, <2>4 DEF Rest
<1> QED BY <1>2, <1>3

\* Counting the operations of one kind.
Many(ops, x, i) == Cardinality({j \in 1..i : ops[j].op = x})

LEMMA CountOne ==
    ASSUME NEW ops, NEW x, NEW i \in Nat
    PROVE  /\ Many(ops, x, i) \in Nat
           /\ Many(ops, x, i + 1) = Many(ops, x, i) + (IF ops[i + 1].op = x THEN 1 ELSE 0)
<1> DEFINE S == {j \in 1..i : ops[j].op = x}
           T == {j \in 1..(i + 1) : ops[j].op = x}
<1>1. IsFiniteSet(S) /\ Cardinality(S) \in Nat
  <2>1. IsFiniteSet(1..i) /\ S \in SUBSET (1..i)
    BY FS_Interval
  <2> QED BY <2>1, FS_Subset, FS_CardinalityType
<1>2. (i + 1) \notin S /\ T = (IF ops[i + 1].op = x THEN S \cup {i + 1} ELSE S)
  OBVIOUS
<1> HIDE DEF S, T
<1>3. Cardinality(S \cup {i + 1}) = Cardinality(S) + 1
  BY <1>1, <1>2, FS_AddElement
<1>4. Cardinality(T) = Cardinality(S) + (IF ops[i + 1].op = x THEN 1 ELSE 0)
  BY <1>1, <1>2, <1>3
<1> QED BY <1>1, <1>4 DEF S, T, Many

LEMMA DepthStep ==
    ASSUME NEW ops
    PROVE  /\ Depth(ops, 0) = 0
           /\ \A i \in Nat : /\ Depth(ops, i) \in Int
                             /\ Depth(ops, i + 1) = Depth(ops, i) + Opens(ops[i + 1])
<1>1. Depth(ops, 0) = 0
  <2>1. /\ {j \in 1..0 : ops[j].op = "open"} = {}
        /\ {j \in 1..0 : ops[j].op = "close"} = {}
    OBVIOUS
  <2>2. Cardinality({j \in 1..0 : ops[j].op = "open"}) = 0
    BY <2>1, FS_EmptySet
  <2>3. Cardinality({j \in 1..0 : ops[j].op = "close"}) = 0
    BY <2>1, FS_EmptySet
  <2> QED BY <2>2, <2>3 DEF Depth
<1>2. ASSUME NEW i \in Nat
      PROVE  /\ Depth(ops, i) \in Int
             /\ Depth(ops, i + 1) = Depth(ops, i) + Opens(ops[i + 1])
  <2> DEFINE a == Many(ops, "open", i)
             b == Many(ops, "close", i)
             aa == Many(ops, "open", i + 1)
             bb == Many(ops, "close", i + 1)
  <2>1. a \in Nat /\ aa = a + (IF ops[i + 1].op = "open" THEN 1 ELSE 0)
    BY CountOne
  <2>2. b \in Nat /\ bb = b + (IF ops[i + 1].op = "close" THEN 1 ELSE 0)
    BY CountOne
  <2>3. Depth(ops, i) = a - b /\ Depth(ops, i + 1) = aa - bb
    BY DEF Depth, Many
  <2> HIDE DEF a, b, aa, bb
  <2>4. CASE ops[i + 1].op = "open"
    BY <2>1, <2>2, <2>3, <2>4 DEF Opens
  <2>5. CASE ops[i + 1].op = "close"
    BY <2>1, <2>2, <2>3, <2>5 DEF Opens
  <2>6. CASE ops[i + 1].op \notin {"open", "close"}
    BY <2>1, <2>2, <2>3, <2>6 DEF Opens
  <2> QED BY <2>4, <2>5, <2>6
<1> QED BY <1>1, <1>2

LEMMA ProgramRest ==
    ASSUME NEW ops, Program(ops)
    PROVE  Rest(ops, 0)
<1> DEFINE l == Len(ops)
           d == [i \in 0..l |-> Depth(ops, i)]
<1>1. Listed(ops) /\ l \in Nat /\ DOMAIN ops = 1..l
  <2>1. Listed(ops)
    BY DEF Program, Listed
  <2> QED BY <2>1, ListedIs
<1>2. \A i \in 1..l :
         /\ ops[i].op \in {"open", "close", "search", "workflow", "temporary", "add"}
         /\ Depth(ops, i) \in Nat
         /\ ops[i].op \in {"temporary", "add"} => Depth(ops, i) = 0
         /\ ops[i].op = "temporary" => Registrable(ops[i].provider.name, ops[i].provider)
  BY <1>1 DEF Program
<1>3. d \in [0..l -> Nat] /\ d[0] = 0 /\ d[l] = 0
  <2>1. \A i \in 0..l : Depth(ops, i) \in Nat
    BY <1>1, <1>2, DepthStep
  <2>2. Depth(ops, l) = 0
    BY DEF Program
  <2> QED BY <1>1, <2>1, <2>2, DepthStep
<1>4. ASSUME NEW i \in 1..l
      PROVE  Plain(ops[i]) /\ Fits(ops[i], d[i - 1]) /\ d[i] = d[i - 1] + Opens(ops[i])
  <2> DEFINE k == i - 1
  <2>1. k \in Nat /\ k \in 0..l /\ i \in 0..l /\ k + 1 = i
    BY <1>1
  <2> HIDE DEF k
  <2>2. Depth(ops, k + 1) = Depth(ops, k) + Opens(ops[k + 1])
    BY <2>1, DepthStep
  <2>3. d[i] = d[k] + Opens(ops[i]) /\ d[k] \in Nat /\ d[i] \in Nat /\ d[i] = Depth(ops, i)
    BY <1>3, <2>1, <2>2
  <2> HIDE DEF d
  <2>4. ops[i].op \in {"temporary", "restore", "add", "create"} => Opens(ops[i]) = 0 /\ d[i] = 0
    BY <1>2, <2>3 DEF Opens
  <2>5. Fits(ops[i], d[k])
    BY <1>2, <2>3, <2>4 DEF Fits
  <2>6. Plain(ops[i])
    BY <1>2 DEF Plain
  <2> QED BY <2>3, <2>5, <2>6 DEF k
<1> HIDE DEF d
<1> QED BY <1>1, <1>3, <1>4 DEF Rest

----------------------------------------------------------------------------
(* What a thread has left to do fits the blocks it is in.                   *)

\* The blocks that the operations left begin with, when the SearchAPIs of `sv'
\* are to be put back: in the middle of an opening there is one already.
Level(ops, sv, h) == IF h /\ ops # <<>> /\ Head(ops).op = "open" THEN Len(sv) - 1 ELSE Len(sv)

Controlled(ops, sv, h) ==
    /\ Listed(sv)
    /\ h \in BOOLEAN
    /\ h => ops # <<>> /\ Head(ops).op \in {"open", "close", "request", "temporary"}
    /\ Ready(ops, Level(ops, sv, h))

LEMMA ControlledParts ==
    ASSUME NEW ops, NEW sv, NEW h, Controlled(ops, sv, h)
    PROVE  /\ Len(sv) \in Nat /\ Listed(sv)
           /\ ops = <<>> => sv = <<>> /\ ~h
           /\ ops # <<>> =>
                 /\ Fits(Head(ops), Level(ops, sv, h))
                 /\ Rest(Tail(ops), Level(ops, sv, h) + Opens(Head(ops)))
                 /\ Head(ops).op = "close" => sv # <<>>
                 /\ Head(ops).op = "open" /\ h => sv # <<>>
                 /\ Head(ops).op \in {"temporary", "restore", "add", "create"} => sv = <<>>
<1>1. /\ Len(sv) \in Nat /\ Listed(sv) /\ (sv # <<>> <=> Len(sv) > 0)
      /\ h => ops # <<>>
      /\ Ready(ops, Level(ops, sv, h))
  BY ListedIs DEF Controlled
<1>2. CASE ops = <<>>
  BY <1>1, <1>2 DEF Ready, Level
<1>3. CASE ops # <<>>
  <2>1. Fits(Head(ops), Level(ops, sv, h)) /\ Rest(Tail(ops), Level(ops, sv, h) + Opens(Head(ops)))
    BY <1>1, <1>3 DEF Ready
  <2>2. Level(ops, sv, h) \in Nat /\ Level(ops, sv, h) + Opens(Head(ops)) \in Nat
    BY <2>1 DEF Fits
  <2>3. ASSUME Head(ops).op = "close" PROVE sv # <<>>
    <3>1. Level(ops, sv, h) = Len(sv) /\ Opens(Head(ops)) = -1
      BY <2>3 DEF Level, Opens
    <3> QED BY <1>1, <2>2, <3>1
  <2>4. Head(ops).op = "open" /\ h => sv # <<>>
    BY <1>1, <1>3, <2>2 DEF Level
  <2>5. Head(ops).op \in {"temporary", "restore", "add", "create"} => sv = <<>>
    BY <1>1, <2>1 DEF Fits, Level
  <2> QED BY <1>1, <1>3, <2>1, <2>3, <2>4, <2>5
<1> QED BY <1>2, <1>3

\* An operation is over: the rest of the program is left.
LEMMA ControlledTail ==
    ASSUME NEW ops, NEW sv, NEW h, NEW sw, Controlled(ops, sv, h), ops # <<>>,
           Listed(sw), Len(sw) = Level(ops, sv, h) + Opens(Head(ops))
    PROVE  Controlled(Tail(ops), sw, FALSE) /\ (Tail(ops) # <<>> => Plain(Head(Tail(ops))))
<1>1. Rest(Tail(ops), Len(sw))
  BY ControlledParts
<1>2. Ready(Tail(ops), Len(sw)) /\ (Tail(ops) # <<>> => Plain(Head(Tail(ops))))
  BY <1>1, RestReady
<1> QED BY <1>2 DEF Controlled, Level

\* Another operation takes its place.
LEMMA ControlledCons ==
    ASSUME NEW ops, NEW sv, NEW o, Listed(sv), Fits(o, Len(sv)), Rest(ops, Len(sv) + Opens(o))
    PROVE  /\ Controlled(<<o>> \o ops, sv, FALSE) /\ <<o>> \o ops # <<>>
           /\ Head(<<o>> \o ops) = o
<1>1. Ready(<<o>> \o ops, Len(sv))
  BY RestCons
<1>2. Listed(ops)
  BY DEF Rest
<1>3. Head(<<o>> \o ops) = o /\ <<o>> \o ops # <<>>
  BY <1>2, ConsListed
<1> DEFINE c == <<o>> \o ops
<1> HIDE DEF c
<1>4. Controlled(c, sv, FALSE)
  BY <1>1 DEF Controlled, Level, c
<1> QED BY <1>3, <1>4 DEF c

\* An operation that opens and closes no block.
LEMMA Simple ==
    ASSUME NEW o, NEW n \in Nat,
           o.op \in {"search", "request", "workflow", "next", "transform", "append", "wrap"}
    PROVE  Fits(o, n) /\ Opens(o) = 0 /\ Plain(o)
BY DEF Fits, Opens, Plain

Begun(c, sv, o) == Controlled(c, sv, FALSE) /\ c # <<>> /\ Head(c) = o

\* What a workflow and its second step put in their own place: a block, a
\* search in it, and what comes after.
LEMMA ControlledBlock ==
    ASSUME NEW ops, NEW sv, NEW o, NEW p, NEW q, NEW r,
           Listed(sv), Rest(ops, Len(sv)), o.op = "open", p.op = "search", q.op = "close",
           r.op \in {"next", "append"}
    PROVE  Begun(Four(o, p, q, r, ops), sv, o)
<1> DEFINE n == Len(sv)
<1>1. n \in Nat /\ Rest(ops, n)
  BY ListedIs
<1> HIDE DEF n
<1>2. /\ Fits(o, n) /\ Opens(o) = 1
      /\ Fits(q, n + 1) /\ Opens(q) = -1 /\ Plain(q)
      /\ Fits(p, n + 1) /\ Opens(p) = 0 /\ Plain(p)
      /\ Fits(r, n) /\ Opens(r) = 0 /\ Plain(r)
  BY <1>1 DEF Fits, Opens, Plain
<1>3. n + Opens(r) = n /\ (n + 1) + Opens(q) = n
      /\ (n + 1) + Opens(p) = n + 1 /\ n + Opens(o) = n + 1
  BY <1>1, <1>2
<1>4. Rest(<<r>> \o ops, n)
  BY <1>1, <1>2, <1>3, RestCons
<1>5. Rest(<<q>> \o (<<r>> \o ops), n + 1)
  BY <1>2, <1>3, <1>4, RestCons
<1> DEFINE d == <<p>> \o (<<q>> \o (<<r>> \o ops))
<1>6. Rest(d, n + 1)
  BY <1>2, <1>3, <1>5, RestCons
<1> HIDE DEF d
<1>7. Fits(o, Len(sv)) /\ Rest(d, Len(sv) + Opens(o))
  BY <1>2, <1>3, <1>6 DEF n
<1>8. LET c == <<o>> \o d IN Controlled(c, sv, FALSE) /\ c # <<>> /\ Head(c) = o
  BY <1>7, ControlledCons
<1> QED BY <1>8 DEF d, Four, Begun

LEMMA ControlledSearch ==
    ASSUME NEW ops, NEW sv, NEW o, NEW p, NEW q, NEW r,
           Listed(sv), Rest(ops, Len(sv)), o.op = "open", p.op = "search", q.op = "close",
           r.op = "next"
    PROVE  Begun(InBlock(o, p, q, r, ops), sv, o)
<1>1. InBlock(o, p, q, r, ops) = Four(o, p, q, r, ops)
  <2>1. Listed(ops)
    BY DEF Rest
  <2> QED BY <2>1, ConsLists
<1>2. Begun(Four(o, p, q, r, ops), sv, o)
  BY ControlledBlock
<1> QED BY <1>1, <1>2

LEMMA ControlledFetch ==
    ASSUME NEW ops, NEW sv, NEW o, NEW p, NEW q, NEW r, NEW z,
           Listed(sv), Rest(ops, Len(sv)), o.op = "open", p.op = "search", q.op = "close",
           r.op = "append", z.op = "wrap"
    PROVE  Begun(Enclosed(o, p, q, r, z, ops), sv, o)
<1> DEFINE d == <<z>> \o ops
<1>1. Enclosed(o, p, q, r, z, ops) = Four(o, p, q, r, d)
  <2>1. Listed(ops)
    BY DEF Rest
  <2> QED BY <2>1, ConsLists
<1>2. Rest(d, Len(sv))
  <2>1. Len(sv) \in Nat
    BY ListedIs
  <2>2. Fits(z, Len(sv)) /\ Opens(z) = 0 /\ Plain(z)
    BY <2>1, Simple
  <2>3. Rest(ops, Len(sv) + Opens(z))
    BY <2>1, <2>2
  <2> QED BY <2>2, <2>3, RestCons
<1> HIDE DEF d
<1>3. Begun(Four(o, p, q, r, d), sv, o)
  BY <1>2, ControlledBlock
<1> QED BY <1>1, <1>3

----------------------------------------------------------------------------
(* The inductive invariant *)

Typed ==
    /\ DOMAIN todo = Threads /\ DOMAIN half = Threads /\ DOMAIN saved = Threads
    /\ DOMAIN original = Threads /\ DOMAIN joined = Threads
    /\ DOMAIN api = Apis /\ DOMAIN meant = Apis /\ DOMAIN blocks = Apis
    /\ DOMAIN temporary = DOMAIN Normal
    /\ uses \in [Threads -> Apis]
    /\ half \in [Threads -> BOOLEAN]
    /\ \A t \in Threads : uses[t] \in {t, "shared"}

\* Every thread has left what fits the blocks it is in.
Control == \A t \in Threads : Controlled(todo[t], saved[t], half[t])

\* Is a thread in the middle of putting back what its block had changed?
Closing(t) == Runs(t, "close") /\ half[t]

\* What SearchAPI a was when its block i was opened; it is as it was made when
\* the first one was, and the last of them is the SearchAPI as it is now.
Under(a, i) ==
    IF i < Len(blocks[a]) THEN saved[blocks[a][i + 1][1]][blocks[a][i + 1][2]] ELSE api[a]

\* A SearchAPI with limiter l.
Formed(x, l) == x = [config |-> x.config, map |-> x.map, query |-> x.query, limiter |-> l]

\* The open blocks of a, the first l of s, are those of the threads that use a,
\* each of them once.
Owned(a, s, l) ==
    \A i \in 1..l : \E t \in Threads : \E k \in 1..Len(saved[t]) : uses[t] = a /\ s[i] = <<t, k>>
Distinct(s, l) == \A i, j \in 1..l : s[i] = s[j] => i = j
Present(a, s, l) ==
    \A t \in Threads : \A k \in 1..Len(saved[t]) : uses[t] = a => \E i \in 1..l : s[i] = <<t, k>>

Counted(a) ==
    /\ Listed(blocks[a])
    /\ Owned(a, blocks[a], Len(blocks[a]))
    /\ Distinct(blocks[a], Len(blocks[a]))
    /\ Present(a, blocks[a], Len(blocks[a]))

\* Each holds what its opening found; while one closes, what lies on top of it
\* has the configuration already.
Chained(a) ==
    /\ Under(a, 0) = meant[a]
    /\ \A i \in 0..Len(blocks[a]) : Formed(Under(a, i), meant[a].limiter)
    /\ \A t \in Threads : \A i \in 1..Len(blocks[a]) :
          (Closing(t) /\ blocks[a][i] = Block(t)) =>
              Under(a, i).config = saved[t][Len(saved[t])].config

Nested == \A a \in Apis \ tangled : Counted(a) /\ Chained(a)

\* A SearchAPI that one thread made for itself has that thread's blocks only.
Own ==
    \A t \in Threads :
        /\ t \notin tangled
        /\ Listed(blocks[t])
        /\ uses[t] # t => blocks[t] = <<>>
        /\ uses[t] = t => /\ Len(blocks[t]) = Len(saved[t])
                          /\ \A i \in 1..Len(blocks[t]) : blocks[t][i] = <<t, i>>

\* Has the thread a temporary provider in the registry?
Puts(t, n) ==
    \/ Runs(t, "temporary") /\ half[t] /\ Op(t).provider.name = n
    \/ Runs(t, "restore") /\ Op(t).name = n

Providing(p) == p # NoProvider => p.delay \in Nat

\* The first of those who replaced a provider holds the user's own.
Replaced(n) ==
    /\ Listed(temporary[n])
    /\ \A i \in 1..Len(temporary[n]) : \E t \in Threads : temporary[n][i] = t /\ Puts(t, n)
    /\ \A i, j \in 1..Len(temporary[n]) : temporary[n][i] = temporary[n][j] => i = j
    /\ \A t \in Threads : Puts(t, n) => \E i \in 1..Len(temporary[n]) : temporary[n][i] = t
    /\ FromName(Registered, n) = IF temporary[n] = <<>> THEN FromName(registry, n)
                                 ELSE original[temporary[n][1]]

Named(n)   == n # ""
Normalised == {n \in DOMAIN Normal : Normal[n] = n}

Registries ==
    /\ DOMAIN registry \subseteq Normalised
    /\ \A n \in DOMAIN registry : Named(n) /\ registry[n] # NoProvider /\ registry[n].delay \in Nat
    /\ \A t \in Threads : Providing(original[t])
    /\ \A t \in Threads : Runs(t, "restore") => Op(t).name \in Normalised /\ Named(Op(t).name)
    /\ \A n \in Normalised \ tangled : Replaced(n)

\* A SearchAPI that was added has the limiter of its provider; who would make
\* a limiter that there is already races.
Limiting ==
    /\ \A n \in DOMAIN limiters : limiters[n].interval \in Nat
    /\ \A t \in Threads :
          (joined[t] # None /\ joined[t] \notin raced) =>
              /\ joined[t] \in DOMAIN limiters
              /\ meant[t].limiter = limiters[joined[t]].id
              /\ meant[t].config.delay = limiters[joined[t]].interval
    /\ \A t \in Threads :
          (Runs(t, "create") /\ Op(t).name \in DOMAIN limiters) => Op(t).name \in raced

SharedInv == Typed /\ Control /\ Nested /\ Own /\ Registries /\ Limiting

----------------------------------------------------------------------------
(* One step *)

\* A step of thread t.
Step(t) ==
    \/ EnterConfig(t) \/ EnterMap(t) \/ LeaveConfig(t) \/ LeaveMap(t)
    \/ LookUp(t) \/ Build(t) \/ Send(t)
    \/ Clear(t) \/ FirstStep(t) \/ Transform(t) \/ AppendStep(t) \/ Wrap(t)
    \/ Register(t) \/ Construct(t) \/ Restore(t)
    \/ Look(t) \/ Create(t)

LEMMA TypedStep == Typed /\ [Next]_vars => Typed'
<1> SUFFICES ASSUME Typed, [Next]_vars PROVE Typed'
  OBVIOUS
<1>1. ASSUME NEW t \in Threads, Step(t) PROVE Typed'
  <2>0. "shared" \in Apis /\ t \in Apis
    BY DEF Apis
  <2>1. CASE EnterConfig(t)
    BY <2>1 DEF EnterConfig, Typed
  <2>2. CASE EnterMap(t)
    BY <2>2 DEF EnterMap, Done, history, Typed
  <2>3. CASE LeaveConfig(t)
    BY <2>3 DEF LeaveConfig, Typed
  <2>4. CASE LeaveMap(t)
    BY <2>4 DEF LeaveMap, Done, Typed
  <2>5. CASE LookUp(t)
    BY <2>5 DEF LookUp, Then, shared, Typed
  <2>6. CASE Build(t)
    BY <2>6 DEF Build, Done, shared, history, Typed
  <2>7. CASE Send(t)
    BY <2>7 DEF Send, Done, shared, history, Typed
  <2>8. CASE Clear(t)
    BY <2>8 DEF Clear, Then, Typed
  <2>9. CASE FirstStep(t)
    BY <2>9 DEF FirstStep, Then, history, Typed
  <2>10. CASE Transform(t)
    BY <2>10 DEF Transform, Then, Done, shared, history, Typed
  <2>11. CASE AppendStep(t)
    BY <2>11 DEF AppendStep, Done, history, Typed
  <2>12. CASE Wrap(t)
    BY <2>12 DEF Wrap, Done, shared, history, Typed
  <2>13. CASE Register(t)
    BY <2>13 DEF Register, Typed
  <2>14. CASE Construct(t)
    BY <2>0, <2>14 DEF Construct, Then, Typed
  <2>15. CASE Restore(t)
    BY <2>15 DEF Restore, Done, Typed
  <2>16. CASE Look(t)
    BY <2>0, <2>16 DEF Look, Joined, Done, Then, Typed
  <2>17. CASE Create(t)
    BY <2>0, <2>17 DEF Create, Joined, Done, Typed
  <2> QED BY <1>1, <2>1, <2>2, <2>3, <2>4, <2>5, <2>6, <2>7, <2>8, <2>9, <2>10, <2>11, <2>12,
             <2>13, <2>14, <2>15, <2>16, <2>17 DEF Step
<1>2. CASE UNCHANGED vars
  BY <1>2 DEF vars, shared, local, history, Typed
<1> QED BY <1>1, <1>2 DEF Next, Step, Finished

\* What a step of t does to programs, and to what threads are in the middle of.
Moved(t) ==
    /\ \A u \in Threads \ {t} :
          todo'[u] = todo[u] /\ saved'[u] = saved[u] /\ half'[u] = half[u]
    /\ Controlled(todo'[t], saved'[t], half'[t])
    /\ Closing(t)' => LeaveConfig(t)
    /\ (~Register(t) /\ ~Restore(t)) => \A n : Puts(t, n)' <=> Puts(t, n)
    /\ Runs(t, "create")' => limiters' = limiters /\ Op(t)'.name \notin DOMAIN limiters

\* t has come to another operation of its program.
Settled(t) == ~half'[t] /\ (todo'[t] # <<>> => Plain(Head(todo'[t])))

LEMMA SettledFacts ==
    ASSUME NEW t, Settled(t)
    PROVE  ~Closing(t)' /\ (\A n : ~Puts(t, n)') /\ ~Runs(t, "create")'
BY DEF Settled, Closing, Puts, Runs, Op, Plain

\* ... which is the next one, or one that takes the place of the last.
LEMMA MovesOn ==
    ASSUME NEW t \in Threads, Typed, Control, todo[t] # <<>>,
           todo' = [todo EXCEPT ![t] = Tail(@)],
           ~half'[t], \A u \in Threads \ {t} : half'[u] = half[u],
           \A u \in Threads \ {t} : saved'[u] = saved[u],
           Listed(saved'[t]),
           Len(saved'[t]) = Level(todo[t], saved[t], half[t]) + Opens(Op(t)),
           Op(t).op \notin {"temporary", "restore"} \/ Restore(t)
    PROVE  Moved(t)
<1>1. Controlled(todo[t], saved[t], half[t])
  BY DEF Control
<1>2. todo'[t] = Tail(todo[t]) /\ \A u \in Threads \ {t} : todo'[u] = todo[u]
  BY DEF Typed
<1>3. /\ Controlled(Tail(todo[t]), saved'[t], FALSE)
      /\ Tail(todo[t]) # <<>> => Plain(Head(Tail(todo[t])))
  BY <1>1, ControlledTail DEF Op
<1>4. half'[t] = FALSE
  BY DEF Typed
<1> QED BY <1>2, <1>3, <1>4, SettledFacts DEF Moved, Settled, Puts, Runs

LEMMA MovesAside ==
    ASSUME NEW t \in Threads, NEW c, Typed, Control,
           todo' = [todo EXCEPT ![t] = c], Controlled(c, saved[t], FALSE), c # <<>>,
           Plain(Head(c)), saved' = saved, half' = half, ~half[t],
           Op(t).op \notin {"temporary", "restore"}
    PROVE  Moved(t)
<1>1. todo'[t] = c /\ \A u \in Threads \ {t} : todo'[u] = todo[u]
  BY DEF Typed
<1>2. half'[t] = FALSE /\ saved'[t] = saved[t]
  BY DEF Typed
<1>3. Controlled(todo'[t], saved'[t], half'[t])
  BY <1>1, <1>2
<1> QED BY <1>1, <1>2, <1>3, SettledFacts DEF Moved, Settled, Puts, Runs

LEMMA Moves ==
    ASSUME NEW t \in Threads, Typed, Control, Step(t)
    PROVE  Moved(t)
<1> DEFINE n == Len(saved[t])
<1>1. Controlled(todo[t], saved[t], half[t])
  BY DEF Control
<1>2. /\ n \in Nat /\ Listed(saved[t]) /\ (saved[t] # <<>> <=> n > 0)
      /\ half[t] \in BOOLEAN
      /\ half[t] => Op(t).op \in {"open", "close", "request", "temporary"}
      /\ todo[t] # <<>> => Fits(Op(t), Level(todo[t], saved[t], half[t]))
  BY <1>1, ListedIs, ControlledParts DEF Controlled, Op
<1>3. \A x : Runs(t, x) => todo[t] # <<>> /\ Op(t).op = x
  BY DEF Runs
<1>4. todo[t] # <<>> => Listed(Tail(todo[t]))
  BY <1>1 DEF Controlled, Ready, Rest
<1>5. Typed'
  BY TypedStep DEF Next, Step
<1> HIDE DEF n
<1>6. ASSUME Runs(t, "search") \/ Runs(t, "workflow") \/ Runs(t, "next") \/ Runs(t, "transform")
      PROVE  Rest(Tail(todo[t]), n) /\ ~half[t] /\ Op(t).op \notin {"temporary", "restore"}
  <2>1. todo[t] # <<>> /\ Op(t).op \in {"search", "workflow", "next", "transform"}
    BY <1>3, <1>6
  <2>2. Opens(Op(t)) = 0 /\ Level(todo[t], saved[t], half[t]) = n
    BY <2>1 DEF Opens, Level, Op, n
  <2>3. Rest(Tail(todo[t]), Level(todo[t], saved[t], half[t]) + Opens(Op(t)))
    BY <1>1, <2>1, ControlledParts DEF Op
  <2>4. Level(todo[t], saved[t], half[t]) + Opens(Op(t)) = n
    BY <1>2, <2>2
  <2> QED BY <1>2, <2>1, <2>3, <2>4
\* An operation that is done, outside a block's beginning or end
<1>7. ASSUME todo[t] # <<>>, Op(t).op \notin {"open", "close"}, Done(t),
             saved' = saved, (half' = half /\ ~half[t]) \/ half' = [half EXCEPT ![t] = FALSE],
             Op(t).op \notin {"temporary", "restore"} \/ Restore(t)
      PROVE  Moved(t)
  <2>1. Level(todo[t], saved[t], half[t]) = n /\ Opens(Op(t)) = 0
    BY <1>7 DEF Level, Opens, Op, n
  <2>2. Len(saved'[t]) = Level(todo[t], saved[t], half[t]) + Opens(Op(t))
    BY <1>2, <1>7, <2>1 DEF n
  <2>3. ~half'[t] /\ \A u \in Threads \ {t} : half'[u] = half[u] /\ saved'[u] = saved[u]
    BY <1>7 DEF Typed
  <2>4. Listed(saved'[t]) /\ todo' = [todo EXCEPT ![t] = Tail(@)]
    BY <1>2, <1>7 DEF Done
  <2> QED BY <1>7, <2>2, <2>3, <2>4, MovesOn
\* One that gives way to another
<1>8. ASSUME NEW o, Runs(t, "search") \/ Runs(t, "next"), Then(t, <<o>>),
             o.op \in {"request", "transform", "wrap"}, saved' = saved, half' = half
      PROVE  Moved(t)
  <2>1. Rest(Tail(todo[t]), n) /\ ~half[t] /\ Op(t).op \notin {"temporary", "restore"}
    BY <1>6, <1>8
  <2>2. Fits(o, n) /\ Opens(o) = 0 /\ Plain(o) /\ n + Opens(o) = n
    BY <1>2, <1>8, Simple
  <2> DEFINE c == <<o>> \o Tail(todo[t])
  <2>3. Controlled(c, saved[t], FALSE) /\ c # <<>> /\ Head(c) = o
    BY <1>2, <2>1, <2>2, ControlledCons DEF n
  <2>4. todo' = [todo EXCEPT ![t] = c]
    BY <1>8 DEF Then
  <2> HIDE DEF c
  <2> QED BY <1>8, <2>1, <2>2, <2>3, <2>4, MovesAside
<1>9. CASE EnterConfig(t)
  <2>1. Runs(t, "open") /\ ~half[t] /\ todo' = todo /\ half' = [half EXCEPT ![t] = TRUE]
        /\ saved' = [saved EXCEPT ![t] = Append(saved[t], My(t))]
    BY <1>9 DEF EnterConfig
  <2>2. /\ todo'[t] = todo[t] /\ half'[t] = TRUE /\ saved'[t] = Append(saved[t], My(t))
        /\ \A u \in Threads \ {t} : todo'[u] = todo[u] /\ half'[u] = half[u] /\ saved'[u] = saved[u]
    BY <2>1 DEF Typed
  <2>3. Listed(saved'[t]) /\ Len(saved'[t]) = n + 1
    BY <1>2, <2>2, AppendListed DEF n
  <2>4. Level(todo[t], saved'[t], TRUE) = n /\ Level(todo[t], saved[t], half[t]) = n
    BY <1>2, <1>3, <2>1, <2>3 DEF Level, Op, n
  <2>5. Ready(todo[t], n)
    BY <1>1, <2>4 DEF Controlled
  <2>6. Controlled(todo'[t], saved'[t], half'[t])
    BY <1>3, <2>1, <2>2, <2>3, <2>4, <2>5 DEF Controlled, Op
  <2>7. Op(t)' = Op(t) /\ todo[t] # <<>> /\ Op(t).op = "open"
    BY <1>3, <2>1, <2>2 DEF Op
  <2> QED BY <2>2, <2>6, <2>7 DEF Moved, Closing, Puts, Runs
<1>10. CASE EnterMap(t)
  <2>1. Runs(t, "open") /\ half[t] /\ half' = [half EXCEPT ![t] = FALSE] /\ saved' = saved
    BY <1>10 DEF EnterMap
  <2>2. ~half'[t] /\ \A u \in Threads \ {t} : half'[u] = half[u] /\ saved'[u] = saved[u]
    BY <2>1 DEF Typed
  <2>3. Level(todo[t], saved[t], half[t]) = n - 1 /\ Opens(Op(t)) = 1
    BY <1>3, <2>1 DEF Level, Opens, Op, n
  <2>4. Len(saved'[t]) = Level(todo[t], saved[t], half[t]) + Opens(Op(t))
    <3>1. Len(saved'[t]) = n
      BY <2>1 DEF n
    <3> QED BY <1>2, <2>3, <3>1
  <2>5. todo' = [todo EXCEPT ![t] = Tail(@)] /\ todo[t] # <<>> /\ Op(t).op = "open"
    BY <1>3, <1>10, <2>1 DEF EnterMap, Done
  <2> QED BY <1>2, <2>1, <2>2, <2>4, <2>5, MovesOn
<1>11. CASE LeaveConfig(t)
  <2>1. Runs(t, "close") /\ ~half[t] /\ todo' = todo /\ half' = [half EXCEPT ![t] = TRUE]
        /\ saved' = saved
    BY <1>11 DEF LeaveConfig
  <2>2. /\ todo'[t] = todo[t] /\ half'[t] = TRUE /\ saved'[t] = saved[t]
        /\ \A u \in Threads \ {t} : todo'[u] = todo[u] /\ half'[u] = half[u] /\ saved'[u] = saved[u]
    BY <2>1 DEF Typed
  <2>3. Level(todo[t], saved[t], TRUE) = n /\ Level(todo[t], saved[t], half[t]) = n
    BY <1>3, <2>1 DEF Level, Op, n
  <2>4. Controlled(todo'[t], saved'[t], half'[t])
    BY <1>1, <1>2, <1>3, <2>1, <2>2, <2>3 DEF Controlled, Op
  <2>5. Op(t)' = Op(t) /\ todo[t] # <<>> /\ Op(t).op = "close"
    BY <1>3, <2>1, <2>2 DEF Op
  <2> QED BY <1>11, <2>2, <2>4, <2>5 DEF Moved, Closing, Puts, Runs
<1>12. CASE LeaveMap(t)
  <2>1. Runs(t, "close") /\ half[t] /\ half' = [half EXCEPT ![t] = FALSE]
        /\ saved' = [saved EXCEPT ![t] = Front(saved[t])]
    BY <1>12 DEF LeaveMap
  <2>2. /\ ~half'[t] /\ saved'[t] = Front(saved[t])
        /\ \A u \in Threads \ {t} : half'[u] = half[u] /\ saved'[u] = saved[u]
    BY <2>1 DEF Typed
  <2>3. Level(todo[t], saved[t], half[t]) = n /\ Opens(Op(t)) = -1 /\ saved[t] # <<>>
    <3>1. todo[t] # <<>> /\ Head(todo[t]).op = "close"
      BY <1>3, <2>1 DEF Op
    <3>2. saved[t] # <<>>
      BY <1>1, <3>1, ControlledParts
    <3> QED BY <3>1, <3>2 DEF Level, Opens, Op, n
  <2>4. Listed(saved'[t]) /\ Len(saved'[t]) = n - 1
    BY <1>2, <2>2, <2>3, FrontListed DEF n
  <2>5. Len(saved'[t]) = Level(todo[t], saved[t], half[t]) + Opens(Op(t))
    BY <1>2, <2>3, <2>4
  <2>6. todo' = [todo EXCEPT ![t] = Tail(@)] /\ todo[t] # <<>> /\ Op(t).op = "close"
    BY <1>3, <1>12, <2>1 DEF LeaveMap, Done
  <2> QED BY <2>2, <2>4, <2>5, <2>6, MovesOn
<1>13. CASE LookUp(t)
  <2>1. Runs(t, "search") /\ Then(t, <<Sending(Op(t))>>) /\ saved' = saved /\ half' = half
    BY <1>13 DEF LookUp
  <2>2. Sending(Op(t)).op = "request"
    BY DEF Sending
  <2> QED BY <1>8, <2>1, <2>2
<1>14. CASE Build(t)
  <2>0. /\ Runs(t, "request") /\ ~half[t] /\ saved' = saved
        /\ \/ Done(t) /\ half' = half
           \/ todo' = todo /\ half' = [half EXCEPT ![t] = TRUE]
    BY <1>14 DEF Build
  <2>1. CASE Done(t) /\ half' = half
    BY <1>3, <1>7, <2>0, <2>1
  <2>2. CASE todo' = todo /\ half' = [half EXCEPT ![t] = TRUE]
    <3>1. Runs(t, "request") /\ ~half[t] /\ todo' = todo /\ half' = [half EXCEPT ![t] = TRUE]
          /\ saved' = saved
      BY <2>0, <2>2
    <3>2. /\ todo'[t] = todo[t] /\ half'[t] = TRUE /\ saved'[t] = saved[t]
          /\ \A u \in Threads \ {t} : todo'[u] = todo[u] /\ half'[u] = half[u] /\ saved'[u] = saved[u]
      BY <3>1 DEF Typed
    <3>3. Level(todo[t], saved[t], TRUE) = n /\ Level(todo[t], saved[t], half[t]) = n
      BY <1>3, <3>1 DEF Level, Op, n
    <3>4. Controlled(todo'[t], saved'[t], half'[t])
      BY <1>1, <1>2, <1>3, <3>1, <3>2, <3>3 DEF Controlled, Op
    <3>5. Op(t)' = Op(t) /\ todo[t] # <<>> /\ Op(t).op = "request"
      BY <1>3, <3>1, <3>2 DEF Op
    <3> QED BY <3>2, <3>4, <3>5 DEF Moved, Closing, Puts, Runs
  <2> QED BY <2>0, <2>1, <2>2
<1>15. CASE Send(t)
  BY <1>3, <1>7, <1>15 DEF Send
<1>16. CASE Clear(t)
  <2> DEFINE o == [op |-> "open", how |-> "parameters", name |-> "", over |-> NoOverrides,
                   query |-> None]
             p == Page(1)
             q == [op |-> "close"]
             r == [op |-> "next"]
             c == <<o, p, q, r>> \o Tail(todo[t])
  <2>1. Runs(t, "workflow") /\ Then(t, <<o, p, q, r>>) /\ saved' = saved /\ half' = half
    BY <1>16 DEF Clear
  <2>2. o.op = "open" /\ p.op = "search" /\ q.op = "close" /\ r.op = "next"
    BY DEF Page
  <2>3. todo' = [todo EXCEPT ![t] = c]
    BY <2>1 DEF Then
  <2>4. Rest(Tail(todo[t]), n) /\ ~half[t] /\ Op(t).op \notin {"temporary", "restore"}
    BY <1>6, <2>1
  <2> HIDE DEF o, p, q, r
  <2>5. Controlled(c, saved[t], FALSE) /\ c # <<>> /\ Head(c) = o
    <3>2. Listed(saved[t]) /\ Rest(Tail(todo[t]), Len(saved[t]))
      BY <1>2, <2>4 DEF n
    <3>3. c = InBlock(o, p, q, r, Tail(todo[t]))
      BY DEF InBlock
    <3> HIDE DEF c
    <3>4. Begun(InBlock(o, p, q, r, Tail(todo[t])), saved[t], o)
      BY <2>2, <3>2, ControlledSearch
    <3> QED BY <3>3, <3>4 DEF Begun
  <2>6. Plain(Head(c))
    BY <2>2, <2>5 DEF Plain
  <2> HIDE DEF c
  <2> QED BY <2>1, <2>3, <2>4, <2>5, <2>6, MovesAside
<1>17. CASE FirstStep(t)
  <2> DEFINE o == [op |-> IF answer[t].kind = "error" THEN "wrap" ELSE "transform"]
  <2>1. Runs(t, "next") /\ Then(t, <<o>>) /\ saved' = saved /\ half' = half
    BY <1>17 DEF FirstStep
  <2>2. o.op \in {"wrap", "transform"}
    OBVIOUS
  <2> HIDE DEF o
  <2> QED BY <1>8, <2>1, <2>2
<1>18. CASE Transform(t)
  <2>1. Runs(t, "transform") /\ saved' = saved /\ half' = half
    BY <1>18 DEF Transform
  <2>2. Rest(Tail(todo[t]), n) /\ ~half[t] /\ Op(t).op \notin {"temporary", "restore"}
    BY <1>6, <2>1
  <2>3. CASE Done(t)
    BY <1>3, <1>7, <2>1, <2>2, <2>3
  <2>4. CASE ~Done(t)
    <3> DEFINE o == FetchBlock(t)
               p == Page(1)
               q == [op |-> "close"]
               r == [op |-> "append"]
               z == [op |-> "wrap"]
               c == <<o, p, q, r, z>> \o Tail(todo[t])
    <3>1. todo' = [todo EXCEPT ![t] = c]
      BY <1>18, <2>4 DEF Transform, Then
    <3>2. o.op = "open" /\ p.op = "search" /\ q.op = "close" /\ r.op = "append" /\ z.op = "wrap"
      BY DEF Page, FetchBlock
    <3> HIDE DEF o, p, q, r, z
    <3>3. Controlled(c, saved[t], FALSE) /\ c # <<>> /\ Head(c) = o
      <4>1. Listed(saved[t]) /\ Rest(Tail(todo[t]), Len(saved[t]))
        BY <1>2, <2>2 DEF n
      <4>2. c = Enclosed(o, p, q, r, z, Tail(todo[t]))
        BY DEF Enclosed
      <4> HIDE DEF c
      <4>3. Begun(Enclosed(o, p, q, r, z, Tail(todo[t])), saved[t], o)
        BY <3>2, <4>1, ControlledFetch
      <4> QED BY <4>2, <4>3 DEF Begun
    <3>4. Plain(Head(c))
      BY <3>2, <3>3 DEF Plain
    <3> HIDE DEF c
    <3> QED BY <2>1, <2>2, <3>1, <3>3, <3>4, MovesAside
  <2> QED BY <2>3, <2>4
<1>19. CASE AppendStep(t)
  <2>1. ~half[t]
    BY <1>2, <1>3, <1>19 DEF AppendStep
  <2> QED BY <1>3, <1>7, <1>19, <2>1 DEF AppendStep
<1>20. CASE Wrap(t)
  <2>1. ~half[t]
    BY <1>2, <1>3, <1>20 DEF Wrap
  <2> QED BY <1>3, <1>7, <1>20, <2>1 DEF Wrap
<1>21. CASE Register(t)
  <2>1. Runs(t, "temporary") /\ ~half[t] /\ todo' = todo /\ half' = [half EXCEPT ![t] = TRUE]
        /\ saved' = saved
    BY <1>21 DEF Register
  <2>2. /\ todo'[t] = todo[t] /\ half'[t] = TRUE /\ saved'[t] = saved[t]
        /\ \A u \in Threads \ {t} : todo'[u] = todo[u] /\ half'[u] = half[u] /\ saved'[u] = saved[u]
    BY <2>1 DEF Typed
  <2>3. Level(todo[t], saved[t], TRUE) = n /\ Level(todo[t], saved[t], half[t]) = n
    BY <1>3, <2>1 DEF Level, Op, n
  <2>4. Controlled(todo'[t], saved'[t], half'[t])
    BY <1>1, <1>2, <1>3, <2>1, <2>2, <2>3 DEF Controlled, Op
  <2>5. Op(t)' = Op(t) /\ todo[t] # <<>> /\ Op(t).op = "temporary"
    BY <1>3, <2>1, <2>2 DEF Op
  <2> QED BY <1>21, <2>2, <2>4, <2>5 DEF Moved, Closing, Runs
<1>22. CASE Construct(t)
  <2> DEFINE o == [op |-> "restore", name |-> Op(t).provider.name]
             c == <<o>> \o Tail(todo[t])
  <2>1. Runs(t, "temporary") /\ half[t] /\ todo' = [todo EXCEPT ![t] = c]
        /\ half' = [half EXCEPT ![t] = FALSE] /\ saved' = saved
    BY <1>22 DEF Construct, Then
  <2>2. todo[t] # <<>> /\ Op(t).op = "temporary" /\ saved[t] = <<>>
        /\ Rest(Tail(todo[t]), Level(todo[t], saved[t], half[t]) + Opens(Op(t)))
    <3>1. todo[t] # <<>> /\ Head(todo[t]).op = "temporary"
      BY <1>3, <2>1 DEF Op
    <3> HIDE DEF c, o
    <3> QED BY <1>1, <3>1, ControlledParts DEF Op
  <2>3. n = 0 /\ Level(todo[t], saved[t], half[t]) = n /\ Opens(Op(t)) = 0
    BY <1>2, <2>2 DEF Level, Opens, Op, n
  <2>4. Fits(o, n) /\ Opens(o) = 0 /\ Rest(Tail(todo[t]), n + Opens(o))
    BY <2>2, <2>3 DEF Fits, Opens
  <2>5. Controlled(c, saved[t], FALSE) /\ c # <<>> /\ Head(c) = o
    BY <1>2, <2>4, ControlledCons DEF n
  <2>6. o.op = "restore" /\ o.name = Op(t).provider.name
    OBVIOUS
  <2> HIDE DEF o, c
  <2>7. /\ todo'[t] = c /\ half'[t] = FALSE /\ saved'[t] = saved[t]
        /\ \A u \in Threads \ {t} : todo'[u] = todo[u] /\ half'[u] = half[u] /\ saved'[u] = saved[u]
    BY <2>1 DEF Typed
  <2>8. Op(t)' = o
    BY <2>5, <2>7 DEF Op
  <2>9. Controlled(todo'[t], saved'[t], half'[t])
    BY <2>5, <2>7
  <2>10. \A m : Puts(t, m)' <=> Puts(t, m)
    BY <2>1, <2>2, <2>5, <2>6, <2>7, <2>8 DEF Puts, Runs
  <2>11. ~Closing(t)' /\ ~Runs(t, "create")'
    BY <2>6, <2>7, <2>8 DEF Closing, Runs
  <2> QED BY <2>7, <2>9, <2>10, <2>11 DEF Moved
<1>23. CASE Restore(t)
  <2>1. ~half[t]
    BY <1>2, <1>3, <1>23 DEF Restore
  <2> QED BY <1>3, <1>7, <1>23, <2>1 DEF Restore
<1>24. CASE Look(t)
  <2>1. ~half[t] /\ todo[t] # <<>> /\ Op(t).op = "add" /\ saved' = saved /\ half' = half
    BY <1>2, <1>3, <1>24 DEF Look
  <2>2. CASE Done(t)
    BY <1>7, <2>1, <2>2
  <2>3. CASE ~Done(t)
    <3> DEFINE o == [op |-> "create", name |-> ProviderOf(t)]
               c == <<o>> \o Tail(todo[t])
    <3>1. todo' = [todo EXCEPT ![t] = c]
      BY <1>24, <2>3 DEF Look, Joined, Then
    <3>2. saved[t] = <<>> /\ Rest(Tail(todo[t]), Level(todo[t], saved[t], half[t]) + Opens(Op(t)))
      BY <1>1, <2>1, ControlledParts DEF Op
    <3>3. n = 0 /\ Level(todo[t], saved[t], half[t]) = n /\ Opens(Op(t)) = 0
      BY <1>2, <2>1, <3>2 DEF Level, Opens, Op, n
    <3>4. Fits(o, n) /\ Opens(o) = 0 /\ Rest(Tail(todo[t]), n + Opens(o))
      BY <3>2, <3>3 DEF Fits, Opens
    <3>5. Controlled(c, saved[t], FALSE) /\ c # <<>> /\ Head(c) = o
      BY <1>2, <3>4, ControlledCons DEF n
    <3>6. o.op = "create" /\ o.name \notin DOMAIN limiters /\ limiters' = limiters
      BY <1>24, <2>3 DEF Look, Joined
    <3> HIDE DEF o, c
    <3>7. /\ todo'[t] = c /\ half'[t] = FALSE /\ saved'[t] = saved[t]
          /\ \A u \in Threads \ {t} : todo'[u] = todo[u] /\ half'[u] = half[u] /\ saved'[u] = saved[u]
      BY <2>1, <3>1 DEF Typed
    <3>8. Op(t)' = o
      BY <3>5, <3>7 DEF Op
    <3>9. Controlled(todo'[t], saved'[t], half'[t])
      BY <3>5, <3>7
    <3> QED BY <2>1, <3>6, <3>7, <3>8, <3>9 DEF Moved, Closing, Puts, Runs
  <2> QED BY <2>2, <2>3
<1>25. CASE Create(t)
  <2>1. ~half[t]
    BY <1>2, <1>3, <1>25 DEF Create
  <2> QED BY <1>3, <1>7, <1>25, <2>1 DEF Create, Joined
<1> QED BY <1>9, <1>10, <1>11, <1>12, <1>13, <1>14, <1>15, <1>16, <1>17, <1>18, <1>19, <1>20,
           <1>21, <1>22, <1>23, <1>24, <1>25 DEF Step

LEMMA ControlStep == Typed /\ Control /\ [Next]_vars => Control'
<1> SUFFICES ASSUME Typed, Control, [Next]_vars PROVE Control'
  OBVIOUS
<1>1. ASSUME NEW t \in Threads, Step(t) PROVE Control'
  <2>1. Moved(t)
    BY <1>1, Moves
  <2> QED BY <2>1 DEF Moved, Control
<1>2. CASE UNCHANGED vars
  BY <1>2 DEF vars, shared, local, history, Control
<1> QED BY <1>1, <1>2 DEF Next, Step, Finished

----------------------------------------------------------------------------
(* Providers that are registered for a while                                *)

LEMMA FromNames ==
    ASSUME NEW reg, NEW n, NEW m, NEW p, Normal[n] = n, Normal[m] = m, Named(n)
    PROVE  /\ m = n => FromName(Entered(reg, n, p), m) = p
           /\ m # n => FromName(Entered(reg, n, p), m) = FromName(reg, m)
           /\ m = n => FromName(Removed(reg, n), m) = NoProvider
           /\ m # n => FromName(Removed(reg, n), m) = FromName(reg, m)
<1>1. /\ DOMAIN Entered(reg, n, p) = DOMAIN reg \cup {n}
      /\ \A k \in DOMAIN reg \cup {n} : Entered(reg, n, p)[k] = IF k = n THEN p ELSE reg[k]
  BY DEF Entered
<1>2. /\ DOMAIN Removed(reg, n) = DOMAIN reg \ {n}
      /\ \A k \in DOMAIN reg \ {n} : Removed(reg, n)[k] = reg[k]
  BY DEF Removed, Restrict
<1>3. FromName(Entered(reg, n, p), m) = IF m = n THEN p ELSE FromName(reg, m)
  BY <1>1 DEF FromName, Named
<1>4. FromName(Removed(reg, n), m) = IF m = n THEN NoProvider ELSE FromName(reg, m)
  BY <1>2 DEF FromName, Named
<1> QED BY <1>3, <1>4

LEMMA Provided ==
    ASSUME Registries, NEW n
    PROVE  Providing(FromName(registry, n))
BY DEF Registries, FromName, Providing

\* What a thread is about to put in the registry, or to take out of it.
LEMMA PutNames ==
    ASSUME NEW t \in Threads, Control, Registries
    PROVE  /\ Runs(t, "temporary") => Registrable(Op(t).provider.name, Op(t).provider)
           /\ \A n : Puts(t, n) => n \in Normalised /\ Named(n)
<1>1. Runs(t, "temporary") => Registrable(Op(t).provider.name, Op(t).provider)
  <2>1. Controlled(todo[t], saved[t], half[t])
    BY DEF Control
  <2>2. todo[t] # <<>> => Fits(Op(t), Level(todo[t], saved[t], half[t]))
    BY <2>1, ControlledParts DEF Op
  <2> QED BY <2>2 DEF Runs, Fits
<1> QED BY <1>1 DEF Registries, Puts, Registrable, Normalised, Named

LEMMA RegistriesStep ==
    ASSUME NEW t \in Threads, Typed, Control, Registries, Step(t)
    PROVE  Registries'
<1>1. Moved(t)
  BY Moves
<1>2. \A u \in Threads \ {t} : \A n : Puts(u, n)' <=> Puts(u, n)
  BY <1>1 DEF Moved, Puts, Runs, Op
<1>3. \A u \in Threads \ {t} : Runs(u, "restore")' => Runs(u, "restore") /\ Op(u)' = Op(u)
  BY <1>1 DEF Moved, Runs, Op
\* The registry stays.
<1>4. ASSUME registry' = registry, original' = original, temporary' = temporary,
             tangled \subseteq tangled', ~Register(t), ~Restore(t)
      PROVE  Registries'
  <2>1. \A u \in Threads : \A n : Puts(u, n)' <=> Puts(u, n)
    BY <1>1, <1>2, <1>4 DEF Moved
  <2>2. \A u \in Threads : Runs(u, "restore")' => Op(u)'.name \in Normalised /\ Named(Op(u)'.name)
    <3>1. ASSUME NEW u \in Threads, Runs(u, "restore")' 
          PROVE  Op(u)'.name \in Normalised /\ Named(Op(u)'.name)
      <4>1. PICK n : n = Op(u)'.name
        OBVIOUS
      <4>2. Puts(u, n)'
        BY <3>1, <4>1 DEF Puts
      <4>3. Puts(u, n)
        BY <2>1, <4>2
      <4> QED BY <4>1, <4>3, PutNames
    <3> QED BY <3>1
  <2>3. \A n \in Normalised \ tangled' : Replaced(n)'
    <3>1. ASSUME NEW n \in Normalised \ tangled' PROVE Replaced(n)'
      <4>1. Replaced(n)
        BY <1>4, <3>1 DEF Registries
      <4> QED BY <1>4, <2>1, <4>1 DEF Replaced
    <3> QED BY <3>1
  <2> QED BY <1>4, <2>2, <2>3 DEF Registries, Normalised, Providing
<1>5. CASE Register(t)
  <2>0. PICK p, n : p = Op(t).provider /\ n = Op(t).provider.name
    OBVIOUS
  <2>1. /\ Runs(t, "temporary") /\ ~half[t]
        /\ original' = [original EXCEPT ![t] = FromName(registry, n)]
        /\ registry' = Entered(registry, n, p)
        /\ half' = [half EXCEPT ![t] = TRUE] /\ todo' = todo
        /\ temporary' = [temporary EXCEPT ![n] = Append(temporary[n], t)]
        /\ tangled' = tangled
    BY <1>5, <2>0 DEF Register
  <2>2. Registrable(n, p)
    BY <2>0, <2>1, PutNames
  <2>3. n \in Normalised /\ Named(n) /\ Normal[n] = n /\ p # NoProvider /\ p.delay \in Nat
        /\ n \in DOMAIN temporary
    BY <2>2 DEF Registrable, Normalised, Typed, Named
  <2>4. half'[t] /\ Op(t)' = Op(t) /\ Runs(t, "temporary")' /\ Op(t).op = "temporary"
    BY <2>1 DEF Typed, Op, Runs
  <2>5. \A m : ~Puts(t, m) /\ (Puts(t, m)' <=> m = n)
    BY <2>0, <2>1, <2>4 DEF Puts, Runs
  <2>6. /\ \A m \in DOMAIN Normal : temporary'[m] = IF m = n THEN Append(temporary[n], t) ELSE temporary[m]
        /\ \A u \in Threads : original'[u] = IF u = t THEN FromName(registry, n) ELSE original[u]
    BY <2>1 DEF Typed
  <2>7. \A u \in Threads : Providing(original'[u])
    BY <2>6, Provided DEF Registries
  <2>8. \A u \in Threads : Runs(u, "restore")' => Op(u)'.name \in Normalised /\ Named(Op(u)'.name)
    <3>1. ~Runs(t, "restore")'
      BY <2>4 DEF Runs
    <3> QED BY <1>3, <3>1 DEF Registries
  <2>9. /\ DOMAIN registry' \subseteq Normalised
        /\ \A m \in DOMAIN registry' :
              Named(m) /\ registry'[m] # NoProvider /\ registry'[m].delay \in Nat
    BY <2>1, <2>3 DEF Entered, Registries
  <2>10. ASSUME NEW m \in Normalised \ tangled', m # n PROVE Replaced(m)'
    <3>1. Replaced(m) /\ m \in DOMAIN Normal /\ Normal[m] = m
      BY <2>1, <2>10 DEF Registries, Normalised
    <3>2. temporary'[m] = temporary[m] /\ FromName(registry', m) = FromName(registry, m)
      <4>1. FromName(Entered(registry, n, p), m) = FromName(registry, m)
        BY <2>3, <2>10, <3>1, FromNames
      <4> QED BY <2>1, <2>6, <2>10, <3>1, <4>1
    <3>3. Len(temporary[m]) \in Nat /\ (temporary[m] # <<>> => Len(temporary[m]) > 0)
      BY <3>1, ListedIs DEF Replaced
    <3>4. temporary[m] # <<>> => temporary[m][1] \in Threads /\ temporary[m][1] # t
      BY <2>5, <3>1, <3>3 DEF Replaced
    <3>5. \A u \in Threads : Puts(u, m)' <=> Puts(u, m)
      BY <1>2, <2>5, <2>10
    <3> QED BY <2>6, <3>1, <3>2, <3>4, <3>5 DEF Replaced
  <2>11. ASSUME n \notin tangled' PROVE Replaced(n)'
    <3> DEFINE s == temporary[n]
               l == Len(s)
               r == temporary'[n]
    <3>1. Replaced(n) /\ n \in DOMAIN Normal
      BY <2>1, <2>3, <2>11 DEF Registries, Normalised
    <3>2. Listed(s) /\ l \in Nat /\ (s # <<>> <=> l > 0) /\ r = Append(s, t)
      BY <2>3, <2>6, <3>1, ListedIs DEF Replaced
    <3>3. /\ Listed(r) /\ Len(r) = l + 1 /\ r # <<>> /\ r[l + 1] = t
          /\ \A i \in 1..l : r[i] = s[i]
      <4>1. /\ Listed(r) /\ Len(r) = l + 1 /\ r[l + 1] = t
            /\ \A i \in 1..l : r[i] = s[i]
        BY <3>2, AppendListed
      <4> HIDE DEF r, l, s
      <4> QED BY <3>2, <4>1, ListedIs
    <3>4. \A i \in 1..l : \E u \in Threads : s[i] = u /\ Puts(u, n) /\ u # t
      BY <2>5, <3>1 DEF Replaced
    <3>5. /\ \A i, j \in 1..l : s[i] = s[j] => i = j
          /\ \A u \in Threads : Puts(u, n) => \E i \in 1..l : s[i] = u
      BY <3>1 DEF Replaced
    <3>6. IF s = <<>> THEN FromName(Registered, n) = FromName(registry, n)
          ELSE FromName(Registered, n) = original[s[1]]
      BY <3>1 DEF Replaced
    <3> HIDE DEF s, l, r
    <3>7. ASSUME NEW i \in 1..(l + 1) PROVE \E u \in Threads : r[i] = u /\ Puts(u, n)'
      <4>1. CASE i = l + 1
        BY <2>5, <3>3, <4>1
      <4>2. CASE i # l + 1
        <5>1. i \in 1..l
          BY <3>2, <4>2
        <5>2. PICK u \in Threads : s[i] = u /\ Puts(u, n) /\ u # t
          BY <3>4, <5>1
        <5> QED BY <1>2, <3>3, <5>1, <5>2
      <4> QED BY <4>1, <4>2
    <3>8. \A i, j \in 1..(l + 1) : r[i] = r[j] => i = j
      <4>1. \A i \in 1..(l + 1) : i = l + 1 \/ (i \in 1..l /\ r[i] = s[i])
        BY <3>2, <3>3
      <4>2. \A i \in 1..l : s[i] # t
        BY <3>4
      <4> QED BY <3>3, <3>5, <4>1, <4>2
    <3>9. ASSUME NEW u \in Threads, Puts(u, n)' PROVE \E i \in 1..(l + 1) : r[i] = u
      <4>1. CASE u = t
        BY <3>2, <3>3, <4>1
      <4>2. CASE u # t
        <5>1. Puts(u, n)
          BY <1>2, <3>9, <4>2
        <5>2. PICK i \in 1..l : s[i] = u
          BY <3>5, <5>1
        <5> QED BY <3>2, <3>3, <5>2
      <4> QED BY <4>1, <4>2
    <3>10. FromName(Registered, n) = original'[r[1]]
      <4>1. CASE s = <<>>
        BY <2>6, <3>2, <3>3, <3>6, <4>1
      <4>2. CASE s # <<>>
        BY <2>6, <3>2, <3>3, <3>4, <3>6, <4>2
      <4> QED BY <4>1, <4>2
    <3>11. Len(r) = l + 1 /\ Listed(r) /\ r # <<>> /\ r = temporary'[n]
      BY <3>3 DEF r
    <3> HIDE DEF r
    <3> QED BY <3>7, <3>8, <3>9, <3>10, <3>11 DEF Replaced
  <2>12. \A m \in Normalised \ tangled' : Replaced(m)'
    BY <2>10, <2>11
  <2> QED BY <2>7, <2>8, <2>9, <2>12 DEF Registries, Normalised, Providing
<1>6. CASE Restore(t)
  <2>0. PICK n : n = Op(t).name
    OBVIOUS
  <2>1. /\ Runs(t, "restore")
        /\ registry' = IF original[t] # NoProvider THEN Entered(registry, n, original[t])
                       ELSE Removed(registry, n)
        /\ temporary' = [temporary EXCEPT ![n] = Without(temporary[n], t)]
        /\ tangled' = IF Last(temporary[n]) = t THEN tangled ELSE tangled \cup {n}
        /\ original' = original
    BY <1>6, <2>0 DEF Restore
  <2>2. n \in Normalised /\ Named(n) /\ Normal[n] = n /\ n \in DOMAIN Normal
    BY <2>0, <2>1 DEF Registries, Normalised
  <2>3. \A m : ~Puts(t, m)' /\ (Puts(t, m) <=> m = n)
    <3>1. todo' = [todo EXCEPT ![t] = Tail(todo[t])] /\ half' = half /\ todo[t] # <<>>
          /\ Op(t).op = "restore"
      BY <1>6, <2>1 DEF Restore, Done, Runs
    <3>2. Controlled(todo[t], saved[t], half[t])
      BY DEF Control
    <3>3. ~half[t] /\ Rest(Tail(todo[t]), Level(todo[t], saved[t], half[t]) + Opens(Op(t)))
      BY <3>1, <3>2, ControlledParts DEF Controlled, Op
    <3>4. Tail(todo[t]) # <<>> => Plain(Head(Tail(todo[t])))
      BY <3>3, RestReady
    <3>5. Settled(t)
      BY <3>1, <3>3, <3>4 DEF Settled, Typed
    <3>6. \A m : ~Puts(t, m)'
      BY <3>5, SettledFacts
    <3>7. \A m : Puts(t, m) <=> m = n
      BY <2>0, <2>1, <3>1 DEF Puts, Runs
    <3> QED BY <3>6, <3>7
  <2>4. \A m \in DOMAIN Normal : temporary'[m] = IF m = n THEN Without(temporary[n], t) ELSE temporary[m]
    BY <2>1 DEF Typed
  <2>5. \A u \in Threads : Runs(u, "restore")' => Op(u)'.name \in Normalised /\ Named(Op(u)'.name)
    <3>1. ~Runs(t, "restore")'
      <4>1. PICK m : m = Op(t)'.name
        OBVIOUS
      <4>2. Runs(t, "restore")' => Puts(t, m)'
        BY <4>1 DEF Puts
      <4> QED BY <2>3, <4>2
    <3> QED BY <1>3, <3>1 DEF Registries
  <2>6. /\ DOMAIN registry' \subseteq Normalised
        /\ \A m \in DOMAIN registry' :
              Named(m) /\ registry'[m] # NoProvider /\ registry'[m].delay \in Nat
    <3>1. CASE original[t] # NoProvider
      BY <2>1, <2>2, <3>1 DEF Entered, Registries, Providing
    <3>2. CASE original[t] = NoProvider
      BY <2>1, <2>2, <3>2 DEF Removed, Restrict, Registries
    <3> QED BY <3>1, <3>2
  <2>7. \A m \in Normalised :
           FromName(registry', m) = IF m = n THEN original[t] ELSE FromName(registry, m)
    <3>1. ASSUME NEW m \in Normalised
          PROVE  FromName(registry', m) = IF m = n THEN original[t] ELSE FromName(registry, m)
      <4>1. Normal[m] = m
        BY DEF Normalised
      <4>2. CASE original[t] # NoProvider
        <5> DEFINE p == original[t]
        <5>1. /\ m = n => FromName(Entered(registry, n, p), m) = p
              /\ m # n => FromName(Entered(registry, n, p), m) = FromName(registry, m)
          BY <2>2, <4>1, FromNames
        <5> QED BY <2>1, <4>2, <5>1
      <4>3. CASE original[t] = NoProvider
        <5>1. /\ m = n => FromName(Removed(registry, n), m) = NoProvider
              /\ m # n => FromName(Removed(registry, n), m) = FromName(registry, m)
          BY <2>2, <4>1, FromNames
        <5> QED BY <2>1, <4>3, <5>1
      <4> QED BY <4>2, <4>3
    <3> QED BY <3>1
  <2>8. ASSUME NEW m \in Normalised \ tangled', m # n PROVE Replaced(m)'
    <3>1. Replaced(m) /\ m \in DOMAIN Normal
      BY <2>1, <2>8 DEF Registries, Normalised
    <3>2. temporary'[m] = temporary[m] /\ FromName(registry', m) = FromName(registry, m)
      BY <2>4, <2>7, <2>8, <3>1
    <3>3. \A u \in Threads : Puts(u, m)' <=> Puts(u, m)
      BY <1>2, <2>3, <2>8
    <3> QED BY <2>1, <3>1, <3>2, <3>3 DEF Replaced
  <2>9. ASSUME n \notin tangled' PROVE Replaced(n)'
    <3>0. PICK s, r, l : s = temporary[n] /\ r = temporary'[n] /\ l = Len(s)
      OBVIOUS
    <3>1. Replaced(n) /\ Last(s) = t
      BY <2>1, <2>2, <2>9, <3>0 DEF Registries
    <3>2. /\ Listed(s) /\ l \in Nat /\ (s # <<>> <=> l > 0) /\ r = Without(s, t)
          /\ \A i \in 1..l : \E u \in Threads : s[i] = u /\ Puts(u, n)
          /\ \A i, j \in 1..l : s[i] = s[j] => i = j
          /\ \A u \in Threads : Puts(u, n) => \E i \in 1..l : s[i] = u
          /\ FromName(Registered, n) = IF s = <<>> THEN FromName(registry, n) ELSE original[s[1]]
      <4>1. Listed(s) /\ r = Without(s, t)
        BY <2>2, <2>4, <3>0, <3>1 DEF Replaced
      <4> QED BY <3>0, <3>1, <4>1, ListedIs DEF Replaced
    <3>3. s # <<>> /\ s[l] = t
      <4>1. s # <<>>
        BY <2>3, <3>2
      <4> QED BY <3>0, <3>1, <3>2, <4>1, FrontListed
    <3>4. \A i \in 1..l : s[i] = t => i = l
      BY <3>2, <3>3
    <3>5. Listed(r) /\ Len(r) = l - 1 /\ \A i \in 1..(l - 1) : r[i] = s[i]
      <4>1. s[Len(s)] = t /\ \A i \in 1..Len(s) : s[i] = t => i = Len(s)
        BY <3>0, <3>3, <3>4
      <4>2. /\ Listed(Without(s, t)) /\ Len(Without(s, t)) = Len(s) - 1
            /\ \A i \in 1..(Len(s) - 1) : Without(s, t)[i] = s[i]
        BY <3>2, <3>3, <4>1, WithoutLast
      <4>3. r = Without(s, t) /\ l = Len(s)
        BY <3>0, <3>2
      <4> QED BY <4>2, <4>3
    <3>6. \A i \in 1..(l - 1) : \E u \in Threads : r[i] = u /\ Puts(u, n)'
      <4>1. ASSUME NEW i \in 1..(l - 1) PROVE \E u \in Threads : r[i] = u /\ Puts(u, n)'
        <5>1. i \in 1..l /\ i # l
          BY <3>2
        <5>2. PICK u \in Threads : s[i] = u /\ Puts(u, n)
          BY <3>2, <5>1
        <5>3. u # t
          BY <3>4, <5>1, <5>2
        <5> QED BY <1>2, <3>5, <5>2, <5>3
      <4> QED BY <4>1
    <3>7. \A i, j \in 1..(l - 1) : r[i] = r[j] => i = j
      BY <3>2, <3>5
    <3>8. ASSUME NEW u \in Threads, Puts(u, n)' PROVE \E i \in 1..(l - 1) : r[i] = u
      <4>1. u # t
        BY <2>3, <3>8
      <4>2. Puts(u, n)
        BY <1>2, <3>8, <4>1
      <4>3. PICK i \in 1..l : s[i] = u
        BY <3>2, <4>2
      <4>4. i \in 1..(l - 1)
        BY <3>2, <3>3, <4>1, <4>3
      <4> QED BY <3>5, <4>3, <4>4
    <3>9. FromName(Registered, n) = IF r = <<>> THEN FromName(registry', n) ELSE original'[r[1]]
      <4>1. FromName(Registered, n) = original[s[1]] /\ FromName(registry', n) = original[t]
        BY <2>2, <2>7, <3>2, <3>3
      <4>2. r # <<>> <=> l - 1 > 0
        BY <3>5, ListedIs
      <4>3. CASE l = 1
        BY <3>3, <4>1, <4>2, <4>3
      <4>4. CASE l # 1
        BY <2>1, <3>2, <3>3, <3>5, <4>1, <4>2, <4>4
      <4> QED BY <4>3, <4>4
    <3>10. r = temporary'[n] /\ Len(r) = l - 1 /\ Listed(r)
      BY <3>0, <3>5
    <3> QED BY <3>6, <3>7, <3>8, <3>9, <3>10 DEF Replaced
  <2>10. \A m \in Normalised \ tangled' : Replaced(m)'
    BY <2>8, <2>9
  <2> QED BY <2>1, <2>5, <2>6, <2>10 DEF Registries, Normalised, Providing
<1>7. CASE ~Register(t) /\ ~Restore(t)
  <2>1. /\ registry' = registry /\ original' = original /\ temporary' = temporary
        /\ tangled' = tangled \/ tangled' = Tangled(t)
    BY <1>7 DEF Step, EnterConfig, EnterMap, LeaveConfig, LeaveMap, LookUp, Build, Send, Clear,
                FirstStep, Transform, AppendStep, Wrap, Construct, Look, Create, shared, history
  <2>2. tangled \subseteq tangled'
    BY <2>1 DEF Tangled
  <2> QED BY <1>4, <1>7, <2>1, <2>2
<1> QED BY <1>5, <1>6, <1>7

----------------------------------------------------------------------------
(* Limiters                                                                 *)

\* Updating a configuration with a delay gives it that delay.
LEMMA UpdatedDelay ==
    ASSUME NEW reg, NEW c, NEW d \in Nat
    PROVE  Updated(reg, c, [NoOverrides EXCEPT !.delay = d]).delay = d
<1> DEFINE over == [NoOverrides EXCEPT !.delay = d]
           p == PrepareInfo(reg, over.url, over.provider)
           info == IF p.found THEN p.info ELSE NoProvider
           kept == [c EXCEPT !.key = IF KeyKept(info, over.url, c) THEN @ ELSE None]
           own == [over EXCEPT !.provider = IF p.found THEN p.name ELSE @,
                               !.url = IF info # NoProvider THEN p.url ELSE @]
           m == Merged(kept, own)
           changed == info # NoProvider /\ info.name # Normal[c.provider]
           f == [m EXCEPT !.params = Restrict(@, DOMAIN @ \cap DOMAIN info.map.specific)]
<1>1. own.delay = d
  BY DEF NoOverrides
<1>2. Updated(reg, c, over) = Validated(reg, IF changed THEN f ELSE m)
  BY DEF Updated
<1> HIDE DEF own, over, p, info, kept, changed
<1>3. m.delay = d /\ f.delay = d
  <2>1. own.delay # NoDelay
    BY <1>1 DEF NoDelay
  <2>2. m.delay = d /\ f.delay = m.delay
    BY <1>1, <2>1 DEF Merged
  <2> QED BY <2>2
<1> HIDE DEF m, f
<1>4. Validated(reg, m).delay = d /\ Validated(reg, f).delay = d
  BY <1>3 DEF Validated
<1> QED BY <1>2, <1>4 DEF over

LEMMA LimitingStep ==
    ASSUME NEW t \in Threads, Typed, Control, Registries, Limiting, Step(t)
    PROVE  Limiting'
<1>1. Moved(t)
  BY Moves
<1>2. \A u \in Threads \ {t} :
         /\ Runs(u, "create")' => Runs(u, "create")
         /\ todo[u] # <<>> => Op(u)' = Op(u)
         /\ Runs(u, "create") => todo[u] # <<>>
  BY <1>1 DEF Moved, Runs, Op
<1>3. Runs(t, "create")' => limiters' = limiters /\ Op(t)'.name \notin DOMAIN limiters
  BY <1>1 DEF Moved
\* The limiters stay, and so does who is waiting for one.
<1>4. ASSUME limiters' = limiters, raced' = raced
      PROVE  \A u \in Threads :
                (Runs(u, "create")' /\ Op(u)'.name \in DOMAIN limiters') => Op(u)'.name \in raced'
  BY <1>2, <1>3, <1>4 DEF Limiting
<1>5. ASSUME limiters' = limiters, raced' = raced, joined' = joined, meant' = meant
      PROVE  Limiting'
  BY <1>4, <1>5 DEF Limiting
\* t's SearchAPI gets the limiter of a name.
<1>6. ASSUME NEW n, NEW k, k.interval \in Nat, Joined(t, n, k)
      PROVE  /\ joined' = [joined EXCEPT ![t] = n]
             /\ meant'[t].limiter = k.id /\ meant'[t].config.delay = k.interval
             /\ \A a \in Apis \ {t} : meant'[a] = meant[a]
             /\ joined'[t] = n /\ \A u \in Threads \ {t} : joined'[u] = joined[u]
  <2> DEFINE w == WithLimiter(My(t), k)
  <2>1. w.limiter = k.id /\ w.config.delay = k.interval
    BY <1>6, UpdatedDelay DEF WithLimiter
  <2>2. meant' = [meant EXCEPT ![t] = w] /\ joined' = [joined EXCEPT ![t] = n]
    BY <1>6 DEF Joined
  <2> HIDE DEF w
  <2>3. t \in Apis
    BY DEF Apis
  <2> QED BY <2>1, <2>2, <2>3 DEF Typed
<1>7. Threads \subseteq Apis
  BY DEF Apis
<1>8. CASE Construct(t)
  <2>1. limiters' = limiters /\ raced' = raced
    BY <1>8 DEF Construct
  <2>2. CASE joined' = joined /\ meant' = meant
    BY <1>5, <2>1, <2>2
  <2>3. CASE ~(joined' = joined /\ meant' = meant)
    <3>1. joined' = [joined EXCEPT ![t] = None] /\ \E x : meant' = [meant EXCEPT ![t] = x]
      BY <1>8, <2>3 DEF Construct
    <3>2. joined'[t] = None
          /\ \A u \in Threads \ {t} : joined'[u] = joined[u] /\ meant'[u] = meant[u]
      BY <1>7, <3>1 DEF Typed
    <3> QED BY <1>4, <2>1, <3>2 DEF Limiting
  <2> QED BY <2>2, <2>3
<1>9. CASE Look(t)
  <2>1. limiters' = limiters /\ raced' = raced
    BY <1>9 DEF Look
  <2>2. CASE ProviderOf(t) \in DOMAIN limiters
    <3>1. PICK n, k : n = ProviderOf(t) /\ k = limiters[n]
      OBVIOUS
    <3>2. Joined(t, n, k) /\ k.interval \in Nat /\ n \in DOMAIN limiters
      BY <1>9, <2>2, <3>1 DEF Look, Limiting
    <3>3. /\ meant'[t].limiter = k.id /\ meant'[t].config.delay = k.interval
          /\ \A a \in Apis \ {t} : meant'[a] = meant[a]
          /\ joined'[t] = n /\ \A u \in Threads \ {t} : joined'[u] = joined[u]
      BY <1>6, <3>2
    <3> QED BY <1>4, <1>7, <2>1, <3>1, <3>2, <3>3 DEF Limiting
  <2>3. CASE ProviderOf(t) \notin DOMAIN limiters
    BY <1>5, <1>9, <2>1, <2>3 DEF Look
  <2> QED BY <2>2, <2>3
<1>10. CASE Create(t)
  <2>1. PICK n, p, k : /\ n = Op(t).name /\ p = FromName(registry, n)
                       /\ k = [id |-> t, interval |-> IF p = NoProvider THEN ThreadedDelay ELSE p.delay]
    OBVIOUS
  <2>2. /\ Runs(t, "create") /\ Joined(t, n, k)
        /\ limiters' = Entered(limiters, n, k)
        /\ raced \subseteq raced'
        /\ \A u \in Threads \ {t} : Runs(u, "create") /\ Op(u).name = n => n \in raced'
    BY <1>10, <2>1 DEF Create, Kept
  <2>3. k.interval \in Nat
    <3>1. Providing(p)
      BY <2>1, Provided
    <3> QED BY <2>1, <3>1 DEF Providing, ThreadedDelay
  <2>4. /\ DOMAIN limiters' = DOMAIN limiters \cup {n}
        /\ \A m \in DOMAIN limiters' : limiters'[m] = IF m = n THEN k ELSE limiters[m]
    BY <2>2 DEF Entered
  <2>5. /\ meant'[t].limiter = k.id /\ meant'[t].config.delay = k.interval
        /\ \A a \in Apis \ {t} : meant'[a] = meant[a]
        /\ joined'[t] = n /\ \A u \in Threads \ {t} : joined'[u] = joined[u]
    BY <1>6, <2>2, <2>3
  <2>6. n \in DOMAIN limiters => n \in raced
    BY <2>1, <2>2 DEF Limiting
  <2>7. \A m \in DOMAIN limiters' : limiters'[m].interval \in Nat
    BY <2>3, <2>4 DEF Limiting
  <2>8. ASSUME NEW u \in Threads, joined'[u] # None, joined'[u] \notin raced'
        PROVE  /\ joined'[u] \in DOMAIN limiters'
               /\ meant'[u].limiter = limiters'[joined'[u]].id
               /\ meant'[u].config.delay = limiters'[joined'[u]].interval
    <3>1. CASE u = t
      BY <2>4, <2>5, <3>1
    <3>2. CASE u # t
      <4>1. joined'[u] = joined[u] /\ meant'[u] = meant[u] /\ joined[u] \notin raced
        BY <1>7, <2>2, <2>5, <2>8, <3>2
      <4>2. /\ joined[u] \in DOMAIN limiters
            /\ meant[u].limiter = limiters[joined[u]].id
            /\ meant[u].config.delay = limiters[joined[u]].interval
        BY <2>8, <4>1 DEF Limiting
      <4>3. joined[u] # n
        BY <2>6, <4>1, <4>2
      <4> QED BY <2>4, <4>1, <4>2, <4>3
    <3> QED BY <3>1, <3>2
  <2>9. ASSUME NEW u \in Threads, Runs(u, "create")', Op(u)'.name \in DOMAIN limiters'
        PROVE  Op(u)'.name \in raced'
    <3>1. CASE u = t
      <4>1. limiters' = limiters /\ Op(t)'.name \notin DOMAIN limiters
        BY <1>3, <2>9, <3>1
      <4> QED BY <2>9, <3>1, <4>1
    <3>2. CASE u # t
      <4>1. Runs(u, "create") /\ Op(u)' = Op(u)
        BY <1>2, <2>9, <3>2
      <4> QED BY <2>2, <2>4, <2>9, <3>2, <4>1 DEF Limiting
    <3> QED BY <3>1, <3>2
  <2> QED BY <2>7, <2>8, <2>9 DEF Limiting
<1>11. CASE ~Construct(t) /\ ~Look(t) /\ ~Create(t)
  <2>1. limiters' = limiters /\ raced' = raced /\ joined' = joined /\ meant' = meant
    BY <1>11 DEF Step, EnterConfig, EnterMap, LeaveConfig, LeaveMap, LookUp, Build, Send, Clear,
                 FirstStep, Transform, AppendStep, Wrap, Register, Restore, shared, history
  <2> QED BY <1>5, <2>1
<1> QED BY <1>8, <1>9, <1>10, <1>11

----------------------------------------------------------------------------
(* Blocks                                                                   *)

\* A thread that leaves a block, and the one that it leaves.
LEMMA Inside ==
    ASSUME NEW t \in Threads, Typed, Control
    PROVE  /\ Listed(saved[t]) /\ Len(saved[t]) \in Nat /\ (saved[t] # <<>> <=> Len(saved[t]) > 0)
           /\ Runs(t, "close") => Len(saved[t]) > 0
           /\ Runs(t, "open") /\ half[t] => Len(saved[t]) > 0
           /\ Runs(t, "temporary") \/ Runs(t, "add") \/ Runs(t, "create") => saved[t] = <<>>
           /\ t \in Apis /\ uses[t] \in Apis /\ uses[t] \in {t, "shared"} /\ "shared" \notin Threads
<1>1. Controlled(todo[t], saved[t], half[t])
  BY DEF Control
<1>2. /\ Listed(saved[t]) /\ Len(saved[t]) \in Nat /\ (saved[t] # <<>> <=> Len(saved[t]) > 0)
  BY <1>1, ListedIs, ControlledParts
<1>3. todo[t] # <<>> =>
         /\ Op(t).op = "close" => saved[t] # <<>>
         /\ Op(t).op = "open" /\ half[t] => saved[t] # <<>>
         /\ Op(t).op \in {"temporary", "restore", "add", "create"} => saved[t] = <<>>
  BY <1>1, ControlledParts DEF Op
<1>4. t \in Apis /\ uses[t] \in Apis /\ uses[t] \in {t, "shared"}
  BY DEF Typed, Apis
<1>5. "shared" \notin Threads
  BY SharedAssumption
<1>6. \A x : Runs(t, x) => todo[t] # <<>> /\ Op(t).op = x
  BY DEF Runs
<1> QED BY <1>2, <1>3, <1>4, <1>5, <1>6

LEMMA Entries ==
    \A t, u, i, j : <<t, i>> = <<u, j>> => t = u /\ i = j
OBVIOUS

LEMMA OwnStep ==
    ASSUME NEW t \in Threads, Typed, Control, Registries, Own, Step(t)
    PROVE  Own'
<1>1. Moved(t)
  BY Moves
<1>2. \A u \in Threads \ {t} : saved'[u] = saved[u]
  BY <1>1 DEF Moved
<1>3. /\ Listed(saved[t]) /\ Len(saved[t]) \in Nat /\ (saved[t] # <<>> <=> Len(saved[t]) > 0)
      /\ Runs(t, "close") => Len(saved[t]) > 0
      /\ Runs(t, "temporary") \/ Runs(t, "add") \/ Runs(t, "create") => saved[t] = <<>>
      /\ t \in Apis /\ uses[t] \in Apis /\ uses[t] \in {t, "shared"} /\ "shared" \notin Threads
      /\ Threads \subseteq Apis
  BY Inside DEF Apis
<1>4. /\ t \notin tangled /\ Listed(blocks[t])
      /\ uses[t] # t => blocks[t] = <<>>
      /\ uses[t] = t => /\ Len(blocks[t]) = Len(saved[t])
                        /\ \A i \in 1..Len(blocks[t]) : blocks[t][i] = <<t, i>>
  BY DEF Own
<1>5. (Runs(t, "close") /\ tangled' = Tangled(t)) => \A u \in Threads : u \notin tangled'
  <2> SUFFICES ASSUME Runs(t, "close"), tangled' = Tangled(t) PROVE \A u \in Threads : u \notin tangled'
    OBVIOUS
  <2>1. CASE uses[t] = "shared"
    BY <1>3, <2>1 DEF Tangled, Own
  <2>2. CASE uses[t] = t
    <3>1. PICK k : k = Len(saved[t])
      OBVIOUS
    <3>2. Len(blocks[t]) = k /\ k \in Nat /\ k > 0 /\ blocks[t][k] = <<t, k>>
      BY <1>3, <1>4, <2>2, <3>1
    <3>3. Last(blocks[t]) = <<t, k>>
      BY <3>2 DEF Last
    <3>4. Last(blocks[uses[t]]) = Block(t)
      BY <2>2, <3>1, <3>3 DEF Block
    <3> QED BY <3>4 DEF Tangled, Own
  <2> QED BY <1>3, <2>1, <2>2
\* Nothing that it is about changes.
<1>6. ASSUME uses' = uses, blocks' = blocks, saved' = saved, \A u \in Threads : u \notin tangled'
      PROVE  Own'
  BY <1>6 DEF Own
\* t gets a SearchAPI of its own.
<1>7. ASSUME uses' = [uses EXCEPT ![t] = t], blocks' = blocks, saved' = saved, tangled' = tangled,
             saved[t] = <<>>
      PROVE  Own'
  <2>1. uses'[t] = t /\ \A u \in Threads \ {t} : uses'[u] = uses[u]
    BY <1>7 DEF Typed
  <2>2. Len(saved[t]) = 0 /\ Len(blocks[t]) = 0
    <3>1. Len(saved[t]) = 0
      BY <1>3, <1>7
    <3>2. blocks[t] = <<>> => Len(blocks[t]) = 0
      BY <1>4, ListedIs
    <3> QED BY <1>4, <3>1, <3>2
  <2> QED BY <1>7, <2>1, <2>2 DEF Own
<1>8. CASE EnterConfig(t)
  <2>1. PICK k, c : k = Len(saved[t]) + 1 /\ c = <<t, k>>
    OBVIOUS
  <2>2. /\ blocks' = [blocks EXCEPT ![uses[t]] = Append(blocks[uses[t]], c)]
        /\ saved' = [saved EXCEPT ![t] = Append(saved[t], My(t))]
        /\ uses' = uses /\ tangled' = tangled
    BY <1>8, <2>1 DEF EnterConfig
  <2>3. \A a \in Apis : blocks'[a] = IF a = uses[t] THEN Append(blocks[a], c) ELSE blocks[a]
    BY <1>3, <2>2 DEF Typed
  <2>4. saved'[t] = Append(saved[t], My(t))
    BY <2>2 DEF Typed
  <2>5. Len(saved'[t]) = k
    BY <1>3, <2>1, <2>4, AppendListed
  <2>6. ASSUME NEW u \in Threads, u # t \/ uses[t] # t
        PROVE  /\ Listed(blocks'[u])
               /\ uses'[u] # u => blocks'[u] = <<>>
               /\ uses'[u] = u => /\ Len(blocks'[u]) = Len(saved'[u])
                                  /\ \A i \in 1..Len(blocks'[u]) : blocks'[u][i] = <<u, i>>
    <3>1. uses[t] # u
      BY <1>3, <2>6
    <3>2. blocks'[u] = blocks[u]
      BY <1>3, <2>3, <3>1
    <3> QED BY <1>2, <2>2, <2>6, <3>2 DEF Own
  <2>7. ASSUME uses[t] = t
        PROVE  /\ Listed(blocks'[t]) /\ Len(blocks'[t]) = Len(saved'[t])
               /\ \A i \in 1..Len(blocks'[t]) : blocks'[t][i] = <<t, i>>
    <3>1. blocks'[t] = Append(blocks[t], c)
      BY <1>3, <2>3, <2>7
    <3>2. /\ Listed(blocks'[t]) /\ Len(blocks'[t]) = Len(blocks[t]) + 1
          /\ \A i \in 1..Len(blocks[t]) : blocks'[t][i] = blocks[t][i]
          /\ blocks'[t][Len(blocks[t]) + 1] = c
      BY <1>4, <3>1, AppendListed
    <3>3. Len(blocks[t]) = k - 1 /\ k - 1 \in Nat /\ k \in Nat
      BY <1>3, <1>4, <2>1, <2>7
    <3>4. \A i \in 1..k : blocks'[t][i] = <<t, i>>
      <4>1. ASSUME NEW i \in 1..k PROVE blocks'[t][i] = <<t, i>>
        <5>1. CASE i = k
          <6>1. blocks'[t][i] = c
            BY <3>2, <3>3, <5>1
          <6> QED BY <2>1, <5>1, <6>1
        <5>2. CASE i # k
          <6>1. i \in 1..Len(blocks[t])
            BY <3>3, <5>2
          <6> QED BY <1>4, <2>7, <3>2, <6>1
        <5> QED BY <5>1, <5>2
      <4> QED BY <4>1
    <3>5. Len(blocks'[t]) = k
      BY <3>2, <3>3
    <3> QED BY <2>5, <3>2, <3>4, <3>5
  <2> QED BY <2>2, <2>6, <2>7 DEF Own
<1>9. CASE LeaveMap(t)
  <2>1. PICK k, c : k = Len(saved[t]) /\ c = <<t, k>>
    OBVIOUS
  <2>2. /\ blocks' = [blocks EXCEPT ![uses[t]] = Without(blocks[uses[t]], c)]
        /\ saved' = [saved EXCEPT ![t] = Front(saved[t])]
        /\ uses' = uses /\ tangled' = Tangled(t) /\ Runs(t, "close")
    BY <1>9, <2>1 DEF LeaveMap, Block
  <2>3. \A a \in Apis : blocks'[a] = IF a = uses[t] THEN Without(blocks[a], c) ELSE blocks[a]
    BY <1>3, <2>2 DEF Typed
  <2>4. saved'[t] = Front(saved[t]) /\ k \in Nat /\ k > 0 /\ saved[t] # <<>>
    BY <1>3, <2>1, <2>2 DEF Typed
  <2>5. Len(saved'[t]) = k - 1
    BY <1>3, <2>1, <2>4, FrontListed
  <2>6. ASSUME NEW u \in Threads, u # t \/ uses[t] # t
        PROVE  /\ Listed(blocks'[u])
               /\ uses'[u] # u => blocks'[u] = <<>>
               /\ uses'[u] = u => /\ Len(blocks'[u]) = Len(saved'[u])
                                  /\ \A i \in 1..Len(blocks'[u]) : blocks'[u][i] = <<u, i>>
    <3>1. uses[t] # u
      BY <1>3, <2>6
    <3>2. blocks'[u] = blocks[u]
      BY <1>3, <2>3, <3>1
    <3> QED BY <1>2, <2>2, <2>6, <3>2 DEF Own
  <2>7. ASSUME uses[t] = t
        PROVE  /\ Listed(blocks'[t]) /\ Len(blocks'[t]) = Len(saved'[t])
               /\ \A i \in 1..Len(blocks'[t]) : blocks'[t][i] = <<t, i>>
    <3>1. blocks'[t] = Without(blocks[t], c)
      BY <1>3, <2>3, <2>7
    <3>2. Len(blocks[t]) = k /\ blocks[t][k] = c /\ \A i \in 1..k : blocks[t][i] = <<t, i>>
      BY <1>4, <2>1, <2>4, <2>7
    <3>3. \A i \in 1..k : blocks[t][i] = c => i = k
      BY <2>1, <3>2, Entries
    <3>4. blocks[t] # <<>>
      BY <1>4, <2>4, <3>2, ListedIs
    <3>5. blocks[t][Len(blocks[t])] = c /\ \A i \in 1..Len(blocks[t]) : blocks[t][i] = c => i = Len(blocks[t])
      BY <3>2, <3>3
    <3>6. /\ Listed(Without(blocks[t], c)) /\ Len(Without(blocks[t], c)) = Len(blocks[t]) - 1
          /\ \A i \in 1..(Len(blocks[t]) - 1) : Without(blocks[t], c)[i] = blocks[t][i]
      BY <1>4, <3>4, <3>5, WithoutLast
    <3>7. /\ Listed(blocks'[t]) /\ Len(blocks'[t]) = k - 1
          /\ \A i \in 1..(k - 1) : blocks'[t][i] = blocks[t][i]
      BY <3>1, <3>2, <3>6
    <3>8. \A i \in 1..(k - 1) : i \in 1..k
      BY <2>4
    <3> QED BY <2>5, <3>2, <3>7, <3>8
  <2>8. \A u \in Threads : u \notin tangled'
    BY <1>5, <2>2
  <2> QED BY <2>2, <2>6, <2>7, <2>8 DEF Own
<1>10. CASE LeaveConfig(t)
  BY <1>5, <1>6, <1>10 DEF LeaveConfig
<1>11. CASE Restore(t)
  <2>1. PICK n : n = Op(t).name
    OBVIOUS
  <2>2. uses' = uses /\ blocks' = blocks /\ saved' = saved /\ tangled' \subseteq tangled \cup {n}
        /\ Runs(t, "restore")
    BY <1>11, <2>1 DEF Restore
  <2>3. n \in DOMAIN Normal
    BY <2>1, <2>2 DEF Registries, Normalised
  <2>4. n \notin Threads
    BY <1>3, <2>3, SharedAssumption
  <2>5. \A u \in Threads : u \notin tangled'
    BY <2>2, <2>4 DEF Own
  <2> QED BY <1>6, <2>2, <2>5
<1>12. CASE Construct(t)
  <2>1. /\ blocks' = blocks /\ saved' = saved /\ tangled' = tangled /\ saved[t] = <<>>
        /\ uses' = uses \/ uses' = [uses EXCEPT ![t] = t]
    BY <1>3, <1>12 DEF Construct
  <2> QED BY <1>6, <1>7, <2>1 DEF Own
<1>13. CASE Look(t)
  <2>1. /\ blocks' = blocks /\ saved' = saved /\ tangled' = tangled /\ saved[t] = <<>>
        /\ uses' = uses \/ uses' = [uses EXCEPT ![t] = t]
    BY <1>3, <1>13 DEF Look, Joined
  <2> QED BY <1>6, <1>7, <2>1 DEF Own
<1>14. CASE Create(t)
  <2>1. /\ blocks' = blocks /\ saved' = saved /\ tangled' = tangled /\ saved[t] = <<>>
        /\ uses' = [uses EXCEPT ![t] = t]
    BY <1>3, <1>14 DEF Create, Joined
  <2> QED BY <1>7, <2>1
<1>15. CASE ~EnterConfig(t) /\ ~LeaveMap(t) /\ ~LeaveConfig(t) /\ ~Restore(t) /\ ~Construct(t)
            /\ ~Look(t) /\ ~Create(t)
  <2>1. uses' = uses /\ blocks' = blocks /\ saved' = saved /\ tangled' = tangled
    BY <1>15 DEF Step, EnterMap, LookUp, Build, Send, Clear, FirstStep, Transform, AppendStep,
                 Wrap, Register, shared, history
  <2> QED BY <1>6, <2>1 DEF Own
<1> QED BY <1>8, <1>9, <1>10, <1>11, <1>12, <1>13, <1>14, <1>15

LEMMA Forms ==
    ASSUME NEW x, NEW l, NEW c, NEW m, NEW q, Formed(x, l)
    PROVE  /\ Formed(Configured(x, c), l) /\ Configured(x, c).config = c
           /\ Formed(Switched(x, m, q), l) /\ Switched(x, m, q).config = x.config
           /\ Switched(x, m, q).map = m /\ Switched(x, m, q).query = q
<1>1. PICK f, g, h : x = [config |-> f, map |-> g, query |-> h, limiter |-> l]
  BY DEF Formed
<1>2. Configured(x, c) = [config |-> c, map |-> g, query |-> h, limiter |-> l]
  BY <1>1 DEF Configured
<1>3. Switched(x, m, q) = [config |-> f, map |-> m, query |-> q, limiter |-> l]
  <2>1. PICK y : y = [config |-> f, map |-> m, query |-> h, limiter |-> l]
    OBVIOUS
  <2>2. [x EXCEPT !.map = m] = y
    BY <1>1, <2>1
  <2>3. [y EXCEPT !.query = q] = [config |-> f, map |-> m, query |-> q, limiter |-> l]
    BY <2>1
  <2>4. Switched(x, m, q) = [[x EXCEPT !.map = m] EXCEPT !.query = q]
    BY Zenon DEF Switched
  <2> QED BY <2>2, <2>3, <2>4
<1> QED BY <1>1, <1>2, <1>3 DEF Formed

\* A step of t leaves what it does not work with.
LEMMA Elsewhere ==
    ASSUME NEW t \in Threads, NEW a \in Apis, Typed, Counted(a), Chained(a),
           uses[t] # a \/ Len(saved[t]) = 0, uses'[t] # a,
           blocks'[a] = blocks[a], api'[a] = api[a], meant'[a] = meant[a],
           \A u \in Threads \ {t} : /\ saved'[u] = saved[u] /\ uses'[u] = uses[u]
                                    /\ Closing(u)' => Closing(u)
    PROVE  Counted(a)' /\ Chained(a)'
<1> DEFINE l == Len(blocks[a])
<1>1. l \in Nat /\ Listed(blocks[a])
  BY ListedIs DEF Counted
<1>2. \A i \in 1..l : \E u \in Threads \ {t} : \E k \in 1..Len(saved[u]) :
         uses[u] = a /\ blocks[a][i] = <<u, k>>
  <2>1. ASSUME NEW i \in 1..l
        PROVE  \E u \in Threads \ {t} : \E k \in 1..Len(saved[u]) :
                  uses[u] = a /\ blocks[a][i] = <<u, k>>
    <3>1. \A j \in 1..Len(blocks[a]) :
             \E u \in Threads : \E k \in 1..Len(saved[u]) : uses[u] = a /\ blocks[a][j] = <<u, k>>
      BY DEF Counted, Owned
    <3>2. PICK u \in Threads : \E k \in 1..Len(saved[u]) : uses[u] = a /\ blocks[a][i] = <<u, k>>
      BY <3>1
    <3>3. u # t
      BY <3>2
    <3> QED BY <3>2, <3>3
  <2> QED BY <2>1
<1>3. Counted(a)'
  <2>0. PICK s, n : s = blocks[a] /\ n = l
    OBVIOUS
  <2>1. Owned(a, s, n)'
    <3>1. ASSUME NEW i \in 1..n
          PROVE  \E u \in Threads : \E k \in 1..Len(saved'[u]) : uses'[u] = a /\ s[i] = <<u, k>>
      <4>1. PICK u \in Threads \ {t} : \E k \in 1..Len(saved[u]) :
               uses[u] = a /\ blocks[a][i] = <<u, k>>
        BY <1>2, <2>0
      <4> QED BY <2>0, <4>1
    <3> QED BY <3>1, Zenon DEF Owned
  <2>2. Present(a, s, n)'
    <3>1. ASSUME NEW u \in Threads, NEW k \in 1..Len(saved'[u]), uses'[u] = a
          PROVE  \E i \in 1..n : s[i] = <<u, k>>
      <4>1. u # t
        BY <3>1
      <4>2. k \in 1..Len(saved[u]) /\ uses[u] = a
        BY <3>1, <4>1
      <4>3. Present(a, s, n)
        BY <2>0 DEF Counted
      <4> QED BY <4>2, <4>3 DEF Present
    <3> QED BY <3>1 DEF Present
  <2>3. Distinct(s, n)
    BY <2>0 DEF Counted
  <2> QED BY <1>1, <2>0, <2>1, <2>2, <2>3 DEF Counted
<1>4. \A i \in 0..l : Under(a, i)' = Under(a, i)
  <2>1. ASSUME NEW i \in 0..l PROVE Under(a, i)' = Under(a, i)
    <3>1. CASE i < l
      <4>1. i + 1 \in 1..l
        BY <1>1, <3>1
      <4>2. PICK u \in Threads \ {t} : \E k \in 1..Len(saved[u]) : blocks[a][i + 1] = <<u, k>>
        BY <1>2, <4>1
      <4>3. saved'[blocks'[a][i + 1][1]] = saved[blocks[a][i + 1][1]]
        BY <4>2
      <4> QED BY <3>1, <4>3 DEF Under
    <3>2. CASE ~(i < l)
      BY <3>2 DEF Under
    <3> QED BY <3>1, <3>2
  <2> QED BY <2>1
<1>5. 0 \in 0..l /\ \A i \in 1..l : i \in 0..l
  BY <1>1
<1>6. \A u \in Threads : \A i \in 1..l :
         (Closing(u)' /\ blocks'[a][i] = Block(u)') =>
             Under(a, i)'.config = saved'[u][Len(saved'[u])].config
  <2>1. ASSUME NEW u \in Threads, NEW i \in 1..l, Closing(u)', blocks'[a][i] = Block(u)'
        PROVE  Under(a, i)'.config = saved'[u][Len(saved'[u])].config
    <3>0. PICK v \in Threads \ {t} : \E k \in 1..Len(saved[v]) : blocks[a][i] = <<v, k>>
      BY <1>2, <2>1
    <3>1. PICK k \in 1..Len(saved[v]) : blocks[a][i] = <<v, k>>
      BY <3>0
    <3>2. PICK n : n = Len(saved'[u])
      OBVIOUS
    <3>3. <<v, k>> = <<u, n>>
      BY <2>1, <3>1, <3>2 DEF Block
    <3>4. u # t
      BY <3>3, Entries
    <3>5. saved'[u] = saved[u] /\ Closing(u) /\ blocks[a][i] = Block(u)
      BY <2>1, <3>4 DEF Block
    <3>6. Under(a, i).config = saved[u][Len(saved[u])].config
      BY <3>5 DEF Chained
    <3> QED BY <1>4, <1>5, <3>5, <3>6
  <2> QED BY <2>1
<1>7. Under(a, 0)' = meant'[a] /\ \A i \in 0..l : Formed(Under(a, i)', meant'[a].limiter)
  BY <1>4, <1>5 DEF Chained
<1> QED BY <1>3, <1>6, <1>7 DEF Chained

\* A step that changes neither the SearchAPI nor any block, and closes none.
LEMMA Unaffected ==
    ASSUME NEW a \in Apis, Counted(a), Chained(a), saved' = saved, uses' = uses,
           blocks'[a] = blocks[a], api'[a] = api[a], meant'[a] = meant[a],
           \A u \in Threads : Closing(u)' => Closing(u)
    PROVE  Counted(a)' /\ Chained(a)'
<1>1. Counted(a)'
  <2>0. PICK s, n : s = blocks[a] /\ n = Len(blocks[a])
    OBVIOUS
  <2>1. Owned(a, s, n)' <=> Owned(a, s, n)
    BY DEF Owned
  <2>2. Present(a, s, n)' <=> Present(a, s, n)
    BY DEF Present
  <2> QED BY <2>0, <2>1, <2>2 DEF Counted
<1>2. \A i : Under(a, i)' = Under(a, i)
  BY DEF Under
<1>3. \A u \in Threads : Block(u)' = Block(u)
  BY DEF Block
<1>4. Chained(a)'
  BY <1>2, <1>3 DEF Chained
<1> QED BY <1>1, <1>4

\* Entering a block adds it, and what it found, on top.
LEMMA NestedEnter ==
    ASSUME NEW t \in Threads, NEW b \in Apis, b = uses[t], Typed, Control, Moved(t),
           Counted(b), Chained(b), EnterConfig(t)
    PROVE  Counted(b)' /\ Chained(b)'
<1>0. PICK s, l, k, c, x : /\ s = blocks[b] /\ l = Len(blocks[b]) /\ k = Len(saved[t]) + 1
                           /\ c = <<t, k>> /\ x = api[b]
  OBVIOUS
<1>1. /\ \A u \in Threads \ {t} : saved'[u] = saved[u] /\ uses'[u] = uses[u]
      /\ uses'[t] = b /\ saved'[t] = Append(saved[t], x) /\ meant'[b] = meant[b]
      /\ blocks'[b] = Append(s, c)
      /\ \E f : api'[b] = Configured(x, f)
  BY <1>0 DEF EnterConfig, Typed, My
<1>2. Listed(s) /\ l \in Nat /\ l = Len(s)
  BY <1>0, ListedIs DEF Counted
<1>3. Listed(saved[t]) /\ k - 1 \in Nat /\ k \in Nat /\ k - 1 = Len(saved[t]) /\ k > 0
  BY <1>0, Inside
<1>4. PICK r : r = blocks'[b]
  OBVIOUS
<1>5. Listed(r) /\ Len(r) = l + 1 /\ (\A i \in 1..l : r[i] = s[i]) /\ r[l + 1] = c
  BY <1>1, <1>2, <1>4, AppendListed
<1>6. Len(saved'[t]) = k /\ (\A i \in 1..(k - 1) : saved'[t][i] = saved[t][i]) /\ saved'[t][k] = x
  <2>1. /\ Len(Append(saved[t], x)) = Len(saved[t]) + 1
        /\ \A i \in 1..Len(saved[t]) : Append(saved[t], x)[i] = saved[t][i]
        /\ Append(saved[t], x)[Len(saved[t]) + 1] = x
    BY <1>3, AppendListed
  <2> QED BY <1>0, <1>1, <1>3, <2>1
<1>7. ~Closing(t)' /\ \A u \in Threads \ {t} : Closing(u)' => Closing(u)
  BY DEF Moved, EnterConfig, LeaveConfig, Closing, Runs, Op
<1>8. /\ \A i \in 1..l : \E u \in Threads : \E j \in 1..Len(saved[u]) : uses[u] = b /\ s[i] = <<u, j>>
      /\ \A i, j \in 1..l : s[i] = s[j] => i = j
      /\ \A u \in Threads : \A j \in 1..Len(saved[u]) : uses[u] = b => \E i \in 1..l : s[i] = <<u, j>>
  <2>1. Owned(b, s, l) /\ Distinct(s, l) /\ Present(b, s, l)
    BY <1>0 DEF Counted
  <2> QED BY <2>1 DEF Owned, Distinct, Present
<1>9. \A u \in Threads : \A j \in 1..Len(saved[u]) :
         j \in 1..Len(saved'[u]) /\ saved'[u][j] = saved[u][j] /\ <<u, j>> # c
  <2>1. ASSUME NEW u \in Threads, NEW j \in 1..Len(saved[u])
        PROVE  j \in 1..Len(saved'[u]) /\ saved'[u][j] = saved[u][j] /\ <<u, j>> # c
    <3>1. CASE u = t
      <4>1. j \in 1..(k - 1)
        BY <1>3, <3>1
      <4>2. j # k /\ j \in 1..k
        BY <1>3, <4>1
      <4> QED BY <1>0, <1>6, <3>1, <4>1, <4>2, Entries
    <3>2. CASE u # t
      BY <1>0, <1>1, <3>2, Entries
    <3> QED BY <3>1, <3>2
  <2> QED BY <2>1
<1>10. \A i \in 1..l : s[i] # c
  <2>1. ASSUME NEW i \in 1..l PROVE s[i] # c
    <3>1. PICK u \in Threads : \E j \in 1..Len(saved[u]) : s[i] = <<u, j>>
      BY <1>8
    <3> QED BY <1>9, <3>1
  <2> QED BY <2>1
<1>11. Counted(b)'
  <2>1. ASSUME NEW i \in 1..(l + 1)
        PROVE  \E u \in Threads : \E j \in 1..Len(saved'[u]) : uses'[u] = b /\ r[i] = <<u, j>>
    <3>1. CASE i = l + 1
      <4>1. k \in 1..Len(saved'[t])
        BY <1>3, <1>6
      <4> QED BY <1>0, <1>1, <1>5, <3>1, <4>1
    <3>2. CASE i # l + 1
      <4>1. i \in 1..l
        BY <1>2, <3>2
      <4>2. PICK u \in Threads : \E j \in 1..Len(saved[u]) : uses[u] = b /\ s[i] = <<u, j>>
        BY <1>8, <4>1
      <4>3. uses'[u] = b /\ \E j \in 1..Len(saved'[u]) : s[i] = <<u, j>>
        BY <1>1, <1>9, <4>2
      <4> QED BY <1>5, <4>1, <4>3
    <3> QED BY <3>1, <3>2
  <2>2. \A i, j \in 1..(l + 1) : r[i] = r[j] => i = j
    <3>1. \A i \in 1..(l + 1) : i = l + 1 \/ (i \in 1..l /\ r[i] = s[i])
      BY <1>2, <1>5
    <3> QED BY <1>5, <1>8, <1>10, <3>1
  <2>3. ASSUME NEW u \in Threads, NEW j \in 1..Len(saved'[u]), uses'[u] = b
        PROVE  \E i \in 1..(l + 1) : r[i] = <<u, j>>
    <3>1. CASE u = t /\ j = k
      <4>1. l + 1 \in 1..(l + 1)
        BY <1>2
      <4> QED BY <1>0, <1>5, <3>1, <4>1
    <3>2. CASE ~(u = t /\ j = k)
      <4>1. j \in 1..Len(saved[u]) /\ uses[u] = b
        <5>1. CASE u = t
          BY <1>0, <1>3, <1>6, <2>3, <3>2, <5>1
        <5>2. CASE u # t
          BY <1>1, <2>3, <5>2
        <5> QED BY <5>1, <5>2
      <4>2. PICK i \in 1..l : s[i] = <<u, j>>
        BY <1>8, <4>1
      <4>3. i \in 1..(l + 1)
        BY <1>2
      <4> QED BY <1>5, <4>2, <4>3
    <3> QED BY <3>1, <3>2
  <2>4. PICK n : n = l + 1
    OBVIOUS
  <2>5. Owned(b, r, n)'
    BY <2>1, <2>4 DEF Owned
  <2>6. Distinct(r, n)
    BY <2>2, <2>4 DEF Distinct
  <2>7. Present(b, r, n)'
    BY <2>3, <2>4 DEF Present
  <2> QED BY <1>4, <1>5, <2>4, <2>5, <2>6, <2>7 DEF Counted
<1>12. \A i \in 0..l : Under(b, i)' = Under(b, i)
  <2>1. ASSUME NEW i \in 0..l PROVE Under(b, i)' = Under(b, i)
    <3>1. Under(b, i)' = saved'[r[i + 1][1]][r[i + 1][2]]
      <4>1. i < Len(r)
        BY <1>2, <1>5
      <4> QED BY <1>4, <4>1 DEF Under
    <3>2. CASE i = l
      <4>1. Under(b, i)' = saved'[t][k]
        BY <1>0, <1>5, <3>1, <3>2
      <4>2. Under(b, i) = x
        BY <1>0, <1>2, <3>2 DEF Under
      <4> QED BY <1>6, <4>1, <4>2
    <3>3. CASE i # l
      <4>1. i + 1 \in 1..l /\ i < l
        BY <1>2, <3>3
      <4>2. PICK u \in Threads : \E j \in 1..Len(saved[u]) : uses[u] = b /\ s[i + 1] = <<u, j>>
        BY <1>8, <4>1
      <4>3. saved'[s[i + 1][1]][s[i + 1][2]] = saved[s[i + 1][1]][s[i + 1][2]]
        BY <1>9, <4>2
      <4>4. Under(b, i) = saved[s[i + 1][1]][s[i + 1][2]]
        BY <1>0, <4>1 DEF Under
      <4> QED BY <1>5, <3>1, <4>1, <4>3, <4>4
    <3> QED BY <3>2, <3>3
  <2> QED BY <2>1
<1>13. PICK z : z = meant[b].limiter
  OBVIOUS
<1>14. Under(b, 0) = meant[b] /\ \A i \in 0..l : Formed(Under(b, i), z)
  BY <1>0, <1>13 DEF Chained
<1>15. Formed(Under(b, l + 1)', z)
  <2>1. Under(b, l + 1)' = api'[b]
    <3>1. ~(l + 1 < Len(r))
      BY <1>2, <1>5
    <3> QED BY <1>4, <3>1 DEF Under
  <2>2. Under(b, l) = x
    BY <1>0, <1>2 DEF Under
  <2>3. l \in 0..l
    BY <1>2
  <2>4. Formed(x, z)
    BY <1>14, <2>2, <2>3
  <2>5. PICK f : api'[b] = Configured(x, f)
    BY <1>1
  <2>6. Formed(Configured(x, f), z)
    BY <2>4, Forms
  <2> QED BY <2>1, <2>5, <2>6
<1>16. \A i \in 0..(l + 1) : Formed(Under(b, i)', z)
  <2>1. \A i \in 0..(l + 1) : i \in 0..l \/ i = l + 1
    BY <1>2
  <2> QED BY <1>12, <1>14, <1>15, <2>1
<1>17. ASSUME NEW u \in Threads, NEW i \in 1..(l + 1), Closing(u)', r[i] = Block(u)'
       PROVE  Under(b, i)'.config = saved'[u][Len(saved'[u])].config
  <2>1. u # t /\ Closing(u) /\ saved'[u] = saved[u]
    BY <1>1, <1>7, <1>17
  <2>2. r[i] = Block(u)
    BY <1>17, <2>1 DEF Block
  <2>3. i # l + 1
    BY <1>0, <1>5, <2>1, <2>2, Entries DEF Block
  <2>4. i \in 1..l /\ i \in 0..l
    BY <1>2, <2>3
  <2>5. s[i] = Block(u)
    BY <1>5, <2>2, <2>4
  <2>6. Under(b, i).config = saved[u][Len(saved[u])].config
    BY <1>0, <2>1, <2>4, <2>5 DEF Chained
  <2> QED BY <1>12, <2>1, <2>4, <2>6
<1>18. Under(b, 0)' = meant'[b]
  BY <1>1, <1>2, <1>12, <1>14
<1>19. Chained(b)'
  BY <1>1, <1>4, <1>5, <1>13, <1>16, <1>17, <1>18 DEF Chained
<1> QED BY <1>11, <1>19

\* A step that changes nothing but the SearchAPI itself.
LEMMA Topped ==
    ASSUME NEW b \in Apis, Counted(b), Chained(b), saved' = saved, uses' = uses,
           blocks' = blocks, meant'[b] = meant[b]
    PROVE  /\ Counted(b)'
           /\ Len(blocks[b]) \in Nat /\ Listed(blocks[b])
           /\ \A i \in 0..Len(blocks[b]) :
                 Under(b, i)' = IF i = Len(blocks[b]) THEN api'[b] ELSE Under(b, i)
           /\ Under(b, Len(blocks[b])) = api[b]
           /\ \A u \in Threads : Block(u)' = Block(u)
<1>0. PICK s, l : s = blocks[b] /\ l = Len(blocks[b])
  OBVIOUS
<1>1. Counted(b)'
  <2>1. Owned(b, s, l)' <=> Owned(b, s, l)
    BY DEF Owned
  <2>2. Present(b, s, l)' <=> Present(b, s, l)
    BY DEF Present
  <2> QED BY <1>0, <2>1, <2>2 DEF Counted
<1>2. l \in Nat /\ Listed(s)
  BY <1>0, ListedIs DEF Counted
<1>3. \A i \in 0..l : Under(b, i)' = IF i = l THEN api'[b] ELSE Under(b, i)
  BY <1>0, <1>2 DEF Under
<1>4. Under(b, l) = api[b]
  BY <1>0, <1>2 DEF Under
<1>5. \A u \in Threads : Block(u)' = Block(u)
  BY DEF Block
<1> QED BY <1>0, <1>1, <1>2, <1>3, <1>4, <1>5

\* A block's parameter map and query go to the SearchAPI alone.
LEMMA NestedWithin ==
    ASSUME NEW t \in Threads, NEW b \in Apis, b = uses[t], Typed, Control, Moved(t),
           Counted(b), Chained(b), EnterMap(t)
    PROVE  Counted(b)' /\ Chained(b)'
<1>0. PICK s, l, z : s = blocks[b] /\ l = Len(blocks[b]) /\ z = meant[b].limiter
  OBVIOUS
<1>1. /\ saved' = saved /\ uses' = uses /\ blocks' = blocks /\ meant' = meant
      /\ \E m, q : api'[b] = Switched(api[b], m, q)
      /\ \A u \in Threads : Closing(u)' => Closing(u)
  <2>1. /\ saved' = saved /\ uses' = uses /\ blocks' = blocks /\ meant' = meant
        /\ \E m, q : api'[b] = Switched(api[b], m, q)
    BY DEF EnterMap, history, Typed
  <2>2. \A u \in Threads \ {t} : Closing(u)' => Closing(u)
    BY DEF Moved, Closing, Runs, Op
  <2>3. ~LeaveConfig(t)
    BY DEF EnterMap, LeaveConfig, Runs
  <2> QED BY <2>1, <2>2, <2>3 DEF Moved
<1>2. /\ Counted(b)' /\ l \in Nat /\ Listed(s)
      /\ \A i \in 0..l : Under(b, i)' = IF i = l THEN api'[b] ELSE Under(b, i)
      /\ Under(b, l) = api[b] /\ \A u \in Threads : Block(u)' = Block(u)
  BY <1>0, <1>1, Topped
<1>3. Under(b, 0) = meant[b] /\ \A i \in 0..l : Formed(Under(b, i), z)
  BY <1>0 DEF Chained
<1>4. l > 0
  <2>1. Len(saved[t]) > 0 /\ Len(saved[t]) \in Nat
    BY Inside DEF EnterMap
  <2>2. Present(b, s, l)
    BY <1>0 DEF Counted
  <2>3. PICK k : k = Len(saved[t]) /\ k \in 1..Len(saved[t])
    BY <2>1
  <2>4. \E i \in 1..l : s[i] = <<t, k>>
    BY <2>2, <2>3 DEF Present
  <2> QED BY <1>2, <2>4
<1>5. api'[b].config = api[b].config /\ Formed(api'[b], z)
  <2>1. PICK m, q : api'[b] = Switched(api[b], m, q)
    BY <1>1
  <2>2. Formed(api[b], z)
    BY <1>2, <1>3
  <2>3. Formed(Switched(api[b], m, q), z) /\ Switched(api[b], m, q).config = api[b].config
    BY <2>2, Forms
  <2> QED BY <2>1, <2>3
<1>6. ASSUME NEW u \in Threads, NEW i \in 1..l, Closing(u)', s[i] = Block(u)'
      PROVE  Under(b, i)'.config = saved'[u][Len(saved'[u])].config
  <2>1. Under(b, i).config = saved[u][Len(saved[u])].config
    BY <1>0, <1>1, <1>2, <1>6 DEF Chained
  <2>2. i \in 0..l
    BY <1>2
  <2>3. Under(b, i)'.config = Under(b, i).config
    BY <1>2, <1>5, <2>2
  <2> QED BY <1>1, <2>1, <2>3
<1>7. \A i \in 0..l : Formed(Under(b, i)', z)
  BY <1>2, <1>3, <1>5
<1>8. Under(b, 0)' = meant'[b]
  BY <1>1, <1>2, <1>3, <1>4
<1>9. s = blocks'[b] /\ l = Len(blocks'[b]) /\ z = meant'[b].limiter
  BY <1>0, <1>1
<1>10. Chained(b)'
  BY <1>6, <1>7, <1>8, <1>9 DEF Chained
<1> QED BY <1>2, <1>10

\* A block that is closed where it is the last one.
LEMMA LastOne ==
    ASSUME NEW t \in Threads, NEW b \in Apis, b = uses[t], Typed, Control, Counted(b),
           Runs(t, "close"), b \notin tangled', tangled' = Tangled(t)
    PROVE  /\ Len(blocks[b]) \in Nat /\ Len(blocks[b]) > 0
           /\ Len(saved[t]) \in Nat /\ Len(saved[t]) > 0
           /\ blocks[b][Len(blocks[b])] = <<t, Len(saved[t])>>
           /\ \A i \in 1..Len(blocks[b]) :
                 blocks[b][i] = <<t, Len(saved[t])>> => i = Len(blocks[b])
<1>0. PICK s, l, k : s = blocks[b] /\ l = Len(blocks[b]) /\ k = Len(saved[t])
  OBVIOUS
<1>1. k \in Nat /\ k > 0
  BY <1>0, Inside
<1>2. Listed(s) /\ l = Len(s) /\ l \in Nat
  BY <1>0, ListedIs DEF Counted
<1>3. Last(s) = <<t, k>>
  BY <1>0 DEF Tangled, Block
<1>4. Owned(b, s, l) /\ Distinct(s, l) /\ Present(b, s, l)
  BY <1>0 DEF Counted
<1>5. PICK i \in 1..l : s[i] = <<t, k>>
  <2>1. k \in 1..Len(saved[t])
    BY <1>0, <1>1
  <2> QED BY <1>4, <2>1 DEF Present
<1>6. l > 0 /\ s[l] = <<t, k>>
  BY <1>2, <1>3, <1>5 DEF Last
<1>7. \A j \in 1..l : s[j] = <<t, k>> => j = l
  <2>1. l \in 1..l
    BY <1>2, <1>6
  <2> QED BY <1>4, <1>6, <2>1 DEF Distinct
<1> QED BY <1>0, <1>1, <1>2, <1>6, <1>7

\* A block that closes first puts the configuration back.
LEMMA NestedClose ==
    ASSUME NEW t \in Threads, NEW b \in Apis, b = uses[t], Typed, Control, Moved(t),
           Counted(b), Chained(b), LeaveConfig(t), b \notin tangled'
    PROVE  Counted(b)' /\ Chained(b)'
<1>0. PICK s, l, z, k : /\ s = blocks[b] /\ l = Len(blocks[b]) /\ z = meant[b].limiter
                        /\ k = Len(saved[t])
  OBVIOUS
<1>1. /\ saved' = saved /\ uses' = uses /\ blocks' = blocks /\ meant' = meant
      /\ api'[b] = Configured(api[b], saved[t][k].config)
      /\ Runs(t, "close") /\ tangled' = Tangled(t)
      /\ \A u \in Threads \ {t} : Closing(u)' => Closing(u)
  <2>1. /\ saved' = saved /\ uses' = uses /\ blocks' = blocks /\ meant' = meant
        /\ api'[b] = Configured(api[b], Last(saved[t]).config)
        /\ Runs(t, "close") /\ tangled' = Tangled(t)
    BY DEF LeaveConfig, Typed
  <2>2. \A u \in Threads \ {t} : Closing(u)' => Closing(u)
    BY DEF Moved, Closing, Runs, Op
  <2> QED BY <1>0, <2>1, <2>2 DEF Last
<1>2. /\ Counted(b)' /\ l \in Nat /\ Listed(s)
      /\ \A i \in 0..l : Under(b, i)' = IF i = l THEN api'[b] ELSE Under(b, i)
      /\ Under(b, l) = api[b] /\ \A u \in Threads : Block(u)' = Block(u)
  BY <1>0, <1>1, Topped
<1>3. Under(b, 0) = meant[b] /\ \A i \in 0..l : Formed(Under(b, i), z)
  BY <1>0 DEF Chained
<1>4. /\ l > 0 /\ s[l] = <<t, k>> /\ \A i \in 1..l : s[i] = <<t, k>> => i = l
  BY <1>0, <1>1, LastOne
<1>5. api'[b].config = saved[t][k].config /\ Formed(api'[b], z)
  <2>1. PICK f : f = saved[t][k].config
    OBVIOUS
  <2>2. Formed(api[b], z)
    BY <1>2, <1>3
  <2>3. Formed(Configured(api[b], f), z) /\ Configured(api[b], f).config = f
    BY <2>2, Forms
  <2> QED BY <1>1, <2>1, <2>3
<1>6. ASSUME NEW u \in Threads, NEW i \in 1..l, Closing(u)', s[i] = Block(u)'
      PROVE  Under(b, i)'.config = saved'[u][Len(saved'[u])].config
  <2>0. i \in 0..l /\ s[i] = Block(u)
    BY <1>2, <1>6
  <2>1. CASE u = t
    <3>1. s[i] = <<t, k>>
      BY <1>0, <2>0, <2>1 DEF Block
    <3>2. i = l
      BY <1>4, <3>1
    <3> QED BY <1>0, <1>1, <1>2, <1>5, <2>0, <2>1, <3>2
  <2>2. CASE u # t
    <3>1. PICK n : n = Len(saved[u])
      OBVIOUS
    <3>2. s[i] = <<u, n>>
      BY <2>0, <3>1 DEF Block
    <3>3. i # l
      BY <1>4, <2>2, <3>2, Entries
    <3>4. Under(b, i).config = saved[u][Len(saved[u])].config
      BY <1>0, <1>1, <1>6, <2>0, <2>2 DEF Chained
    <3> QED BY <1>1, <1>2, <2>0, <3>3, <3>4
  <2> QED BY <2>1, <2>2
<1>7. \A i \in 0..l : Formed(Under(b, i)', z)
  BY <1>2, <1>3, <1>5
<1>8. Under(b, 0)' = meant'[b]
  BY <1>1, <1>2, <1>3, <1>4
<1>9. s = blocks'[b] /\ l = Len(blocks'[b]) /\ z = meant'[b].limiter
  BY <1>0, <1>1
<1>10. Chained(b)'
  BY <1>6, <1>7, <1>8, <1>9 DEF Chained
<1> QED BY <1>2, <1>10

\* ... then the map and the query: the SearchAPI is what the block had found.
LEMMA NestedLeave ==
    ASSUME NEW t \in Threads, NEW b \in Apis, b = uses[t], Typed, Control, Moved(t),
           Counted(b), Chained(b), LeaveMap(t), b \notin tangled'
    PROVE  Counted(b)' /\ Chained(b)'
<1>0. PICK s, l, z, k, c : /\ s = blocks[b] /\ l = Len(blocks[b]) /\ z = meant[b].limiter
                           /\ k = Len(saved[t]) /\ c = <<t, k>>
  OBVIOUS
<1>1. /\ \A u \in Threads \ {t} : saved'[u] = saved[u] /\ uses'[u] = uses[u]
      /\ uses'[t] = b /\ saved'[t] = Front(saved[t]) /\ meant'[b] = meant[b]
      /\ blocks'[b] = Without(s, c)
      /\ api'[b] = Switched(api[b], saved[t][k].map, saved[t][k].query)
      /\ Runs(t, "close") /\ half[t] /\ tangled' = Tangled(t)
  <2>1. /\ \A u \in Threads \ {t} : saved'[u] = saved[u] /\ uses'[u] = uses[u]
        /\ uses'[t] = b /\ saved'[t] = Front(saved[t]) /\ meant'[b] = meant[b]
        /\ blocks'[b] = Without(s, Block(t))
        /\ api'[b] = Switched(api[b], Last(saved[t]).map, Last(saved[t]).query)
        /\ Runs(t, "close") /\ half[t] /\ tangled' = Tangled(t)
    BY <1>0 DEF LeaveMap, PutBack, Typed
  <2> QED BY <1>0, <2>1 DEF Last, Block
<1>2. /\ l \in Nat /\ l > 0 /\ k \in Nat /\ k > 0 /\ s[l] = c
      /\ \A i \in 1..l : s[i] = c => i = l
  BY <1>0, <1>1, LastOne
<1>3. Listed(s) /\ Listed(saved[t]) /\ s # <<>> /\ saved[t] # <<>>
  <2>1. Listed(s) /\ Listed(saved[t])
    BY <1>0, Inside DEF Counted
  <2> QED BY <1>0, <1>2, <2>1, ListedIs
<1>4. PICK r : r = blocks'[b]
  OBVIOUS
<1>5. Listed(r) /\ Len(r) = l - 1 /\ \A i \in 1..(l - 1) : r[i] = s[i]
  <2>1. s[Len(s)] = c /\ \A i \in 1..Len(s) : s[i] = c => i = Len(s)
    BY <1>0, <1>2
  <2>2. /\ Listed(Without(s, c)) /\ Len(Without(s, c)) = Len(s) - 1
        /\ \A i \in 1..(Len(s) - 1) : Without(s, c)[i] = s[i]
    BY <1>3, <2>1, WithoutLast
  <2> QED BY <1>0, <1>1, <1>4, <2>2
<1>6. Len(saved'[t]) = k - 1 /\ \A i \in 1..(k - 1) : saved'[t][i] = saved[t][i]
  BY <1>0, <1>1, <1>3, FrontListed
<1>7. ~Closing(t)' /\ \A u \in Threads \ {t} : Closing(u)' => Closing(u)
  BY <1>1 DEF Moved, LeaveConfig, Closing, Runs, Op
<1>8. /\ \A i \in 1..l : \E u \in Threads : \E j \in 1..Len(saved[u]) : uses[u] = b /\ s[i] = <<u, j>>
      /\ \A i, j \in 1..l : s[i] = s[j] => i = j
      /\ \A u \in Threads : \A j \in 1..Len(saved[u]) : uses[u] = b => \E i \in 1..l : s[i] = <<u, j>>
  <2>1. Owned(b, s, l) /\ Distinct(s, l) /\ Present(b, s, l)
    BY <1>0 DEF Counted
  <2> QED BY <2>1 DEF Owned, Distinct, Present
\* What lies below is as it was.
<1>9. \A u \in Threads : \A j \in 1..Len(saved[u]) :
         <<u, j>> # c => j \in 1..Len(saved'[u]) /\ saved'[u][j] = saved[u][j]
  <2>1. ASSUME NEW u \in Threads, NEW j \in 1..Len(saved[u]), <<u, j>> # c
        PROVE  j \in 1..Len(saved'[u]) /\ saved'[u][j] = saved[u][j]
    <3>1. CASE u = t
      <4>1. j # k
        BY <1>0, <2>1, <3>1
      <4>2. j \in 1..(k - 1)
        BY <1>0, <1>2, <3>1, <4>1
      <4> QED BY <1>6, <3>1, <4>2
    <3>2. CASE u # t
      BY <1>1, <3>2
    <3> QED BY <3>1, <3>2
  <2> QED BY <2>1
<1>10. \A i \in 1..(l - 1) : i \in 1..l /\ s[i] # c
  BY <1>2
<1>11. Counted(b)'
  <2>0. PICK n : n = l - 1
    OBVIOUS
  <2>1. Owned(b, r, n)'
    <3>1. ASSUME NEW i \in 1..(l - 1)
          PROVE  \E u \in Threads : \E j \in 1..Len(saved'[u]) : uses'[u] = b /\ r[i] = <<u, j>>
      <4>1. PICK u \in Threads : \E j \in 1..Len(saved[u]) : uses[u] = b /\ s[i] = <<u, j>>
        BY <1>8, <1>10
      <4>2. uses'[u] = b /\ \E j \in 1..Len(saved'[u]) : s[i] = <<u, j>>
        BY <1>1, <1>9, <1>10, <4>1
      <4> QED BY <1>5, <4>2
    <3> QED BY <2>0, <3>1, Zenon DEF Owned
  <2>2. Distinct(r, n)
    <3>1. \A i \in 1..n : i \in 1..l /\ r[i] = s[i]
      BY <1>5, <1>10, <2>0
    <3>2. \A i, j \in 1..n : r[i] = r[j] => i = j
      BY <1>8, <3>1
    <3> QED BY <3>2, Zenon DEF Distinct
  <2>3. Present(b, r, n)'
    <3>1. ASSUME NEW u \in Threads, NEW j \in 1..Len(saved'[u]), uses'[u] = b
          PROVE  \E i \in 1..(l - 1) : r[i] = <<u, j>>
      <4>1. j \in 1..Len(saved[u]) /\ uses[u] = b /\ <<u, j>> # c
        <5>1. CASE u = t
          <6>1. j \in 1..(k - 1)
            BY <1>6, <3>1, <5>1
          <6>2. j # k /\ j \in 1..k
            BY <1>2, <6>1
          <6> QED BY <1>0, <5>1, <6>2, Entries
        <5>2. CASE u # t
          BY <1>0, <1>1, <3>1, <5>2, Entries
        <5> QED BY <5>1, <5>2
      <4>2. PICK i \in 1..l : s[i] = <<u, j>>
        BY <1>8, <4>1
      <4>3. i # l
        BY <1>2, <4>1, <4>2
      <4>4. i \in 1..(l - 1)
        BY <1>2, <4>3
      <4> QED BY <1>5, <4>2, <4>4
    <3> QED BY <2>0, <3>1 DEF Present
  <2> QED BY <1>4, <1>5, <2>0, <2>1, <2>2, <2>3 DEF Counted
<1>12. Under(b, 0) = meant[b] /\ \A i \in 0..l : Formed(Under(b, i), z)
  BY <1>0 DEF Chained
\* The SearchAPI is what it was when the block was opened.
<1>13. api'[b] = Under(b, l - 1)
  <2>1. PICK x, y : x = saved[t][k] /\ y = api[b]
    OBVIOUS
  <2>2. Under(b, l - 1) = x
    <3>1. l - 1 < l /\ (l - 1) + 1 = l
      BY <1>2
    <3> QED BY <1>0, <1>2, <2>1, <3>1 DEF Under
  <2>3. Under(b, l) = y
    BY <1>0, <1>2, <2>1 DEF Under
  <2>4. l - 1 \in 0..l /\ l \in 0..l /\ l \in 1..l
    BY <1>2
  <2>5. Formed(x, z) /\ Formed(y, z)
    BY <1>12, <2>2, <2>3, <2>4
  <2>6. y.config = x.config
    <3>1. Closing(t) /\ s[l] = Block(t)
      BY <1>0, <1>1, <1>2 DEF Closing, Block
    <3>2. Under(b, l).config = saved[t][Len(saved[t])].config
      BY <1>0, <2>4, <3>1 DEF Chained
    <3> QED BY <1>0, <2>1, <2>3, <3>2
  <2>7. Switched(y, x.map, x.query) = x
    <3>1. PICK f, g, h : f = x.config /\ g = x.map /\ h = x.query
      OBVIOUS
    <3>2. x = [config |-> f, map |-> g, query |-> h, limiter |-> z]
      BY <2>5, <3>1 DEF Formed
    <3>3. PICK w : w = Switched(y, g, h)
      OBVIOUS
    <3>4. Formed(w, z) /\ w.config = f /\ w.map = g /\ w.query = h
      BY <2>5, <2>6, <3>1, <3>3, Forms
    <3>5. w = [config |-> f, map |-> g, query |-> h, limiter |-> z]
      BY <3>4 DEF Formed
    <3> QED BY <3>1, <3>2, <3>3, <3>5
  <2> QED BY <1>1, <2>1, <2>2, <2>7
<1>14. \A i \in 0..(l - 1) : Under(b, i)' = Under(b, i)
  <2>1. ASSUME NEW i \in 0..(l - 1) PROVE Under(b, i)' = Under(b, i)
    <3>1. CASE i = l - 1
      <4>1. Under(b, i)' = api'[b]
        BY <1>2, <1>4, <1>5, <3>1 DEF Under
      <4> QED BY <1>13, <3>1, <4>1
    <3>2. CASE i # l - 1
      <4>1. i + 1 \in 1..(l - 1) /\ i < l - 1 /\ i < l
        BY <1>2, <3>2
      <4>2. Under(b, i)' = saved'[r[i + 1][1]][r[i + 1][2]]
        BY <1>4, <1>5, <4>1 DEF Under
      <4>3. Under(b, i) = saved[s[i + 1][1]][s[i + 1][2]]
        BY <1>0, <4>1 DEF Under
      <4>4. PICK u \in Threads : \E j \in 1..Len(saved[u]) : uses[u] = b /\ s[i + 1] = <<u, j>>
        BY <1>8, <1>10, <4>1
      <4>5. saved'[s[i + 1][1]][s[i + 1][2]] = saved[s[i + 1][1]][s[i + 1][2]]
        BY <1>9, <1>10, <4>1, <4>4
      <4> QED BY <1>5, <4>1, <4>2, <4>3, <4>5
    <3> QED BY <3>1, <3>2
  <2> QED BY <2>1
<1>15. /\ \A i \in 0..(l - 1) : i \in 0..l
       /\ \A i \in 1..(l - 1) : i \in 0..(l - 1)
       /\ 0 \in 0..(l - 1)
  BY <1>2
<1>16. \A i \in 0..(l - 1) : Formed(Under(b, i)', z)
  BY <1>12, <1>14, <1>15
<1>17. ASSUME NEW u \in Threads, NEW i \in 1..(l - 1), Closing(u)', r[i] = Block(u)'
       PROVE  Under(b, i)'.config = saved'[u][Len(saved'[u])].config
  <2>1. u # t /\ Closing(u) /\ saved'[u] = saved[u]
    BY <1>1, <1>7, <1>17
  <2>2. s[i] = Block(u) /\ i \in 1..l
    BY <1>5, <1>10, <1>17, <2>1 DEF Block
  <2>3. Under(b, i).config = saved[u][Len(saved[u])].config
    BY <1>0, <2>1, <2>2 DEF Chained
  <2> QED BY <1>14, <1>15, <2>1, <2>3
<1>18. Under(b, 0)' = meant'[b]
  BY <1>1, <1>12, <1>14, <1>15
<1>19. z = meant'[b].limiter /\ Len(r) = l - 1
  BY <1>0, <1>1, <1>5
<1>20. Chained(b)'
  BY <1>4, <1>16, <1>17, <1>18, <1>19 DEF Chained
<1> QED BY <1>11, <1>20

\* A SearchAPI that a thread has just made for itself.
LEMMA NestedMade ==
    ASSUME NEW t \in Threads, Typed', Own', saved'[t] = <<>>, uses'[t] = t,
           api'[t] = meant'[t], NEW l, Formed(meant'[t], l)
    PROVE  Counted(t)' /\ Chained(t)'
<1>0. PICK s, x : s = blocks'[t] /\ x = meant'[t]
  OBVIOUS
<1>1. Listed(s) /\ Len(s) = 0 /\ Len(saved'[t]) = 0
  <2>1. Len(<<>>) = 0
    OBVIOUS
  <2> QED BY <1>0, <2>1 DEF Own
<1>2. \A u \in Threads : uses'[u] = t => u = t
  BY SharedAssumption DEF Typed, Apis
<1>3. Counted(t)'
  <2>1. Owned(t, s, 0)'
    BY DEF Owned
  <2>2. Distinct(s, 0)
    BY DEF Distinct
  <2>3. Present(t, s, 0)'
    BY <1>1, <1>2 DEF Present
  <2> QED BY <1>0, <1>1, <2>1, <2>2, <2>3 DEF Counted
<1>4. Formed(x, x.limiter)
  BY <1>0 DEF Formed
<1>5. \A i \in 0..0 : Under(t, i)' = x
  BY <1>0, <1>1 DEF Under
<1>6. 0 \in 0..0
  OBVIOUS
<1>7. Chained(t)'
  BY <1>0, <1>1, <1>4, <1>5, <1>6 DEF Chained
<1> QED BY <1>3, <1>7

LEMMA NestedStep ==
    ASSUME NEW t \in Threads, Typed, Control, Registries, Own, Nested, Step(t)
    PROVE  Nested'
<1>1. Moved(t) /\ Typed' /\ Own'
  BY Moves, OwnStep, TypedStep DEF Next, Step
<1>2. t \in Apis /\ uses[t] \in Apis /\ uses[t] \in {t, "shared"}
  BY Inside
<1>3. \A u \in Threads \ {t} : saved'[u] = saved[u] /\ (Closing(u)' => Closing(u))
  BY <1>1 DEF Moved, Closing, Runs, Op
<1>4. \A u \in Threads \ {t} : uses'[u] = uses[u]
  BY DEF Step, EnterConfig, EnterMap, LeaveConfig, LeaveMap, LookUp, Build, Send, Clear,
         FirstStep, Transform, AppendStep, Wrap, Register, Construct, Restore, Look, Create,
         Joined, shared, Typed
\* Nothing of a SearchAPI's blocks changes.
<1>5. ASSUME saved' = saved, uses' = uses, blocks' = blocks, api' = api, meant' = meant,
             tangled \subseteq tangled', ~LeaveConfig(t)
      PROVE  Nested'
  <2>1. \A u \in Threads : Closing(u)' => Closing(u)
    BY <1>1, <1>3, <1>5 DEF Moved
  <2>2. ASSUME NEW a \in Apis \ tangled' PROVE Counted(a)' /\ Chained(a)'
    <3>1. Counted(a) /\ Chained(a)
      BY <1>5, <2>2 DEF Nested
    <3> QED BY <1>5, <2>1, <3>1, Unaffected
  <2> QED BY <2>2 DEF Nested
\* One SearchAPI changes, the one that t is to use.
<1>6. ASSUME NEW b \in Apis, uses'[t] = b, uses[t] = b \/ Len(saved[t]) = 0,
             \A a \in Apis \ {b} :
                blocks'[a] = blocks[a] /\ api'[a] = api[a] /\ meant'[a] = meant[a],
             tangled \subseteq tangled', b \notin tangled' => Counted(b)' /\ Chained(b)'
      PROVE  Nested'
  <2>1. ASSUME NEW a \in Apis \ tangled', a # b PROVE Counted(a)' /\ Chained(a)'
    <3>1. Counted(a) /\ Chained(a)
      BY <1>6, <2>1 DEF Nested
    <3>2. uses[t] # a \/ Len(saved[t]) = 0
      BY <1>6, <2>1
    <3>3. blocks'[a] = blocks[a] /\ api'[a] = api[a] /\ meant'[a] = meant[a] /\ uses'[t] # a
      BY <1>6, <2>1
    <3> QED BY <1>3, <1>4, <3>1, <3>2, <3>3, Elsewhere
  <2> QED BY <1>6, <2>1 DEF Nested
<1>7. PICK b \in Apis : b = uses[t]
  BY <1>2
<1>8. b \notin tangled => Counted(b) /\ Chained(b)
  BY DEF Nested
\* t has made a SearchAPI for itself.
<1>9. ASSUME NEW x, NEW l, Formed(x, l), saved[t] = <<>>, saved' = saved,
             uses' = [uses EXCEPT ![t] = t], api' = [api EXCEPT ![t] = x],
             meant' = [meant EXCEPT ![t] = x], blocks' = blocks, tangled' = tangled
      PROVE  Nested'
  <2>1. /\ uses'[t] = t /\ api'[t] = x /\ meant'[t] = x /\ saved'[t] = <<>>
        /\ \A a \in Apis \ {t} :
              blocks'[a] = blocks[a] /\ api'[a] = api[a] /\ meant'[a] = meant[a]
    BY <1>2, <1>9 DEF Typed
  <2>2. Counted(t)' /\ Chained(t)'
    BY <1>1, <1>9, <2>1, NestedMade
  <2>3. Len(saved[t]) = 0
    BY <1>9
  <2> QED BY <1>2, <1>6, <1>9, <2>1, <2>2, <2>3
<1>10. CASE EnterConfig(t)
  <2>1. /\ uses'[t] = b /\ tangled' = tangled
        /\ \A a \in Apis \ {b} :
              blocks'[a] = blocks[a] /\ api'[a] = api[a] /\ meant'[a] = meant[a]
    BY <1>7, <1>10 DEF EnterConfig, Typed
  <2>2. b \notin tangled => Counted(b)' /\ Chained(b)'
    BY <1>1, <1>7, <1>8, <1>10, NestedEnter
  <2> QED BY <1>6, <1>7, <2>1, <2>2
<1>11. CASE EnterMap(t)
  <2>1. /\ uses'[t] = b /\ tangled' = tangled
        /\ \A a \in Apis \ {b} :
              blocks'[a] = blocks[a] /\ api'[a] = api[a] /\ meant'[a] = meant[a]
    BY <1>7, <1>11 DEF EnterMap, history, Typed
  <2>2. b \notin tangled => Counted(b)' /\ Chained(b)'
    BY <1>1, <1>7, <1>8, <1>11, NestedWithin
  <2> QED BY <1>6, <1>7, <2>1, <2>2
<1>12. CASE LeaveConfig(t)
  <2>1. /\ uses'[t] = b /\ tangled \subseteq tangled'
        /\ \A a \in Apis \ {b} :
              blocks'[a] = blocks[a] /\ api'[a] = api[a] /\ meant'[a] = meant[a]
    BY <1>7, <1>12 DEF LeaveConfig, Tangled, Typed
  <2>2. b \notin tangled' => Counted(b)' /\ Chained(b)'
    BY <1>1, <1>7, <1>8, <1>12, <2>1, NestedClose
  <2> QED BY <1>6, <1>7, <2>1, <2>2
<1>13. CASE LeaveMap(t)
  <2>1. /\ uses'[t] = b /\ tangled \subseteq tangled'
        /\ \A a \in Apis \ {b} :
              blocks'[a] = blocks[a] /\ api'[a] = api[a] /\ meant'[a] = meant[a]
    BY <1>7, <1>13 DEF LeaveMap, Tangled, Typed
  <2>2. b \notin tangled' => Counted(b)' /\ Chained(b)'
    BY <1>1, <1>7, <1>8, <1>13, <2>1, NestedLeave
  <2> QED BY <1>6, <1>7, <2>1, <2>2
<1>14. CASE Construct(t)
  <2>1. saved[t] = <<>>
    BY <1>14, Inside DEF Construct
  <2>2. CASE meant' = meant /\ uses' = uses /\ api' = api
    <3>1. saved' = saved /\ blocks' = blocks /\ tangled \subseteq tangled' /\ ~LeaveConfig(t)
      BY <1>14 DEF Construct, LeaveConfig, Runs
    <3> QED BY <1>5, <2>2, <3>1
  <2>3. CASE ~(meant' = meant /\ uses' = uses /\ api' = api)
    <3>1. PICK x : /\ Formed(x, None) /\ uses' = [uses EXCEPT ![t] = t]
                   /\ api' = [api EXCEPT ![t] = x] /\ meant' = [meant EXCEPT ![t] = x]
      BY <1>14, <2>3 DEF Construct, Formed
    <3>2. saved' = saved /\ blocks' = blocks /\ tangled' = tangled
      BY <1>14 DEF Construct
    <3> QED BY <1>9, <2>1, <3>1, <3>2
  <2> QED BY <2>2, <2>3
<1>15. ASSUME NEW n, NEW k, Joined(t, n, k), saved' = saved, blocks' = blocks,
              tangled' = tangled, saved[t] = <<>>
       PROVE  Nested'
  <2>1. PICK x : x = WithLimiter(My(t), k)
    OBVIOUS
  <2>2. Formed(x, k.id)
    BY <2>1 DEF WithLimiter, Formed
  <2>3. /\ uses' = [uses EXCEPT ![t] = t]
        /\ api' = [api EXCEPT ![t] = x] /\ meant' = [meant EXCEPT ![t] = x]
    BY <1>15, <2>1 DEF Joined
  <2> QED BY <1>9, <1>15, <2>2, <2>3
<1>16. CASE Look(t)
  <2>1. saved' = saved /\ blocks' = blocks /\ tangled' = tangled /\ saved[t] = <<>>
    BY <1>16, Inside DEF Look
  <2>2. CASE ProviderOf(t) \in DOMAIN limiters
    <3>1. Joined(t, ProviderOf(t), limiters[ProviderOf(t)])
      BY <1>16, <2>2 DEF Look
    <3> QED BY <1>15, <2>1, <3>1
  <2>3. CASE ProviderOf(t) \notin DOMAIN limiters
    <3>1. uses' = uses /\ api' = api /\ meant' = meant /\ ~LeaveConfig(t)
      BY <1>16, <2>3 DEF Look, LeaveConfig, Runs
    <3> QED BY <1>5, <2>1, <3>1
  <2> QED BY <2>2, <2>3
<1>17. CASE Create(t)
  <2>1. saved' = saved /\ blocks' = blocks /\ tangled' = tangled /\ saved[t] = <<>>
    BY <1>17, Inside DEF Create
  <2>2. \E n, k : Joined(t, n, k)
    BY <1>17 DEF Create
  <2> QED BY <1>15, <2>1, <2>2
<1>18. CASE ~EnterConfig(t) /\ ~EnterMap(t) /\ ~LeaveConfig(t) /\ ~LeaveMap(t) /\ ~Construct(t)
            /\ ~Look(t) /\ ~Create(t)
  <2>1. /\ saved' = saved /\ uses' = uses /\ blocks' = blocks /\ api' = api /\ meant' = meant
        /\ tangled \subseteq tangled'
    BY <1>18 DEF Step, LookUp, Build, Send, Clear, FirstStep, Transform, AppendStep, Wrap,
                 Register, Restore, shared, history
  <2> QED BY <1>5, <1>18, <2>1
<1> QED BY <1>10, <1>11, <1>12, <1>13, <1>14, <1>16, <1>17, <1>18

----------------------------------------------------------------------------
(* What is invariant *)

LEMMA InitInv == Init => SharedInv
<1> SUFFICES ASSUME Init PROVE SharedInv
  OBVIOUS
<1>1. PICK q \in Scenarios : uses = q.uses /\ todo = q.todo
  BY DEF Init
<1>2. /\ uses \in [Threads -> Apis] /\ DOMAIN todo = Threads
      /\ \A t \in Threads : uses[t] \in {t, "shared"} /\ Program(todo[t])
  <2>1. /\ q.uses \in [Threads -> Apis] /\ DOMAIN q.todo = Threads
        /\ \A t \in Threads : q.uses[t] \in {t, "shared"} /\ Program(q.todo[t])
    BY SharedAssumption
  <2> QED BY <1>1, <2>1
<1>3. Typed
  BY <1>2 DEF Init, Typed
<1>4. /\ \A t \in Threads : saved[t] = <<>> /\ half[t] = FALSE /\ joined[t] = None
                            /\ original[t] = NoProvider
      /\ \A a \in Apis : blocks[a] = <<>>
      /\ \A n \in DOMAIN Normal : temporary[n] = <<>>
  BY DEF Init
<1>5. Listed(<<>>) /\ Len(<<>>) = 0
  BY DEF Listed
<1>6. Control
  <2>1. ASSUME NEW t \in Threads PROVE Controlled(todo[t], saved[t], half[t])
    <3>1. Ready(todo[t], 0)
      BY <1>2, ProgramRest, RestReady
    <3>2. Controlled(todo[t], <<>>, FALSE)
      BY <1>5, <3>1 DEF Controlled, Level
    <3> QED BY <1>4, <3>2
  <2> QED BY <2>1 DEF Control
<1>7. Own
  BY <1>4, <1>5 DEF Own, Apis, Init
<1>8. Nested
  <2>1. ASSUME NEW a \in Apis PROVE Counted(a) /\ Chained(a)
    <3>0. PICK s : s = blocks[a] /\ s = <<>>
      BY <1>4
    <3>1. Listed(s) /\ Len(s) = 0
      BY <1>5, <3>0
    <3>2. Counted(a)
      <4>1. Owned(a, s, 0) /\ Distinct(s, 0) /\ Present(a, s, 0)
        BY <1>4, <1>5 DEF Owned, Distinct, Present
      <4> QED BY <3>0, <3>1, <4>1 DEF Counted
    <3>3. PICK x : x = api[a] /\ x = meant[a]
      BY DEF Init
    <3>4. Formed(x, x.limiter)
      <4>1. x = [Made EXCEPT !.query = a]
        BY <3>3 DEF Init
      <4>2. PICK f, g, h, l : Made = [config |-> f, map |-> g, query |-> h, limiter |-> l]
        BY SharedAssumption
      <4>3. x = [config |-> f, map |-> g, query |-> a, limiter |-> l]
        BY <4>1, <4>2
      <4> QED BY <4>3 DEF Formed
    <3>5. \A i \in 0..0 : Under(a, i) = x
      BY <3>0, <3>1, <3>3 DEF Under
    <3>6. Chained(a)
      BY <3>0, <3>1, <3>3, <3>4, <3>5 DEF Chained
    <3> QED BY <3>2, <3>6
  <2> QED BY <2>1 DEF Nested
<1>9. \A t \in Threads : ~Runs(t, "restore") /\ ~Runs(t, "create") /\ \A n : ~Puts(t, n)
  <2>1. ASSUME NEW t \in Threads, todo[t] # <<>> PROVE Plain(Head(todo[t]))
    BY <1>2, <2>1, ProgramRest, RestReady
  <2> QED BY <1>4, <2>1 DEF Runs, Op, Puts, Plain
<1>10. Registries
  <2>1. /\ DOMAIN registry \subseteq Normalised
        /\ \A n \in DOMAIN registry :
              Named(n) /\ registry[n] # NoProvider /\ registry[n].delay \in Nat
    BY SharedAssumption DEF Init, Registrable, Normalised, Named
  <2>2. ASSUME NEW n \in Normalised PROVE Replaced(n)
    <3>1. temporary[n] = <<>> /\ registry = Registered
      BY <1>4 DEF Normalised, Init
    <3> QED BY <1>5, <1>9, <3>1 DEF Replaced
  <2> QED BY <1>4, <1>9, <2>1, <2>2 DEF Registries, Providing
<1>11. Limiting
  <2>1. /\ DOMAIN limiters = Limited /\ Limited \subseteq DOMAIN Registered
        /\ \A n \in Limited : limiters[n].interval = Registered[n].delay
    BY SharedAssumption DEF Init
  <2>2. \A n \in DOMAIN Registered : Registered[n].delay \in Nat
    BY SharedAssumption DEF Registrable
  <2> QED BY <1>4, <1>9, <2>1, <2>2 DEF Limiting
<1> QED BY <1>3, <1>6, <1>7, <1>8, <1>10, <1>11 DEF SharedInv

LEMMA InvStep == SharedInv /\ [Next]_vars => SharedInv'
<1> SUFFICES ASSUME SharedInv, [Next]_vars PROVE SharedInv'
  OBVIOUS
<1>1. ASSUME NEW t \in Threads, Step(t) PROVE SharedInv'
  <2>1. Typed' /\ Control'
    BY TypedStep, ControlStep DEF SharedInv
  <2>2. Registries' /\ Limiting' /\ Own' /\ Nested'
    BY <1>1, RegistriesStep, LimitingStep, OwnStep, NestedStep DEF SharedInv
  <2> QED BY <2>1, <2>2 DEF SharedInv
<1>2. CASE UNCHANGED vars
  <2>1. Typed' /\ Control'
    BY TypedStep, ControlStep DEF SharedInv
  <2>2. /\ UNCHANGED <<registry, limiters, api, uses, todo, half, saved, original>>
        /\ UNCHANGED <<blocks, temporary, tangled, joined, raced, meant>>
    BY <1>2 DEF vars, shared, local, history
  <2>3. Own'
    BY <2>2 DEF SharedInv, Own
  <2>4. /\ \A t \in Threads : (Closing(t)' <=> Closing(t)) /\ \A n : Puts(t, n)' <=> Puts(t, n)
        /\ \A t \in Threads : \A x : (Runs(t, x)' <=> Runs(t, x)) /\ Op(t)' = Op(t)
    BY <2>2 DEF Closing, Puts, Runs, Op
  <2>5. Nested'
    <3>1. ASSUME NEW a \in Apis \ tangled' PROVE Counted(a)' /\ Chained(a)'
      <4>1. Counted(a) /\ Chained(a)
        BY <2>2, <3>1 DEF SharedInv, Nested
      <4> QED BY <2>2, <2>4, <4>1, Unaffected
    <3> QED BY <3>1 DEF Nested
  <2>6. \A n : Replaced(n)' <=> Replaced(n)
    BY <2>2, <2>4 DEF Replaced
  <2>7. Registries'
    BY <2>2, <2>4, <2>6 DEF SharedInv, Registries, Normalised, Providing
  <2>8. Limiting'
    BY <2>2, <2>4 DEF SharedInv, Limiting
  <2> QED BY <2>1, <2>3, <2>5, <2>7, <2>8 DEF SharedInv
<1> QED BY <1>1, <1>2 DEF Next, Step, Finished

THEOREM SharedInvariant == Spec => []SharedInv
<1>1. Init => SharedInv
  BY InitInv
<1>2. SharedInv /\ [Next]_vars => SharedInv'
  BY InvStep
<1> QED BY <1>1, <1>2, PTL DEF Spec

\* A thread that leaves a block has something to put back, one that is done has
\* left every block.
LEMMA InvType == SharedInv => TypeOK
<1> SUFFICES ASSUME SharedInv PROVE TypeOK
  OBVIOUS
<1>1. half \in [Threads -> BOOLEAN] /\ uses \in [Threads -> Apis]
  BY DEF SharedInv, Typed
<1>2. DOMAIN registry \subseteq DOMAIN Normal /\ \A n \in DOMAIN registry : registry[n].delay \in Nat
  BY DEF SharedInv, Registries, Normalised
<1>3. \A n \in DOMAIN limiters : limiters[n].interval \in Nat
  BY DEF SharedInv, Limiting
<1>4. ASSUME NEW t \in Threads
      PROVE  /\ todo[t] = <<>> => saved[t] = <<>> /\ ~half[t]
             /\ Runs(t, "close") => saved[t] # <<>>
  <2>1. Controlled(todo[t], saved[t], half[t])
    BY DEF SharedInv, Control
  <2> QED BY <2>1, ControlledParts DEF Runs, Op
<1> QED BY <1>1, <1>2, <1>3, <1>4 DEF TypeOK

\* When blocks nested, however deep and in whichever threads, each SearchAPI is
\* as it was made once its blocks are closed, and each provider is the user's
\* own once the temporary ones are gone: with_config, with_config_parameters and
\* from_provider_config put back what they found.
THEOREM EverythingIsRestored == Spec => []Restored
<1>1. SharedInv => Restored
  <2> SUFFICES ASSUME SharedInv, TypeOK PROVE Restored
    BY InvType
  <2>1. ASSUME NEW a \in Apis, blocks[a] = <<>>, a \notin tangled PROVE api[a] = meant[a]
    <3>1. Under(a, 0) = meant[a] /\ Listed(blocks[a])
      BY <2>1 DEF SharedInv, Nested, Chained, Counted
    <3>2. ~(0 < Len(blocks[a]))
      BY <2>1, <3>1, ListedIs
    <3> QED BY <3>1, <3>2 DEF Under
  <2>2. ASSUME NEW n \in DOMAIN Normal \ tangled, Normal[n] = n, temporary[n] = <<>>
        PROVE  FromName(registry, n) = FromName(Registered, n)
    BY <2>2 DEF SharedInv, Registries, Normalised, Replaced
  <2> QED BY <2>1, <2>2 DEF Restored
<1> QED BY <1>1, SharedInvariant, PTL

\* Coordinators that were added for one provider, and not in the same moment,
\* share one limiter and wait as long as it says: get_or_create keeps what it
\* makes, and a SearchAPI keeps its limiter whatever its blocks change.
THEOREM OneLimiterPerProvider == Spec => []OneLimiter
<1>1. SharedInv => OneLimiter
  <2> SUFFICES ASSUME SharedInv, NEW t \in Threads, NEW u \in Threads,
                      joined[t] # None, joined[t] = joined[u], joined[t] \notin raced
               PROVE  /\ joined[t] \in DOMAIN limiters
                      /\ api[t].limiter = limiters[joined[t]].id
                      /\ api[u].limiter = api[t].limiter
                      /\ blocks[t] = <<>> => api[t].config.delay = limiters[joined[t]].interval
    BY DEF OneLimiter
  <2>1. \A v \in {t, u} : /\ joined[v] \in DOMAIN limiters
                          /\ meant[v].limiter = limiters[joined[v]].id
                          /\ meant[v].config.delay = limiters[joined[v]].interval
    BY DEF SharedInv, Limiting
  <2>2. ASSUME NEW v \in Threads
        PROVE  /\ api[v].limiter = meant[v].limiter
               /\ blocks[v] = <<>> => api[v] = meant[v]
    <3>1. Counted(v) /\ Chained(v)
      BY DEF SharedInv, Own, Nested, Apis
    <3>2. PICK l : l = Len(blocks[v])
      OBVIOUS
    <3>3. l \in Nat /\ l \in 0..l /\ (blocks[v] = <<>> => l = 0)
      BY <3>1, <3>2, ListedIs DEF Counted
    <3>4. Under(v, l) = api[v] /\ Under(v, 0) = meant[v] /\ Formed(Under(v, l), meant[v].limiter)
      <4>1. ~(l < Len(blocks[v]))
        BY <3>2, <3>3
      <4>2. Under(v, l) = api[v]
        BY <4>1 DEF Under
      <4> QED BY <3>1, <3>2, <3>3, <4>2 DEF Chained
    <3>5. api[v].limiter = meant[v].limiter
      BY <3>4 DEF Formed
    <3> QED BY <3>3, <3>4, <3>5
  <2> QED BY <2>1, <2>2
<1> QED BY <1>1, SharedInvariant, PTL

----------------------------------------------------------------------------
(* Requests *)

\* The operations of a workflow that is under way are at the head of a program,
\* or behind blocks and searches only, and what is left of a search is always
\* at its head.
Inner == {"open", "close", "search", "request", "next", "transform", "append", "wrap"}
Flow  == {"next", "transform", "append", "wrap"}
Flowing(ops) == \E i \in 1..Len(ops) : ops[i].op \in Flow
Within(ops)  == \A i \in 1..Len(ops) : ops[i].op \in Flow => \A j \in 1..i : ops[j].op \in Inner
Waiting(ops) == \A i \in 1..Len(ops) : ops[i].op # "request"
\* The temporary providers in it are those that some program began with.
Offered(p)    == \E s \in Scenarios : \E t \in Threads : \E i \in DOMAIN s.todo[t] :
                    s.todo[t][i].op = "temporary" /\ s.todo[t][i].provider = p
Offering(ops) == \A i \in 1..Len(ops) : ops[i].op = "temporary" => Offered(ops[i].provider)
Placed(ops)   == /\ Listed(ops) /\ Within(ops) /\ (ops # <<>> => Waiting(Tail(ops)))
                 /\ Offering(ops)

\* ... and behind the head of one:
Behind(ops) == Listed(ops) /\ Within(ops) /\ Waiting(ops) /\ Offering(ops)

LEMMA PlacedTail ==
    ASSUME NEW s, Placed(s), s # <<>>
    PROVE  /\ Behind(Tail(s)) /\ Placed(Tail(s))
           /\ Flowing(Tail(s)) => Flowing(s) /\ Head(s).op \in Inner
<1> DEFINE l == Len(s)
           r == Tail(s)
<1>1. /\ Listed(s) /\ l \in Nat /\ l > 0
      /\ Listed(r) /\ Len(r) = l - 1 /\ Head(s) = s[1]
      /\ \A i \in 1..(l - 1) : r[i] = s[i + 1]
  BY ListedIs, TailListed DEF Placed
<1> HIDE DEF l, r
<1>2. ASSUME NEW i \in 1..(l - 1), r[i].op \in Flow
      PROVE  (\A j \in 1..i : r[j].op \in Inner) /\ s[i + 1].op \in Flow /\ i + 1 \in 1..l
             /\ s[1].op \in Inner
  <2>1. s[i + 1].op \in Flow /\ i + 1 \in 1..l
    BY <1>1, <1>2
  <2>2. \A j \in 1..(i + 1) : s[j].op \in Inner
    BY <2>1 DEF Placed, Within, l
  <2>3. \A j \in 1..i : j \in 1..(l - 1) /\ j + 1 \in 1..(i + 1)
    BY <1>1
  <2>4. 1 \in 1..(i + 1)
    BY <1>1
  <2> QED BY <1>1, <2>1, <2>2, <2>3, <2>4
<1>3. Within(r)
  BY <1>1, <1>2 DEF Within
<1>4. Waiting(r)
  BY DEF Placed, r
<1>5. Flowing(r) => Flowing(s) /\ Head(s).op \in Inner
  BY <1>1, <1>2 DEF Flowing, l
<1>6. r # <<>> => Waiting(Tail(r))
  <2> SUFFICES ASSUME r # <<>>, NEW i \in 1..Len(Tail(r)) PROVE Tail(r)[i].op # "request"
    BY DEF Waiting
  <2>1. Len(Tail(r)) = Len(r) - 1 /\ Tail(r)[i] = r[i + 1] /\ i + 1 \in 1..Len(r)
    BY <1>1, TailListed
  <2> QED BY <1>4, <2>1 DEF Waiting
<1>7. Offering(r)
  <2> SUFFICES ASSUME NEW i \in 1..(l - 1), r[i].op = "temporary" PROVE Offered(r[i].provider)
    BY <1>1 DEF Offering
  <2>1. r[i] = s[i + 1] /\ i + 1 \in 1..l
    BY <1>1
  <2> QED BY <2>1 DEF Placed, Offering, l
<1> QED BY <1>1, <1>3, <1>4, <1>5, <1>6, <1>7 DEF Behind, Placed, r

\* Another operation before what is behind.
LEMMA PlacedCons ==
    ASSUME NEW s, NEW o, Behind(s), o.op \in Inner \/ (o.op \notin Flow /\ ~Flowing(s)),
           o.op # "temporary"
    PROVE  /\ Placed(<<o>> \o s) /\ (o.op # "request" => Behind(<<o>> \o s))
           /\ Flowing(<<o>> \o s) <=> (o.op \in Flow \/ Flowing(s))
<1> DEFINE c == <<o>> \o s
           l == Len(s)
<1>1. /\ l \in Nat /\ Listed(c) /\ Len(c) = l + 1 /\ c # <<>> /\ Head(c) = o /\ Tail(c) = s
      /\ \A i \in 1..l : c[i + 1] = s[i]
  BY ListedIs, ConsListed DEF Behind
<1>2. c[1] = o
  BY <1>1, TailListed
<1> HIDE DEF c, l
<1>3. \A i \in 1..(l + 1) : i = 1 \/ (i - 1 \in 1..l /\ c[i] = s[i - 1])
  <2>1. ASSUME NEW i \in 1..(l + 1), i # 1 PROVE i - 1 \in 1..l /\ c[i] = s[i - 1]
    <3>1. i - 1 \in 1..l /\ (i - 1) + 1 = i
      BY <1>1, <2>1
    <3>2. c[(i - 1) + 1] = s[i - 1]
      BY <1>1, <3>1
    <3> QED BY <3>1, <3>2
  <2> QED BY <2>1
<1>4. Flowing(c) <=> (o.op \in Flow \/ Flowing(s))
  <2>1. o.op \in Flow => Flowing(c)
    <3>1. 1 \in 1..Len(c)
      BY <1>1
    <3> QED BY <1>2, <3>1 DEF Flowing
  <2>2. Flowing(s) => Flowing(c)
    <3>1. \A i \in 1..l : i + 1 \in 1..Len(c)
      BY <1>1
    <3> QED BY <1>1, <3>1 DEF Flowing, l
  <2>3. Flowing(c) => o.op \in Flow \/ Flowing(s)
    BY <1>1, <1>2, <1>3 DEF Flowing, l
  <2> QED BY <2>1, <2>2, <2>3
<1>5. Within(c)
  <2> SUFFICES ASSUME NEW i \in 1..(l + 1), c[i].op \in Flow, NEW j \in 1..i
               PROVE  c[j].op \in Inner
    BY <1>1 DEF Within
  <2>1. o.op \in Inner
    BY <1>1, <1>4 DEF Flowing, Flow, Inner
  <2>2. CASE j = 1
    BY <1>2, <2>1, <2>2
  <2>3. CASE j # 1
    <3>1. i - 1 \in 1..l /\ c[i] = s[i - 1] /\ j - 1 \in 1..(i - 1) /\ c[j] = s[j - 1]
      BY <1>1, <1>3, <2>3
    <3> QED BY <3>1 DEF Behind, Within, l
  <2> QED BY <2>2, <2>3
<1>6. o.op # "request" => Waiting(c)
  <2> SUFFICES ASSUME o.op # "request", NEW i \in 1..(l + 1) PROVE c[i].op # "request"
    BY <1>1 DEF Waiting
  <2> QED BY <1>2, <1>3 DEF Behind, Waiting, l
<1>7. Waiting(Tail(c))
  BY <1>1 DEF Behind
<1>8. Offering(c)
  <2> SUFFICES ASSUME NEW i \in 1..(l + 1), c[i].op = "temporary" PROVE Offered(c[i].provider)
    BY <1>1 DEF Offering
  <2>1. i - 1 \in 1..l /\ c[i] = s[i - 1]
    BY <1>2, <1>3
  <2> QED BY <2>1 DEF Behind, Offering, l
<1> QED BY <1>1, <1>4, <1>5, <1>6, <1>7, <1>8 DEF Placed, Behind, c

LEMMA PlacedFour ==
    ASSUME NEW s, NEW a, NEW b, NEW c, NEW d, Behind(s),
           a.op = "open", b.op = "search", c.op = "close", d.op \in Flow
    PROVE  /\ Placed(Four(a, b, c, d, s)) /\ Four(a, b, c, d, s) # <<>>
           /\ Head(Four(a, b, c, d, s)) = a
<1>0. a.op \in Inner /\ b.op \in Inner /\ c.op \in Inner /\ d.op \in Inner
      /\ {a.op, b.op, c.op, d.op} \cap {"request", "temporary"} = {}
  BY DEF Inner, Flow
<1>1. PICK r : r = <<d>> \o s
  OBVIOUS
<1>2. Behind(r)
  BY <1>0, <1>1, PlacedCons
<1>3. PICK q : q = <<c>> \o r
  OBVIOUS
<1>4. Behind(q)
  BY <1>0, <1>2, <1>3, PlacedCons
<1>5. PICK p : p = <<b>> \o q
  OBVIOUS
<1>6. Behind(p)
  BY <1>0, <1>4, <1>5, PlacedCons
<1>7. Placed(<<a>> \o p)
  BY <1>0, <1>6, PlacedCons
<1>8. <<a>> \o p # <<>> /\ Head(<<a>> \o p) = a
  BY <1>6, ConsListed DEF Behind
<1> QED BY <1>1, <1>3, <1>5, <1>7, <1>8 DEF Four

Order == \A t \in Threads : Placed(todo[t])

LEMMA Workflows ==
    ASSUME NEW t, Placed(todo[t])
    PROVE  /\ InWorkflow(t) <=> Flowing(todo[t])
           /\ InWorkflow(t) => todo[t] # <<>> /\ Op(t).op \in Inner
<1>1. DOMAIN todo[t] = 1..Len(todo[t]) /\ Len(todo[t]) \in Nat
  BY ListedIs DEF Placed
<1>2. InWorkflow(t) <=> Flowing(todo[t])
  BY <1>1 DEF InWorkflow, Flowing, Flow
<1>3. ASSUME Flowing(todo[t]) PROVE todo[t] # <<>> /\ Op(t).op \in Inner
  <2>1. PICK i \in 1..Len(todo[t]) : todo[t][i].op \in Flow
    BY <1>3 DEF Flowing
  <2>2. todo[t][1].op \in Inner
    BY <1>1, <2>1 DEF Placed, Within
  <2>3. todo[t] # <<>> /\ Head(todo[t]) = todo[t][1]
    BY <1>1, <2>1, ListedIs, TailListed DEF Placed
  <2> QED BY <2>2, <2>3 DEF Op
<1> QED BY <1>2, <1>3

\* A step of t starts no workflow, and no sending, but at their beginning.
Proceeds(t) ==
    /\ Placed(todo'[t])
    /\ InWorkflow(t)' => InWorkflow(t) \/ Clear(t)
    /\ Runs(t, "request")' => LookUp(t) \/ (Runs(t, "request") /\ todo'[t] = todo[t])

LEMMA Proceeding ==
    ASSUME NEW t \in Threads, Typed, Order, Step(t)
    PROVE  Proceeds(t)
<1>1. Placed(todo[t])
  BY DEF Order
<1>2. DOMAIN todo = Threads
  BY DEF Typed
<1>3. \A x : Runs(t, x) => todo[t] # <<>> /\ Head(todo[t]).op = x
  BY DEF Runs, Op
<1>4. todo[t] # <<>> =>
         /\ Behind(Tail(todo[t])) /\ Placed(Tail(todo[t]))
         /\ Flowing(Tail(todo[t])) => Flowing(todo[t]) /\ Head(todo[t]).op \in Inner
         /\ Listed(Tail(todo[t]))
  BY <1>1, PlacedTail DEF Behind
<1>5. Placed(todo'[t]) => (InWorkflow(t)' <=> Flowing(todo'[t]))
  <2>1. ASSUME Placed(todo'[t]) PROVE InWorkflow(t)' <=> Flowing(todo'[t])
    <3>1. DOMAIN todo'[t] = 1..Len(todo'[t])
      BY <2>1, ListedIs DEF Placed
    <3> QED BY <3>1 DEF InWorkflow, Flowing, Flow
  <2> QED BY <2>1
<1>6. InWorkflow(t) <=> Flowing(todo[t])
  BY <1>1, Workflows
\* The program stays,
<1>7. ASSUME todo'[t] = todo[t] PROVE Proceeds(t)
  BY <1>1, <1>5, <1>6, <1>7 DEF Proceeds, Runs, Op
\* an operation is over,
<1>8. ASSUME todo[t] # <<>>, todo'[t] = Tail(todo[t]) PROVE Proceeds(t)
  <2>1. Placed(todo'[t]) /\ (InWorkflow(t)' => InWorkflow(t))
    BY <1>4, <1>5, <1>6, <1>8
  <2>2. ~Runs(t, "request")'
    <3>1. Waiting(todo'[t]) /\ Listed(todo'[t])
      BY <1>4, <1>8 DEF Behind
    <3>2. todo'[t] # <<>> => Head(todo'[t]) = todo'[t][1] /\ 1 \in 1..Len(todo'[t])
      BY <3>1, ListedIs, TailListed
    <3> QED BY <3>1, <3>2 DEF Runs, Op, Waiting
  <2> QED BY <2>1, <2>2 DEF Proceeds
\* or another one takes its place,
<1>9. ASSUME todo[t] # <<>>, NEW o, todo'[t] = <<o>> \o Tail(todo[t]),
             \/ o.op \in Inner /\ (o.op \in Flow => InWorkflow(t))
             \/ o.op \notin Flow /\ Head(todo[t]).op \notin Inner,
             o.op = "request" => LookUp(t), o.op # "temporary"
      PROVE  Proceeds(t)
  <2>1. o.op \in Inner \/ (o.op \notin Flow /\ ~Flowing(Tail(todo[t])))
    BY <1>4, <1>9
  <2>2. /\ Placed(<<o>> \o Tail(todo[t]))
        /\ Flowing(<<o>> \o Tail(todo[t])) <=> (o.op \in Flow \/ Flowing(Tail(todo[t])))
    BY <1>4, <1>9, <2>1, PlacedCons
  <2>3. Head(todo'[t]) = o
    BY <1>4, <1>9, ConsListed
  <2>4. InWorkflow(t)' => InWorkflow(t)
    <3>1. Flowing(todo'[t]) => o.op \in Flow \/ Flowing(Tail(todo[t]))
      BY <1>9, <2>2
    <3>2. o.op \in Flow => InWorkflow(t)
      BY <1>9
    <3> QED BY <1>4, <1>5, <1>6, <1>9, <2>2, <3>1, <3>2
  <2> QED BY <1>9, <2>2, <2>3, <2>4 DEF Proceeds, Runs, Op
\* or a block with a search in it and what comes after.
<1>10. ASSUME todo[t] # <<>>, NEW a, NEW b, NEW c, NEW d, NEW s, Behind(s),
              todo'[t] = Four(a, b, c, d, s),
              a.op = "open", b.op = "search", c.op = "close", d.op \in Flow,
              InWorkflow(t) \/ Clear(t)
       PROVE  Proceeds(t)
  <2>1. Placed(todo'[t]) /\ Head(todo'[t]) = a
    BY <1>10, PlacedFour
  <2> QED BY <1>10, <2>1 DEF Proceeds, Runs, Op
<1>11. CASE EnterConfig(t) \/ LeaveConfig(t) \/ Register(t)
  BY <1>7, <1>11 DEF EnterConfig, LeaveConfig, Register
<1>12. CASE EnterMap(t) \/ LeaveMap(t) \/ Send(t) \/ AppendStep(t) \/ Wrap(t) \/ Restore(t) \/ Create(t)
  <2>1. todo[t] # <<>> /\ todo' = [todo EXCEPT ![t] = Tail(@)]
    BY <1>3, <1>12 DEF EnterMap, LeaveMap, Send, AppendStep, Wrap, Restore, Create, Joined, Done
  <2>2. todo'[t] = Tail(todo[t])
    BY <1>2, <2>1
  <2> QED BY <1>8, <2>1, <2>2
<1>13. CASE LookUp(t)
  <2>1. PICK o : o = Sending(Op(t))
    OBVIOUS
  <2>2. o.op = "request"
    BY <2>1 DEF Sending
  <2>3. todo[t] # <<>> /\ todo' = [todo EXCEPT ![t] = <<o>> \o Tail(@)]
    BY <1>3, <1>13, <2>1 DEF LookUp, Then
  <2>4. todo'[t] = <<o>> \o Tail(todo[t])
    BY <1>2, <2>3
  <2> QED BY <1>9, <1>13, <2>2, <2>3, <2>4 DEF Inner, Flow
<1>14. CASE Build(t)
  <2>1. todo[t] # <<>> /\ (todo' = todo \/ todo' = [todo EXCEPT ![t] = Tail(@)])
    BY <1>3, <1>14 DEF Build, Done
  <2>2. todo'[t] = todo[t] \/ todo'[t] = Tail(todo[t])
    BY <1>2, <2>1
  <2> QED BY <1>7, <1>8, <2>1, <2>2
<1>15. CASE Clear(t)
  <2>1. PICK a, b, c, d : /\ a = [op |-> "open", how |-> "parameters", name |-> "",
                                  over |-> NoOverrides, query |-> None]
                          /\ b = Page(1) /\ c = [op |-> "close"] /\ d = [op |-> "next"]
    OBVIOUS
  <2>2. a.op = "open" /\ b.op = "search" /\ c.op = "close" /\ d.op = "next"
    BY <2>1 DEF Page
  <2>3. todo[t] # <<>> /\ todo' = [todo EXCEPT ![t] = InBlock(a, b, c, d, Tail(@))]
    BY <1>3, <1>15, <2>1 DEF Clear, Then, InBlock
  <2>4. todo'[t] = InBlock(a, b, c, d, Tail(todo[t]))
    BY <1>2, <2>3
  <2>5. todo'[t] = Four(a, b, c, d, Tail(todo[t]))
    BY <1>4, <2>3, <2>4, ConsLists
  <2> QED BY <1>4, <1>10, <1>15, <2>2, <2>3, <2>5 DEF Flow
<1>16. CASE FirstStep(t)
  <2>1. PICK o : o = [op |-> IF answer[t].kind = "error" THEN "wrap" ELSE "transform"]
    OBVIOUS
  <2>2. o.op \in {"wrap", "transform"}
    BY <2>1
  <2>3. Runs(t, "next") /\ todo' = [todo EXCEPT ![t] = <<o>> \o Tail(@)]
    BY <1>16, <2>1 DEF FirstStep, Then
  <2>4. todo[t] # <<>> /\ todo'[t] = <<o>> \o Tail(todo[t]) /\ Op(t).op = "next"
    BY <1>2, <2>3 DEF Runs
  <2>5. InWorkflow(t)
    <3>1. Listed(todo[t])
      BY <1>1 DEF Placed
    <3>2. 1 \in 1..Len(todo[t]) /\ todo[t][1].op = "next"
      BY <2>4, <3>1, ListedIs, TailListed DEF Op
    <3>3. Flowing(todo[t])
      BY <3>2 DEF Flowing, Flow
    <3> QED BY <1>6, <3>3
  <2> QED BY <1>9, <2>2, <2>4, <2>5 DEF Inner, Flow
<1>17. CASE Transform(t)
  <2>1. CASE Ids(t) = None
    <3>1. todo[t] # <<>> /\ todo' = [todo EXCEPT ![t] = Tail(@)]
      BY <1>3, <1>17, <2>1 DEF Transform, Done
    <3>2. todo'[t] = Tail(todo[t])
      BY <1>2, <3>1
    <3> QED BY <1>8, <3>1, <3>2
  <2>2. CASE Ids(t) # None
    <3>1. PICK a, b, c, d, e : /\ a = FetchBlock(t) /\ b = Page(1) /\ c = [op |-> "close"]
                               /\ d = [op |-> "append"] /\ e = [op |-> "wrap"]
      OBVIOUS
    <3>2. a.op = "open" /\ b.op = "search" /\ c.op = "close" /\ d.op = "append" /\ e.op = "wrap"
      BY <3>1 DEF Page, FetchBlock
    <3>3. /\ Runs(t, "transform")
          /\ todo' = [todo EXCEPT ![t] = Enclosed(a, b, c, d, e, Tail(@))]
      BY <1>17, <2>2, <3>1 DEF Transform, Then, Enclosed
    <3>4. todo[t] # <<>> /\ todo'[t] = Enclosed(a, b, c, d, e, Tail(todo[t])) /\ Op(t).op = "transform"
      BY <1>2, <3>3 DEF Runs
    <3>5. todo'[t] = Four(a, b, c, d, <<e>> \o Tail(todo[t]))
      BY <1>4, <3>4, ConsLists
    <3>6. Behind(<<e>> \o Tail(todo[t]))
      BY <1>4, <3>2, <3>4, PlacedCons DEF Inner
    <3>7. InWorkflow(t)
      <4>1. Listed(todo[t])
        BY <1>1 DEF Placed
      <4>2. 1 \in 1..Len(todo[t]) /\ todo[t][1].op = "transform"
        BY <3>4, <4>1, ListedIs, TailListed DEF Op
      <4>3. Flowing(todo[t])
        BY <4>2 DEF Flowing, Flow
      <4> QED BY <1>6, <4>3
    <3> QED BY <1>10, <3>2, <3>4, <3>5, <3>6, <3>7 DEF Flow
  <2> QED BY <2>1, <2>2
<1>18. CASE Construct(t)
  <2>1. PICK o : o = [op |-> "restore", name |-> Op(t).provider.name]
    OBVIOUS
  <2>2. o.op = "restore"
    BY <2>1
  <2>3. Runs(t, "temporary") /\ todo' = [todo EXCEPT ![t] = <<o>> \o Tail(@)]
    BY <1>18, <2>1 DEF Construct, Then
  <2>4. todo[t] # <<>> /\ todo'[t] = <<o>> \o Tail(todo[t]) /\ Head(todo[t]).op = "temporary"
    BY <1>2, <1>3, <2>3
  <2> QED BY <1>9, <2>2, <2>4 DEF Inner, Flow
<1>19. CASE Look(t)
  <2>1. CASE ProviderOf(t) \in DOMAIN limiters
    <3>1. todo[t] # <<>> /\ todo' = [todo EXCEPT ![t] = Tail(@)]
      BY <1>3, <1>19, <2>1 DEF Look, Joined, Done
    <3>2. todo'[t] = Tail(todo[t])
      BY <1>2, <3>1
    <3> QED BY <1>8, <3>1, <3>2
  <2>2. CASE ProviderOf(t) \notin DOMAIN limiters
    <3>1. PICK o : o = [op |-> "create", name |-> ProviderOf(t)]
      OBVIOUS
    <3>2. o.op = "create"
      BY <3>1
    <3>3. Runs(t, "add") /\ todo' = [todo EXCEPT ![t] = <<o>> \o Tail(@)]
      BY <1>19, <2>2, <3>1 DEF Look, Then
    <3>4. todo[t] # <<>> /\ todo'[t] = <<o>> \o Tail(todo[t]) /\ Head(todo[t]).op = "add"
      BY <1>2, <1>3, <3>3
    <3> QED BY <1>9, <3>2, <3>4 DEF Inner, Flow
  <2> QED BY <2>1, <2>2
<1> QED BY <1>11, <1>12, <1>13, <1>14, <1>15, <1>16, <1>17, <1>18, <1>19 DEF Step

\* A thread in a block, a workflow or a search that nobody else has disturbed:
\* the blocks of its SearchAPI are its own.
Working(t) == saved[t] # <<>> \/ InWorkflow(t) \/ Runs(t, "request")
Apart(t) ==
    /\ uses[t] \notin tangled
    /\ Len(blocks[uses[t]]) = Len(saved[t])
    /\ \A i \in 1..Len(blocks[uses[t]]) : blocks[uses[t]][i] = <<t, i>>
Apartness == \A t \in Threads : (alone[t] /\ Working(t)) => Apart(t)

Domains == DOMAIN alone = Threads /\ DOMAIN prepared = Threads /\ DOMAIN request = Threads

LEMMA UndisturbedSoFar ==
    ASSUME NEW t \in Threads, SharedInv, Apartness, Begins(t)
    PROVE  Apart(t)
<1>1. /\ Listed(saved[t]) /\ Len(saved[t]) \in Nat /\ (saved[t] # <<>> <=> Len(saved[t]) > 0)
      /\ uses[t] \in Apis
  BY Inside DEF SharedInv
<1>2. CASE ~Outside(t)
  BY <1>2 DEF Begins, Outside, Working, Apartness
<1>3. CASE Outside(t)
  <2>1. /\ \A i \in DOMAIN blocks[uses[t]] : blocks[uses[t]][i][1] = t
        /\ uses[t] \notin tangled /\ Len(saved[t]) = 0
    BY <1>1, <1>3 DEF Begins, Calm, Outside
  <2>2. PICK s, l : s = blocks[uses[t]] /\ l = Len(s)
    OBVIOUS
  <2>3. Counted(uses[t])
    BY <1>1, <2>1 DEF SharedInv, Nested
  <2>4. Listed(s) /\ l \in Nat /\ DOMAIN s = 1..l /\ Owned(uses[t], s, l)
    BY <2>2, <2>3, ListedIs DEF Counted
  <2>5. ~(1 \in 1..l)
    <3>1. SUFFICES ASSUME 1 \in 1..l PROVE FALSE
      OBVIOUS
    <3>2. PICK u \in Threads : \E k \in 1..Len(saved[u]) : s[1] = <<u, k>>
      BY <2>4, <3>1 DEF Owned
    <3>3. u = t
      BY <2>1, <2>2, <2>4, <3>1, <3>2
    <3> QED BY <2>1, <3>2, <3>3
  <2>6. l = 0
    BY <2>4, <2>5
  <2> QED BY <2>1, <2>2, <2>6 DEF Apart
<1> QED BY <1>2, <1>3

\* No other thread has a block there.
LEMMA NobodyElse ==
    ASSUME NEW t \in Threads, NEW u \in Threads, u # t, SharedInv, Apart(u), saved[t] # <<>>
    PROVE  uses[t] # uses[u]
<1> SUFFICES ASSUME uses[t] = uses[u] PROVE FALSE
  OBVIOUS
<1>1. Len(saved[t]) \in Nat /\ Len(saved[t]) > 0 /\ uses[u] \in Apis
  BY Inside DEF SharedInv
<1>2. PICK a, s, l : a = uses[u] /\ s = blocks[a] /\ l = Len(s)
  OBVIOUS
<1>3. Counted(a)
  BY <1>1, <1>2 DEF SharedInv, Nested, Apart
<1>4. Present(a, s, l)
  BY <1>2, <1>3 DEF Counted
<1>5. PICK k : k = Len(saved[t]) /\ k \in 1..Len(saved[t]) /\ uses[t] = a
  BY <1>1, <1>2
<1>6. PICK i \in 1..l : s[i] = <<t, k>>
  BY <1>4, <1>5 DEF Present
<1>7. s[i] = <<u, i>>
  BY <1>2, <1>6 DEF Apart
<1> QED BY <1>6, <1>7, Entries

\* What a step of t leaves to another thread that remains alone.
Left(u) ==
    /\ alone[u] /\ Apart(u)'
    /\ uses'[u] = uses[u] /\ My(u)' = My(u)
    /\ todo'[u] = todo[u] /\ saved'[u] = saved[u] /\ half'[u] = half[u]

LEMMA Aside ==
    ASSUME NEW t \in Threads, NEW u \in Threads, u # t, SharedInv, Apartness, Domains, Step(t),
           Working(u), alone'[u]
    PROVE  Left(u)
<1>1. /\ todo'[u] = todo[u] /\ saved'[u] = saved[u] /\ half'[u] = half[u]
  BY Moves DEF SharedInv, Moved
<1>2. alone[u] /\ (EnterConfig(t) => uses[t] # uses[u])
  BY DEF Domains, Step, EnterConfig, EnterMap, LeaveConfig, LeaveMap, LookUp, Build, Send, Clear,
         FirstStep, Transform, AppendStep, Wrap, Register, Construct, Restore, Look, Create,
         history, Disturbed, Undisturbed
<1>3. Apart(u)
  BY <1>2 DEF Apartness
<1>4. /\ DOMAIN api = Apis /\ DOMAIN blocks = Apis /\ DOMAIN uses = Threads
      /\ t \in Apis /\ uses[t] \in Apis /\ uses[u] \in Apis /\ uses[u] # t
  BY Inside, SharedAssumption DEF SharedInv, Typed, Apis
<1>5. EnterMap(t) \/ LeaveConfig(t) \/ LeaveMap(t) => saved[t] # <<>>
  BY Inside DEF SharedInv, EnterMap, LeaveConfig, LeaveMap
<1>6. ASSUME uses'[u] = uses[u], api'[uses[u]] = api[uses[u]], blocks'[uses[u]] = blocks[uses[u]],
             uses[u] \notin tangled'
      PROVE  Left(u)
  BY <1>1, <1>2, <1>3, <1>6 DEF Left, Apart, My
<1>7. CASE EnterConfig(t) \/ EnterMap(t) \/ LeaveConfig(t) \/ LeaveMap(t)
  <2>1. uses[t] # uses[u]
    BY <1>2, <1>3, <1>5, <1>7, NobodyElse
  <2>2. uses' = uses /\ tangled' \subseteq tangled \cup {uses[t]}
    BY <1>7 DEF EnterConfig, EnterMap, LeaveConfig, LeaveMap, Tangled, history
  <2>3. api'[uses[u]] = api[uses[u]] /\ blocks'[uses[u]] = blocks[uses[u]]
    BY <1>4, <1>7, <2>1 DEF EnterConfig, EnterMap, LeaveConfig, LeaveMap, history
  <2> QED BY <1>3, <1>6, <2>1, <2>2, <2>3 DEF Apart
<1>8. CASE Construct(t) \/ Look(t) \/ Create(t)
  <2>1. blocks' = blocks /\ tangled' = tangled
    BY <1>8 DEF Construct, Look, Create
  <2>2. uses'[u] = uses[u] /\ api'[uses[u]] = api[uses[u]]
    BY <1>4, <1>8 DEF Construct, Look, Create, Joined
  <2> QED BY <1>3, <1>6, <2>1, <2>2 DEF Apart
<1>9. CASE Restore(t)
  <2>1. PICK n : n = Op(t).name
    OBVIOUS
  <2>2. uses' = uses /\ api' = api /\ blocks' = blocks /\ tangled' \subseteq tangled \cup {n}
        /\ Runs(t, "restore")
    BY <1>9, <2>1 DEF Restore
  <2>3. n \in DOMAIN Normal
    BY <2>1, <2>2 DEF SharedInv, Registries, Normalised
  <2>4. n # uses[u]
    BY <1>4, <2>3, SharedAssumption
  <2> QED BY <1>3, <1>6, <2>2, <2>4 DEF Apart
<1>10. CASE LookUp(t) \/ Build(t) \/ Send(t) \/ Clear(t) \/ FirstStep(t) \/ Transform(t)
            \/ AppendStep(t) \/ Wrap(t) \/ Register(t)
  <2>1. uses' = uses /\ api' = api /\ blocks' = blocks /\ tangled' = tangled
    BY <1>10 DEF LookUp, Build, Send, Clear, FirstStep, Transform, AppendStep, Wrap, Register,
                 shared, history
  <2> QED BY <1>3, <1>6, <2>1 DEF Apart
<1> QED BY <1>7, <1>8, <1>9, <1>10 DEF Step

\* What a step of t does to its own: it is undisturbed as long as it works, and
\* is found alone anew at the beginning of a block, a search or a workflow.
LEMMA Still ==
    ASSUME NEW t \in Threads, SharedInv, Order, Apartness, Domains, Step(t), alone'[t], Working(t)'
    PROVE  Apart(t)'
<1>1. Proceeds(t)
  BY Proceeding DEF SharedInv
<1>2. /\ Listed(saved[t]) /\ Len(saved[t]) \in Nat /\ (saved[t] # <<>> <=> Len(saved[t]) > 0)
      /\ Runs(t, "close") => Len(saved[t]) > 0
      /\ Runs(t, "open") /\ half[t] => Len(saved[t]) > 0
      /\ uses[t] \in Apis /\ DOMAIN blocks = Apis /\ DOMAIN saved = Threads
  BY Inside DEF SharedInv, Typed
<1>3. ASSUME Apart(t), uses' = uses, blocks' = blocks, saved' = saved, tangled' = tangled
      PROVE  Apart(t)'
  BY <1>3 DEF Apart
<1>4. CASE EnterConfig(t)
  <2>1. Begins(t)
    BY <1>4 DEF EnterConfig, Disturbed, Domains
  <2>2. Apart(t)
    BY <2>1, UndisturbedSoFar
  <2>3. PICK k, c, s : k = Len(saved[t]) + 1 /\ c = <<t, k>> /\ s = blocks[uses[t]]
    OBVIOUS
  <2>4. /\ blocks' = [blocks EXCEPT ![uses[t]] = Append(@, c)]
        /\ saved' = [saved EXCEPT ![t] = Append(@, My(t))]
        /\ uses' = uses /\ tangled' = tangled
    BY <1>4, <2>3 DEF EnterConfig
  <2>5. blocks'[uses'[t]] = Append(s, c) /\ saved'[t] = Append(saved[t], My(t))
    BY <1>2, <2>3, <2>4
  <2>6. Listed(s)
    BY <1>2, <2>2, <2>3 DEF SharedInv, Nested, Counted, Apart
  <2>7. Len(saved'[t]) = k
    BY <1>2, <2>3, <2>5, AppendListed
  <2>8. /\ Len(Append(s, c)) = Len(s) + 1 /\ \A i \in 1..Len(s) : Append(s, c)[i] = s[i]
        /\ Append(s, c)[Len(s) + 1] = c
    BY <2>6, AppendListed
  <2>9. Len(s) = k - 1 /\ k - 1 \in Nat /\ k \in Nat /\ \A i \in 1..(k - 1) : s[i] = <<t, i>>
    BY <1>2, <2>2, <2>3 DEF Apart
  <2>10. Len(Append(s, c)) = k
    BY <2>8, <2>9
  <2>11. \A i \in 1..k : Append(s, c)[i] = <<t, i>>
    <3>1. ASSUME NEW i \in 1..k PROVE Append(s, c)[i] = <<t, i>>
      <4>1. CASE i = k
        <5>1. Append(s, c)[i] = c
          BY <2>8, <2>9, <4>1
        <5> QED BY <2>3, <4>1, <5>1
      <4>2. CASE i # k
        <5>1. i \in 1..(k - 1)
          BY <2>9, <4>2
        <5> QED BY <2>8, <2>9, <5>1
      <4> QED BY <4>1, <4>2
    <3> QED BY <3>1
  <2>12. uses'[t] \notin tangled'
    BY <2>2, <2>4 DEF Apart
  <2> QED BY <2>5, <2>7, <2>10, <2>11, <2>12 DEF Apart
<1>5. CASE LookUp(t) \/ Clear(t) \/ Register(t)
  <2>1. Begins(t)
    BY <1>5 DEF LookUp, Clear, Register, Disturbed, Undisturbed, Domains
  <2>2. uses' = uses /\ blocks' = blocks /\ saved' = saved /\ tangled' = tangled
    BY <1>5 DEF LookUp, Clear, Register, shared
  <2> QED BY <1>3, <2>1, <2>2, UndisturbedSoFar
<1>6. CASE EnterMap(t)
  <2>1. /\ uses' = uses /\ blocks' = blocks /\ saved' = saved /\ tangled' = tangled
        /\ alone[t] /\ saved[t] # <<>>
    BY <1>2, <1>6 DEF EnterMap, history
  <2> QED BY <1>3, <2>1 DEF Apartness, Working
<1>7. (Runs(t, "close") /\ alone[t]) => /\ Apart(t) /\ saved[t] # <<>>
                                        /\ Last(blocks[uses[t]]) = Block(t)
  <2>1. ASSUME Runs(t, "close"), alone[t] PROVE Apart(t) /\ saved[t] # <<>> /\ Last(blocks[uses[t]]) = Block(t)
    <3>1. saved[t] # <<>> /\ Apart(t)
      BY <1>2, <2>1 DEF Apartness, Working
    <3>2. PICK k, s : k = Len(saved[t]) /\ s = blocks[uses[t]]
      OBVIOUS
    <3>3. Len(s) = k /\ k \in Nat /\ k > 0 /\ s[k] = <<t, k>>
      BY <1>2, <2>1, <3>1, <3>2 DEF Apart
    <3>4. Last(s) = <<t, k>>
      BY <3>3 DEF Last
    <3> QED BY <3>1, <3>2, <3>4 DEF Block
  <2> QED BY <2>1
<1>8. CASE LeaveConfig(t)
  <2>1. /\ uses' = uses /\ blocks' = blocks /\ saved' = saved /\ tangled' = Tangled(t)
        /\ alone[t] /\ Runs(t, "close")
    BY <1>8 DEF LeaveConfig
  <2>2. tangled' = tangled
    BY <1>7, <2>1 DEF Tangled
  <2> QED BY <1>3, <1>7, <2>1, <2>2
<1>9. CASE LeaveMap(t)
  <2>1. PICK k, c, s : k = Len(saved[t]) /\ c = <<t, k>> /\ s = blocks[uses[t]]
    OBVIOUS
  <2>2. /\ blocks' = [blocks EXCEPT ![uses[t]] = Without(@, c)]
        /\ saved' = [saved EXCEPT ![t] = Front(@)]
        /\ uses' = uses /\ tangled' = Tangled(t) /\ Runs(t, "close") /\ alone[t]
    BY <1>9, <2>1 DEF LeaveMap, Block
  <2>3. Apart(t) /\ saved[t] # <<>> /\ tangled' = tangled
    BY <1>7, <2>2 DEF Tangled
  <2>4. blocks'[uses'[t]] = Without(s, c) /\ saved'[t] = Front(saved[t])
    BY <1>2, <2>1, <2>2
  <2>5. Len(s) = k /\ k \in Nat /\ k > 0 /\ \A i \in 1..k : s[i] = <<t, i>>
    BY <1>2, <2>1, <2>2, <2>3 DEF Apart
  <2>6. Listed(s)
    BY <1>2, <2>1, <2>3 DEF SharedInv, Nested, Counted, Apart
  <2>7. s # <<>> /\ s[Len(s)] = c /\ \A i \in 1..Len(s) : s[i] = c => i = Len(s)
    <3>1. \A i \in 1..k : s[i] = c => i = k
      BY <2>1, <2>5, Entries
    <3> QED BY <2>1, <2>5, <2>6, <3>1, ListedIs
  <2>8. /\ Len(Without(s, c)) = Len(s) - 1
        /\ \A i \in 1..(Len(s) - 1) : Without(s, c)[i] = s[i]
    BY <2>6, <2>7, WithoutLast
  <2>9. Len(saved'[t]) = k - 1
    BY <1>2, <2>1, <2>3, <2>4, FrontListed
  <2>10. Len(Without(s, c)) = k - 1 /\ \A i \in 1..(k - 1) : Without(s, c)[i] = <<t, i>>
    <3>1. \A i \in 1..(k - 1) : i \in 1..k
      BY <2>5
    <3> QED BY <2>5, <2>8, <3>1
  <2>11. uses'[t] \notin tangled'
    BY <2>2, <2>3 DEF Apart
  <2> QED BY <2>4, <2>9, <2>10, <2>11 DEF Apart
<1>10. CASE Build(t) \/ Send(t) \/ FirstStep(t) \/ Transform(t) \/ AppendStep(t) \/ Wrap(t)
  <2>1. /\ uses' = uses /\ blocks' = blocks /\ saved' = saved /\ tangled' = tangled /\ alone' = alone
        /\ ~Clear(t) /\ ~LookUp(t)
    BY <1>10 DEF Build, Send, FirstStep, Transform, AppendStep, Wrap, shared, history, Clear, LookUp,
                 Runs
  <2>2. Working(t)
    BY <1>1, <2>1 DEF Proceeds, Working
  <2> QED BY <1>3, <2>1, <2>2 DEF Apartness
\* A thread that makes a SearchAPI for itself is in none of them.
<1>11. CASE Construct(t) \/ Restore(t) \/ Look(t) \/ Create(t)
  <2>1. /\ Runs(t, "temporary") \/ Runs(t, "restore") \/ Runs(t, "add") \/ Runs(t, "create")
        /\ saved' = saved /\ ~Clear(t) /\ ~LookUp(t)
    BY <1>11 DEF Construct, Restore, Look, Create, Clear, LookUp, Runs
  <2>2. saved[t] = <<>>
    <3>1. Controlled(todo[t], saved[t], half[t])
      BY DEF SharedInv, Control
    <3> QED BY <2>1, <3>1, ControlledParts DEF Runs, Op
  <2>3. ~Runs(t, "request") /\ ~InWorkflow(t)
    <3>1. Placed(todo[t])
      BY DEF Order
    <3> QED BY <2>1, <3>1, Workflows DEF Runs, Inner
  <2> QED BY <1>1, <2>1, <2>2, <2>3 DEF Proceeds, Working
<1> QED BY <1>4, <1>5, <1>6, <1>8, <1>9, <1>10, <1>11 DEF Step

\* A thread alone that sends what it has prepared, and what it has sent.
Sends(t) ==
    /\ Runs(t, "request") => prepared[t] = PrepareSearch(t, Op(t))
    /\ Runs(t, "request") /\ half[t] =>
          /\ request[t] = [url |-> NoUrl, params |-> SearchParameters(t, Op(t))]
          /\ SearchParameters(t, Op(t)) # Raised
Sent(t) ==
    request[t].url # NoUrl =>
        LET r == request[t]
        IN  r.page = NoPage \/ r.endpoint = None =>
                prepared[t] = [url |-> r.url, params |-> r.params]
Requesting == \A t \in Threads : alone[t] => Sends(t) /\ Sent(t)

\* The parameters of the request that is sent are those of the prepared one.
LEMMA SameParameters ==
    ASSUME NEW t, NEW o, SearchParameters(t, o) # Raised, o.page = NoPage \/ o.endpoint = None
    PROVE  PrepareSearch(t, o) = Prepared(My(t).config.url, o.endpoint, SearchParameters(t, o))
<1>1. CASE o.page = NoPage
  <2>1. SearchParameters(t, o) = o.extra
    BY <1>1 DEF SearchParameters
  <2> QED BY <1>1, <2>1 DEF PrepareSearch, Stripped
<1>2. CASE o.page # NoPage
  <2>1. SearchParameters(t, o) = Built(t, o.page, o.extra) /\ o.endpoint = None
    BY <1>2 DEF SearchParameters
  <2> QED BY <1>2, <2>1 DEF PrepareSearch, Stripped
<1> QED BY <1>1, <1>2

LEMMA RequestingStep ==
    ASSUME NEW t \in Threads, SharedInv, Order, Apartness, Domains, Requesting, Step(t)
    PROVE  Requesting'
<1>1. Proceeds(t) /\ Moved(t)
  BY Proceeding, Moves DEF SharedInv
<1>2. ASSUME NEW u \in Threads, u # t, alone'[u] PROVE Sends(u)' /\ Sent(u)'
  <2>1. /\ request'[u] = request[u] /\ prepared'[u] = prepared[u] /\ alone[u]
        /\ todo'[u] = todo[u] /\ half'[u] = half[u]
    <3>1. request'[u] = request[u] /\ prepared'[u] = prepared[u]
      BY <1>2 DEF Domains, Step, EnterConfig, EnterMap, LeaveConfig, LeaveMap, LookUp, Build, Send,
             Clear, FirstStep, Transform, AppendStep, Wrap, Register, Construct, Restore, Look, Create
    <3>2. alone[u]
      BY <1>2 DEF Domains, Step, EnterConfig, EnterMap, LeaveConfig, LeaveMap, LookUp, Build, Send,
             Clear, FirstStep, Transform, AppendStep, Wrap, Register, Construct, Restore, Look, Create,
             history, Disturbed, Undisturbed
    <3> QED BY <1>1, <1>2, <3>1, <3>2 DEF Moved
  <2>2. Sends(u) /\ Sent(u)
    BY <2>1 DEF Requesting
  <2>3. Sent(u)'
    BY <2>1, <2>2 DEF Sent
  <2>4. (Runs(u, "request")' <=> Runs(u, "request")) /\ Op(u)' = Op(u)
    BY <2>1 DEF Runs, Op
  <2>5. Sends(u)'
    <3> SUFFICES ASSUME Runs(u, "request") PROVE Sends(u)'
      BY <2>4 DEF Sends
    <3>1. My(u)' = My(u)
      BY <1>2, Aside DEF Working, Left
    <3>2. /\ PrepareSearch(u, Op(u))' = PrepareSearch(u, Op(u))
          /\ SearchParameters(u, Op(u))' = SearchParameters(u, Op(u))
      BY <2>4, <3>1 DEF PrepareSearch, SearchParameters, Built
    <3> QED BY <2>1, <2>2, <2>4, <3>2 DEF Sends
  <2> QED BY <2>3, <2>5
<1>3. ASSUME alone'[t] PROVE Sends(t)' /\ Sent(t)'
  <2>1. DOMAIN request = Threads /\ DOMAIN prepared = Threads /\ DOMAIN half = Threads
        /\ DOMAIN todo = Threads
    BY DEF Domains, SharedInv, Typed
  <2>2. CASE LookUp(t)
    <3>1. PICK o, p : o = Op(t) /\ p = Sending(o)
      OBVIOUS
    <3>2. /\ Runs(t, "search") /\ todo' = [todo EXCEPT ![t] = <<p>> \o Tail(@)]
          /\ prepared' = [prepared EXCEPT ![t] = PrepareSearch(t, o)]
          /\ request' = [request EXCEPT ![t] = NoRequest]
          /\ half' = half /\ uses' = uses /\ api' = api
      BY <2>2, <3>1 DEF LookUp, Then, shared
    <3>3. todo[t] # <<>> /\ todo'[t] = <<p>> \o Tail(todo[t])
      BY <2>1, <3>2 DEF Runs
    <3>4. Listed(Tail(todo[t]))
      BY <3>3, TailListed DEF Order, Placed
    <3>5. Op(t)' = p
      BY <3>3, <3>4, ConsListed DEF Op
    <3>6. ~half[t]
      <4>1. Controlled(todo[t], saved[t], half[t])
        BY DEF SharedInv, Control
      <4> QED BY <3>2, <4>1 DEF Controlled, Runs, Op
    <3>7. p.page = o.page /\ p.extra = o.extra /\ p.endpoint = o.endpoint
      BY <3>1 DEF Sending
    <3>8. My(t)' = My(t)
      BY <3>2 DEF My
    <3>9. PrepareSearch(t, Op(t))' = PrepareSearch(t, o)
      <4>1. PrepareSearch(t, Op(t))' = PrepareSearch(t, p)'
        BY <3>5 DEF PrepareSearch, Stripped, Built
      <4>2. PrepareSearch(t, p)' = PrepareSearch(t, o)
        BY <3>7, <3>8 DEF PrepareSearch, Stripped, Built
      <4> QED BY <4>1, <4>2
    <3>10. prepared'[t] = PrepareSearch(t, o) /\ request'[t] = NoRequest /\ half'[t] = half[t]
      BY <2>1, <3>2
    <3> QED BY <3>6, <3>9, <3>10 DEF Sends, Sent, NoRequest
  <2>3. CASE Build(t)
    <3>1. /\ Runs(t, "request") /\ prepared' = prepared /\ alone' = alone /\ uses' = uses /\ api' = api
      BY <2>3 DEF Build, shared, history
    <3>2. Sends(t) /\ request'[t].url = NoUrl
      BY <1>3, <2>1, <2>3, <3>1 DEF Build, Requesting, NoRequest
    <3>3. CASE SearchParameters(t, Op(t)) = Raised
      <4>1. ~Runs(t, "request")'
        <5>1. todo[t] # <<>> /\ todo' = [todo EXCEPT ![t] = Tail(@)]
          BY <2>3, <3>1, <3>3 DEF Build, Done, Runs
        <5>2. todo'[t] = Tail(todo[t])
          BY <2>1, <5>1
        <5>3. Behind(todo'[t])
          BY <5>1, <5>2, PlacedTail DEF Order
        <5>4. todo'[t] # <<>> => Head(todo'[t]) = todo'[t][1] /\ 1 \in 1..Len(todo'[t])
          BY <5>3, ListedIs, TailListed DEF Behind
        <5> QED BY <5>3, <5>4 DEF Runs, Op, Behind, Waiting
      <4> QED BY <3>2, <4>1 DEF Sends, Sent
    <3>4. CASE SearchParameters(t, Op(t)) # Raised
      <4>1. /\ todo' = todo /\ Op(t)' = Op(t)
            /\ request'[t] = [url |-> NoUrl, params |-> SearchParameters(t, Op(t))]
        BY <2>1, <2>3, <3>4 DEF Build, Op
      <4>2. My(t)' = My(t)
        BY <3>1 DEF My
      <4>3. /\ PrepareSearch(t, Op(t))' = PrepareSearch(t, Op(t))
            /\ SearchParameters(t, Op(t))' = SearchParameters(t, Op(t))
        BY <4>1, <4>2 DEF PrepareSearch, SearchParameters, Built
      <4>4. prepared'[t] = PrepareSearch(t, Op(t))
        BY <3>1, <3>2 DEF Sends
      <4> QED BY <3>2, <3>4, <4>1, <4>3, <4>4 DEF Sends, Sent
    <3> QED BY <3>3, <3>4
  <2>4. CASE Send(t)
    <3>1. PICK o, q, now : o = Op(t) /\ q = SearchParameters(t, o)
                           /\ now = Prepared(My(t).config.url, o.endpoint, q)
      OBVIOUS
    <3>2. /\ Runs(t, "request") /\ half[t] /\ alone[t] /\ prepared' = prepared
      BY <1>3, <2>4 DEF Send, history
    <3>3. prepared[t] = PrepareSearch(t, o) /\ request[t] = [url |-> NoUrl, params |-> q] /\ q # Raised
      BY <3>1, <3>2 DEF Requesting, Sends
    <3>4. request[t].params = q
      BY <3>3
    <3>5. /\ request'[t].url = now.url /\ request'[t].params = now.params
          /\ request'[t].page = o.page /\ request'[t].endpoint = o.endpoint
      BY <2>1, <2>4, <3>1, <3>4 DEF Send
    <3>6. now = [url |-> now.url, params |-> now.params]
      BY <3>1 DEF Prepared
    <3>7. o.page = NoPage \/ o.endpoint = None => prepared[t] = now
      BY <3>1, <3>3, SameParameters
    <3>8. Sent(t)'
      BY <3>2, <3>5, <3>6, <3>7 DEF Sent
    <3>9. ~Runs(t, "request")'
      <4>1. todo[t] # <<>> /\ todo' = [todo EXCEPT ![t] = Tail(@)]
        BY <2>4, <3>2 DEF Send, Done, Runs
      <4>2. todo'[t] = Tail(todo[t])
        BY <2>1, <4>1
      <4>3. Behind(todo'[t])
        BY <4>1, <4>2, PlacedTail DEF Order
      <4>4. todo'[t] # <<>> => Head(todo'[t]) = todo'[t][1] /\ 1 \in 1..Len(todo'[t])
        BY <4>3, ListedIs, TailListed DEF Behind
      <4> QED BY <4>3, <4>4 DEF Runs, Op, Behind, Waiting
    <3> QED BY <3>8, <3>9 DEF Sends
\* The other steps send nothing, and what may follow them is not being sent.
  <2>5. ASSUME ~LookUp(t), ~Build(t), ~Send(t) PROVE Sends(t)' /\ Sent(t)'
    <3>1. ~Runs(t, "request")
      BY <2>5 DEF Step, EnterConfig, EnterMap, LeaveConfig, LeaveMap, Clear, FirstStep, Transform,
             AppendStep, Wrap, Register, Construct, Restore, Look, Create, Runs
    <3>2. ~Runs(t, "request")'
      BY <1>1, <2>5, <3>1 DEF Proceeds
    <3>3. CASE EnterConfig(t) \/ Clear(t) \/ Register(t)
      <4>1. request' = [request EXCEPT ![t] = NoRequest]
        BY <3>3 DEF EnterConfig, Clear, Register
      <4>2. request'[t].url = NoUrl
        BY <2>1, <4>1 DEF NoRequest
      <4> QED BY <3>2, <4>2 DEF Sends, Sent
    <3>4. CASE ~EnterConfig(t) /\ ~Clear(t) /\ ~Register(t)
      <4>1. request' = request /\ prepared' = prepared /\ alone' = alone
        BY <2>5, <3>4 DEF Step, EnterMap, LeaveConfig, LeaveMap, FirstStep, Transform, AppendStep, Wrap,
             Construct, Restore, Look, Create, history
      <4>2. Sent(t)
        BY <1>3, <4>1 DEF Requesting
      <4> QED BY <3>2, <4>1, <4>2 DEF Sends, Sent
    <3> QED BY <3>3, <3>4
  <2> QED BY <2>2, <2>3, <2>4, <2>5
<1> QED BY <1>2, <1>3 DEF Requesting

RequestInv == SharedInv /\ Order /\ Domains /\ Apartness /\ Requesting

LEMMA InitRequests == Init => RequestInv
<1> SUFFICES ASSUME Init PROVE Order /\ Domains /\ Apartness /\ Requesting
  BY InitInv DEF RequestInv
<1>1. Domains /\ \A t \in Threads : ~alone[t]
  BY DEF Init, Domains
<1>2. PICK q \in Scenarios : todo = q.todo
  BY DEF Init
<1>3. ASSUME NEW t \in Threads PROVE Placed(todo[t])
  <2>1. PICK s : s = todo[t] /\ Program(s)
    BY <1>2, SharedAssumption
  <2>2. Listed(s)
    BY <2>1 DEF Program, Listed
  <2>3. \A i \in 1..Len(s) : s[i].op \notin Flow /\ s[i].op # "request"
    BY <2>1, <2>2, ListedIs DEF Program, Flow
  <2>4. s # <<>> => Waiting(Tail(s))
    <3> SUFFICES ASSUME s # <<>>, NEW i \in 1..Len(Tail(s)) PROVE Tail(s)[i].op # "request"
      BY DEF Waiting
    <3>1. Len(s) \in Nat /\ Len(Tail(s)) = Len(s) - 1 /\ Tail(s)[i] = s[i + 1]
      BY <2>2, ListedIs, TailListed
    <3>2. i + 1 \in 1..Len(s)
      BY <3>1
    <3> QED BY <2>3, <3>1, <3>2
  <2>5. Within(s)
    BY <2>3 DEF Within
  <2>6. Offering(s)
    BY <1>2, <2>1, <2>2, ListedIs DEF Offering, Offered
  <2> QED BY <2>1, <2>2, <2>4, <2>5, <2>6 DEF Placed
<1> QED BY <1>1, <1>3 DEF Order, Apartness, Requesting

LEMMA RequestsStep == RequestInv /\ [Next]_vars => RequestInv'
<1> SUFFICES ASSUME RequestInv, [Next]_vars PROVE RequestInv'
  OBVIOUS
<1>0. SharedInv /\ Order /\ Domains /\ Apartness /\ Requesting /\ SharedInv'
  BY InvStep DEF RequestInv
<1>1. ASSUME NEW t \in Threads, Step(t) PROVE RequestInv'
  <2>1. Order'
    <3>1. Proceeds(t) /\ Moved(t)
      BY <1>0, <1>1, Proceeding, Moves DEF SharedInv
    <3> QED BY <1>0, <3>1 DEF Order, Proceeds, Moved
  <2>2. Domains'
    BY <1>0, <1>1 DEF Domains, Step, EnterConfig, EnterMap, LeaveConfig, LeaveMap, LookUp, Build,
           Send, Clear, FirstStep, Transform, AppendStep, Wrap, Register, Construct, Restore, Look,
           Create, history, Disturbed, Undisturbed
  <2>3. ASSUME NEW u \in Threads, alone'[u], Working(u)' PROVE Apart(u)'
    <3>1. CASE u = t
      BY <1>0, <1>1, <2>3, <3>1, Still
    <3>2. CASE u # t
      <4>1. Working(u)
        <5>1. Moved(t)
          BY <1>0, <1>1, Moves DEF SharedInv
        <5> QED BY <2>3, <3>2, <5>1 DEF Moved, Working, InWorkflow, Runs, Op
      <4> QED BY <1>0, <1>1, <2>3, <3>2, <4>1, Aside DEF Left
    <3> QED BY <3>1, <3>2
  <2>4. Requesting'
    BY <1>0, <1>1, RequestingStep
  <2> QED BY <1>0, <2>1, <2>2, <2>3, <2>4 DEF RequestInv, Apartness
<1>2. CASE UNCHANGED vars
  <2>1. /\ UNCHANGED <<api, uses, todo, half, saved, prepared, request, blocks, tangled, alone>>
    BY <1>2 DEF vars, shared, local, history
  <2>2. \A t : (Working(t)' <=> Working(t)) /\ (Apart(t)' <=> Apart(t))
    BY <2>1 DEF Working, InWorkflow, Runs, Op, Apart
  <2>3. \A t : (Sends(t)' <=> Sends(t)) /\ (Sent(t)' <=> Sent(t))
    BY <2>1 DEF Sends, Sent, Runs, Op, PrepareSearch, SearchParameters, Built, My
  <2> QED BY <1>0, <2>1, <2>2, <2>3 DEF RequestInv, Order, Domains, Apartness, Requesting
<1> QED BY <1>1, <1>2 DEF Next, Step, Finished

\* What a thread that is alone has read holds still until its request is sent.
THEOREM RequestInvariant == Spec => []RequestInv
BY InitRequests, RequestsStep, PTL DEF Spec

\* A request that no other thread interfered with is the one whose cached
\* response was looked up or deleted: search builds the same parameters again,
\* and sends them to the same URL, as get_cached_request has prepared, whatever
\* the other threads do with their SearchAPIs, the registry and the workflow.
THEOREM RequestsAreAsPrepared == Spec => []RequestAsPrepared
<1>1. RequestInv => RequestAsPrepared
  BY DEF RequestInv, Requesting, Sent, RequestAsPrepared
<1> QED BY <1>1, RequestInvariant, PTL

----------------------------------------------------------------------------
(* What a workflow's requests ask for *)

\* The query, and nothing else, is what a map that is clean may call "term".
LEMMA TermIsQuery ==
    ASSUME NEW config, NEW map, NEW query, NEW page, Clean(map)
    PROVE  Given(BuildParameters(config, map, query, page, NoFields), "term") \in {None, query}
<1> DEFINE extra == NoFields
           mine == ParameterNames(map) \cap DOMAIN extra
           specific == Over(Restrict(extra, mine), config.params)
           rest == Restrict(extra, DOMAIN extra \ mine)
           key == IF config.key # None THEN config.key
                  ELSE IF Given(specific, "api_key") # None THEN specific["api_key"]
                  ELSE Given(specific, map.key)
           popped == IF config.key # None THEN {}
                     ELSE IF Given(specific, "api_key") # None THEN {"api_key"}
                     ELSE {"api_key", map.key}
           left == Restrict(specific, DOMAIN specific \ popped)
           mapped == MappedParameters(map, query, page, config.size, key, left)
           start == StartIndex(map, page, config.size)
           base == Over(Entry(map.query, query),
                        Over(Entry(map.start, start), Entry(map.size, ToString(config.size))))
           given == Filled(left)
           own == OwnParameters(map, base, left)
           all == WithKey(map, own, key)
<1>1. BuildParameters(config, map, query, page, NoFields) =
          IF Duplicated(map, left) # {} \/ mapped = Raised THEN Raised ELSE Filled(Over(rest, mapped))
  BY DEF BuildParameters
<1>2. mapped = IF start = "raised" \/ all = Raised THEN Raised
               ELSE Filled(Restrict(all, DOMAIN all \ {None}))
  BY DEF MappedParameters
<1>3. "term" \notin {map.start, map.size, map.key} /\ "term" \notin DOMAIN map.specific
  BY DEF Clean
<1>4. "term" \in DOMAIN base => base["term"] = query /\ map.query = "term"
  BY <1>3 DEF Entry, Over
<1>5. DOMAIN rest = {}
  BY DEF NoFields, Restrict
<1>6. own = Over(Restrict(given, DOMAIN given \cap (DOMAIN base \cup DOMAIN map.specific)), base)
  BY DEF OwnParameters
<1>7. all = IF map.key = None THEN own ELSE IF key # None THEN Over(Entry(map.key, key), own)
            ELSE IF map.required THEN Raised ELSE own
  BY DEF WithKey
<1>8. Given(Raised, "term") = None
  BY DEF Given, Raised
<1>9. "term" \in DOMAIN given => "term" \in DOMAIN left
  BY DEF Filled, Restrict
<1>10. map.query = "term" /\ "term" \in DOMAIN left => Duplicated(map, left) # {}
  BY DEF Duplicated
<1> HIDE DEF extra, mine, specific, rest, key, popped, left, mapped, start, base, given, own, all
<1>11. CASE Duplicated(map, left) # {} \/ mapped = Raised
  BY <1>1, <1>8, <1>11
<1>12. CASE Duplicated(map, left) = {} /\ mapped # Raised
  <2>1. ASSUME "term" \in DOMAIN own PROVE own["term"] = query
    <3>1. "term" \notin DOMAIN given \cap (DOMAIN base \cup DOMAIN map.specific)
      BY <1>3, <1>4, <1>9, <1>10, <1>12
    <3>2. "term" \notin DOMAIN Restrict(given, DOMAIN given \cap (DOMAIN base \cup DOMAIN map.specific))
      BY <3>1 DEF Restrict
    <3>3. "term" \in DOMAIN base /\ own["term"] = base["term"]
      BY <1>6, <2>1, <3>2 DEF Over
    <3> QED BY <1>4, <3>3
  <2>2. all # Raised
    BY <1>2, <1>12
  <2>3. ASSUME "term" \in DOMAIN all PROVE all["term"] = query
    <3>1. CASE all = own
      BY <2>1, <2>3, <3>1
    <3>2. CASE all = Over(Entry(map.key, key), own)
      <4>1. "term" \notin DOMAIN Entry(map.key, key)
        BY <1>3 DEF Entry
      <4> QED BY <2>1, <2>3, <3>2, <4>1 DEF Over
    <3> QED BY <1>7, <2>2, <3>1, <3>2
  <2>4. mapped = Filled(Restrict(all, DOMAIN all \ {None}))
    BY <1>2, <1>12
  <2>5. ASSUME "term" \in DOMAIN mapped PROVE mapped["term"] = query
    <3>1. "term" \in DOMAIN Restrict(all, DOMAIN all \ {None})
          /\ mapped["term"] = Restrict(all, DOMAIN all \ {None})["term"]
      BY <2>4, <2>5 DEF Filled, Restrict
    <3> QED BY <2>3, <3>1 DEF Restrict
  <2>6. ASSUME "term" \in DOMAIN Filled(Over(rest, mapped))
        PROVE  Filled(Over(rest, mapped))["term"] = query
    <3>1. "term" \in DOMAIN Over(rest, mapped)
          /\ Filled(Over(rest, mapped))["term"] = Over(rest, mapped)["term"]
      BY <2>6 DEF Filled, Restrict
    <3> QED BY <1>5, <2>5, <3>1 DEF Over
  <2> QED BY <1>1, <1>12, <2>6 DEF Given
<1> QED BY <1>11, <1>12

\* With eFetch's map and the ids among the parameters, these are asked for.
LEMMA IdsAreSent ==
    ASSUME NEW config, NEW query, NEW page, "id" \in DOMAIN config.params,
           config.params["id"] # None,
           BuildParameters(config, EFetch.map, query, page, NoFields) # Raised
    PROVE  Given(BuildParameters(config, EFetch.map, query, page, NoFields), "id") = config.params["id"]
<1> DEFINE map == EFetch.map
           q == config.params["id"]
           extra == NoFields
           mine == ParameterNames(map) \cap DOMAIN extra
           specific == Over(Restrict(extra, mine), config.params)
           rest == Restrict(extra, DOMAIN extra \ mine)
           key == IF config.key # None THEN config.key
                  ELSE IF Given(specific, "api_key") # None THEN specific["api_key"]
                  ELSE Given(specific, map.key)
           popped == IF config.key # None THEN {}
                     ELSE IF Given(specific, "api_key") # None THEN {"api_key"}
                     ELSE {"api_key", map.key}
           left == Restrict(specific, DOMAIN specific \ popped)
           mapped == MappedParameters(map, query, page, config.size, key, left)
           start == StartIndex(map, page, config.size)
           base == Over(Entry(map.query, query),
                        Over(Entry(map.start, start), Entry(map.size, ToString(config.size))))
           given == Filled(left)
           own == OwnParameters(map, base, left)
           all == WithKey(map, own, key)
<1>1. BuildParameters(config, map, query, page, NoFields) =
          IF Duplicated(map, left) # {} \/ mapped = Raised THEN Raised ELSE Filled(Over(rest, mapped))
  BY DEF BuildParameters
<1>2. mapped = IF start = "raised" \/ all = Raised THEN Raised
               ELSE Filled(Restrict(all, DOMAIN all \ {None}))
  BY DEF MappedParameters
<1>3. /\ "id" \in DOMAIN map.specific /\ "id" # map.key
  BY WorkflowAssumption
<1>4. DOMAIN rest = {} /\ DOMAIN Restrict(extra, mine) = {}
  BY DEF NoFields, Restrict
<1>5. own = Over(Restrict(given, DOMAIN given \cap (DOMAIN base \cup DOMAIN map.specific)), base)
  BY DEF OwnParameters
<1>6. all = IF map.key = None THEN own ELSE IF key # None THEN Over(Entry(map.key, key), own)
            ELSE IF map.required THEN Raised ELSE own
  BY DEF WithKey
<1>7. "id" \notin popped
  BY <1>3
<1>8. left = Restrict(specific, DOMAIN specific \ popped) /\ given = Filled(left)
      /\ specific = Over(Restrict(extra, mine), config.params)
  OBVIOUS
<1>9. q = config.params["id"] /\ q # None
  OBVIOUS
<1>10. BuildParameters(config, map, query, page, NoFields) # Raised
  OBVIOUS
<1> HIDE DEF extra, mine, specific, rest, key, popped, left, mapped, start, base, given, own, all, q
<1>11. "id" \in DOMAIN specific /\ specific["id"] = q
  BY <1>4, <1>8, <1>9 DEF Over
<1>12. "id" \in DOMAIN left /\ left["id"] = q
  BY <1>7, <1>8, <1>11 DEF Restrict
<1>13. "id" \in DOMAIN given /\ given["id"] = q
  BY <1>8, <1>9, <1>12 DEF Filled, Restrict
<1>14. "id" \in DOMAIN own /\ own["id"] = q
  <2>1. "id" \in DOMAIN given \cap (DOMAIN base \cup DOMAIN map.specific)
    BY <1>3, <1>13
  <2> QED BY <1>5, <1>13, <2>1 DEF Over, Restrict
<1>15. all # Raised /\ mapped # Raised /\ mapped = Filled(Restrict(all, DOMAIN all \ {None}))
  BY <1>1, <1>2, <1>10
<1>16. "id" \in DOMAIN all /\ all["id"] = q
  <2>1. "id" \notin DOMAIN Entry(map.key, key)
    BY <1>3 DEF Entry
  <2> QED BY <1>6, <1>14, <1>15, <2>1 DEF Over
<1>17. "id" \in DOMAIN mapped /\ mapped["id"] = q
  <2>1. "id" \in DOMAIN all \ {None}
    BY <1>16 DEF None
  <2> QED BY <1>9, <1>15, <1>16, <2>1 DEF Filled, Restrict
<1>18. "id" \in DOMAIN Over(rest, mapped) /\ Over(rest, mapped)["id"] = q
  BY <1>4, <1>17 DEF Over
<1>19. BuildParameters(config, map, query, page, NoFields) = Filled(Over(rest, mapped))
  BY <1>1, <1>10
<1> QED BY <1>9, <1>18, <1>19 DEF Given, Filled, Restrict

\* A registry that has eFetch, and no other provider at its URL.
HasFetch(reg) ==
    /\ FromName(reg, "pubmedefetch") = EFetch
    /\ \A n \in DOMAIN reg : Suitable(reg[n])

LEMMA FetchIsFound ==
    ASSUME NEW reg, HasFetch(reg)
    PROVE  FromUrl(reg, EFetch.url) = EFetch /\ EFetch # NoProvider
<1>1. EFetch # NoProvider
  BY SharedAssumption, WorkflowAssumption DEF Registrable, EFetch
<1> DEFINE there == {p \in DOMAIN reg : reg[p].url = EFetch.url}
<1>2. there # {}
  <2>1. PICK n : n \in DOMAIN reg /\ reg[n] = EFetch
    BY <1>1 DEF HasFetch, FromName
  <2> QED BY <2>1
<1>3. (CHOOSE p \in there : TRUE) \in there
  BY <1>2
<1>4. FromUrl(reg, EFetch.url) = reg[CHOOSE p \in there : TRUE]
  BY <1>2 DEF FromUrl
<1> HIDE DEF there
<1>5. PICK p : p = (CHOOSE q \in there : TRUE)
  OBVIOUS
<1>6. p \in DOMAIN reg /\ reg[p].url = EFetch.url
  BY <1>3, <1>5 DEF there
<1>7. reg[p] = EFetch
  BY <1>6 DEF HasFetch, Suitable
<1> QED BY <1>1, <1>4, <1>5, <1>7

LEMMA FetchDefaults ==
    ASSUME NEW reg, HasFetch(reg)
    PROVE  DefaultConfig(reg, "pubmedefetch", NoOverrides).url = EFetch.url
<1>1. FromName(reg, "pubmedefetch") = EFetch /\ EFetch.url # NoUrl
  BY WorkflowAssumption DEF HasFetch
<1> DEFINE own == [provider |-> EFetch.name, url |-> EFetch.url, size |-> EFetch.size,
                   delay |-> EFetch.delay, key |-> None, params |-> NoFields]
           d == Merged(own, [NoOverrides EXCEPT !.provider = ""])
<1>2. DefaultConfig(reg, "pubmedefetch", NoOverrides) = Validated(reg, d)
  BY <1>1 DEF DefaultConfig
<1>3. d.url = EFetch.url
  BY DEF Merged, NoOverrides
<1> HIDE DEF d
<1>4. PrepareInfo(reg, d.url, d.provider).url = EFetch.url
  BY <1>1, <1>3 DEF PrepareInfo, ResolveConfig
<1>5. Validated(reg, d).url = PrepareInfo(reg, d.url, d.provider).url
  BY DEF Validated
<1> QED BY <1>2, <1>4, <1>5

\* The block of the second step turns the SearchAPI to eFetch and the ids.
LEMMA FetchUpdates ==
    ASSUME NEW reg, HasFetch(reg), NEW config, NEW over, NEW f, NEW g, NEW h, NEW i, NEW j,
           over = [provider |-> f, url |-> EFetch.url, delay |-> g, key |-> h, size |-> i, params |-> j],
           "id" \in DOMAIN j, j["id"] # None
    PROVE  LET c == Updated(reg, config, over)
           IN  c.url = EFetch.url /\ "id" \in DOMAIN c.params /\ c.params["id"] = j["id"]
<1> DEFINE p == PrepareInfo(reg, over.url, over.provider)
           info == IF p.found THEN p.info ELSE NoProvider
           kept == [config EXCEPT !.key = IF KeyKept(info, over.url, config) THEN @ ELSE None]
           own == [over EXCEPT !.provider = IF p.found THEN p.name ELSE @,
                               !.url = IF info # NoProvider THEN p.url ELSE @]
           d == Merged(kept, own)
           changed == info # NoProvider /\ info.name # Normal[config.provider]
           e == [d EXCEPT !.params = Restrict(@, DOMAIN @ \cap DOMAIN info.map.specific)]
           v == IF changed THEN e ELSE d
<1>0. Updated(reg, config, over) = Validated(reg, v)
  BY DEF Updated
<1>1. EFetch.url # NoUrl /\ "id" \in DOMAIN EFetch.map.specific /\ over.url = EFetch.url
      /\ over.params = j
  BY WorkflowAssumption
<1>2. p.found /\ p.info = EFetch /\ p.url = EFetch.url
  <2>1. p = ResolveConfig(reg, EFetch.url, over.provider)
    BY <1>1 DEF PrepareInfo
  <2> HIDE DEF p
  <2> QED BY <2>1, FetchIsFound DEF ResolveConfig
<1>3. info = EFetch
  BY <1>2
<1>4. own.url = EFetch.url /\ own.params = j
  <2>1. PICK x, y : own = [provider |-> x, url |-> y, delay |-> g, key |-> h, size |-> i, params |-> j]
                    /\ y = EFetch.url
    <3> HIDE DEF p, info
    <3>1. PICK x : x = IF p.found THEN p.name ELSE over.provider
      OBVIOUS
    <3>2. PICK y : y = IF info # NoProvider THEN p.url ELSE over.url
      OBVIOUS
    <3>3. y = EFetch.url
      BY <1>1, <1>2, <3>2
    <3>4. own = [[over EXCEPT !.provider = x] EXCEPT !.url = y]
      BY <3>1, <3>2
    <3>5. own = [provider |-> x, url |-> y, delay |-> g, key |-> h, size |-> i, params |-> j]
      <4>1. PICK w : w = [over EXCEPT !.provider = x]
        OBVIOUS
      <4>2. w = [provider |-> x, url |-> EFetch.url, delay |-> g, key |-> h, size |-> i, params |-> j]
        BY <4>1
      <4>3. own = [w EXCEPT !.url = y]
        BY <3>4, <4>1
      <4> QED BY <4>2, <4>3
    <3> QED BY <3>3, <3>5
  <2> QED BY <2>1
<1> HIDE DEF p, info, kept, own, changed
<1>5. d.url = EFetch.url /\ "id" \in DOMAIN d.params /\ d.params["id"] = j["id"]
  <2>1. d.url = EFetch.url
    BY <1>1, <1>4 DEF Merged
  <2>2. d.params = Over(Filled(j), Filled(kept.params))
    BY <1>4 DEF Merged
  <2>3. "id" \in DOMAIN Filled(j) /\ Filled(j)["id"] = j["id"]
    BY DEF Filled, Restrict
  <2> QED BY <2>1, <2>2, <2>3 DEF Over
<1>6. d = [provider |-> d.provider, url |-> d.url, size |-> d.size, delay |-> d.delay,
           key |-> d.key, params |-> d.params]
  BY DEF Merged
<1> HIDE DEF d
<1>7. e.url = d.url /\ e.params = Restrict(d.params, DOMAIN d.params \cap DOMAIN info.map.specific)
  BY <1>6
<1>8. "id" \in DOMAIN e.params /\ e.params["id"] = j["id"]
  BY <1>1, <1>3, <1>5, <1>7 DEF Restrict
<1> HIDE DEF e
<1>9. v.url = EFetch.url /\ "id" \in DOMAIN v.params /\ v.params["id"] = j["id"]
  BY <1>5, <1>7, <1>8
<1> HIDE DEF v
<1>10. PICK r : r = PrepareInfo(reg, v.url, v.provider)
  OBVIOUS
<1>11. r.info = EFetch /\ r.url = EFetch.url
  <2>1. r = ResolveConfig(reg, EFetch.url, v.provider)
    BY <1>1, <1>9, <1>10 DEF PrepareInfo
  <2> QED BY <2>1, FetchIsFound DEF ResolveConfig
<1>12. Validated(reg, v).url = EFetch.url
       /\ Validated(reg, v).params = SpecificParameters(EFetch.map, v.params)
  BY <1>10, <1>11, FetchIsFound DEF Validated
<1>13. "id" \in DOMAIN SpecificParameters(EFetch.map, v.params)
       /\ SpecificParameters(EFetch.map, v.params)["id"] = j["id"]
  BY <1>1, <1>9 DEF SpecificParameters
<1> QED BY <1>0, <1>12, <1>13

----------------------------------------------------------------------------
(* What a workflow finds in the registry *)

\* Providers are suitable, in whichever hands, and so is every parameter map.
Shaped(x) == x = [config |-> x.config, map |-> x.map, query |-> x.query, limiter |-> x.limiter]
Suitables ==
    /\ \A n \in DOMAIN registry : Suitable(registry[n])
    /\ \A t \in Threads : original[t] # NoProvider => Suitable(original[t])
    /\ \A a \in Apis : Shaped(api[a]) /\ Clean(api[a].map)
    /\ \A t \in Threads : \A i \in 1..Len(saved[t]) : Clean(saved[t][i].map)

\* No thread replaces a provider of the user's while one is alone in a block or a
\* workflow.
Untouched == \A n \in DOMAIN Registered : n \notin tangled /\ temporary[n] = <<>>
Quiet     == \A t \in Threads : (alone[t] /\ ~Outside(t)) => Untouched

LEMMA NamesRegistered ==
    /\ DOMAIN Registered \subseteq Normalised /\ Apis \cap DOMAIN Registered = {}
    /\ \A n \in DOMAIN Registered : Named(n) /\ FromName(Registered, n) = Registered[n]
<1>1. ASSUME NEW n \in DOMAIN Registered
      PROVE  n \in Normalised /\ Named(n) /\ FromName(Registered, n) = Registered[n]
  <2>1. Registrable(n, Registered[n])
    BY SharedAssumption
  <2> QED BY <2>1 DEF Registrable, Normalised, Named, FromName
<1> QED BY <1>1, SharedAssumption DEF Normalised

LEMMA Found ==
    ASSUME Registries, Suitables, Untouched
    PROVE  HasFetch(registry)
<1>1. EFetch = Registered["pubmedefetch"] /\ "pubmedefetch" \in DOMAIN Registered
  BY WorkflowAssumption DEF EFetch
<1>2. PICK n : n = "pubmedefetch"
  OBVIOUS
<1>3. n \in Normalised \ tangled /\ temporary[n] = <<>> /\ FromName(Registered, n) = EFetch
  BY <1>1, <1>2, NamesRegistered DEF Untouched
<1>4. FromName(Registered, n) = FromName(registry, n)
  BY <1>3 DEF Registries, Replaced
<1> QED BY <1>2, <1>3, <1>4 DEF HasFetch, Suitables

LEMMA FoundSuitable ==
    ASSUME Suitables, NEW n
    PROVE  FromName(registry, n) # NoProvider => Suitable(FromName(registry, n))
BY DEF Suitables, FromName

LEMMA SuitablesStep ==
    ASSUME NEW t \in Threads, SharedInv, Order, Suitables, Step(t)
    PROVE  Suitables'
<1>1. /\ DOMAIN api = Apis /\ DOMAIN saved = Threads /\ DOMAIN original = Threads
      /\ uses[t] \in Apis /\ t \in Apis
      /\ Listed(saved[t])
  BY Inside DEF SharedInv, Typed, Apis
<1>2. \A p : Offered(p) => Suitable(p)
  BY WorkflowAssumption DEF Offered
<1>3. Runs(t, "temporary") => Suitable(Op(t).provider)
  <2>1. Placed(todo[t])
    BY DEF Order
  <2>2. todo[t] # <<>> => 1 \in 1..Len(todo[t]) /\ Op(t) = todo[t][1]
    BY <2>1, ListedIs, TailListed DEF Placed, Op
  <2> QED BY <1>2, <2>1, <2>2 DEF Runs, Placed, Offering
\* Only the registry and the originals change,
<1>4. ASSUME api' = api, saved' = saved,
             \A n \in DOMAIN registry' : Suitable(registry'[n]),
             original'[t] # NoProvider => Suitable(original'[t]),
             \A u \in Threads \ {t} : original'[u] = original[u]
      PROVE  Suitables'
  BY <1>4 DEF Suitables
\* or only the SearchAPIs and what blocks have saved.
<1>5. ASSUME registry' = registry, original' = original, NEW a \in Apis, NEW x,
             api' = [api EXCEPT ![a] = x], Shaped(x), Clean(x.map),
             \A i \in 1..Len(saved'[t]) : Clean(saved'[t][i].map),
             \A u \in Threads \ {t} : saved'[u] = saved[u]
      PROVE  Suitables'
  <2>1. \A b \in Apis : api'[b] = IF b = a THEN x ELSE api[b]
    BY <1>1, <1>5
  <2>2. \A b \in Apis : Shaped(api'[b]) /\ Clean(api'[b].map)
    BY <1>5, <2>1 DEF Suitables
  <2>3. \A u \in Threads : \A i \in 1..Len(saved'[u]) : Clean(saved'[u][i].map)
    BY <1>5 DEF Suitables
  <2> QED BY <1>5, <2>2, <2>3 DEF Suitables, Shaped
<1>6. Shaped(My(t)) /\ Clean(My(t).map)
  BY <1>1 DEF Suitables, My
<1>7. ASSUME NEW c PROVE LET x == Configured(My(t), c)
                         IN Shaped(x) /\ x.map = My(t).map /\ x.query = My(t).query /\ x.config = c
  BY <1>6 DEF Shaped, Configured
<1>8. ASSUME NEW m, NEW q PROVE LET x == Switched(My(t), m, q)
                                IN Shaped(x) /\ x.map = m /\ x.query = q /\ x.config = My(t).config
  <2>1. PICK a, w : a = My(t) /\ w = [a EXCEPT !.map = m]
    OBVIOUS
  <2>2. a = [config |-> a.config, map |-> a.map, query |-> a.query, limiter |-> a.limiter]
    BY <1>6, <2>1 DEF Shaped
  <2>3. w = [config |-> a.config, map |-> m, query |-> a.query, limiter |-> a.limiter]
    BY <2>1, <2>2
  <2>4. Switched(a, m, q) = [w EXCEPT !.query = q]
    BY <2>1 DEF Switched
  <2>5. Switched(a, m, q) = [config |-> a.config, map |-> m, query |-> q, limiter |-> a.limiter]
    BY <2>3, <2>4
  <2> QED BY <2>1, <2>5 DEF Shaped
<1>9. CASE EnterConfig(t)
  <2>1. PICK c, x : c = Temporarily(t) /\ x = Configured(My(t), c)
    OBVIOUS
  <2>2. /\ registry' = registry /\ original' = original
        /\ saved' = [saved EXCEPT ![t] = Append(saved[t], My(t))]
        /\ api' = [api EXCEPT ![uses[t]] = x]
    BY <1>9, <2>1 DEF EnterConfig, My
  <2>3. Shaped(x) /\ Clean(x.map)
    BY <1>6, <1>7, <2>1
  <2>4. saved'[t] = Append(saved[t], My(t)) /\ \A u \in Threads \ {t} : saved'[u] = saved[u]
    BY <1>1, <2>2
  <2>5. \A i \in 1..Len(saved'[t]) : Clean(saved'[t][i].map)
    <3>0. PICK k : k = Len(saved[t]) + 1
      OBVIOUS
    <3>1. /\ Len(saved[t]) \in Nat /\ Len(saved'[t]) = k
          /\ \A i \in 1..Len(saved[t]) : saved'[t][i] = saved[t][i]
          /\ saved'[t][k] = My(t)
      BY <1>1, <2>4, <3>0, AppendListed, ListedIs
    <3>2. ASSUME NEW i \in 1..k PROVE Clean(saved'[t][i].map)
      <4>1. CASE i = k
        <5>1. Clean(saved'[t][k].map)
          BY <1>6, <3>1
        <5> QED BY <4>1, <5>1
      <4>2. CASE i # k
        <5>1. i \in 1..Len(saved[t])
          BY <3>0, <3>1, <4>2
        <5> QED BY <3>1, <5>1 DEF Suitables
      <4> QED BY <4>1, <4>2
    <3> QED BY <3>1, <3>2
  <2> QED BY <1>1, <1>5, <2>2, <2>3, <2>4, <2>5
<1>10. CASE EnterMap(t)
  <2>1. PICK m, q, x : m = TemporaryMap(t) /\ q = (IF Op(t).query = None THEN My(t).query ELSE Op(t).query)
                       /\ x = Switched(My(t), m, q)
    OBVIOUS
  <2>2. /\ registry' = registry /\ original' = original /\ saved' = saved
        /\ api' = [api EXCEPT ![uses[t]] = x]
    BY <1>10, <2>1 DEF EnterMap, My
  <2>3. Clean(m)
    <3>1. PICK p : p = FromName(registry, Op(t).name)
      OBVIOUS
    <3>2. p # NoProvider => Clean(p.map)
      BY <3>1, FoundSuitable DEF Suitable
    <3> QED BY <1>6, <2>1, <3>1, <3>2 DEF TemporaryMap
  <2>4. Shaped(x) /\ Clean(x.map)
    BY <1>8, <2>1, <2>3
  <2> QED BY <1>1, <1>5, <2>2, <2>4 DEF Suitables
<1>11. CASE LeaveConfig(t)
  <2>1. PICK c, x : c = Last(saved[t]).config /\ x = Configured(My(t), c)
    OBVIOUS
  <2>2. /\ registry' = registry /\ original' = original /\ saved' = saved
        /\ api' = [api EXCEPT ![uses[t]] = x]
    BY <1>11, <2>1 DEF LeaveConfig, My
  <2>3. Shaped(x) /\ Clean(x.map)
    BY <1>6, <1>7, <2>1
  <2> QED BY <1>1, <1>5, <2>2, <2>3 DEF Suitables
<1>12. CASE LeaveMap(t)
  <2>1. PICK m, q, x : m = PutBack(t).map /\ q = PutBack(t).query /\ x = Switched(My(t), m, q)
    OBVIOUS
  <2>2. /\ registry' = registry /\ original' = original /\ saved' = [saved EXCEPT ![t] = Front(@)]
        /\ api' = [api EXCEPT ![uses[t]] = x] /\ Runs(t, "close")
    BY <1>12, <2>1 DEF LeaveMap, My
  <2>3. saved[t] # <<>>
    BY <2>2, Inside DEF SharedInv
  <2>4. /\ Len(saved[t]) \in Nat /\ Len(saved[t]) > 0
        /\ Len(Front(saved[t])) = Len(saved[t]) - 1 /\ Last(saved[t]) = saved[t][Len(saved[t])]
        /\ \A i \in 1..(Len(saved[t]) - 1) : Front(saved[t])[i] = saved[t][i]
    BY <1>1, <2>3, FrontListed, ListedIs
  <2>5. Clean(m)
    BY <2>1, <2>4 DEF Suitables, PutBack
  <2>6. Shaped(x) /\ Clean(x.map)
    BY <1>8, <2>1, <2>5
  <2>7. saved'[t] = Front(saved[t]) /\ \A u \in Threads \ {t} : saved'[u] = saved[u]
    BY <1>1, <2>2
  <2>8. \A i \in 1..Len(saved'[t]) : Clean(saved'[t][i].map)
    <3>1. \A i \in 1..(Len(saved[t]) - 1) : i \in 1..Len(saved[t])
      BY <2>4
    <3> QED BY <2>4, <2>7, <3>1 DEF Suitables
  <2> QED BY <1>1, <1>5, <2>2, <2>6, <2>7, <2>8
<1>13. CASE LookUp(t) \/ Build(t) \/ Send(t) \/ Clear(t) \/ FirstStep(t) \/ Transform(t)
            \/ AppendStep(t) \/ Wrap(t)
  <2>1. registry' = registry /\ original' = original /\ saved' = saved /\ api' = api
    BY <1>13 DEF LookUp, Build, Send, Clear, FirstStep, Transform, AppendStep, Wrap, shared
  <2> QED BY <2>1 DEF Suitables
<1>14. CASE Register(t)
  <2>1. PICK p, n : p = Op(t).provider /\ n = p.name
    OBVIOUS
  <2>2. /\ Runs(t, "temporary") /\ api' = api /\ saved' = saved
        /\ original' = [original EXCEPT ![t] = FromName(registry, n)]
        /\ registry' = Entered(registry, n, p)
    BY <1>14, <2>1 DEF Register
  <2>3. \A m \in DOMAIN registry' : Suitable(registry'[m])
    BY <1>3, <2>1, <2>2 DEF Entered, Suitables
  <2>4. original'[t] = FromName(registry, n) /\ \A u \in Threads \ {t} : original'[u] = original[u]
    BY <1>1, <2>2
  <2> QED BY <1>4, <2>2, <2>3, <2>4, FoundSuitable
<1>15. CASE Restore(t)
  <2>1. PICK n : n = Op(t).name
    OBVIOUS
  <2>2. /\ api' = api /\ saved' = saved /\ original' = original
        /\ registry' = IF original[t] # NoProvider THEN Entered(registry, n, original[t])
                       ELSE Removed(registry, n)
    BY <1>15, <2>1 DEF Restore
  <2>3. \A m \in DOMAIN registry' : Suitable(registry'[m])
    <3>1. CASE original[t] # NoProvider
      BY <2>2, <3>1 DEF Entered, Suitables
    <3>2. CASE original[t] = NoProvider
      BY <2>2, <3>2 DEF Removed, Restrict, Suitables
    <3> QED BY <3>1, <3>2
  <2> QED BY <1>4, <2>2, <2>3 DEF Suitables
<1>16. CASE Construct(t)
  <2>1. PICK p, x : /\ p = FromName(registry, Op(t).provider.name)
                    /\ x = [config |-> DefaultConfig(registry, p.name, NoOverrides), map |-> p.map,
                            query |-> t, limiter |-> None]
    OBVIOUS
  <2>2. registry' = registry /\ original' = original /\ saved' = saved
        /\ (api' = api \/ (p # NoProvider /\ api' = [api EXCEPT ![t] = x]))
    BY <1>16, <2>1 DEF Construct
  <2>3. p # NoProvider => Clean(x.map)
    BY <2>1, FoundSuitable DEF Suitable
  <2>4. Shaped(x)
    BY <2>1 DEF Shaped
  <2>5. CASE api' = api
    BY <2>2, <2>5 DEF Suitables
  <2>6. CASE p # NoProvider /\ api' = [api EXCEPT ![t] = x]
    BY <1>1, <1>5, <2>2, <2>3, <2>4, <2>6 DEF Suitables
  <2> QED BY <2>2, <2>5, <2>6
<1>17. CASE Look(t) \/ Create(t)
  <2>1. registry' = registry /\ original' = original /\ saved' = saved
        /\ (api' = api \/ \E l : api' = [api EXCEPT ![t] = WithLimiter(My(t), l)])
    BY <1>17 DEF Look, Create, Joined
  <2>2. CASE api' = api
    BY <2>1, <2>2 DEF Suitables
  <2>3. ASSUME NEW l, api' = [api EXCEPT ![t] = WithLimiter(My(t), l)] PROVE Suitables'
    <3>1. PICK x : x = WithLimiter(My(t), l)
      OBVIOUS
    <3>2. Shaped(x) /\ x.map = My(t).map
      BY <3>1 DEF WithLimiter, Shaped
    <3> QED BY <1>1, <1>5, <1>6, <2>1, <2>3, <3>1, <3>2 DEF Suitables
  <2> QED BY <2>1, <2>2, <2>3
<1> QED BY <1>9, <1>10, <1>11, <1>12, <1>13, <1>14, <1>15, <1>16, <1>17 DEF Step

\* A calm thread that is about to begin finds the user's own providers.
LEMMA CalmUntouched ==
    ASSUME NEW t \in Threads, SharedInv, Calm(t), \A n : ~Puts(t, n)
    PROVE  Untouched
<1> SUFFICES ASSUME NEW n \in DOMAIN Registered, temporary[n] # <<>> PROVE FALSE
  BY DEF Untouched, Calm
<1>1. n \in Normalised \ tangled /\ n \in DOMAIN temporary
  BY NamesRegistered DEF Calm, SharedInv, Typed, Normalised
<1>2. /\ Listed(temporary[n])
      /\ \A i \in 1..Len(temporary[n]) : \E u \in Threads : temporary[n][i] = u /\ Puts(u, n)
  BY <1>1 DEF SharedInv, Registries, Replaced
<1>3. DOMAIN temporary[n] = 1..Len(temporary[n]) /\ 1 \in 1..Len(temporary[n])
  BY <1>2, ListedIs
<1>4. PICK u \in Threads : temporary[n][1] = u /\ Puts(u, n)
  BY <1>2, <1>3
<1>5. u \in ToSet(temporary[n])
  BY <1>3, <1>4 DEF ToSet
<1>6. u = t
  BY <1>1, <1>5 DEF Calm
<1> QED BY <1>4, <1>6

LEMMA QuietStep ==
    ASSUME NEW t \in Threads, SharedInv, Order, Domains, Quiet, Step(t)
    PROVE  Quiet'
<1>1. Proceeds(t) /\ Moved(t) /\ Placed(todo[t]) /\ Controlled(todo[t], saved[t], half[t])
  BY Proceeding, Moves DEF SharedInv, Order, Control
<1>2. DOMAIN temporary = DOMAIN Normal /\ DOMAIN saved = Threads /\ uses[t] \in Apis
      /\ (Runs(t, "close") => saved[t] # <<>>)
  BY Inside DEF SharedInv, Typed
<1>3. \A u \in Threads \ {t} : Outside(u)' <=> Outside(u)
  BY <1>1 DEF Moved, Outside, InWorkflow
<1>4. Runs(t, "temporary") \/ Runs(t, "restore") => Outside(t) /\ saved[t] = <<>> /\ ~InWorkflow(t)
  BY <1>1, ControlledParts, Workflows DEF Runs, Op, Inner, Outside
<1> SUFFICES ASSUME NEW u \in Threads, alone'[u], ~Outside(u)' PROVE Untouched'
  BY DEF Quiet
<1>5. CASE Register(t)
  <2>1. u = t /\ saved' = saved /\ todo' = todo /\ Runs(t, "temporary")
    BY <1>5 DEF Register, Disturbed, Domains
  <2> QED BY <1>4, <2>1 DEF Outside, InWorkflow
<1>6. CASE Restore(t)
  <2>1. PICK n : n = Op(t).name
    OBVIOUS
  <2>2. /\ saved' = saved /\ alone' = alone /\ Runs(t, "restore") /\ ~Clear(t)
        /\ temporary' = [temporary EXCEPT ![n] = Without(@, t)]
        /\ tangled' \subseteq tangled \cup {n}
    BY <1>6, <2>1 DEF Restore, Clear, Runs
  <2>3. u # t
    BY <1>1, <1>4, <2>2 DEF Outside, Proceeds
  <2>4. Untouched
    BY <1>3, <2>2, <2>3 DEF Quiet
  <2>5. n \notin DOMAIN Registered
    <3>1. SUFFICES ASSUME n \in DOMAIN Registered PROVE FALSE
      OBVIOUS
    <3>2. Puts(t, n) /\ temporary[n] = <<>> /\ n \in Normalised \ tangled
      BY <2>1, <2>2, <2>4, <3>1, NamesRegistered DEF Puts, Untouched
    <3>3. \E i \in 1..Len(temporary[n]) : temporary[n][i] = t
      BY <3>2 DEF SharedInv, Registries, Replaced
    <3> QED BY <3>2, <3>3
  <2>6. \A m \in DOMAIN Registered : temporary'[m] = temporary[m]
    BY <1>2, <2>2, <2>5, NamesRegistered DEF Normalised
  <2> QED BY <2>2, <2>4, <2>5, <2>6 DEF Untouched
<1>7. CASE ~Register(t) /\ ~Restore(t)
  <2>1. temporary' = temporary /\ tangled' \subseteq tangled \cup {uses[t]}
    BY <1>7 DEF Step, EnterConfig, EnterMap, LeaveConfig, LeaveMap, LookUp, Build, Send, Clear,
           FirstStep, Transform, AppendStep, Wrap, Construct, Look, Create, Tangled, history
  <2>2. SUFFICES Untouched
    BY <1>2, <2>1, NamesRegistered DEF Untouched
  <2>3. CASE u # t
    <3>1. alone[u]
      BY <2>3 DEF Domains, Step, EnterConfig, EnterMap, LeaveConfig, LeaveMap, LookUp, Build, Send,
             Clear, FirstStep, Transform, AppendStep, Wrap, Register, Construct, Restore, Look, Create,
             history, Disturbed, Undisturbed
    <3> QED BY <1>3, <2>3, <3>1 DEF Quiet
  <2>4. CASE u = t
    <3>1. alone[t] \/ Begins(t)
      BY <1>7, <2>4 DEF Domains, Step, EnterConfig, EnterMap, LeaveConfig, LeaveMap, LookUp, Build, Send,
             Clear, FirstStep, Transform, AppendStep, Wrap, Construct, Look, Create,
             history, Disturbed, Undisturbed
    <3>2. CASE ~Outside(t)
      BY <3>1, <3>2 DEF Begins, Quiet
    <3>3. CASE Outside(t)
      <4>1. EnterConfig(t) \/ Clear(t)
        <5>1. ASSUME ~EnterConfig(t), ~Clear(t) PROVE FALSE
          <6>1. saved'[t] = saved[t] \/ LeaveMap(t)
            BY <1>7, <5>1 DEF Step, EnterMap, LeaveConfig, LookUp, Build, Send,
                   FirstStep, Transform, AppendStep, Wrap, Construct, Look, Create
          <6>2. ~LeaveMap(t)
            BY <1>2, <3>3 DEF LeaveMap, Outside
          <6> QED BY <1>1, <2>4, <3>3, <5>1, <6>1, <6>2 DEF Outside, Proceeds
        <5> QED BY <5>1
      <4>2. Begins(t)
        BY <2>4, <4>1 DEF EnterConfig, Clear, Disturbed, Undisturbed, Domains
      <4>3. \A n : ~Puts(t, n)
        BY <4>1 DEF EnterConfig, Clear, Puts, Runs
      <4> QED BY <3>3, <4>2, <4>3, CalmUntouched DEF Begins
    <3> QED BY <3>2, <3>3
  <2> QED BY <2>3, <2>4
<1> QED BY <1>5, <1>6, <1>7

----------------------------------------------------------------------------
(* Workflows *)

\* Threads whose workflows are under way together share a history.
OneFlow == \A t, u \in Threads : (t # u /\ InWorkflow(t) /\ InWorkflow(u)) => t \in mixed

LEMMA OneFlowStep ==
    ASSUME NEW t \in Threads, SharedInv, Order, OneFlow, Step(t)
    PROVE  OneFlow'
<1>1. Proceeds(t) /\ Moved(t)
  BY Proceeding, Moves DEF SharedInv
<1>2. \A u \in Threads \ {t} : InWorkflow(u)' <=> InWorkflow(u)
  BY <1>1 DEF Moved, InWorkflow
<1>3. CASE Clear(t)
  BY <1>2, <1>3 DEF Clear, OneFlow
<1>4. CASE ~Clear(t)
  <2>1. mixed' = mixed
    BY <1>4 DEF Step, EnterConfig, EnterMap, LeaveConfig, LeaveMap, LookUp, Build, Send,
           FirstStep, Transform, AppendStep, Wrap, Register, Restore, Construct, Look, Create, history
  <2>2. \A u \in Threads : InWorkflow(u)' => InWorkflow(u)
    BY <1>1, <1>2, <1>4 DEF Proceeds
  <2> QED BY <2>1, <2>2 DEF OneFlow
<1> QED BY <1>3, <1>4

\* What a step of t does to what another thread works with in its workflow.
LEMMA FlowAside ==
    ASSUME NEW t \in Threads, NEW u \in Threads, u # t, SharedInv, Order, Apartness, Domains, OneFlow,
           Step(t), InWorkflow(u), alone'[u],
           DOMAIN answer = Threads, DOMAIN asked = Threads, DOMAIN result = Threads
    PROVE  /\ Left(u)
           /\ answer'[u] = answer[u] /\ asked'[u] = asked[u] /\ request'[u] = request[u]
           /\ result'[u] = result[u]
           /\ u \notin mixed' => u \notin mixed /\ recorded' = recorded
<1>1. Left(u)
  BY Aside DEF Working
<1>2. answer'[u] = answer[u] /\ asked'[u] = asked[u] /\ request'[u] = request[u]
      /\ result'[u] = result[u]
  BY DEF Domains, Step, EnterConfig, EnterMap, LeaveConfig, LeaveMap, LookUp, Build, Send,
         Clear, FirstStep, Transform, AppendStep, Wrap, Register, Construct, Restore, Look, Create,
         history
<1>3. CASE Clear(t)
  BY <1>1, <1>2, <1>3 DEF Clear
<1>4. CASE FirstStep(t) \/ AppendStep(t)
  <2>1. mixed' = mixed /\ (Runs(t, "next") \/ Runs(t, "append"))
    BY <1>4 DEF FirstStep, AppendStep, history
  <2>2. InWorkflow(t)
    <3>1. Listed(todo[t])
      BY DEF Order, Placed
    <3>2. todo[t] # <<>> => 1 \in DOMAIN todo[t] /\ todo[t][1] = Op(t)
      BY <3>1, ListedIs, TailListed DEF Op
    <3> QED BY <2>1, <3>2 DEF InWorkflow, Runs
  <2> QED BY <1>1, <1>2, <2>1, <2>2 DEF OneFlow
<1>5. CASE ~Clear(t) /\ ~FirstStep(t) /\ ~AppendStep(t)
  <2>1. mixed' = mixed /\ recorded' = recorded
    BY <1>5 DEF Step, EnterConfig, EnterMap, LeaveConfig, LeaveMap, LookUp, Build, Send,
           Transform, Wrap, Register, Restore, Construct, Look, Create, history, shared
  <2> QED BY <1>1, <1>2, <2>1
<1> QED BY <1>3, <1>4, <1>5

\* What a workflow has left to do, before the rest r of a program, and what its
\* thread knows at each stage; as long as no other workflow shares its history,
\* this holds the steps so far.
Up(x, s)       == <<x>> \o s
Opening        == [op |-> "open", how |-> "parameters", name |-> "", over |-> NoOverrides,
                   query |-> None]
Only(x)        == [op |-> x]
AfterFirst(r)  == Up(Only("close"), Up(Only("next"), r))
AfterSecond(r) == Up(Only("append"), Up(Only("wrap"), r))

\* The block of the second step, for ids q.
IsFetch(o, q) ==
    /\ o.op = "open" /\ o.how = "parameters" /\ o.name = "pubmedefetch" /\ o.query = None
    /\ o.over = [provider |-> o.over.provider, url |-> EFetch.url, delay |-> o.over.delay,
                 key |-> o.over.key, size |-> o.over.size, params |-> o.over.params]
    /\ "id" \in DOMAIN o.over.params /\ o.over.params["id"] = q /\ q # None
\* The SearchAPI is turned to eFetch and the ids.
Reaches(t) ==
    LET c == My(t).config
    IN  /\ c.url = EFetch.url
        /\ "id" \in DOMAIN c.params /\ c.params["id"] = asked[t] /\ asked[t] # None

First(x)  == [step |-> "search", result |-> x]
Second(x) == [step |-> "fetch", result |-> x]
NotYet(t) == t \notin mixed => recorded = <<>>
Searched(t, x) == x.kind # "error" /\ x.meta = asked[t]
OneStep(t)  == t \notin mixed => \E x : recorded = <<First(x)>> /\ Searched(t, x)
TwoSteps(t) == t \notin mixed => \E x, y : recorded = <<First(x), Second(y)>> /\ Searched(t, x)

Asks(t) == My(t).query = asked[t] /\ NotYet(t)
Answered(t) ==
    (answer[t].kind # "error" /\ answer[t].ids # None) =>
        answer[t].ids = asked[t] /\ answer[t].meta = asked[t]
Fetched(t) ==
    answer[t].kind # "error" =>
        answer[t] = [kind |-> answer[t].kind, ids |-> None, meta |-> None, records |-> asked[t]]

AtOpening(t, r) == todo[t] = Up(Opening, Up(Page(1), AfterFirst(r))) /\ Asks(t)
AtSearch(t, r)  == todo[t] = Up(Page(1), AfterFirst(r)) /\ Asks(t)
AtRequest(t, r) ==
    /\ todo[t] = Up(Sending(Page(1)), AfterFirst(r)) /\ Asks(t)
    /\ half[t] => Given(request[t].params, "term") \in {None, asked[t]}
AtClose(t, r) == todo[t] = AfterFirst(r) /\ Answered(t) /\ NotYet(t)
AtNext(t, r)  == todo[t] = Up(Only("next"), r) /\ Answered(t) /\ NotYet(t)
AtTransform(t, r) ==
    /\ todo[t] = Up(Only("transform"), r) /\ Answered(t) /\ answer[t].kind # "error"
    /\ t \notin mixed => recorded = <<First(answer[t])>>
AtFetch(t, r) ==
    /\ \E o : /\ todo[t] = Up(o, Up(Page(1), Up(Only("close"), AfterSecond(r))))
              /\ IsFetch(o, asked[t])
    /\ half[t] => Reaches(t)
    /\ OneStep(t)
AtFetchSearch(t, r) ==
    /\ todo[t] = Up(Page(1), Up(Only("close"), AfterSecond(r)))
    /\ Reaches(t) /\ My(t).map = EFetch.map /\ OneStep(t)
AtFetchRequest(t, r) ==
    /\ todo[t] = Up(Sending(Page(1)), Up(Only("close"), AfterSecond(r)))
    /\ Reaches(t) /\ My(t).map = EFetch.map /\ OneStep(t)
    /\ half[t] => Given(request[t].params, "id") = asked[t]
AtFetchClose(t, r) == todo[t] = Up(Only("close"), AfterSecond(r)) /\ Fetched(t) /\ OneStep(t)
AtAppend(t, r)     == todo[t] = AfterSecond(r) /\ Fetched(t) /\ OneStep(t)
AtWrap(t, r) ==
    todo[t] = Up(Only("wrap"), r) /\ Fetched(t) /\ (answer[t].kind # "error" => TwoSteps(t))

Asking(t, r)   == AtOpening(t, r) \/ AtSearch(t, r) \/ AtRequest(t, r)
Asked(t, r)    == AtClose(t, r) \/ AtNext(t, r) \/ AtTransform(t, r)
Fetching(t, r) == AtFetch(t, r) \/ AtFetchSearch(t, r) \/ AtFetchRequest(t, r)
Ending(t, r)   == AtFetchClose(t, r) \/ AtAppend(t, r) \/ AtWrap(t, r)
Stage(t, r)    == Asking(t, r) \/ Asked(t, r) \/ Fetching(t, r) \/ Ending(t, r)
After(r)       == Listed(r) /\ ~Flowing(r)
Flows == \A t \in Threads : (alone[t] /\ InWorkflow(t)) => \E r : After(r) /\ Stage(t, r)

LEMMA Ups ==
    ASSUME NEW x, NEW s, Listed(s)
    PROVE  /\ Listed(Up(x, s)) /\ Up(x, s) # <<>>
           /\ Head(Up(x, s)) = x /\ Tail(Up(x, s)) = s
BY ConsListed DEF Up

LEMMA Afters ==
    ASSUME NEW r, Listed(r)
    PROVE  /\ Listed(AfterFirst(r)) /\ Listed(AfterSecond(r))
           /\ Listed(Up(Only("close"), AfterSecond(r)))
           /\ Listed(Up(Only("next"), r)) /\ Listed(Up(Only("wrap"), r))
           /\ Listed(Up(Page(1), AfterFirst(r)))
           /\ Listed(Up(Page(1), Up(Only("close"), AfterSecond(r))))
BY Ups DEF AfterFirst, AfterSecond

\* The head of a program says which action is next.
LEMMA Dispatch ==
    ASSUME NEW t \in Threads, NEW o, NEW s, Listed(s), todo[t] = Up(o, s), Step(t)
    PROVE  /\ Op(t) = o /\ Tail(todo[t]) = s /\ todo[t] # <<>> /\ Runs(t, o.op)
           /\ o.op = "open" => EnterConfig(t) \/ EnterMap(t)
           /\ o.op = "close" => LeaveConfig(t) \/ LeaveMap(t)
           /\ o.op = "search" => LookUp(t)
           /\ o.op = "request" => Build(t) \/ Send(t)
           /\ o.op = "next" => FirstStep(t)
           /\ o.op = "transform" => Transform(t)
           /\ o.op = "append" => AppendStep(t)
           /\ o.op = "wrap" => Wrap(t)
<1>1. Op(t) = o /\ Tail(todo[t]) = s /\ todo[t] # <<>>
  BY Ups DEF Op
<1>2. \A x : Runs(t, x) <=> o.op = x
  BY <1>1 DEF Runs
<1> QED BY <1>1, <1>2 DEF Step, EnterConfig, EnterMap, LeaveConfig, LeaveMap, LookUp, Build, Send, Clear,
       FirstStep, Transform, AppendStep, Wrap, Register, Construct, Restore, Look, Create

LEMMA Attributes ==
    ASSUME NEW a, NEW c, NEW m, NEW q, Shaped(a)
    PROVE  /\ Configured(a, c).config = c /\ Configured(a, c).map = a.map
           /\ Configured(a, c).query = a.query
           /\ Switched(a, m, q).config = a.config /\ Switched(a, m, q).map = m
           /\ Switched(a, m, q).query = q
<1>1. a = [config |-> a.config, map |-> a.map, query |-> a.query, limiter |-> a.limiter]
  BY DEF Shaped
<1>2. PICK w : w = [a EXCEPT !.map = m]
  OBVIOUS
<1>3. w = [config |-> a.config, map |-> m, query |-> a.query, limiter |-> a.limiter]
  BY <1>1, <1>2
<1>4. Switched(a, m, q) = [w EXCEPT !.query = q]
  BY <1>2 DEF Switched
<1> QED BY <1>1, <1>3, <1>4 DEF Configured

\* A stage depends on what is the thread's own and on the history.
Same(u) ==
    /\ todo'[u] = todo[u] /\ half'[u] = half[u] /\ My(u)' = My(u)
    /\ answer'[u] = answer[u] /\ asked'[u] = asked[u] /\ request'[u] = request[u]
    /\ u \notin mixed' => u \notin mixed /\ recorded' = recorded

LEMMA StageKept ==
    ASSUME NEW u, NEW r, Same(u), Stage(u, r)
    PROVE  Stage(u, r)'
<1>1. /\ Asks(u) => Asks(u)'
      /\ Answered(u) => Answered(u)'
      /\ Fetched(u) => Fetched(u)'
      /\ NotYet(u) => NotYet(u)'
      /\ Reaches(u) => Reaches(u)'
  BY DEF Same, Asks, Answered, Fetched, NotYet, Reaches
<1>2. /\ OneStep(u) => OneStep(u)'
      /\ TwoSteps(u) => TwoSteps(u)'
  BY DEF Same, OneStep, TwoSteps, Searched
<1>3. Asking(u, r) => Asking(u, r)'
  BY <1>1 DEF Asking, AtOpening, AtSearch, AtRequest, Same
<1>4. Asked(u, r) => Asked(u, r)'
  BY <1>1 DEF Asked, AtClose, AtNext, AtTransform, Same
<1>5. Fetching(u, r) => Fetching(u, r)'
  BY <1>1, <1>2 DEF Fetching, AtFetch, AtFetchSearch, AtFetchRequest, Same
<1>6. Ending(u, r) => Ending(u, r)'
  BY <1>1, <1>2 DEF Ending, AtFetchClose, AtAppend, AtWrap, Same
<1> QED BY <1>3, <1>4, <1>5, <1>6 DEF Stage

Grounds(t) ==
    /\ DOMAIN todo = Threads /\ DOMAIN half = Threads /\ DOMAIN api = Apis /\ DOMAIN uses = Threads
    /\ DOMAIN answer = Threads /\ DOMAIN asked = Threads /\ DOMAIN request = Threads
    /\ uses[t] \in Apis /\ Shaped(My(t)) /\ Clean(My(t).map) /\ HasFetch(registry)
    /\ half[t] => todo[t] # <<>> /\ Op(t).op \in {"open", "close", "request", "temporary"}

\* The first search: for the query, with a map that is clean.
LEMMA AskingStep ==
    ASSUME NEW t \in Threads, NEW r, After(r), Grounds(t), Asking(t, r), Step(t)
    PROVE  Stage(t, r)'
<1>0. /\ Listed(r) /\ Listed(AfterFirst(r)) /\ Listed(Up(Page(1), AfterFirst(r)))
  BY Afters DEF After
<1>1. CASE AtOpening(t, r)
  <2>1. /\ Op(t) = Opening /\ Tail(todo[t]) = Up(Page(1), AfterFirst(r)) /\ Opening.op = "open"
        /\ EnterConfig(t) \/ EnterMap(t)
    <3>1. Opening.op = "open"
      BY DEF Opening
    <3> QED BY <1>0, <1>1, <3>1, Dispatch DEF AtOpening
  <2>2. CASE EnterConfig(t)
    <3>1. PICK c : c = Temporarily(t)
      OBVIOUS
    <3>2. /\ api' = [api EXCEPT ![uses[t]] = Configured(@, c)]
          /\ todo' = todo /\ uses' = uses /\ asked' = asked /\ mixed' = mixed /\ recorded' = recorded
      BY <2>2, <3>1 DEF EnterConfig
    <3>3. My(t)' = Configured(My(t), c)
      BY <3>2 DEF My, Grounds
    <3>4. My(t)'.query = My(t).query
      BY <3>3, Attributes DEF Grounds
    <3>5. AtOpening(t, r)'
      BY <1>1, <3>2, <3>4 DEF AtOpening, Asks, NotYet
    <3> QED BY <3>5 DEF Stage, Asking
  <2>3. CASE EnterMap(t)
    <3>1. PICK m, q : m = TemporaryMap(t) /\ q = (IF Op(t).query = None THEN My(t).query ELSE Op(t).query)
      OBVIOUS
    <3>2. /\ api' = [api EXCEPT ![uses[t]] = Switched(@, m, q)]
          /\ todo' = [todo EXCEPT ![t] = Tail(@)]
          /\ uses' = uses /\ asked' = asked /\ mixed' = mixed /\ recorded' = recorded
      BY <2>3, <3>1 DEF EnterMap, Done, history
    <3>3. My(t)' = Switched(My(t), m, q) /\ q = My(t).query
      <4>0. Opening.query = None
        BY DEF Opening
      <4>1. Op(t).query = None
        BY <2>1, <4>0
      <4> QED BY <3>1, <3>2, <4>1 DEF My, Grounds
    <3>4. My(t)'.query = My(t).query
      BY <3>3, Attributes DEF Grounds
    <3>5. todo'[t] = Up(Page(1), AfterFirst(r))
      BY <2>1, <3>2 DEF Grounds
    <3>6. AtSearch(t, r)'
      BY <1>1, <3>2, <3>4, <3>5 DEF AtOpening, AtSearch, Asks, NotYet
    <3> QED BY <3>6 DEF Stage, Asking
  <2> QED BY <2>1, <2>2, <2>3
<1>2. CASE AtSearch(t, r)
  <2>1. /\ Op(t) = Page(1) /\ Tail(todo[t]) = AfterFirst(r) /\ LookUp(t) /\ Page(1).op = "search"
    <3>1. Page(1).op = "search"
      BY DEF Page
    <3> QED BY <1>0, <1>2, <3>1, Dispatch DEF AtSearch
  <2>2. /\ todo' = [todo EXCEPT ![t] = <<Sending(Op(t))>> \o Tail(@)]
        /\ half' = half /\ uses' = uses /\ api' = api /\ asked' = asked /\ mixed' = mixed
        /\ recorded' = recorded
    BY <2>1 DEF LookUp, Then, shared
  <2>3. todo'[t] = Up(Sending(Page(1)), AfterFirst(r))
    BY <2>1, <2>2 DEF Grounds, Up
  <2>4. ~half'[t]
    BY <2>1, <2>2 DEF Grounds
  <2>5. AtRequest(t, r)'
    BY <1>2, <2>2, <2>3, <2>4 DEF AtSearch, AtRequest, Asks, NotYet, My
  <2> QED BY <2>5 DEF Stage, Asking
<1>3. CASE AtRequest(t, r)
  <2>0. PICK o : o = Sending(Page(1))
    OBVIOUS
  <2>1. o.op = "request" /\ o.page = 1 /\ o.extra = NoFields /\ o.endpoint = None
    BY <2>0 DEF Sending, Page
  <2>2. /\ Op(t) = o /\ Tail(todo[t]) = AfterFirst(r) /\ (Build(t) \/ Send(t))
    BY <1>0, <1>3, <2>0, <2>1, Dispatch DEF AtRequest
  <2>3. /\ uses' = uses /\ api' = api /\ asked' = asked /\ mixed' = mixed /\ recorded' = recorded
        /\ My(t)' = My(t)
    BY <2>2 DEF Build, Send, shared, history, My
  <2>4. Asks(t)' /\ NotYet(t)'
    BY <1>3, <2>3 DEF AtRequest, Asks, NotYet
  <2>5. CASE Build(t)
    <3>1. PICK p : p = SearchParameters(t, o)
      OBVIOUS
    <3>2. p = BuildParameters(My(t).config, My(t).map, My(t).query, 1, NoFields)
      BY <2>1, <3>1 DEF SearchParameters, Built, NoPage
    <3>3. Given(p, "term") \in {None, asked[t]}
      BY <1>3, <3>2, TermIsQuery DEF Grounds, AtRequest, Asks
    <3>4. CASE p = Raised
      <4>1. /\ answer' = [answer EXCEPT ![t] = [kind |-> "error"]] /\ todo' = [todo EXCEPT ![t] = Tail(@)]
        BY <2>2, <2>5, <3>1, <3>4 DEF Build, Done
      <4>2. answer'[t].kind = "error" /\ todo'[t] = AfterFirst(r)
        BY <2>2, <4>1 DEF Grounds
      <4>3. AtClose(t, r)'
        BY <2>4, <4>2 DEF AtClose, Answered
      <4> QED BY <4>3 DEF Stage, Asked
    <3>5. CASE p # Raised
      <4>1. /\ request' = [request EXCEPT ![t] = [url |-> NoUrl, params |-> p]] /\ todo' = todo
        BY <2>2, <2>5, <3>1, <3>5 DEF Build
      <4>2. request'[t].params = p
        BY <4>1 DEF Grounds
      <4>3. AtRequest(t, r)'
        BY <1>3, <2>3, <2>4, <3>3, <4>1, <4>2 DEF AtRequest
      <4> QED BY <4>3 DEF Stage, Asking
    <3> QED BY <3>4, <3>5
  <2>6. CASE Send(t)
    <3>1. PICK now : now = Prepared(My(t).config.url, o.endpoint, request[t].params)
      OBVIOUS
    <3>2. PICK k : answer' = [answer EXCEPT ![t] = Said(now, k)]
      BY <2>2, <2>6, <3>1 DEF Send
    <3>3. now.params = request[t].params /\ half[t] /\ todo' = [todo EXCEPT ![t] = Tail(@)]
      BY <2>6, <3>1 DEF Prepared, Send, Done
    <3>4. todo'[t] = AfterFirst(r) /\ answer'[t] = Said(now, k)
      BY <2>2, <3>2, <3>3 DEF Grounds
    <3>5. Given(now.params, "term") \in {None, asked[t]}
      BY <1>3, <3>3 DEF AtRequest
    <3>6. PICK g : g = Given(now.params, "term")
      OBVIOUS
    <3>7. /\ Said(now, k).ids # None => now.url = PubMed.url /\ Said(now, k).ids = g
          /\ now.url = PubMed.url => Said(now, k).meta = g
      BY <3>6 DEF Said
    <3>8. Answered(t)'
      BY <2>3, <3>4, <3>5, <3>6, <3>7 DEF Answered
    <3>9. AtClose(t, r)'
      BY <2>4, <3>4, <3>8 DEF AtClose
    <3> QED BY <3>9 DEF Stage, Asked
  <2> QED BY <2>2, <2>5, <2>6
<1> QED BY <1>1, <1>2, <1>3 DEF Asking

\* A block is left: the answer and the history stay.
LEMMA Leaves ==
    ASSUME NEW t \in Threads, NEW s, Listed(s), Grounds(t), todo[t] = Up(Only("close"), s), Step(t)
    PROVE  /\ todo' = todo \/ todo'[t] = s
           /\ answer' = answer /\ asked' = asked /\ mixed' = mixed /\ recorded' = recorded
<1>1. Only("close").op = "close"
  BY DEF Only
<1>2. Tail(todo[t]) = s /\ (LeaveConfig(t) \/ LeaveMap(t))
  BY <1>1, Dispatch
<1>3. CASE LeaveConfig(t)
  BY <1>3 DEF LeaveConfig
<1>4. CASE LeaveMap(t)
  BY <1>2, <1>4 DEF LeaveMap, Done, Grounds
<1> QED BY <1>2, <1>3, <1>4

\* With the answer, the second step is prepared, from the ids in it.
LEMMA AskedStep ==
    ASSUME NEW t \in Threads, NEW r, After(r), Grounds(t), Asked(t, r), Step(t)
    PROVE  Stage(t, r)' \/ todo'[t] = r
<1>0. /\ Listed(r) /\ Listed(Up(Only("next"), r)) /\ Listed(Up(Only("wrap"), r))
  BY Afters DEF After
<1>1. CASE AtClose(t, r)
  <2>1. /\ todo' = todo \/ todo'[t] = Up(Only("next"), r)
        /\ answer' = answer /\ asked' = asked /\ mixed' = mixed /\ recorded' = recorded
    BY <1>0, <1>1, Leaves DEF AtClose, AfterFirst
  <2>2. Answered(t)' /\ NotYet(t)'
    BY <1>1, <2>1 DEF AtClose, Answered, NotYet
  <2>3. AtClose(t, r)' \/ AtNext(t, r)'
    BY <1>1, <2>1, <2>2 DEF AtClose, AtNext
  <2> QED BY <2>3 DEF Stage, Asked
<1>2. CASE AtNext(t, r)
  <2>1. Tail(todo[t]) = r /\ FirstStep(t)
    <3>1. Only("next").op = "next"
      BY DEF Only
    <3> QED BY <1>0, <1>2, <3>1, Dispatch DEF AtNext
  <2>2. PICK n : n = IF answer[t].kind = "error" THEN "wrap" ELSE "transform"
    OBVIOUS
  <2>3. /\ recorded' = Append(recorded, First(answer[t]))
        /\ todo' = [todo EXCEPT ![t] = <<[op |-> n]>> \o Tail(@)]
        /\ answer' = answer /\ asked' = asked /\ mixed' = mixed
    BY <2>1, <2>2 DEF FirstStep, Then, history, First
  <2>4. todo'[t] = Up(Only(n), r)
    BY <2>1, <2>3 DEF Grounds, Up, Only
  <2>5. Answered(t)'
    BY <1>2, <2>3 DEF AtNext, Answered
  <2>6. CASE answer[t].kind = "error"
    <3>1. AtWrap(t, r)'
      BY <2>2, <2>3, <2>4, <2>6 DEF AtWrap, Fetched
    <3> QED BY <3>1 DEF Stage, Ending
  <2>7. CASE answer[t].kind # "error"
    <3>1. t \notin mixed => recorded' = <<First(answer[t])>>
      <4>1. t \notin mixed => recorded = <<>>
        BY <1>2 DEF AtNext, NotYet
      <4>2. Append(<<>>, First(answer[t])) = <<First(answer[t])>>
        OBVIOUS
      <4> QED BY <2>3, <4>1, <4>2
    <3>2. AtTransform(t, r)'
      BY <2>2, <2>3, <2>4, <2>5, <2>7, <3>1 DEF AtTransform
    <3> QED BY <3>2 DEF Stage, Asked
  <2> QED BY <2>6, <2>7
<1>3. CASE AtTransform(t, r)
  <2>1. Tail(todo[t]) = r /\ Transform(t)
    <3>1. Only("transform").op = "transform"
      BY DEF Only
    <3> QED BY <1>0, <1>3, <3>1, Dispatch DEF AtTransform
  <2>2. uses' = uses /\ api' = api /\ half' = half /\ answer' = answer /\ asked' = asked
        /\ mixed' = mixed /\ recorded' = recorded
    BY <2>1 DEF Transform, shared, history
  <2>3. CASE Ids(t) = None
    BY <2>1, <2>3 DEF Transform, Done, Grounds
  <2>4. CASE Ids(t) # None
    <3>1. PICK o : o = FetchBlock(t)
      OBVIOUS
    <3>2. todo' = [todo EXCEPT ![t] = <<o, Page(1), [op |-> "close"], [op |-> "append"],
                                        [op |-> "wrap"]>> \o Tail(@)]
      BY <2>1, <2>4, <3>1 DEF Transform, Then
    <3>3. todo'[t] = Enclosed(o, Page(1), Only("close"), Only("append"), Only("wrap"), r)
      BY <2>1, <3>2 DEF Grounds, Enclosed, Only
    <3>4. Enclosed(o, Page(1), Only("close"), Only("append"), Only("wrap"), r)
              = Up(o, Up(Page(1), Up(Only("close"), AfterSecond(r))))
      <4>1. PICK b, c, d, e : b = Page(1) /\ c = Only("close") /\ d = Only("append") /\ e = Only("wrap")
        OBVIOUS
      <4>2. Enclosed(o, b, c, d, e, r) = Four(o, b, c, d, <<e>> \o r)
        BY <1>0, ConsLists
      <4> QED BY <4>1, <4>2 DEF Four, Up, AfterSecond
    <3>5. answer[t].ids = asked[t] /\ answer[t].meta = asked[t] /\ asked[t] # None
      BY <1>3, <2>4 DEF AtTransform, Answered, Ids
    <3>6. IsFetch(o, asked[t])
      <4>1. PICK c, q : c = DefaultConfig(registry, "pubmedefetch", NoOverrides)
                        /\ q = Over(Entry("id", Ids(t)), c.params)
        OBVIOUS
      <4>2. o = [op |-> "open", how |-> "parameters", name |-> "pubmedefetch", query |-> None,
                 over |-> [provider |-> c.provider, url |-> c.url, delay |-> FetchDelay, key |-> c.key,
                           size |-> 1, params |-> q]]
        BY <3>1, <4>1 DEF FetchBlock
      <4>3. c.url = EFetch.url
        BY <4>1, FetchDefaults DEF Grounds
      <4>4. "id" \in DOMAIN q /\ q["id"] = asked[t]
        BY <3>5, <4>1 DEF Over, Entry, Ids
      <4> QED BY <3>5, <4>2, <4>3, <4>4 DEF IsFetch
    <3>7. ~half[t]
      <4>1. Op(t).op = "transform"
        BY <2>1 DEF Transform, Runs
      <4> QED BY <4>1 DEF Grounds
    <3>8. OneStep(t)'
      <4>1. t \notin mixed => recorded = <<First(answer[t])>>
        BY <1>3 DEF AtTransform
      <4>2. Searched(t, answer[t])'
        BY <1>3, <2>2, <3>5 DEF Searched, AtTransform
      <4> QED BY <2>2, <4>1, <4>2 DEF OneStep
    <3>9. AtFetch(t, r)'
      <4>1. todo'[t] = Up(o, Up(Page(1), Up(Only("close"), AfterSecond(r))))
        BY <3>3, <3>4
      <4>2. IsFetch(o, asked'[t])
        BY <2>2, <3>6
      <4> QED BY <2>2, <3>7, <3>8, <4>1, <4>2 DEF AtFetch
    <3> QED BY <3>9 DEF Stage, Fetching
  <2> QED BY <2>3, <2>4
<1> QED BY <1>1, <1>2, <1>3 DEF Asked

\* The second search: eFetch's URL, its map and the ids.
LEMMA FetchingStep ==
    ASSUME NEW t \in Threads, NEW r, After(r), Grounds(t), Fetching(t, r), Step(t)
    PROVE  Stage(t, r)'
<1>0. /\ Listed(r) /\ Listed(Up(Only("close"), AfterSecond(r)))
      /\ Listed(Up(Page(1), Up(Only("close"), AfterSecond(r))))
  BY Afters DEF After
<1>1. CASE AtFetch(t, r)
  <2>1. PICK o : /\ todo[t] = Up(o, Up(Page(1), Up(Only("close"), AfterSecond(r))))
                 /\ IsFetch(o, asked[t])
    BY <1>1 DEF AtFetch
  <2>2. o.op = "open" /\ o.how = "parameters" /\ o.name = "pubmedefetch" /\ o.query = None
    BY <2>1 DEF IsFetch
  <2>3. /\ Op(t) = o /\ Tail(todo[t]) = Up(Page(1), Up(Only("close"), AfterSecond(r)))
        /\ EnterConfig(t) \/ EnterMap(t)
    BY <1>0, <2>1, <2>2, Dispatch
  <2>4. CASE EnterConfig(t)
    <3>1. PICK c : c = Temporarily(t)
      OBVIOUS
    <3>2. PICK over : over = [o.over EXCEPT !.provider = o.name]
      OBVIOUS
    <3>3. over = [provider |-> o.name, url |-> EFetch.url, delay |-> o.over.delay,
                  key |-> o.over.key, size |-> o.over.size, params |-> o.over.params]
      BY <2>1, <3>2 DEF IsFetch
    <3>4. over # NoOverrides
      <4>1. over.url = EFetch.url /\ NoOverrides.url = NoUrl
        BY <3>3 DEF NoOverrides
      <4> QED BY <4>1, WorkflowAssumption
    <3>5. c = Updated(registry, My(t).config, over)
      BY <2>2, <2>3, <3>1, <3>2, <3>4 DEF Temporarily
    <3>6. PICK j : j = o.over.params
      OBVIOUS
    <3>7. "id" \in DOMAIN j /\ j["id"] = asked[t] /\ asked[t] # None
      BY <2>1, <3>6 DEF IsFetch
    <3>8. c.url = EFetch.url /\ "id" \in DOMAIN c.params /\ c.params["id"] = asked[t]
      <4>1. PICK f, g, h, i : over = [provider |-> f, url |-> EFetch.url, delay |-> g, key |-> h,
                                      size |-> i, params |-> j]
        BY <3>3, <3>6
      <4> QED BY <3>5, <3>7, <4>1, FetchUpdates DEF Grounds
    <3>9. /\ api' = [api EXCEPT ![uses[t]] = Configured(@, c)]
          /\ todo' = todo /\ uses' = uses /\ asked' = asked /\ mixed' = mixed /\ recorded' = recorded
      BY <2>4, <3>1 DEF EnterConfig
    <3>10. My(t)' = Configured(My(t), c)
      BY <3>9 DEF My, Grounds
    <3>11. My(t)'.config = c
      BY <3>10, Attributes DEF Grounds
    <3>12. Reaches(t)'
      BY <3>7, <3>8, <3>9, <3>11 DEF Reaches
    <3>13. OneStep(t)'
      BY <1>1, <3>9 DEF AtFetch, OneStep, Searched
    <3>14. AtFetch(t, r)'
      BY <2>1, <3>9, <3>12, <3>13 DEF AtFetch
    <3> QED BY <3>14 DEF Stage, Fetching
  <2>5. CASE EnterMap(t)
    <3>1. PICK m, q : m = TemporaryMap(t) /\ q = (IF Op(t).query = None THEN My(t).query ELSE Op(t).query)
      OBVIOUS
    <3>2. /\ api' = [api EXCEPT ![uses[t]] = Switched(@, m, q)]
          /\ todo' = [todo EXCEPT ![t] = Tail(@)] /\ half[t]
          /\ uses' = uses /\ asked' = asked /\ mixed' = mixed /\ recorded' = recorded
      BY <2>5, <3>1 DEF EnterMap, Done, history
    <3>3. My(t)' = Switched(My(t), m, q)
      BY <3>1, <3>2 DEF My, Grounds
    <3>4. m = EFetch.map
      <4>1. FromName(registry, "pubmedefetch") = EFetch /\ EFetch # NoProvider
        BY FetchIsFound DEF Grounds, HasFetch
      <4> QED BY <2>2, <2>3, <3>1, <4>1 DEF TemporaryMap
    <3>5. My(t)'.config = My(t).config /\ My(t)'.map = EFetch.map
      BY <3>3, <3>4, Attributes DEF Grounds
    <3>6. Reaches(t)'
      BY <1>1, <3>2, <3>5 DEF AtFetch, Reaches
    <3>7. todo'[t] = Up(Page(1), Up(Only("close"), AfterSecond(r)))
      BY <2>3, <3>2 DEF Grounds
    <3>8. OneStep(t)'
      BY <1>1, <3>2 DEF AtFetch, OneStep, Searched
    <3>9. AtFetchSearch(t, r)'
      BY <3>5, <3>6, <3>7, <3>8 DEF AtFetchSearch
    <3> QED BY <3>9 DEF Stage, Fetching
  <2> QED BY <2>3, <2>4, <2>5
<1>2. CASE AtFetchSearch(t, r)
  <2>1. /\ Op(t) = Page(1) /\ Tail(todo[t]) = Up(Only("close"), AfterSecond(r)) /\ LookUp(t)
        /\ Page(1).op = "search"
    <3>1. Page(1).op = "search"
      BY DEF Page
    <3> QED BY <1>0, <1>2, <3>1, Dispatch DEF AtFetchSearch
  <2>2. /\ todo' = [todo EXCEPT ![t] = <<Sending(Op(t))>> \o Tail(@)]
        /\ half' = half /\ uses' = uses /\ api' = api /\ asked' = asked /\ mixed' = mixed
        /\ recorded' = recorded
    BY <2>1 DEF LookUp, Then, shared
  <2>3. todo'[t] = Up(Sending(Page(1)), Up(Only("close"), AfterSecond(r)))
    BY <2>1, <2>2 DEF Grounds, Up
  <2>4. ~half'[t]
    BY <2>1, <2>2 DEF Grounds
  <2>5. Reaches(t)' /\ My(t)'.map = My(t).map /\ OneStep(t)'
    BY <1>2, <2>2 DEF AtFetchSearch, Reaches, My, OneStep, Searched
  <2>6. AtFetchRequest(t, r)'
    BY <1>2, <2>3, <2>4, <2>5 DEF AtFetchSearch, AtFetchRequest
  <2> QED BY <2>6 DEF Stage, Fetching
<1>3. CASE AtFetchRequest(t, r)
  <2>0. PICK o : o = Sending(Page(1))
    OBVIOUS
  <2>1. o.op = "request" /\ o.page = 1 /\ o.extra = NoFields /\ o.endpoint = None
    BY <2>0 DEF Sending, Page
  <2>2. /\ Op(t) = o /\ Tail(todo[t]) = Up(Only("close"), AfterSecond(r)) /\ (Build(t) \/ Send(t))
    BY <1>0, <1>3, <2>0, <2>1, Dispatch DEF AtFetchRequest
  <2>3. /\ uses' = uses /\ api' = api /\ asked' = asked /\ mixed' = mixed /\ recorded' = recorded
        /\ My(t)' = My(t)
    BY <2>2 DEF Build, Send, shared, history, My
  <2>4. OneStep(t)' /\ Reaches(t)'
    BY <1>3, <2>3 DEF AtFetchRequest, OneStep, Searched, Reaches
  <2>5. CASE Build(t)
    <3>1. PICK p, c : p = SearchParameters(t, o) /\ c = My(t).config
      OBVIOUS
    <3>2. p = BuildParameters(c, EFetch.map, My(t).query, 1, NoFields)
      BY <1>3, <2>1, <3>1 DEF SearchParameters, Built, NoPage, AtFetchRequest
    <3>3. "id" \in DOMAIN c.params /\ c.params["id"] = asked[t] /\ c.params["id"] # None
      BY <1>3, <3>1 DEF AtFetchRequest, Reaches
    <3>4. CASE p = Raised
      <4>1. /\ answer' = [answer EXCEPT ![t] = [kind |-> "error"]] /\ todo' = [todo EXCEPT ![t] = Tail(@)]
        BY <2>2, <2>5, <3>1, <3>4 DEF Build, Done
      <4>2. answer'[t].kind = "error" /\ todo'[t] = Up(Only("close"), AfterSecond(r))
        BY <2>2, <4>1 DEF Grounds
      <4>3. AtFetchClose(t, r)'
        BY <2>4, <4>2 DEF AtFetchClose, Fetched
      <4> QED BY <4>3 DEF Stage, Ending
    <3>5. CASE p # Raised
      <4>1. /\ request' = [request EXCEPT ![t] = [url |-> NoUrl, params |-> p]] /\ todo' = todo
        BY <2>2, <2>5, <3>1, <3>5 DEF Build
      <4>2. request'[t].params = p
        BY <4>1 DEF Grounds
      <4>3. Given(p, "id") = asked[t]
        BY <3>2, <3>3, <3>5, IdsAreSent
      <4>4. AtFetchRequest(t, r)'
        BY <1>3, <2>3, <2>4, <4>1, <4>2, <4>3 DEF AtFetchRequest
      <4> QED BY <4>4 DEF Stage, Fetching
    <3> QED BY <3>4, <3>5
  <2>6. CASE Send(t)
    <3>1. PICK now : now = Prepared(My(t).config.url, o.endpoint, request[t].params)
      OBVIOUS
    <3>2. PICK k : answer' = [answer EXCEPT ![t] = Said(now, k)]
      BY <2>2, <2>6, <3>1 DEF Send
    <3>3. now.params = request[t].params /\ half[t] /\ todo' = [todo EXCEPT ![t] = Tail(@)]
          /\ now.url = EFetch.url
      BY <1>3, <2>1, <2>6, <3>1 DEF Prepared, Send, Done, AtFetchRequest, Reaches
    <3>4. todo'[t] = Up(Only("close"), AfterSecond(r)) /\ answer'[t] = Said(now, k)
      BY <2>2, <3>2, <3>3 DEF Grounds
    <3>5. Given(now.params, "id") = asked[t]
      BY <1>3, <3>3 DEF AtFetchRequest
    <3>6. now.url # PubMed.url
      BY <3>3, WorkflowAssumption
    <3>7. Said(now, k) = [kind |-> k, ids |-> None, meta |-> None, records |-> asked[t]]
      BY <3>3, <3>5, <3>6 DEF Said
    <3>8. Fetched(t)'
      BY <2>3, <3>4, <3>7 DEF Fetched
    <3>9. AtFetchClose(t, r)'
      BY <2>4, <3>4, <3>8 DEF AtFetchClose
    <3> QED BY <3>9 DEF Stage, Ending
  <2> QED BY <2>2, <2>5, <2>6
<1> QED BY <1>1, <1>2, <1>3 DEF Fetching

\* The answer to it is added to the history, and what is returned is made of both.
LEMMA EndingStep ==
    ASSUME NEW t \in Threads, NEW r, After(r), Grounds(t), Ending(t, r), Step(t)
    PROVE  Stage(t, r)' \/ todo'[t] = r
<1>0. /\ Listed(r) /\ Listed(AfterSecond(r)) /\ Listed(Up(Only("wrap"), r))
  BY Afters DEF After
<1>1. CASE AtFetchClose(t, r)
  <2>1. /\ todo' = todo \/ todo'[t] = AfterSecond(r)
        /\ answer' = answer /\ asked' = asked /\ mixed' = mixed /\ recorded' = recorded
    BY <1>0, <1>1, Leaves DEF AtFetchClose
  <2>2. Fetched(t)' /\ OneStep(t)'
    BY <1>1, <2>1 DEF AtFetchClose, Fetched, OneStep, Searched
  <2>3. AtFetchClose(t, r)' \/ AtAppend(t, r)'
    BY <1>1, <2>1, <2>2 DEF AtFetchClose, AtAppend
  <2> QED BY <2>3 DEF Stage, Ending
<1>2. CASE AtAppend(t, r)
  <2>1. Tail(todo[t]) = Up(Only("wrap"), r) /\ AppendStep(t)
    <3>1. Only("append").op = "append"
      BY DEF Only
    <3> QED BY <1>0, <1>2, <3>1, Dispatch DEF AtAppend, AfterSecond
  <2>2. /\ recorded' = Append(recorded, Second(answer[t])) /\ todo' = [todo EXCEPT ![t] = Tail(@)]
        /\ answer' = answer /\ asked' = asked /\ mixed' = mixed
    BY <2>1 DEF AppendStep, Done, history, Second
  <2>3. todo'[t] = Up(Only("wrap"), r)
    BY <2>1, <2>2 DEF Grounds
  <2>4. Fetched(t)'
    BY <1>2, <2>2 DEF AtAppend, Fetched
  <2>5. TwoSteps(t)'
    <3>1. SUFFICES ASSUME t \notin mixed
                   PROVE  \E x, y : recorded' = <<First(x), Second(y)>> /\ Searched(t, x)'
      BY <2>2 DEF TwoSteps
    <3>2. PICK x : recorded = <<First(x)>> /\ Searched(t, x)
      BY <1>2, <3>1 DEF AtAppend, OneStep
    <3>3. ASSUME NEW a, NEW b PROVE Append(<<a>>, b) = <<a, b>>
      <4>1. PICK s : s = <<a>>
        OBVIOUS
      <4>2. s \in Seq({a, b}) /\ Len(s) = 1 /\ s[1] = a
        BY <4>1
      <4>3. PICK u, S : u = Append(s, b) /\ S = {a, b}
        OBVIOUS
      <4>4. u \in Seq({a, b}) /\ Len(u) = 2 /\ u[1] = a /\ u[2] = b
        <5>1. s \in Seq(S) /\ b \in S /\ Listed(s)
          BY <4>2, <4>3, SeqListed
        <5>2. Append(s, b) \in Seq(S)
          BY <5>1
        <5>3. Len(u) = Len(s) + 1 /\ (\A i \in 1..Len(s) : u[i] = s[i]) /\ u[Len(s) + 1] = b
          BY <4>3, <5>1, AppendListed
        <5>4. Len(u) = 2 /\ u[1] = s[1] /\ u[2] = b
          BY <4>2, <5>3
        <5> QED BY <4>2, <4>3, <5>2, <5>4
      <4>5. PICK v : v = <<a, b>>
        OBVIOUS
      <4>6. v \in Seq({a, b}) /\ Len(v) = 2 /\ v[1] = a /\ v[2] = b
        BY <4>5
      <4>7. \A i \in 1..2 : u[i] = v[i]
        BY <4>4, <4>6
      <4>8. u = v
        BY <4>4, <4>6, <4>7, SeqEqual
      <4> QED BY <4>1, <4>3, <4>5, <4>8
    <3>4. recorded' = <<First(x), Second(answer[t])>>
      BY <2>2, <3>2, <3>3
    <3>5. Searched(t, x)'
      BY <2>2, <3>2 DEF Searched
    <3> QED BY <3>4, <3>5
  <2>6. AtWrap(t, r)'
    BY <2>3, <2>4, <2>5 DEF AtWrap
  <2> QED BY <2>6 DEF Stage, Ending
<1>3. CASE AtWrap(t, r)
  <2>1. Tail(todo[t]) = r /\ Wrap(t)
    <3>1. Only("wrap").op = "wrap"
      BY DEF Only
    <3> QED BY <1>0, <1>3, <3>1, Dispatch DEF AtWrap
  <2> QED BY <2>1 DEF Wrap, Done, Grounds
<1> QED BY <1>1, <1>2, <1>3 DEF Ending

Places == DOMAIN answer = Threads /\ DOMAIN asked = Threads /\ DOMAIN result = Threads

\* A workflow begins with nothing in its history.
LEMMA ClearStep ==
    ASSUME NEW t \in Threads, SharedInv, Order, Places, Clear(t)
    PROVE  \E r : After(r) /\ Stage(t, r)'
<1>1. PICK r : r = Tail(todo[t])
  OBVIOUS
<1>2. /\ Runs(t, "workflow") /\ recorded' = <<>> /\ uses' = uses /\ api' = api
      /\ todo' = [todo EXCEPT ![t] = <<Opening, Page(1), Only("close"), Only("next")>> \o Tail(@)]
      /\ asked' = [asked EXCEPT ![t] = My(t).query]
  BY DEF Clear, Then, Opening, Only
<1>3. Behind(r) /\ Listed(r) /\ (Flowing(r) => "workflow" \in Inner)
  BY <1>1, <1>2, PlacedTail DEF Order, Runs, Op, Behind
<1>4. After(r)
  BY <1>3 DEF After, Inner
<1>5. todo'[t] = InBlock(Opening, Page(1), Only("close"), Only("next"), r)
  BY <1>1, <1>2 DEF SharedInv, Typed, InBlock
<1>6. InBlock(Opening, Page(1), Only("close"), Only("next"), r)
          = Up(Opening, Up(Page(1), AfterFirst(r)))
  <2>1. PICK a, b, c, d : a = Opening /\ b = Page(1) /\ c = Only("close") /\ d = Only("next")
    OBVIOUS
  <2>2. InBlock(a, b, c, d, r) = Four(a, b, c, d, r)
    BY <1>3, ConsLists
  <2> QED BY <2>1, <2>2 DEF Four, Up, AfterFirst
<1>7. My(t)' = My(t) /\ asked'[t] = My(t).query
  BY <1>2 DEF My, Places
<1>8. AtOpening(t, r)'
  BY <1>2, <1>5, <1>6, <1>7 DEF AtOpening, Asks, NotYet
<1> QED BY <1>4, <1>8 DEF Stage, Asking

LEMMA Grounded ==
    ASSUME NEW t \in Threads, SharedInv, Domains, Places, Suitables, Quiet, alone[t], InWorkflow(t)
    PROVE  Grounds(t)
<1>1. HasFetch(registry)
  <2>1. Untouched
    BY DEF Quiet, Outside
  <2> QED BY <2>1, Found DEF SharedInv
<1>2. half[t] => todo[t] # <<>> /\ Op(t).op \in {"open", "close", "request", "temporary"}
  BY DEF SharedInv, Control, Controlled, Op
<1>3. uses[t] \in Apis
  BY Inside DEF SharedInv
<1>4. Shaped(My(t)) /\ Clean(My(t).map)
  BY <1>3 DEF Suitables, My
<1> QED BY <1>1, <1>2, <1>3, <1>4 DEF Grounds, SharedInv, Typed, Domains, Places

LEMMA FlowsStep ==
    ASSUME NEW t \in Threads, SharedInv, Order, Domains, Apartness, Places, Suitables, Quiet,
           OneFlow, Flows, Step(t)
    PROVE  Flows'
<1>1. Proceeds(t) /\ Moved(t)
  BY Proceeding, Moves DEF SharedInv
<1> SUFFICES ASSUME NEW u \in Threads, alone'[u], InWorkflow(u)'
             PROVE  \E r : After(r) /\ Stage(u, r)'
  BY DEF Flows
<1>2. CASE u # t
  <2>1. InWorkflow(u)
    BY <1>1, <1>2 DEF Moved, InWorkflow
  <2>2. Same(u) /\ alone[u]
    BY <1>2, <2>1, FlowAside DEF Left, Same, Places
  <2>3. PICK r : After(r) /\ Stage(u, r)
    BY <2>1, <2>2 DEF Flows
  <2> QED BY <2>2, <2>3, StageKept
<1>3. CASE u = t /\ Clear(t)
  BY <1>3, ClearStep
<1>4. CASE u = t /\ ~Clear(t)
  <2>1. InWorkflow(t)
    BY <1>1, <1>4 DEF Proceeds
  <2>2. alone[t]
    <3>1. alone[t] \/ Begins(t)
      BY <1>4 DEF Domains, Step, EnterConfig, EnterMap, LeaveConfig, LeaveMap, LookUp, Build, Send, Clear,
             FirstStep, Transform, AppendStep, Wrap, Register, Restore, Construct, Look, Create,
             history, Disturbed, Undisturbed
    <3> QED BY <2>1, <3>1 DEF Begins, Outside
  <2>3. PICK r : After(r) /\ Stage(t, r)
    BY <2>1, <2>2 DEF Flows
  <2>4. Grounds(t)
    BY <2>1, <2>2, Grounded
  <2>5. Stage(t, r)' \/ todo'[t] = r
    BY <2>3, <2>4, AskingStep, AskedStep, FetchingStep, EndingStep DEF Stage
  <2>6. todo'[t] # r
    <3>1. SUFFICES ASSUME todo'[t] = r PROVE FALSE
      OBVIOUS
    <3>2. DOMAIN r = 1..Len(r)
      BY <2>3, ListedIs DEF After
    <3>3. Flowing(r)
      BY <1>4, <3>1, <3>2 DEF InWorkflow, Flowing, Flow
    <3> QED BY <2>3, <3>3 DEF After
  <2> QED BY <1>4, <2>3, <2>5, <2>6
<1> QED BY <1>2, <1>3, <1>4

\* What is returned in the end.
LEMMA Returned ==
    ASSUME NEW t \in Threads, NEW u \in Threads, SharedInv, Order, Places, Flows, Step(u),
           result'[t] # result[t], result'[t].kind = "found", alone[t]
    PROVE  result'[t].records = asked[t] /\ (t \notin mixed => result'[t].meta = asked[t])
<1>1. u = t
  BY DEF Places, Step, EnterConfig, EnterMap, LeaveConfig, LeaveMap, LookUp, Build, Send, Clear,
         FirstStep, Transform, AppendStep, Wrap, Register, Construct, Restore, Look, Create
<1>2. Wrap(t)
  <2>1. ~Clear(t)
    <3>1. Clear(t) => result' = [result EXCEPT ![t] = NoAnswer]
      BY DEF Clear
    <3>2. Clear(t) => result'[t] = NoAnswer
      BY <3>1 DEF Places
    <3>3. NoAnswer.kind # "found"
      BY DEF NoAnswer, None
    <3> QED BY <3>2, <3>3
  <2>2. ~Transform(t)
    BY DEF Transform, Places
  <2> QED BY <1>1, <2>1, <2>2 DEF Step, EnterConfig, EnterMap, LeaveConfig, LeaveMap, LookUp, Build,
         Send, FirstStep, AppendStep, Register, Construct, Restore, Look, Create
<1>3. Runs(t, "wrap") /\ result'[t] = Metadata(answer[t])
  BY <1>2 DEF Wrap, Places
<1>4. InWorkflow(t)
  <2>1. Listed(todo[t]) /\ todo[t] # <<>>
    BY <1>3 DEF Order, Placed, Runs
  <2>2. 1 \in DOMAIN todo[t] /\ todo[t][1] = Op(t)
    BY <2>1, ListedIs, TailListed DEF Op
  <2> QED BY <1>3, <2>2 DEF InWorkflow, Runs
<1>5. PICK r : After(r) /\ Stage(t, r)
  BY <1>4 DEF Flows
<1>6. AtWrap(t, r)
  <2>0. Listed(r)
    BY <1>5 DEF After
  <2>1. \A o, s : (Listed(s) /\ todo[t] = Up(o, s)) => o.op = "wrap"
    BY <1>3, Ups DEF Runs, Op
  <2>2. ~Asking(t, r)
    <3>1. Opening.op # "wrap" /\ Page(1).op # "wrap" /\ Sending(Page(1)).op # "wrap"
      BY DEF Opening, Page, Sending
    <3> QED BY <2>0, <2>1, <3>1, Afters DEF Asking, AtOpening, AtSearch, AtRequest
  <2>3. ~Asked(t, r)
    <3>1. Only("close").op # "wrap" /\ Only("next").op # "wrap" /\ Only("transform").op # "wrap"
      BY DEF Only
    <3> QED BY <2>0, <2>1, <3>1, Afters DEF Asked, AtClose, AtNext, AtTransform, AfterFirst
  <2>4. ~Fetching(t, r)
    <3>1. Page(1).op # "wrap" /\ Sending(Page(1)).op # "wrap"
      BY DEF Page, Sending
    <3>2. \A o : IsFetch(o, asked[t]) => o.op # "wrap"
      BY DEF IsFetch
    <3> QED BY <2>0, <2>1, <3>1, <3>2, Afters DEF Fetching, AtFetch, AtFetchSearch, AtFetchRequest
  <2>5. ~AtFetchClose(t, r) /\ ~AtAppend(t, r)
    <3>1. Only("close").op # "wrap" /\ Only("append").op # "wrap"
      BY DEF Only
    <3> QED BY <2>0, <2>1, <3>1, Afters DEF AtFetchClose, AtAppend, AfterSecond
  <2> QED BY <1>5, <2>2, <2>3, <2>4, <2>5 DEF Stage, Ending
<1>7. PICK a : a = answer[t]
  OBVIOUS
<1>8. Metadata(a).kind = "found"
  BY <1>3, <1>7
<1>9. a.kind # "error"
  <2>1. a.kind = "error" => Metadata(a) = a
    BY DEF Metadata
  <2> QED BY <1>8, <2>1
<1>10. a = [kind |-> a.kind, ids |-> None, meta |-> None, records |-> asked[t]]
  BY <1>6, <1>7, <1>9 DEF AtWrap, Fetched
<1>11. \A m : [a EXCEPT !.meta = m].records = asked[t] /\ [a EXCEPT !.meta = m].meta = m
  BY <1>10
<1>12. Metadata(a).records = asked[t]
  BY <1>10, <1>11 DEF Metadata
<1>13. ASSUME t \notin mixed PROVE Metadata(a).meta = asked[t]
  <2>1. PICK x, y : recorded = <<First(x), Second(y)>> /\ Searched(t, x)
    BY <1>6, <1>7, <1>9, <1>13 DEF AtWrap, TwoSteps
  <2>2. /\ Len(recorded) = 2 /\ recorded[1] = First(x) /\ recorded[2] = Second(y)
    BY <2>1
  <2>3. /\ recorded[1].step = "search" /\ recorded[2].step = "fetch" /\ recorded[1].result = x
    BY <2>2 DEF First, Second
  <2>4. x.kind # "error" /\ x.meta = asked[t] /\ a.meta = None
    BY <1>10, <2>1 DEF Searched
  <2>5. Metadata(a) = [a EXCEPT !.meta = x.meta]
    BY <1>9, <2>2, <2>3, <2>4 DEF Metadata
  <2> QED BY <1>11, <2>4, <2>5
<1> QED BY <1>3, <1>7, <1>12, <1>13

FlowInv == RequestInv /\ Places /\ Suitables /\ Quiet /\ OneFlow /\ Flows

LEMMA FlowInit == Init => FlowInv
<1> SUFFICES ASSUME Init PROVE FlowInv
  OBVIOUS
<1>1. RequestInv
  BY InitRequests
<1>2. Places /\ \A t \in Threads : ~alone[t]
  BY DEF Init, Places
<1>3. Quiet /\ Flows
  BY <1>2 DEF Quiet, Flows
<1>4. \A t \in Threads : ~InWorkflow(t)
  <2>1. PICK q \in Scenarios : todo = q.todo
    BY DEF Init
  <2>2. ASSUME NEW t \in Threads PROVE ~InWorkflow(t)
    <3>1. Program(todo[t])
      BY <2>1, SharedAssumption
    <3> QED BY <3>1 DEF Program, InWorkflow
  <2> QED BY <2>2
<1>5. OneFlow
  BY <1>4 DEF OneFlow
<1>6. Suitables
  <2>1. /\ registry = Registered /\ original = [t \in Threads |-> NoProvider]
        /\ saved = [t \in Threads |-> <<>>] /\ api = [a \in Apis |-> [Made EXCEPT !.query = a]]
    BY DEF Init
  <2>2. \A n \in DOMAIN registry : Suitable(registry[n])
    BY <2>1, WorkflowAssumption
  <2>3. ASSUME NEW a \in Apis PROVE Shaped(api[a]) /\ Clean(api[a].map)
    <3>1. api[a] = [Made EXCEPT !.query = a]
      BY <2>1
    <3>2. api[a] = [config |-> Made.config, map |-> Made.map, query |-> a, limiter |-> Made.limiter]
      BY <3>1, SharedAssumption
    <3> QED BY <3>2, WorkflowAssumption DEF Shaped
  <2>4. ASSUME NEW t \in Threads PROVE original[t] = NoProvider /\ saved[t] = <<>>
    BY <2>1
  <2> QED BY <2>2, <2>3, <2>4 DEF Suitables
<1> QED BY <1>1, <1>2, <1>3, <1>5, <1>6 DEF FlowInv

LEMMA FlowStep == FlowInv /\ [Next]_vars => FlowInv'
<1> SUFFICES ASSUME FlowInv, [Next]_vars PROVE FlowInv'
  OBVIOUS
<1>1. RequestInv' /\ SharedInv /\ Order /\ Domains /\ Apartness
  BY RequestsStep DEF FlowInv, RequestInv
<1>2. ASSUME NEW t \in Threads, Step(t) PROVE FlowInv'
  <2>1. Places'
    BY <1>2 DEF FlowInv, Places, Step, EnterConfig, EnterMap, LeaveConfig, LeaveMap, LookUp, Build,
           Send, Clear, FirstStep, Transform, AppendStep, Wrap, Register, Construct, Restore, Look,
           Create, history
  <2>2. Suitables'
    BY <1>1, <1>2, SuitablesStep DEF FlowInv
  <2>3. Quiet'
    BY <1>1, <1>2, QuietStep DEF FlowInv
  <2>4. OneFlow'
    BY <1>1, <1>2, OneFlowStep DEF FlowInv
  <2>5. Flows'
    BY <1>1, <1>2, FlowsStep DEF FlowInv
  <2> QED BY <1>1, <2>1, <2>2, <2>3, <2>4, <2>5 DEF FlowInv
<1>3. CASE UNCHANGED vars
  <2>1. /\ UNCHANGED shared /\ UNCHANGED local /\ UNCHANGED history
    BY <1>3 DEF vars
  <2>2. Places' /\ Suitables' /\ Quiet' /\ OneFlow'
    BY <2>1 DEF shared, local, history, FlowInv, Places, Suitables, Quiet, OneFlow, Outside,
           InWorkflow, Untouched
  <2>3. \A u : Same(u) /\ (InWorkflow(u)' <=> InWorkflow(u)) /\ alone'[u] = alone[u]
    BY <2>1 DEF shared, local, history, Same, My, InWorkflow
  <2>4. Flows'
    <3> SUFFICES ASSUME NEW u \in Threads, alone'[u], InWorkflow(u)'
                 PROVE  \E r : After(r) /\ Stage(u, r)'
      BY DEF Flows
    <3>1. PICK r : After(r) /\ Stage(u, r)
      BY <2>3 DEF FlowInv, Flows
    <3> QED BY <2>3, <3>1, StageKept
  <2> QED BY <1>1, <2>2, <2>4 DEF FlowInv
<1> QED BY <1>2, <1>3 DEF Next, Step, Finished

\* A workflow that nobody interferes with is at one of its stages.
THEOREM WorkflowInvariant == Spec => []FlowInv
BY FlowInit, FlowStep, PTL DEF Spec

\* What a workflow returns are the records of its own query: the ids come with
\* the context of its own first step, and the block around the second one turns
\* the SearchAPI to eFetch.  The metadata, which are read off the history that
\* workflows share, are its own too when no other one wrote to it meanwhile.
THEOREM WorkflowsReturnTheirOwn == Spec => WorkflowResultOwn
<1>1. FlowInv /\ [Next]_vars =>
         [\A t \in Threads :
             (result'[t] # result[t] /\ result'[t].kind = "found" /\ alone[t]) =>
                 /\ result'[t].records = asked[t]
                 /\ t \notin mixed => result'[t].meta = asked[t]]_vars
  <2> SUFFICES ASSUME FlowInv, Next, NEW t \in Threads, result'[t] # result[t],
                      result'[t].kind = "found", alone[t]
               PROVE  /\ result'[t].records = asked[t]
                      /\ t \notin mixed => result'[t].meta = asked[t]
    OBVIOUS
  <2>1. PICK u \in Threads : Step(u)
    BY DEF Next, Step, Finished, vars, local
  <2> QED BY <2>1, Returned DEF FlowInv, RequestInv
<1> QED BY <1>1, WorkflowInvariant, PTL DEF Spec, WorkflowResultOwn
=============================================================================
