------------------------ MODULE PageRetrievalProofs ------------------------
(***************************************************************************)
(* Proofs about the retrieval of many pages: by one coordinator, for any   *)
(* page lists, records per page, totals, metadata paths and faults         *)
(* (SearchPages), and by many at once, for any coordinators, pages,        *)
(* responses, modes and worker threads (MultiSearch).                      *)
(*                                                                         *)
(* Of MultiSearch, Cursor says what the place of a provider's generator    *)
(* stands for: the queries before it have ended without keeping the next   *)
(* one from being searched, its own has been asked for the pages before,   *)
(* and the queries after it have not been asked for anything.              *)
(***************************************************************************)
EXTENDS SearchPages, MultiSearch, FiniteSetTheorems, SequenceTheorems,
        WellFoundedInduction, TLAPS

----------------------------------------------------------------------------
(* Numbers: what stands for induction, division, sorted lists *)

\* A set of naturals has a least element: a claim about every n is proved by
\* refuting its least exception.
LEMMA Least ==
    ASSUME NEW T \in SUBSET Nat, T # {}
    PROVE  \E n \in T : n \in Nat /\ \A m \in Nat : m < n => m \notin T
<1> DEFINE R == {ss \in Nat \X Nat : ss[1] < ss[2]}
<1>1. IsWellFoundedOn(R, Nat)
  BY NatLessThanWellFounded DEF OpToRel
<1>2. PICK n \in T : \A m \in T : ~(<<m, n>> \in R)
  <2> HIDE DEF R
  <2> QED BY <1>1, WFMin
<1>3. \A m \in T : ~(m < n)
  BY <1>2
<1> QED BY <1>2, <1>3

\* A finite set of integers has a greatest element.
LEMMA Greatest ==
    ASSUME NEW S \in SUBSET Int, IsFiniteSet(S), S # {}
    PROVE  \E x \in S : \A y \in S : y <= x
<1> DEFINE Has(A) == \E x \in A : \A y \in A : y <= x
           Bad == {A \in SUBSET S : A # {} /\ ~Has(A)}
           T == {n \in Nat : \E A \in Bad : n = Cardinality(A)}
<1>1. \A A \in SUBSET S : IsFiniteSet(A) /\ Cardinality(A) \in Nat
  BY FS_Subset, FS_CardinalityType
<1>2. SUFFICES ASSUME T # {} PROVE FALSE
  BY <1>1
<1>3. PICK n \in T : n \in Nat /\ \A m \in Nat : m < n => m \notin T
  BY <1>2, Least
<1>4. PICK A \in Bad : n = Cardinality(A)
  BY <1>3
<1>5. PICK z \in A : TRUE
  BY <1>4
<1>6. Cardinality(A \ {z}) = n - 1 /\ n - 1 \in Nat /\ n \in Nat
  BY <1>1, <1>4, <1>5, FS_RemoveElement
<1>7. A \ {z} \notin Bad
  <2>1. A \ {z} \in Bad => n - 1 \in T
    BY <1>6
  <2> QED BY <1>3, <1>6, <2>1
<1>8. CASE A \ {z} = {}
  <2>1. A = {z} /\ z \in Int
    BY <1>4, <1>5, <1>8
  <2> QED BY <1>4, <2>1
<1>9. CASE Has(A \ {z})
  <2>1. PICK x \in A \ {z} : \A y \in A \ {z} : y <= x
    BY <1>9
  <2>2. x \in Int /\ z \in Int /\ \A y \in A : y \in Int
    BY <1>4, <1>5, <2>1
  <2>3. CASE z <= x
    <3>1. \A y \in A : y <= x
      BY <2>1, <2>3
    <3> QED BY <1>4, <2>1, <3>1
  <2>4. CASE x < z
    <3>1. \A y \in A : y <= z
      BY <2>1, <2>2, <2>4
    <3> QED BY <1>4, <1>5, <3>1
  <2> QED BY <2>2, <2>3, <2>4
<1> QED BY <1>4, <1>7, <1>8, <1>9

Ascending(s) == \A i, j \in DOMAIN s : i < j => s[i] < s[j]

\* Every finite set of integers can be listed in ascending order.
LEMMA CanBeSorted ==
    ASSUME NEW S \in SUBSET Int, IsFiniteSet(S)
    PROVE  \E s \in SetToSeqs(S) : Ascending(s) /\ ToSet(s) = S
<1> DEFINE Can(A) == \E s \in [1..Cardinality(A) -> A] :
                        Ascending(s) /\ \A x \in A : \E i \in DOMAIN s : s[i] = x
           T == {n \in Nat : \E A \in SUBSET S : n = Cardinality(A) /\ ~Can(A)}
<1>1. \A A \in SUBSET S : IsFiniteSet(A) /\ Cardinality(A) \in Nat
  BY FS_Subset, FS_CardinalityType
<1>2. ASSUME T # {} PROVE FALSE
  <2>1. PICK n \in T : n \in Nat /\ \A m \in Nat : m < n => m \notin T
    BY <1>2, Least
  <2>2. PICK A \in SUBSET S : n = Cardinality(A) /\ ~Can(A)
    BY <2>1
  <2>3. CASE A = {}
    <3>1. Cardinality(A) = 0
      BY <2>3, FS_EmptySet
    <3>2. <<>> \in [1..0 -> A] /\ Ascending(<<>>)
      BY DEF Ascending
    <3> QED BY <2>2, <2>3, <3>1, <3>2
  <2>4. CASE A # {}
    <3>1. PICK z \in A : \A y \in A : y <= z
      BY <1>1, <2>2, <2>4, Greatest
    <3> DEFINE B == A \ {z}
    <3>2. Cardinality(B) = n - 1 /\ n - 1 \in Nat /\ n \in Nat /\ B \in SUBSET S
      <4>1. IsFiniteSet(A) /\ Cardinality(A) = n /\ z \in A
        BY <1>1, <2>2, <3>1
      <4>2. IsFiniteSet(B) /\ Cardinality(B) = n - 1
        BY <4>1, FS_RemoveElement
      <4>3. B \in SUBSET S
        BY <2>2
      <4>4. n \in Nat /\ n - 1 \in Nat
        BY <4>1, <4>2, FS_CardinalityType
      <4> QED BY <4>2, <4>3, <4>4
    <3>3. Can(B)
      <4>1. ~Can(B) => n - 1 \in T
        BY <3>2
      <4>2. n - 1 \notin T
        <5> HIDE DEF T
        <5> QED BY <2>1, <3>2
      <4> QED BY <4>1, <4>2
    <3>4. PICK s \in [1..(n - 1) -> B] : Ascending(s) /\ \A x \in B : \E i \in DOMAIN s : s[i] = x
      BY <3>2, <3>3
    <3> DEFINE t == [i \in 1..n |-> IF i = n THEN z ELSE s[i]]
    <3>5. t \in [1..n -> A] /\ t[n] = z /\ \A i \in 1..(n - 1) : t[i] = s[i] /\ s[i] \in B
      BY <3>1, <3>2, <3>4
    <3> HIDE DEF t
    <3>6. \A x \in A : \E i \in DOMAIN t : t[i] = x
      <4> SUFFICES ASSUME NEW x \in A PROVE \E i \in 1..n : t[i] = x
        BY <3>5
      <4>1. CASE x = z
        <5>1. n \in 1..n
          BY <3>2
        <5> QED BY <3>5, <4>1, <5>1
      <4>2. CASE x # z
        <5>1. PICK i \in 1..(n - 1) : s[i] = x
          BY <3>4, <4>2
        <5> QED BY <3>2, <3>5, <5>1
      <4> QED BY <4>1, <4>2
    <3>7. Ascending(t)
      <4> SUFFICES ASSUME NEW i \in 1..n, NEW j \in 1..n, i < j PROVE t[i] < t[j]
        BY <3>5 DEF Ascending
      <4>1. i \in 1..(n - 1) /\ t[i] = s[i] /\ s[i] \in B
        BY <3>2, <3>5
      <4>2. CASE j = n
        <5>1. s[i] <= z /\ s[i] # z /\ s[i] \in Int /\ z \in Int
          BY <2>2, <3>1, <4>1
        <5> QED BY <3>5, <4>1, <4>2, <5>1
      <4>3. CASE j # n
        <5>1. j \in 1..(n - 1)
          BY <3>2, <4>3
        <5> QED BY <3>4, <3>5, <4>1, <5>1 DEF Ascending
      <4> QED BY <4>2, <4>3
    <3> QED BY <2>2, <3>5, <3>6, <3>7
  <2> QED BY <2>3, <2>4
<1>3. Can(S)
  BY <1>1, <1>2
<1>4. PICK s \in [1..Cardinality(S) -> S] :
            Ascending(s) /\ \A x \in S : \E i \in DOMAIN s : s[i] = x
  BY <1>3
<1>5. \A i, j \in 1..Cardinality(S) : i # j => s[i] # s[j]
  <2> SUFFICES ASSUME NEW i \in 1..Cardinality(S), NEW j \in 1..Cardinality(S), i < j
               PROVE  s[i] # s[j]
    BY <1>1
  <2>1. s[i] < s[j] /\ s[i] \in Int /\ s[j] \in Int
    BY <1>4 DEF Ascending
  <2> QED BY <2>1
<1>6. s \in SetToSeqs(S)
  BY <1>4, <1>5 DEF SetToSeqs
<1>7. ToSet(s) = S
  BY <1>4 DEF ToSet
<1> QED BY <1>4, <1>6, <1>7

\* PageListInput: the pages of the list, each once and in ascending order.
LEMMA PageNumbersSorts ==
    ASSUME NEW pages \in Seq(Int)
    PROVE  /\ PageNumbers(pages) \in Seq(Int)
           /\ ToSet(PageNumbers(pages)) = ToSet(pages)
           /\ Ascending(PageNumbers(pages))
<1> DEFINE S == ToSet(pages)
<1>1. S \in SUBSET Int /\ IsFiniteSet(S)
  <2>1. DOMAIN pages = 1..Len(pages) /\ Len(pages) \in Nat /\ pages \in [1..Len(pages) -> Int]
    OBVIOUS
  <2>2. pages \in Surjection(DOMAIN pages, S)
    BY <2>1 DEF Surjection, ToSet
  <2>3. IsFiniteSet(DOMAIN pages)
    BY <2>1, FS_Interval
  <2>4. IsFiniteSet(S)
    BY <2>2, <2>3, FS_Surjection
  <2>5. S \in SUBSET Int
    BY <2>1 DEF ToSet
  <2> QED BY <2>4, <2>5
<1>2. \E s \in SetToSeqs(S) : \A i, j \in DOMAIN s : i < j => s[i] < s[j]
  BY <1>1, CanBeSorted DEF Ascending
<1>3. PageNumbers(pages) \in SetToSeqs(S) /\ Ascending(PageNumbers(pages))
  BY <1>2 DEF PageNumbers, Ascending
<1> DEFINE t == PageNumbers(pages)
           N == Cardinality(S)
<1> HIDE DEF t, S, N
<1>4. N \in Nat /\ t \in [1..N -> S] /\ \A i, j \in 1..N : i # j => t[i] # t[j]
  BY <1>1, <1>3, FS_CardinalityType DEF SetToSeqs, t, N
<1>5. t \in Seq(Int)
  <2>1. \A i \in 1..N : t[i] \in Int
    BY <1>1, <1>4
  <2> QED BY <1>4, <2>1, IsASeq
<1>6. ToSet(t) = S
  <2>1. t \in Injection(1..N, S)
    BY <1>4 DEF Injection, IsInjective
  <2>2. Cardinality(1..N) = N /\ IsFiniteSet(1..N)
    BY <1>4, FS_Interval
  <2>3. t \in Surjection(1..N, S)
    BY <1>1, <2>1, <2>2, FS_Injection DEF N
  <2> QED BY <1>4, <2>3 DEF Surjection, ToSet
<1> QED BY <1>3, <1>5, <1>6 DEF t, S

----------------------------------------------------------------------------
(* The total that is read from a page *)

\* get_nested_data looks its way through the page, value by value.
LEMMA AlongIs ==
    ASSUME NEW page, NEW path, Len(path) \in Nat
    PROVE  /\ Along(page, path)[0] = page
           /\ \A n \in 1..Len(path) :
                 Along(page, path)[n] = Under(Along(page, path)[n - 1], path[n])
<1> DEFINE L == Len(path)
           Walk(f, m) == /\ f[0] = page
                         /\ \A n \in 1..m : f[n] = Under(f[n - 1], path[n])
           T == {m \in Nat : \A f : DOMAIN f = 0..m => ~Walk(f, m)}
<1>1. ASSUME T # {} PROVE FALSE
  <2>1. PICK m \in T : m \in Nat /\ \A k \in Nat : k < m => k \notin T
    BY <1>1, Least
  <2>2. CASE m = 0
    <3> DEFINE f == [n \in 0..0 |-> page]
    <3>1. DOMAIN f = 0..0 /\ Walk(f, 0)
      OBVIOUS
    <3> HIDE DEF f
    <3> QED BY <2>1, <2>2, <3>1
  <2>3. CASE m # 0
    <3>1. m - 1 \in Nat /\ m - 1 \notin T /\ m \in Nat
      <4> HIDE DEF T
      <4> QED BY <2>1, <2>3
    <3>2. PICK f : DOMAIN f = 0..(m - 1) /\ Walk(f, m - 1)
      BY <3>1
    <3> DEFINE g == [n \in 0..m |-> IF n < m THEN f[n] ELSE Under(f[m - 1], path[m])]
    <3>3. /\ DOMAIN g = 0..m /\ g[m] = Under(f[m - 1], path[m])
          /\ \A n \in 0..(m - 1) : g[n] = f[n]
      BY <3>1
    <3> HIDE DEF g
    <3>4. g[0] = page
      BY <2>3, <3>1, <3>2, <3>3
    <3>5. \A n \in 1..m : g[n] = Under(g[n - 1], path[n])
      <4> SUFFICES ASSUME NEW n \in 1..m PROVE g[n] = Under(g[n - 1], path[n])
        OBVIOUS
      <4>1. g[n - 1] = f[n - 1]
        BY <3>1, <3>3
      <4>2. CASE n = m
        BY <3>3, <4>1, <4>2
      <4>3. CASE n # m
        <5>1. n \in 1..(m - 1) /\ g[n] = f[n]
          BY <3>1, <3>3, <4>3
        <5> QED BY <3>2, <4>1, <5>1
      <4> QED BY <4>2, <4>3
    <3> QED BY <2>1, <3>3, <3>4, <3>5
  <2> QED BY <2>2, <2>3
<1>2. PICK f : DOMAIN f = 0..L /\ Walk(f, L)
  BY <1>1
<1> DEFINE Met(h) == h = [n \in 0..L |-> IF n = 0 THEN page ELSE Under(h[n - 1], path[n])]
<1>3. \E h : Met(h)
  <2> DEFINE h == [n \in 0..L |-> f[n]]
  <2>1. \A n \in 0..L : h[n] = f[n]
    OBVIOUS
  <2>2. \A n \in 0..L : n # 0 => n \in 1..L /\ n - 1 \in 0..L
    OBVIOUS
  <2>3. \A n \in 0..L : h[n] = IF n = 0 THEN page ELSE Under(h[n - 1], path[n])
    BY <1>2, <2>1, <2>2
  <2>4. DOMAIN h = 0..L /\ h = [n \in 0..L |-> h[n]]
    OBVIOUS
  <2> HIDE DEF h
  <2> QED BY <2>3, <2>4
<1>4. Met(CHOOSE h : Met(h))
  BY <1>3
<1>5. Along(page, path) = CHOOSE h : Met(h)
  BY DEF Along
<1>6. Met(Along(page, path))
  BY <1>4, <1>5
<1> DEFINE a == Along(page, path)
<1>7. \A n \in 0..L : a[n] = IF n = 0 THEN page ELSE Under(a[n - 1], path[n])
  <2> HIDE DEF a
  <2>1. Met(a)
    BY <1>6 DEF a
  <2> QED BY <2>1
<1>8. 0 \in 0..L /\ \A n \in 1..L : n \in 0..L /\ n # 0
  OBVIOUS
<1> QED BY <1>7, <1>8

\* A scalar met on the way is the result.
LEMMA ScalarStays ==
    ASSUME NEW page, NEW path, Len(path) \in Nat, NEW k \in 0..Len(path),
           Along(page, path)[k].kind # "dict"
    PROVE  NestedData(page, path) = Along(page, path)[k]
<1> DEFINE a == Along(page, path)
           T == {n \in Nat : n >= k /\ n <= Len(path) /\ a[n] # a[k]}
<1>1. \A n \in 1..Len(path) : a[n] = Under(a[n - 1], path[n])
  BY AlongIs
<1> HIDE DEF a
<1>2. ASSUME T # {} PROVE FALSE
  <2>1. PICK n \in T : n \in Nat /\ \A m \in Nat : m < n => m \notin T
    BY <1>2, Least
  <2>2. n # k /\ n \in 1..Len(path) /\ n - 1 >= k /\ n - 1 \in Nat
    BY <2>1
  <2>3. n - 1 \notin T
    <3> HIDE DEF T
    <3> QED BY <2>1, <2>2
  <2>4. a[n - 1] = a[k] /\ a[n] = Under(a[n - 1], path[n])
    BY <1>1, <2>2, <2>3
  <2>5. a[n] = a[k]
    BY <2>4 DEF Under, a
  <2> QED BY <2>1, <2>5
<1>3. Len(path) \notin T /\ Len(path) \in Nat /\ Len(path) >= k
  BY <1>2
<1>4. a[Len(path)] = a[k]
  BY <1>3
<1> QED BY <1>4 DEF NestedData, a

\* The first steps of a path.
LEMMA FirstSteps ==
    ASSUME NEW page, NEW path, Len(path) \in Nat
    PROVE  /\ Len(path) = 0 => NestedData(page, path) = page
           /\ Len(path) = 1 => NestedData(page, path) = Under(page, path[1])
           /\ Len(path) = 2 => NestedData(page, path) = Under(Under(page, path[1]), path[2])
           /\ Len(path) >= 1 /\ Under(page, path[1]).kind # "dict" =>
                 NestedData(page, path) = Under(page, path[1])
           /\ Len(path) >= 2 /\ Under(Under(page, path[1]), path[2]).kind # "dict" =>
                 NestedData(page, path) = Under(Under(page, path[1]), path[2])
<1> DEFINE a == Along(page, path)
<1>1. a[0] = page /\ \A n \in 1..Len(path) : a[n] = Under(a[n - 1], path[n])
  BY AlongIs
<1>2. NestedData(page, path) = a[Len(path)]
  BY DEF NestedData
<1>3. \A k \in 0..Len(path) : a[k].kind # "dict" => NestedData(page, path) = a[k]
  BY ScalarStays
<1> HIDE DEF a
<1>4. Len(path) >= 1 => 1 \in 0..Len(path) /\ a[1] = Under(page, path[1])
  BY <1>1
<1>5. Len(path) >= 2 => 2 \in 0..Len(path) /\ a[2] = Under(Under(page, path[1]), path[2])
  <2>1. Len(path) >= 2 => a[2] = Under(a[1], path[2])
    BY <1>1
  <2> QED BY <1>4, <2>1
<1> QED BY <1>1, <1>2, <1>3, <1>4, <1>5

\* The total as a page has it, and what surrounds it.
TotalAs(telling) == IF telling.readable THEN Number(hits) ELSE Text
Stats(telling) == Mapping(IF <<"stats", "total">> \in telling.places
                          THEN [k \in {"total", "size"} |->
                                   IF k = "total" THEN TotalAs(telling) ELSE Number(PerPage)]
                          ELSE [k \in {"size"} |-> Number(PerPage)])

LEMMA BodyIs ==
    ASSUME NEW telling
    PROVE  /\ Body(telling).kind = "dict" /\ Stats(telling).kind = "dict"
           /\ Under(Body(telling), "stats") = Stats(telling)
           /\ \A key : key # "stats" =>
                 Under(Body(telling), key) =
                     IF key = "total" /\ <<"total">> \in telling.places
                     THEN TotalAs(telling) ELSE Missing
           /\ \A key : Under(Stats(telling), key) =
                 IF key = "size" THEN Number(PerPage)
                 ELSE IF key = "total" /\ <<"stats", "total">> \in telling.places
                      THEN TotalAs(telling) ELSE Missing
<1>1. Body(telling) = Mapping(IF <<"total">> \in telling.places
                              THEN [k \in {"stats", "total"} |->
                                       IF k = "total" THEN TotalAs(telling) ELSE Stats(telling)]
                              ELSE [k \in {"stats"} |-> Stats(telling)])
  BY DEF Body, Stats, TotalAs
<1>2. "stats" # "total" /\ "size" # "total"
  OBVIOUS
<1>3. /\ Under(Body(telling), "stats") = Stats(telling)
      /\ \A key : key # "stats" =>
            Under(Body(telling), key) =
                IF key = "total" /\ <<"total">> \in telling.places
                THEN TotalAs(telling) ELSE Missing
  BY <1>1, <1>2 DEF Under, Mapping
<1>4. \A key : Under(Stats(telling), key) =
                 IF key = "size" THEN Number(PerPage)
                 ELSE IF key = "total" /\ <<"stats", "total">> \in telling.places
                      THEN TotalAs(telling) ELSE Missing
  BY <1>2 DEF Under, Mapping, Stats
<1>5. Body(telling).kind = "dict" /\ Stats(telling).kind = "dict"
  BY <1>1 DEF Mapping, Stats
<1> QED BY <1>3, <1>4, <1>5

LEMMA Scalars ==
    ASSUME NEW telling
    PROVE  /\ TotalAs(telling).kind # "dict" /\ Missing.kind # "dict" /\ Number(PerPage).kind # "dict"
           /\ \A v, key : v.kind # "dict" => Under(v, key) = v
           /\ CoerceInt(Missing) = NoTotal
           /\ \A v : v.kind = "dict" => CoerceInt(v) = NoTotal
           /\ CoerceInt(TotalAs(telling)) = IF telling.readable THEN hits ELSE NoTotal
  BY DEF TotalAs, Missing, Number, Text, Under, CoerceInt

\* The way on from what a path led to is the way along both.
LEMMA WalkOn ==
    ASSUME NEW page, NEW path \in Seq(STRING), NEW rest \in Seq(STRING)
    PROVE  NestedData(page, path \o rest) = NestedData(NestedData(page, path), rest)
<1> DEFINE both == path \o rest
           K == Len(path)
           L == Len(rest)
           a == Along(page, path)
           b == Along(NestedData(page, path), rest)
           c == Along(page, both)
<1>1. /\ K \in Nat /\ L \in Nat /\ Len(both) = K + L
      /\ \A n \in 1..K : both[n] = path[n]
      /\ \A n \in 1..L : both[K + n] = rest[n]
  OBVIOUS
<1>2. a[0] = page /\ \A n \in 1..K : a[n] = Under(a[n - 1], path[n])
  BY AlongIs
<1>3. b[0] = NestedData(page, path) /\ \A n \in 1..L : b[n] = Under(b[n - 1], rest[n])
  BY AlongIs
<1>4. c[0] = page /\ \A n \in 1..(K + L) : c[n] = Under(c[n - 1], both[n])
  <2>1. Len(both) \in Nat
    <3> HIDE DEF both, K, L
    <3> QED BY <1>1
  <2>2. c[0] = page /\ \A n \in 1..Len(both) : c[n] = Under(c[n - 1], both[n])
    <3> HIDE DEF both
    <3> QED BY <2>1, AlongIs
  <2>3. Len(both) = K + L
    BY <1>1
  <2> HIDE DEF both, c, K, L
  <2> QED BY <2>2, <2>3
<1>5. /\ NestedData(page, path) = a[K] /\ NestedData(page, both) = c[K + L]
      /\ NestedData(NestedData(page, path), rest) = b[L]
  BY <1>1 DEF NestedData
<1> HIDE DEF a, b, c, both, K, L
<1> DEFINE T == {n \in Nat : n <= K /\ c[n] # a[n]}
           U == {n \in Nat : n <= L /\ c[K + n] # b[n]}
<1>6. ASSUME T # {} PROVE FALSE
  <2>1. PICK n \in T : n \in Nat /\ \A m \in Nat : m < n => m \notin T
    BY <1>6, Least
  <2>2. n # 0 /\ n <= K
    BY <1>2, <1>4, <2>1
  <2>3. n - 1 \in Nat /\ n - 1 <= K /\ n \in 1..K /\ n \in 1..(K + L)
    BY <1>1, <2>1, <2>2
  <2>4. n - 1 \notin T
    <3> HIDE DEF T
    <3> QED BY <2>1, <2>3
  <2>5. c[n - 1] = a[n - 1]
    BY <2>3, <2>4
  <2>6. c[n] = a[n]
    BY <1>1, <1>2, <1>4, <2>3, <2>5
  <2> QED BY <2>1, <2>6
<1>7. c[K] = a[K]
  BY <1>1, <1>6
<1>8. ASSUME U # {} PROVE FALSE
  <2>1. PICK n \in U : n \in Nat /\ \A m \in Nat : m < n => m \notin U
    BY <1>8, Least
  <2>2. n # 0 /\ n <= L
    <3>1. K + 0 = K
      BY <1>1
    <3>2. c[K + 0] = b[0]
      BY <1>3, <1>5, <1>7, <3>1
    <3> QED BY <2>1, <3>2
  <2>3. /\ n - 1 \in Nat /\ n - 1 <= L /\ n \in 1..L /\ K + n \in 1..(K + L)
        /\ (K + n) - 1 = K + (n - 1)
    BY <1>1, <2>1, <2>2
  <2>4. n - 1 \notin U
    <3> HIDE DEF U
    <3> QED BY <2>1, <2>3
  <2>5. c[K + (n - 1)] = b[n - 1]
    BY <2>3, <2>4
  <2>6. c[K + n] = Under(c[(K + n) - 1], both[K + n])
    BY <1>4, <2>3
  <2>7. c[K + n] = b[n]
    BY <1>1, <1>3, <2>3, <2>5, <2>6
  <2> QED BY <2>1, <2>7
<1>9. c[K + L] = b[L]
  BY <1>1, <1>8
<1> QED BY <1>5, <1>9 DEF both

\* What a way through a page's body leads to, as a total.
LEMMA WayLeads ==
    ASSUME NEW telling \in Tellings, NEW way \in Seq(STRING)
    PROVE  /\ ~(Len(way) >= 2 /\ way[1] = "stats" /\ way[2] = "size")
                 => CoerceInt(NestedData(Body(telling), way)) \in {hits, NoTotal}
           /\ telling.readable /\ way \in telling.places
                 => CoerceInt(NestedData(Body(telling), way)) = hits
<1> DEFINE B == Body(telling)
           S == Stats(telling)
           V == NestedData(B, way)
<1>0. way \in telling.places => way \in {<<"total">>, <<"stats", "total">>}
  BY PagesAssumption
<1>1. Len(way) \in Nat
  OBVIOUS
<1>2. /\ Len(way) = 0 => V = B
      /\ Len(way) = 1 => V = Under(B, way[1])
      /\ Len(way) >= 1 /\ Under(B, way[1]).kind # "dict" => V = Under(B, way[1])
      /\ Len(way) = 2 => V = Under(Under(B, way[1]), way[2])
      /\ Len(way) >= 2 /\ Under(Under(B, way[1]), way[2]).kind # "dict" =>
            V = Under(Under(B, way[1]), way[2])
  BY <1>1, FirstSteps
<1>3. /\ B.kind = "dict" /\ S.kind = "dict" /\ Under(B, "stats") = S
      /\ \A key : key # "stats" =>
            Under(B, key) = IF key = "total" /\ <<"total">> \in telling.places
                            THEN TotalAs(telling) ELSE Missing
      /\ \A key : Under(S, key) =
            IF key = "size" THEN Number(PerPage)
            ELSE IF key = "total" /\ <<"stats", "total">> \in telling.places
                 THEN TotalAs(telling) ELSE Missing
  BY BodyIs
<1>4. /\ TotalAs(telling).kind # "dict" /\ Missing.kind # "dict" /\ Number(PerPage).kind # "dict"
      /\ CoerceInt(Missing) = NoTotal
      /\ \A v : v.kind = "dict" => CoerceInt(v) = NoTotal
      /\ CoerceInt(TotalAs(telling)) \in {hits, NoTotal}
      /\ telling.readable => CoerceInt(TotalAs(telling)) = hits
  BY Scalars
<1> HIDE DEF B, S, V
<1>5. CASE Len(way) = 0
  <2>1. CoerceInt(V) = NoTotal
    BY <1>2, <1>3, <1>4, <1>5
  <2>2. ~(way \in {<<"total">>, <<"stats", "total">>})
    BY <1>5
  <2>3. ~(Len(way) >= 2)
    BY <1>5
  <2> QED BY <1>0, <2>1, <2>2 DEF V, B
<1>6. CASE Len(way) >= 1 /\ way[1] # "stats"
  <2>1. Under(B, way[1]) = IF way[1] = "total" /\ <<"total">> \in telling.places
                           THEN TotalAs(telling) ELSE Missing
    BY <1>3, <1>6
  <2>2. V = Under(B, way[1])
    BY <1>2, <1>4, <1>6, <2>1
  <2>3. CoerceInt(V) \in {hits, NoTotal}
    BY <1>4, <2>1, <2>2
  <2>4. way = <<"total">> /\ way \in telling.places /\ telling.readable => CoerceInt(V) = hits
    <3>1. way = <<"total">> => way[1] = "total"
      OBVIOUS
    <3>2. way = <<"total">> /\ way \in telling.places => V = TotalAs(telling)
      BY <2>1, <2>2, <3>1
    <3> QED BY <1>4, <3>2
  <2>5. way # <<"stats", "total">>
    BY <1>6
  <2> QED BY <1>0, <2>3, <2>4, <2>5 DEF V, B
<1>7. CASE Len(way) = 1 /\ way[1] = "stats"
  <2>1. CoerceInt(V) = NoTotal
    BY <1>2, <1>3, <1>4, <1>7
  <2>2. ~(way \in {<<"total">>, <<"stats", "total">>})
    BY <1>7
  <2> QED BY <1>0, <2>1, <2>2 DEF V, B
<1>8. CASE Len(way) >= 2 /\ way[1] = "stats"
  <2>1. Under(Under(B, way[1]), way[2]) =
            IF way[2] = "size" THEN Number(PerPage)
            ELSE IF way[2] = "total" /\ <<"stats", "total">> \in telling.places
                 THEN TotalAs(telling) ELSE Missing
    BY <1>3, <1>8
  <2>2. V = Under(Under(B, way[1]), way[2])
    BY <1>2, <1>4, <1>8, <2>1
  <2>3. way[2] # "size" => CoerceInt(V) \in {hits, NoTotal}
    BY <1>4, <2>1, <2>2
  <2>4. way = <<"stats", "total">> /\ way \in telling.places /\ telling.readable
           => CoerceInt(V) = hits
    <3>1. way = <<"stats", "total">> => way[2] = "total" /\ way[2] # "size"
      OBVIOUS
    <3>2. way = <<"stats", "total">> /\ way \in telling.places => V = TotalAs(telling)
      BY <2>1, <2>2, <3>1
    <3> QED BY <1>4, <3>2
  <2>5. way # <<"total">>
    BY <1>8
  <2> QED BY <1>0, <1>8, <2>3, <2>4, <2>5 DEF V, B
<1>9. \/ Len(way) = 0
      \/ Len(way) >= 1 /\ way[1] # "stats"
      \/ Len(way) = 1 /\ way[1] = "stats"
      \/ Len(way) >= 2 /\ way[1] = "stats"
  <2> DEFINE n == Len(way)
  <2>1. n = 0 \/ n = 1 \/ n >= 2
    <3> HIDE DEF n
    <3>1. n \in Nat
      BY <1>1 DEF n
    <3> QED BY <3>1
  <2>2. Len(way) = 1 => Len(way) >= 1
    BY <1>1
  <2>3. Len(way) >= 2 => Len(way) >= 1
    BY <1>1
  <2> QED BY <2>1, <2>2, <2>3, Zenon
<1> QED BY <1>5, <1>6, <1>7, <1>8, <1>9

\* _extract_key: a name that is there, and the way on from its value; or nothing.
LEMMA ExtractKeyOf ==
    ASSUME NEW M, NEW key \in Seq(STRING)
    PROVE  /\ key # <<>> /\ key[1] \in DOMAIN M
                 => ExtractKey(M, key) = NestedData(M[key[1]], Tail(key))
           /\ key = <<>> \/ key[1] \notin DOMAIN M => ExtractKey(M, key) = Missing
<1>1. Len(key) \in Nat /\ (key # <<>> => Len(key) # 0) /\ (key = <<>> => Len(key) = 0)
  OBVIOUS
<1>2. key # <<>> => Tail(key) \in Seq(STRING) /\ Len(Tail(key)) = Len(key) - 1
  OBVIOUS
<1> DEFINE first == <<key[1]>>
           rest == Tail(key)
<1>3. Len(first) = 1 /\ first[1] = key[1]
  OBVIOUS
<1>4. key # <<>> => first \in Seq(STRING) /\ key = first \o rest
  OBVIOUS
<1>5. CASE key = <<>>
  BY <1>5 DEF ExtractKey
<1>6. CASE Len(key) = 1
  <2>1. key # <<>> /\ Len(rest) = 0 /\ Len(rest) \in Nat
    BY <1>1, <1>2, <1>6
  <2>2. NestedData(M[key[1]], rest) = M[key[1]]
    <3> HIDE DEF rest
    <3> QED BY <2>1, FirstSteps
  <2>3. ExtractKey(M, key) = IF key[1] \in DOMAIN M THEN M[key[1]] ELSE Missing
    BY <1>6, <2>1 DEF ExtractKey
  <2> QED BY <2>1, <2>2, <2>3
<1>7. CASE Len(key) > 1
  <2>1. key # <<>> /\ Len(key) # 1
    <3> DEFINE n == Len(key)
    <3>0. n \in Nat /\ n > 1
      BY <1>1, <1>7
    <3>1. n # 0 /\ n # 1
      <4> HIDE DEF n
      <4> QED BY <3>0
    <3> QED BY <1>1, <3>1
  <2>2. ExtractKey(M, key) = NestedData(Mapping(M), key)
    BY <1>7, <2>1 DEF ExtractKey
  <2>3. Under(Mapping(M), key[1]) = IF key[1] \in DOMAIN M THEN M[key[1]] ELSE Missing
    BY DEF Under, Mapping
  <2>4. ASSUME key[1] \in DOMAIN M PROVE NestedData(Mapping(M), key) = NestedData(M[key[1]], rest)
    <3>1. first \in Seq(STRING) /\ rest \in Seq(STRING) /\ key = first \o rest
      BY <1>2, <1>4, <2>1
    <3> DEFINE D == Mapping(M)
    <3>2. NestedData(D, key) = NestedData(NestedData(D, first), rest)
      <4> HIDE DEF first, rest, D
      <4>1. NestedData(D, first \o rest) = NestedData(NestedData(D, first), rest)
        BY <3>1, WalkOn
      <4> QED BY <3>1, <4>1
    <3>3. NestedData(D, first) = Under(D, key[1])
      <4> HIDE DEF first, D
      <4>1. Len(first) \in Nat
        BY <1>3
      <4>2. Len(first) = 1 => NestedData(D, first) = Under(D, first[1])
        BY <4>1, FirstSteps
      <4> QED BY <1>3, <4>2
    <3> QED BY <2>3, <2>4, <3>2, <3>3
  <2>5. ASSUME key[1] \notin DOMAIN M PROVE NestedData(Mapping(M), key) = Missing
    <3>1. Under(Mapping(M), key[1]) = Missing /\ Missing.kind # "dict"
      BY <2>3, <2>5 DEF Missing
    <3>2. Len(key) >= 1
      BY <1>1, <1>7
    <3>3. NestedData(Mapping(M), key) = Under(Mapping(M), key[1])
      BY <1>1, <3>1, <3>2, FirstSteps
    <3> QED BY <3>1, <3>3
  <2> QED BY <2>1, <2>2, <2>4, <2>5
<1>8. Len(key) = 0 \/ Len(key) = 1 \/ Len(key) > 1
  BY <1>1
<1>9. Len(key) = 0 => key = <<>>
  OBVIOUS
<1> QED BY <1>5, <1>6, <1>7, <1>8, <1>9

\* _extract_key: the way through the metadata goes on from where the latest path
\* of the key's first part ended.
LEMMA ExtractKeyIs ==
    ASSUME NEW page, NEW paths, DOMAIN paths \in SUBSET Int, IsFiniteSet(DOMAIN paths),
           \A i \in DOMAIN paths : paths[i].path \in Seq(STRING),
           NEW key \in Seq(STRING)
    PROVE  /\ key # <<>> => \A i \in DOMAIN paths :
                 (/\ paths[i].name = key[1]
                  /\ \A j \in DOMAIN paths : j > i => paths[j].name # key[1])
                    => ExtractKey(ExtractMetadata(page, paths), key)
                          = NestedData(page, paths[i].path \o Tail(key))
           /\ \/ ExtractKey(ExtractMetadata(page, paths), key) = Missing
              \/ key # <<>> /\ \E i \in DOMAIN paths :
                    /\ paths[i].name = key[1]
                    /\ \A j \in DOMAIN paths : j > i => paths[j].name # key[1]
                    /\ ExtractKey(ExtractMetadata(page, paths), key)
                          = NestedData(page, paths[i].path \o Tail(key))
<1> DEFINE M == ExtractMetadata(page, paths)
           value == ExtractKey(M, key)
           IsLatest(i) == /\ paths[i].name = key[1]
                          /\ \A j \in DOMAIN paths : j > i => paths[j].name # key[1]
<1>1. /\ DOMAIN M = {paths[i].name : i \in DOMAIN paths}
      /\ \A i \in DOMAIN paths :
            (\A j \in DOMAIN paths : j > i => paths[j].name # paths[i].name)
               => M[paths[i].name] = NestedData(page, paths[i].path)
      /\ \A name \in DOMAIN M : \E i \in DOMAIN paths :
            /\ paths[i].name = name
            /\ \A j \in DOMAIN paths : j > i => paths[j].name # name
  <2> DEFINE N == {paths[i].name : i \in DOMAIN paths}
             LatestOf(i, name) == /\ paths[i].name = name
                                  /\ \A j \in DOMAIN paths : j > i => paths[j].name # name
             Latest(name) == CHOOSE i \in DOMAIN paths : LatestOf(i, name)
  <2>1. ExtractMetadata(page, paths) = [name \in N |-> NestedData(page, paths[Latest(name)].path)]
    BY DEF ExtractMetadata
  <2>2. DOMAIN paths \in SUBSET Int
    OBVIOUS
  <2>3. \A i \in DOMAIN paths : LatestOf(i, paths[i].name) => Latest(paths[i].name) = i
    <3> SUFFICES ASSUME NEW i \in DOMAIN paths, LatestOf(i, paths[i].name)
                 PROVE  Latest(paths[i].name) = i
      OBVIOUS
    <3> DEFINE k == Latest(paths[i].name)
    <3>1. k \in DOMAIN paths /\ LatestOf(k, paths[i].name)
      OBVIOUS
    <3> HIDE DEF k
    <3>2. ~(k > i) /\ ~(i > k)
      BY <3>1
    <3>3. k = i
      BY <2>2, <3>1, <3>2
    <3> QED BY <3>3 DEF k
  <2>4. ASSUME NEW name \in N PROVE \E i \in DOMAIN paths : LatestOf(i, name)
    <3> DEFINE I == {i \in DOMAIN paths : paths[i].name = name}
    <3>1. I # {} /\ I \in SUBSET Int /\ IsFiniteSet(I)
      <4>1. IsFiniteSet(DOMAIN paths)
        OBVIOUS
      <4>2. I \in SUBSET DOMAIN paths /\ I \in SUBSET Int /\ I # {}
        BY <2>2, <2>4
      <4> QED BY <4>1, <4>2, FS_Subset
    <3>2. PICK x \in I : \A y \in I : y <= x
      BY <3>1, Greatest
    <3>3. x \in DOMAIN paths /\ paths[x].name = name
      BY <3>2
    <3>4. ASSUME NEW j \in DOMAIN paths, j > x PROVE paths[j].name # name
      <4>1. j \notin I
        BY <2>2, <3>2, <3>3, <3>4
      <4> QED BY <4>1
    <3> QED BY <3>3, <3>4
  <2> HIDE DEF Latest
  <2>5. \A i \in DOMAIN paths : paths[i].name \in N
    OBVIOUS
  <2> HIDE DEF N
  <2>6. DOMAIN M = N /\ \A name \in N : M[name] = NestedData(page, paths[Latest(name)].path)
    BY <2>1
  <2>7. \A i \in DOMAIN paths : LatestOf(i, paths[i].name) =>
            M[paths[i].name] = NestedData(page, paths[i].path)
    BY <2>3, <2>5, <2>6
  <2>8. DOMAIN M = {paths[i].name : i \in DOMAIN paths}
    BY <2>6 DEF N
  <2>9. \A name \in DOMAIN M : \E i \in DOMAIN paths : LatestOf(i, name)
    BY <2>4, <2>6
  <2> QED BY <2>7, <2>8, <2>9
<1> HIDE DEF M
<1>2. \A i \in DOMAIN paths : paths[i].path \in Seq(STRING)
  OBVIOUS
<1>3. CASE key = <<>>
  <2>1. value = Missing
    BY <1>3 DEF ExtractKey
  <2> QED BY <1>3, <2>1 DEF M
<1>4. CASE key # <<>>
  <2>1. Tail(key) \in Seq(STRING)
    BY <1>4
  <2>2. ASSUME NEW i \in DOMAIN paths, IsLatest(i)
        PROVE  value = NestedData(page, paths[i].path \o Tail(key))
    <3>1. key[1] \in DOMAIN M /\ M[key[1]] = NestedData(page, paths[i].path)
      BY <1>1, <2>2
    <3>2. value = NestedData(M[key[1]], Tail(key))
      BY <1>4, <3>1, ExtractKeyOf
    <3> DEFINE rest == Tail(key)
               path == paths[i].path
    <3>3. path \in Seq(STRING) /\ rest \in Seq(STRING)
      BY <1>2, <2>1
    <3>4. NestedData(page, path \o rest) = NestedData(NestedData(page, path), rest)
      <4> HIDE DEF rest, path
      <4> QED BY <3>3, WalkOn
    <3> QED BY <3>1, <3>2, <3>4
  <2>3. CASE key[1] \in DOMAIN M
    <3>1. PICK i \in DOMAIN paths : IsLatest(i)
      BY <1>1, <2>3
    <3> QED BY <1>4, <2>2, <3>1 DEF M
  <2>4. CASE key[1] \notin DOMAIN M
    <3>1. value = Missing
      BY <2>4, ExtractKeyOf
    <3> QED BY <1>4, <2>2, <3>1 DEF M
  <2> QED BY <2>3, <2>4
<1> QED BY <1>3, <1>4

\* The total read from a page is the provider's or none, and it is the
\* provider's where the page tells it and the setup finds it.
LEMMA TotalIs ==
    ASSUME setup \in Setups, NEW telling \in Tellings
    PROVE  /\ Total(telling) \in {hits, NoTotal}
           /\ Told(telling) => Total(telling) = hits
<1> DEFINE paths == setup.paths
           maps == setup.maps
           B == Body(telling)
           M == ExtractMetadata(B, paths)
           Entries == [name : STRING, path : Seq(STRING)]
           Maps == [total_query_hits : Seq(STRING), records_per_page : Seq(STRING)]
<1>1. /\ telling.readable \in BOOLEAN /\ telling.places \subseteq Seq(STRING)
      /\ telling.places \subseteq {<<"total">>, <<"stats", "total">>}
  BY PagesAssumption
<1>2. /\ paths \in Seq(Entries) /\ maps \in Seq(Maps) /\ Len(maps) <= 1
      /\ \A m \in DOMAIN maps, i \in DOMAIN paths :
            LET key == maps[m].total_query_hits
                way == paths[i].path \o Tail(key)
            IN  key # <<>> /\ key[1] = paths[i].name
                   => ~(Len(way) >= 2 /\ way[1] = "stats" /\ way[2] = "size")
  BY SetupAssumption
<1>3. /\ DOMAIN paths \in SUBSET Int /\ IsFiniteSet(DOMAIN paths)
      /\ \A i \in DOMAIN paths : paths[i].path \in Seq(STRING) /\ paths[i].name \in STRING
  <2>1. DOMAIN paths = 1..Len(paths) /\ Len(paths) \in Nat
    <3> HIDE DEF paths, Entries
    <3> QED BY <1>2
  <2>2. \A i \in 1..Len(paths) : paths[i] \in Entries
    <3> HIDE DEF paths, Entries
    <3> QED BY <1>2, ElementOfSeq
  <2>3. \A i \in DOMAIN paths : paths[i].path \in Seq(STRING) /\ paths[i].name \in STRING
    <3> HIDE DEF paths
    <3> QED BY <2>1, <2>2
  <2>4. IsFiniteSet(1..Len(paths))
    BY <2>1, FS_Interval
  <2> QED BY <2>1, <2>3, <2>4
<1>4. Total(telling) = TotalQueryHits(maps, M)
  BY DEF Total
<1>5. CASE maps = <<>> \/ DOMAIN M = {}
  <2>1. Total(telling) = NoTotal
    BY <1>4, <1>5 DEF TotalQueryHits
  <2>2. ~Told(telling)
    <3>1. SUFFICES ASSUME Told(telling) PROVE FALSE
      OBVIOUS
    <3>2. PICK i \in DOMAIN paths : \E map \in ToSet(maps) : TRUE
      BY <3>1 DEF Told
    <3>3. maps # <<>>
      BY <3>2 DEF ToSet
    <3>4. DOMAIN M = {paths[k].name : k \in DOMAIN paths}
      BY DEF ExtractMetadata
    <3> QED BY <1>5, <3>2, <3>3, <3>4
  <2> QED BY <2>1, <2>2
<1>6. CASE maps # <<>> /\ DOMAIN M # {}
  <2> DEFINE key == maps[1].total_query_hits
             value == ExtractKey(M, key)
             IsLatest(i) == /\ paths[i].name = key[1]
                            /\ \A j \in DOMAIN paths : j > i => paths[j].name # key[1]
             way(i) == paths[i].path \o Tail(key)
  <2>1. DOMAIN maps = {1} /\ key \in Seq(STRING)
    <3>1. DOMAIN maps = 1..Len(maps) /\ Len(maps) \in Nat /\ Len(maps) # 0
      <4> HIDE DEF maps, Maps
      <4> QED BY <1>2, <1>6
    <3>2. Len(maps) = 1
      <4> HIDE DEF maps
      <4> QED BY <1>2, <3>1
    <3>3. maps[1] \in Maps
      <4>1. 1 \in 1..Len(maps)
        BY <3>2
      <4> HIDE DEF maps, Maps
      <4> QED BY <1>2, <4>1, ElementOfSeq
    <3>4. key \in Seq(STRING)
      <4> DEFINE m == maps[1]
      <4>1. m \in Maps
        BY <3>3
      <4> HIDE DEF m
      <4>2. m.total_query_hits \in Seq(STRING)
        BY <4>1
      <4> QED BY <4>2 DEF m
    <3> QED BY <3>1, <3>2, <3>4
  <2>2. Total(telling) = CoerceInt(value)
    BY <1>4, <1>6 DEF TotalQueryHits, ProcessMetadata
  <2>3. /\ key # <<>> => \A i \in DOMAIN paths :
              IsLatest(i) => value = NestedData(B, paths[i].path \o Tail(key))
        /\ \/ value = Missing
           \/ key # <<>> /\ \E i \in DOMAIN paths :
                 IsLatest(i) /\ value = NestedData(B, paths[i].path \o Tail(key))
    <3> DEFINE read == ExtractKey(ExtractMetadata(B, paths), key)
    <3>1. DOMAIN paths \in SUBSET Int /\ IsFiniteSet(DOMAIN paths) /\ key \in Seq(STRING)
      BY <1>3, <2>1
    <3>2. \A i \in DOMAIN paths : paths[i].path \in Seq(STRING)
      BY <1>3
    <3>3. value = read
      OBVIOUS
    <3> HIDE DEF key, paths, B, value
    <3> QED BY <3>1, <3>2, <3>3, ExtractKeyIs
  <2>4. ASSUME NEW i \in DOMAIN paths, key # <<>>
        PROVE  way(i) \in Seq(STRING)
    <3>1. paths[i].path \in Seq(STRING) /\ Tail(key) \in Seq(STRING)
      <4> HIDE DEF key, paths
      <4> QED BY <1>3, <2>1, <2>4
    <3> QED BY <3>1
  <2>5. Total(telling) \in {hits, NoTotal}
    <3>1. CASE value = Missing
      BY <2>2, <3>1, Scalars
    <3>2. CASE key # <<>> /\ \E i \in DOMAIN paths :
                 IsLatest(i) /\ value = NestedData(B, paths[i].path \o Tail(key))
      <4>1. PICK i \in DOMAIN paths : IsLatest(i) /\ value = NestedData(B, way(i))
        BY <3>2
      <4>2. way(i) \in Seq(STRING)
        BY <2>4, <3>2
      <4>3. ~(Len(way(i)) >= 2 /\ way(i)[1] = "stats" /\ way(i)[2] = "size")
        BY <1>2, <2>1, <3>2, <4>1
      <4> DEFINE w == way(i)
      <4> HIDE DEF way, w
      <4>4. CoerceInt(NestedData(B, w)) \in {hits, NoTotal}
        <5>1. w \in Seq(STRING) /\ ~(Len(w) >= 2 /\ w[1] = "stats" /\ w[2] = "size")
          BY <4>2, <4>3 DEF w
        <5> QED BY <5>1, WayLeads
      <4> QED BY <2>2, <4>1, <4>4 DEF w
    <3> QED BY <2>3, <3>1, <3>2
  <2>6. ASSUME Told(telling) PROVE Total(telling) = hits
    <3>1. telling.readable /\ \E place \in telling.places, i \in DOMAIN paths :
              /\ IsPrefix(paths[i].path, place)
              /\ \A j \in DOMAIN paths : j > i => paths[j].name # paths[i].name
              /\ \E map \in ToSet(maps) :
                    map.total_query_hits = <<paths[i].name>>
                          \o SubSeq(place, Len(paths[i].path) + 1, Len(place))
      BY <2>6 DEF Told
    <3>2. PICK place \in telling.places, i \in DOMAIN paths :
              /\ IsPrefix(paths[i].path, place)
              /\ \A j \in DOMAIN paths : j > i => paths[j].name # paths[i].name
              /\ \E map \in ToSet(maps) :
                    map.total_query_hits = <<paths[i].name>>
                          \o SubSeq(place, Len(paths[i].path) + 1, Len(place))
      BY <3>1
    <3> DEFINE path == paths[i].path
               name == paths[i].name
               rest == SubSeq(place, Len(path) + 1, Len(place))
    <3>3. key = <<name>> \o rest
      BY <2>1, <3>2 DEF ToSet
    <3>4. place \in {<<"total">>, <<"stats", "total">>} /\ place \in Seq(STRING)
      BY <1>1
    <3>5. path \in Seq(STRING) /\ name \in STRING /\ IsPrefix(path, place)
      BY <1>3, <3>2
    <3> HIDE DEF path, name
    <3>6. rest \in Seq(STRING) /\ path \o rest = place
      <4>1. Len(path) <= Len(place) /\ path = SubSeq(place, 1, Len(path))
        BY <3>4, <3>5 DEF IsPrefix
      <4> QED BY <3>4, <3>5, <4>1
    <3> HIDE DEF rest
    <3>7. key # <<>> /\ key[1] = name /\ Tail(key) = rest
      BY <3>3, <3>5, <3>6
    <3>8. IsLatest(i)
      BY <3>2, <3>7 DEF name
    <3>9. value = NestedData(B, place)
      BY <2>3, <3>6, <3>7, <3>8 DEF path
    <3>10. CoerceInt(NestedData(B, place)) = hits
      <4>1. place \in telling.places
        OBVIOUS
      <4> QED BY <3>1, <3>4, <4>1, WayLeads
    <3> QED BY <2>2, <3>9, <3>10
  <2> QED BY <2>5, <2>6
<1> QED BY <1>5, <1>6

----------------------------------------------------------------------------
(* The pages left to ask for *)

\* Nothing is left once the pages hold all the hits, and only then.
LEMMA Remaining ==
    ASSUME NEW p \in Nat, NEW h \in Nat
    PROVE  PagesRemaining(p, h, PerPage) = 0 <=> h <= p * PerPage
<1> DEFINE q == (h + PerPage - 1) \div PerPage
<1>1. PerPage \in Nat \ {0}
  BY PagesAssumption
<1>2. h + PerPage - 1 \in Nat
  BY <1>1
<1>3. q \in Nat /\ q * PerPage <= h + PerPage - 1 /\ h + PerPage - 1 < (q + 1) * PerPage
  BY <1>1, <1>2
<1>4. PagesRemaining(p, h, PerPage) = IF q - p > 0 THEN q - p ELSE 0
  BY DEF PagesRemaining
<1> HIDE DEF q
<1>5. (p + 1) * PerPage = p * PerPage + PerPage /\ p * PerPage \in Nat
  BY <1>1
<1>6. ASSUME h <= p * PerPage, q >= p + 1 PROVE FALSE
  <2>1. q * PerPage >= (p + 1) * PerPage
    BY <1>1, <1>3, <1>6
  <2>2. q * PerPage \in Nat
    BY <1>1, <1>3
  <2> QED BY <1>1, <1>3, <1>5, <1>6, <2>1, <2>2
<1>7. ASSUME q <= p PROVE h <= p * PerPage
  <2>1. (q + 1) * PerPage <= (p + 1) * PerPage /\ (q + 1) * PerPage \in Nat
    BY <1>1, <1>3, <1>7
  <2> QED BY <1>1, <1>3, <1>5, <2>1
<1>8. PagesRemaining(p, h, PerPage) = 0 <=> q <= p
  BY <1>3, <1>4
<1> QED BY <1>3, <1>6, <1>7, <1>8

\* How many records the provider has on a page.
LEMMA OnPageIs ==
    ASSUME hits \in Nat, NEW p \in Int
    PROVE  /\ OnPage(p) \in 0..PerPage
           /\ p >= 1 /\ OnPage(p) = 0 => hits <= p * PerPage
           /\ \A k \in Nat : hits <= k * PerPage /\ k < p => OnPage(p) = 0
<1>1. PerPage \in Nat \ {0}
  BY PagesAssumption
<1>2. p * PerPage = (p - 1) * PerPage + PerPage /\ (p - 1) * PerPage \in Int /\ p * PerPage \in Int
  BY <1>1
<1>3. OnPage(p) \in 0..PerPage
  BY <1>1, <1>2 DEF OnPage
<1>4. ASSUME p >= 1, OnPage(p) = 0 PROVE hits <= p * PerPage
  BY <1>1, <1>2, <1>4 DEF OnPage
<1>5. ASSUME NEW k \in Nat, hits <= k * PerPage, k < p PROVE OnPage(p) = 0
  <2>1. k <= p - 1 /\ k * PerPage <= (p - 1) * PerPage /\ k * PerPage \in Nat
    BY <1>1, <1>5
  <2> QED BY <1>2, <1>5, <2>1 DEF OnPage
<1> QED BY <1>3, <1>4, <1>5

----------------------------------------------------------------------------
(* The order of the pages *)

\* The pages of a sequence of results.
PagesOf(rs) == [i \in DOMAIN rs |-> rs[i].page]

\* The pages asked for; those still to ask for follow.
Asked == PagesOf(results) \o (IF pc = "yield" THEN <<found.page>> ELSE <<>>)

LEMMA PagesAre ==
    ASSUME NEW S, \A x \in S : x.page \in Int, NEW rs \in Seq(S)
    PROVE  /\ PagesOf(rs) \in Seq(Int) /\ Len(PagesOf(rs)) = Len(rs)
           /\ \A i \in 1..Len(rs) : PagesOf(rs)[i] = rs[i].page
           /\ \A x \in S : PagesOf(Append(rs, x)) = PagesOf(rs) \o <<x.page>>
<1>1. Len(rs) \in Nat /\ DOMAIN rs = 1..Len(rs) /\ \A i \in 1..Len(rs) : rs[i] \in S
  BY ElementOfSeq
<1>2. PagesOf(rs) = [i \in 1..Len(rs) |-> rs[i].page]
  BY <1>1 DEF PagesOf
<1>3. PagesOf(rs) \in Seq(Int) /\ Len(PagesOf(rs)) = Len(rs)
  <2>1. PagesOf(rs) \in [1..Len(rs) -> Int]
    BY <1>1, <1>2
  <2>2. PagesOf(rs) \in Seq(Int)
    BY <1>1, <2>1, SeqDef
  <2> QED BY <1>1, <2>1, <2>2
<1>4. ASSUME NEW x \in S PROVE PagesOf(Append(rs, x)) = PagesOf(rs) \o <<x.page>>
  <2> DEFINE longer == Append(rs, x)
             n == Len(rs)
             p == PagesOf(rs) \o <<x.page>>
  <2>1. /\ longer \in Seq(S) /\ Len(longer) = n + 1 /\ DOMAIN longer = 1..(n + 1)
        /\ \A i \in 1..n : longer[i] = rs[i]
        /\ longer[n + 1] = x
    BY <1>4, AppendProperties
  <2>2. PagesOf(longer) = [i \in 1..(n + 1) |-> longer[i].page]
    <3> HIDE DEF longer, n
    <3> QED BY <2>1 DEF PagesOf
  <2>3. /\ p \in Seq(Int) /\ Len(p) = n + 1 /\ p[n + 1] = x.page
        /\ \A i \in 1..n : p[i] = PagesOf(rs)[i]
    <3> DEFINE q == PagesOf(rs)
    <3>1. q \in Seq(Int) /\ Len(q) = n /\ x.page \in Int
      BY <1>1, <1>3
    <3>2. n \in Nat
      BY <1>1
    <3>3. p = Append(q, x.page)
      BY <3>1
    <3> HIDE DEF p, q, n
    <3>4. Append(q, x.page) \in Seq(Int) /\ Len(Append(q, x.page)) = n + 1
      BY <3>1
    <3>5. Append(q, x.page)[n + 1] = x.page /\ \A i \in 1..n : Append(q, x.page)[i] = q[i]
      BY <3>1, <3>2, AppendProperties
    <3> QED BY <3>3, <3>4, <3>5 DEF q
  <2>4. \A i \in 1..(n + 1) : p[i] = longer[i].page
    <3>1. \A i \in 1..(n + 1) : i \in 1..n \/ i = n + 1
      BY <1>1
    <3>2. \A i \in 1..n : p[i] = rs[i].page
      BY <1>2, <2>3
    <3> HIDE DEF p, longer, n
    <3> QED BY <2>1, <2>3, <3>1, <3>2
  <2>5. p = [i \in 1..(n + 1) |-> p[i]]
    <3> HIDE DEF p
    <3> QED BY <1>1, <2>3
  <2> HIDE DEF p, longer
  <2>6. p = [i \in 1..(n + 1) |-> longer[i].page]
    BY <2>4, <2>5
  <2> QED BY <2>2, <2>6 DEF p, longer
<1> QED BY <1>1, <1>2, <1>3, <1>4

\* To ask for the next page moves it over, and nothing else.
LEMMA NextPage ==
    ASSUME NEW a \in Seq(Int), NEW t \in Seq(Int)
    PROVE  /\ t # <<>> => (a \o <<Head(t)>>) \o Tail(t) = (a \o <<>>) \o t
           /\ a \o <<>> = a
           /\ <<>> \o t = t
<1>1. a \o <<>> = a /\ <<>> \o t = t
  BY ConcatEmptySeq
<1>2. ASSUME t # <<>> PROVE (a \o <<Head(t)>>) \o Tail(t) = a \o t
  <2>1. Head(t) \in Int /\ Tail(t) \in Seq(Int) /\ <<Head(t)>> \in Seq(Int)
    BY <1>2
  <2>2. <<Head(t)>> \o Tail(t) = t
    BY <1>2
  <2>3. (a \o <<Head(t)>>) \o Tail(t) = a \o (<<Head(t)>> \o Tail(t))
    BY <2>1, ConcatAssociative
  <2> QED BY <2>2, <2>3
<1> QED BY <1>1, <1>2

----------------------------------------------------------------------------
(* The inductive invariant *)

PageTypes ==
    /\ PagesTypeOK
    /\ results \in Seq(Result) /\ todo \in Seq(Int)
    /\ pc = "start" => results = <<>> /\ ~stopped
    /\ pc = "search" => todo # <<>>

\* What search_page returns for a page is what the page has and tells.
Honest(x) ==
    /\ x.page \in Nat
    /\ x.response.kind = "processed" =>
          /\ x.page >= 1 /\ x.telling \in Tellings
          /\ x.response.count \in 0..OnPage(x.page)
          /\ x.response.total \in {hits, NoTotal}
          /\ Told(x.telling) => x.response.total = hits
    /\ x.response.kind # "processed" /\ x.page = 0 => x.response.kind = "non"

EndsAt(x) == Halts(x.response, x.page, PerPage)

Answered ==
    /\ \A i \in 1..Len(results) : Honest(results[i])
    /\ pc = "yield" => found \in Result /\ Honest(found) /\ halt = EndsAt(found)

\* Only the last result ends the retrieval, and what is left then has a reason.
Halted ==
    /\ \A i \in 1..Len(results) : EndsAt(results[i]) => i = Len(results) /\ pc = "ended"
    /\ pc = "ended" /\ ~stopped /\ todo # <<>> =>
          results # <<>> /\ EndsAt(results[Len(results)])

\* What was asked for and what is left are the caller's list, sorted.
Listing(s) == ToSet(s) = Listed /\ Ascending(s)

Ordered == pc # "start" => Listing(Asked \o todo)

PInv == PageTypes /\ Answered /\ Halted /\ Ordered

\* Every answer is a result, and an honest one.
LEMMA AnswersAre ==
    ASSUME PageTypes, NEW p \in Listed, p \in Nat, NEW a \in Answers(p)
    PROVE  LET x == [page |-> p, response |-> a.response, telling |-> a.telling]
           IN  x \in Result /\ Honest(x)
<1> DEFINE x == [page |-> p, response |-> a.response, telling |-> a.telling]
<1>1. hits \in Nat /\ hits \in Hits /\ setup \in Setups
  BY PagesAssumption DEF PageTypes, PagesTypeOK
<1>2. OnPage(p) \in 0..PerPage /\ PerPage \in Nat
  BY <1>1, OnPageIs, PagesAssumption
<1>3. CASE p # 0 /\ \E n \in 0..OnPage(p), t \in Tellings :
                a = [response |-> Processed(n, Total(t)), telling |-> t]
  <2>1. PICK n \in 0..OnPage(p), t \in Tellings :
                a = [response |-> Processed(n, Total(t)), telling |-> t]
    BY <1>3
  <2>2. Total(t) \in {hits, NoTotal} /\ (Told(t) => Total(t) = hits)
    BY <1>1, TotalIs
  <2> DEFINE total == Total(t)
  <2>3. x = [page |-> p, response |-> Processed(n, total), telling |-> t]
    BY <2>1
  <2>4. n \in 0..PerPage /\ total \in Hits \cup {NoTotal}
    BY <1>1, <1>2, <2>2
  <2> HIDE DEF total
  <2>5. x \in Result
    <3>1. Processed(n, total) \in Response
      BY <2>4 DEF Response
    <3> QED BY <2>3, <3>1 DEF Result
  <2>6. /\ x.page = p /\ x.telling = t /\ x.response.kind = "processed"
        /\ x.response.count = n /\ x.response.total = total
    BY <2>3 DEF Processed
  <2>7. p >= 1
    BY <1>3
  <2> HIDE DEF x
  <2>8. Honest(x)
    BY <2>2, <2>6, <2>7 DEF Honest, total
  <2> QED BY <2>5, <2>8 DEF x
<1>4. CASE \E k \in Kinds \ {"processed"} :
                /\ p = 0 => k = "non"
                /\ a = [response |-> Failed(k, NoStatus), telling |-> Untold]
  <2>1. PICK k \in Kinds \ {"processed"} :
                /\ p = 0 => k = "non"
                /\ a = [response |-> Failed(k, NoStatus), telling |-> Untold]
    BY <1>4
  <2>2. x = [page |-> p, response |-> Failed(k, NoStatus), telling |-> Untold]
    BY <2>1
  <2>3. x \in Result
    <3>1. Failed(k, NoStatus) \in Response
      BY DEF Response
    <3> QED BY <2>2, <3>1 DEF Result
  <2>4. x.page = p /\ x.response.kind = k /\ k # "processed"
    BY <2>2 DEF Failed
  <2> HIDE DEF x
  <2>5. Honest(x)
    BY <2>1, <2>4 DEF Honest
  <2> QED BY <2>3, <2>5 DEF x
<1>5. CASE p = 0
  <2>1. a = [response |-> Failed("non", NoStatus), telling |-> Untold]
    BY <1>5 DEF Answers
  <2>2. "non" \in Kinds \ {"processed"}
    BY DEF Kinds
  <2> QED BY <1>4, <2>1, <2>2
<1>6. CASE p # 0
  <2>1. \/ \E n \in 0..OnPage(p), t \in Tellings :
              a = [response |-> Processed(n, Total(t)), telling |-> t]
        \/ \E k \in Faults : a = [response |-> Failed(k, NoStatus), telling |-> Untold]
    BY <1>6 DEF Answers
  <2>2. Faults \subseteq Kinds \ {"processed"}
    BY PagesAssumption
  <2> QED BY <1>3, <1>4, <1>6, <2>1, <2>2
<1> QED BY <1>5, <1>6

LEMMA PInvInit == PagesInit => PInv
<1> SUFFICES ASSUME PagesInit PROVE PInv
  OBVIOUS
<1>1. todo = <<>> /\ results = <<>> /\ Len(results) = 0 /\ pc = "start"
  BY DEF PagesInit
<1>2. <<>> \in Seq(Result) /\ <<>> \in Seq(Int) /\ ToSet(<<>>) = {}
  BY EmptySeq DEF ToSet
<1>3. PageTypes
  BY <1>1, <1>2 DEF PagesInit, PageTypes, PagesTypeOK
<1>4. Answered /\ Halted /\ Ordered
  BY <1>1 DEF Answered, Halted, Ordered
<1> QED BY <1>3, <1>4 DEF PInv

\* What the query is about stays as it is.
Kept == hits' = hits /\ setup' = setup /\ given' = given

LEMMA KeptSo ==
    ASSUME Kept
    PROVE  /\ Listed' = Listed /\ Result' = Result
           /\ \A x : Honest(x)' <=> Honest(x)
           /\ \A s : Listing(s)' <=> Listing(s)
<1>1. Listed' = Listed
  BY DEF Kept, Listed
<1>2. Result' = Result
  BY <1>1 DEF Result, Response
<1>3. \A x : Told(x)' <=> Told(x)
  BY DEF Kept, Told
<1>4. \A p : OnPage(p)' = OnPage(p)
  BY DEF Kept, OnPage
<1>5. ASSUME NEW x PROVE Honest(x)' <=> Honest(x)
  <2>1. Told(x.telling)' <=> Told(x.telling)
    BY <1>3
  <2>2. OnPage(x.page)' = OnPage(x.page)
    BY <1>4
  <2> QED BY <2>1, <2>2 DEF Honest, Kept
<1>6. \A s : Listing(s)' <=> Listing(s)
  BY <1>1 DEF Listing
<1> QED BY <1>1, <1>2, <1>5, <1>6

\* Handing over a result.
LEMMA HandOver ==
    ASSUME PInv, Kept, pc = "yield", results' = Append(results, found), todo' = todo,
           pc' # "yield", pc' # "start"
    PROVE  /\ results' \in Seq(Result) /\ results' # <<>>
           /\ Len(results') = Len(results) + 1 /\ results'[Len(results) + 1] = found
           /\ \A i \in 1..Len(results) : results'[i] = results[i]
           /\ \A i \in 1..Len(results') : Honest(results'[i])
           /\ \A i \in 1..Len(results) : ~EndsAt(results[i])
           /\ Ordered'
<1>1. /\ results \in Seq(Result) /\ found \in Result /\ Honest(found)
      /\ \A i \in 1..Len(results) : Honest(results[i])
      /\ \A i \in 1..Len(results) : ~EndsAt(results[i])
  BY DEF PInv, PageTypes, Answered, Halted
<1> HIDE DEF Result
<1>2. /\ results' \in Seq(Result) /\ Len(results') = Len(results) + 1
      /\ results'[Len(results) + 1] = found /\ Len(results) \in Nat
      /\ \A i \in 1..Len(results) : results'[i] = results[i]
  BY <1>1, AppendProperties, LenProperties
<1>3. ASSUME NEW i \in 1..Len(results') PROVE Honest(results'[i])
  <2>1. i \in 1..Len(results) \/ i = Len(results) + 1
    BY <1>2
  <2> QED BY <1>1, <1>2, <2>1
<1>4. Ordered'
  <2>1. \A x \in Result : x.page \in Int
    <3>1. Listed \subseteq Int
      <4>1. given \in Seq(Int)
        BY PagesAssumption DEF PInv, PageTypes, PagesTypeOK
      <4> QED BY <4>1 DEF Listed, ToSet
    <3> QED BY <3>1 DEF Result
  <2>2. /\ PagesOf(results) \in Seq(Int)
        /\ PagesOf(Append(results, found)) = PagesOf(results) \o <<found.page>>
    BY <1>1, <2>1, PagesAre
  <2>3. Asked = PagesOf(results) \o <<found.page>>
    BY DEF Asked
  <2>4. Asked' = PagesOf(results') \o <<>>
    BY DEF Asked, PagesOf
  <2>5. PagesOf(results)' = PagesOf(results')
    BY DEF PagesOf
  <2>6. PagesOf(results') = Asked /\ PagesOf(results') \in Seq(Int)
    <3>1. PagesOf(results') \in Seq(Int)
      BY <1>2, <2>1, PagesAre
    <3> QED BY <2>2, <2>3, <3>1
  <2>7. Asked' = Asked
    BY <2>4, <2>6, ConcatEmptySeq
  <2>8. Listing(Asked \o todo)
    BY DEF PInv, Ordered
  <2>9. Listing(Asked \o todo)'
    BY <2>7, <2>8 DEF Listing, Kept, Listed
  <2> QED BY <2>9 DEF Ordered
<1>5. results' # <<>>
  BY <1>2
<1> QED BY <1>1, <1>2, <1>3, <1>4, <1>5

LEMMA PInvNext == PInv /\ [PagesNext]_pageVars => PInv'
<1> SUFFICES ASSUME PInv, [PagesNext]_pageVars PROVE PInv'
  OBVIOUS
<1> USE DEF PInv
<1>1. CASE Start
  <2>1. /\ pc = "start" /\ todo' = PageNumbers(given) /\ pc' = Resume(todo')
        /\ Kept /\ UNCHANGED <<found, halt, results, stopped>>
    BY <1>1 DEF Start, Kept
  <2>2. /\ todo' \in Seq(Int) /\ ToSet(todo') = Listed /\ Ascending(todo')
    <3>1. given \in Seq(Int)
      BY PagesAssumption DEF PageTypes, PagesTypeOK
    <3> QED BY <2>1, <3>1, PageNumbersSorts DEF Listed
  <2>3. results = <<>> /\ results' = <<>> /\ ~stopped
    BY <2>1 DEF PageTypes
  <2>4. pc' \in {"search", "ended"} /\ (pc' = "search" => todo' # <<>>)
        /\ (pc' = "ended" => todo' = <<>>)
    BY <2>1 DEF Resume
  <2>5. PageTypes'
    BY <2>1, <2>2, <2>3, <2>4, KeptSo DEF PageTypes, PagesTypeOK, Kept
  <2>6. Answered' /\ Halted'
    <3>1. Len(results') = 0
      BY <2>3
    <3> QED BY <2>4, <3>1 DEF Answered, Halted
  <2>7. Ordered'
    <3>1. Asked' = <<>> \o <<>>
      <4>1. PagesOf(results)' = <<>>
        BY <2>3 DEF PagesOf
      <4> QED BY <2>4, <4>1 DEF Asked
    <3>2. Asked' \o todo' = todo'
      BY <2>2, <3>1, NextPage
    <3>3. Listing(todo')
      BY <2>2 DEF Listing
    <3> QED BY <2>1, <3>2, <3>3, KeptSo DEF Ordered, Listing
  <2> QED BY <2>5, <2>6, <2>7
<1>2. CASE Search
  <2>1. PICK a \in Answers(Head(todo)) : SearchPage(a)
    BY <1>2 DEF Search
  <2> DEFINE p == Head(todo)
             x == [page |-> p, response |-> a.response, telling |-> a.telling]
  <2>2. /\ pc = "search" /\ p >= 0 /\ found' = x /\ halt' = EndsAt(x)
        /\ todo' = Tail(todo) /\ pc' = "yield" /\ Kept /\ UNCHANGED <<results, stopped>>
    BY <2>1 DEF SearchPage, EndsAt, Kept
  <2>3. /\ todo # <<>> /\ todo \in Seq(Int) /\ p \in Int /\ todo' \in Seq(Int)
        /\ p \in ToSet(todo) /\ ToSet(Tail(todo)) \subseteq ToSet(todo)
    <3>1. todo # <<>> /\ todo \in Seq(Int)
      BY <2>2 DEF PageTypes
    <3>2. 1 \in DOMAIN todo /\ p = todo[1] /\ p \in Int /\ Tail(todo) \in Seq(Int)
      BY <3>1
    <3>3. \A i \in DOMAIN Tail(todo) : Tail(todo)[i] = todo[i + 1] /\ i + 1 \in DOMAIN todo
      BY <3>1
    <3> QED BY <2>2, <3>1, <3>2, <3>3 DEF ToSet
  <2>4. p \in Listed /\ p \in Nat
    BY <2>2, <2>3 DEF PageTypes, PagesTypeOK
  <2>5. x \in Result /\ Honest(x)
    BY <2>4, AnswersAre
  <2>6. halt' \in BOOLEAN
    <3> DEFINE r == x.response
               q == x.page
    <3>1. halt' = Halts(r, q, PerPage)
      BY <2>2 DEF EndsAt
    <3>2. CASE r.kind = "processed"
      <4>1. r.count \in Int /\ PerPage \in Int
        <5>1. r.count \in 0..OnPage(q) /\ hits \in Nat /\ q \in Int
          BY <2>5, <3>2, PagesAssumption DEF Honest, PageTypes, PagesTypeOK
        <5> QED BY <5>1, OnPageIs, PagesAssumption
      <4> HIDE DEF r, q
      <4>2. (r.count < PerPage) \in BOOLEAN
        BY <4>1
      <4>3. halt' = (PagesRemaining(q, r.total, PerPage) = 0) \/ halt' = (r.count < PerPage)
        BY <3>1, <3>2 DEF Halts
      <4>4. (PagesRemaining(q, r.total, PerPage) = 0) \in BOOLEAN
        OBVIOUS
      <4> QED BY <4>2, <4>3, <4>4
    <3>3. CASE r.kind # "processed"
      <4> HIDE DEF r, q
      <4> QED BY <3>1, <3>3 DEF Halts
    <3> QED BY <3>2, <3>3
  <2> HIDE DEF x, p
  <2>7. PageTypes'
    <3>1. ToSet(todo') \subseteq Listed
      BY <2>2, <2>3 DEF PageTypes, PagesTypeOK
    <3> QED BY <2>2, <2>3, <2>5, <2>6, <3>1, KeptSo DEF PageTypes, PagesTypeOK, Kept
  <2>8. Answered'
    <3>1. found' \in Result'
      BY <2>2, <2>5, KeptSo
    <3>2. Honest(found)'
      BY <2>2, <2>5, KeptSo
    <3>3. halt' = EndsAt(found)'
      BY <2>2 DEF EndsAt
    <3>4. \A i \in 1..Len(results) : Honest(results[i])'
      BY <2>2, KeptSo DEF Answered
    <3> QED BY <2>2, <3>1, <3>2, <3>3, <3>4 DEF Answered
  <2>9. Halted'
    BY <2>2 DEF Halted
  <2>10. Ordered'
    <3>1. Asked = PagesOf(results) \o <<>> /\ Asked' = PagesOf(results) \o <<p>>
      BY <2>2 DEF Asked, PagesOf, x
    <3>2. PagesOf(results) \in Seq(Int)
      <4>1. Listed \subseteq Int
        <5>1. given \in Seq(Int)
          BY PagesAssumption DEF PageTypes, PagesTypeOK
        <5> QED BY <5>1 DEF Listed, ToSet
      <4>2. \A y \in Result : y.page \in Int
        BY <4>1 DEF Result
      <4>3. results \in Seq(Result)
        BY DEF PageTypes
      <4> HIDE DEF Result
      <4> QED BY <4>2, <4>3, PagesAre
    <3>3. Asked' \o todo' = Asked \o todo
      BY <2>2, <2>3, <3>1, <3>2, NextPage DEF p
    <3>4. Listing(Asked \o todo)
      BY <2>2 DEF Ordered
    <3> QED BY <2>2, <3>3, <3>4, KeptSo DEF Ordered, Listing
  <2> QED BY <2>7, <2>8, <2>9, <2>10
<1>3. CASE SearchRaises
  <2>1. /\ pc = "search" /\ pc' = "ended" /\ stopped' = TRUE /\ Kept
        /\ UNCHANGED <<todo, found, halt, results>>
    BY <1>3 DEF SearchRaises, Kept
  <2>2. PageTypes'
    BY <2>1, KeptSo DEF PageTypes, PagesTypeOK, Kept
  <2>3. Answered' /\ Halted'
    <3>1. \A i \in 1..Len(results) : Honest(results[i])'
      BY <2>1, KeptSo DEF Answered
    <3> QED BY <2>1, <3>1 DEF Answered, Halted, EndsAt
  <2>4. Ordered'
    BY <2>1, KeptSo DEF Ordered, Asked, PagesOf, Listing
  <2> QED BY <2>2, <2>3, <2>4
<1>4. CASE Yield
  <2>1. /\ pc = "yield" /\ results' = Append(results, found) /\ found' = Nothing
        /\ pc' = (IF halt THEN "ended" ELSE Resume(todo)) /\ Kept
        /\ UNCHANGED <<todo, halt, stopped>>
    BY <1>4 DEF Yield, Kept
  <2>2. pc' \in {"search", "ended"} /\ (pc' = "search" => todo # <<>>)
    BY <2>1 DEF Resume
  <2>3. /\ results' \in Seq(Result) /\ results' # <<>>
        /\ Len(results') = Len(results) + 1 /\ results'[Len(results) + 1] = found
        /\ \A i \in 1..Len(results) : results'[i] = results[i]
        /\ \A i \in 1..Len(results') : Honest(results'[i])
        /\ \A i \in 1..Len(results) : ~EndsAt(results[i])
        /\ Ordered'
    BY <2>1, <2>2, HandOver
  <2>4. PageTypes'
    <3>1. ToSet(results') \subseteq Result
      BY <2>3 DEF ToSet
    <3> QED BY <2>1, <2>2, <2>3, <3>1, KeptSo DEF PageTypes, PagesTypeOK, Kept
  <2>5. Answered'
    BY <2>1, <2>2, <2>3, KeptSo DEF Answered
  <2>6. halt = EndsAt(found)
    BY <2>1 DEF Answered
  <2>7. Halted'
    <3>1. halt => pc' = "ended"
      BY <2>1
    <3>2. pc' = "ended" /\ todo # <<>> => halt
      BY <2>1 DEF Resume
    <3>3. \A i \in 1..Len(results') : EndsAt(results'[i]) => i = Len(results') /\ pc' = "ended"
      <4> SUFFICES ASSUME NEW i \in 1..Len(results'), EndsAt(results'[i])
                   PROVE  i = Len(results') /\ pc' = "ended"
        OBVIOUS
      <4>1. Len(results) \in Nat
        BY DEF PageTypes
      <4>2. i \in 1..Len(results) \/ i = Len(results) + 1
        BY <2>3, <4>1
      <4> QED BY <2>3, <2>6, <3>1, <4>2
    <3>4. pc' = "ended" /\ todo' # <<>> => EndsAt(results'[Len(results')])
      BY <2>1, <2>3, <2>6, <3>2
    <3> QED BY <2>3, <3>3, <3>4 DEF Halted, EndsAt
  <2> QED BY <2>3, <2>4, <2>5, <2>7
<1>5. CASE Close
  <2>1. /\ pc = "yield" /\ results' = Append(results, found) /\ found' = Nothing
        /\ pc' = "ended" /\ stopped' = TRUE /\ Kept /\ UNCHANGED <<todo, halt>>
    BY <1>5 DEF Close, Kept
  <2>3. /\ results' \in Seq(Result) /\ results' # <<>>
        /\ Len(results') = Len(results) + 1 /\ results'[Len(results) + 1] = found
        /\ \A i \in 1..Len(results) : results'[i] = results[i]
        /\ \A i \in 1..Len(results') : Honest(results'[i])
        /\ \A i \in 1..Len(results) : ~EndsAt(results[i])
        /\ Ordered'
    BY <2>1, HandOver
  <2>4. PageTypes'
    <3>1. ToSet(results') \subseteq Result
      BY <2>3 DEF ToSet
    <3> QED BY <2>1, <2>3, <3>1, KeptSo DEF PageTypes, PagesTypeOK, Kept
  <2>5. Answered'
    BY <2>1, <2>3, KeptSo DEF Answered
  <2>7. Halted'
    BY <2>1, <2>3 DEF Halted, EndsAt, PageTypes
  <2> QED BY <2>3, <2>4, <2>5, <2>7
<1>6. CASE UNCHANGED pageVars
  <2>1. /\ Kept /\ UNCHANGED <<pc, todo, found, halt, results, stopped>>
    BY <1>6 DEF pageVars, Kept
  <2>2. PageTypes'
    BY <2>1, KeptSo DEF PageTypes, PagesTypeOK, Kept
  <2>3. Answered'
    <3>1. \A i \in 1..Len(results) : Honest(results[i])'
      BY <2>1, KeptSo DEF Answered
    <3>2. pc = "yield" => Honest(found)'
      BY <2>1, KeptSo DEF Answered
    <3> QED BY <2>1, <3>1, <3>2, KeptSo DEF Answered, EndsAt
  <2>4. Halted'
    BY <2>1 DEF Halted, EndsAt
  <2>5. Ordered'
    BY <2>1, KeptSo DEF Ordered, Asked, PagesOf, Listing
  <2> QED BY <2>2, <2>3, <2>4, <2>5
<1> QED BY <1>1, <1>2, <1>3, <1>4, <1>5, <1>6 DEF PagesNext

LEMMA PInvAlways == PagesSpec => []PInv
<1> QED BY PInvInit, PInvNext, PTL DEF PagesSpec

----------------------------------------------------------------------------
(* Theorems *)

\* Whatever list the caller gives, its pages are asked for in ascending order,
\* each once, and none is passed over.
THEOREM PagesComeInOrder == PagesSpec => []InPageOrder
<1>1. PInv => InPageOrder
  <2> SUFFICES ASSUME PInv PROVE InPageOrder
    OBVIOUS
  <2>1. PagesTypeOK /\ (pc # "start" => Listing(Asked \o todo))
    BY DEF PInv, PageTypes, Ordered
  <2> QED BY <2>1 DEF InPageOrder, Listing, Ascending, Asked, PagesOf
<1> QED BY <1>1, PInvAlways, PTL

\* Retrieval stops after a failure and at a page beyond the last record, and it
\* stops short of the list only where the last result justifies it.
THEOREM HaltsHaveReasons == PagesSpec => []HaltJustified
<1>1. PInv => HaltJustified
  <2> SUFFICES ASSUME PInv PROVE HaltJustified
    OBVIOUS
  <2> USE DEF PInv
  <2> DEFINE L == Len(results)
             Beyond == {i \in DOMAIN results : /\ results[i].page >= 1
                                               /\ OnPage(results[i].page) = 0}
  <2>1. /\ results \in Seq(Result) /\ L \in Nat /\ DOMAIN results = 1..L
        /\ \A i \in 1..L : results[i] \in Result /\ Honest(results[i])
        /\ \A i \in 1..L : EndsAt(results[i]) => i = L /\ pc = "ended"
        /\ hits \in Nat /\ PerPage \in Nat \ {0} /\ NoTotal \notin Nat
    <3>1. results \in Seq(Result)
      BY DEF PageTypes
    <3>2. L \in Nat /\ DOMAIN results = 1..L /\ \A i \in 1..L : results[i] \in Result
      <4> HIDE DEF Result
      <4> QED BY <3>1, ElementOfSeq
    <3> QED BY <3>1, <3>2, PagesAssumption DEF PageTypes, PagesTypeOK, Answered, Halted
  <2> HIDE DEF L
  <2>2. ASSUME NEW i \in 1..L, results[i].response.kind # "processed", results[i].page # 0
        PROVE  EndsAt(results[i])
    BY <2>2 DEF EndsAt, Halts
  <2>3. ASSUME NEW i \in 1..L, results[i].page >= 1, OnPage(results[i].page) = 0
        PROVE  EndsAt(results[i])
    <3> DEFINE x == results[i]
               r == x.response
               p == x.page
    <3>1. Honest(x)
      BY <2>1
    <3>2. p \in Nat /\ p >= 1 /\ OnPage(p) = 0
      BY <2>3, <3>1 DEF Honest
    <3>3. EndsAt(x) <=> Halts(r, p, PerPage)
      BY DEF EndsAt
    <3>4. CASE r.kind # "processed"
      <4>1. p # 0
        BY <3>2
      <4> QED BY <2>2, <3>4, <4>1
    <3>5. CASE r.kind = "processed"
      <4>1. r.count \in 0..OnPage(p) /\ r.total \in {hits, NoTotal}
        BY <3>1, <3>5 DEF Honest
      <4> HIDE DEF x, r, p
      <4>2. r.count < PerPage
        BY <2>1, <3>2, <4>1
      <4>3. r.total # NoTotal => PagesRemaining(p, r.total, PerPage) = 0
        <5>1. hits \in Nat /\ p \in Int
          BY <2>1, <3>2
        <5>2. hits <= p * PerPage
          BY <3>2, <5>1, OnPageIs
        <5>3. PagesRemaining(p, hits, PerPage) = 0
          BY <3>2, <5>1, <5>2, Remaining
        <5> QED BY <4>1, <5>3
      <4>4. Halts(r, p, PerPage)
        BY <3>5, <4>2, <4>3 DEF Halts
      <4> QED BY <3>3, <4>4 DEF x
    <3> QED BY <3>4, <3>5
  <2>4. Cardinality(Beyond) <= 1
    <3>1. Beyond \subseteq {L}
      BY <2>1, <2>3
    <3>2. Beyond = {} \/ Beyond = {L}
      BY <3>1
    <3>3. Cardinality({}) = 0 /\ Cardinality({L}) = 1
      BY FS_EmptySet, FS_Singleton
    <3> HIDE DEF Beyond
    <3> QED BY <3>2, <3>3
  <2>5. ASSUME pc = "ended", ~stopped, todo # <<>>
        PROVE  /\ results # <<>>
               /\ LET last == Last(results)
                  IN  \/ last.response.kind # "processed" /\ last.page # 0
                      \/ ~Told(last.telling) /\ last.response.count < PerPage
                      \/ \A p \in ToSet(todo) : OnPage(p) = 0
    <3> DEFINE x == results[L]
               r == x.response
               p == x.page
    <3>1. results # <<>> /\ EndsAt(x)
      BY <2>5 DEF Halted, L
    <3>2. L \in 1..L /\ Last(results) = x /\ Honest(x)
      <4>1. L # 0
        <5> HIDE DEF Result
        <5> QED BY <2>1, <3>1, EmptySeq DEF L
      <4>2. L \in 1..L
        BY <2>1, <4>1
      <4> QED BY <2>1, <4>2 DEF Last, L
    <3>3. Halts(r, p, PerPage) /\ p \in Nat
      BY <3>1, <3>2 DEF EndsAt, Honest
    <3>4. CASE r.kind # "processed"
      <4>1. p # 0
        <5>1. p = 0 => r.kind = "non"
          BY <3>2, <3>4 DEF Honest
        <5> HIDE DEF p, r
        <5> QED BY <3>3, <3>4, <5>1 DEF Halts
      <4> QED BY <3>1, <3>2, <3>4, <4>1
    <3>5. CASE r.kind = "processed" /\ r.total = NoTotal
      <4>1. r.count < PerPage
        BY <3>3, <3>5 DEF Halts
      <4>2. ~Told(x.telling)
        BY <2>1, <3>2, <3>5 DEF Honest
      <4> QED BY <3>1, <3>2, <4>1, <4>2
    <3>6. CASE r.kind = "processed" /\ r.total # NoTotal
      <4>1. r.total = hits
        BY <3>2, <3>6 DEF Honest
      <4>2. PagesRemaining(p, hits, PerPage) = 0
        BY <3>3, <3>6, <4>1 DEF Halts
      <4>3. hits <= p * PerPage
        <5> HIDE DEF p
        <5> QED BY <2>1, <3>3, <4>2, Remaining
      <4>4. ASSUME NEW q \in ToSet(todo) PROVE OnPage(q) = 0
        <5> DEFINE pages == PagesOf(results)
                   order == pages \o todo
        <5>1. pages \in Seq(Int) /\ Len(pages) = L /\ pages[L] = p /\ todo \in Seq(Int)
          <6>1. \A y \in Result : y.page \in Int
            <7>1. given \in Seq(Int)
              BY PagesAssumption DEF PageTypes, PagesTypeOK
            <7>2. Listed \subseteq Int
              BY <7>1 DEF Listed, ToSet
            <7> QED BY <7>2 DEF Result
          <6>2. pages \in Seq(Int) /\ Len(pages) = L /\ \A i \in 1..L : pages[i] = results[i].page
            <7> HIDE DEF Result
            <7> QED BY <2>1, <6>1, PagesAre DEF L
          <6> QED BY <3>2, <6>2 DEF PageTypes
        <5>2. Asked = pages
          <6>1. Asked = pages \o <<>>
            BY <2>5 DEF Asked
          <6> QED BY <5>1, <6>1, ConcatEmptySeq
        <5>3. Ascending(order)
          BY <2>5, <5>2 DEF Ordered, Listing
        <5>4. PICK j \in 1..Len(todo) : q = todo[j]
          <6>1. DOMAIN todo = 1..Len(todo)
            BY <5>1
          <6> QED BY <6>1 DEF ToSet
        <5>5. /\ L \in DOMAIN order /\ L + j \in DOMAIN order /\ L < L + j
              /\ order[L] = p /\ order[L + j] = q
          <6>1. Len(todo) \in Nat
            BY <5>1
          <6> HIDE DEF pages
          <6> QED BY <2>1, <3>2, <5>1, <5>4, <6>1 DEF p
        <5>6. p < q
          BY <5>3, <5>5 DEF Ascending
        <5>7. q \in Int
          BY <5>1, <5>4
        <5> HIDE DEF p
        <5> QED BY <2>1, <3>3, <4>3, <5>6, <5>7, OnPageIs
      <4> QED BY <3>1, <4>4
    <3> QED BY <3>4, <3>5, <3>6
  <2> QED BY <2>1, <2>2, <2>4, <2>5 DEF HaltJustified, L
<1> QED BY <1>1, PInvAlways, PTL

----------------------------------------------------------------------------
(* MultiSearch *)

\* Query k of provider p has ended, and let the next one begin.
Passed(p, k) ==
    LET got == answers[Group[p][k]]
    IN  /\ got # <<>>
        /\ ~Refused(Last(got), Group[p][k + 1])
        /\ Len(got) = Len(Pages) \/ Halts(Last(got), Pages[Len(got)], Rpp)

Cursor(p) ==
    at[p] # End =>
        LET k == at[p][1]
            i == at[p][2]
        IN  /\ k \in DOMAIN Group[p] /\ i \in DOMAIN Pages
            /\ at[p] = <<k, i>>
            /\ Len(answers[Group[p][k]]) = i - 1
            /\ \A j \in 1..(k - 1) : Passed(p, j)
            /\ \A j \in (k + 1)..Len(Group[p]) : answers[Group[p][j]] = <<>>

InOrder(p) ==
    \A k \in 2..Len(Group[p]) : answers[Group[p][k]] # <<>> => Passed(p, k - 1)

AskInv ==
    /\ DOMAIN at = DOMAIN Group
    /\ answers \in [Coordinators -> Seq(Responses)]
    /\ \A p \in DOMAIN Group : Cursor(p) /\ InOrder(p)

LEMMA GroupFacts ==
    ASSUME NEW p \in DOMAIN Group
    PROVE  /\ Len(Group[p]) \in Nat \ {0} /\ DOMAIN Group[p] = 1..Len(Group[p])
           /\ \A k \in 1..Len(Group[p]) : /\ Group[p][k] \in Searched
                                         /\ Group[p][k] \in Coordinators
                                         /\ ProviderOf[Group[p][k]] = p
<1>1. Group[p] \in Seq(Searched) /\ Group[p] # <<>>
  BY GroupAssumption
<1>2. Searched \subseteq Coordinators
  BY DEF Searched
<1> QED BY <1>1, <1>2, GroupAssumption

LEMMA PageFacts ==
    /\ Len(Pages) \in Nat /\ DOMAIN Pages = 1..Len(Pages)
    /\ Pages # <<>> => 1 \in DOMAIN Pages
  BY MultiAssumption

LEMMA Appended ==
    ASSUME NEW S, NEW s \in Seq(S), NEW x \in S
    PROVE  Len(Append(s, x)) = Len(s) + 1 /\ Append(s, x) # <<>> /\ Last(Append(s, x)) = x
BY DEF Last

LEMMA InitAskInv ==
    ASSUME Init
    PROVE  AskInv
<1>1. /\ at = [p \in DOMAIN Group |-> First(p)]
      /\ answers = [c \in Coordinators |-> <<>>]
  BY DEF Init
<1>2. ASSUME NEW p \in DOMAIN Group PROVE Cursor(p) /\ InOrder(p)
  <2>1. \A k \in 1..Len(Group[p]) : answers[Group[p][k]] = <<>>
    BY <1>1, GroupFacts
  <2>2. InOrder(p)
    BY <2>1 DEF InOrder
  <2>3. CASE Pages = <<>>
    BY <1>1, <2>2, <2>3 DEF First, Cursor
  <2>4. CASE Pages # <<>>
    <3>1. at[p] = <<1, 1>>
      BY <1>1, <2>4 DEF First
    <3>2. 1 \in DOMAIN Group[p] /\ 1 \in DOMAIN Pages /\ Len(answers[Group[p][1]]) = 0
      BY <2>1, <2>4, GroupFacts, PageFacts
    <3>3. \A j \in 2..Len(Group[p]) : answers[Group[p][j]] = <<>>
      BY <2>1, GroupFacts
    <3> QED
      BY <2>2, <3>1, <3>2, <3>3, GroupFacts DEF Cursor
  <2> QED
    BY <2>3, <2>4
<1> QED
  BY <1>1, <1>2 DEF AskInv

\* Queries of different providers, or at different places, are different ones.
LEMMA Apart ==
    ASSUME NEW p \in DOMAIN Group, NEW q \in DOMAIN Group,
           NEW j \in DOMAIN Group[p], NEW k \in DOMAIN Group[q],
           Group[p][j] = Group[q][k]
    PROVE  p = q /\ j = k
<1>1. ProviderOf[Group[p][j]] = p /\ ProviderOf[Group[q][k]] = q
  BY GroupFacts
<1>2. \A m, n \in DOMAIN Group[p] : Group[p][m] = Group[p][n] => m = n
  BY GroupAssumption
<1> QED BY <1>1, <1>2

\* One step of a provider's generator.
LEMMA AskKeeps ==
    ASSUME AskInv, NEW p \in DOMAIN Group, NEW r \in Responses, at[p] # End, Ask(p, r)
    PROVE  AskInv'
<1>0. PICK k \in 1..Len(Group[p]), i \in 1..Len(Pages) : k = at[p][1] /\ i = at[p][2]
  BY GroupFacts, PageFacts DEF AskInv, Cursor
<1> DEFINE c == Group[p][k]
<1>1. /\ k \in 1..Len(Group[p]) /\ i \in 1..Len(Pages) /\ at[p] = <<k, i>>
      /\ Len(Group[p]) \in Nat /\ Len(Pages) \in Nat
      /\ Len(answers[c]) = i - 1
      /\ \A j \in 1..(k - 1) : Passed(p, j)
      /\ \A j \in (k + 1)..Len(Group[p]) : answers[Group[p][j]] = <<>>
  BY <1>0, GroupFacts, PageFacts DEF AskInv, Cursor
<1>2. /\ answers \in [Coordinators -> Seq(Responses)] /\ c \in Coordinators
      /\ answers' = [answers EXCEPT ![c] = Append(@, r)]
      /\ at' = [at EXCEPT ![p] = After(p, r)] /\ DOMAIN at = DOMAIN Group
  BY <1>0, <1>1, GroupFacts DEF AskInv, Ask
<1>3. /\ answers' \in [Coordinators -> Seq(Responses)] /\ DOMAIN at' = DOMAIN Group
      /\ answers'[c] = Append(answers[c], r)
      /\ \A d \in Coordinators : d # c => answers'[d] = answers[d]
      /\ at'[p] = After(p, r)
      /\ \A q \in DOMAIN Group : q # p => at'[q] = at[q]
  BY <1>2
<1>4. Len(answers'[c]) = i /\ answers'[c] # <<>> /\ Last(answers'[c]) = r
  <2>1. answers[c] \in Seq(Responses)
    BY <1>2
  <2>2. /\ Len(answers'[c]) = Len(answers[c]) + 1
        /\ answers'[c] # <<>> /\ Last(answers'[c]) = r
    BY <1>3, <2>1, Appended
  <2> QED
    BY <1>1, <2>2
<1>5. \A j \in 1..Len(Group[p]) : j # k => answers'[Group[p][j]] = answers[Group[p][j]]
  BY <1>1, <1>3, Apart, GroupFacts
<1>6. ASSUME NEW q \in DOMAIN Group, q # p PROVE (Cursor(q) /\ InOrder(q))'
  <2>1. \A j \in 1..Len(Group[q]) : answers'[Group[q][j]] = answers[Group[q][j]]
    BY <1>1, <1>3, <1>6, Apart, GroupFacts
  <2>2. at'[q] = at[q] /\ Cursor(q) /\ InOrder(q)
    BY <1>3, <1>6 DEF AskInv
  <2>3. Len(Group[q]) \in Nat /\ DOMAIN Group[q] = 1..Len(Group[q])
    BY GroupFacts
  <2>4. \A j \in 1..Len(Group[q]) : Passed(q, j)' <=> Passed(q, j)
    BY <2>1 DEF Passed, Refused
  <2>5. Cursor(q)'
    <3>1. CASE at[q] = End
      BY <2>2, <3>1 DEF Cursor
    <3>2. CASE at[q] # End
      <4>1. PICK m \in 1..Len(Group[q]), n \in DOMAIN Pages :
               /\ at[q] = <<m, n>> /\ Len(answers[Group[q][m]]) = n - 1
               /\ \A j \in 1..(m - 1) : Passed(q, j)
               /\ \A j \in (m + 1)..Len(Group[q]) : answers[Group[q][j]] = <<>>
        BY <2>2, <2>3, <3>2 DEF Cursor
      <4>2. /\ Len(answers'[Group[q][m]]) = n - 1
            /\ \A j \in (m + 1)..Len(Group[q]) : answers'[Group[q][j]] = <<>>
        <5>1. answers'[Group[q][m]] = answers[Group[q][m]]
          BY <2>1
        <5>2. \A j \in (m + 1)..Len(Group[q]) : j \in 1..Len(Group[q])
          BY <2>3
        <5> QED
          BY <2>1, <4>1, <5>1, <5>2
      <4>3. \A j \in 1..(m - 1) : Passed(q, j)'
        BY <2>3, <2>4, <4>1
      <4>4. at'[q][1] = m /\ at'[q][2] = n /\ at'[q] = <<m, n>> /\ m \in DOMAIN Group[q]
        BY <2>2, <2>3, <4>1
      <4> QED
        BY <4>1, <4>2, <4>3, <4>4 DEF Cursor
    <3> QED
      BY <3>1, <3>2
  <2>6. InOrder(q)'
    BY <2>1, <2>2, <2>3, <2>4 DEF InOrder
  <2> QED
    BY <2>5, <2>6
<1>7. \A j \in 1..(k - 1) : Passed(p, j)'
  <2> SUFFICES ASSUME NEW j \in 1..(k - 1) PROVE Passed(p, j)'
    OBVIOUS
  <2>1. j \in 1..Len(Group[p]) /\ j # k /\ Passed(p, j)
    BY <1>1
  <2> QED
    BY <1>5, <2>1 DEF Passed, Refused
<1>8. \A j \in (k + 1)..Len(Group[p]) : answers'[Group[p][j]] = <<>>
  BY <1>1, <1>5
<1>9. InOrder(p)'
  <2> SUFFICES ASSUME NEW j \in 2..Len(Group[p]), answers'[Group[p][j]] # <<>>
               PROVE  Passed(p, j - 1)'
    BY DEF InOrder
  <2>1. j <= k
    BY <1>1, <1>8
  <2>2. j - 1 \in 1..(k - 1)
    BY <1>1, <2>1
  <2> QED
    BY <1>7, <2>2
<1>10. CASE After(p, r) = End
  BY <1>3, <1>6, <1>9, <1>10 DEF AskInv, Cursor
<1>11. CASE After(p, r) = <<k, i + 1>> /\ i < Len(Pages)
  <2>1. at'[p] = <<k, i + 1>> /\ i + 1 \in 1..Len(Pages)
    BY <1>1, <1>3, <1>11
  <2>2. Cursor(p)'
    BY <1>1, <1>4, <1>7, <1>8, <2>1, GroupFacts, PageFacts DEF Cursor
  <2> QED
    BY <1>3, <1>6, <1>9, <2>2 DEF AskInv
<1>12. CASE /\ After(p, r) = <<k + 1, 1>> /\ k < Len(Group[p])
            /\ r.kind # "raise" /\ ~NonRetryable(r, Group[p][k + 1])
            /\ i < Len(Pages) => Halts(r, Pages[i], Rpp)
  <2>1. at'[p] = <<k + 1, 1>> /\ k + 1 \in 1..Len(Group[p]) /\ 1 \in 1..Len(Pages)
    BY <1>1, <1>3, <1>12
  <2>2. ~Refused(r, Group[p][k + 1])
    BY <1>12 DEF Refused, NonRetryable
  <2>3. Passed(p, k)'
    BY <1>1, <1>4, <1>12, <2>2 DEF Passed, Refused
  <2>4. \A j \in 1..k : Passed(p, j)'
    BY <1>1, <1>7, <2>3
  <2>5. Len(answers'[Group[p][k + 1]]) = 0 /\ \A j \in (k + 2)..Len(Group[p]) : answers'[Group[p][j]] = <<>>
    BY <1>1, <1>8, <2>1
  <2>6. Cursor(p)'
    BY <1>1, <2>1, <2>4, <2>5, GroupFacts, PageFacts DEF Cursor
  <2> QED
    BY <1>3, <1>6, <1>9, <2>6 DEF AskInv
<1> QED
  BY <1>0, <1>1, <1>10, <1>11, <1>12 DEF After

LEMMA NextAskInv == AskInv /\ [Next]_vars => AskInv'
<1> SUFFICES ASSUME AskInv, [Next]_vars PROVE AskInv'
  OBVIOUS
<1>1. CASE UNCHANGED asking
  <2>1. at' = at /\ answers' = answers
    BY <1>1 DEF asking
  <2>2. ASSUME NEW p \in DOMAIN Group PROVE Cursor(p)' /\ InOrder(p)'
    <3>1. Cursor(p) /\ InOrder(p)
      BY DEF AskInv
    <3>2. Cursor(p)'
      BY <2>1, <3>1 DEF Cursor, Passed, Refused
    <3>3. InOrder(p)'
      BY <2>1, <3>1 DEF InOrder, Passed, Refused
    <3> QED BY <3>2, <3>3
  <2> QED BY <2>1, <2>2 DEF AskInv
<1>2. ASSUME NEW p \in DOMAIN Group, NEW r \in Responses, Fetch(p, r) PROVE AskInv'
  BY <1>2, AskKeeps DEF Fetch
<1>3. ASSUME NEW p \in DOMAIN Group, NEW r \in Responses, Pull(p, r) PROVE AskInv'
  BY <1>3, AskKeeps DEF Pull
<1> QED
  BY <1>1, <1>2, <1>3
     DEF Next, Worker, Caller, StartTask, EndTask, Submit, AllDelivered, Shutdown, Begin,
         Exhausted, NextRound, Deliver, CloseInside, asking, vars

\* Once a provider refuses a query for good, or an exception escapes its
\* search, none of its other queries is sent, and its queries never overlap, in
\* whatever mode and by whichever worker threads the generators are drawn
\* (multisearch_coordinator.py, _process_provider_group).
THEOREM RefusalStopsTheGroup == Spec => []NoQueryAfterRefusal
<1>1. ASSUME AskInv, NEW p \in DOMAIN Group, NEW k \in 2..Len(Group[p]),
             answers[Group[p][k]] # <<>>
      PROVE  LET before == answers[Group[p][k - 1]]
             IN  /\ before # <<>>
                 /\ ~Refused(Last(before), Group[p][k])
                 /\ Len(before) = Len(Pages) \/ Halts(Last(before), Pages[Len(before)], Rpp)
  <2>1. Passed(p, k - 1)
    BY <1>1 DEF AskInv, InOrder
  <2>2. (k - 1) + 1 = k
    BY <1>1
  <2> QED BY <2>1, <2>2 DEF Passed
<1>2. AskInv => NoQueryAfterRefusal
  BY <1>1 DEF NoQueryAfterRefusal
<1> QED
  BY InitAskInv, NextAskInv, <1>2, PTL DEF Spec

----------------------------------------------------------------------------
(* Every query is served *)

\* A query has been asked for all its pages, or for one that halts it.
Ended(p, k) ==
    LET got == answers[Group[p][k]]
    IN  /\ got # <<>>
        /\ Len(got) = Len(Pages) \/ Halts(Last(got), Pages[Len(got)], Rpp)

\* Why the generator of p gives nothing more.
Stopped(p) ==
    at[p] = End /\ Pages # <<>> =>
        \E k \in 1..Len(Group[p]) :
            /\ \A j \in 1..k : Ended(p, j)
            /\ \A j \in (k + 1)..Len(Group[p]) : answers[Group[p][j]] = <<>>
            /\ k < Len(Group[p]) => Refused(Last(answers[Group[p][k]]), Group[p][k + 1])

StopInv ==
    /\ \A p \in DOMAIN Group : Stopped(p)
    /\ \A c \in Coordinators : Len(answers[c]) <= Len(Pages)
    /\ \A c \in Coordinators \ Searched : answers[c] = <<>>

\* What a step of a provider's generator does.
LEMMA AskIs ==
    ASSUME AskInv, NEW p \in DOMAIN Group, NEW r \in Responses, at[p] # End, Ask(p, r)
    PROVE  \E k \in 1..Len(Group[p]), i \in 1..Len(Pages) :
              /\ at[p] = <<k, i>> /\ Len(answers[Group[p][k]]) = i - 1
              /\ \A j \in 1..(k - 1) : Passed(p, j)
              /\ \A j \in (k + 1)..Len(Group[p]) : answers[Group[p][j]] = <<>>
              /\ answers'[Group[p][k]] = Append(answers[Group[p][k]], r)
              /\ \A d \in Coordinators : d # Group[p][k] => answers'[d] = answers[d]
              /\ at'[p] = After(p, r)
              /\ \A q \in DOMAIN Group : q # p => at'[q] = at[q]
              /\ Yielded(p, r) = IF r.kind = "raise" THEN <<>>
                                 ELSE <<SearchResult(Group[p][k], i, r)>>
<1>1. PICK k \in 1..Len(Group[p]), i \in 1..Len(Pages) :
              /\ at[p] = <<k, i>> /\ Len(answers[Group[p][k]]) = i - 1
              /\ \A j \in 1..(k - 1) : Passed(p, j)
              /\ \A j \in (k + 1)..Len(Group[p]) : answers[Group[p][j]] = <<>>
  <2>1. Cursor(p)
    BY DEF AskInv
  <2> QED BY <2>1, GroupFacts, PageFacts DEF Cursor
<1>2. Group[p][k] \in Coordinators
  BY <1>1, GroupFacts
<1>3. /\ answers' = [answers EXCEPT ![Group[p][k]] = Append(@, r)]
      /\ at' = [at EXCEPT ![p] = After(p, r)]
  BY <1>1 DEF Ask
<1>4. /\ answers'[Group[p][k]] = Append(answers[Group[p][k]], r)
      /\ \A d \in Coordinators : d # Group[p][k] => answers'[d] = answers[d]
      /\ at'[p] = After(p, r)
      /\ \A q \in DOMAIN Group : q # p => at'[q] = at[q]
  BY <1>2, <1>3 DEF AskInv
<1>5. Yielded(p, r) = IF r.kind = "raise" THEN <<>> ELSE <<SearchResult(Group[p][k], i, r)>>
  BY <1>1 DEF Yielded
<1> QED BY <1>1, <1>4, <1>5

LEMMA InitStopInv ==
    ASSUME Init
    PROVE  StopInv
<1>1. answers = [c \in Coordinators |-> <<>>] /\ at = [p \in DOMAIN Group |-> First(p)]
  BY DEF Init
<1>2. \A c \in Coordinators : answers[c] = <<>> /\ Len(answers[c]) <= Len(Pages)
  BY <1>1, PageFacts
<1>3. \A p \in DOMAIN Group : Pages # <<>> => at[p] # End
  BY <1>1 DEF First, End
<1> QED BY <1>2, <1>3 DEF StopInv, Stopped

LEMMA AskStops ==
    ASSUME AskInv, StopInv, NEW p \in DOMAIN Group, NEW r \in Responses, at[p] # End, Ask(p, r)
    PROVE  StopInv'
<1>1. PICK k \in 1..Len(Group[p]), i \in 1..Len(Pages) :
         /\ at[p] = <<k, i>> /\ Len(answers[Group[p][k]]) = i - 1
         /\ \A j \in 1..(k - 1) : Passed(p, j)
         /\ \A j \in (k + 1)..Len(Group[p]) : answers[Group[p][j]] = <<>>
         /\ answers'[Group[p][k]] = Append(answers[Group[p][k]], r)
         /\ \A d \in Coordinators : d # Group[p][k] => answers'[d] = answers[d]
         /\ at'[p] = After(p, r)
         /\ \A q \in DOMAIN Group : q # p => at'[q] = at[q]
         /\ Yielded(p, r) = IF r.kind = "raise" THEN <<>>
                            ELSE <<SearchResult(Group[p][k], i, r)>>
  BY AskIs, Zenon
<1> DEFINE c == Group[p][k]
<1>2. /\ Len(Group[p]) \in Nat /\ Len(Pages) \in Nat
      /\ c \in Searched /\ c \in Coordinators /\ answers[c] \in Seq(Responses)
  BY <1>1, GroupFacts, PageFacts DEF AskInv
<1>3. Len(answers'[c]) = i /\ answers'[c] # <<>> /\ Last(answers'[c]) = r
  <2>1. answers'[c] = Append(answers[c], r) /\ Len(answers[c]) = i - 1
    BY <1>1
  <2>2. /\ Len(answers'[c]) = Len(answers[c]) + 1
        /\ answers'[c] # <<>> /\ Last(answers'[c]) = r
    BY <1>2, <2>1, Appended
  <2> QED BY <1>1, <2>1, <2>2
<1>4. \A j \in 1..Len(Group[p]) : j # k => answers'[Group[p][j]] = answers[Group[p][j]]
  BY <1>1, Apart, GroupFacts
<1>5. ASSUME NEW d \in Coordinators
      PROVE  Len(answers'[d]) <= Len(Pages) /\ (d \notin Searched => answers'[d] = <<>>)
  <2>1. CASE d = c
    BY <1>1, <1>2, <1>3, <2>1
  <2>2. CASE d # c
    BY <1>1, <2>2 DEF StopInv
  <2> QED BY <2>1, <2>2
<1>6. ASSUME NEW q \in DOMAIN Group, q # p PROVE Stopped(q)'
  <2>1. \A j \in 1..Len(Group[q]) : answers'[Group[q][j]] = answers[Group[q][j]]
    BY <1>1, <1>6, Apart, GroupFacts
  <2>2. Stopped(q) /\ at'[q] = at[q] /\ Len(Group[q]) \in Nat
    BY <1>1, <1>6, GroupFacts DEF StopInv
  <2>3. CASE at[q] = End /\ Pages # <<>>
    <3>1. PICK m \in 1..Len(Group[q]) :
            /\ \A j \in 1..m : Ended(q, j)
            /\ \A j \in (m + 1)..Len(Group[q]) : answers[Group[q][j]] = <<>>
            /\ m < Len(Group[q]) => Refused(Last(answers[Group[q][m]]), Group[q][m + 1])
      BY <2>2, <2>3 DEF Stopped
    <3>2. \A j \in 1..m : Ended(q, j)'
      <4> SUFFICES ASSUME NEW j \in 1..m PROVE Ended(q, j)'
        OBVIOUS
      <4>1. answers'[Group[q][j]] = answers[Group[q][j]] /\ Ended(q, j)
        BY <2>1, <2>2, <3>1
      <4> QED BY <4>1 DEF Ended
    <3>3. \A j \in (m + 1)..Len(Group[q]) : answers'[Group[q][j]] = <<>>
      BY <2>1, <2>2, <3>1
    <3>4. m < Len(Group[q]) => Refused(Last(answers'[Group[q][m]]), Group[q][m + 1])
      BY <2>1, <3>1
    <3>5. (m < Len(Group[q]) => Refused(Last(answers[Group[q][m]]), Group[q][m + 1]))'
      BY <3>4 DEF Refused
    <3> QED BY <3>1, <3>2, <3>3, <3>5 DEF Stopped
  <2> QED BY <2>2, <2>3 DEF Stopped
<1>7. ASSUME After(p, r) = End
      PROVE  Stopped(p)'
  <2>1. \A j \in 1..(k - 1) : Ended(p, j)'
    <3> SUFFICES ASSUME NEW j \in 1..(k - 1) PROVE Ended(p, j)'
      OBVIOUS
    <3>1. answers'[Group[p][j]] = answers[Group[p][j]] /\ Passed(p, j)
      BY <1>1, <1>2, <1>4
    <3> QED BY <3>1 DEF Passed, Ended
  <2>2. \A j \in (k + 1)..Len(Group[p]) : answers'[Group[p][j]] = <<>>
    BY <1>1, <1>2, <1>4
  <2>3. /\ r.kind = "raise" \/ ~(i < Len(Pages) /\ ~Halts(r, Pages[i], Rpp))
        /\ r.kind = "raise" \/ ~(k < Len(Group[p]) /\ ~NonRetryable(r, Group[p][k + 1]))
    <3>1. <<k, i + 1>> # End /\ <<k + 1, 1>> # End
      BY <1>1 DEF End
    <3> QED BY <1>1, <1>7, <3>1 DEF After
  <2>4. Len(answers'[c]) = Len(Pages) \/ Halts(r, Pages[i], Rpp)
    BY <1>1, <1>2, <1>3, <2>3 DEF Halts
  <2>5. Ended(p, k)'
    BY <1>3, <2>4 DEF Ended
  <2>6. k < Len(Group[p]) => Refused(r, Group[p][k + 1])
    BY <2>3 DEF Refused, NonRetryable
  <2>7. \A j \in 1..k : Ended(p, j)'
    BY <1>1, <2>1, <2>5
  <2>8. (k < Len(Group[p]) => Refused(Last(answers[Group[p][k]]), Group[p][k + 1]))'
    BY <1>3, <2>6 DEF Refused
  <2> QED BY <2>2, <2>7, <2>8 DEF Stopped
<1>8. Stopped(p)'
  BY <1>1, <1>7 DEF Stopped
<1> QED BY <1>5, <1>6, <1>8 DEF StopInv

----------------------------------------------------------------------------
(* What the generators gave, and sequences of it *)

Results == {SearchResult(c, i, r) : c \in Searched, i \in DOMAIN Pages, r \in Responses}

\* s lists results of O, each once, and with each those its provider gave before.
Orderly(s, O) ==
    \A n \in DOMAIN s :
        /\ s[n] \in O
        /\ \A m \in 1..(n - 1) : s[m] # s[n]
        /\ \A e \in O : Earlier(e, s[n]) => \E m \in 1..(n - 1) : s[m] = e

LEMMA ObtainedIs ==
    ASSUME NEW e
    PROVE  e \in Obtained <=>
              \E c \in Coordinators : \E i \in DOMAIN answers[c] :
                  answers[c][i].kind # "raise" /\ e = SearchResult(c, i, answers[c][i])
  BY DEF Obtained

LEMMA ResultIs ==
    ASSUME NEW c, NEW i, NEW r
    PROVE  /\ SearchResult(c, i, r).coordinator = c
           /\ SearchResult(c, i, r).page = Pages[i]
  BY DEF SearchResult

\* A generator gives a new result, which is none of those before and not before
\* any of them.
LEMMA AskObtains ==
    ASSUME AskInv, StopInv, NEW p \in DOMAIN Group, NEW r \in Responses, at[p] # End, Ask(p, r)
    PROVE  \/ Yielded(p, r) = <<>> /\ Obtained' = Obtained
           \/ \E new \in Results :
                 /\ Yielded(p, r) = <<new>> /\ Obtained' = Obtained \cup {new}
                 /\ new \notin Obtained
                 /\ \A e \in Obtained \cup {new} : ~Earlier(new, e)
                 /\ new.coordinator \in ToSet(Group[p]) /\ ProviderOf[new.coordinator] = p
<1>1. PICK k \in 1..Len(Group[p]), i \in 1..Len(Pages) :
         /\ at[p] = <<k, i>> /\ Len(answers[Group[p][k]]) = i - 1
         /\ \A j \in (k + 1)..Len(Group[p]) : answers[Group[p][j]] = <<>>
         /\ answers'[Group[p][k]] = Append(answers[Group[p][k]], r)
         /\ \A d \in Coordinators : d # Group[p][k] => answers'[d] = answers[d]
         /\ Yielded(p, r) = IF r.kind = "raise" THEN <<>>
                            ELSE <<SearchResult(Group[p][k], i, r)>>
  BY AskIs
<1> DEFINE c == Group[p][k]
           new == SearchResult(c, i, r)
<1>2. /\ Len(Group[p]) \in Nat /\ DOMAIN Group[p] = 1..Len(Group[p])
      /\ Len(Pages) \in Nat /\ DOMAIN Pages = 1..Len(Pages)
      /\ c \in Searched /\ c \in Coordinators /\ ProviderOf[c] = p
      /\ answers[c] \in Seq(Responses)
  BY <1>1, GroupFacts, PageFacts DEF AskInv
<1>3. /\ DOMAIN answers[c] = 1..(i - 1) /\ DOMAIN answers'[c] = 1..i
      /\ answers'[c][i] = r /\ \A n \in 1..(i - 1) : answers'[c][n] = answers[c][n]
  <2>1. Len(answers[c]) = i - 1 /\ answers'[c] = Append(answers[c], r)
    BY <1>1
  <2> QED BY <1>1, <1>2, <2>1
<1>4. \A e : e \in Obtained' <=>
              \E d \in Coordinators : \E n \in DOMAIN answers'[d] :
                  answers'[d][n].kind # "raise" /\ e = SearchResult(d, n, answers'[d][n])
  BY DEF Obtained, SearchResult
<1>5. \A e : e \in Obtained <=>
              \E d \in Coordinators : \E n \in DOMAIN answers[d] :
                  answers[d][n].kind # "raise" /\ e = SearchResult(d, n, answers[d][n])
  BY ObtainedIs
<1>6. \A e : e \in Obtained' <=> e \in Obtained \/ (r.kind # "raise" /\ e = new)
  <2>1. ASSUME NEW e \in Obtained PROVE e \in Obtained'
    <3>1. PICK d \in Coordinators : \E n \in DOMAIN answers[d] :
             answers[d][n].kind # "raise" /\ e = SearchResult(d, n, answers[d][n])
      BY <1>5, <2>1
    <3>2. PICK n \in DOMAIN answers[d] :
             answers[d][n].kind # "raise" /\ e = SearchResult(d, n, answers[d][n])
      BY <3>1
    <3>3. CASE d = c
      <4>1. n \in 1..(i - 1)
        BY <1>3, <3>2, <3>3
      <4>2. n \in 1..i /\ answers'[c][n] = answers[c][n]
        BY <1>1, <1>3, <4>1
      <4>3. n \in DOMAIN answers'[c]
        BY <1>3, <4>2
      <4> QED BY <1>2, <1>4, <3>2, <3>3, <4>2, <4>3
    <3>4. CASE d # c
      <4>1. answers'[d] = answers[d]
        BY <1>1, <3>4
      <4> QED BY <1>4, <3>2, <4>1
    <3> QED BY <3>3, <3>4
  <2>2. ASSUME r.kind # "raise" PROVE new \in Obtained'
    <3>1. i \in DOMAIN answers'[c] /\ answers'[c][i] = r
      BY <1>1, <1>3
    <3> QED BY <1>2, <1>4, <2>2, <3>1
  <2>3. ASSUME NEW e \in Obtained' PROVE e \in Obtained \/ (r.kind # "raise" /\ e = new)
    <3>1. PICK d \in Coordinators : \E n \in DOMAIN answers'[d] :
             answers'[d][n].kind # "raise" /\ e = SearchResult(d, n, answers'[d][n])
      BY <1>4, <2>3
    <3>2. PICK n \in DOMAIN answers'[d] :
             answers'[d][n].kind # "raise" /\ e = SearchResult(d, n, answers'[d][n])
      BY <3>1
    <3>3. CASE d = c /\ n = i
      BY <1>3, <3>2, <3>3
    <3>4. CASE ~(d = c /\ n = i)
      <4>1. n \in DOMAIN answers[d] /\ answers'[d][n] = answers[d][n]
        BY <1>1, <1>3, <3>4
      <4> QED BY <1>5, <3>2, <4>1
    <3> QED BY <3>3, <3>4
  <2> QED BY <2>1, <2>2, <2>3
<1>7. /\ \A m, n \in 1..Len(Pages) : m < n => Pages[m] < Pages[n]
      /\ \A m \in 1..Len(Pages) : Pages[m] \in Int
  <2>1. \A m, n \in DOMAIN Pages : m < n => Pages[m] < Pages[n]
    BY MultiAssumption
  <2>2. Pages \in Seq(Int)
    BY MultiAssumption
  <2>3. \A m \in 1..Len(Pages) : Pages[m] \in Int
    BY <1>2, <2>2
  <2> QED BY <1>2, <2>1, <2>3
<1>8. ASSUME NEW e \in Obtained PROVE new # e /\ ~Earlier(new, e)
  <2>1. PICK d \in Coordinators : \E n \in DOMAIN answers[d] :
           e = SearchResult(d, n, answers[d][n])
    BY <1>5, <1>8
  <2>2. PICK n \in DOMAIN answers[d] : e = SearchResult(d, n, answers[d][n])
    BY <2>1
  <2>3. e.coordinator = d /\ e.page = Pages[n] /\ new.coordinator = c /\ new.page = Pages[i]
    BY <2>2, ResultIs
  <2>4. d = c => Pages[n] < Pages[i] /\ Pages[n] \in Int /\ Pages[i] \in Int
    <3>1. d = c => n \in 1..(i - 1)
      BY <1>3, <2>2
    <3> QED BY <1>1, <1>2, <1>7, <3>1
  <2>5. ASSUME Earlier(new, e) PROVE FALSE
    <3>0. PICK q \in DOMAIN Group : \E j, m \in DOMAIN Group[q] :
             /\ Group[q][j] = c /\ Group[q][m] = d
             /\ j < m \/ (j = m /\ Pages[i] < Pages[n])
      BY <2>3, <2>5 DEF Earlier
    <3>1. PICK j \in DOMAIN Group[q], m \in DOMAIN Group[q] :
             /\ Group[q][j] = c /\ Group[q][m] = d
             /\ j < m \/ (j = m /\ Pages[i] < Pages[n])
      BY <3>0
    <3>2. q = p /\ j = k
      BY <1>1, <1>2, <3>1, Apart
    <3>3. m > k => answers[d] = <<>>
      BY <1>1, <1>2, <3>1, <3>2
    <3>4. DOMAIN answers[d] # {}
      BY <2>2
    <3>5. m = k
      BY <1>2, <3>1, <3>2, <3>3, <3>4
    <3> QED BY <2>4, <3>1, <3>2, <3>5
  <2> QED BY <2>3, <2>4, <2>5
<1>9. ~Earlier(new, new)
  <2>1. new.coordinator = c /\ new.page = Pages[i] /\ Pages[i] \in Int
    BY <1>1, <1>7, ResultIs
  <2>2. SUFFICES ASSUME NEW q \in DOMAIN Group, NEW j \in DOMAIN Group[q],
                        NEW m \in DOMAIN Group[q],
                        Group[q][j] = c, Group[q][m] = c
                 PROVE  ~(j < m \/ (j = m /\ Pages[i] < Pages[i]))
    BY <2>1 DEF Earlier
  <2>3. j = m /\ j \in Nat
    BY <2>2, Apart, GroupFacts
  <2> QED BY <2>1, <2>3
<1>10. new \in Results /\ new.coordinator = c /\ c \in ToSet(Group[p])
  BY <1>1, <1>2, ResultIs DEF Results, ToSet
<1>11. CASE r.kind = "raise"
  BY <1>1, <1>6, <1>11
<1>12. CASE r.kind # "raise"
  <2>1. Yielded(p, r) = <<new>> /\ Obtained' = Obtained \cup {new}
    BY <1>1, <1>6, <1>12
  <2> HIDE DEF new
  <2> QED BY <1>2, <1>8, <1>9, <1>10, <2>1
<1> QED BY <1>11, <1>12

LEMMA OrderlyGrows ==
    ASSUME NEW s, NEW O, NEW new, Orderly(s, O), \A e \in O : ~Earlier(new, e)
    PROVE  Orderly(s, O \cup {new})
  BY DEF Orderly

LEMMA OrderlyAppend ==
    ASSUME NEW O, NEW new \in Results, NEW s \in Seq(Results), Orderly(s, O), new \notin O,
           \A e \in O \cup {new} : ~Earlier(new, e),
           \A e \in O : Earlier(e, new) => e \in ToSet(s)
    PROVE  Orderly(s \o <<new>>, O \cup {new})
<1> DEFINE t == s \o <<new>>
           N == Len(s) + 1
<1>1. /\ Len(s) \in Nat /\ DOMAIN s = 1..Len(s) /\ DOMAIN t = 1..N
      /\ t[N] = new /\ \A n \in 1..Len(s) : t[n] = s[n]
  OBVIOUS
<1> HIDE DEF t
<1>2. ASSUME NEW n \in 1..Len(s)
      PROVE  /\ t[n] \in O \cup {new}
             /\ \A m \in 1..(n - 1) : t[m] # t[n]
             /\ \A e \in O \cup {new} : Earlier(e, t[n]) => \E m \in 1..(n - 1) : t[m] = e
  <2>1. /\ s[n] \in O /\ \A m \in 1..(n - 1) : s[m] # s[n]
        /\ \A e \in O : Earlier(e, s[n]) => \E m \in 1..(n - 1) : s[m] = e
    BY <1>1, <1>2 DEF Orderly
  <2>2. t[n] = s[n] /\ \A m \in 1..(n - 1) : t[m] = s[m]
    BY <1>1, <1>2
  <2> QED BY <2>1, <2>2
<1>3. /\ t[N] \in O \cup {new}
      /\ \A m \in 1..(N - 1) : t[m] # t[N]
      /\ \A e \in O \cup {new} : Earlier(e, t[N]) => \E m \in 1..(N - 1) : t[m] = e
  <2>1. \A m \in 1..Len(s) : s[m] \in O
    BY <1>1 DEF Orderly
  <2>2. N - 1 = Len(s)
    BY <1>1
  <2>3. \A e \in O \cup {new} : Earlier(e, new) => \E m \in 1..Len(s) : s[m] = e
    BY <1>1 DEF ToSet
  <2> QED BY <1>1, <2>1, <2>2, <2>3
<1>4. \A n \in DOMAIN t : n \in 1..Len(s) \/ n = N
  BY <1>1
<1>5. Orderly(t, O \cup {new})
  BY <1>2, <1>3, <1>4 DEF Orderly
<1> QED BY <1>5 DEF t

LEMMA OrderlyConcat ==
    ASSUME NEW O, NEW s \in Seq(Results), NEW t \in Seq(Results),
           Orderly(s, O), Orderly(t, O), \A m \in DOMAIN s, n \in DOMAIN t : s[m] # t[n]
    PROVE  Orderly(s \o t, O)
<1> DEFINE u == s \o t
           L == Len(s)
<1>1. /\ L \in Nat /\ DOMAIN s = 1..L /\ Len(t) \in Nat /\ DOMAIN t = 1..Len(t)
      /\ DOMAIN u = 1..(L + Len(t))
      /\ \A n \in 1..L : u[n] = s[n]
      /\ \A n \in 1..Len(t) : u[L + n] = t[n]
  OBVIOUS
<1> HIDE DEF u, L
<1>2. ASSUME NEW n \in 1..L
      PROVE  /\ u[n] \in O
             /\ \A m \in 1..(n - 1) : u[m] # u[n]
             /\ \A e \in O : Earlier(e, u[n]) => \E m \in 1..(n - 1) : u[m] = e
  <2>1. /\ s[n] \in O /\ \A m \in 1..(n - 1) : s[m] # s[n]
        /\ \A e \in O : Earlier(e, s[n]) => \E m \in 1..(n - 1) : s[m] = e
    BY <1>1, <1>2 DEF Orderly
  <2>2. u[n] = s[n] /\ \A m \in 1..(n - 1) : u[m] = s[m]
    BY <1>1, <1>2
  <2> QED BY <2>1, <2>2
<1>3. ASSUME NEW k \in 1..Len(t), NEW n, n = L + k
      PROVE  /\ u[n] \in O
             /\ \A m \in 1..(n - 1) : u[m] # u[n]
             /\ \A e \in O : Earlier(e, u[n]) => \E m \in 1..(n - 1) : u[m] = e
  <2>1. /\ t[k] \in O /\ \A m \in 1..(k - 1) : t[m] # t[k]
        /\ \A e \in O : Earlier(e, t[k]) => \E m \in 1..(k - 1) : t[m] = e
    BY <1>1, <1>3 DEF Orderly
  <2>2. u[n] = t[k] /\ \A m \in 1..(k - 1) : u[L + m] = t[m] /\ L + m \in 1..(n - 1)
    BY <1>1, <1>3
  <2>3. ASSUME NEW m \in 1..(n - 1) PROVE u[m] # u[n]
    <3>1. CASE m \in 1..L
      BY <1>1, <1>3, <2>2, <3>1
    <3>2. CASE m \notin 1..L
      <4>1. m - L \in 1..(k - 1) /\ L + (m - L) = m
        BY <1>1, <1>3, <2>3, <3>2
      <4> QED BY <2>1, <2>2, <4>1
    <3> QED BY <3>1, <3>2
  <2>4. \A e \in O : Earlier(e, u[n]) => \E m \in 1..(n - 1) : u[m] = e
    BY <2>1, <2>2
  <2> QED BY <2>1, <2>2, <2>3, <2>4
<1>4. \A n \in DOMAIN u : n \in 1..L \/ (n - L \in 1..Len(t) /\ n = L + (n - L))
  BY <1>1
<1>5. Orderly(u, O)
  BY <1>2, <1>3, <1>4 DEF Orderly
<1> QED BY <1>5 DEF u

LEMMA OrderlyPrefix ==
    ASSUME NEW O, NEW t \in Seq(Results), NEW n \in 1..Len(t), Orderly(t, O)
    PROVE  /\ SubSeq(t, 1, n) \in Seq(Results) /\ Orderly(SubSeq(t, 1, n), O)
           /\ DOMAIN SubSeq(t, 1, n) \subseteq DOMAIN t
           /\ \A m \in DOMAIN SubSeq(t, 1, n) : SubSeq(t, 1, n)[m] = t[m]
<1> DEFINE u == SubSeq(t, 1, n)
<1>1. /\ u \in Seq(Results) /\ DOMAIN u = 1..n
      /\ \A m \in 1..n : u[m] = t[m]
  OBVIOUS
<1>2. DOMAIN t = 1..Len(t) /\ Len(t) \in Nat
  OBVIOUS
<1> HIDE DEF u
<1>3. ASSUME NEW k \in DOMAIN u
      PROVE  /\ u[k] \in O
             /\ \A m \in 1..(k - 1) : u[m] # u[k]
             /\ \A e \in O : Earlier(e, u[k]) => \E m \in 1..(k - 1) : u[m] = e
  <2>1. k \in DOMAIN t /\ u[k] = t[k] /\ \A m \in 1..(k - 1) : u[m] = t[m]
    BY <1>1, <1>2, <1>3
  <2>2. /\ t[k] \in O
        /\ \A m \in 1..(k - 1) : t[m] # t[k]
        /\ \A e \in O : Earlier(e, t[k]) => \E m \in 1..(k - 1) : t[m] = e
    BY <2>1 DEF Orderly
  <2> QED BY <2>1, <2>2
<1>4. Orderly(u, O)
  BY <1>3 DEF Orderly
<1>5. DOMAIN u \subseteq DOMAIN t
  BY <1>1, <1>2
<1> QED BY <1>1, <1>4, <1>5 DEF u

----------------------------------------------------------------------------
(* Tasks, rounds and what the caller has received *)

Types ==
    /\ mode \in Modes /\ max_workers \in WorkerInputs \cup {NoLimit}
    /\ caller \in {"start", "running", "closing", "done"} /\ closed \in BOOLEAN
    /\ queue \in Seq(DOMAIN Group) /\ working \subseteq DOMAIN Group /\ finished \subseteq DOMAIN Group
    /\ due \cup exhausted \subseteq active /\ active \subseteq DOMAIN Group
    /\ received \in Seq(Results) /\ buffer \in [DOMAIN Group -> Seq(Results)]

\* What a task's list, and the caller, have of the results.
Delivery ==
    /\ Orderly(received, Obtained)
    /\ \A p \in DOMAIN Group :
          /\ Orderly(buffer[p], Obtained)
          /\ \A n \in DOMAIN buffer[p] : ProviderOf[buffer[p][n].coordinator] = p
    /\ mode = "threaded" =>
          \A e \in Obtained : \E p \in DOMAIN Group :
              ProviderOf[e.coordinator] = p /\ e \in ToSet(buffer[p])
    /\ mode # "threaded" => Obtained \subseteq ToSet(received)

\* The providers whose tasks have not finished.
Open == ToSet(queue) \cup working

\* Every task is queued, at work, finished or delivered.
Tasks ==
    /\ \A i, j \in DOMAIN queue : queue[i] = queue[j] => i = j
    /\ ToSet(queue) \cap working = {} /\ Open \cap finished = {}
    /\ caller = "start" => queue = <<>> /\ working = {} /\ finished = {} /\ received = <<>>
    /\ caller \in {"start", "running"} =>
          \A p \in Open \cup finished : \A n \in DOMAIN received :
              ProviderOf[received[n].coordinator] # p
    /\ caller = "done" => queue = <<>> /\ working = {}
    /\ mode = "threaded" =>
          /\ active = {}
          /\ caller # "start" =>
                /\ \A p \in DOMAIN Group \ Open : at[p] = End
                /\ \A p \in DOMAIN Group \ (Open \cup finished) :
                      ToSet(buffer[p]) \subseteq ToSet(received)
          /\ caller \in {"closing", "done"} /\ ~closed =>
                queue = <<>> /\ working = {} /\ finished = {}

\* The sequential modes draw from the active generators until all have stopped.
Rounds ==
    /\ \A p \in exhausted : at[p] = End
    /\ mode # "threaded" =>
          /\ queue = <<>> /\ working = {} /\ finished = {} /\ caller # "closing"
          /\ caller # "start" => \A p \in DOMAIN Group \ active : at[p] = End
          /\ caller = "done" /\ ~closed => active = {}

IInv == AskInv /\ StopInv /\ Types /\ Delivery /\ Tasks /\ Rounds

LEMMA ProviderFacts ==
    /\ Providers \in Seq(DOMAIN Group) /\ ToSet(Providers) = DOMAIN Group
    /\ \A i, j \in DOMAIN Providers : Providers[i] = Providers[j] => i = j
  BY GroupAssumption DEF IsInjective

LEMMA Initially ==
    ASSUME Init PROVE IInv
<1>1. AskInv /\ StopInv
  BY InitAskInv, InitStopInv
<1>2. Obtained = {}
  BY ObtainedIs DEF Init
<1>3. Types
  <2>1. mode \in Modes /\ max_workers \in WorkerInputs \cup {NoLimit}
    BY DEF Init
  <2>2. <<>> \in Seq(Results) /\ <<>> \in Seq(DOMAIN Group)
    OBVIOUS
  <2>3. buffer \in [DOMAIN Group -> Seq(Results)]
    BY <2>2 DEF Init
  <2> QED BY <2>1, <2>2, <2>3 DEF Init, Types
<1>4. Delivery
  <2>1. received = <<>> /\ \A p \in DOMAIN Group : buffer[p] = <<>>
    BY DEF Init
  <2> QED BY <1>2, <2>1 DEF Delivery, Orderly
<1>5. Open = {}
  BY DEF Init, Open, ToSet
<1>6. Tasks
  BY <1>5 DEF Init, Tasks
<1>7. Rounds
  BY DEF Init, Rounds
<1> QED BY <1>1, <1>3, <1>4, <1>6, <1>7 DEF IInv

\* Nothing is obtained but by asking.
LEMMA NothingAsked ==
    ASSUME IInv, UNCHANGED asking
    PROVE  AskInv' /\ StopInv' /\ Obtained' = Obtained
<1>1. AskInv'
  BY DEF IInv, AskInv, Cursor, InOrder, Passed, Refused, asking
<1>2. StopInv'
  BY DEF IInv, StopInv, Stopped, Ended, Refused, asking
<1>3. Obtained' = Obtained
  BY DEF Obtained, SearchResult, asking
<1> QED BY <1>1, <1>2, <1>3

\* The head of the queue leaves it for good.
LEMMA TailOfQueue ==
    ASSUME NEW S, NEW s \in Seq(S), s # <<>>, \A i, j \in DOMAIN s : s[i] = s[j] => i = j
    PROVE  /\ Head(s) \in S /\ Tail(s) \in Seq(S)
           /\ ToSet(s) = ToSet(Tail(s)) \cup {Head(s)} /\ Head(s) \notin ToSet(Tail(s))
           /\ \A i, j \in DOMAIN Tail(s) : Tail(s)[i] = Tail(s)[j] => i = j
<1> DEFINE t == Tail(s)
<1>1. /\ Len(s) \in Nat \ {0} /\ DOMAIN s = 1..Len(s) /\ Head(s) = s[1] /\ Head(s) \in S
      /\ t \in Seq(S) /\ DOMAIN t = 1..(Len(s) - 1)
      /\ \A i \in 1..(Len(s) - 1) : t[i] = s[i + 1]
  BY HeadTailProperties
<1> HIDE DEF t
<1>2. \A i, j \in DOMAIN t : t[i] = t[j] => i = j
  <2> SUFFICES ASSUME NEW i \in DOMAIN t, NEW j \in DOMAIN t, t[i] = t[j] PROVE i = j
    OBVIOUS
  <2>1. i + 1 \in DOMAIN s /\ j + 1 \in DOMAIN s /\ s[i + 1] = s[j + 1]
    BY <1>1
  <2>2. i + 1 = j + 1
    BY <2>1
  <2> QED BY <1>1, <2>2
<1>3. Head(s) \notin ToSet(t)
  <2> SUFFICES ASSUME NEW i \in DOMAIN t, t[i] = Head(s) PROVE FALSE
    BY DEF ToSet
  <2>1. 1 \in DOMAIN s /\ i + 1 \in DOMAIN s /\ s[i + 1] = s[1] /\ i + 1 # 1
    BY <1>1
  <2> QED BY <2>1
<1>4. ToSet(s) = ToSet(t) \cup {Head(s)}
  <2>1. ASSUME NEW i \in DOMAIN s PROVE s[i] \in ToSet(t) \cup {Head(s)}
    <3>1. CASE i = 1
      BY <1>1, <3>1
    <3>2. CASE i # 1
      <4>1. i - 1 \in DOMAIN t /\ t[i - 1] = s[i]
        BY <1>1, <2>1, <3>2
      <4> QED BY <4>1 DEF ToSet
    <3> QED BY <3>1, <3>2
  <2>2. ASSUME NEW i \in DOMAIN t PROVE t[i] \in ToSet(s)
    <3>1. i + 1 \in DOMAIN s /\ t[i] = s[i + 1]
      BY <1>1
    <3> QED BY <3>1 DEF ToSet
  <2>3. Head(s) \in ToSet(s)
    BY <1>1 DEF ToSet
  <2> QED BY <2>1, <2>2, <2>3 DEF ToSet
<1> QED BY <1>1, <1>2, <1>3, <1>4 DEF t

----------------------------------------------------------------------------
(* The steps of the threaded mode *)

LEMMA SubmitKeeps ==
    ASSUME IInv, Submit PROVE IInv'
<1>1. AskInv' /\ StopInv' /\ Obtained' = Obtained
  BY NothingAsked DEF Submit
<1>2. /\ caller = "start" /\ mode = "threaded" /\ caller' = "running" /\ queue' = Providers
      /\ UNCHANGED <<arguments, asking, working, buffer, finished, rounds, received, closed>>
  BY DEF Submit
<1>3. /\ queue = <<>> /\ working = {} /\ finished = {} /\ received = <<>> /\ active = {}
  BY <1>2 DEF IInv, Tasks
<1>4. Types'
  BY <1>2, ProviderFacts DEF IInv, Types, arguments, rounds
<1>5. Delivery'
  BY <1>1, <1>2 DEF IInv, Delivery, arguments
<1>6. Open' = DOMAIN Group
  BY <1>2, <1>3, ProviderFacts DEF Open
<1>7. Tasks'
  <2>1. \A i, j \in DOMAIN queue' : queue'[i] = queue'[j] => i = j
    BY <1>2, ProviderFacts
  <2>2. ToSet(queue)' \cap working' = {} /\ Open' \cap finished' = {} /\ received' = <<>>
    BY <1>2, <1>3
  <2>3. caller' = "running" /\ active' = {}
    BY <1>2, <1>3 DEF rounds
  <2> QED BY <1>6, <2>1, <2>2, <2>3 DEF Tasks
<1>8. Rounds'
  BY <1>2 DEF IInv, Rounds, arguments, rounds, asking
<1> QED BY <1>1, <1>4, <1>5, <1>7, <1>8 DEF IInv

LEMMA StartTaskKeeps ==
    ASSUME IInv, StartTask PROVE IInv'
<1>1. AskInv' /\ StopInv' /\ Obtained' = Obtained
  BY NothingAsked DEF StartTask
<1>2. /\ queue # <<>> /\ working' = working \cup {Head(queue)} /\ queue' = Tail(queue)
      /\ UNCHANGED <<arguments, caller, asking, buffer, finished, rounds, received, closed>>
  BY DEF StartTask
<1>3. /\ Head(queue) \in DOMAIN Group /\ Tail(queue) \in Seq(DOMAIN Group)
      /\ ToSet(queue) = ToSet(Tail(queue)) \cup {Head(queue)}
      /\ Head(queue) \notin ToSet(Tail(queue))
      /\ \A i, j \in DOMAIN Tail(queue) : Tail(queue)[i] = Tail(queue)[j] => i = j
  BY <1>2, TailOfQueue DEF IInv, Types, Tasks
<1>4. Types'
  BY <1>2, <1>3 DEF IInv, Types, arguments, rounds
<1>5. Delivery'
  BY <1>1, <1>2 DEF IInv, Delivery, arguments
<1>6. Open' = Open
  BY <1>2, <1>3 DEF Open
<1>7. caller \notin {"start", "done"} /\ mode = "threaded" /\ ~(caller = "closing" /\ ~closed)
  BY <1>2 DEF IInv, Tasks, Rounds, Types
<1>8. Tasks'
  <2>1. ToSet(queue)' \cap working' = {}
    BY <1>2, <1>3 DEF IInv, Tasks
  <2>2. at' = at
    BY <1>2 DEF asking
  <2>3. \A i, j \in DOMAIN queue' : queue'[i] = queue'[j] => i = j
    BY <1>2, <1>3
  <2> QED BY <1>2, <1>6, <1>7, <2>1, <2>2, <2>3 DEF IInv, Tasks, arguments, rounds
<1>9. Rounds'
  BY <1>2, <1>7 DEF IInv, Rounds, arguments, rounds, asking
<1> QED BY <1>1, <1>4, <1>5, <1>8, <1>9 DEF IInv

LEMMA EndTaskKeeps ==
    ASSUME IInv, NEW p \in DOMAIN Group, EndTask(p) PROVE IInv'
<1>1. AskInv' /\ StopInv' /\ Obtained' = Obtained
  BY NothingAsked DEF EndTask
<1>2. /\ p \in working /\ at[p] = End
      /\ working' = working \ {p} /\ finished' = finished \cup {p}
      /\ UNCHANGED <<arguments, caller, asking, queue, buffer, rounds, received, closed>>
  BY DEF EndTask
<1>3. Types'
  BY <1>2 DEF IInv, Types, arguments, rounds
<1>4. Delivery'
  BY <1>1, <1>2 DEF IInv, Delivery, arguments
<1>5. Open' = Open \ {p} /\ p \in Open
  BY <1>2 DEF Open, IInv, Tasks
<1>6. caller \notin {"start", "done"} /\ mode = "threaded" /\ ~(caller = "closing" /\ ~closed)
  BY <1>2 DEF IInv, Tasks, Rounds, Types
<1>7. Tasks'
  <2>1. ToSet(queue)' \cap working' = {} /\ Open' \cap finished' = {}
    BY <1>2, <1>5 DEF IInv, Tasks
  <2>2. \A q \in DOMAIN Group \ Open' : at'[q] = End
    BY <1>2, <1>5, <1>6 DEF IInv, Tasks, asking
  <2>3. Open' \cup finished' = Open \cup finished
    BY <1>2, <1>5
  <2> QED BY <1>2, <1>6, <2>1, <2>2, <2>3 DEF IInv, Tasks, arguments, rounds
<1>8. Rounds'
  BY <1>2, <1>6 DEF IInv, Rounds, arguments, rounds, asking
<1> QED BY <1>1, <1>3, <1>4, <1>7, <1>8 DEF IInv

\* A result's place in the list of its task.
LEMMA FetchKeeps ==
    ASSUME IInv, NEW p \in DOMAIN Group, NEW r \in Responses, Fetch(p, r) PROVE IInv'
<1>1. /\ p \in working /\ at[p] # End /\ Ask(p, r)
      /\ buffer' = [buffer EXCEPT ![p] = @ \o Yielded(p, r)]
      /\ UNCHANGED <<arguments, caller, queue, working, finished, rounds, received, closed>>
  BY DEF Fetch
<1>2. AskInv' /\ StopInv'
  BY <1>1, AskKeeps, AskStops DEF IInv
<1>3. \A q \in DOMAIN Group : q # p => at'[q] = at[q]
  BY <1>1 DEF Ask
<1>4. buffer \in [DOMAIN Group -> Seq(Results)] /\ received \in Seq(Results)
  BY DEF IInv, Types
<1>5. caller \notin {"start", "done"} /\ mode = "threaded" /\ ~(caller = "closing" /\ ~closed)
      /\ p \in Open
  BY <1>1 DEF IInv, Tasks, Rounds, Types, Open
<1>6. /\ buffer'[p] = buffer[p] \o Yielded(p, r)
      /\ \A q \in DOMAIN Group : q # p => buffer'[q] = buffer[q]
  BY <1>1, <1>4
<1>7. Types' /\ Delivery'
  <2>1. CASE Yielded(p, r) = <<>> /\ Obtained' = Obtained
    <3>1. buffer' = buffer
      <4>1. buffer[p] \o <<>> = buffer[p]
        BY <1>4
      <4> QED BY <1>1, <1>4, <2>1, <4>1
    <3> QED BY <1>1, <2>1, <3>1 DEF IInv, Types, Delivery, arguments, rounds
  <2>2. ASSUME NEW new \in Results,
               Yielded(p, r) = <<new>>, Obtained' = Obtained \cup {new}, new \notin Obtained,
               \A e \in Obtained \cup {new} : ~Earlier(new, e),
               new.coordinator \in ToSet(Group[p]), ProviderOf[new.coordinator] = p
        PROVE  Types' /\ Delivery'
    <3>1. buffer[p] \in Seq(Results) /\ buffer'[p] = buffer[p] \o <<new>>
      BY <1>4, <1>6, <2>2
    <3>2. /\ buffer'[p] \in Seq(Results)
          /\ DOMAIN buffer'[p] = 1..(Len(buffer[p]) + 1)
          /\ DOMAIN buffer[p] = 1..Len(buffer[p]) /\ Len(buffer[p]) \in Nat
          /\ buffer'[p][Len(buffer[p]) + 1] = new
          /\ \A n \in 1..Len(buffer[p]) : buffer'[p][n] = buffer[p][n]
      BY <3>1
    <3>3. Types'
      BY <1>1, <1>4, <1>6, <3>2 DEF IInv, Types, arguments, rounds
    <3>4. \A e \in Obtained : Earlier(e, new) => e \in ToSet(buffer[p])
      <4> SUFFICES ASSUME NEW e \in Obtained, Earlier(e, new) PROVE e \in ToSet(buffer[p])
        OBVIOUS
      <4>1. PICK q \in DOMAIN Group : \E j, k \in DOMAIN Group[q] :
               Group[q][j] = e.coordinator /\ Group[q][k] = new.coordinator
        BY DEF Earlier
      <4>2. ProviderOf[e.coordinator] = q /\ ProviderOf[new.coordinator] = q
        BY <4>1, GroupFacts
      <4> QED BY <1>5, <2>2, <4>2 DEF IInv, Delivery
    <3>5. Orderly(buffer'[p], Obtained')
      <4>1. Orderly(buffer[p], Obtained)
        BY DEF IInv, Delivery
      <4> QED BY <2>2, <3>1, <3>4, <4>1, OrderlyAppend
    <3>6. Orderly(received', Obtained')
      <4>1. Orderly(received, Obtained) /\ received' = received
        BY <1>1 DEF IInv, Delivery
      <4> QED BY <2>2, <4>1, OrderlyGrows
    <3>7. ASSUME NEW q \in DOMAIN Group
          PROVE  /\ Orderly(buffer'[q], Obtained')
                 /\ \A n \in DOMAIN buffer'[q] : ProviderOf[buffer'[q][n].coordinator] = q
      <4>1. Orderly(buffer[q], Obtained)
            /\ \A n \in DOMAIN buffer[q] : ProviderOf[buffer[q][n].coordinator] = q
        BY DEF IInv, Delivery
      <4>2. CASE q = p
        <5>1. ASSUME NEW n \in DOMAIN buffer'[p]
              PROVE  ProviderOf[buffer'[p][n].coordinator] = p
          <6>1. n \in DOMAIN buffer[p] \/ n = Len(buffer[p]) + 1
            BY <3>2
          <6>2. CASE n \in DOMAIN buffer[p]
            <7>1. buffer'[p][n] = buffer[p][n]
              BY <3>2, <6>2
            <7> QED BY <4>1, <4>2, <6>2, <7>1
          <6>3. CASE n = Len(buffer[p]) + 1
            <7>1. buffer'[p][n] = new
              BY <3>2, <6>3
            <7> QED BY <2>2, <7>1
          <6> QED BY <6>1, <6>2, <6>3
        <5> QED BY <3>5, <4>2, <5>1
      <4>3. CASE q # p
        <5>1. Orderly(buffer[q], Obtained')
          BY <2>2, <4>1, OrderlyGrows
        <5> QED BY <1>6, <4>1, <4>3, <5>1
      <4> QED BY <4>2, <4>3
    <3>8. ASSUME NEW e \in Obtained'
          PROVE  \E q \in DOMAIN Group : ProviderOf[e.coordinator] = q /\ e \in ToSet(buffer'[q])
      <4>1. CASE e = new
        <5>1. new \in ToSet(buffer'[p])
          <6>1. Len(buffer[p]) + 1 \in DOMAIN buffer'[p]
            BY <3>2
          <6> QED BY <3>2, <6>1 DEF ToSet
        <5> QED BY <2>2, <4>1, <5>1
      <4>2. CASE e \in Obtained
        <5>1. PICK q \in DOMAIN Group : ProviderOf[e.coordinator] = q /\ e \in ToSet(buffer[q])
          BY <1>5, <4>2 DEF IInv, Delivery
        <5>2. ToSet(buffer[q]) \subseteq ToSet(buffer'[q])
          <6>1. CASE q # p
            BY <1>6, <6>1
          <6>2. CASE q = p
            <7>1. \A n \in DOMAIN buffer[p] : n \in DOMAIN buffer'[p] /\ buffer'[p][n] = buffer[p][n]
              BY <3>2
            <7> QED BY <6>2, <7>1 DEF ToSet
          <6> QED BY <6>1, <6>2
        <5> QED BY <5>1, <5>2
      <4> QED BY <2>2, <4>1, <4>2
    <3>9. mode' = "threaded"
      BY <1>1, <1>5 DEF arguments
    <3> QED BY <3>3, <3>6, <3>7, <3>8, <3>9 DEF Delivery
  <2> QED BY <1>1, <2>1, <2>2, AskObtains DEF IInv
<1>8. Open' = Open
  BY <1>1 DEF Open
<1>9. Tasks'
  <2>1. \A q \in DOMAIN Group \ Open : at'[q] = End
    BY <1>3, <1>5 DEF IInv, Tasks
  <2>2. \A q \in DOMAIN Group \ (Open \cup finished) : ToSet(buffer'[q]) \subseteq ToSet(received)
    BY <1>5, <1>6 DEF IInv, Tasks
  <2> QED BY <1>1, <1>5, <1>8, <2>1, <2>2 DEF IInv, Tasks, arguments, rounds
<1>10. Rounds'
  <2>1. exhausted = {}
    BY <1>5 DEF IInv, Tasks, Types
  <2> QED BY <1>1, <1>5, <2>1 DEF Rounds, arguments, rounds
<1> QED BY <1>2, <1>7, <1>9, <1>10 DEF IInv

LEMMA Concat ==
    ASSUME NEW S, NEW s \in Seq(S), NEW t \in Seq(S)
    PROVE  /\ s \o t \in Seq(S)
           /\ ToSet(s) \subseteq ToSet(s \o t) /\ ToSet(t) \subseteq ToSet(s \o t)
           /\ \A n \in DOMAIN (s \o t) : \/ \E m \in DOMAIN s : (s \o t)[n] = s[m]
                                         \/ \E m \in DOMAIN t : (s \o t)[n] = t[m]
<1> DEFINE u == s \o t
           L == Len(s)
<1>1. /\ u \in Seq(S) /\ L \in Nat /\ DOMAIN s = 1..L
      /\ Len(t) \in Nat /\ DOMAIN t = 1..Len(t) /\ DOMAIN u = 1..(L + Len(t))
      /\ \A n \in 1..L : u[n] = s[n]
      /\ \A n \in 1..Len(t) : u[L + n] = t[n]
  OBVIOUS
<1> HIDE DEF u, L
<1>2. ASSUME NEW n \in DOMAIN u
      PROVE  (\E m \in DOMAIN s : u[n] = s[m]) \/ (\E m \in DOMAIN t : u[n] = t[m])
  <2>1. CASE n \in 1..L
    BY <1>1, <2>1
  <2>2. CASE n \notin 1..L
    <3>1. n - L \in DOMAIN t /\ u[L + (n - L)] = t[n - L] /\ L + (n - L) = n
      BY <1>1, <2>2
    <3> QED BY <3>1
  <2> QED BY <2>1, <2>2
<1>3. \A n \in DOMAIN s : n \in DOMAIN u /\ u[n] = s[n]
  BY <1>1
<1>4. \A n \in DOMAIN t : L + n \in DOMAIN u /\ u[L + n] = t[n]
  BY <1>1
<1>5. ToSet(s) \subseteq ToSet(u) /\ ToSet(t) \subseteq ToSet(u)
  BY <1>3, <1>4 DEF ToSet
<1> QED BY <1>1, <1>2, <1>5 DEF u

\* What holds of the caller and the task p it receives results of.
LEMMA Receiving ==
    ASSUME IInv, caller = "running", NEW p \in finished
    PROVE  /\ mode = "threaded" /\ p \in DOMAIN Group /\ p \notin Open
           /\ buffer[p] \in Seq(Results) /\ Orderly(buffer[p], Obtained)
           /\ received \in Seq(Results) /\ Orderly(received, Obtained)
           /\ \A n \in DOMAIN buffer[p] : ProviderOf[buffer[p][n].coordinator] = p
           /\ \A m \in DOMAIN received : ProviderOf[received[m].coordinator] # p
<1>1. p \in DOMAIN Group
  BY DEF IInv, Types
<1>2. mode = "threaded" /\ p \notin Open
  BY DEF IInv, Rounds, Tasks
<1>3. \A m \in DOMAIN received : ProviderOf[received[m].coordinator] # p
  BY DEF IInv, Tasks
<1>4. buffer[p] \in Seq(Results) /\ received \in Seq(Results)
  BY <1>1 DEF IInv, Types
<1> QED BY <1>1, <1>2, <1>3, <1>4 DEF IInv, Delivery

LEMMA DeliverKeeps ==
    ASSUME IInv, NEW p \in DOMAIN Group, Deliver(p) PROVE IInv'
<1>1. /\ caller = "running" /\ p \in finished
      /\ received' = received \o buffer[p] /\ finished' = finished \ {p}
      /\ UNCHANGED <<arguments, caller, asking, queue, working, buffer, rounds, closed>>
  BY DEF Deliver
<1>2. AskInv' /\ StopInv' /\ Obtained' = Obtained
  BY <1>1, NothingAsked
<1>3. /\ mode = "threaded" /\ p \notin Open
      /\ buffer[p] \in Seq(Results) /\ Orderly(buffer[p], Obtained)
      /\ received \in Seq(Results) /\ Orderly(received, Obtained)
      /\ \A n \in DOMAIN buffer[p] : ProviderOf[buffer[p][n].coordinator] = p
      /\ \A m \in DOMAIN received : ProviderOf[received[m].coordinator] # p
  BY <1>1, Receiving
<1>4. /\ received' \in Seq(Results)
      /\ ToSet(received) \subseteq ToSet(received') /\ ToSet(buffer[p]) \subseteq ToSet(received')
      /\ \A n \in DOMAIN received' : \/ \E m \in DOMAIN received : received'[n] = received[m]
                                     \/ \E m \in DOMAIN buffer[p] : received'[n] = buffer[p][m]
  BY <1>1, <1>3, Concat
<1>5. Orderly(received', Obtained)
  BY <1>1, <1>3, OrderlyConcat
<1>6. Types'
  BY <1>1, <1>4 DEF IInv, Types, arguments, rounds
<1>7. Delivery'
  BY <1>1, <1>2, <1>3, <1>5 DEF IInv, Delivery, arguments
<1>8. Open' = Open
  BY <1>1 DEF Open
<1>9. Tasks'
  <2>1. ASSUME NEW q \in Open \cup finished', NEW n \in DOMAIN received'
        PROVE  ProviderOf[received'[n].coordinator] # q
    <3>1. q # p /\ \A m \in DOMAIN received : ProviderOf[received[m].coordinator] # q
      BY <1>1, <1>3, <2>1 DEF IInv, Tasks
    <3> QED BY <1>3, <1>4, <3>1
  <2>2. \A q \in DOMAIN Group \ (Open \cup finished') : ToSet(buffer[q]) \subseteq ToSet(received')
    BY <1>1, <1>3, <1>4 DEF IInv, Tasks
  <2>3. \A q \in DOMAIN Group \ Open : at[q] = End
    BY <1>1, <1>3 DEF IInv, Tasks
  <2>4. Open \cap finished' = {}
    BY <1>1 DEF IInv, Tasks
  <2> QED BY <1>1, <1>3, <1>8, <2>1, <2>2, <2>3, <2>4 DEF IInv, Tasks, arguments, rounds, asking
<1>10. Rounds'
  BY <1>1, <1>3 DEF IInv, Rounds, arguments, rounds, asking
<1> QED BY <1>2, <1>6, <1>7, <1>9, <1>10 DEF IInv

LEMMA CloseInsideKeeps ==
    ASSUME IInv, NEW p \in DOMAIN Group, NEW n \in 1..Len(buffer[p]), CloseInside(p, n)
    PROVE  IInv'
<1> DEFINE taken == SubSeq(buffer[p], 1, n)
<1>1. /\ caller = "running" /\ p \in finished /\ received' = received \o taken
      /\ caller' = "closing" /\ closed' = TRUE
      /\ UNCHANGED <<arguments, asking, pool, rounds>>
  BY DEF CloseInside
<1>2. AskInv' /\ StopInv' /\ Obtained' = Obtained
  BY <1>1, NothingAsked
<1>3. /\ mode = "threaded"
      /\ buffer[p] \in Seq(Results) /\ Orderly(buffer[p], Obtained)
      /\ received \in Seq(Results) /\ Orderly(received, Obtained)
      /\ \A k \in DOMAIN buffer[p] : ProviderOf[buffer[p][k].coordinator] = p
      /\ \A m \in DOMAIN received : ProviderOf[received[m].coordinator] # p
  BY <1>1, Receiving
<1>4. /\ taken \in Seq(Results) /\ Orderly(taken, Obtained)
      /\ DOMAIN taken \subseteq DOMAIN buffer[p]
      /\ \A m \in DOMAIN taken : taken[m] = buffer[p][m]
  BY <1>3, OrderlyPrefix
<1> HIDE DEF taken
<1>5. received' \in Seq(Results) /\ ToSet(received) \subseteq ToSet(received')
  BY <1>1, <1>3, <1>4, Concat
<1>6. Orderly(received', Obtained)
  <2>1. \A m \in DOMAIN received, k \in DOMAIN taken : received[m] # taken[k]
    BY <1>3, <1>4
  <2> QED BY <1>1, <1>3, <1>4, <2>1, OrderlyConcat
<1>7. Types'
  BY <1>1, <1>5 DEF IInv, Types, arguments, rounds, pool
<1>8. Delivery'
  BY <1>1, <1>2, <1>3, <1>6 DEF IInv, Delivery, arguments, pool
<1>9. Open' = Open
  BY <1>1 DEF Open, pool
<1>10. Tasks'
  <2>1. \A q \in DOMAIN Group \ (Open \cup finished) : ToSet(buffer[q]) \subseteq ToSet(received')
    BY <1>1, <1>3, <1>5 DEF IInv, Tasks
  <2> QED BY <1>1, <1>3, <1>9, <2>1 DEF IInv, Tasks, arguments, rounds, asking, pool
<1>11. Rounds'
  BY <1>1, <1>3 DEF IInv, Rounds, arguments, rounds, asking, pool
<1> QED BY <1>2, <1>7, <1>8, <1>10, <1>11 DEF IInv

LEMMA LeavingKeeps ==
    ASSUME IInv, AllDelivered \/ Shutdown PROVE IInv'
<1>1. /\ caller' \in {"closing", "done"}
      /\ caller' = "done" => queue = <<>> /\ working = {} /\ caller = "closing"
      /\ caller # "start" /\ (caller' = "closing" => mode = "threaded")
      /\ (caller = "running" => queue = <<>> /\ working = {} /\ finished = {})
      /\ UNCHANGED <<arguments, asking, pool, rounds, received, closed>>
  BY DEF AllDelivered, Shutdown
<1>2. AskInv' /\ StopInv' /\ Obtained' = Obtained
  BY <1>1, NothingAsked
<1>3. mode = "threaded"
  BY <1>1 DEF IInv, Rounds
<1>4. Types'
  BY <1>1 DEF IInv, Types, arguments, rounds, pool
<1>5. Delivery'
  BY <1>1, <1>2 DEF IInv, Delivery, arguments, pool
<1>6. Open' = Open
  BY <1>1 DEF Open, pool
<1>7. Tasks'
  <2>1. caller \in {"running", "closing", "done"}
    BY <1>1 DEF IInv, Types
  <2> QED BY <1>1, <1>3, <1>6, <2>1 DEF IInv, Tasks, arguments, rounds, asking, pool
<1>8. Rounds'
  BY <1>1, <1>3 DEF IInv, Rounds, arguments, rounds, asking, pool
<1> QED BY <1>2, <1>4, <1>5, <1>7, <1>8 DEF IInv

----------------------------------------------------------------------------
(* The steps of the sequential modes *)

LEMMA BeginKeeps ==
    ASSUME IInv, Begin PROVE IInv'
<1>1. /\ caller = "start" /\ mode # "threaded" /\ caller' = "running"
      /\ active' = DOMAIN Group /\ due' = DOMAIN Group
      /\ UNCHANGED <<arguments, asking, pool, exhausted, received, closed>>
  BY DEF Begin
<1>2. AskInv' /\ StopInv' /\ Obtained' = Obtained
  BY <1>1, NothingAsked
<1>3. Types'
  BY <1>1 DEF IInv, Types, arguments, pool
<1>4. Delivery'
  BY <1>1, <1>2 DEF IInv, Delivery, arguments, pool
<1>5. Open = {} /\ Open' = {} /\ finished = {}
  BY <1>1 DEF IInv, Tasks, Open, pool, ToSet
<1>6. Tasks'
  BY <1>1, <1>5 DEF IInv, Tasks, arguments, asking, pool
<1>7. Rounds'
  BY <1>1 DEF IInv, Rounds, arguments, asking, pool
<1> QED BY <1>2, <1>3, <1>4, <1>6, <1>7 DEF IInv

LEMMA ExhaustedKeeps ==
    ASSUME IInv, NEW p \in DOMAIN Group, Exhausted(p) PROVE IInv'
<1>1. /\ caller = "running" /\ mode # "threaded" /\ p \in due /\ at[p] = End
      /\ exhausted' = exhausted \cup {p} /\ due' = due \ {p}
      /\ UNCHANGED <<arguments, caller, asking, pool, active, received, closed>>
  BY DEF Exhausted, Pulling
<1>2. AskInv' /\ StopInv' /\ Obtained' = Obtained
  BY <1>1, NothingAsked
<1>3. Types'
  BY <1>1 DEF IInv, Types, arguments, pool
<1>4. Delivery'
  BY <1>1, <1>2 DEF IInv, Delivery, arguments, pool
<1>5. Open' = Open
  BY <1>1 DEF Open, pool
<1>6. Tasks'
  BY <1>1, <1>5 DEF IInv, Tasks, arguments, asking, pool
<1>7. Rounds'
  BY <1>1 DEF IInv, Rounds, arguments, asking, pool
<1> QED BY <1>2, <1>3, <1>4, <1>6, <1>7 DEF IInv

LEMMA NextRoundKeeps ==
    ASSUME IInv, NextRound PROVE IInv'
<1>1. /\ caller = "running" /\ mode # "threaded"
      /\ active' = active \ exhausted /\ due' = active' /\ exhausted' = {}
      /\ caller' = IF active' = {} THEN "done" ELSE caller
      /\ UNCHANGED <<arguments, asking, pool, received, closed>>
  BY DEF NextRound
<1>2. AskInv' /\ StopInv' /\ Obtained' = Obtained
  BY <1>1, NothingAsked
<1>3. Types'
  BY <1>1 DEF IInv, Types, arguments, pool
<1>4. Delivery'
  BY <1>1, <1>2 DEF IInv, Delivery, arguments, pool
<1>5. queue = <<>> /\ working = {} /\ finished = {} /\ Open = {} /\ Open' = {}
  BY <1>1 DEF IInv, Rounds, Open, pool, ToSet
<1>6. Tasks'
  BY <1>1, <1>5 DEF IInv, Tasks, arguments, asking, pool
<1>7. Rounds'
  BY <1>1 DEF IInv, Rounds, arguments, asking, pool
<1> QED BY <1>2, <1>3, <1>4, <1>6, <1>7 DEF IInv

LEMMA PullKeeps ==
    ASSUME IInv, NEW p \in DOMAIN Group, NEW r \in Responses, Pull(p, r) PROVE IInv'
<1>1. /\ caller = "running" /\ mode # "threaded" /\ p \in due /\ at[p] # End /\ Ask(p, r)
      /\ received' = received \o Yielded(p, r)
      /\ due' \subseteq due
      /\ exhausted' = IF r.kind = "raise" THEN exhausted \cup {p} ELSE exhausted
      /\ caller' \in {"running", "done"} /\ closed' \in BOOLEAN
      /\ caller' = "done" => closed'
      /\ UNCHANGED <<arguments, pool, active>>
  <2>1. closed \in BOOLEAN
    BY DEF IInv, Types
  <2> QED BY <2>1 DEF Pull, Pulling
<1>2. AskInv' /\ StopInv'
  BY <1>1, AskKeeps, AskStops DEF IInv
<1>3. /\ at'[p] = After(p, r) /\ \A q \in DOMAIN Group : q # p => at'[q] = at[q]
  BY <1>1 DEF Ask, IInv, AskInv
<1>4. received \in Seq(Results) /\ Orderly(received, Obtained) /\ Obtained \subseteq ToSet(received)
  BY <1>1 DEF IInv, Types, Delivery
<1>5. queue = <<>> /\ working = {} /\ finished = {} /\ Open = {} /\ Open' = {}
  BY <1>1 DEF IInv, Rounds, Open, pool, ToSet
<1>6. Types' /\ Delivery'
  <2>1. CASE Yielded(p, r) = <<>> /\ Obtained' = Obtained
    <3>1. received' = received
      <4>1. received \o <<>> = received
        BY <1>4
      <4> QED BY <1>1, <2>1, <4>1
    <3> QED BY <1>1, <2>1, <3>1 DEF IInv, Types, Delivery, arguments, pool
  <2>2. ASSUME NEW new \in Results,
               Yielded(p, r) = <<new>>, Obtained' = Obtained \cup {new}, new \notin Obtained,
               \A e \in Obtained \cup {new} : ~Earlier(new, e)
        PROVE  Types' /\ Delivery'
    <3>1. received' = received \o <<new>>
      BY <1>1, <2>2
    <3>2. received' \in Seq(Results) /\ Obtained' \subseteq ToSet(received')
      <4>1. <<new>> \in Seq(Results) /\ new \in ToSet(<<new>>)
        <5>1. 1 \in DOMAIN <<new>> /\ <<new>>[1] = new
          OBVIOUS
        <5> QED BY <2>2, <5>1 DEF ToSet
      <4> QED BY <1>4, <2>2, <3>1, <4>1, Concat
    <3>3. Orderly(received', Obtained')
      BY <1>4, <2>2, <3>1, OrderlyAppend
    <3>4. \A q \in DOMAIN Group : Orderly(buffer[q], Obtained')
      <4>1. \A q \in DOMAIN Group : Orderly(buffer[q], Obtained)
        BY DEF IInv, Delivery
      <4> QED BY <2>2, <4>1, OrderlyGrows
    <3>5. mode' # "threaded" /\ buffer' = buffer
      BY <1>1 DEF arguments, pool
    <3>6. Types'
      BY <1>1, <3>2 DEF IInv, Types, arguments, pool
    <3>7. Delivery'
      BY <3>2, <3>3, <3>4, <3>5, <3>6 DEF IInv, Delivery
    <3> QED BY <3>6, <3>7
  <2> QED BY <1>1, <2>1, <2>2, AskObtains DEF IInv
<1>7. Tasks'
  BY <1>1, <1>5 DEF IInv, Tasks, arguments, pool
<1>8. Rounds'
  <2>1. \A q \in exhausted : q # p /\ at[q] = End /\ q \in DOMAIN Group
    BY <1>1 DEF IInv, Rounds, Types
  <2>2. p \in active
    BY <1>1 DEF IInv, Types
  <2>3. \A q \in exhausted' : at'[q] = End
    BY <1>1, <1>3, <2>1 DEF After
  <2>4. \A q \in DOMAIN Group \ active : at'[q] = End
    BY <1>1, <1>3, <2>2 DEF IInv, Rounds
  <2> QED BY <1>1, <1>5, <2>3, <2>4 DEF Rounds, arguments, pool
<1> QED BY <1>2, <1>6, <1>7, <1>8 DEF IInv

LEMMA NextKeeps == IInv /\ [Next]_vars => IInv'
<1> SUFFICES ASSUME IInv, [Next]_vars PROVE IInv'
  OBVIOUS
<1>1. CASE UNCHANGED vars
  <2>1. AskInv' /\ StopInv' /\ Obtained' = Obtained
    BY <1>1, NothingAsked DEF vars
  <2>2. Types' /\ Delivery'
    BY <1>1, <2>1 DEF IInv, Types, Delivery, vars, arguments, pool, rounds
  <2>3. Tasks' /\ Rounds'
    BY <1>1 DEF IInv, Tasks, Open, Rounds, vars, arguments, pool, rounds, asking
  <2> QED BY <2>1, <2>2, <2>3 DEF IInv
<1>2. CASE Worker
  BY <1>2, StartTaskKeeps, EndTaskKeeps, FetchKeeps DEF Worker
<1>3. CASE Submit \/ AllDelivered \/ Shutdown \/ Begin \/ NextRound
  BY <1>3, SubmitKeeps, LeavingKeeps, BeginKeeps, NextRoundKeeps
<1>4. ASSUME NEW p \in DOMAIN Group,
             \/ Deliver(p) \/ Exhausted(p)
             \/ \E n \in 1..Len(buffer[p]) : CloseInside(p, n)
             \/ \E r \in Responses : Pull(p, r)
      PROVE  IInv'
  BY <1>4, DeliverKeeps, ExhaustedKeeps, CloseInsideKeeps, PullKeeps
<1> QED BY <1>1, <1>2, <1>3, <1>4 DEF Next, Caller

LEMMA Inductive == Spec => []IInv
  BY Initially, NextKeeps, PTL DEF Spec

\* Whatever the mode, the worker threads and the order the tasks finish in, the
\* caller receives every provider's results once each and in the order they
\* were obtained, all of them unless it closes the generator, and nothing of the
\* search goes on once its iteration is over (multisearch_coordinator.py,
\* iter_pages and iter_pages_threaded).
THEOREM DeliveredOnceAndInOrder == Spec => []DeliveredOnceInOrder
<1>1. ASSUME IInv PROVE TypeOK
  <2>1. \A p \in DOMAIN Group : at[p] = End \/ at[p] \in (DOMAIN Group[p]) \X (DOMAIN Pages)
    <3> SUFFICES ASSUME NEW p \in DOMAIN Group, at[p] # End
                 PROVE  at[p] \in (DOMAIN Group[p]) \X (DOMAIN Pages)
      OBVIOUS
    <3>1. PICK k \in DOMAIN Group[p], i \in DOMAIN Pages : at[p] = <<k, i>>
      BY <1>1 DEF IInv, AskInv, Cursor
    <3> QED BY <3>1
  <2>2. ToSet(queue) \subseteq DOMAIN Group
    <3>1. queue \in Seq(DOMAIN Group)
      BY <1>1 DEF IInv, Types
    <3>2. \A n \in DOMAIN queue : queue[n] \in DOMAIN Group
      BY <3>1
    <3> QED BY <3>2 DEF ToSet
  <2>3. \A c \in Coordinators : Len(answers[c]) <= Len(Pages)
    BY <1>1 DEF IInv, StopInv
  <2> QED BY <1>1, <2>1, <2>2, <2>3 DEF IInv, Types, TypeOK
<1>2. ASSUME IInv PROVE caller = "done" => queue = <<>> /\ working = {}
  BY <1>2 DEF IInv, Tasks
<1>3. ASSUME IInv
      PROVE  \A n \in DOMAIN received :
                /\ received[n] \in Obtained
                /\ \A m \in 1..(n - 1) : received[m] # received[n]
                /\ \A s \in Obtained : Earlier(s, received[n]) =>
                                        \E m \in 1..(n - 1) : received[m] = s
  BY <1>3 DEF IInv, Delivery, Orderly
<1>4. ASSUME IInv, caller = "done", ~closed PROVE Obtained \subseteq ToSet(received)
  <2>1. CASE mode # "threaded"
    BY <1>4, <2>1 DEF IInv, Delivery
  <2>2. CASE mode = "threaded"
    <3>1. Open = {} /\ finished = {}
      BY <1>4, <2>2 DEF IInv, Tasks, Open, ToSet
    <3>2. \A p \in DOMAIN Group : ToSet(buffer[p]) \subseteq ToSet(received)
      BY <1>4, <2>2, <3>1 DEF IInv, Tasks
    <3>3. \A e \in Obtained : \E p \in DOMAIN Group : e \in ToSet(buffer[p])
      BY <1>4, <2>2 DEF IInv, Delivery
    <3> QED BY <3>2, <3>3
  <2> QED BY <2>1, <2>2
<1>5. IInv => DeliveredOnceInOrder
  BY <1>1, <1>2, <1>3, <1>4 DEF DeliveredOnceInOrder
<1> QED BY Inductive, <1>5, PTL

\* Every coordinator that was added and not replaced is searched to its last
\* page, or to one that halts it, unless an earlier query of its provider raised
\* or was refused for good; and no other is searched
\* (multisearch_coordinator.py, group_by_provider and _process_provider_group).
THEOREM QueriesAreServed == Spec => []EveryQueryServed
<1>1. ASSUME IInv, caller = "done", closed => mode = "threaded", NEW p \in DOMAIN Group
      PROVE  at[p] = End
  <2>1. CASE mode = "threaded"
    <3>1. Open = {}
      BY <1>1 DEF IInv, Tasks, Open, ToSet
    <3> QED BY <1>1, <2>1, <3>1 DEF IInv, Tasks
  <2>2. CASE mode # "threaded"
    BY <1>1, <2>2 DEF IInv, Rounds
  <2> QED BY <2>1, <2>2
<1>2. ASSUME IInv, caller = "done", closed => mode = "threaded",
             NEW c \in Searched, NEW p, p = ProviderOf[c],
             NEW k, k = CHOOSE n \in DOMAIN Group[p] : Group[p][n] = c
      PROVE  \/ Len(answers[c]) = Len(Pages)
             \/ answers[c] # <<>> /\ Halts(Last(answers[c]), Pages[Len(answers[c])], Rpp)
             \/ /\ answers[c] = <<>>
                /\ \E j \in 1..(k - 1) :
                      /\ answers[Group[p][j]] # <<>>
                      /\ Refused(Last(answers[Group[p][j]]), Group[p][j + 1])
  <2>1. p \in DOMAIN Group /\ c \in Coordinators
    BY <1>2, GroupAssumption DEF Searched
  <2>2. k \in 1..Len(Group[p]) /\ Group[p][k] = c /\ Len(Group[p]) \in Nat
    <3>1. c \in ToSet(Group[p])
      BY <1>2, GroupAssumption
    <3>2. \E n \in DOMAIN Group[p] : Group[p][n] = c
      BY <3>1 DEF ToSet
    <3> QED BY <1>2, <2>1, <3>2, GroupFacts
  <2>3. CASE Pages = <<>>
    <3>1. Len(answers[c]) <= Len(Pages) /\ answers[c] \in Seq(Responses)
      BY <1>2, <2>1 DEF IInv, StopInv, AskInv
    <3>2. Len(Pages) = 0 /\ Len(answers[c]) \in Nat
      BY <2>3, <3>1
    <3> QED BY <3>1, <3>2
  <2>4. CASE Pages # <<>>
    <3>1. PICK m \in 1..Len(Group[p]) :
            /\ \A j \in 1..m : Ended(p, j)
            /\ \A j \in (m + 1)..Len(Group[p]) : answers[Group[p][j]] = <<>>
            /\ m < Len(Group[p]) => Refused(Last(answers[Group[p][m]]), Group[p][m + 1])
      BY <1>1, <1>2, <2>1, <2>4 DEF IInv, StopInv, Stopped
    <3>2. CASE k <= m
      <4>1. Ended(p, k)
        BY <2>2, <3>1, <3>2
      <4> QED BY <2>2, <4>1 DEF Ended
    <3>3. CASE ~(k <= m)
      <4>1. answers[c] = <<>> /\ m \in 1..(k - 1) /\ m < Len(Group[p]) /\ m \in 1..m
        BY <2>2, <3>1, <3>3
      <4>2. answers[Group[p][m]] # <<>>
        BY <3>1, <4>1 DEF Ended
      <4> QED BY <3>1, <4>1, <4>2
    <3> QED BY <3>2, <3>3
  <2> QED BY <2>3, <2>4
<1>3. ASSUME IInv PROVE \A c \in Coordinators \ Searched : answers[c] = <<>>
  BY <1>3 DEF IInv, StopInv
<1>4. IInv => EveryQueryServed
  BY <1>2, <1>3 DEF EveryQueryServed
<1> QED BY Inductive, <1>4, PTL

----------------------------------------------------------------------------
(* The round robin *)

\* In a round, those due have given R results since they began, those that had
\* their turn and go on have given one more, and nobody has more than that.
Even ==
    mode = "round_robin" /\ caller # "start" =>
        \E R \in Nat :
            /\ \A p \in due : Received(p) = R
            /\ \A p \in active \ (due \cup exhausted) : Received(p) = R + 1
            /\ \A p \in DOMAIN Group : Received(p) <= R + 1

LEMMA ReceivedCount ==
    ASSUME NEW p \in DOMAIN Group, received \in Seq(Results)
    PROVE  Received(p) \in Nat /\ (received = <<>> => Received(p) = 0)
<1> DEFINE mine == {n \in DOMAIN received : received[n].coordinator \in ToSet(Group[p])}
<1>1. DOMAIN received = 1..Len(received) /\ Len(received) \in Nat
  OBVIOUS
<1>2. IsFiniteSet(1..Len(received))
  BY <1>1, FS_Interval
<1>3. IsFiniteSet(mine)
  BY <1>1, <1>2, FS_Subset
<1>4. Cardinality(mine) \in Nat
  BY <1>3, FS_CardinalityType
<1>5. received = <<>> => mine = {}
  OBVIOUS
<1>6. received = <<>> => Cardinality(mine) = 0
  BY <1>5, FS_EmptySet
<1> QED BY <1>4, <1>6 DEF Received

\* One more result counts for its provider alone.
LEMMA ReceivedGrows ==
    ASSUME NEW p \in DOMAIN Group, NEW q \in DOMAIN Group, NEW new,
           received \in Seq(Results), new \in Results, received' = received \o <<new>>,
           new.coordinator \in ToSet(Group[p])
    PROVE  Received(q)' = IF q = p THEN Received(q) + 1 ELSE Received(q)
<1> DEFINE N == Len(received) + 1
           mine == {n \in DOMAIN received : received[n].coordinator \in ToSet(Group[q])}
           now == {n \in DOMAIN received' : received'[n].coordinator \in ToSet(Group[q])}
<1>1. /\ DOMAIN received = 1..Len(received) /\ Len(received) \in Nat
      /\ DOMAIN received' = 1..N /\ received'[N] = new
      /\ \A n \in 1..Len(received) : received'[n] = received[n]
  OBVIOUS
<1>2. IsFiniteSet(mine) /\ N \notin mine
  <2>1. IsFiniteSet(1..Len(received))
    BY <1>1, FS_Interval
  <2> QED BY <1>1, <2>1, FS_Subset
<1>3. new.coordinator \in ToSet(Group[q]) <=> q = p
  <2>1. PICK j \in DOMAIN Group[p] : Group[p][j] = new.coordinator
    BY DEF ToSet
  <2>2. ASSUME new.coordinator \in ToSet(Group[q]) PROVE q = p
    <3>1. PICK k \in DOMAIN Group[q] : Group[q][k] = new.coordinator
      BY <2>2 DEF ToSet
    <3> QED BY <2>1, <3>1, Apart
  <2> QED BY <2>2
<1>4. now = IF q = p THEN mine \cup {N} ELSE mine
  <2>1. \A n \in 1..N : n \in 1..Len(received) \/ n = N
    BY <1>1
  <2>2. N \in 1..N /\ \A n \in 1..Len(received) : n \in 1..N
    BY <1>1
  <2>3. \A n : n \in now <=> n \in mine \/ (n = N /\ q = p)
    BY <1>1, <1>3, <2>1, <2>2
  <2> QED BY <2>3
<1> HIDE DEF N
<1>5. Cardinality(mine \cup {N}) = Cardinality(mine) + 1
  BY <1>2, FS_AddElement
<1>6. Cardinality(now) = IF q = p THEN Cardinality(mine) + 1 ELSE Cardinality(mine)
  BY <1>4, <1>5
<1> QED BY <1>6 DEF Received

LEMMA NextEven == IInv /\ Even /\ [Next]_vars => Even'
<1> SUFFICES ASSUME IInv, Even, [Next]_vars PROVE Even'
  OBVIOUS
<1>0. received \in Seq(Results) /\ \A p \in DOMAIN Group : Received(p) \in Nat
  BY ReceivedCount DEF IInv, Types
<1>1. ASSUME UNCHANGED <<mode, received, rounds>>, caller' = "start" <=> caller = "start"
      PROVE  Even'
  BY <1>1 DEF Even, Received, rounds
<1>2. CASE mode' = "threaded"
  BY <1>2 DEF Even
<1>3. CASE Begin
  <2>1. received = <<>> /\ received' = received /\ due' = DOMAIN Group /\ active' = DOMAIN Group
    BY <1>3 DEF Begin, IInv, Tasks
  <2>2. \A p \in DOMAIN Group : Received(p) = 0 /\ Received(p)' = Received(p)
    BY <1>0, <2>1, ReceivedCount DEF Received
  <2>3. 0 \in Nat
    OBVIOUS
  <2> QED BY <2>1, <2>2, <2>3 DEF Even
<1>4. ASSUME NEW p \in DOMAIN Group, Exhausted(p) PROVE Even'
  <2>1. /\ due' = due \ {p} /\ exhausted' = exhausted \cup {p} /\ p \in due
        /\ UNCHANGED <<arguments, caller, active, received>>
    BY <1>4 DEF Exhausted, Pulling
  <2>2. \A q \in DOMAIN Group : Received(q)' = Received(q)
    BY <2>1 DEF Received
  <2>3. /\ due' \subseteq due /\ due \subseteq DOMAIN Group /\ active \subseteq DOMAIN Group
        /\ active' \ (due' \cup exhausted') \subseteq active \ (due \cup exhausted)
    BY <2>1 DEF IInv, Types
  <2> QED BY <2>1, <2>2, <2>3 DEF Even, arguments
<1>5. CASE NextRound
  <2>1. /\ caller = "running" /\ due = {} /\ active' = active \ exhausted /\ due' = active'
        /\ exhausted' = {} /\ UNCHANGED <<arguments, received>>
    BY <1>5 DEF NextRound
  <2>2. \A q \in DOMAIN Group : Received(q)' = Received(q)
    BY <2>1 DEF Received
  <2>3. SUFFICES ASSUME mode = "round_robin" PROVE Even'
    BY <2>1 DEF Even, arguments
  <2>4. PICK R \in Nat :
           /\ \A q \in active \ (due \cup exhausted) : Received(q) = R + 1
           /\ \A q \in DOMAIN Group : Received(q) <= R + 1
    BY <2>1, <2>3 DEF Even
  <2>5. active \subseteq DOMAIN Group
    BY DEF IInv, Types
  <2>6. \A q \in due' : Received(q)' = R + 1
    BY <2>1, <2>2, <2>4, <2>5
  <2>7. \A q \in DOMAIN Group : Received(q)' <= (R + 1) + 1
    BY <1>0, <2>2, <2>4
  <2>8. active' \ (due' \cup exhausted') = {} /\ R + 1 \in Nat
    BY <2>1
  <2> QED BY <2>6, <2>7, <2>8 DEF Even
<1>6. ASSUME NEW p \in DOMAIN Group, NEW r \in Responses, Pull(p, r) PROVE Even'
  <2>1. /\ p \in due /\ due' = (IF mode = "round_robin" THEN due \ {p} ELSE due)
        /\ exhausted' = (IF r.kind = "raise" THEN exhausted \cup {p} ELSE exhausted)
        /\ received' = received \o Yielded(p, r) /\ at[p] # End /\ Ask(p, r)
        /\ caller = "running" /\ UNCHANGED <<arguments, active>>
    BY <1>6 DEF Pull, Pulling
  <2>2. SUFFICES ASSUME mode = "round_robin" PROVE Even'
    BY <2>1 DEF Even, arguments
  <2>3. PICK R \in Nat :
           /\ \A q \in due : Received(q) = R
           /\ \A q \in active \ (due \cup exhausted) : Received(q) = R + 1
           /\ \A q \in DOMAIN Group : Received(q) <= R + 1
    BY <2>1, <2>2 DEF Even
  <2>4. due \subseteq active /\ active \subseteq DOMAIN Group
    BY DEF IInv, Types
  <2>5. CASE Yielded(p, r) = <<>>
    <3>1. received' = received
      <4>1. received \o <<>> = received
        BY <1>0
      <4> QED BY <2>1, <2>5, <4>1
    <3>2. r.kind = "raise"
      BY <2>5 DEF Yielded
    <3>3. \A q \in DOMAIN Group : Received(q)' = Received(q)
      BY <3>1 DEF Received
    <3>4. /\ due' \subseteq due
          /\ active' \ (due' \cup exhausted') \subseteq active \ (due \cup exhausted)
      BY <2>1, <2>2, <3>2
    <3> QED BY <2>3, <2>4, <3>3, <3>4 DEF Even
  <2>6. ASSUME NEW new \in Results, Yielded(p, r) = <<new>>,
               new.coordinator \in ToSet(Group[p])
        PROVE  Even'
    <3>1. received' = received \o <<new>>
      BY <2>1, <2>6
    <3>2. \A q \in DOMAIN Group : Received(q)' = IF q = p THEN Received(q) + 1 ELSE Received(q)
      BY <1>0, <2>6, <3>1, ReceivedGrows
    <3>3. p \in due /\ due' = due \ {p} /\ active' = active /\ exhausted \subseteq exhausted'
      BY <2>1, <2>2
    <3>4. \A q \in due' : Received(q)' = R
      BY <2>3, <2>4, <3>2, <3>3
    <3>5. \A q \in active' \ (due' \cup exhausted') : Received(q)' = R + 1
      BY <2>3, <2>4, <3>2, <3>3
    <3>6. \A q \in DOMAIN Group : Received(q)' <= R + 1
      BY <1>0, <2>3, <2>4, <3>2, <3>3
    <3> QED BY <3>4, <3>5, <3>6 DEF Even
  <2> QED BY <2>1, <2>5, <2>6, AskObtains DEF IInv
<1>7. CASE StartTask \/ (\E p \in DOMAIN Group : EndTask(p) \/ \E r \in Responses : Fetch(p, r))
  BY <1>1, <1>7 DEF StartTask, EndTask, Fetch, arguments
<1>8. CASE Submit \/ AllDelivered \/ Shutdown
  BY <1>2, <1>8 DEF Submit, AllDelivered, Shutdown, IInv, Rounds, arguments
<1>9. ASSUME NEW p \in DOMAIN Group,
             Deliver(p) \/ \E n \in 1..Len(buffer[p]) : CloseInside(p, n)
      PROVE  Even'
  <2>1. caller = "running" /\ p \in finished /\ mode' = mode
    BY <1>9 DEF Deliver, CloseInside, arguments
  <2> QED BY <1>2, <2>1, Receiving
<1>10. CASE UNCHANGED vars
  BY <1>1, <1>10 DEF vars, arguments
<1> QED BY <1>3, <1>4, <1>5, <1>6, <1>7, <1>8, <1>9, <1>10 DEF Next, Worker, Caller

\* While a provider has pages to give, none of the others has had two results
\* more than it (multisearch_coordinator.py, _round_robin_iteration).
THEOREM RoundsAreEven == Spec => []RoundRobinEven
<1>1. Init => Even
  BY DEF Init, Even
<1>2. ASSUME IInv, Even, mode = "round_robin", NEW p \in DOMAIN Group, NEW q \in DOMAIN Group,
             at[p] # End
      PROVE  Received(q) <= Received(p) + 1
  <2>0. /\ received \in Seq(Results)
        /\ Received(p) \in Nat /\ Received(q) \in Nat
    BY <1>2, ReceivedCount DEF IInv, Types
  <2>1. CASE caller = "start"
    <3>1. received = <<>>
      BY <1>2, <2>1 DEF IInv, Tasks
    <3>2. Received(p) = 0 /\ Received(q) = 0
      BY <2>0, <3>1, ReceivedCount
    <3> QED BY <3>2
  <2>2. CASE caller # "start"
    <3>1. p \in active \ exhausted
      BY <1>2, <2>2 DEF IInv, Rounds
    <3>2. PICK R \in Nat :
             /\ \A e \in due : Received(e) = R
             /\ \A e \in active \ (due \cup exhausted) : Received(e) = R + 1
             /\ \A e \in DOMAIN Group : Received(e) <= R + 1
      BY <1>2, <2>2 DEF Even
    <3>3. Received(p) = R \/ Received(p) = R + 1
      BY <3>1, <3>2
    <3> QED BY <2>0, <3>2, <3>3
  <2> QED BY <2>1, <2>2
<1>3. IInv /\ Even => RoundRobinEven
  BY <1>2 DEF RoundRobinEven
<1>4. Spec => []Even
  BY Inductive, <1>1, NextEven, PTL DEF Spec
<1> QED BY Inductive, <1>3, <1>4, PTL
=============================================================================
