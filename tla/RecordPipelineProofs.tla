------------------------ MODULE RecordPipelineProofs ------------------------
(***************************************************************************)
(* Proofs about RecordPipeline: coordinators that share a processor get the*)
(* rows of their own pages, and only the errors of their own pages.        *)
(***************************************************************************)
EXTENDS RecordPipeline, WellFoundedInduction, TLAPS

(***************************************************************************)
(* The invariant.  Only the thread that holds the lock is between load_data*)
(* and the end of process_page, so the page and the nodes of the processor *)
(* are its own; and its loop has done to the records before at[t] what a   *)
(* processor of its own would do, and nothing to the others.               *)
(***************************************************************************)
Inside(t)  == pc[t] \in {"load", "screen", "combined"}
Working(t) == pc[t] = "extracted" \/ Inside(t)

Typed ==
    /\ setup \in Setups
    /\ pc \in [Threads -> {"start", "extracted", "load", "screen", "combined", "done"}]
    /\ outcome \in [Threads -> {"none", "error", "no records", "rows"}]
    /\ at \in [Threads -> Nat] /\ \A t \in Threads : at[t] > 0
    /\ given = [t \in Threads |-> given[t]]
    /\ records = [t \in Threads |-> records[t]]
    /\ rows = [t \in Threads |-> rows[t]]

\* The lock is held from load_data to the last row, by one thread.
Exclusive == \A t \in Threads : Inside(t) <=> lock = t

\* What is worked on was extracted from the response at hand.
OwnPage(t) ==
    Working(t) =>
        LET found == Extracted(setup, given[t])
        IN  /\ given[t] \in Sent[t]
            /\ found # <<>> /\ found[1] = records[t] /\ records[t] # <<>>

\* The rows so far, of the records before the one the loop has come to.
OwnRowsSoFar(t) ==
    LET page == records[t]
    IN  /\ pc[t] \in {"extracted", "load"} => rows[t] = <<>>
        /\ (pc[t] = "screen" /\ setup.kind = "recursive") =>
              /\ at[t] <= Len(page) + 1
              /\ rows[t] = FirstPicked(PageRows(setup, page), Wanted(setup, page))[at[t] - 1]

\* The page and the nodes of the processor, of the thread that holds the lock.
Loaded(t) ==
    LET page == records[t]
    IN  /\ Inside(t) => setup.kind \in {"path", "recursive"}
        /\ pc[t] = "screen" => json_data = page
        /\ (pc[t] = "screen" /\ setup.kind = "path") =>
              nodes = [i \in DOMAIN page |->
                          IF i < at[t] THEN Kept(setup, page)[i] ELSE Discover(page)[i]]
        /\ pc[t] = "combined" =>
              /\ setup.kind = "path"
              /\ nodes = CombineKeys(Kept(setup, page)).nodes

Right(t) ==
    /\ Delivered(t) =>
        LET found == Extracted(setup, given[t])
        IN  found # <<>> /\ rows[t] = OwnRows(setup, found[1])
    /\ (pc[t] = "done" /\ outcome[t] = "error") =>
        LET found == Extracted(setup, given[t])
        IN  \/ given[t].form = "blank"
            \/ /\ found \notin {<<>>, <<<<>>>>} /\ setup.kind = "path"
               /\ \/ Undiscoverable(found[1])
                  \/ CombineKeys(Kept(setup, found[1])).raised

Own(t) == OwnPage(t) /\ OwnRowsSoFar(t) /\ Loaded(t) /\ Right(t)

IInv == Typed /\ Exclusive /\ \A t \in Threads : Own(t)

----------------------------------------------------------------------------
(* Data *)

\* A set of naturals has a least element.
LEMMA Least ==
    ASSUME NEW T \in SUBSET Nat, T # {}
    PROVE  \E n \in T : n \in Nat /\ \A m \in Nat : m < n => m \notin T
<1> DEFINE R == {ss \in Nat \X Nat : ss[1] < ss[2]}
<1>1. IsWellFoundedOn(R, Nat)
  BY NatLessThanWellFounded DEF OpToRel
<1>2. PICK n \in T : \A m \in T : ~(<<m, n>> \in R)
  <2> HIDE DEF R
  <2> QED BY <1>1, WFMin
<1>3. \A m \in T : ~(m < n)
  BY <1>2
<1> QED BY <1>2, <1>3

\* FirstPicked is what its definition says, at every length: a function that
\* says so for the first k lengths extends to the next, and there are no two.
LEMMA FirstPickedEquation ==
    ASSUME NEW seq, NEW I, Len(seq) \in Nat
    PROVE  FirstPicked(seq, I) =
             [n \in 0..Len(seq) |->
                IF n = 0 THEN <<>>
                ELSE IF n \in I THEN Append(FirstPicked(seq, I)[n - 1], seq[n])
                ELSE FirstPicked(seq, I)[n - 1]]
<1> DEFINE Says(f, k) == f = [n \in 0..k |-> IF n = 0 THEN <<>>
                                ELSE LET before == f[n - 1]
                                     IN  IF n \in I THEN Append(before, seq[n]) ELSE before]
           Missing == {k \in Nat : ~\E f : Says(f, k)}
<1>1. Says([n \in 0..0 |-> <<>>], 0)
  OBVIOUS
<1>2. ASSUME NEW k \in Nat, NEW f, Says(f, k)
      PROVE  \E g : Says(g, k + 1)
  <2> DEFINE g == [n \in 0..(k + 1) |->
                     IF n <= k THEN f[n]
                     ELSE IF n \in I THEN Append(f[k], seq[n]) ELSE f[k]]
  <2>1. Says(g, k + 1)
    <3> SUFFICES ASSUME NEW n \in 0..(k + 1)
                 PROVE  g[n] = IF n = 0 THEN <<>>
                               ELSE IF n \in I THEN Append(g[n - 1], seq[n]) ELSE g[n - 1]
      OBVIOUS
    <3>1. CASE n = 0
      BY <3>1, <1>2
    <3>2. CASE n \in 1..k
      <4>1. f[n] = IF n \in I THEN Append(f[n - 1], seq[n]) ELSE f[n - 1]
        <5>1. n \in 0..k /\ n # 0
          BY <3>2
        <5> QED BY <5>1, <1>2
      <4>2. g[n] = f[n] /\ g[n - 1] = f[n - 1]
        BY <3>2
      <4> QED BY <4>1, <4>2, <3>2
    <3>3. CASE n = k + 1
      <4>1. g[n - 1] = f[k] /\ n # 0
        BY <3>3
      <4>2. g[n] = IF n \in I THEN Append(f[k], seq[n]) ELSE f[k]
        BY <3>3
      <4> QED BY <4>1, <4>2
    <3> QED BY <3>1, <3>2, <3>3
  <2> HIDE DEF g
  <2> QED BY <2>1
<1>3. \E f : Says(f, Len(seq))
  <2> HIDE DEF Says
  <2>1. SUFFICES ASSUME Missing # {} PROVE FALSE
    OBVIOUS
  <2>2. PICK n \in Missing : n \in Nat /\ \A m \in Nat : m < n => m \notin Missing
    BY <2>1, Least
  <2>3. n # 0
    BY <1>1, <2>2
  <2>4. n - 1 \in Nat /\ n - 1 < n /\ (n - 1) + 1 = n
    BY <2>2, <2>3
  <2>5. \E f : Says(f, n - 1)
    BY <2>2, <2>4
  <2>6. \E f : Says(f, n)
    BY <2>4, <2>5, <1>2
  <2> QED BY <2>2, <2>6
<1>4. Says(FirstPicked(seq, I), Len(seq))
  BY <1>3 DEF FirstPicked
<1> QED BY <1>4

\* Extraction gives nothing or one list.
LEMMA ExtractedOnce ==
    ASSUME NEW s, NEW response
    PROVE  LET found == Extracted(s, response)
           IN  found = <<>> \/ found = <<found[1]>>
  BY DEF Extracted, AtRecordPath

\* What a setup is, and what is extracted with it.
LEMMA SetupFacts ==
    ASSUME NEW s \in Setups, NEW t \in Threads, NEW response \in Sent[t]
    PROVE  LET found == Extracted(s, response)
           IN  /\ s.kind \in {"path", "recursive", "keyed", "pass"}
               /\ found # <<>> => found[1] \in Seq(ToSet(found[1]))
  BY PipelineAssumption DEF PipelineAssumption
\* A function on 1..n is a sequence of length n.
LEMMA LengthOf ==
    ASSUME NEW n \in Nat, NEW f, f = [i \in 1..n |-> f[i]]
    PROVE  Len(f) = n
<1>1. f \in Seq({f[i] : i \in 1..n})
  OBVIOUS
<1> QED BY <1>1

\* A page has a row for each of its records.
LEMMA RowsOfPage ==
    ASSUME NEW s, NEW page, Len(page) \in Nat, DOMAIN page = 1..Len(page)
    PROVE  /\ DOMAIN PageRows(s, page) = DOMAIN page
           /\ Len(PageRows(s, page)) = Len(page)
<1> DEFINE rs == PageRows(s, page)
<1>1. rs = [i \in 1..Len(page) |-> rs[i]]
  BY DEF PageRows
<1>2. Len(rs) = Len(page)
  <2> HIDE DEF rs
  <2> QED BY <1>1, LengthOf
<1> QED BY <1>1, <1>2

----------------------------------------------------------------------------
(* One thread's step *)

\* What a step of t leaves to the other threads, given the invariant before it:
\* what they have, and the processor's page and nodes unless t holds the lock.
Leaves(t) ==
    /\ UNCHANGED setup
    /\ \A u \in Threads \ {t} :
          /\ pc'[u] = pc[u] /\ at'[u] = at[u] /\ given'[u] = given[u]
          /\ records'[u] = records[u] /\ rows'[u] = rows[u] /\ outcome'[u] = outcome[u]
    /\ UNCHANGED <<json_data, nodes>> \/ lock = t

LEMMA OthersKept ==
    ASSUME NEW t \in Threads, IInv, Leaves(t), NEW u \in Threads \ {t}
    PROVE  Own(u)'
<1>1. /\ setup' = setup /\ pc'[u] = pc[u] /\ at'[u] = at[u] /\ given'[u] = given[u]
      /\ records'[u] = records[u] /\ rows'[u] = rows[u] /\ outcome'[u] = outcome[u]
  BY DEF Leaves
<1>2. Own(u)
  BY DEF IInv
<1>3. (json_data' = json_data /\ nodes' = nodes) \/ ~Inside(u)
  BY DEF Leaves, IInv, Exclusive
<1>4. OwnPage(u)' /\ OwnRowsSoFar(u)'
  BY <1>1, <1>2 DEF Own, OwnPage, OwnRowsSoFar, Working, Inside
<1>5. Loaded(u)'
  BY <1>1, <1>2, <1>3 DEF Own, Loaded, Inside
<1>6. Right(u)'
  BY <1>1, <1>2 DEF Own, Right, Delivered
<1> QED BY <1>4, <1>5, <1>6 DEF Own

\* The loop starts at the first record, and goes on to the next one.
LEMMA AtTyped ==
    ASSUME Typed, NEW t \in Threads,
           at' \in {[at EXCEPT ![t] = 1], [at EXCEPT ![t] = @ + 1]}
    PROVE  at' \in [Threads -> Nat] /\ \A u \in Threads : at'[u] > 0
<1>1. at \in [Threads -> Nat] /\ \A u \in Threads : at[u] > 0
  BY DEF Typed
<1>2. CASE at' = [at EXCEPT ![t] = 1]
  <2>1. at' \in [Threads -> Nat]
    BY <1>1, <1>2
  <2>2. ASSUME NEW u \in Threads PROVE at'[u] > 0
    <3>1. at'[u] = IF u = t THEN 1 ELSE at[u]
      BY <1>1, <1>2
    <3> QED BY <1>1, <3>1
  <2> QED BY <2>1, <2>2
<1>3. CASE at' = [at EXCEPT ![t] = @ + 1]
  <2>1. at' \in [Threads -> Nat]
    BY <1>1, <1>3
  <2>2. ASSUME NEW u \in Threads PROVE at'[u] > 0
    <3>1. at'[u] = IF u = t THEN at[u] + 1 ELSE at[u]
      BY <1>1, <1>3
    <3>2. at[u] \in Nat
      BY <1>1
    <3> QED BY <1>1, <3>1, <3>2
  <2> QED BY <2>1, <2>2
<1> QED BY <1>2, <1>3

\* The stages at which Own says nothing but Right.
LEMMA DoneOwn ==
    ASSUME NEW t \in Threads, pc'[t] = "done", Right(t)'
    PROVE  Own(t)'
  BY DEF Own, OwnPage, OwnRowsSoFar, Loaded, Working, Inside

LEMMA InitIInv == Init => IInv
<1> SUFFICES ASSUME Init PROVE IInv
  OBVIOUS
<1>1. Typed
  BY DEF Init, Typed
<1>2. Exclusive
  BY PipelineAssumption DEF Init, Exclusive, Inside, PipelineAssumption
<1>3. ASSUME NEW t \in Threads PROVE Own(t)
  BY DEF Init, Own, OwnPage, OwnRowsSoFar, Loaded, Right, Delivered, Working, Inside
<1> QED BY <1>1, <1>2, <1>3 DEF IInv

LEMMA ReceiveStep ==
    ASSUME IInv, NEW t \in Threads, NEW r \in Sent[t], Receive(t, r)
    PROVE  IInv'
<1> DEFINE found == Extracted(setup, r)
<1>1. /\ Typed /\ Exclusive /\ pc[t] = "start" /\ ~Inside(t)
      /\ setup' = setup /\ lock' = lock /\ json_data' = json_data /\ nodes' = nodes
      /\ at' = at /\ given' = [given EXCEPT ![t] = r] /\ rows' = [rows EXCEPT ![t] = <<>>]
  BY DEF IInv, Receive, Inside
<1>2. \/ /\ r.form = "blank" /\ End(t, "error") /\ records' = records
      \/ /\ found \in {<<>>, <<<<>>>>} /\ records' = [records EXCEPT ![t] = <<>>]
         /\ End(t, IF found = <<>> THEN "no records" ELSE "rows")
      \/ /\ found \notin {<<>>, <<<<>>>>} /\ records' = [records EXCEPT ![t] = found[1]]
         /\ Goto(t, "extracted")
  BY DEF Receive
<1>3. Typed'
  BY <1>1, <1>2 DEF Typed, End, Goto
<1>4. Exclusive'
  BY <1>1, <1>2 DEF Exclusive, Inside, Typed, End, Goto
<1>5. Leaves(t)
  BY <1>1, <1>2 DEF Leaves, Typed, End, Goto
<1>6. given'[t] = r /\ rows'[t] = <<>>
  BY <1>1 DEF Typed
<1>7. Own(t)'
  <2> HIDE DEF found
  <2>1. CASE r.form = "blank" /\ End(t, "error") /\ records' = records
    <3>1. pc'[t] = "done" /\ outcome'[t] = "error"
      BY <1>1, <2>1 DEF Typed, End
    <3> QED BY <3>1, <1>6, <2>1, DoneOwn DEF Right, Delivered
  <2>2. CASE /\ found \in {<<>>, <<<<>>>>} /\ records' = [records EXCEPT ![t] = <<>>]
             /\ End(t, IF found = <<>> THEN "no records" ELSE "rows")
    <3>1. pc'[t] = "done" /\ outcome'[t] = IF found = <<>> THEN "no records" ELSE "rows"
      BY <1>1, <2>2 DEF Typed, End
    <3>2. found = <<>> \/ (found # <<>> /\ found[1] = <<>>)
      <4>1. Len(<<<<>>>>) # Len(<<>>) /\ <<<<>>>>[1] = <<>>
        OBVIOUS
      <4> QED BY <2>2, <4>1
    <3>3. outcome'[t] = "rows" => OwnRows(setup', found[1]) = <<>>
      BY <3>1, <3>2 DEF OwnRows
    <3> QED BY <3>1, <3>2, <3>3, <1>1, <1>6, DoneOwn DEF Right, Delivered, found
  <2>3. CASE /\ found \notin {<<>>, <<<<>>>>} /\ records' = [records EXCEPT ![t] = found[1]]
             /\ Goto(t, "extracted")
    <3>1. pc'[t] = "extracted" /\ records'[t] = found[1]
      BY <1>1, <2>3 DEF Typed, Goto
    <3>2. found # <<>> /\ found[1] # <<>>
      BY <2>3, ExtractedOnce DEF found
    <3> QED BY <3>1, <3>2, <1>1, <1>6
            DEF Own, OwnPage, OwnRowsSoFar, Loaded, Right, Delivered, Inside, found
  <2> QED BY <1>2, <2>1, <2>2, <2>3
<1>8. \A u \in Threads : Own(u)'
  BY <1>5, <1>7, OthersKept
<1> QED BY <1>3, <1>4, <1>8 DEF IInv

LEMMA FilterPageStep ==
    ASSUME IInv, NEW t \in Threads, FilterPage(t)
    PROVE  IInv'
<1> DEFINE page == records[t]
<1>1. /\ Typed /\ Exclusive /\ Own(t) /\ pc[t] = "extracted" /\ ~Inside(t)
      /\ setup.kind \in {"keyed", "pass"} /\ setup' = setup /\ lock' = lock
      /\ json_data' = json_data /\ nodes' = nodes /\ at' = at /\ given' = given
      /\ records' = records
      /\ rows' = [rows EXCEPT ![t] = Picked(PageRows(setup, page), Wanted(setup, page))]
      /\ End(t, "rows")
  BY DEF IInv, FilterPage, Inside
<1>2. Typed'
  BY <1>1 DEF Typed, End
<1>3. Exclusive'
  BY <1>1 DEF Exclusive, Inside, Typed, End
<1>4. Leaves(t)
  BY <1>1 DEF Leaves, Typed, End
<1>5. /\ pc'[t] = "done" /\ outcome'[t] = "rows"
      /\ rows'[t] = Picked(PageRows(setup, page), Wanted(setup, page))
  BY <1>1 DEF Typed, End
<1>6. LET found == Extracted(setup, given[t]) IN found # <<>> /\ found[1] = page /\ page # <<>>
  BY <1>1 DEF Own, OwnPage, Working
<1>7. Right(t)'
  BY <1>1, <1>5, <1>6 DEF Right, Delivered, OwnRows
<1>8. \A u \in Threads : Own(u)'
  BY <1>4, <1>5, <1>7, DoneOwn, OthersKept
<1> QED BY <1>2, <1>3, <1>8 DEF IInv

LEMMA EnterStep ==
    ASSUME IInv, NEW t \in Threads, Enter(t)
    PROVE  IInv'
<1>1. /\ Typed /\ Exclusive /\ Own(t) /\ pc[t] = "extracted"
      /\ setup.kind \in {"path", "recursive"} /\ lock = NoOne /\ lock' = t
      /\ pc' = [pc EXCEPT ![t] = "load"] /\ outcome' = outcome /\ setup' = setup
      /\ json_data' = json_data /\ nodes' = nodes /\ at' = at /\ given' = given
      /\ records' = records /\ rows' = rows
  BY DEF IInv, Enter, Goto
<1>2. Typed'
  BY <1>1 DEF Typed
<1>3. Exclusive'
  BY <1>1, PipelineAssumption DEF Exclusive, Inside, Typed, PipelineAssumption
<1>4. Leaves(t)
  BY <1>1 DEF Leaves, Typed
<1>5. pc'[t] = "load"
  BY <1>1 DEF Typed
<1>6. Own(t)'
  BY <1>1, <1>5 DEF Own, OwnPage, OwnRowsSoFar, Loaded, Right, Delivered, Working, Inside
<1>7. \A u \in Threads : Own(u)'
  BY <1>4, <1>6, OthersKept
<1> QED BY <1>2, <1>3, <1>7 DEF IInv
LEMMA LoadNodesStep ==
    ASSUME IInv, NEW t \in Threads, LoadNodes(t)
    PROVE  IInv'
<1> DEFINE page == records[t]
<1>1. /\ Typed /\ Exclusive /\ Own(t) /\ pc[t] = "load" /\ Inside(t) /\ lock = t
      /\ setup.kind = "path" /\ setup' = setup /\ given' = given
      /\ records' = records /\ rows' = rows /\ at' = [at EXCEPT ![t] = 1]
  BY DEF IInv, LoadNodes, Inside, Exclusive
<1>2. /\ given[t] \in Sent[t] /\ page # <<>>
      /\ LET found == Extracted(setup, given[t]) IN found # <<>> /\ found[1] = page
  BY <1>1 DEF Own, OwnPage, Working
<1>3. LoadedPage(t) = page
  BY <1>2 DEF LoadedPage
<1>4. json_data' = page
  BY <1>3 DEF LoadNodes
<1>5. Leaves(t)
  BY <1>1 DEF LoadNodes, Leaves, Typed, End, Goto
<1>6. CASE Undiscoverable(page)
  <2>1. /\ pc' = [pc EXCEPT ![t] = "done"] /\ outcome' = [outcome EXCEPT ![t] = "error"]
        /\ lock' = NoOne
    BY <1>3, <1>6 DEF LoadNodes, End
  <2>2. Typed'
    BY <1>1, <2>1, AtTyped DEF Typed
  <2>3. Exclusive'
    BY <1>1, <2>1, PipelineAssumption DEF Exclusive, Inside, Typed, PipelineAssumption
  <2>4. pc'[t] = "done" /\ outcome'[t] = "error"
    BY <1>1, <2>1 DEF Typed
  <2>5. LET found == Extracted(setup, given[t]) IN found \notin {<<>>, <<<<>>>>}
    BY <1>2
  <2>6. Right(t)'
    BY <1>1, <1>2, <1>6, <2>4, <2>5 DEF Right, Delivered
  <2>7. \A u \in Threads : Own(u)'
    BY <1>5, <2>4, <2>6, DoneOwn, OthersKept
  <2> QED BY <2>2, <2>3, <2>7 DEF IInv
<1>7. CASE ~Undiscoverable(page)
  <2>1. /\ pc' = [pc EXCEPT ![t] = "screen"] /\ outcome' = outcome /\ lock' = lock
        /\ nodes' = Discover(page)
    BY <1>3, <1>7 DEF LoadNodes, Goto
  <2>2. Typed'
    BY <1>1, <2>1, AtTyped DEF Typed
  <2>3. Exclusive'
    BY <1>1, <2>1 DEF Exclusive, Inside, Typed
  <2>4. pc'[t] = "screen" /\ at'[t] = 1
    BY <1>1, <2>1 DEF Typed
  <2>5. page \in Seq(ToSet(page))
    BY <1>1, <1>2, SetupFacts DEF Typed
  <2>6. \A i \in DOMAIN page : i \in Nat \ {0}
    BY <2>5
  <2>7. nodes' = [i \in DOMAIN page |->
                     IF i < 1 THEN Kept(setup, page)[i] ELSE Discover(page)[i]]
    BY <2>1, <2>6 DEF Discover
  <2>8. Loaded(t)'
    BY <1>1, <1>4, <2>4, <2>7 DEF Loaded
  <2>9. OwnPage(t)' /\ OwnRowsSoFar(t)' /\ Right(t)'
    BY <1>1, <1>2, <2>4 DEF OwnPage, OwnRowsSoFar, Right, Delivered
  <2>10. \A u \in Threads : Own(u)'
    BY <1>5, <2>8, <2>9, OthersKept DEF Own
  <2> QED BY <2>2, <2>3, <2>10 DEF IInv
<1> QED BY <1>6, <1>7

LEMMA LoadPageStep ==
    ASSUME IInv, NEW t \in Threads, LoadPage(t)
    PROVE  IInv'
<1> DEFINE page == records[t]
           first == FirstPicked(PageRows(setup, page), Wanted(setup, page))
<1>1. /\ Typed /\ Exclusive /\ Own(t) /\ pc[t] = "load" /\ Inside(t) /\ lock = t
      /\ setup.kind = "recursive" /\ setup' = setup /\ given' = given
      /\ records' = records /\ rows' = rows /\ at' = [at EXCEPT ![t] = 1]
      /\ pc' = [pc EXCEPT ![t] = "screen"] /\ outcome' = outcome /\ lock' = lock
      /\ nodes' = nodes
  BY DEF IInv, LoadPage, Inside, Exclusive, Goto
<1>2. /\ given[t] \in Sent[t] /\ page # <<>> /\ rows[t] = <<>>
      /\ LET found == Extracted(setup, given[t]) IN found # <<>> /\ found[1] = page
  BY <1>1 DEF Own, OwnPage, OwnRowsSoFar, Working
<1>3. json_data' = page
  BY <1>2 DEF LoadPage, LoadedPage
<1>4. Leaves(t)
  BY <1>1 DEF Leaves, Typed
<1>5. Typed'
  BY <1>1, AtTyped DEF Typed
<1>6. Exclusive'
  BY <1>1 DEF Exclusive, Inside, Typed
<1>7. pc'[t] = "screen" /\ at'[t] = 1
  BY <1>1 DEF Typed
<1>8. Len(page) \in Nat /\ Len(PageRows(setup, page)) \in Nat
  <2>1. page \in Seq(ToSet(page))
    BY <1>1, <1>2, SetupFacts DEF Typed
  <2>2. DOMAIN page = 1..Len(page) /\ Len(page) \in Nat
    BY <2>1
  <2> QED BY <2>2, RowsOfPage
<1>9. first[0] = <<>>
  BY <1>8, FirstPickedEquation
<1>10. OwnRowsSoFar(t)'
  BY <1>1, <1>2, <1>7, <1>8, <1>9 DEF OwnRowsSoFar
<1>11. Loaded(t)' /\ OwnPage(t)' /\ Right(t)'
  BY <1>1, <1>2, <1>3, <1>7 DEF OwnPage, Loaded, Right, Delivered
<1>12. \A u \in Threads : Own(u)'
  BY <1>4, <1>10, <1>11, OthersKept DEF Own
<1> QED BY <1>5, <1>6, <1>12 DEF IInv
\* The page at hand is a list, and the loop runs once for each of its records.
LEMMA PageLength ==
    ASSUME IInv, NEW t \in Threads, Working(t)
    PROVE  LET page == records[t]
           IN  /\ Len(page) \in Nat /\ DOMAIN page = 1..Len(page)
               /\ pc[t] = "screen" => Size = Len(page)
<1> DEFINE page == records[t]
<1>1. page \in Seq(ToSet(page))
  <2>1. /\ setup \in Setups /\ given[t] \in Sent[t]
        /\ LET found == Extracted(setup, given[t]) IN found # <<>> /\ found[1] = page
    BY DEF IInv, Typed, Own, OwnPage
  <2> QED BY <2>1, SetupFacts
<1>2. Len(page) \in Nat /\ DOMAIN page = 1..Len(page)
  BY <1>1
<1>3. CASE pc[t] = "screen" /\ setup.kind = "path"
  <2>1. nodes = [i \in DOMAIN page |->
                    IF i < at[t] THEN Kept(setup, page)[i] ELSE Discover(page)[i]]
    BY <1>3 DEF IInv, Own, Loaded
  <2>2. nodes = [i \in 1..Len(page) |-> nodes[i]]
    BY <1>2, <2>1
  <2>3. Len(nodes) = Len(page)
    BY <1>2, <2>2, LengthOf
  <2> QED BY <1>2, <1>3, <2>3 DEF Size
<1>4. CASE pc[t] = "screen" /\ setup.kind # "path"
  <2>1. json_data = page
    BY <1>4 DEF IInv, Own, Loaded
  <2> QED BY <1>2, <1>4, <2>1 DEF Size
<1> QED BY <1>2, <1>3, <1>4

LEMMA KeepRecordStep ==
    ASSUME IInv, NEW t \in Threads, NEW i \in Nat \ {0}, KeepRecord(t, i)
    PROVE  IInv'
<1> DEFINE page == records[t]
           Now(n) == [j \in DOMAIN page |->
                         IF j < n THEN Kept(setup, page)[j] ELSE Discover(page)[j]]
<1>1. /\ Typed /\ Exclusive /\ Own(t) /\ pc[t] = "screen" /\ Inside(t) /\ lock = t
      /\ at[t] = i /\ i <= Size
      /\ setup.kind = "path" /\ setup' = setup /\ given' = given
      /\ records' = records /\ rows' = rows /\ at' = [at EXCEPT ![t] = @ + 1]
      /\ pc' = pc /\ outcome' = outcome /\ lock' = lock /\ json_data' = json_data
  BY DEF IInv, KeepRecord, Turn, Advance, Inside, Exclusive
<1>2. DOMAIN page = 1..Len(page) /\ Len(page) \in Nat /\ i \in DOMAIN page
  BY <1>1, PageLength DEF Working
<1>3. nodes = Now(i)
  BY <1>1 DEF Own, Loaded
<1>4. Typed'
  BY <1>1, AtTyped DEF Typed
<1>5. Exclusive'
  BY <1>1 DEF Exclusive, Inside, Typed
<1>6. Leaves(t)
  BY <1>1 DEF Leaves, Typed
<1>7. at'[t] = i + 1 /\ pc'[t] = "screen"
  BY <1>1 DEF Typed
<1>8. nodes' = Now(i + 1)
  <2> DEFINE own == Discover(page)[i]
  <2>1. nodes[i] = own
    BY <1>2, <1>3
  <2>2. Kept(setup, page)[i] = IF Screened(setup, HeldPaths(setup, own)) THEN own ELSE <<>>
    BY <1>2 DEF Kept
  <2>3. nodes' = [nodes EXCEPT ![i] = Kept(setup, page)[i]]
    <3>1. CASE Screened(setup, HeldPaths(setup, own))
      <4>1. nodes' = nodes
        BY <3>1, <2>1 DEF KeepRecord
      <4>2. nodes = [nodes EXCEPT ![i] = nodes[i]]
        BY <1>2, <1>3
      <4> QED BY <3>1, <4>1, <4>2, <2>1, <2>2
    <3>2. CASE ~Screened(setup, HeldPaths(setup, own))
      <4>1. nodes' = [nodes EXCEPT ![i] = <<>>]
        BY <3>2, <2>1 DEF KeepRecord
      <4> QED BY <3>2, <4>1, <2>2
    <3> QED BY <3>1, <3>2
  <2>4. \A j \in DOMAIN page : j < i + 1 <=> (j < i \/ j = i)
    BY <1>2
  <2> QED BY <1>2, <1>3, <2>3, <2>4
<1>9. Loaded(t)'
  BY <1>1, <1>7, <1>8 DEF Own, Loaded
<1>10. OwnPage(t)' /\ OwnRowsSoFar(t)' /\ Right(t)'
  BY <1>1, <1>7 DEF Own, OwnPage, OwnRowsSoFar, Right, Delivered, Working, Inside
<1>11. \A u \in Threads : Own(u)'
  BY <1>6, <1>9, <1>10, OthersKept DEF Own
<1> QED BY <1>4, <1>5, <1>11 DEF IInv

LEMMA FlattenRecordStep ==
    ASSUME IInv, NEW t \in Threads, NEW i \in Nat \ {0}, FlattenRecord(t, i)
    PROVE  IInv'
<1> DEFINE page == records[t]
           all == PageRows(setup, page)
           first == FirstPicked(all, Wanted(setup, page))
<1>1. /\ Typed /\ Exclusive /\ Own(t) /\ pc[t] = "screen" /\ Inside(t) /\ lock = t
      /\ at[t] = i /\ i <= Size
      /\ setup.kind = "recursive" /\ setup' = setup /\ given' = given
      /\ records' = records /\ nodes' = nodes /\ at' = [at EXCEPT ![t] = @ + 1]
      /\ pc' = pc /\ outcome' = outcome /\ lock' = lock /\ json_data' = json_data
  BY DEF IInv, FlattenRecord, Turn, Advance, Inside, Exclusive
<1>2. /\ DOMAIN page = 1..Len(page) /\ Len(page) \in Nat /\ i \in 1..Len(page)
      /\ json_data = page
  BY <1>1, PageLength DEF Working, Own, Loaded
<1>3. Len(all) = Len(page)
  BY <1>2, RowsOfPage
<1>4. /\ rows[t] = first[i - 1]
      /\ rows' = IF i \in Wanted(setup, page) THEN [rows EXCEPT ![t] = Append(@, all[i])]
                 ELSE rows
  BY <1>1, <1>2 DEF Own, OwnRowsSoFar, FlattenRecord
<1>5. first[i] = IF i \in Wanted(setup, page) THEN Append(first[i - 1], all[i])
                 ELSE first[i - 1]
  <2> HIDE DEF all
  <2>1. i \in 0..Len(all) /\ i # 0 /\ Len(all) \in Nat
    BY <1>2, <1>3
  <2>2. first = [n \in 0..Len(all) |->
                  IF n = 0 THEN <<>>
                  ELSE IF n \in Wanted(setup, page) THEN Append(first[n - 1], all[n])
                  ELSE first[n - 1]]
    BY <2>1, FirstPickedEquation
  <2> HIDE DEF first
  <2> QED BY <2>1, <2>2
<1>6. rows'[t] = first[i]
  <2> HIDE DEF first, all
  <2> QED BY <1>1, <1>4, <1>5 DEF Typed
<1>7. Typed'
  BY <1>1, <1>4, AtTyped DEF Typed
<1>8. Exclusive'
  BY <1>1 DEF Exclusive, Inside, Typed
<1>9. Leaves(t)
  <2> HIDE DEF first, all
  <2> QED BY <1>1, <1>4 DEF Leaves, Typed
<1>10. at'[t] = i + 1 /\ pc'[t] = "screen" /\ at'[t] - 1 = i
  <2>1. at'[t] = i + 1 /\ pc'[t] = "screen"
    BY <1>1 DEF Typed
  <2> QED BY <2>1
<1>11. OwnRowsSoFar(t)'
  BY <1>1, <1>2, <1>6, <1>10 DEF OwnRowsSoFar
<1>12. OwnPage(t)' /\ Loaded(t)' /\ Right(t)'
  BY <1>1, <1>10 DEF Own, OwnPage, Loaded, Right, Delivered, Working, Inside
<1>13. \A u \in Threads : Own(u)'
  BY <1>9, <1>11, <1>12, OthersKept DEF Own
<1> QED BY <1>7, <1>8, <1>13 DEF IInv

\* When the loop of the path processor is over, the nodes are those it kept.
LEMMA AllKept ==
    ASSUME IInv, NEW t \in Threads, Over(t), setup.kind = "path"
    PROVE  nodes = Kept(setup, records[t])
<1> DEFINE page == records[t]
<1>1. pc[t] = "screen" /\ Working(t) /\ at[t] > Size
  BY DEF Over, Working, Inside
<1>2. /\ DOMAIN page = 1..Len(page) /\ Len(page) \in Nat /\ Size = Len(page)
      /\ at[t] \in Nat
  BY <1>1, PageLength DEF IInv, Typed
<1>3. nodes = [i \in DOMAIN page |->
                  IF i < at[t] THEN Kept(setup, page)[i] ELSE Discover(page)[i]]
  BY <1>1 DEF IInv, Own, Loaded
<1>4. \A i \in DOMAIN page : i < at[t]
  BY <1>1, <1>2
<1>5. DOMAIN Kept(setup, page) = DOMAIN page
      /\ Kept(setup, page) = [i \in DOMAIN page |-> Kept(setup, page)[i]]
  BY DEF Kept
<1> QED BY <1>3, <1>4, <1>5

LEMMA CombineStep ==
    ASSUME IInv, NEW t \in Threads, Combine(t)
    PROVE  IInv'
<1> DEFINE page == records[t]
           combined == CombineKeys(Kept(setup, page))
<1>1. /\ Typed /\ Exclusive /\ Own(t) /\ pc[t] = "screen" /\ Inside(t) /\ lock = t
      /\ setup.kind = "path" /\ setup' = setup /\ given' = given
      /\ records' = records /\ rows' = rows /\ at' = at /\ json_data' = json_data
  BY DEF IInv, Combine, Over, Inside, Exclusive
<1>2. /\ nodes' = combined.nodes
      /\ IF combined.raised THEN End(t, "error") /\ lock' = NoOne
         ELSE Goto(t, "combined") /\ UNCHANGED lock
  BY AllKept DEF Combine
<1>3. LET found == Extracted(setup, given[t])
      IN  found # <<>> /\ found[1] = page /\ page # <<>>
  BY <1>1 DEF Own, OwnPage, Working
<1> HIDE DEF combined
<1>4. Leaves(t)
  BY <1>1, <1>2 DEF Leaves, Typed, End, Goto
<1>5. CASE combined.raised
  <2>1. /\ pc' = [pc EXCEPT ![t] = "done"] /\ outcome' = [outcome EXCEPT ![t] = "error"]
        /\ lock' = NoOne
    BY <1>2, <1>5 DEF End
  <2>2. Typed'
    BY <1>1, <2>1 DEF Typed
  <2>3. Exclusive'
    BY <1>1, <2>1, PipelineAssumption DEF Exclusive, Inside, Typed, PipelineAssumption
  <2>4. pc'[t] = "done" /\ outcome'[t] = "error"
    BY <1>1, <2>1 DEF Typed
  <2>5. LET found == Extracted(setup, given[t]) IN found \notin {<<>>, <<<<>>>>}
    BY <1>3
  <2>6. Right(t)'
    BY <1>1, <1>3, <1>5, <2>4, <2>5 DEF Right, Delivered, combined
  <2>7. \A u \in Threads : Own(u)'
    BY <1>4, <2>4, <2>6, DoneOwn, OthersKept
  <2> QED BY <2>2, <2>3, <2>7 DEF IInv
<1>6. CASE ~combined.raised
  <2>1. pc' = [pc EXCEPT ![t] = "combined"] /\ outcome' = outcome /\ lock' = lock
    BY <1>2, <1>6 DEF Goto
  <2>2. Typed'
    BY <1>1, <2>1 DEF Typed
  <2>3. Exclusive'
    BY <1>1, <2>1 DEF Exclusive, Inside, Typed
  <2>4. pc'[t] = "combined"
    BY <1>1, <2>1 DEF Typed
  <2>5. Own(t)'
    BY <1>1, <1>2, <2>4
       DEF Own, OwnPage, OwnRowsSoFar, Loaded, Right, Delivered, Working, Inside, combined
  <2>6. \A u \in Threads : Own(u)'
    BY <1>4, <2>5, OthersKept
  <2> QED BY <2>2, <2>3, <2>6 DEF IInv
<1> QED BY <1>5, <1>6
LEMMA SimplifyStep ==
    ASSUME IInv, NEW t \in Threads, Simplify(t)
    PROVE  IInv'
<1> DEFINE page == records[t]
<1>1. /\ Typed /\ Exclusive /\ Own(t) /\ pc[t] = "combined" /\ Inside(t) /\ lock = t
      /\ setup' = setup /\ given' = given /\ records' = records /\ at' = at
      /\ json_data' = json_data /\ nodes' = nodes /\ lock' = NoOne
      /\ pc' = [pc EXCEPT ![t] = "done"] /\ outcome' = [outcome EXCEPT ![t] = "rows"]
      /\ rows' = [rows EXCEPT ![t] = Rows(nodes)]
  BY DEF IInv, Simplify, End, Inside, Exclusive
<1>2. setup.kind = "path" /\ nodes = CombineKeys(Kept(setup, page)).nodes
  BY <1>1 DEF Own, Loaded
<1>3. LET found == Extracted(setup, given[t])
      IN  found # <<>> /\ found[1] = page /\ page # <<>>
  BY <1>1 DEF Own, OwnPage, Working
<1>4. Typed'
  BY <1>1 DEF Typed
<1>5. Exclusive'
  BY <1>1, PipelineAssumption DEF Exclusive, Inside, Typed, PipelineAssumption
<1>6. Leaves(t)
  BY <1>1 DEF Leaves, Typed
<1>7. pc'[t] = "done" /\ outcome'[t] = "rows" /\ rows'[t] = Rows(nodes)
  BY <1>1 DEF Typed
<1>8. Right(t)'
  BY <1>1, <1>2, <1>3, <1>7 DEF Right, Delivered, OwnRows
<1>9. \A u \in Threads : Own(u)'
  BY <1>6, <1>7, <1>8, DoneOwn, OthersKept
<1> QED BY <1>4, <1>5, <1>9 DEF IInv

LEMMA ReturnStep ==
    ASSUME IInv, NEW t \in Threads, Return(t)
    PROVE  IInv'
<1> DEFINE page == records[t]
           all == PageRows(setup, page)
<1>1. /\ Typed /\ Exclusive /\ Own(t) /\ pc[t] = "screen" /\ Inside(t) /\ lock = t
      /\ at[t] > Size /\ setup.kind = "recursive"
      /\ setup' = setup /\ given' = given /\ records' = records /\ at' = at
      /\ json_data' = json_data /\ nodes' = nodes /\ lock' = NoOne /\ rows' = rows
      /\ pc' = [pc EXCEPT ![t] = "done"] /\ outcome' = [outcome EXCEPT ![t] = "rows"]
  BY DEF IInv, Return, Over, End, Inside, Exclusive
<1>2. DOMAIN page = 1..Len(page) /\ Len(page) \in Nat /\ Size = Len(page)
  BY <1>1, PageLength DEF Working
<1>3. Len(all) = Len(page)
  BY <1>2, RowsOfPage
<1>4. at[t] - 1 = Len(page)
  <2>1. at[t] <= Len(page) + 1 /\ at[t] \in Nat
    BY <1>1 DEF Own, OwnRowsSoFar, Typed
  <2> QED BY <1>1, <1>2, <2>1
<1>5. rows[t] = Picked(all, Wanted(setup, page))
  BY <1>1, <1>3, <1>4 DEF Own, OwnRowsSoFar, Picked
<1>6. LET found == Extracted(setup, given[t])
      IN  found # <<>> /\ found[1] = page /\ page # <<>>
  BY <1>1 DEF Own, OwnPage, Working
<1>7. Typed'
  BY <1>1 DEF Typed
<1>8. Exclusive'
  BY <1>1, PipelineAssumption DEF Exclusive, Inside, Typed, PipelineAssumption
<1>9. Leaves(t)
  BY <1>1 DEF Leaves, Typed
<1>10. pc'[t] = "done" /\ outcome'[t] = "rows" /\ rows'[t] = rows[t]
  BY <1>1 DEF Typed
<1>11. Right(t)'
  BY <1>1, <1>5, <1>6, <1>10 DEF Right, Delivered, OwnRows
<1>12. \A u \in Threads : Own(u)'
  BY <1>9, <1>10, <1>11, DoneOwn, OthersKept
<1> QED BY <1>7, <1>8, <1>12 DEF IInv

----------------------------------------------------------------------------
(* The theorems *)

LEMMA NextIInv == IInv /\ [Next]_vars => IInv'
<1> SUFFICES ASSUME IInv, [Next]_vars PROVE IInv'
  OBVIOUS
<1>1. CASE UNCHANGED vars
  <2>1. Typed' /\ Exclusive'
    BY <1>1 DEF vars, IInv, Typed, Exclusive, Inside
  <2>2. ASSUME NEW t \in Threads PROVE Own(t)'
    <3>1. Own(t)
      BY DEF IInv
    <3>2. OwnPage(t)' /\ OwnRowsSoFar(t)'
      BY <1>1, <3>1 DEF vars, Own, OwnPage, OwnRowsSoFar, Working, Inside
    <3>3. Loaded(t)'
      BY <1>1, <3>1 DEF vars, Own, Loaded, Inside
    <3>4. Right(t)'
      BY <1>1, <3>1 DEF vars, Own, Right, Delivered
    <3> QED BY <3>2, <3>3, <3>4 DEF Own
  <2> QED BY <2>1, <2>2 DEF IInv
<1>2. ASSUME NEW t \in Threads, NEW r \in Sent[t], Receive(t, r) PROVE IInv'
  BY <1>2, ReceiveStep
<1>3. ASSUME NEW t \in Threads,
             FilterPage(t) \/ Enter(t) \/ LoadNodes(t) \/ LoadPage(t) \/ Combine(t)
                \/ Simplify(t) \/ Return(t)
      PROVE  IInv'
  BY <1>3, FilterPageStep, EnterStep, LoadNodesStep, LoadPageStep, CombineStep, SimplifyStep,
     ReturnStep
<1>4. ASSUME NEW t \in Threads, NEW i \in 1..Size, KeepRecord(t, i) \/ FlattenRecord(t, i)
      PROVE  IInv'
  <2>1. i \in Nat \ {0}
    <3>1. Working(t) /\ pc[t] = "screen"
      BY <1>4 DEF KeepRecord, FlattenRecord, Turn, Working, Inside
    <3> QED BY <3>1, PageLength
  <2> QED BY <1>4, <2>1, KeepRecordStep, FlattenRecordStep
<1> QED BY <1>1, <1>2, <1>3, <1>4 DEF Next, Finished

\* The rows so far are those of the thread's own page at every step, and the
\* processor holds that page whenever the thread is inside.
THEOREM PipelineInvariant == Spec => []IInv
<1>1. Init => IInv
  BY InitIInv
<1>2. IInv /\ [Next]_vars => IInv'
  BY NextIInv
<1> QED BY <1>1, <1>2, PTL DEF Spec

\* Coordinators that share a processor get the rows of their own pages, for any
\* number of threads, responses, setups and contents of records.
THEOREM RowsAreOwn == Spec => []OwnRecords
<1>1. IInv => OwnRecords
  BY DEF IInv, Own, Right, OwnRecords
<1> QED BY <1>1, PipelineInvariant, PTL

\* No response ends in an error for what another response held.
THEOREM ErrorsAreOwn == Spec => []ErrorsJustified
<1>1. IInv => ErrorsJustified
  BY DEF IInv, Own, Right, ErrorsJustified
<1> QED BY <1>1, PipelineInvariant, PTL
=============================================================================
