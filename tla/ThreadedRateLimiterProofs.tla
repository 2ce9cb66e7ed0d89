--------------------- MODULE ThreadedRateLimiterProofs ---------------------
(***************************************************************************)
(* Proofs about ThreadedRateLimiter, for any number of threads and any     *)
(* intervals.  TypeOK is inductive by itself; LimiterInv is inductive      *)
(* relative to it and gives the spacing of admissions, the restoration of  *)
(* nested rate() blocks and the refinement of Throttle.                    *)
(***************************************************************************)
EXTENDS ThreadedRateLimiter, SequenceTheorems, TLAPS

\* Pop drops the last element of a non-empty sequence and keeps the others.
LEMMA PopProperties ==
  ASSUME NEW S, NEW s \in Seq(S)
  PROVE  /\ Pop(s) \in Seq(S)
         /\ s # << >> => /\ Len(Pop(s)) = Len(s) - 1
                         /\ \A k \in 1..(Len(s) - 1) : Pop(s)[k] = s[k]
<1> DEFINE n == Len(s)
<1>1. n \in Nat /\ (s # << >> => n > 0) /\ \A k \in 1..(n - 1) : s[k] \in S
  BY LenProperties, EmptySeq
<1>2. /\ SubSeq(s, 1, n - 1) \in Seq(S)
      /\ Len(SubSeq(s, 1, n - 1)) = IF 1 <= n - 1 THEN (n - 1) - 1 + 1 ELSE 0
      /\ \A k \in 1..((n - 1) - 1 + 1) : SubSeq(s, 1, n - 1)[k] = s[1 + k - 1]
  <2> HIDE DEF n
  <2> QED
    BY <1>1, SubSeqProperties
<1>3. ASSUME NEW k \in 1..(n - 1) PROVE SubSeq(s, 1, n - 1)[k] = s[k]
  <2> HIDE DEF n
  <2>1. k \in 1..((n - 1) - 1 + 1) /\ 1 + k - 1 = k
    BY <1>1
  <2> QED
    BY <1>2, <2>1
<1>4. s # << >> => Len(SubSeq(s, 1, n - 1)) = n - 1
  <2> HIDE DEF n
  <2> QED
    BY <1>1, <1>2
<1> QED
  BY <1>2, <1>3, <1>4 DEF Pop

\* What the proofs use of the assumption on the constants.
LEMMA Constants ==
  /\ NoThread \notin Threads
  /\ Horizon \in Nat
  /\ Default \in Intervals
  /\ Intervals \subseteq 0..Horizon
  /\ Floor \in Nat /\ \A i \in Intervals : Floor <= i
  /\ \A i \in Inputs \cup Assigned \cup {Default} : Valid(i) => i \in Intervals
<1>1. Default \in Intervals
  BY LimiterAssumption DEF LimiterAssumption, Intervals, Valid
<1>2. ASSUME NEW i \in Intervals PROVE i \in 0..Horizon
  <2>1. i \in Int /\ i >= 0
    BY LimiterAssumption DEF LimiterAssumption, Intervals, Valid
  <2>2. Horizon \in Nat /\ i <= Horizon
    BY LimiterAssumption DEF LimiterAssumption
  <2> QED
    BY <2>1, <2>2
<1> QED
  BY <1>1, <1>2, LimiterAssumption DEF LimiterAssumption, Intervals

\* Every variable keeps its type.
THEOREM TypeCorrect == Spec => []TypeOK
<1> USE Constants
<1>1. Init => TypeOK
  <2> SUFFICES ASSUME Init PROVE TypeOK
    OBVIOUS
  <2>1. open \in Seq(Threads)
    BY EmptySeq DEF Init
  <2>2. pc \in [Threads -> PCs] /\ sleep \in [Threads -> 0..Horizon]
    BY DEF Init, PCs
  <2>3. elapsed \in 0..Horizon /\ lock \in Threads \cup {NoThread}
    BY DEF Init
  <2>4. /\ min_interval \in Intervals /\ configured \in Intervals
        /\ saved \in [Threads -> Intervals] /\ interval \in [Threads -> Intervals]
        /\ arg \in [Threads -> Inputs \cup {Default}]
    BY DEF Init
  <2>5. disturbed \in BOOLEAN /\ in_rate \in [Threads -> BOOLEAN]
    BY DEF Init
  <2> QED
    BY <2>1, <2>2, <2>3, <2>4, <2>5 DEF TypeOK
<1>2. TypeOK /\ [Next]_vars => TypeOK'
  <2> SUFFICES ASSUME TypeOK, [Next]_vars PROVE TypeOK'
    OBVIOUS
  <2> USE DEF TypeOK, PCs, Goto, shared, locals, history
  <2>1. ASSUME NEW t \in Threads, NEW i \in Inputs, CallWait(t, i) PROVE TypeOK'
    BY <2>1 DEF CallWait
  <2>2. ASSUME NEW t \in Threads, NEW i \in Inputs, CallRate(t, i) PROVE TypeOK'
    BY <2>2 DEF CallRate
  <2>3. ASSUME NEW t \in Threads, CallBareWait(t) PROVE TypeOK'
    BY <2>3 DEF CallBareWait
  <2>4. ASSUME NEW t \in Threads, ReadInterval(t) PROVE TypeOK'
    BY <2>4 DEF ReadInterval
  <2>5. ASSUME NEW t \in Threads, AcquireAndSleep(t) PROVE TypeOK'
    <3>1. interval[t] \in Intervals /\ interval[t] \in 0..Horizon
      OBVIOUS
    <3>2. Remaining(interval[t]) \in 0..Horizon
      BY <3>1 DEF Remaining
    <3> QED
      BY <2>5, <3>2 DEF AcquireAndSleep
  <2>6. ASSUME NEW t \in Threads, Record(t) PROVE TypeOK'
    BY <2>6 DEF Record
  <2>7. ASSUME NEW t \in Threads, RateSave(t) PROVE TypeOK'
    <3>1. open' \in Seq(Threads)
      BY <2>7, AppendProperties, EmptySeq DEF RateSave
    <3> QED
      BY <2>7, <3>1 DEF RateSave
  <2>8. ASSUME NEW t \in Threads, RateSet(t) PROVE TypeOK'
    BY <2>8 DEF RateSet
  <2>9. ASSUME NEW t \in Threads, RateReject(t) PROVE TypeOK'
    <3>1. open' \in Seq(Threads)
      BY <2>9, PopProperties, EmptySeq DEF RateReject
    <3> QED
      BY <2>9, <3>1 DEF RateReject
  <2>10. ASSUME NEW t \in Threads, LeaveBlock(t) PROVE TypeOK'
    BY <2>10 DEF LeaveBlock
  <2>11. ASSUME NEW t \in Threads, RateRestore(t) PROVE TypeOK'
    <3>1. open' \in Seq(Threads)
      BY <2>11, PopProperties, EmptySeq DEF RateRestore
    <3> QED
      BY <2>11, <3>1 DEF RateRestore
  <2>12. ASSUME NEW i \in Assigned, AssignInterval(i) PROVE TypeOK'
    BY <2>12, EmptySeq DEF AssignInterval
  <2>13. CASE Tick
    BY <2>13 DEF Tick
  <2>14. CASE UNCHANGED vars
    BY <2>14 DEF vars
  <2> QED
    BY <2>1, <2>2, <2>3, <2>4, <2>5, <2>6, <2>7, <2>8, <2>9, <2>10, <2>11,
       <2>12, <2>13, <2>14 DEF Next, Calling, Running
<1> QED
  BY <1>1, <1>2, PTL DEF Spec

\* Control, lock and sleep: the lock is a mutual exclusion and the sleeper's
\* remaining time still covers its interval.
LockInv == RateControl /\ LockHeldInside /\ SleepCoversInterval

LEMMA LockInvHolds == Spec => []LockInv
<1> USE Constants
<1>1. Init => LockInv
  BY DEF Init, LockInv, RateControl, LockHeldInside, SleepCoversInterval
<1>2. TypeOK /\ LockInv /\ [Next]_vars => LockInv'
  <2> SUFFICES ASSUME TypeOK, LockInv, [Next]_vars PROVE LockInv'
    OBVIOUS
  <2>0. /\ pc \in [Threads -> PCs] /\ in_rate \in [Threads -> BOOLEAN]
        /\ lock \in Threads \cup {NoThread} /\ elapsed \in 0..Horizon
        /\ interval \in [Threads -> 0..Horizon] /\ sleep \in [Threads -> 0..Horizon]
        /\ arg \in [Threads -> Inputs \cup {Default}]
    BY DEF TypeOK
  <2> USE DEF PCs, Goto, shared, locals, history, LockInv, RateControl,
              LockHeldInside, SleepCoversInterval
  <2>1. ASSUME NEW t \in Threads, NEW i \in Inputs, CallWait(t, i) PROVE LockInv'
    BY <2>0, <2>1 DEF CallWait
  <2>2. ASSUME NEW t \in Threads, NEW i \in Inputs, CallRate(t, i) PROVE LockInv'
    BY <2>0, <2>2 DEF CallRate
  <2>3. ASSUME NEW t \in Threads, CallBareWait(t) PROVE LockInv'
    BY <2>0, <2>3 DEF CallBareWait
  <2>4. ASSUME NEW t \in Threads, ReadInterval(t) PROVE LockInv'
    BY <2>0, <2>4 DEF ReadInterval
  <2>5. ASSUME NEW t \in Threads, AcquireAndSleep(t) PROVE LockInv'
    <3>1. elapsed + Remaining(interval[t]) >= interval[t]
      BY <2>0 DEF Remaining
    <3>2. SleepCoversInterval'
      BY <2>0, <2>5, <3>1 DEF AcquireAndSleep
    <3> QED
      BY <2>0, <2>5, <3>2 DEF AcquireAndSleep
  <2>6. ASSUME NEW t \in Threads, Record(t) PROVE LockInv'
    BY <2>0, <2>6 DEF Record
  <2>7. ASSUME NEW t \in Threads, RateSave(t) PROVE LockInv'
    BY <2>0, <2>7 DEF RateSave
  <2>8. ASSUME NEW t \in Threads, RateSet(t) PROVE LockInv'
    BY <2>0, <2>8 DEF RateSet
  <2>9. ASSUME NEW t \in Threads, RateReject(t) PROVE LockInv'
    BY <2>0, <2>9 DEF RateReject
  <2>10. ASSUME NEW t \in Threads, LeaveBlock(t) PROVE LockInv'
    BY <2>0, <2>10 DEF LeaveBlock
  <2>11. ASSUME NEW t \in Threads, RateRestore(t) PROVE LockInv'
    BY <2>0, <2>11 DEF RateRestore
  <2>12. ASSUME NEW i \in Assigned, AssignInterval(i) PROVE LockInv'
    BY <2>0, <2>12 DEF AssignInterval
  <2>13. CASE Tick
    <3>1. SleepCoversInterval'
      BY <2>0, <2>13 DEF Tick
    <3> QED
      BY <2>0, <2>13, <3>1 DEF Tick
  <2>14. CASE UNCHANGED vars
    BY <2>14 DEF vars
  <2> QED
    BY <2>1, <2>2, <2>3, <2>4, <2>5, <2>6, <2>7, <2>8, <2>9, <2>10, <2>11,
       <2>12, <2>13, <2>14 DEF Next, Calling, Running
<1> QED
  BY <1>1, <1>2, TypeCorrect, PTL DEF Spec

\* A thread leaves the sleep of wait() by recording its admission only.
LEMMA LeavesSleepByRecord ==
  ASSUME TypeOK, [Next]_vars, NEW t \in Threads, pc[t] = "sleep", pc'[t] # "sleep"
  PROVE  Record(t)
<1> USE DEF TypeOK, Goto
<1>1. ASSUME NEW u \in Threads, NEW i \in Inputs, CallWait(u, i) PROVE FALSE
  BY <1>1 DEF CallWait
<1>2. ASSUME NEW u \in Threads, NEW i \in Inputs, CallRate(u, i) PROVE FALSE
  BY <1>2 DEF CallRate
<1>3. ASSUME NEW u \in Threads, CallBareWait(u) PROVE FALSE
  BY <1>3 DEF CallBareWait
<1>4. ASSUME NEW u \in Threads, ReadInterval(u) PROVE FALSE
  BY <1>4 DEF ReadInterval
<1>5. ASSUME NEW u \in Threads, AcquireAndSleep(u) PROVE FALSE
  BY <1>5 DEF AcquireAndSleep
<1>6. ASSUME NEW u \in Threads, RateSave(u) PROVE FALSE
  BY <1>6 DEF RateSave
<1>7. ASSUME NEW u \in Threads, RateSet(u) PROVE FALSE
  BY <1>7 DEF RateSet
<1>8. ASSUME NEW u \in Threads, RateReject(u) PROVE FALSE
  BY <1>8 DEF RateReject
<1>9. ASSUME NEW u \in Threads, LeaveBlock(u) PROVE FALSE
  BY <1>9 DEF LeaveBlock
<1>10. ASSUME NEW u \in Threads, RateRestore(u) PROVE FALSE
  BY <1>10 DEF RateRestore
<1>11. ~UNCHANGED vars /\ ~Tick /\ ~(\E i \in Assigned : AssignInterval(i))
  BY DEF vars, locals, Tick, AssignInterval
<1>12. PICK u \in Threads : Record(u)
  BY <1>1, <1>2, <1>3, <1>4, <1>5, <1>6, <1>7, <1>8, <1>9, <1>10, <1>11
  DEF Next, Calling, Running
<1> QED
  BY <1>12 DEF Record

\* Admissions are spaced by the interval the admitted thread read.
THEOREM SpacingOfAdmissions == Spec => AdmissionSpacing
<1>1. TypeOK /\ LockInv /\ [Next]_vars =>
        [\A t \in Threads :
            (pc[t] = "sleep" /\ pc'[t] # "sleep") => elapsed >= interval[t]]_vars
  <2> SUFFICES ASSUME TypeOK, LockInv, [Next]_vars, NEW t \in Threads,
                      pc[t] = "sleep", pc'[t] # "sleep"
               PROVE  elapsed >= interval[t]
    OBVIOUS
  <2>1. sleep[t] = 0
    BY LeavesSleepByRecord DEF Record
  <2>2. elapsed + sleep[t] >= interval[t]
    BY DEF LockInv, SleepCoversInterval
  <2>3. elapsed \in 0..Horizon /\ interval[t] \in Intervals
    BY DEF TypeOK
  <2> QED
    BY <2>1, <2>2, <2>3, Constants
<1> QED
  BY <1>1, TypeCorrect, LockInvHolds, PTL DEF Spec, AdmissionSpacing

\* The spacing is never below the smallest interval anybody may ask for: the
\* limiter implements the abstract throttle.
THEOREM LimiterImplementsThrottle == Spec => ImplementsThrottle
<1> DEFINE inside == {t \in Threads : pc[t] = "sleep"}
<1>1. Init => Promise!Init
  BY DEF Init, Promise!Init
<1>2. TypeOK /\ LockInv /\ [Next]_vars => [Promise!Next]_<<elapsed, inside>>
  <2> SUFFICES ASSUME TypeOK, LockInv, [Next]_vars
               PROVE [Promise!Next]_<<elapsed, inside>>
    OBVIOUS
  <2>0. pc \in [Threads -> PCs] /\ NoThread \notin Threads
    BY Constants DEF TypeOK
  <2>1. ASSUME NEW t \in Threads, Record(t) PROVE Promise!Admit(t)
    <3>1. elapsed + sleep[t] >= interval[t] /\ sleep[t] = 0 /\ elapsed' = 0
      BY <2>1 DEF Record, Goto, LockInv, SleepCoversInterval
    <3>2. elapsed \in 0..Horizon /\ interval[t] \in Intervals
      BY DEF TypeOK
    <3>3. elapsed >= Floor
      <4>1. interval[t] \in 0..Horizon /\ Floor \in Nat /\ Horizon \in Nat
        BY <3>2, Constants
      <4>2. Floor <= interval[t]
        BY <3>2, Constants
      <4> QED
        BY <3>1, <3>2, <4>1, <4>2
    <3>4. t \in inside
      BY <2>1 DEF Record, Goto
    <3>5. inside' = {}
      <4>1. \A u \in Threads : pc[u] = "sleep" => u = t
        BY <2>1 DEF Record, Goto, LockInv, LockHeldInside
      <4>2. \A u \in Threads : pc'[u] # "sleep"
        BY <2>0, <2>1, <4>1 DEF Record, Goto
      <4> QED
        BY <4>2
    <3> QED
      BY <3>1, <3>3, <3>4, <3>5 DEF Promise!Admit
  <2>2. ASSUME NEW t \in Threads, AcquireAndSleep(t) PROVE Promise!Enter(t)
    <3>1. inside = {}
      BY <2>0, <2>2 DEF AcquireAndSleep, LockInv, LockHeldInside
    <3>2. inside' = {t}
      BY <2>0, <2>2, <3>1 DEF AcquireAndSleep, Goto
    <3> QED
      BY <2>2, <3>1, <3>2 DEF AcquireAndSleep, Promise!Enter
  <2>3. CASE Tick
    BY <2>3 DEF Tick, Promise!Next, Promise!Tick
  <2>4. ASSUME NEW t \in Threads,
               \/ \E i \in Inputs : CallWait(t, i) \/ CallRate(t, i)
               \/ CallBareWait(t) \/ ReadInterval(t) \/ RateSave(t) \/ RateSet(t)
               \/ RateReject(t) \/ LeaveBlock(t) \/ RateRestore(t)
        PROVE UNCHANGED <<elapsed, inside>>
    <3>1. elapsed' = elapsed
      BY <2>4 DEF CallWait, CallRate, CallBareWait, ReadInterval, RateSave, RateSet,
         RateReject, LeaveBlock, RateRestore, shared
    <3>2. \A u \in Threads : pc'[u] = "sleep" <=> pc[u] = "sleep"
      BY <2>0, <2>4 DEF CallWait, CallRate, CallBareWait, ReadInterval, RateSave,
         RateSet, RateReject, LeaveBlock, RateRestore, Goto
    <3> QED
      BY <3>1, <3>2
  <2>5. ASSUME NEW i \in Assigned, AssignInterval(i)
        PROVE UNCHANGED <<elapsed, inside>>
    BY <2>5 DEF AssignInterval, locals
  <2>6. CASE UNCHANGED vars
    BY <2>6 DEF vars, shared, locals
  <2> QED
    BY <2>1, <2>2, <2>3, <2>4, <2>5, <2>6 DEF Next, Calling, Running, Promise!Next
<1> QED
  BY <1>1, <1>2, TypeCorrect, LockInvHolds, PTL DEF Spec, ImplementsThrottle, Promise!Spec

\* What all callers agree on cannot change: if every interval anybody passes is
\* the configured one and nobody assigns the attribute, admissions are spaced
\* by the configured interval for ever.
THEOREM SharedIntervalIsKept ==
  ASSUME Inputs \subseteq {Default}, Assigned = {}
  PROVE  Spec => ConfiguredSpacing
<1>1. Intervals \subseteq {Default}
  BY DEF Intervals
<1>2. TypeOK /\ TypeOK' /\ LockInv /\ [Next]_vars =>
        [/\ min_interval' = Default
         /\ \A t \in Threads :
              (pc[t] = "sleep" /\ pc'[t] # "sleep") => elapsed >= Default]_vars
  <2> SUFFICES ASSUME TypeOK, TypeOK', LockInv, [Next]_vars
               PROVE  /\ min_interval' = Default
                      /\ \A t \in Threads :
                           (pc[t] = "sleep" /\ pc'[t] # "sleep") => elapsed >= Default
    OBVIOUS
  <2>1. min_interval' = Default
    BY <1>1 DEF TypeOK
  <2>2. ASSUME NEW t \in Threads, pc[t] = "sleep", pc'[t] # "sleep"
        PROVE  elapsed >= Default
    <3>1. elapsed + sleep[t] >= interval[t] /\ sleep[t] = 0
      BY <2>2, LeavesSleepByRecord DEF Record, LockInv, SleepCoversInterval
    <3>2. elapsed \in 0..Horizon /\ interval[t] \in Intervals
      BY DEF TypeOK
    <3>3. interval[t] = Default
      BY <1>1, <3>2
    <3> QED
      BY <3>1, <3>2, <3>3, Constants
  <2> QED
    BY <2>1, <2>2
<1> QED
  BY <1>2, TypeCorrect, LockInvHolds, PTL DEF Spec, ConfiguredSpacing

NestingInv == OpenBlocks /\ NestedChain

\* The elements of `open' are threads.
LEMMA OpenElements ==
  ASSUME TypeOK
  PROVE  /\ Len(open) \in Nat
         /\ \A k \in 1..Len(open) : open[k] \in Threads
         /\ open # << >> <=> Len(open) > 0
         /\ open # << >> => Last(open) = open[Len(open)] /\ Last(open) \in Threads
<1>1. Len(open) \in Nat /\ \A k \in 1..Len(open) : open[k] \in Threads
  BY LenProperties DEF TypeOK
<1>2. open # << >> <=> Len(open) > 0
  BY <1>1, EmptySeq DEF TypeOK
<1> QED
  BY <1>1, <1>2 DEF Last

\* rate() saving: the new block goes on top of the chain.
LEMMA SaveExtendsChain ==
  ASSUME TypeOK, LockInv, NestingInv, NEW t \in Threads, RateSave(t)
  PROVE  NestingInv'
<1> SUFFICES ASSUME ~disturbed PROVE NestingInv'
  BY DEF NestingInv, OpenBlocks, NestedChain, RateSave
<1> DEFINE n == Len(open)
<1>1. /\ n \in Nat /\ Len(open') = n + 1 /\ open' # << >>
      /\ \A k \in 1..n : open'[k] = open[k] /\ open[k] \in Threads
      /\ open'[n + 1] = t /\ Last(open') = t
  <2>1. open' = Append(open, t) /\ open \in Seq(Threads)
    BY DEF RateSave, TypeOK
  <2>2. Len(open') = n + 1 /\ open' # << >>
        /\ (\A k \in 1..n : open'[k] = open[k]) /\ open'[n + 1] = t
    BY <2>1, AppendProperties
  <2> QED
    BY <2>2, OpenElements DEF Last
<1>2. \A u \in Threads : pc[u] # "set"
  BY Constants DEF RateSave, LockInv, LockHeldInside
<1>3. \A k \in 1..n : open[k] # t
  BY DEF RateSave, Goto, LockInv, RateControl, NestingInv, OpenBlocks
<1>4. /\ pc' = [pc EXCEPT ![t] = "set"] /\ pc \in [Threads -> PCs]
      /\ in_rate' = in_rate /\ arg' = arg /\ configured' = configured
      /\ saved' = [saved EXCEPT ![t] = min_interval] /\ saved \in [Threads -> Intervals]
      /\ min_interval' = min_interval
  BY DEF RateSave, Goto, TypeOK
<1> HIDE DEF n
<1>5. OpenBlocks'
  <2>1. ASSUME NEW u \in Threads
        PROVE  (pc'[u] = "set" \/ in_rate'[u]) <=> \E k \in 1..(n + 1) : open'[k] = u
    <3>1. CASE u = t
      BY <1>1, <1>4, <3>1
    <3>2. CASE u # t
      <4>1. (pc[u] = "set" \/ in_rate[u]) <=> \E k \in 1..n : open[k] = u
        BY DEF NestingInv, OpenBlocks, n
      <4>2. (\E k \in 1..n : open[k] = u) <=> \E k \in 1..(n + 1) : open'[k] = u
        BY <1>1, <3>2
      <4>3. (pc'[u] = "set" \/ in_rate'[u]) <=> (pc[u] = "set" \/ in_rate[u])
        BY <1>4, <3>2
      <4> QED
        BY <4>1, <4>2, <4>3
    <3> QED
      BY <3>1, <3>2
  <2>2. ASSUME NEW j \in 1..(n + 1), NEW k \in 1..(n + 1), open'[j] = open'[k]
        PROVE  j = k
    <3>1. \A a, b \in 1..n : open[a] = open[b] => a = b
      BY DEF NestingInv, OpenBlocks, n
    <3> QED
      BY <1>1, <1>3, <2>2, <3>1
  <2>3. ASSUME NEW u \in Threads, pc'[u] = "set" PROVE Last(open') = u
    BY <1>1, <1>2, <1>4, <2>3
  <2> QED
    BY <1>1, <2>1, <2>2, <2>3 DEF OpenBlocks, n, Last
<1>6. NestedChain'
  <2>1. ASSUME NEW k \in 1..(n + 1)
        PROVE  saved'[open'[k]] = IF k = 1 THEN configured' ELSE arg'[open'[k - 1]]
    <3>1. CASE k \in 1..n
      <4>1. saved[open[k]] = IF k = 1 THEN configured ELSE arg[open[k - 1]]
        BY <3>1 DEF NestingInv, NestedChain, n
      <4>2. saved'[open'[k]] = saved[open[k]]
        BY <1>1, <1>3, <1>4, <3>1
      <4>3. k # 1 => open'[k - 1] = open[k - 1]
        BY <1>1, <3>1
      <4> QED
        BY <1>4, <4>1, <4>2, <4>3
    <3>2. CASE k = n + 1
      <4>1. saved'[open'[k]] = min_interval
        BY <1>1, <1>4, <3>2
      <4>2. CASE n = 0
        <5>1. min_interval = configured
          BY <4>2, OpenElements DEF NestingInv, NestedChain, n
        <5> QED
          BY <1>4, <3>2, <4>1, <4>2, <5>1
      <4>3. CASE n # 0
        <5>1. open # << >> /\ Last(open) = open[n] /\ Last(open) \in Threads
          BY <4>3, <1>1, OpenElements DEF n
        <5>2. min_interval = arg[open[n]]
          BY <1>2, <5>1 DEF NestingInv, NestedChain
        <5>3. open'[k - 1] = open[n] /\ k # 1
          BY <1>1, <3>2, <4>3
        <5> QED
          BY <1>4, <4>1, <5>2, <5>3
      <4> QED
        BY <4>2, <4>3
    <3> QED
      BY <1>1, <3>1, <3>2
  <2>2. min_interval' = saved'[t] /\ pc'[t] = "set"
    BY <1>4
  <2> QED
    BY <1>1, <2>1, <2>2 DEF NestedChain, Last
<1> QED
  BY <1>5, <1>6 DEF NestingInv

\* Closing the innermost block, by the restoring write or because the new
\* interval was rejected: the chain loses its top and stays a chain.
LEMMA CloseShrinksChain ==
  ASSUME TypeOK, NestingInv, ~disturbed, NEW t \in Threads,
         open # << >>, Last(open) = t, open' = Pop(open),
         \A u \in Threads \ {t} : pc[u] # "set",
         \A u \in Threads : in_rate'[u] <=> (u # t /\ in_rate[u]),
         pc' = [pc EXCEPT ![t] = "idle"], configured' = configured,
         min_interval' = saved[t],
         \A u \in Threads \ {t} : saved'[u] = saved[u] /\ arg'[u] = arg[u]
  PROVE  NestingInv'
<1> DEFINE n == Len(open)
<1>1. /\ n \in Nat /\ n > 0 /\ Len(open') = n - 1
      /\ \A k \in 1..n : open[k] \in Threads
      /\ \A k \in 1..(n - 1) : open'[k] = open[k]
      /\ open[n] = t /\ open' \in Seq(Threads)
  BY OpenElements, PopProperties DEF TypeOK
<1> HIDE DEF n
<1>2. \A j, k \in 1..n : open[j] = open[k] => j = k
  BY DEF NestingInv, OpenBlocks, n
<1>3. \A k \in 1..(n - 1) : open[k] # t
  <2> SUFFICES ASSUME NEW k \in 1..(n - 1), open[k] = t PROVE FALSE
    OBVIOUS
  <2>1. k \in 1..n /\ n \in 1..n /\ open[k] = open[n] /\ k # n
    BY <1>1
  <2> QED
    BY <1>2, <2>1
<1>4. \A u \in Threads : pc'[u] # "set"
  BY DEF TypeOK
<1>5. OpenBlocks'
  <2>1. ASSUME NEW u \in Threads
        PROVE  (pc'[u] = "set" \/ in_rate'[u]) <=> \E k \in 1..(n - 1) : open'[k] = u
    <3>1. (pc[u] = "set" \/ in_rate[u]) <=> \E k \in 1..n : open[k] = u
      BY DEF NestingInv, OpenBlocks, n
    <3>2. CASE u = t
      <4>1. ~(\E k \in 1..(n - 1) : open'[k] = u)
        <5>1. \A k \in 1..(n - 1) : open'[k] = open[k] /\ open[k] # t
          BY <1>1, <1>3
        <5> QED BY <3>2, <5>1
      <4>2. ~(pc'[u] = "set" \/ in_rate'[u])
        BY <1>1, <1>4, <3>2
      <4> QED BY <4>1, <4>2
    <3>3. CASE u # t
      <4>1. (\E k \in 1..n : open[k] = u) <=> \E k \in 1..(n - 1) : open'[k] = u
        BY <1>1, <3>3
      <4>2. (pc'[u] = "set" \/ in_rate'[u]) <=> (pc[u] = "set" \/ in_rate[u])
        BY <1>4, <3>3
      <4> QED
        BY <3>1, <4>1, <4>2
    <3> QED
      BY <3>2, <3>3
  <2>2. ASSUME NEW j \in 1..(n - 1), NEW k \in 1..(n - 1), open'[j] = open'[k]
        PROVE  j = k
    BY <1>1, <1>2, <2>2
  <2> QED
    BY <1>1, <1>4, <2>1, <2>2 DEF OpenBlocks
<1>6. saved[t] = IF n = 1 THEN configured ELSE arg[open[n - 1]]
  BY <1>1 DEF NestingInv, NestedChain, n
<1>7. NestedChain'
  <2>1. ASSUME NEW k \in 1..(n - 1)
        PROVE  saved'[open'[k]] = IF k = 1 THEN configured' ELSE arg'[open'[k - 1]]
    <3>1. saved[open[k]] = IF k = 1 THEN configured ELSE arg[open[k - 1]]
      BY <1>1 DEF NestingInv, NestedChain, n
    <3>2. open'[k] = open[k] /\ open[k] \in Threads \ {t}
      <4>1. k \in 1..n
        BY <1>1
      <4>2. open'[k] = open[k] /\ open[k] \in Threads
        BY <1>1, <4>1
      <4> QED BY <1>3, <4>2
    <3>3. k # 1 => open'[k - 1] = open[k - 1] /\ open[k - 1] \in Threads \ {t}
      BY <1>1, <1>3
    <3> QED
      BY <3>1, <3>2, <3>3
  <2>2. CASE n = 1
    <3>1. open' = << >>
      BY <1>1, <2>2, EmptySeq
    <3> QED
      BY <1>1, <1>6, <2>1, <2>2, <3>1 DEF NestedChain
  <2>3. CASE n # 1
    <3>1. open' # << >> /\ Last(open') = open[n - 1] /\ open[n - 1] \in Threads \ {t}
      BY <1>1, <1>3, <2>3, EmptySeq DEF Last
    <3>2. min_interval' = arg'[Last(open')] /\ pc'[Last(open')] # "set"
      BY <1>4, <1>6, <2>3, <3>1
    <3> QED
      BY <1>1, <2>1, <3>1, <3>2 DEF NestedChain, Last
  <2> QED
    BY <2>2, <2>3
<1> QED
  BY <1>5, <1>7 DEF NestingInv

LEMMA NestingInvHolds == Spec => []NestingInv
<1>1. Init => NestingInv
  <2> SUFFICES ASSUME Init PROVE NestingInv
    OBVIOUS
  <2>1. open = << >> /\ Len(open) = 0 /\ min_interval = configured
    BY EmptySeq DEF Init
  <2>2. \A t \in Threads : pc[t] # "set" /\ ~in_rate[t]
    BY DEF Init
  <2> QED
    BY <2>1, <2>2 DEF NestingInv, OpenBlocks, NestedChain
<1>2. TypeOK /\ TypeOK' /\ LockInv /\ NestingInv /\ [Next]_vars => NestingInv'
  <2> SUFFICES ASSUME TypeOK, TypeOK', LockInv, NestingInv, [Next]_vars
               PROVE  NestingInv'
    OBVIOUS
  <2>0. \* A step that keeps the history and every open block's data.
        ASSUME UNCHANGED <<history, min_interval, saved>>,
               \A u \in Threads : pc'[u] = "set" <=> pc[u] = "set",
               \A u \in Threads : in_rate'[u] <=> in_rate[u],
               \A u \in Threads : (pc[u] = "set" \/ in_rate[u]) => arg'[u] = arg[u]
        PROVE  NestingInv'
    <3> SUFFICES ASSUME ~disturbed PROVE NestingInv'
      BY <2>0 DEF history, NestingInv, OpenBlocks, NestedChain
    <3>1. \A k \in 1..Len(open) : open[k] \in Threads /\ arg'[open[k]] = arg[open[k]]
      BY <2>0, OpenElements DEF NestingInv, OpenBlocks
    <3>2. OpenBlocks'
      BY <2>0 DEF history, NestingInv, OpenBlocks
    <3>3. \A k \in 1..Len(open) : k # 1 => k - 1 \in 1..Len(open)
      BY OpenElements
    <3>4. ASSUME open # << >>
          PROVE  Last(open) \in Threads /\ arg'[Last(open)] = arg[Last(open)]
      BY <3>1, <3>4, OpenElements
    <3>5. /\ \A k \in 1..Len(open) :
               saved[open[k]] = IF k = 1 THEN configured ELSE arg'[open[k - 1]]
          /\ min_interval = IF open = << >> THEN configured
                            ELSE IF pc'[Last(open)] = "set" THEN saved[Last(open)]
                            ELSE arg'[Last(open)]
      BY <2>0, <3>1, <3>3, <3>4 DEF NestingInv, NestedChain
    <3> QED
      BY <2>0, <3>2, <3>5 DEF history, NestingInv, NestedChain
  <2> USE DEF Goto, shared
  <2>1. ASSUME NEW t \in Threads, NEW i \in Inputs, CallWait(t, i) PROVE NestingInv'
    BY <2>0, <2>1 DEF CallWait, TypeOK, history
  <2>2. ASSUME NEW t \in Threads, NEW i \in Inputs, CallRate(t, i) PROVE NestingInv'
    BY <2>0, <2>2 DEF CallRate, TypeOK, history, LockInv, RateControl
  <2>3. ASSUME NEW t \in Threads, CallBareWait(t) PROVE NestingInv'
    BY <2>0, <2>3 DEF CallBareWait, TypeOK, history
  <2>4. ASSUME NEW t \in Threads, ReadInterval(t) PROVE NestingInv'
    BY <2>0, <2>4 DEF ReadInterval, TypeOK, history
  <2>5. ASSUME NEW t \in Threads, AcquireAndSleep(t) PROVE NestingInv'
    BY <2>0, <2>5 DEF AcquireAndSleep, TypeOK, history
  <2>6. ASSUME NEW t \in Threads, Record(t) PROVE NestingInv'
    BY <2>0, <2>6 DEF Record, TypeOK, history
  <2>7. ASSUME NEW t \in Threads, LeaveBlock(t) PROVE NestingInv'
    BY <2>0, <2>7 DEF LeaveBlock, TypeOK, history
  <2>8. ASSUME NEW t \in Threads, RateSave(t) PROVE NestingInv'
    BY <2>8, SaveExtendsChain
  <2>9. ASSUME NEW t \in Threads, RateSet(t) PROVE NestingInv'
    <3> SUFFICES ASSUME ~disturbed PROVE NestingInv'
      BY <2>9 DEF RateSet, history, NestingInv, OpenBlocks, NestedChain
    <3>1. /\ pc[t] = "set" /\ pc' = [pc EXCEPT ![t] = "read"]
          /\ in_rate' = [in_rate EXCEPT ![t] = TRUE] /\ min_interval' = arg[t]
          /\ UNCHANGED <<arg, saved, configured, open, disturbed>>
      BY <2>9 DEF RateSet, history
    <3>2. \A u \in Threads : pc'[u] # "set"
      BY <3>1, Constants DEF TypeOK, LockInv, LockHeldInside
    <3>3. \A u \in Threads : (pc'[u] = "set" \/ in_rate'[u]) <=> (pc[u] = "set" \/ in_rate[u])
      BY <3>1, <3>2 DEF TypeOK, LockInv, LockHeldInside
    <3>4. open # << >> /\ Last(open) = t
      BY <3>1, OpenElements DEF NestingInv, OpenBlocks
    <3>5. OpenBlocks'
      BY <3>1, <3>2, <3>3 DEF NestingInv, OpenBlocks
    <3>6. NestedChain'
      BY <3>1, <3>2, <3>4 DEF NestingInv, NestedChain
    <3> QED
      BY <3>5, <3>6 DEF NestingInv
  <2>10. ASSUME NEW t \in Threads, RateReject(t) PROVE NestingInv'
    <3> SUFFICES ASSUME ~disturbed PROVE NestingInv'
      BY <2>10 DEF RateReject, NestingInv, OpenBlocks, NestedChain
    <3>1. \A u \in Threads \ {t} : pc[u] # "set"
      BY <2>10 DEF RateReject, LockInv, LockHeldInside
    <3>2. open # << >> /\ Last(open) = t
      BY <2>10, OpenElements DEF RateReject, NestingInv, OpenBlocks
    <3>3. min_interval = saved[t]
      BY <2>10, <3>2 DEF RateReject, NestingInv, NestedChain
    <3>4. \A u \in Threads : in_rate'[u] <=> (u # t /\ in_rate[u])
      BY <2>10 DEF RateReject, LockInv, RateControl
    <3> QED
      BY <2>10, <3>1, <3>2, <3>3, <3>4, CloseShrinksChain DEF RateReject, TypeOK
  <2>11. ASSUME NEW t \in Threads, RateRestore(t) PROVE NestingInv'
    <3> SUFFICES ASSUME ~disturbed' PROVE NestingInv'
      BY <2>11 DEF RateRestore, NestingInv, OpenBlocks, NestedChain
    <3>1. ~disturbed /\ LastIn(t) /\ open' = Pop(open)
      BY <2>11 DEF RateRestore, TypeOK
    <3>2. \A u \in Threads \ {t} : pc[u] # "set"
      BY <2>11, Constants DEF RateRestore, LockInv, LockHeldInside
    <3>3. \A u \in Threads : in_rate'[u] <=> (u # t /\ in_rate[u])
      BY <2>11 DEF RateRestore, TypeOK
    <3> QED
      BY <2>11, <3>1, <3>2, <3>3, CloseShrinksChain DEF RateRestore, LastIn, TypeOK
  <2>12. ASSUME NEW i \in Assigned, AssignInterval(i) PROVE NestingInv'
    <3> SUFFICES ASSUME ~disturbed' PROVE NestingInv'
      BY DEF NestingInv, OpenBlocks, NestedChain
    <3>1. ~disturbed /\ open = << >> /\ open' = << >> /\ Len(open) = 0
          /\ min_interval' = configured' /\ pc' = pc /\ in_rate' = in_rate
      BY <2>12, EmptySeq DEF AssignInterval, locals, TypeOK
    <3>2. \A u \in Threads : pc[u] # "set" /\ ~in_rate[u]
      BY <3>1 DEF NestingInv, OpenBlocks
    <3> QED
      BY <3>1, <3>2 DEF NestingInv, OpenBlocks, NestedChain
  <2>13. CASE Tick
    BY <2>0, <2>13 DEF Tick, history
  <2>14. CASE UNCHANGED vars
    BY <2>0, <2>14 DEF vars, locals, history
  <2> QED
    BY <2>1, <2>2, <2>3, <2>4, <2>5, <2>6, <2>7, <2>8, <2>9, <2>10, <2>11,
       <2>12, <2>13, <2>14 DEF Next, Calling, Running
<1> QED
  BY <1>1, <1>2, TypeCorrect, LockInvHolds, PTL DEF Spec

\* The invariant of the limiter, in one piece.
THEOREM LimiterInvariant == Spec => []LimiterInv
<1>1. TypeOK /\ LockInv /\ NestingInv => LimiterInv
  BY DEF LockInv, NestingInv, LimiterInv
<1> QED
  BY <1>1, TypeCorrect, LockInvHolds, NestingInvHolds, PTL

\* rate() is temporary whenever blocks close innermost first and nobody
\* assigns the attribute inside one.
THEOREM NestedRateIsTemporary == Spec => []RestoredWhenNested
<1>1. LimiterInv => RestoredWhenNested
  BY DEF LimiterInv, NestedChain, RestoredWhenNested
<1> QED
  BY <1>1, LimiterInvariant, PTL
=============================================================================
