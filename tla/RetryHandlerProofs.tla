------------------------- MODULE RetryHandlerProofs -------------------------
(***************************************************************************)
(* Proofs about RetryHandler, for every retry limit, backoff and provider. *)
(* The inductive invariant is IInv: the counters agree with what was sent  *)
(* (CallInProgress), and what is left of a sleep makes up the pause the    *)
(* next request owes (PauseKept).                                          *)
(***************************************************************************)
EXTENDS RetryHandler, TLAPS

\* The time since the last answer and the rest of the sleep add up to the
\* pause; once the sleep is over the time alone does.
PauseKept ==
    /\ rpc = "sleep" => since + delay >= RetryDelay(attempts, response)
    /\ rpc = "request" /\ sent > 0 => since >= RetryDelay(attempts, response)

IInv == TypeOK /\ CallInProgress /\ AttemptsBounded /\ PauseKept

\* The retry limit is a natural number, and the bounds are ordered.
LEMMA Constants == /\ Retries \in Nat /\ Horizon \in Nat
                   /\ MaxBackoff \in Nat /\ MaxBackoff <= Horizon
                   /\ BackoffFactor \in Nat
                   /\ NoResponse \notin Responses
  BY RetryAssumption DEF RetryAssumption, Retries

\* A pause is an integer within the horizon for every attempt the loop makes.
LEMMA DelayBounds ==
    ASSUME NEW n \in 1..Retries, NEW r \in Responses
    PROVE  RetryDelay(n, r) \in Int /\ RetryDelay(n, r) <= Horizon
<1>1. n \in 1..MaxRetries
  BY RetryAssumption DEF RetryAssumption, Retries
<1>2. 2^n \in Nat
  BY <1>1, RetryAssumption DEF RetryAssumption
<1>3. BackoffFactor * 2^n \in Nat
  BY <1>2, Constants
<1>4. r.after \in Int /\ r.after <= Horizon
  BY RetryAssumption DEF RetryAssumption
<1> QED BY <1>3, <1>4, Constants DEF RetryDelay

LEMMA InitIInv == Init => IInv
<1> SUFFICES ASSUME Init PROVE IInv
  OBVIOUS
<1>1. TypeOK
  <2>1. raised \in BOOLEAN /\ rpc \in Stages /\ outcome \in Outcomes
    BY DEF Init, Stages, Outcomes
  <2>2. /\ attempts \in Nat /\ sent \in Nat /\ response \in Responses \cup {NoResponse}
        /\ delay \in 0..Horizon /\ since \in 0..Horizon
    BY Constants DEF Init
  <2> QED BY <2>1, <2>2 DEF TypeOK
<1>2. CallInProgress
  BY DEF Init, CallInProgress
<1>3. AttemptsBounded /\ PauseKept
  BY <1>1, Constants DEF Init, AttemptsBounded, PauseKept
<1> QED BY <1>1, <1>2, <1>3 DEF IInv

LEMMA NextIInv == IInv /\ [Next]_retryVars => IInv'
<1> SUFFICES ASSUME IInv, [Next]_retryVars PROVE IInv'
  OBVIOUS
<1> USE Constants
<1>types. TypeOK /\ CallInProgress /\ AttemptsBounded /\ PauseKept
  BY DEF IInv
<1>1. CASE BeginCall
  <2>1. /\ rpc' = "request" /\ outcome' = "none" /\ attempts' = 0 /\ sent' = 0
        /\ response' = NoResponse /\ raised' = FALSE
        /\ UNCHANGED <<delay, since>>
    BY <1>1 DEF BeginCall
  <2>2. TypeOK'
    BY <2>1, <1>types DEF TypeOK, Stages, Outcomes
  <2>3. CallInProgress'
    BY <2>1 DEF CallInProgress
  <2>4. AttemptsBounded' /\ PauseKept'
    BY <2>1, <2>2 DEF AttemptsBounded, PauseKept
  <2> QED BY <2>2, <2>3, <2>4 DEF IInv
<1>2. ASSUME NEW r \in Responses, RequestReturns(r) PROVE IInv'
  BY <1>2, <1>types DEF RequestReturns, IInv, TypeOK, CallInProgress, AttemptsBounded,
                        PauseKept, Stages, Outcomes
<1>3. CASE RequestRaises
  BY <1>3, <1>types DEF RequestRaises, IInv, TypeOK, CallInProgress, AttemptsBounded,
                        PauseKept, Stages, Outcomes
<1>4. CASE Accept
  BY <1>4, <1>types DEF Accept, IInv, TypeOK, CallInProgress, AttemptsBounded,
                        PauseKept, Stages, Outcomes
<1>5. CASE GiveUp
  BY <1>5, <1>types DEF GiveUp, Rejected, IInv, TypeOK, CallInProgress, AttemptsBounded,
                        PauseKept, Stages, Outcomes
<1>6. CASE Exhaust
  BY <1>6, <1>types DEF Exhaust, Rejected, IInv, TypeOK, CallInProgress, AttemptsBounded,
                        PauseKept, Stages, Outcomes
<1>7. CASE PrepareRetry
  <2>1. attempts' \in 1..Retries /\ response \in Responses
    BY <1>7, <1>types DEF PrepareRetry, TypeOK, CallInProgress
  <2>2. RetryDelay(attempts', response) \in Int /\ RetryDelay(attempts', response) <= Horizon
    BY <2>1, DelayBounds
  <2>3. CASE RetryDelay(attempts', response) >= 0
    <3>1. /\ rpc' = "sleep" /\ delay' = RetryDelay(attempts', response)
          /\ UNCHANGED <<outcome, response, sent, since, raised>>
      BY <1>7, <2>2, <2>3 DEF PrepareRetry
    <3>2. TypeOK'
      BY <2>1, <2>2, <2>3, <3>1, <1>types DEF TypeOK, Stages, Outcomes
    <3>3. CallInProgress' /\ AttemptsBounded'
      BY <1>7, <2>1, <3>1, <3>2, <1>types
         DEF PrepareRetry, TypeOK, CallInProgress, AttemptsBounded
    <3>4. PauseKept'
      BY <2>2, <3>1, <1>types DEF PauseKept, TypeOK
    <3> QED BY <3>2, <3>3, <3>4 DEF IInv
  <2>4. CASE RetryDelay(attempts', response) < 0
    <3>1. /\ rpc' = "done" /\ outcome' = "failed"
          /\ UNCHANGED <<delay, response, sent, since, raised>>
      BY <1>7, <2>2, <2>4 DEF PrepareRetry
    <3> QED BY <2>1, <3>1, <1>types DEF IInv, TypeOK, CallInProgress, AttemptsBounded,
                                        PauseKept, Stages, Outcomes
  <2> QED BY <2>2, <2>3, <2>4
<1>8. CASE Wake
  <2>1. response \in Responses /\ attempts \in 1..Retries
    BY <1>8, <1>types DEF Wake, TypeOK, CallInProgress
  <2>2. RetryDelay(attempts, response) \in Int
    BY <2>1, DelayBounds
  <2>3. TypeOK' /\ CallInProgress' /\ AttemptsBounded'
    BY <1>8, <1>types DEF Wake, TypeOK, CallInProgress, AttemptsBounded, Stages, Outcomes
  <2>4. PauseKept'
    BY <1>8, <2>2, <1>types DEF Wake, PauseKept, TypeOK
  <2> QED BY <2>3, <2>4 DEF IInv
<1>9. CASE EndCall
  BY <1>9, <1>types DEF EndCall, IInv, TypeOK, CallInProgress, AttemptsBounded,
                        PauseKept, Stages, Outcomes
<1>10. CASE Elapse
  <2>1. TypeOK' /\ CallInProgress' /\ AttemptsBounded'
    BY <1>10, <1>types DEF Elapse, TypeOK, CallInProgress, AttemptsBounded, Stages, Outcomes
  <2>2. ASSUME rpc = "sleep" \/ (rpc = "request" /\ sent > 0)
        PROVE  /\ RetryDelay(attempts, response) \in Int
               /\ RetryDelay(attempts, response) <= Horizon
    <3>1. response \in Responses /\ attempts \in 1..Retries
      BY <2>2, <1>types DEF TypeOK, CallInProgress
    <3> QED BY <3>1, DelayBounds
  <2>3. PauseKept'
    BY <1>10, <2>2, <1>types DEF Elapse, PauseKept, TypeOK
  <2> QED BY <2>1, <2>3 DEF IInv
<1>11. CASE UNCHANGED retryVars
  BY <1>11, <1>types DEF retryVars, IInv, TypeOK, CallInProgress, AttemptsBounded,
                         PauseKept, Stages, Outcomes
<1> QED BY <1>1, <1>2, <1>3, <1>4, <1>5, <1>6, <1>7, <1>8, <1>9, <1>10, <1>11
        DEF Next, Attempt

\* The invariant holds in every behaviour.
LEMMA IInvHolds == Spec => []IInv
  BY InitIInv, NextIInv, PTL DEF Spec

\* execute_with_retry's locals keep their types, delay its bound included.
THEOREM TypeCorrect == Spec => []TypeOK
<1>1. IInv => TypeOK
  BY DEF IInv
<1> QED BY <1>1, IInvHolds, PTL

\* The loop's counters agree with what was sent, at every stage.
THEOREM CountersAgree == Spec => []CallInProgress
<1>1. IInv => CallInProgress
  BY DEF IInv
<1> QED BY <1>1, IInvHolds, PTL

\* No call sends more than max_retries + 1 requests, and no pause is longer than
\* the cap on the backoff or the largest Retry-After.
THEOREM RequestsBounded == Spec => []AttemptsBounded
<1>1. IInv => AttemptsBounded
  BY DEF IInv
<1> QED BY <1>1, IInvHolds, PTL

\* A repeated request is sent no sooner than the pause the response before it
\* asks for.
THEOREM RetriesAreSpaced == Spec => RetrySpacing
<1>1. IInv /\ [Next]_retryVars
        => [\A r \in Responses :
              (RequestReturns(r) /\ sent > 0) => since >= RetryDelay(attempts, response)]_retryVars
  BY DEF IInv, PauseKept, RequestReturns
<1> QED BY <1>1, IInvHolds, PTL DEF Spec, RetrySpacing

\* How a call ends follows from the response and the parameters.
THEOREM OutcomesAreJustified == Spec => []OutcomeJustified
<1>1. Init => OutcomeJustified
  BY DEF Init, OutcomeJustified
<1>2. IInv /\ OutcomeJustified /\ [Next]_retryVars => OutcomeJustified'
  <2> SUFFICES ASSUME IInv, OutcomeJustified, [Next]_retryVars PROVE OutcomeJustified'
    OBVIOUS
  <2> USE Constants DEF OutcomeJustified, Accepted, ShouldRetry
  <2>types. TypeOK /\ CallInProgress
    BY DEF IInv
  <2>1. CASE BeginCall
    BY <2>1 DEF BeginCall
  <2>2. ASSUME NEW r \in Responses, RequestReturns(r) PROVE OutcomeJustified'
    BY <2>2 DEF RequestReturns
  <2>3. CASE RequestRaises
    BY <2>3 DEF RequestRaises
  <2>4. CASE Accept
    BY <2>4, <2>types DEF Accept, CallInProgress, TypeOK
  <2>5. CASE GiveUp
    BY <2>5, <2>types DEF GiveUp, Rejected, CallInProgress, TypeOK
  <2>6. CASE Exhaust
    BY <2>6, <2>types DEF Exhaust, Rejected, CallInProgress, TypeOK
  <2>7. CASE PrepareRetry
    <3>1. \/ rpc' = "sleep"
          \/ /\ rpc' = "done" /\ outcome' = "failed" /\ response' = response
             /\ RetryDelay(attempts', response) < 0
      BY <2>7 DEF PrepareRetry
    <3>2. response' = response => RetryDelay(attempts', response') = RetryDelay(attempts', response)
      OBVIOUS
    <3> QED BY <3>1, <3>2
  <2>8. CASE Wake
    BY <2>8 DEF Wake
  <2>9. CASE EndCall
    BY <2>9 DEF EndCall
  <2>10. CASE Elapse
    BY <2>10 DEF Elapse
  <2>11. CASE UNCHANGED retryVars
    BY <2>11 DEF retryVars
  <2> QED BY <2>1, <2>2, <2>3, <2>4, <2>5, <2>6, <2>7, <2>8, <2>9, <2>10, <2>11
          DEF Next, Attempt
<1> QED BY <1>1, <1>2, IInvHolds, PTL DEF Spec
=============================================================================
