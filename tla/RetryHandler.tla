---------------------------- MODULE RetryHandler ----------------------------
(***************************************************************************)
(* RetryHandler.execute_with_retry (api/rate_limiting/retry_handler.py):   *)
(* one caller sending a request until a response is accepted, is not worth *)
(* a retry, or the attempts run out.  The provider answers anything.       *)
(*                                                                         *)
(* A response is a record: its status and its Retry-After header, which is *)
(* absent ("none", which also stands for one that cannot be parsed), a     *)
(* number of seconds ("seconds", any integer) or a date ("date", the       *)
(* seconds left to it, never negative).  A value that is no response at    *)
(* all is a status neither accepted nor retried.                           *)
(***************************************************************************)
EXTENDS Integers

CONSTANTS MaxRetries,       \* max_retries as given; negative means 0
          BackoffFactor,    \* backoff_factor, in time units
          MaxBackoff,       \* max_backoff, in time units
          RaiseOnError,     \* raise_on_error
          ValidStatuses,    \* statuses the validator accepts
          RetryStatuses,    \* retry_statuses
          Responses,        \* the responses the provider may give
          NoResponse,       \* None
          Horizon           \* saturation bound of the history clock `since'

ASSUME RetryAssumption ==
    /\ MaxRetries \in Int /\ BackoffFactor \in Nat /\ MaxBackoff \in Nat
    /\ RaiseOnError \in BOOLEAN
    /\ NoResponse \notin Responses
    /\ Horizon \in Nat /\ MaxBackoff <= Horizon
    /\ \A n \in 1..MaxRetries : 2^n \in Nat   \* arithmetic, for the provers
    /\ \A r \in Responses : /\ r.form \in {"none", "seconds", "date"}
                            /\ r.after \in Int /\ r.after <= Horizon
                            /\ r.form = "date" => r.after >= 0

VARIABLES
    rpc,        \* where execute_with_retry is
    attempts,   \* its local `attempts'
    response,   \* its local `response'
    delay,      \* what is left of time.sleep(delay)
    outcome,    \* how the last call ended
    sent,       \* history: requests answered in this call
    since,      \* history: time since the last answer, saturated at Horizon
    raised      \* history: did a request of this call raise?

retryVars == <<rpc, attempts, response, delay, outcome, sent, since, raised>>

Stages   == {"idle", "request", "judge", "sleep", "done"}
Outcomes == {"none", "returned", "invalid", "failed"}

\* RetryHandler.__init__
Retries == IF MaxRetries >= 0 THEN MaxRetries ELSE 0

Init ==
    /\ rpc = "idle"
    /\ attempts = 0
    /\ response = NoResponse
    /\ delay = 0
    /\ outcome = "none"
    /\ sent = 0
    /\ since = Horizon
    /\ raised = FALSE

\* validator_func(response) and should_retry(response)
Accepted(r)    == r.status \in ValidStatuses
ShouldRetry(r) == r.status \in RetryStatuses

\* calculate_retry_delay: a Retry-After header overrides the backoff.
RetryDelay(n, r) ==
    LET backoff == BackoffFactor * 2^n
    IN  IF r.form # "none" THEN r.after
        ELSE IF backoff <= MaxBackoff THEN backoff ELSE MaxBackoff

\* The call starts; the loop runs while attempts <= max_retries.
BeginCall ==
    /\ rpc = "idle"
    /\ rpc' = IF 0 <= Retries THEN "request" ELSE "done"
    /\ outcome' = IF 0 <= Retries THEN "none" ELSE "returned"
    /\ attempts' = 0 /\ response' = NoResponse
    /\ sent' = 0 /\ raised' = FALSE
    /\ UNCHANGED <<delay, since>>

\* request_func() returns r ...
RequestReturns(r) ==
    /\ rpc = "request"
    /\ rpc' = "judge"
    /\ response' = r
    /\ sent' = sent + 1
    /\ since' = 0
    /\ UNCHANGED <<attempts, delay, outcome, raised>>

\* ... or raises: RequestFailedException.
RequestRaises ==
    /\ rpc = "request"
    /\ rpc' = "done" /\ outcome' = "failed"
    /\ raised' = TRUE
    /\ UNCHANGED <<attempts, response, delay, sent, since>>

Accept ==
    /\ rpc = "judge" /\ Accepted(response)
    /\ rpc' = "done" /\ outcome' = "returned"
    /\ UNCHANGED <<attempts, response, delay, sent, since, raised>>

\* How a response that is not accepted ends the call.
Rejected == IF RaiseOnError THEN "invalid" ELSE "returned"

\* Mutant of GiveUp: it forgets raise_on_error.
GiveUpSilently ==
    /\ rpc = "judge" /\ ~Accepted(response) /\ ~ShouldRetry(response)
    /\ rpc' = "done" /\ outcome' = "returned"
    /\ UNCHANGED <<attempts, response, delay, sent, since, raised>>

\* The response is not one to retry.
GiveUp ==
    /\ rpc = "judge" /\ ~Accepted(response) /\ ~ShouldRetry(response)
    /\ rpc' = "done" /\ outcome' = Rejected
    /\ UNCHANGED <<attempts, response, delay, sent, since, raised>>

\* The while condition fails: the else branch of the loop.
Exhaust ==
    /\ rpc = "judge" /\ ~Accepted(response) /\ ShouldRetry(response)
    /\ attempts' = attempts + 1
    /\ attempts' > Retries
    /\ rpc' = "done" /\ outcome' = Rejected
    /\ UNCHANGED <<response, delay, sent, since, raised>>

\* Mutant of PrepareRetry: attempts is not incremented.
PrepareRetryUncounted ==
    /\ rpc = "judge" /\ ~Accepted(response) /\ ShouldRetry(response)
    /\ attempts < Retries
    /\ RetryDelay(attempts + 1, response) >= 0
    /\ rpc' = "sleep" /\ delay' = RetryDelay(attempts + 1, response)
    /\ UNCHANGED <<attempts, response, outcome, sent, since, raised>>

\* Mutant of PrepareRetry: the loop counts one attempt too many.
PrepareRetryOneMore ==
    /\ rpc = "judge" /\ ~Accepted(response) /\ ShouldRetry(response)
    /\ attempts' = attempts + 1
    /\ attempts <= Retries
    /\ RetryDelay(attempts', response) >= 0
    /\ rpc' = "sleep" /\ delay' = RetryDelay(attempts', response)
    /\ UNCHANGED <<response, outcome, sent, since, raised>>

\* Another attempt: sleep first.  time.sleep() of a negative Retry-After
\* raises ValueError, which becomes RequestFailedException.
PrepareRetry ==
    /\ rpc = "judge" /\ ~Accepted(response) /\ ShouldRetry(response)
    /\ attempts' = attempts + 1
    /\ attempts' <= Retries
    /\ LET d == RetryDelay(attempts', response)
       IN  \/ /\ d >= 0
              /\ rpc' = "sleep" /\ delay' = d /\ UNCHANGED outcome
           \/ /\ d < 0
              /\ rpc' = "done" /\ outcome' = "failed" /\ UNCHANGED delay
    /\ UNCHANGED <<response, sent, since, raised>>

\* Mutant of Wake: the next request does not wait for the sleep.
WakeEarly ==
    /\ rpc = "sleep"
    /\ rpc' = "request"
    /\ UNCHANGED <<attempts, response, delay, outcome, sent, since, raised>>

\* The sleep is over.
Wake ==
    /\ rpc = "sleep" /\ delay = 0
    /\ rpc' = "request"
    /\ UNCHANGED <<attempts, response, delay, outcome, sent, since, raised>>

\* The caller takes the outcome and may call again.
EndCall ==
    /\ rpc = "done"
    /\ rpc' = "idle"
    /\ UNCHANGED <<attempts, response, delay, outcome, sent, since, raised>>

Elapse ==
    /\ delay' = IF delay > 0 THEN delay - 1 ELSE 0
    /\ since' = IF since < Horizon THEN since + 1 ELSE Horizon
    /\ UNCHANGED <<rpc, attempts, response, outcome, sent, raised>>

\* The steps of a call in progress.
Attempt == \/ \E r \in Responses : RequestReturns(r)
           \/ RequestRaises \/ Accept \/ GiveUp \/ Exhaust \/ PrepareRetry \/ Wake

Next == BeginCall \/ Attempt \/ EndCall \/ Elapse

Spec == Init /\ [][Next]_retryVars

\* A request returns or raises (the session has a timeout), sleep ends.
FairSpec == Spec /\ WF_retryVars(Attempt) /\ WF_retryVars(Elapse)

----------------------------------------------------------------------------
(* Properties *)

TypeOK ==
    /\ rpc \in Stages
    /\ attempts \in Nat
    /\ response \in Responses \cup {NoResponse}
    /\ delay \in 0..Horizon
    /\ outcome \in Outcomes
    /\ sent \in Nat
    /\ since \in 0..Horizon
    /\ raised \in BOOLEAN

\* The loop's counters agree with what was really sent, at every stage.
CallInProgress ==
    /\ rpc \in {"request", "sleep"} => sent = attempts /\ attempts <= Retries
    /\ rpc = "judge" => sent = attempts + 1 /\ attempts <= Retries
    /\ rpc \in {"request", "judge", "sleep"} => outcome = "none" /\ ~raised
    /\ rpc # "idle" /\ sent > 0 => response # NoResponse
    /\ rpc = "sleep" => attempts > 0 /\ ShouldRetry(response) /\ ~Accepted(response)

\* However the call ends, the way it ends is the one the parameters call for:
\* a returned response is accepted, or raise_on_error is off and it is either
\* not worth a retry or the last of max_retries + 1; InvalidResponseException
\* is the same with the flag on; RequestFailedException means that a request
\* raised, or that a negative Retry-After reached time.sleep().
OutcomeJustified ==
    rpc = "done" =>
        \/ /\ outcome = "failed"
           /\ raised \/ RetryDelay(attempts, response) < 0
        \/ /\ response # NoResponse /\ Accepted(response)
           /\ outcome = "returned"
        \/ /\ response # NoResponse /\ ~Accepted(response)
           /\ ShouldRetry(response) => sent = Retries + 1
           /\ RaiseOnError  => outcome = "invalid"
           /\ ~RaiseOnError => outcome = "returned"

\* Never more than max_retries + 1 requests in a call, and never a pause that
\* the cap on the backoff, or the largest Retry-After, does not bound.
AttemptsBounded == TypeOK /\ sent <= Retries + 1

\* The provider gets its pause: a request that repeats one is sent no sooner
\* after the answer than the Retry-After header, or else the backoff, says.
RetrySpacing ==
    [][\A r \in Responses :
          (RequestReturns(r) /\ sent > 0) => since >= RetryDelay(attempts, response)]_retryVars

\* Every call ends.
CallEnds == (rpc = "request") ~> (rpc = "done")
=============================================================================
