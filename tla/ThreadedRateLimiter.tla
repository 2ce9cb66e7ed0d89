------------------------ MODULE ThreadedRateLimiter ------------------------
(***************************************************************************)
(* One ThreadedRateLimiter shared by several threads                       *)
(* (api/rate_limiting/threaded_rate_limiter.py over rate_limiter.py).      *)
(*                                                                         *)
(* Every action is a maximal piece of code another thread cannot tell from *)
(* an instant.  The code takes `_lock' around `_last_call' and around the  *)
(* two places where rate() writes `min_interval'; wait() reads             *)
(* `min_interval' with no lock and the property setter writes it with no   *)
(* lock, so those are actions of their own.                                *)
(*                                                                         *)
(* Time is discrete.  Only the age of `_last_call' matters to the code, so *)
(* the state holds that age, saturated at Horizon (>= every interval).  An *)
(* age of Horizon also stands for `_last_call is None': either way wait()  *)
(* does not sleep.                                                         *)
(***************************************************************************)
EXTENDS Integers, Sequences

CONSTANTS Threads,      \* the threads sharing the limiter
          NoThread,     \* the owner of a free lock
          Default,      \* the min_interval the limiter is built with
          Inputs,       \* the intervals callers pass; a negative one is invalid
          Assigned,     \* the values users assign to the min_interval property
          Floor,        \* the smallest of these intervals
          Horizon       \* saturation bound of the clock

\* RateLimiter._validate (non-numbers are left out).
Valid(i) == i >= 0

Intervals == {i \in Inputs \cup Assigned \cup {Default} : Valid(i)}

ASSUME LimiterAssumption ==
    /\ NoThread \notin Threads
    /\ Default \in Nat /\ Inputs \subseteq Int /\ Assigned \subseteq Int
    /\ Horizon \in Nat
    /\ \A i \in Intervals : Floor <= i /\ i <= Horizon
    /\ Floor \in Nat

VARIABLES
    min_interval,   \* the shared attribute `_min_interval'
    elapsed,        \* now - _last_call, saturated at Horizon
    lock,           \* owner of `_lock', or NoThread
    pc,             \* where each thread is
    in_rate,        \* is the thread between rate()'s entry and its exit?
    arg,            \* the argument of its rate() call
    saved,          \* rate()'s local `current_min_interval'
    interval,       \* wait()'s local `min_interval'
    sleep,          \* what is left of its time.sleep() in _wait()
    configured,     \* history: the interval in force outside every rate() block
    open,           \* history: threads inside rate(), in the order they saved
    disturbed       \* history: a block closed out of turn, or the property was
                    \* assigned while a block was open (`open' is then dropped)

shared  == <<min_interval, elapsed, lock>>
locals  == <<pc, in_rate, arg, saved, interval, sleep>>
history == <<configured, open, disturbed>>
vars    == <<shared, locals, history>>

\* idle   outside the limiter
\* save   rate() wants the lock            set      rate() holds it, old value saved
\* read   wait() is about to read the shared interval
\* lock   wait() wants the lock            sleep    wait() holds it, in _wait()
\* block  the body of the with statement   restore  rate()'s finally wants the lock
PCs == {"idle", "save", "set", "read", "lock", "sleep", "block", "restore"}

Init ==
    /\ min_interval = Default
    /\ elapsed = Horizon
    /\ lock = NoThread
    /\ pc = [t \in Threads |-> "idle"]
    /\ in_rate = [t \in Threads |-> FALSE]
    /\ arg = [t \in Threads |-> Default]
    /\ saved = [t \in Threads |-> Default]
    /\ interval = [t \in Threads |-> Default]
    /\ sleep = [t \in Threads |-> 0]
    /\ configured = Default
    /\ open = << >>
    /\ disturbed = FALSE

Last(s) == s[Len(s)]
Pop(s)  == SubSeq(s, 1, Len(s) - 1)

Goto(t, from, to) == pc[t] = from /\ pc' = [pc EXCEPT ![t] = to]

----------------------------------------------------------------------------
(* wait() *)

\* wait(i), and also __call__ and __enter__, which call wait(): an explicit
\* interval is used as it is; a negative one raises before anything changes.
CallWait(t, i) ==
    /\ Valid(i)
    /\ Goto(t, "idle", "lock")
    /\ interval' = [interval EXCEPT ![t] = i]
    /\ UNCHANGED <<shared, in_rate, arg, saved, sleep, history>>

\* wait() with no interval, from outside rate().
CallBareWait(t) ==
    /\ Goto(t, "idle", "read")
    /\ UNCHANGED <<shared, in_rate, arg, saved, interval, sleep, history>>

\* The unlocked read of self.min_interval.
ReadInterval(t) ==
    /\ Goto(t, "read", "lock")
    /\ interval' = [interval EXCEPT ![t] = min_interval]
    /\ UNCHANGED <<shared, in_rate, arg, saved, sleep, history>>

\* Mutant of Remaining: one unit too short.
RemainingShort(i) == IF i > elapsed + 1 THEN i - elapsed - 1 ELSE 0

\* _wait(): the seconds still missing, none when enough time has gone by.
Remaining(i) == IF i > elapsed THEN i - elapsed ELSE 0

\* Mutant: _wait() runs before the lock is taken.
AcquireAndSleepUnlocked(t) ==
    /\ Goto(t, "lock", "sleep")
    /\ sleep' = [sleep EXCEPT ![t] = Remaining(interval[t])]
    /\ UNCHANGED <<shared, in_rate, arg, saved, interval, history>>

\* with self._lock: ... self._wait(min_interval, self._last_call)
AcquireAndSleep(t) ==
    /\ lock = NoThread
    /\ Goto(t, "lock", "sleep")
    /\ lock' = t
    /\ sleep' = [sleep EXCEPT ![t] = Remaining(interval[t])]
    /\ UNCHANGED <<min_interval, elapsed, in_rate, arg, saved, interval, history>>

\* time.sleep() is over (it may overrun): _last_call = time.time(), release.
Record(t) ==
    /\ sleep[t] = 0
    /\ Goto(t, "sleep", IF in_rate[t] THEN "block" ELSE "idle")
    /\ elapsed' = 0
    /\ lock' = NoThread
    /\ interval' = [interval EXCEPT ![t] = Default]
    /\ UNCHANGED <<min_interval, in_rate, arg, saved, sleep, history>>

----------------------------------------------------------------------------
(* rate() *)

CallRate(t, i) ==
    /\ Goto(t, "idle", "save")
    /\ arg' = [arg EXCEPT ![t] = i]
    /\ UNCHANGED <<shared, in_rate, saved, interval, sleep, history>>

\* Mutant: the class's default is saved in place of the current interval.
RateSaveDefault(t) ==
    /\ lock = NoThread
    /\ Goto(t, "save", "set")
    /\ lock' = t
    /\ saved' = [saved EXCEPT ![t] = Default]
    /\ open' = IF disturbed THEN << >> ELSE Append(open, t)
    /\ UNCHANGED <<min_interval, elapsed, in_rate, arg, interval, sleep,
                   configured, disturbed>>

\* with self._lock: current_min_interval = self.min_interval
RateSave(t) ==
    /\ lock = NoThread
    /\ Goto(t, "save", "set")
    /\ lock' = t
    /\ saved' = [saved EXCEPT ![t] = min_interval]
    /\ open' = IF disturbed THEN << >> ELSE Append(open, t)
    /\ UNCHANGED <<min_interval, elapsed, in_rate, arg, interval, sleep,
                   configured, disturbed>>

\* Mutant: wait() is called inside the first `with self._lock' section.
RateSetKeepsLock(t) ==
    /\ Valid(arg[t])
    /\ Goto(t, "set", "read")
    /\ min_interval' = arg[t]
    /\ in_rate' = [in_rate EXCEPT ![t] = TRUE]
    /\ UNCHANGED <<elapsed, lock, arg, saved, interval, sleep, history>>

\* self.min_interval = self._validate(min_interval), release.
RateSet(t) ==
    /\ Valid(arg[t])
    /\ Goto(t, "set", "read")
    /\ min_interval' = arg[t]
    /\ in_rate' = [in_rate EXCEPT ![t] = TRUE]
    /\ lock' = NoThread
    /\ UNCHANGED <<elapsed, arg, saved, interval, sleep, history>>

\* ... or _validate raises: nothing was set, nothing is restored.
RateReject(t) ==
    /\ ~Valid(arg[t])
    /\ Goto(t, "set", "idle")
    /\ lock' = NoThread
    /\ arg' = [arg EXCEPT ![t] = Default]
    /\ saved' = [saved EXCEPT ![t] = Default]
    /\ open' = IF disturbed THEN << >> ELSE Pop(open)
    /\ UNCHANGED <<min_interval, elapsed, in_rate, interval, sleep,
                   configured, disturbed>>

\* The body of the with statement ends, normally or by an exception.
LeaveBlock(t) ==
    /\ Goto(t, "block", "restore")
    /\ UNCHANGED <<shared, in_rate, arg, saved, interval, sleep, history>>

\* Did t save last among the threads still inside rate()?
LastIn(t) == open # << >> /\ Last(open) = t

\* finally: with self._lock: self.min_interval = current_min_interval
RateRestore(t) ==
    /\ lock = NoThread
    /\ Goto(t, "restore", "idle")
    /\ min_interval' = saved[t]
    /\ in_rate' = [in_rate EXCEPT ![t] = FALSE]
    /\ arg' = [arg EXCEPT ![t] = Default]
    /\ saved' = [saved EXCEPT ![t] = Default]
    /\ disturbed' = (disturbed \/ ~LastIn(t))
    /\ open' = IF disturbed' THEN << >> ELSE Pop(open)
    /\ UNCHANGED <<elapsed, lock, interval, sleep, configured>>

----------------------------------------------------------------------------
\* limiter.min_interval = i, by any code, with no lock.
AssignInterval(i) ==
    /\ Valid(i)
    /\ min_interval' = i
    /\ configured' = IF open = << >> THEN i ELSE configured
    /\ disturbed' = (disturbed \/ open # << >>)
    /\ open' = << >>
    /\ UNCHANGED <<elapsed, lock, locals>>

\* Time passes for the limiter and for the thread asleep in it.
Tick ==
    /\ elapsed' = IF elapsed < Horizon THEN elapsed + 1 ELSE Horizon
    /\ sleep' = [t \in Threads |-> IF sleep[t] > 0 THEN sleep[t] - 1 ELSE 0]
    /\ UNCHANGED <<min_interval, lock, pc, in_rate, arg, saved, interval, history>>

\* The steps a thread takes once it has called the limiter.
Running(t) == \/ ReadInterval(t) \/ AcquireAndSleep(t) \/ Record(t)
              \/ RateSave(t) \/ RateSet(t) \/ RateReject(t) \/ RateRestore(t)

Calling(t) == \/ \E i \in Inputs : CallWait(t, i) \/ CallRate(t, i)
              \/ CallBareWait(t)

Next == \/ \E t \in Threads : Calling(t) \/ Running(t) \/ LeaveBlock(t)
        \/ \E i \in Assigned : AssignInterval(i)
        \/ Tick

Spec == Init /\ [][Next]_vars

\* Threads are scheduled and time passes; nothing says that a caller returns,
\* leaves its block, or that the lock goes to the thread that waited longest.
FairSpec == Spec /\ WF_vars(Tick) /\ \A t \in Threads : WF_vars(Running(t))

----------------------------------------------------------------------------
(* Properties *)

\* Every variable holds a value of its type.
TypeOK ==
    /\ min_interval \in Intervals
    /\ elapsed \in 0..Horizon
    /\ lock \in Threads \cup {NoThread}
    /\ pc \in [Threads -> PCs]
    /\ in_rate \in [Threads -> BOOLEAN]
    /\ arg \in [Threads -> Inputs \cup {Default}]
    /\ saved \in [Threads -> Intervals]
    /\ interval \in [Threads -> Intervals]
    /\ sleep \in [Threads -> 0..Horizon]
    /\ configured \in Intervals
    /\ open \in Seq(Threads)
    /\ disturbed \in BOOLEAN

\* Inside rate() from the write of the new interval to the restoring one.
RateControl ==
    \A t \in Threads :
        /\ in_rate[t] => pc[t] \in {"read", "lock", "sleep", "block", "restore"}
        /\ pc[t] \in {"block", "restore"} => in_rate[t]
        /\ in_rate[t] => arg[t] \in Intervals

\* The lock is held exactly by the thread inside a `with self._lock' section,
\* so two threads are never in _wait(), or in _wait() and in rate()'s swap.
LockHeldInside ==
    \A t \in Threads : (lock = t) <=> (pc[t] \in {"set", "sleep"})

\* A sleeping thread still sleeps long enough: no other thread has recorded a
\* call since it computed what remained.
SleepCoversInterval ==
    \A t \in Threads : pc[t] = "sleep" => elapsed + sleep[t] >= interval[t]

\* While nothing is out of turn, `open' lists the threads inside rate() ...
OpenBlocks ==
    ~disturbed =>
        /\ \A t \in Threads :
              (pc[t] = "set" \/ in_rate[t]) <=> \E k \in 1..Len(open) : open[k] = t
        /\ \A j, k \in 1..Len(open) : open[j] = open[k] => j = k
        /\ \A t \in Threads : pc[t] = "set" => Last(open) = t

\* ... each of which saved what the block around it had set, the innermost one
\* having set what is there now.
NestedChain ==
    ~disturbed =>
        /\ \A k \in 1..Len(open) :
              saved[open[k]] = IF k = 1 THEN configured ELSE arg[open[k - 1]]
        /\ min_interval = IF open = << >> THEN configured
                          ELSE IF pc[Last(open)] = "set" THEN saved[Last(open)]
                          ELSE arg[Last(open)]

\* The inductive invariant of the limiter.
LimiterInv == /\ TypeOK /\ RateControl /\ LockHeldInside /\ SleepCoversInterval
              /\ OpenBlocks /\ NestedChain

\* A thread is let through only when the newest admission is at least as old
\* as the interval that thread's wait() read, whatever the others do meanwhile.
AdmissionSpacing ==
    [][\A t \in Threads :
          (pc[t] = "sleep" /\ pc'[t] # "sleep") => elapsed >= interval[t]]_vars

\* rate() is temporary as long as blocks close in the reverse of the order in
\* which they opened and nobody assigns min_interval inside one: then, with no
\* block open, the interval is the one last configured.
RestoredWhenNested ==
    (~disturbed /\ open = << >>) => min_interval = configured

\* When every caller passes the configured interval, as a search coordinator
\* does with the limiter it shares, the interval never changes and admissions
\* are at least that far apart.
ConfiguredSpacing ==
    [][/\ min_interval' = Default
       /\ \A t \in Threads :
             (pc[t] = "sleep" /\ pc'[t] # "sleep") => elapsed >= Default]_vars

\* While somebody queues for an admission, admissions keep happening: the lock
\* is not fair, but only callers whose interval is refused can hold it instead.
AdmissionsContinue ==
    (\E t \in Threads : pc[t] = "lock")
        ~> (elapsed = 0 \/ \E t \in Threads : pc[t] = "set" /\ ~Valid(arg[t]))

\* The limiter as a Throttle: it is the turn of the thread in _wait().
Promise == INSTANCE Throttle WITH inside <- {t \in Threads : pc[t] = "sleep"}

\* The limiter implements the abstract throttle: whatever intervals race,
\* threads are admitted one at a time and never closer than the smallest one.
ImplementsThrottle == Promise!Spec
=============================================================================
