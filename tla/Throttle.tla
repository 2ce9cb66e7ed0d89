------------------------------ MODULE Throttle ------------------------------
(***************************************************************************)
(* What a rate limiter promises its callers, whatever it does inside: it   *)
(* lets them through one at a time, and two consecutive admissions are at  *)
(* least Floor time units apart.                                           *)
(***************************************************************************)
EXTENDS Integers

CONSTANTS Threads,  \* the callers
          Floor,    \* the smallest interval any caller asks for, at most Horizon
          Horizon   \* ages from here on are not told apart

VARIABLES elapsed,  \* age of the newest admission, Horizon before the first
          inside    \* the caller whose turn it is, as a set

Init == elapsed = Horizon /\ inside = {}

\* Time passes.
Tick == /\ elapsed' = IF elapsed < Horizon THEN elapsed + 1 ELSE Horizon
        /\ UNCHANGED inside

\* It is t's turn.
Enter(t) == /\ inside = {}
            /\ inside' = {t}
            /\ UNCHANGED elapsed

\* t is let through.
Admit(t) == /\ t \in inside
            /\ elapsed >= Floor
            /\ elapsed' = 0
            /\ inside' = {}

Next == Tick \/ \E t \in Threads : Enter(t) \/ Admit(t)

Spec == Init /\ [][Next]_<<elapsed, inside>>
=============================================================================
