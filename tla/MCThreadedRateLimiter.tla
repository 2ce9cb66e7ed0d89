----------------------- MODULE MCThreadedRateLimiter -----------------------
(* Small instances of ThreadedRateLimiter for TLC. *)
EXTENDS ThreadedRateLimiter, TLC

CONSTANTS t1, t2

Two   == {t1, t2}

\* A negative interval, a short one and a long one.
MixedInputs == {-1, 1, 3}
OneAssigned == {1}
=============================================================================
