--------------------------- MODULE MCRetryHandler ---------------------------
(* Small instances of RetryHandler for TLC. *)
EXTENDS RetryHandler

\* 200 is accepted, 429 is retried, 404 is neither.
Reply(s, f, n) == [status |-> s, form |-> f, after |-> n]

MCResponses ==
    {Reply(200, "none", 0), Reply(404, "none", 0), Reply(429, "none", 0),
     Reply(429, "seconds", 5), Reply(429, "seconds", -1), Reply(429, "date", 3)}
Accepts == {200}
Retried == {429}
=============================================================================
