------------------------ MODULE MCSearchCoordinator ------------------------
(* Small instances of SearchCoordinator for TLC. *)
EXTENDS SearchCoordinator

Reply(s, f, n) == [status |-> s, form |-> f, after |-> n]

\* 200 is accepted, 429 is retried, 404 is neither.
Accepts == {200}
Retried == {429}
Stored  == {200}
Request(p, e) == [page |-> p, extra |-> e]
Two       == {Request(1, "none"), Request(1, "db")}
One       == {Request(NoPage, "none")}
TwoSchemas == {1, 2}
OneSchema  == {1}
Both == {TRUE, FALSE}
Only == {FALSE}
Default == {TRUE}

InSeconds == {Reply(200, "none", 0), Reply(200, "seconds", 2),
              Reply(429, "seconds", 2), Reply(404, "none", 0)}
Mixed     == {Reply(200, "seconds", 1), Reply(429, "none", 0), Reply(404, "date", 1)}
=============================================================================
