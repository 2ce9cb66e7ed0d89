----------------------------- MODULE MCStorage -----------------------------
(* Small instances of Storage for TLC. *)
EXTENDS Storage, TLC

CONSTANTS t1, t2, s1, s2, pubmed, pubmed2

Two == {t1, t2}

\* A namespace beginning with the name of another; a ttl for one of them.
Pair == {s1, s2}
PairSpaces == (s1 :> pubmed) @@ (s2 :> pubmed2)
PairTTL == (s1 :> TRUE) @@ (s2 :> FALSE)
LongerName == {<<pubmed, pubmed2>>}

AllBackends == {"memory", "redis", "sql", "mongo"}
OneRaises == {(s1 :> TRUE) @@ (s2 :> FALSE)}
=============================================================================
