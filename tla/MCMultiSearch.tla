--------------------------- MODULE MCMultiSearch ---------------------------
(* Small instances of MultiSearch for TLC. *)
EXTENDS MultiSearch

CONSTANTS A, B,          \* providers
          a1, a2, b0, b1

\* Two queries of one provider next to another provider, whose coordinator was
\* added a second time.
TwoCoordinators == {a1, a2, b0, b1}
AddedTwice   == <<b0, a1, b1, a2>>
TwoKeys      == [c \in TwoCoordinators |-> IF c = b0 THEN b1 ELSE c]
TwoProviders == [c \in TwoCoordinators |-> IF c \in {a1, a2} THEN A ELSE B]

\* The retry handlers differ: 401 ends a provider's group and 429 does not,
\* except before a2, whose handler retries 401 and not 429.
TwoRetries == [c \in TwoCoordinators |-> IF c = a2 THEN {401} ELSE {429}]

TwoPages == <<1, 2>>
ZeroAndTwoPages == <<0, 1, 2>>

More == Processed(2, NoTotal)
Enough == Processed(2, 2)

\* Every kind of response.
AllResponses == {More, Enough, Failed("error", 401), Failed("error", 429),
                 Failed("error", NoStatus), Failed("non", NoStatus),
                 Failed("raise", NoStatus)}

AllModes == {"threaded", "grouped", "round_robin"}
Grouped == {"grouped"}
AnyWorkers == {0, NoLimit}

\* A response that could not be processed keeps the status 200.
Unprocessed == {More, Enough, Failed("error", 200)}
=============================================================================
