---------------------------- MODULE PageResults ----------------------------
(***************************************************************************)
(* The pure part of multi-page retrieval: the order pages are asked for    *)
(* (PageListInput), how many pages are left (ResponseMetadataMap) and when *)
(* a page ends the retrieval (SearchCoordinator._process_page_result).     *)
(*                                                                         *)
(* The result of a page is a record: `kind' is "processed" for a           *)
(* ProcessedResponse, "error" for an ErrorResponse, "non" for a            *)
(* NonResponse, "none" for None and "raise" when an exception escapes;     *)
(* `count' the records extracted, `total' the hits the provider reports or *)
(* NoTotal, `status' the status code or NoStatus.                          *)
(***************************************************************************)
EXTENDS PageMetadata

CONSTANT NoStatus     \* a response without a status code

Kinds == {"processed", "error", "non", "none", "raise"}

\* A page of n records under a reported total.
Processed(n, total) ==
    [kind |-> "processed", count |-> n, total |-> total, status |-> 200]

\* A result that carries no records.
Failed(kind, status) ==
    [kind |-> kind, count |-> 0, total |-> NoTotal, status |-> status]

\* Mutant of PageNumbers: the sequence is taken as it was given.
PageNumbersAsGiven(pages) == pages

\* PageListInput.page_validation of a sequence: sorted(set(pages)).
PageNumbers(pages) ==
    CHOOSE s \in SetToSeqs(ToSet(pages)) : \A i, j \in DOMAIN s : i < j => s[i] < s[j]

\* Mutant of PagesRemaining: the last, partly filled page is not counted.
PagesRemainingFloor(page, total, rpp) ==
    LET left == (total \div rpp) - page IN IF left > 0 THEN left ELSE 0

\* ResponseMetadataMap._calculate_pages_remaining, ceil(total / rpp) - page.
PagesRemaining(page, total, rpp) ==
    LET left == ((total + rpp - 1) \div rpp) - page
    IN  IF left > 0 THEN left ELSE 0

\* SearchCoordinator._process_page_result: is this page the last to ask for?
Halts(r, page, rpp) ==
    IF r.kind = "processed"
    THEN IF r.total # NoTotal THEN PagesRemaining(page, r.total, rpp) = 0
                              ELSE r.count < rpp
    ELSE ~(r.kind \in {"non", "none"} /\ page = 0)
=============================================================================
