--------------------------- MODULE MCPathNodeMap ---------------------------
(* Small instances of PathNodeMap for TLC. *)
EXTENDS PathNodeMap

\* A branch of a record: three paths, each an ancestor of the next; the second
\* has two objects that may live at once.
Branch == {<<<<"0">>, 1>>, <<<<"0", "a">>, 1>>, <<<<"0", "a">>, 2>>,
           <<<<"0", "a", "b">>, 1>>}
=============================================================================
