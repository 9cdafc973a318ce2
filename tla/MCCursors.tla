----------------------------- MODULE MCCursors ------------------------------
(* Instances of Cursors for model checking.                                 *)
EXTENDS Cursors, TLC

CONSTANTS a, b, scan, fields

TwoTasks == {a, b}
TwoCursors == {scan, fields}
OneFields == {fields}

\* Three pages and two pages of two rows.
Sizes == (scan :> 5) @@ (fields :> 3)

Symmetric == Permutations(Task)
=============================================================================
