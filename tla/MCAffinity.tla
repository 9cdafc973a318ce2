----------------------------- MODULE MCAffinity -----------------------------
(* Instances of Affinity for model checking.                                *)
EXTENDS Affinity

CONSTANTS a, b, c1, c2, n1, n2

TwoTasks == {a, b}
OneTask == {a}
TwoCaches == {c1, c2}
OnlyC1 == {c1}
TwoNodes == {n1, n2}
=============================================================================
