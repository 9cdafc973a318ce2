---------------------------- MODULE MCAioConnection ---------------------------
(* Model values and the symmetry of the AioConnection runs.                 *)
EXTENDS AioConnection, TLC

CONSTANTS c1, c2, t1, t2

OneCaller == {c1}
TwoCallers == {c1, c2}
TwoTransports == {t1, t2}
AllReplies == {"ok"} \cup Rejections

Symmetry == Permutations(Caller) \cup Permutations(Transport)

=============================================================================
