--------------------------- MODULE MCTransactions ---------------------------
(* Instances of Transactions for model checking.                            *)
EXTENDS Transactions, TLC

CONSTANTS a, b, c, t1, t2, t3, n1, n2, i1, i2, i3

ThreeTasks == {a, b, c}
TwoTasks == {a, b}
ThreeTx == {t1, t2, t3}
TwoTx == {t1, t2}
BothConns == {n1, n2}
ThreeIds == {i1, i2, i3}
TwoIds == {i1, i2}

Symmetric ==
    Permutations(Task) \cup Permutations(Tx) \cup Permutations(Conn) \cup Permutations(Id)
=============================================================================
