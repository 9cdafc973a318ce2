\* Two tasks, each with a transaction; nodes number their transactions alike.
SPECIFICATION Spec
CONSTANTS
    a = a  b = b  c = c
    t1 = t1  t2 = t2  t3 = t3
    n1 = n1  n2 = n2
    i1 = i1  i2 = i2  i3 = i3
    None = None
    Task <- TwoTasks
    Tx <- TwoTx
    Conn <- BothConns
    Id <- TwoIds
    Nesting = FALSE
    MaxLosses = 0
SYMMETRY Symmetric
INVARIANTS
    EndsOwnTransaction
CHECK_DEADLOCK FALSE
