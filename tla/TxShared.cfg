\* Three tasks, three transactions, two connections whose nodes give the same ids.
SPECIFICATION Spec
CONSTANTS
    a = a  b = b  c = c
    t1 = t1  t2 = t2  t3 = t3
    n1 = n1  n2 = n2
    i1 = i1  i2 = i2  i3 = i3
    None = None
    Task <- ThreeTasks
    Tx <- ThreeTx
    Conn <- BothConns
    Id <- ThreeIds
    Nesting = TRUE
    MaxLosses = 1
SYMMETRY Symmetric
INVARIANTS
    TypeOK
    EndsOnce
    OperationsStay
    ContextReleased
    AnsweredCommit
CHECK_DEADLOCK FALSE
