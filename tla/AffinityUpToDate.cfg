\* One caller, two caches, two nodes, one change of topology.
SPECIFICATION Spec
CONSTANTS
    a = a  b = b  c1 = c1  c2 = c2  n1 = n1  n2 = n2  None = None
    Task <- OneTask
    Cache <- TwoCaches
    Applicable <- OnlyC1
    Node <- TwoNodes
    MaxVersion = 2
    Retries = 2
    MaxLosses = 0
INVARIANT UpToDate
