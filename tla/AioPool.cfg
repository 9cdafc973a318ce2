SPECIFICATION MCSpec
CONSTANTS
    N = 2
    Tasks <- TwoTasks
    Background = "background"
    Refusals <- NoneOrLast
    MaxCalls = 3
    MaxEvents = 1
INVARIANTS GivesUp AliveHaveContext
PROPERTY PoolCallsReturn
CHECK_DEADLOCK FALSE
