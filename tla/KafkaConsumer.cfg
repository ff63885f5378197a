SPECIFICATION FairSpec
CONSTANTS
    Instances = {i1}
    LogEnd = 2
    MaxRetries = 2
    Crashes = 1
INVARIANTS CommittedWasHandled SkipsAreReported CallsInOrder
PROPERTY EveryMessageFinishes
CHECK_DEADLOCK FALSE
