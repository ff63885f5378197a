SPECIFICATION Spec
CONSTANTS
    Instances = {i1}
    LogEnd = 2
    MaxRetries = 0
    Crashes = 0
INVARIANT CommittedWasHandled
CHECK_DEADLOCK FALSE
