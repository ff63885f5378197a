SPECIFICATION FairSpec
CONSTANTS
    Starters = {s1, s2}
    Syncers = {y1}
    MaxRetries = 2
    MaxVersion = 2
INVARIANTS NeverBackBeforeStart
PROPERTIES Converges CancelledLoopEnds
CHECK_DEADLOCK FALSE
