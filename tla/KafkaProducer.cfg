SPECIFICATION FairSpec
CONSTANTS
    Messages = {m1, m2, m3}
    Closers = {k1, k2}
    Callback = TRUE
INVARIANTS CallbackAgrees
PROPERTIES QuietAfterClose FailureCalledBack CloseReturns
CHECK_DEADLOCK FALSE
