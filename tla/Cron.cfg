SPECIFICATION FairSpec
CONSTANTS
    report = report
    purge = purge
    empty = empty
    bad = bad
    Chains <- MCChains
    TaskCount <- MCTaskCount
    BadSpecs = {bad}
    Custom <- MCCustom
    Closers = {k1, k2}
    MaxRuns = 2
INVARIANTS RunsFollowChain SharedDataIsPrivate CloseWaits
PROPERTY CloseReturns
CHECK_DEADLOCK FALSE
