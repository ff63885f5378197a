SPECIFICATION Spec
CONSTANTS
    r1 = r1
    r2 = r2
    r3 = r3
    nil = nil
    t1 = t1
    t2 = t2
    w1 = w1
    w2 = w2
    k1 = k1
    Rows <- MCRows
    NilRows <- MCNilRows
    Tables <- MCTables
    TableOf <- MCTableOf
    Calls <- MCCalls
    Writers = {w1, w2}
    Closers = {k1}
    ChanCap = 2
    FlushSize = 2
    MinFlushSize = 1
    MaxWaitTime = TRUE
    MaxRetries = 1
    SchemaRefresh = TRUE
    Fallback = TRUE
    Outcomes = {"ok", "unknown"}
SYMMETRY MCSymmetry
INVARIANTS ReportedOnce BatchAccounting StoredAgrees FailedRowsHanded
PROPERTIES QuietAfterClose ImplementsRowDelivery
CHECK_DEADLOCK FALSE
