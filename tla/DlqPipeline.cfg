SPECIFICATION FairPipeline
CONSTANTS
    r1 = r1
    r2 = r2
    t1 = t1
    t2 = t2
    Rows <- MCRows
    NilRows = {}
    Tables <- MCTables
    TableOf <- MCTableOf
    Calls <- MCCalls
    Writers = {w1}
    Queriers = {q1}
    Closers = {app}
    App = app
    Callback = callback
    NoPayload = NoPayload
    BufferSize = 1
    ChanCap = 2
    FlushSize = 2
    MinFlushSize = 2
    MaxWaitTime = TRUE
    MaxRetries = 1
    SchemaRefresh = TRUE
    Fallback = TRUE
    Outcomes = {"ok", "permanent"}
INVARIANTS FailedRowsRecorded ConnOutlivesCalls CloseNotDeadlocked
PROPERTIES ShutdownCompletes RowsSettle
CHECK_DEADLOCK FALSE
