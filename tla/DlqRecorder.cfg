SPECIFICATION FairSpec
CONSTANTS
    Callers = {c1, c2}
    Closers = {k1, k2}
    Payloads = {p1, p2, p3, p4}
    NoPayload = NoPayload
    BufferSize = 2
INVARIANTS Accounting ProducerOutlivesLoop
PROPERTIES DrainsBuffered CloseReturns
CHECK_DEADLOCK FALSE
