SPECIFICATION Spec
CONSTANTS
    Messages = {m1}
    Closers = {k1}
    Callback = TRUE
INVARIANT CloseNeverPanics
CHECK_DEADLOCK FALSE
