SPECIFICATION FairSpec
CONSTANTS
    Requests = {q1, q2}
    Jobs = {q1, q2}
    Waiters = {w1}
    Mounts = {m1, m2}
    NoMount = NoMount
    CheckerCount = 2
    NameOf <- MCNameOf
    HonoursCtx = {1}
    OwnTimeout = {2}
    HandlerTimeout = TRUE
    Skip <- MCSkip
INVARIANTS VerdictSound GaugeAgrees WaitWaits
PROPERTY HealthAnswers
CHECK_DEADLOCK FALSE
