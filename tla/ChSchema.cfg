SPECIFICATION FairSpec
CONSTANTS
    Tables = {t1}
    Callers = {c1, c2}
    Flusher = Flusher
    Ticker = Ticker
    MaxVersion = 2
PROPERTIES InsertEnds CacheCatchesUp
CHECK_DEADLOCK FALSE
