SPECIFICATION FairSpec
CONSTANTS
    Callers = {c1, c2}
    Keys = {k1}
    Live = live
    MaxRetries = 2
    Timeout = 2
    BackoffBase = 1
    Ttl = 2
    MaxTime = 10
INVARIANTS TypeOK TimesInOrder HitsAreRecent CallEndsInTime
PROPERTIES EveryCallReturns
