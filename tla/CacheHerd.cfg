SPECIFICATION FairSpec
CONSTANTS
    Callers = {c1, c2, c3}
    Keys = {k1}
    Locks = {l1, l2, l3, l4}
    Ttl = 2
    Delays = {1}
    MaxTime = 4
    MaxInvalidations = 1
INVARIANTS TypeOK NoStaleHit
PROPERTIES NoRedundantFetch EveryCallReturns
