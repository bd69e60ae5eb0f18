SPECIFICATION Spec
CONSTANTS
    Callers = {c1, c2}
    Keys = {k1, k2}
    Locks = {l1, l2, l3, l4}
    Ttl = 1
    Delays = {11}
    MaxTime = 22
    MaxInvalidations = 1
INVARIANTS SingleFlight IInv
PROPERTIES NoOlderEntry
SYMMETRY Interchangeable
