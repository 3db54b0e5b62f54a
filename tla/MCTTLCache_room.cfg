\* Room for every key: the cache never evicts.
CONSTANTS
    Callers = {c1, c2, c3}
    Keys = {k1, k2}
    Ids = {1, 2, 3, 4, 5, 6}
    None = None
    MaxEntries = 2
    TTLs = {1, 2}
    MaxStale = 2
    MaxTime = 3
SPECIFICATION Spec
INVARIANT SingleFlight
PROPERTIES
    NoNeedlessError
    ImplementsSharedFetch
