\* Two keys, room for one: lookups evict entries that others wait for or fetch through.
CONSTANTS
    Callers = {c1, c2}
    Keys = {k1, k2}
    Ids = {1, 2, 3, 4}
    None = None
    MaxEntries = 1
    TTLs = {1}
    MaxStale = 2
    MaxTime = 2
    d1 = d1  d2 = d2  p1 = p1  p2 = p2
    Torn = Torn  Empty = Empty  Watcher = Watcher
SPECIFICATION MCSpec
INVARIANTS TypeOK CacheSound
PROPERTIES EveryGetReturns AlertsReachAll
