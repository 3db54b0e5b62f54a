\* Two keys, room for one: the claim of a shared fetch.
CONSTANTS
    Callers = {c1, c2, c3}
    Keys = {k1, k2}
    Ids = {1, 2, 3, 4}
    None = None
    MaxEntries = 1
    TTLs = {1}
    MaxStale = 2
    MaxTime = 2
SPECIFICATION Spec
INVARIANT SingleFlight
