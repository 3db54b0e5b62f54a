SPECIFICATION MCSpec
CONSTANTS
  d1 = d1  d2 = d2  a1 = a1  a2 = a2  k1 = k1  k2 = k2
  Devices = {d1}
  Alerts = {a1}
  Keys = {k1}
  MaxSubs = 1
  MaxStarts = 2
  Persist = FALSE
  None = None  Torn = Torn  Empty = Empty  Watcher = Watcher
INVARIANT AtMostOnce
