SPECIFICATION Spec
ACTION_CONSTRAINTS Apart NewKey FewChanges
CONSTANTS
  d1 = d1  d2 = d2  a1 = a1  a2 = a2  k1 = k1  k2 = k2
  Devices = {d1, d2}
  Alerts = {a1}
  Keys = {k1, k2}
  MaxSubs = 4
  MaxStarts = 2
  Persist = TRUE
  None = None  Torn = Torn  Empty = Empty  Watcher = Watcher
INVARIANTS Durable OncePerStart
SYMMETRY MCSymmetry
