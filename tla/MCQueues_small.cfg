SPECIFICATION MCSpec
CONSTANTS
  None = None
  MaxWrites = 3
  Reqs = {r1, r2}  URLs = {u1, u2}  Sizes = {1, 2}  Slots = 2  Budget = 2  NegTTL = 0  MaxTime = 2
  Callers = {c1, c2}  Addrs = {a1, a2, a3}  Public = {a1, a2}
  Most = 2  Batch = 1  Day = 1  Gap = 1  Window = 2
INVARIANTS
  MCTypeOK
PROPERTIES
  ImagesSound GeoSound EverybodyServed OnlyForward HangupApplies
CHECK_DEADLOCK FALSE
