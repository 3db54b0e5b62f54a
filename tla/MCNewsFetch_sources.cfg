SPECIFICATION FairSpec
CONSTANTS
  s1 = s1  s2 = s2  u1 = u1  u2 = u2
  Sources = {s1}
  URLs = {u1, u2}
  MaxEdits = 1
  MaxReloads = 2
  MaxStarts = 2
  None = None
INVARIANT TypeOK Coherent JobsMatchConfig
PROPERTY NeverBack EventuallyFresh
