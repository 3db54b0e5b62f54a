SPECIFICATION MCSpec
ACTION_CONSTRAINTS BridgeTurn WasteTurn
CONSTANTS
  v1 = v1
  v2 = v2
  v3 = v3
  v4 = v4
  n1 = n1
  n2 = n2
  f1 = f1
  f2 = f2
  None = None
  Partial = Partial
  Addrs = {v1, v2, v3, v4}
  Burst = 2
  PruneAt = 1
  PruneEvery = 1
  Idle = 2
  ResetAt = 2
  MaxTime = 5
  Room = 2  Hour = 3  Recent = 2  CounterTime = 8
  ISRS = {n1, n2}  FIS = {f1, f2}  Near <- MCNear  FISLists <- MCFISLists
  FreshFor = 1  OpenMax = 1  Day = 1  Keep = 2  PerFav = 1  MostPlans = 1
  OpenSizes = {1}  PlanSizes = {0, 2}  BridgeTime = 2
  Jobs = {traffic, plan}
  MaxChanges = 3
  Hosts = {h1, h2}
  Slots = 1  Refresh = 2  Retry = 1  IconTime = 3
  NewsArticles = {1, 2, 3, 4, 5}  Sources = {1, 2, 3, 4}  DefaultOn = {1, 2, 4}
  SourceOf <- MCSourceOf  Canon <- MCCanon  Title <- MCTitle  Words <- MCWords  Lang <- MCLang
  Requests <- MCRequests  StoryWindow = 1  Extra = 1  MostRelated = 1  NewsHour = 2  HalfHour = 1
  LookBack = 2  MaxLimit = 2  MaxPer = 1  NewsTime = 3
  Levels = {2, 3}  Codes = {1, 2, 3, 4}  Stations = {s1, s2}  AlertStations = 2
  Articles = {1, 2, 3}  Need = 2  Days = {1, 2}  Hours = {19, 20}  WasteHour = 19  MaxRuns = 3
  Callers = {v1}
  Own = {1}  Regional = {2}  Elsewhere = {3}
  Ending <- MCEnding
  MaxMoves = 1  MaxReloads = 1
INVARIANTS
  MCTypeOK Bounded CompleteIsExact FileSound
  AsTheHistorySays PageSound WasteSound
PROPERTIES
  ImplementsTokenBuckets  IconsSound
SYMMETRY MCSymmetry
CHECK_DEADLOCK FALSE
