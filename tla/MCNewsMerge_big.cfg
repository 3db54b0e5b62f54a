SPECIFICATION Spec
CONSTANTS
  Articles = {1, 2}
  SourceOf <- MCEach
  Canon <- MCEach
  Title <- MCTitle
  Words <- MCWords
  TitleWords <- MCWords
  Lang <- MCLang
  Enabled = {1, 2}
  DefaultOn = {1, 2}
  Lists <- MCLists
  Window = 1
  Extra = 1
  MostRelated = 1
  Need = 2
  Hour = 2
  HalfHour = 1
  LookBack = 2
  MaxLimit = 2
  MaxPer = 1
  MaxTime = 3
  None = None
INVARIANT BigNewsIsTold
CHECK_DEADLOCK FALSE
