SPECIFICATION MCFairSpec
CONSTANTS
  Jobs <- AllJobs
  MaxEdits = 1
  MaxFails = 2
  MaxReloads = 1
  Articles = {a1, a2}  Titles = {t1, t2}  Clocks = {3, 4}  Offsets = {0, 2}  NoDate = NoDate
  Zone = 1  Slack = 1  MaxAge = 2  MaxItems = 2  MostEntries = 2  MaxTime = 3
INVARIANT TypeOK NoSilentStale TablesAgree UsedIsChecked
PROPERTY NothingLost BecomesCurrent ItemsSound
