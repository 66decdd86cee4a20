SPECIFICATION MCSpec
CONSTANTS
  LastMinute <- MCLastMinute
  Minute <- MCMinute
  Hour <- MCHour
  DayOfMonth <- MCDayOfMonth
  MonthOfYear <- MCMonthOfYear
  Weekday <- MCWeekday
  Date <- MCDate
  YearMonth <- MCMonthOfYear
  Bounds <- MCBounds
  WeekLength = 3
  HourLength = 2
  Span = 24
  Configs <- MCConfigs
  MaxSaves = 1
  f1 = f1
  f2 = f2
  k1 = k1
  k2 = k2
  Files <- MCFiles
  Keys <- MCKeys
  ChunkSize = 2
  TagSize = 2
  MaxLength = 3
  MaxRuns = 3
  MaxDamage = 1
  Buffer = 1
  MaxRev = 2
  MaxRules = 1
  MaxEdits = 1
  MaxFailures = 1
  MaxDrops = 1
  MaxLaunches = 1
  Torn = FALSE
  LastDay = 9
  Week <- MCWeek
  Month <- MCMonth
  Dated <- MCDated
  Plans <- MCPlans
  Upper = Upper
  Lower = Lower
  Other = Other
  Outside = Outside
  body1 = body1
  NoFacts = NoFacts
  Paths <- MCPaths
  Fold <- MCFold
  Scope <- MCScope
  Facts <- MCFacts
  PageLimit = 1
  DiskMayLoseContent = FALSE
  MaxChanges = 4
  MaxAborts = 1
INVARIANTS
  TypeOK
  ChangesTypeOK
  CursorComplete
  NoGhost
  FiresOnTime
  ReadsTrue
  LooksUntouched
  WholeTree
  VersionTrue
  ThinsAsPromised
PROPERTIES
  TakesEffect
  EventsSuffice
  PollingSuffices
  NeverBackwards
  CatchesUp
CHECK_DEADLOCK FALSE
