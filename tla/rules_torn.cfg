SPECIFICATION EventSpec
CONSTANTS
  Buffer = 1
  MaxRev = 0
  MaxRules = 2
  MaxEdits = 0
  MaxFailures = 0
  MaxDrops = 0
  MaxLaunches = 0
  Torn = TRUE
PROPERTY RulesReachEveryone
CHECK_DEADLOCK FALSE
