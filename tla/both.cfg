\* Two users make, edit and delete one file, three times in all, and one cycle
\* fails or dies at any point; two runs of the backup, and one deletion, stop,
\* failure or death among them.
SPECIFICATION BothSpec
CONSTANTS
  Doc = Doc
  Copy1 = Copy1
  Copy2 = Copy2
  Laptop = Laptop
  Desktop = Desktop
  Clients <- MCClients
  Paths <- MCPaths
  Fold <- MCFold
  Facts = {1, 2, 3}
  NoFacts = 0
  Edited <- MCEdited
  Rank <- MCRank
  MaxEdits = 3
  MaxAborts = 1
  MidAirEdits = FALSE
  WhileStopped = FALSE
  MaxDeletes = 50
  Cron = Cron
  H1 = H1
  Nobody = Nobody
  Deletion = Deletion
  LastDay = 3
  Week <- MCWeek
  Month <- MCMonth
  Dated <- MCDated
  Scheduled = Cron
  ByHand <- MCByHand
  Found <- MCFound
  Tiers <- MCTiers
  MaxRuns = 2
  MaxEvents = 1
CHECK_DEADLOCK FALSE
INVARIANTS
  TypeOK
  BackupTypeOK
  SingleFlight
  NoHalfBackup
  NewestGoodStays
  SizesTrue
PROPERTIES
  RecordedIsSafe
  OnlyUsersDelete
  DeletionsStay
  Settles
  GoodOnesThinOut
  OneWriter
  EverySizeMeasured
  EveryRunEnds
