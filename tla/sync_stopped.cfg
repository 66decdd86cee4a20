\* One machine, run once at a time: a file is made, synced, removed.
SPECIFICATION FairSpec
CONSTANTS
  Doc = Doc
  Copy1 = Copy1
  Copy2 = Copy2
  Laptop = Laptop
  Desktop = Desktop
  Clients = {Laptop}
  Paths <- MCPaths
  Fold <- MCFold
  Facts = {1, 2}
  NoFacts = 0
  Edited <- MCEdited
  Rank <- MCRank
  MaxEdits = 2
  MaxAborts = 0
  MidAirEdits = FALSE
  WhileStopped = TRUE
  MaxDeletes = 50
CHECK_DEADLOCK FALSE
PROPERTY StoppedDeletionsComeBack
