\* Users may edit a file while its new version is downloaded.
SPECIFICATION Spec
CONSTANTS
  Doc = Doc
  Copy1 = Copy1
  Copy2 = Copy2
  Laptop = Laptop
  Desktop = Desktop
  Clients <- MCClients
  Paths <- MCPaths
  Fold <- MCFold
  Facts = {1, 2, 3}
  NoFacts = 0
  Edited <- MCEdited
  Rank <- MCRank
  MaxEdits = 3
  MaxAborts = 0
  MidAirEdits = TRUE
  WhileStopped = FALSE
  MaxDeletes = 50
CHECK_DEADLOCK FALSE
PROPERTY RecordedIsSafe
