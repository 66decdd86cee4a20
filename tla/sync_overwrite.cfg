\* Nothing fails and nobody edits a file that is being downloaded.
SPECIFICATION Spec
CONSTANTS
  Doc = Doc
  Copy1 = Copy1
  Copy2 = Copy2
  Laptop = Laptop
  Desktop = Desktop
  Clients <- MCClients
  Paths <- MCPaths
  Fold <- MCFold
  Facts = {1, 2, 3}
  NoFacts = 0
  Edited <- MCEdited
  Rank <- MCRank
  MaxEdits = 3
  MaxAborts = 0
  MidAirEdits = FALSE
  WhileStopped = FALSE
  MaxDeletes = 50
CHECK_DEADLOCK FALSE
PROPERTY NothingDiscarded
