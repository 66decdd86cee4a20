\* Content of a live row may be away from the disk while a client pulls.
SPECIFICATION ChangesSpec
CONSTANTS
  Upper = Upper
  Lower = Lower
  Other = Other
  Outside = Outside
  body1 = body1
  NoFacts = NoFacts
  Paths <- MCPaths
  Fold <- MCFold
  Scope <- MCScope
  Facts <- MCFacts
  PageLimit = 1
  DiskMayLoseContent = TRUE
  MaxChanges = 4
  MaxAborts = 1
INVARIANT CursorComplete
