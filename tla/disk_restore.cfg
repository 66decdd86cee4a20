\* As disk.cfg, but a request may come upon a path that another has under way.
SPECIFICATION Spec
CONSTANTS
  Dir = Dir
  Inner = Inner
  Allow = Allow
  Ignore = Ignore
  Directory = Directory
  Nothing = Nothing
  Paths <- MCPaths
  Above <- MCAbove
  Order <- MCOrder
  Rules <- MCRules
  Excluded <- MCExcluded
  FirstRules = Allow
  Found <- MCFound
  Kept <- MCKept
  Used = 2
  Blind = TRUE
  MaxStamps = 4
  MaxEvents = 2
CHECK_DEADLOCK FALSE
INVARIANTS
  NothingDestroyed
