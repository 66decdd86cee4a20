\* No failure at all, but requests on one path may overlap.
SPECIFICATION Spec
CONSTANTS
  Doc = Doc
  Twin = Twin
  Other = Other
  Folder = Folder
  Inner = Inner
  DocCopy = DocCopy
  DocCopy2 = DocCopy2
  InnerCopy = InnerCopy
  TwinCopy = TwinCopy
  OtherCopy = OtherCopy
  FolderCopy = FolderCopy
  r1 = r1
  r2 = r2
  r3 = r3
  Directory = Directory
  NoFacts = NoFacts
  Reqs <- MCReqs
  Named <- MCNamed
  Paths <- MCPaths
  Fold <- MCFold
  Facts <- MCFacts
  Copies <- MCCopies
  Above <- MCAbove
  On <- MCOn
  Racing = TRUE
  ConflictsApart = TRUE
  Failures = {}
SYMMETRY Symmetry
CHECK_DEADLOCK FALSE
INVARIANT NoLostContent
