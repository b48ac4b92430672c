SPECIFICATION FairSpec
CONSTANTS
  N = 4
  Paths <- MCPaths
  PathOf <- MCPathOf
  Unmappable = Unmappable
  Above <- MCAbove
  Fold <- MCFold
  Existing <- MCExisting
  PageSize = 2
PROPERTIES
  ReplacesAtomically
