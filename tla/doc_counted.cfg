SPECIFICATION ScanBomSpec
CONSTANTS
  NONE = NONE
  Names = {"Default", "Other"}
  Paths = {"p"}
  Streams = {}
  IndexedFiles = 3
  ParseResults <- ExpandedResults
  Roots <- OneRoot
  WholeProject = FALSE
  RootConfiguration = "Default"
  FollowSuppressed = TRUE
  IndexPartial = FALSE
  MaxReferenceDepth = 3
  MaxProjectFiles = 3
  MaxProjectEdges = 12
  BomConfiguration = NONE
  IncludeSuppressed = TRUE
  IncludeExcluded = FALSE
  MaxOccurrences = 8
INVARIANTS
  CountedAsDocumented
