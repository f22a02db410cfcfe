SPECIFICATION Spec
CONSTANTS
  NONE = NONE
  Names = {"Default", "Other"}
  Paths = {"p"}
  Streams = {"Inner", "Other"}
  IndexedFiles = 3
  ParseResults <- TroubledResults
  Roots <- OneRoot
  WholeProject = FALSE
  RootConfiguration = NONE
  FollowSuppressed = FALSE
  IndexPartial = FALSE
  MaxReferenceDepth = 3
  MaxProjectFiles = 4
  MaxProjectEdges = 8
INVARIANTS
  VirtualAsDocumented
