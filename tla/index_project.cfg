SPECIFICATION Spec
CONSTANTS
  NONE = NONE
  Names = {"Default", "Other"}
  Paths = {"p"}
  Streams = {"Inner", "Other"}
  IndexedFiles = 3
  ParseResults <- IndexResults
  Roots <- AllRoots
  WholeProject = TRUE
  RootConfiguration = NONE
  FollowSuppressed = TRUE
  IndexPartial = FALSE
  MaxReferenceDepth = 1
  MaxProjectFiles = 4
  MaxProjectEdges = 5
INVARIANTS
  BoundedRecursion
  UnparsedWasHeldBack
  VerdictIsWarranted
