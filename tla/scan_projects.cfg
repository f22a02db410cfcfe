SPECIFICATION FairSpec
CONSTANTS
  NONE = NONE
  Names = {"Default", "Other"}
  Paths = {"p"}
  Streams = {"Inner", "Other"}
  IndexedFiles = 3
  ParseResults <- ScannedResults
  Roots <- OneRoot
  WholeProject = FALSE
  RootConfiguration = "Default"
  FollowSuppressed = FALSE
  IndexPartial = FALSE
  MaxReferenceDepth = 2
  MaxProjectFiles = 3
  MaxProjectEdges = 8
INVARIANTS
  TypeOK
  NothingTwice
  FirstContact
  CycleClosesAPath
  NothingOverlooked
PROPERTIES
  ImplementsReferenceGraph
  Terminates
  NeverRevised
