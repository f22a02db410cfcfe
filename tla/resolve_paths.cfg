CONSTANTS
  NONE = NONE
  Names <- MCNameSet
  Rank <- MCRank
  CadNames <- MCCad
  Folded <- MCFolded
  Drives <- MCDrives
  Up <- MCUp
  FileSystems <- MCFileSystems
  Requests <- MCRequests
  StoredPaths <- MCStoredPaths
  MaxProjectRoots = 4
  MaxProjectEntries = 8
  MaxProjectFiles = 5
SPECIFICATION ResolutionSpec
INVARIANTS
  IndexIsTheTree
  LossIsAnnounced
  EntryLimitIsHonest
  NameIsLastResort
  CandidatesBearTheName
CHECK_DEADLOCK FALSE
