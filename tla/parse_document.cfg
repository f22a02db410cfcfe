\* Documents of up to four streams in every order; nobody else writes.
SPECIFICATION ParserSpec
CONSTANTS
  NONE = NONE
  Files <- MCFiles
  Replacements <- MCReplacements
  Extensions <- MCExtensions
  MaxFileSize = 4
  MaxChanges = 0
  MaxStreamCount = 3
  MaxStringBytes = 8
  MaxXmlBytes = 4
  MaxXmlNodes = 4
  ObservedVersion = 19000
  LegacyVersions = {2200, 7000}
INVARIANTS
  FailedStreamLeavesNothing
  NamesByPrecedence
  NothingOrphaned
  SheetPreviewsFollowNames
CHECK_DEADLOCK FALSE
