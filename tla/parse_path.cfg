\* One path that others write twice while it is parsed and its resources are extracted.
SPECIFICATION ParserSpec
CONSTANTS
  NONE = NONE
  Files <- MCPathFiles
  Replacements <- MCReplacements
  Extensions <- MCExtensions
  MaxFileSize = 4
  MaxChanges = 2
  MaxStreamCount = 3
  MaxStringBytes = 8
  MaxXmlBytes = 4
  MaxXmlNodes = 4
  ObservedVersion = 19000
  LegacyVersions = {2200, 7000}
INVARIANTS
  ReadIsBounded
  ReleasedAsDescribed
PROPERTIES
  ParseEnds
CHECK_DEADLOCK FALSE
