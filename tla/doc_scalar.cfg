\* Small legacy documents.
SPECIFICATION ParserSpec
CONSTANTS
  NONE = NONE
  Files <- MCPathFiles
  Replacements <- MCReplacements
  Extensions <- MCExtensions
  MaxFileSize = 4
  MaxChanges = 0
  MaxStreamCount = 3
  MaxStringBytes = 8
  MaxXmlBytes = 4
  MaxXmlNodes = 4
  ObservedVersion = 19000
  LegacyVersions = {2200, 7000}
INVARIANTS
  ScalarsInsideTheirProperty
CHECK_DEADLOCK FALSE
