\* Documents of up to five headings and blocks around a limit of eight tokens.
CONSTANTS
  Nodes <- MCNodes
  MaxNodes = 5
  TargetMin = 3
  TargetMax = 8
  Overlap = 2
SPECIFICATION Spec
INVARIANTS
  TypeOK
  HeadingsInScope
  NothingLost
  ChunksFit
  MergedStaysWhole
  WordsAreDescribed
PROPERTIES
  AlwaysForward
