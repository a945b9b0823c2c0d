\* One request, but every job may fail or crash once at any of its steps.
CONSTANTS
  Files = {f1}
  NoVersion = NoVersion
  Versions = {"empty", "doc"}
  ChunkCount <- MCChunkCount
  MaxRequests = 1
  MaxAttempts = 2
SPECIFICATION FairSpec
INVARIANTS
  TypeOK
  CompletedMeansStored
PROPERTIES
  ImplementsContract
  ArmedIsResolved
CHECK_DEADLOCK FALSE
