\* Two calls for one FAQ, any two of Answer, Update and Delete; deletion jobs may
\* fail or crash once and are tried again.
CONSTANTS
  Faqs = {q1}
  Questions = {"question"}
  Question <- MCQuestion
  NoVersion = NoVersion
  Answers = {"short", "long"}
  ChunkCount <- MCChunkCount
  MaxRequests = 2
  MaxAttempts = 2
  Faults = {"Delete-File-From-Storage"}
SPECIFICATION FairSpec
INVARIANTS
  TypeOK
  DeletedLeavesNoRow
  IndexedMatchesObject
PROPERTIES
  IndexCatchesUp
  DeletedObjectGoes
  NoObjectIsForgotten
CHECK_DEADLOCK FALSE
