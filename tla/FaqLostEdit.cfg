\* An answer and its edit.
CONSTANTS
  Faqs = {q1}
  Questions = {"question"}
  Question <- MCQuestion
  NoVersion = NoVersion
  Answers = {"short", "long"}
  ChunkCount <- MCChunkCount
  MaxRequests = 2
  MaxAttempts = 1
  Faults = {}
SPECIFICATION Spec
INVARIANT EveryAnswerIndexed
CHECK_DEADLOCK FALSE
