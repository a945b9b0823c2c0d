\* One answer, with every step failing once.
CONSTANTS
  Faqs = {q1}
  Questions = {"question"}
  Question <- MCQuestion
  NoVersion = NoVersion
  Answers = {"short"}
  ChunkCount <- MCChunkCount
  MaxRequests = 1
  MaxAttempts = 2
  Faults = {"HTTP", "Index-FAQ", "Process-RAG-File"}
SPECIFICATION Spec
INVARIANTS
  IndexedMeansSearchable
CHECK_DEADLOCK FALSE
