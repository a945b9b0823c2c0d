\* Three chats with one question, typed in two ways.
CONSTANTS
  Chats = {"c1", "c2", "c3"}
  Prompts = {"Opening hours?", "opening hours?"}
  Prompt <- MCPrompt
  Lower <- MCLower
  NoAnswer = NoAnswer
SPECIFICATION FairSpec
INVARIANTS
  TypeOK
  OneOpenPerQuestion
  NoContextIsCaptured
PROPERTIES
  EveryChatEnds
  CaptureIsOneStep
CHECK_DEADLOCK FALSE
