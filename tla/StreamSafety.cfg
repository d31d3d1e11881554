SPECIFICATION Spec
CONSTANTS
  Requests <- SomeRequests
  Pieces <- Letters
  Contents = {1, 2, 3, 4, 5, 6, 7, 8}
  CustomTools <- Custom
  MaxChunks = 4
  MaxFaults = 1
INVARIANTS TypeOK ConversationKept AnthropicFaithful ResponsesFaithful  FailureCounted CompletionMeansEnd
PROPERTIES EveryStreamEnds
CHECK_DEADLOCK FALSE
