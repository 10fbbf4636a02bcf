CONSTANTS
  MaxToolIndex = 2
  MaxTools = 4
  MaxItems = 5
  MaxLength = 3
  Quirks = {}
  Backends = {"OpenAI", "OpenAIResponses", "GeminiNative"}
SPECIFICATION FairSpec
INVARIANTS TypeOK InStep HeardOnce
PROPERTIES ProtocolKept CompletedIsSeen
CHECK_DEADLOCK FALSE
