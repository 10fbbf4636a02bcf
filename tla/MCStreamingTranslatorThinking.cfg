CONSTANTS
  MaxToolIndex = 2
  MaxTools = 4
  MaxItems = 3
  MaxLength = 3
  Quirks = {"toolAfterThinking"}
SPECIFICATION Spec
INVARIANT OneBlockAtATime
CHECK_DEADLOCK FALSE
