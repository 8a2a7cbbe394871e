SPECIFICATION FairMcpSpec
CONSTANTS
  Versions = 3
  Calls = 1
  AskIds = {0}
  LogLines = 2
  PipeCap = 1
  MaxExtra = 2
  MaxUnread = 2
INVARIANT McpTypeOK
INVARIANT RepliesMatch
INVARIANT ToolsAreLearned
INVARIANT HandshakeErrorJustified
PROPERTY ClientFinishes
CHECK_DEADLOCK FALSE
