SPECIFICATION McpSpec
CONSTANTS
  Versions = 1
  Calls = 1
  AskIds = {0, 1, 2}
  LogLines = 2
  PipeCap = 1
  MaxExtra = 2
  MaxUnread = 2
INVARIANT ToolsAreLearned
CHECK_DEADLOCK FALSE
