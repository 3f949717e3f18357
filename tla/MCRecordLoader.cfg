SPECIFICATION Spec
CONSTANTS
  Paths <- MCPaths
  Nested = {}
  Records <- MCRecords
  Rejected = "rejected"
  Garbled = "garbled"
  Undecodable = "undecodable"
  MaxChanges = 1
INVARIANT
  UnreadableFailsAsError
CHECK_DEADLOCK FALSE
