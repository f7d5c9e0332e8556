SPECIFICATION Spec
CONSTANTS
  Snapshots = {1, 2}
  First = 1
  Keys <- Keys11
  NodeSize = 4
  NodeIndexSize = 2
  MaxNodes = 26
  MaxBlocks = 14
  MaxCalls = 3
  Loaded = 11
INVARIANT RootHasOneReference
CHECK_DEADLOCK FALSE
