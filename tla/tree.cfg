SPECIFICATION Spec
CONSTANTS
  Snapshots = {1, 2}
  First = 1
  Keys <- Keys4
  NodeSize = 2
  NodeIndexSize = 2
  MaxNodes = 26
  MaxBlocks = 10
  MaxCalls = 6
  Loaded = 4
INVARIANTS
  TypeOK
  RefsExact
  
  SearchTree
PROPERTY Implements
CHECK_DEADLOCK FALSE
