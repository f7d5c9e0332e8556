SPECIFICATION Spec
CONSTANTS
  CpuNum = 2
  WorkerNum = 4
  MaxMessages = 4
  Capacity = 2
  max_size = 2
  MaxCalls <- ExitCalls
INVARIANTS
  PoolRunning
CHECK_DEADLOCK FALSE
