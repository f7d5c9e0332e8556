SPECIFICATION Spec
CONSTANTS
  CpuNum = 2
  WorkerNum = 4
  MaxMessages = 4
  Capacity = 2
  max_size = 2
  MaxCalls <- MixedCalls
CHECK_DEADLOCK FALSE
INVARIANTS
  TypeOK
  AnswerFindsFiber
  
  TaskNotLost
  ProcessedOnce
PROPERTIES
  CallsReturn
