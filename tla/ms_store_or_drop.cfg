SPECIFICATION Spec
CONSTANTS
  s1 = s1
  s2 = s2
  s3 = s3
  s4 = s4
  t1 = t1
  t2 = t2
  t3 = t3
  b1 = b1
  b2 = b2
  Snapshots = {s1, s2, s3}
  Root = s1
  Names = {}
  Threads = {t1, t2}
  Calls <- StoreOrDropCalls
  MaxHandles = 1
  MaxDrift = 0
  NoNode = NoNode
  NoThread = NoThread
INVARIANTS
  SomeCallCanProceed
CHECK_DEADLOCK FALSE
