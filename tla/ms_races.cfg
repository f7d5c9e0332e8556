SPECIFICATION Spec
CONSTANTS
  s1 = s1
  s2 = s2
  s3 = s3
  s4 = s4
  t1 = t1
  t2 = t2
  t3 = t3
  b1 = b1
  b2 = b2
  Snapshots = {s1, s2, s3}
  Root = s1
  Names = {}
  Threads = {t1, t2}
  Calls <- RaceCalls
  MaxHandles = 2
  MaxDrift = 0
  NoNode = NoNode
  NoThread = NoThread
INVARIANTS
  HistoryIsTree
  LatchCountsWriters
  HeadsCommitted
  CommittedHasData
SYMMETRY Symmetry
CHECK_DEADLOCK FALSE
