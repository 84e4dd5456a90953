SPECIFICATION Spec
CONSTANTS
  f1 = f1
  f2 = f2
  s1 = s1
  w1 = w1
  w2 = w2
  Sweeper = {s1}
  Day <- MCDay
  Horizon = 2
  Retention = 1
  RowCap = 2
  Fetcher = {f1, f2}
  Worker = {w1, w2}
  WorkerOf <- TwoWorkers
  Kind = {"usage"}
  NullKeyed = {}
  Faults = {"crash", "write", "insert", "unlink"}
INVARIANT RecordedIsStored
PROPERTY HonestNotFound
PROPERTY MirrorSpec
