SPECIFICATION FairSpec
CONSTANTS
  f1 = f1
  f2 = f2
  s1 = s1
  w1 = w1
  w2 = w2
  Sweeper = {s1}
  Day <- MCDay
  Horizon = 2
  Retention = 1
  RowCap = 3
  Fetcher = {f1, f2}
  Worker = {w1}
  WorkerOf <- OneWorker
  Kind = {"account"}
  NullKeyed = {"account"}
  Faults = {}
INVARIANT WindowRecorded
INVARIANT DuplicatesBounded
INVARIANT SentWhole
PROPERTY ServedWhole
PROPERTY ExpiredRecordsGo
