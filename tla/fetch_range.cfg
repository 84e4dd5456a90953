SPECIFICATION FairSpec
CONSTANTS
  g1 = g1
  l1 = l1
  r1 = r1
  w1 = w1
  Run = {r1}
  Worker = {w1}
  WorkerOf <- OneWorker
  Day <- TwoDays
  Group = {g1}
  Region = {l1}
  GroupsIn <- NarrowGroups
  RegionsIn <- NarrowRegions
  Coming <- FirstDate
  ByHand = {2}
  Faults = {"write", "insert"}
  MaxErrors = 1
INVARIANT UnfetchedIsRetried
PROPERTY RunEnds
PROPERTY CleanMeansComplete
