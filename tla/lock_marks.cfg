SPECIFICATION FairSpec
CONSTANTS
  h1 = h1  h2 = h2  h3 = h3  s1 = s1  a1 = a1
  NoLock = NoLock
  Leftover = Leftover
  Proc = {h1, s1, a1}
  Kind <- HookSyncApply
  Faults = {"unusable", "passError", "recycledPid", "releaseFails"}
  MaxPasses = 1
  MaxPolls = 1
 
PROPERTY EveryRunEnds
CHECK_DEADLOCK FALSE
