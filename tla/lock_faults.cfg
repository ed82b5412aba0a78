SPECIFICATION Spec
CONSTANTS
  h1 = h1  h2 = h2  h3 = h3  s1 = s1  a1 = a1
  NoLock = NoLock
  Leftover = Leftover
  Proc = {h1, h2, a1}
  Kind <- TwoHooksAndApply
  Faults = {"crash", "expire", "leftover"}
  MaxPasses = 1
  MaxPolls = 0
SYMMETRY Hooks
INVARIANTS Exclusion NoOrphanLock
PROPERTY JudgedFairly
CHECK_DEADLOCK FALSE
