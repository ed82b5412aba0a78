SPECIFICATION Spec
CONSTANTS
  Run = {r1, r2}
  r1 = r1
  r2 = r2
  Text = {t1, t2}
  t1 = t1
  t2 = t2
  Filed = t1
  NoText = NoText
  Check = {k1, k2}
  k1 = k1
  k2 = k2
  Readable = {k1, k2}
  Commands <- Pairs
  Faults = {"callFails"}
  MaxChanges = 3
  MaxEvents = 2
INVARIANTS VerdictHolds ReworkLosesNothing VerifyProves
PROPERTY WorkersSpared
SYMMETRY Interchangeable
CHECK_DEADLOCK FALSE
