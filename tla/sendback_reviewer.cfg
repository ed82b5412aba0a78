SPECIFICATION Spec
CONSTANTS
  Run = {r1, r2}
  r1 = r1
  r2 = r2
  Text = {t1, t2}
  t1 = t1
  t2 = t2
  Filed = t1
  NoText = NoText
  Check = {k1, k2}
  k1 = k1
  k2 = k2
  Readable = {k1, k2}
  Commands <- ReviewThenRework
  Faults = {}
  MaxChanges = 3
  MaxEvents = 0
INVARIANT SentToAWorker
CHECK_DEADLOCK FALSE
