SPECIFICATION FairSpec
CONSTANTS
  Watcher = {s1, s2}
  s1 = s1
  s2 = s2
  Branch = {b1}
  b1 = b1
  Item = {i1}
  i1 = i1
  Check = {c1}
  NoFile = NoFile
  Torn = Torn
  NoSeen = NoSeen
  Faults = {"callFails", "answerLost", "crash", "saveFails"}
  MaxRounds = 1
  MaxPR = 2
  MaxEvents = 3
INVARIANTS SaidAsMarked RoundsKept
PROPERTY NewsTold
CHECK_DEADLOCK FALSE
