SPECIFICATION FairSpec
CONSTANTS
  r1 = r1  r2 = r2  w1 = w1  w2 = w2
  Human = Human  NoFile = NoFile  Unlinked = Unlinked
  Run = {r1, r2}
  Worker = {w1}
  Of <- Shared
  Faults = {"callFails", "answerLost", "crash"}
  MaxPolls = 1
  MaxEvents = 2
INVARIANT NothingElse
PROPERTIES Delivers ReportsEnd
CHECK_DEADLOCK FALSE
