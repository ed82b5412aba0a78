SPECIFICATION FairSpec
CONSTANTS
  h1 = h1  h2 = h2
  Host = {h1, h2}
  Issue = {1, 2}
  Nobody = Nobody
  MaxWorkers = 1
  Faults = {"gh", "git", "red", "herdr", "staff", "brief", "crash"}
  Scenes <- AllScenes
INVARIANTS CapKept OneWorker ClaimsStandForWork
PROPERTY QueueMoves
CHECK_DEADLOCK FALSE
