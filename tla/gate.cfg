SPECIFICATION FairSpec
CONSTANTS
  a = a  b = b  ws1 = ws1  ws2 = ws2  x = x
  Earlier = Earlier  NoReport = NoReport  NoPane = NoPane
  Pane = {a, b}
  Targets <- Both
  WsOf <- Places
  Writer = {x}
  Of <- One
  Answered = {a}
  Until = {"done"}
  Mode = "pr"
  MetadataOnly = FALSE
  Faults = {"baselineFails", "writeFails", "clears", "streamFails", "ghFails"}
  Window = 3
  Says = {"blocked", "done"}
  MaxEvents = 1
INVARIANTS NotStale NoSleepOnNews HeardBeforeLost
PROPERTY GateEnds
CHECK_DEADLOCK FALSE
