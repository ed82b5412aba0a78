SPECIFICATION FairSpec
CONSTANTS
  NoWS = NoWS  NoPane = NoPane  NoBranch = NoBranch  NoTree = NoTree
  main = main  t1 = t1  b1 = b1  w1 = w1  w2 = w2
  p1 = p1  p2 = p2  r1 = r1  r2 = r2
  CheckoutDir <- MCCheckoutDir
  BranchOf <- Branches
  Trees <- OneTree
  Linked <- T1
  InBase = {}
  Spaces <- TwoSpaces
  PanesOf <- OnePaneEach
  Runner = {r1, r2}
  Serialised = TRUE
  HerdrFails = TRUE
  Scenes <- AllScenes
INVARIANTS NothingLost CommitsSurvive SyncConverges NothingTwice
PROPERTY RunnerEnds
CHECK_DEADLOCK FALSE
