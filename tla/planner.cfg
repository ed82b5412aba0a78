SPECIFICATION DegradedSpec
CONSTANTS
  NoWS = NoWS  NoPane = NoPane  NoBranch = NoBranch
  main = main  t1 = t1  t2 = t2  b1 = b1  b2 = b2  b2other = b2other
  w1 = w1  w2 = w2  p1 = p1  p2 = p2  p3 = p3
  CheckoutDir <- MCCheckoutDir
  Initial <- Everything
  MaxMoves = 1
  default = default  beside = beside  NoSession = NoSession
  Endpoints <- MCEndpoints
  Machines <- MCMachines
  Main <- MCMain
  Nothing <- MCNothing
  Path = t1  Name = b1  Space = w1  Seat = p1
  MaxCommits = 4  MaxPRs = 2
INVARIANTS EverythingAnswered GroundIsSpared RemovalIsMeant
PROPERTIES DoubtRemovesNothing 
CHECK_DEADLOCK FALSE
