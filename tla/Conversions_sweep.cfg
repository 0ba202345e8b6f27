SPECIFICATION FairSpec
CONSTANTS
  r1 = r1
  r2 = r2
  r3 = r3
  o1 = o1
  o2 = o2
  Request = {r1, r2}
  OpId = {o1}
  Currency = {"cup", "usd", "usdt"}
  Usdt = "usdt"
  Intent <- MCSell
  Rate = {1, 2}
  FirstRate = 1
  Yield <- MCYield
  Opening <- MCOpening
  Fee = 1
  DustLimit = 4
  MarkerCap = 1
  PruneMin = 0
  Healer = {"h"}
  MaxChanges = 0
  NoOp = "noOp"
  NoRequest = "noRequest"
INVARIANTS
  NeverBelowZero
  StatementExplains
PROPERTY EveryRowSettles
CHECK_DEADLOCK FALSE
