SPECIFICATION Spec
CONSTANTS
  r1 = r1
  r2 = r2
  r3 = r3
  o1 = o1
  o2 = o2
  Request = {r1, r2}
  OpId = {o1, o2}
  Currency = {"cup", "usd", "usdt"}
  Usdt = "usdt"
  Intent <- MCIntent
  Rate = {1, 2}
  FirstRate = 1
  Yield <- MCYield
  Opening <- MCOpening
  Fee = 1
  DustLimit = 0
  MarkerCap = 1
  PruneMin = 0
  Healer = {"h"}
  MaxChanges = 1
  NoOp = "noOp"
  NoRequest = "noRequest"
SYMMETRY Symmetry
INVARIANT DiscardedNeverMoves
CHECK_DEADLOCK FALSE
