SPECIFICATION Spec
CONSTANTS
  r1 = r1
  r2 = r2
  r3 = r3
  o1 = o1
  o2 = o2
  Request = {r1, r2}
  OpId = {o1, o2}
  Currency = {"cup", "usdt"}
  Usdt = "usdt"
  Intent <- MCIntent
  Rate = {1, 2}
  FirstRate = 1
  Yield <- MCYield
  Opening <- MCAmple
  Fee = 1
  DustLimit = 0
  MarkerCap = 1
  PruneMin = 0
  Healer = {"h"}
  MaxChanges = 1
  NoOp = "noOp"
  NoRequest = "noRequest"
SYMMETRY Symmetry
INVARIANTS
  TypeOK
  RecordsTellTheTruth
  ReceiptsTellTheTruth
  OneMovePerIdentity
  IdentityFollowsIntent
CHECK_DEADLOCK FALSE
