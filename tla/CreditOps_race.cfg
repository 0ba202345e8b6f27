SPECIFICATION Spec
CONSTANTS
  t1 = t1
  t2 = t2
  t3 = t3
  c1 = c1
  d1 = d1
  d2 = d2
  Task = {t1, t2}
  Credit = {c1}
  Debit = {d1, d2}
  Forced = {}
  Amount <- MCAmount
  Opening = 3
  Tolerance = 2
  Once = {d1}
SYMMETRY TaskSymmetry
INVARIANTS
  TypeOK
  LogTellsTheTruth
  NoOverdraft
  BurnLoopSuffices
  UndoneOnlyIfCharged
  BurnIsFinal
PROPERTY ImplementsLedger
