SPECIFICATION Spec
CONSTANTS
  t1 = t1
  t2 = t2
  t3 = t3
  w1 = w1
  w2 = w2
  o1 = o1
  Task = {t1, t2}
  Withdrawal = {w1, w2}
  Op = {o1}
  Amount <- MCAmount
  Funds = 3
  Kinds = {"cash"}
  None = None
SYMMETRY TaskSymmetry
CHECK_DEADLOCK FALSE
PROPERTY ConfirmedStays
