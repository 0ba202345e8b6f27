SPECIFICATION Spec
CONSTANTS
  r1 = r1
  r2 = r2
  Request = {r1, r2}
  Healer = healer
  Kinds = {"cancel", "staff", "leave", "markPaid"}
  Created = TRUE
  Amount = 2
  Fees = {0}
  Creation = creation
  Refund = {f1, f2}
  Redebit = {d1, d2}
  FeeOp = {}
  None = none
SYMMETRY Symmetry
CONSTRAINT AtMostUndecided
CHECK_DEADLOCK FALSE
INVARIANT ChargedExactly
INVARIANT NeverPaidAndRefunded
