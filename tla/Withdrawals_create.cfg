SPECIFICATION Spec
CONSTANTS
  r1 = r1
  r2 = r2
  Request = {r1, r2}
  Healer = healer
  Kinds = {"create", "cancel", "staff", "markPaid"}
  Created = FALSE
  Amount = 2
  Fees = {0, 1}
  Creation = creation
  Refund = {f1, f2}
  Redebit = {}
  FeeOp = {}
  None = none
SYMMETRY Symmetry
CHECK_DEADLOCK FALSE
INVARIANT ChargedExactly
INVARIANT FailedInitSettled
PROPERTY RefundNotDropped
PROPERTY ImplementsLedger
