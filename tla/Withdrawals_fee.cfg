SPECIFICATION Spec
CONSTANTS
  r1 = r1
  r2 = r2
  Request = {r1, r2}
  Healer = healer
  Kinds = {"cancel", "staff", "leave", "fee"}
  Created = TRUE
  Amount = 2
  Fees = {0, 1}
  Creation = creation
  Refund = {f1}
  Redebit = {d1}
  FeeOp = {c1, c2}
  None = none
SYMMETRY Symmetry
CONSTRAINT Unstrayed
CHECK_DEADLOCK FALSE
INVARIANT TypeOK
INVARIANT ChargedExactly
