SPECIFICATION LiveSpec
CONSTANTS
  r1 = r1
  r2 = r2
  Request = {r1}
  Healer = healer
  Kinds = {"create", "cancel", "staff", "leave", "markPaid", "fee"}
  Created = FALSE
  Amount = 2
  Fees = {0, 1}
  Creation = creation
  Refund = {f1}
  Redebit = {d1}
  FeeOp = {c1}
  None = none
CHECK_DEADLOCK FALSE
PROPERTY HealsCredit
PROPERTY HealsRedebit
PROPERTY HealsFee
PROPERTY HealsInit
